---------------------------- MODULE MCSharedCapture ----------------------------
(***************************************************************************)
(* An instance of SharedCapture for TLC: no limit (as 0 and as a negative value),  *)
(* and limits below, at and between the sums of the chunks.                *)
(***************************************************************************)
EXTENDS SharedCapture

MCLimits == {-1, 0, 1, 4, 6}

=============================================================================
