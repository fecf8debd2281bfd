----------------------------- MODULE MCLifecycle -----------------------------
(***************************************************************************)
(* An instance of Lifecycle for TLC: four days, on one of which the clock  *)
(* is read at two times.                                                   *)
(***************************************************************************)
EXTENDS Lifecycle

MCInstants ==
    {[day |-> d, sec |-> s, frac |-> 0] : d \in 1..3, s \in {10}}
        \cup {[day |-> d, sec |-> 20, frac |-> 5] : d \in {1, 3}}

=============================================================================
