------------------------------- MODULE MCTunnel -------------------------------
(* The instance of Tunnel for TLC: three messages per side, so that one may *)
(* be early, one in a copier's hand and one on the wire.                    *)
EXTENDS Tunnel

MCMaxSent == 3

=============================================================================
