----------------------------- MODULE RequestLog -----------------------------
(***************************************************************************)
(* What the log of RequestLens promises of the exchanges the proxy serves, *)
(* whatever happens to rules, clients, statements and the process:         *)
(* an exchange comes to one outcome and keeps it, its row is written in    *)
(* the step that records it and in no other, and a row that has been       *)
(* deleted does not come back.                                             *)
(***************************************************************************)
CONSTANT Exchanges

VARIABLES
    outcome,  \* of each exchange: open, recorded, or dropped without a row
    journal   \* exchanges that have a row in http_logs

logVars == <<outcome, journal>>

LogInit ==
    /\ outcome \in [Exchanges -> {"open", "recorded"}]
    /\ journal \in SUBSET {x \in Exchanges : outcome[x] = "recorded"}

Record(x) ==
    /\ outcome[x] = "open"
    /\ outcome' = [outcome EXCEPT ![x] = "recorded"]
    /\ journal' = journal \cup {x}

\* Several exchanges are dropped at once when the process ends.
Drop(X) ==
    /\ \A x \in X : outcome[x] = "open"
    /\ outcome' = [x \in Exchanges |-> IF x \in X THEN "dropped" ELSE outcome[x]]
    /\ UNCHANGED journal

\* Rows are deleted by the retention and by callers of the API.
Forget(X) ==
    /\ journal' = journal \ X
    /\ UNCHANGED outcome

LogNext ==
    \/ \E x \in Exchanges : Record(x)
    \/ \E X \in SUBSET Exchanges : Drop(X) \/ Forget(X)

LogSpec == LogInit /\ [][LogNext]_logVars

=============================================================================
