----------------------------- MODULE MCLogViews -----------------------------
(***************************************************************************)
(* Three exchanges: two begin within one second, where the order of texts  *)
(* is not that of the instants, and one begins a second later.             *)
(***************************************************************************)
EXTENDS LogViews

At(sec, frac) == [day |-> 1, sec |-> sec, frac |-> frac]

MCStarted ==
    [x \in Exchanges |-> CASE x = "a" -> At(10, 0) [] x = "b" -> At(10, 50) [] x = "c" -> At(11, 5)]

MCRuleOf == [x \in Exchanges |-> IF x = "b" THEN NoRule ELSE 1]

MCCategory == [r \in Rules |-> "chat"]

MCFilters ==
    {NoFilter,
     [NoFilter EXCEPT !.rule = 1],
     [NoFilter EXCEPT !.category = "chat"],
     [NoFilter EXCEPT !.from = RFC3339Nano(At(10, 50))]}

\* A list page holds at most two rows.  The console's list and its filters need
\* one exchange, which rule 1 did not serve; ids can be mixed up with two.
MCInFlight ==
    [c \in Clients |->
        CASE c = "reader" -> Exchanges [] c = "list" -> {"b"} [] c = "details" -> {"a", "b"}
          [] c = "visitor" -> {}]

=============================================================================
