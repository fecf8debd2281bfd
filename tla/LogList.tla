------------------------------- MODULE LogList -------------------------------
(***************************************************************************)
(* The rows of http_logs as the log endpoints list, filter and delete      *)
(* them.  A row is written when its exchange ends and carries the time at  *)
(* which the exchange began, so rows do not come in the order in which     *)
(* they are listed.                                                        *)
(***************************************************************************)
EXTENDS LogTime, FiniteSets, FiniteSetsExt

CONSTANTS
    Exchanges,
    Started,       \* when each exchange began
    RuleOf,        \* the rule each exchange was matched to, or NoRule
    Rules,         \* ids of rules
    Category,      \* of each rule
    Filters,       \* filters that clients use
    DefaultLimit,  \* rows of a page whose limit is not given: 50
    MaxLimit       \* the most rows of a page: 500

NoRule == 0
Any == "any"  \* the filter does not ask for a category, or for a time

\* A filter as parseLogFilter leaves it.  The conditions on columns that never
\* change (method, status, content type, flags, errors, the search) are taken
\* together as the set of exchanges that satisfy them.
FilterType ==
    [rule: Rules \cup {NoRule}, category: {Category[r] : r \in Rules} \cup {Any},
     from: {<<>>} \cup Seq(Nat), to: {<<>>} \cup Seq(Nat), columns: SUBSET Exchanges]

ASSUME LogListAssumption ==
    /\ Started \in [Exchanges -> Instant]
    /\ RuleOf \in [Exchanges -> Rules \cup {NoRule}]
    /\ Rules \subseteq Nat \ {NoRule}
    /\ Any \notin {Category[r] : r \in Rules}
    /\ Filters \subseteq FilterType
    /\ MaxLimit \in Nat /\ DefaultLimit \in 1..MaxLimit

NoFilter ==
    [rule |-> NoRule, category |-> Any, from |-> <<>>, to |-> <<>>, columns |-> Exchanges]

VARIABLES
    table,    \* rows of http_logs
    lastId,   \* largest id http_logs ever handed out (AUTOINCREMENT)
    alive,    \* rules in proxy_rules
    pending   \* exchanges whose handler has not ended

tableVars == <<table, lastId, alive, pending>>

TableInit(inFlight) ==
    /\ table = {}
    /\ lastId = 0
    /\ alive = Rules
    /\ pending = inFlight

RowIds(rows) == {r.id : r \in rows}

-----------------------------------------------------------------------------
(* Which rows, in which order *)

StartedText == [x \in Exchanges |-> RFC3339Nano(Started[x])]

StartText(r) == StartedText[r.exchange]

\* buildLogWhere; the category is that of the rule the row is joined with.
Selected(f) ==
    {r \in table :
        /\ f.rule # NoRule => r.rule = f.rule
        /\ f.category # Any => r.rule \in alive /\ Category[r.rule] = f.category
        /\ f.from # <<>> => ~TextBefore(StartText(r), f.from)
        /\ f.to # <<>> => ~TextBefore(f.to, StartText(r))
        /\ r.exchange \in f.columns}

\* Mutant: ORDER BY id DESC.
ListedBeforeById(r, s) == r.id > s.id

\* ORDER BY started_at DESC, id DESC
ListedBefore(r, s) ==
    \/ TextBefore(StartText(s), StartText(r))
    \/ StartText(s) = StartText(r) /\ r.id > s.id

Rank(r, f) == Cardinality({s \in Selected(f) : ListedBefore(s, r)})

\* Mutant: limit and offset are bound in the wrong order.
WindowSwapped(f, limit, offset) ==
    {r \in Selected(f) : limit <= Rank(r, f) /\ Rank(r, f) < limit + offset}

\* Mutant: an offset that is given counts from one.
WindowFromOne(f, limit, offset) ==
    LET from == IF offset > 0 THEN offset - 1 ELSE 0
    IN {r \in Selected(f) : from <= Rank(r, f) /\ Rank(r, f) < from + limit}

\* LIMIT ? OFFSET ? on the rows a filter selects.
Window(f, limit, offset) ==
    {r \in Selected(f) : offset <= Rank(r, f) /\ Rank(r, f) < offset + limit}

\* A limit that is not given is DefaultLimit, one too large is cut.
PageLimit(limit) ==
    IF limit <= 0 THEN DefaultLimit ELSE IF limit > MaxLimit THEN MaxLimit ELSE limit

-----------------------------------------------------------------------------
(* Statements that change the tables *)

\* Mutant: the table hands out the largest id in use plus one.
InsertLogReusingId(x) ==
    /\ x \in pending
    /\ pending' = pending \ {x}
    /\ IF RuleOf[x] \in alive \cup {NoRule}
       THEN LET id == 1 + (IF table = {} THEN 0 ELSE Max(RowIds(table)))
            IN /\ table' = table \cup {[id |-> id, exchange |-> x, rule |-> RuleOf[x]]}
               /\ lastId' = id
       ELSE UNCHANGED <<table, lastId>>
    /\ UNCHANGED alive

\* InsertLog; the foreign key refuses a row whose rule is gone.
InsertLog(x) ==
    /\ x \in pending
    /\ pending' = pending \ {x}
    /\ IF RuleOf[x] \in alive \cup {NoRule}
       THEN /\ table' = table \cup {[id |-> lastId + 1, exchange |-> x, rule |-> RuleOf[x]]}
            /\ lastId' = lastId + 1
       ELSE UNCHANGED <<table, lastId>>
    /\ UNCHANGED alive

\* DELETE FROM http_logs WHERE id = ?
DeleteLog(id) ==
    /\ table' = {r \in table : r.id # id}
    /\ UNCHANGED <<lastId, alive, pending>>

\* Mutant: the time is converted with datetime() first.
NamedByDatetime(before, rule) ==
    {r \in table : /\ before # <<>> => TextBefore(StartText(r), <<before[1], Blank, before[3]>>)
                   /\ rule # NoRule => r.rule = rule}

\* The rows that DELETE /api/logs names: those before a time, those of a rule.
Named(before, rule) ==
    {r \in table : /\ before # <<>> => TextBefore(StartText(r), before)
                   /\ rule # NoRule => r.rule = rule}

DeleteLogs(before, rule) ==
    /\ table' = table \ Named(before, rule)
    /\ UNCHANGED <<lastId, alive, pending>>

\* DELETE FROM proxy_rules detaches the rows of the rule.
DeleteRule(rule) ==
    /\ rule \in alive
    /\ alive' = alive \ {rule}
    /\ table' = {IF r.rule = rule THEN [r EXCEPT !.rule = NoRule] ELSE r : r \in table}
    /\ UNCHANGED <<lastId, pending>>

TableNext ==
    \/ \E x \in Exchanges : InsertLog(x)
    \/ \E id \in RowIds(table) : DeleteLog(id)
    \/ \E f \in Filters : DeleteLogs(f.from, f.rule)
    \/ \E rule \in alive : DeleteRule(rule)

-----------------------------------------------------------------------------
(* Properties *)

TableTypeOK ==
    /\ lastId \in Nat
    /\ table \subseteq [id: 1..lastId, exchange: Exchanges, rule: Rules \cup {NoRule}]
    /\ alive \subseteq Rules
    /\ pending \subseteq Exchanges

\* The first page holds the newest exchanges although rows are written in the
\* order in which exchanges end and ordered as texts: a row that is left out
\* began before those on the page, or within the same second.
FirstPageIsNewest ==
    \A f \in Filters, limit \in 1..MaxLimit :
        LET first == Window(f, limit, 0) IN
        \A r \in first, s \in Selected(f) \ first :
            Earlier(Started[r.exchange], Started[s.exchange]) =>
                SameSecond(Started[r.exchange], Started[s.exchange])

\* Where a text is compared with the time an exchange began (a deletion before a
\* time, a list from or to a time), the result is that of the instants but for
\* exchanges that began within the second the text names.
TimesHoldToTheSecond ==
    \A r \in table, x \in Exchanges :
        LET t == Started[x]
            text == RFC3339Nano(t)
            earlier == Earlier(Started[r.exchange], t)
            from == [NoFilter EXCEPT !.from = text]
            to == [NoFilter EXCEPT !.to = text]
        IN SameSecond(Started[r.exchange], t)
           \/ /\ r \in Named(text, NoRule) <=> earlier
              /\ r \in Selected(from) <=> ~earlier
              /\ r \in Selected(to) <=> earlier

=============================================================================
