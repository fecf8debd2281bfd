------------------------------- MODULE Store -------------------------------
(***************************************************************************)
(* The SQLite store of RequestLens: the tables proxy_rules and http_logs   *)
(* as sets of rows, and one operator per SQL statement the program runs.   *)
(*                                                                         *)
(* The database handle is limited to one connection, so statements run one *)
(* at a time and each of them is one atomic step.  The SQL console is the  *)
(* exception that matters: it keeps the connection while it iterates over  *)
(* its rows, and every other statement waits meanwhile.                    *)
(***************************************************************************)
EXTENDS Integers, FiniteSets, SequencesExt

CONSTANTS
    RulePrefixes,      \* path prefixes a rule may have, as sequences of segments
    InitialRules,  \* the rows of proxy_rules in the file the server opens
    InitialSeq     \* sqlite_sequence of proxy_rules in that file

\* SQL NULL in http_logs.rule_id; ids handed out by the table start at 1.
NoRule == 0

RuleRows == [id: Nat \ {NoRule}, prefix: RulePrefixes, enabled: BOOLEAN, local: BOOLEAN]

Ids(rs) == {r.id : r \in rs}

\* UNIQUE(prefix) and the primary key of proxy_rules.
KeysHold(rs) ==
    \A r, s \in rs : (r.id = s.id \/ r.prefix = s.prefix) => r = s

ASSUME StoreAssumption ==
    /\ RulePrefixes \subseteq Seq(STRING)
    /\ InitialSeq \in Nat
    /\ InitialRules \subseteq RuleRows
    /\ \A r \in InitialRules : r.id <= InitialSeq
    /\ KeysHold(InitialRules)

VARIABLES
    rules,    \* rows of proxy_rules
    ruleSeq,  \* largest id proxy_rules ever handed out (AUTOINCREMENT)
    logs,     \* rows of http_logs
    busy      \* the SQL console holds the only connection

storeVars == <<rules, ruleSeq, logs, busy>>

StoreInit ==
    /\ rules = InitialRules
    /\ ruleSeq = InitialSeq
    /\ logs = {}
    /\ busy = FALSE

-----------------------------------------------------------------------------
(* Statements on proxy_rules *)

PrefixFree(p, id) == \A r \in rules : r.prefix = p => r.id = id

\* Mutant: the table hands out the largest id in use plus one.
InsertRuleReusingId(draft) ==
    /\ ~busy
    /\ PrefixFree(draft.prefix, NoRule)
    /\ LET id == 1 + (IF rules = {} THEN 0 ELSE Max(Ids(rules))) IN
          /\ rules' = rules \cup {[draft EXCEPT !.id = id]}
          /\ ruleSeq' = id
    /\ UNCHANGED <<logs, busy>>

\* Mutant: the row is stored under the id it came with.
InsertRuleUnnumbered(draft) ==
    /\ ~busy
    /\ PrefixFree(draft.prefix, NoRule)
    /\ ruleSeq' = ruleSeq + 1
    /\ rules' = rules \cup {draft}
    /\ UNCHANGED <<logs, busy>>

\* INSERT INTO proxy_rules; AUTOINCREMENT never hands out an id again.
InsertRule(draft) ==
    /\ ~busy
    /\ PrefixFree(draft.prefix, NoRule)
    /\ ruleSeq' = ruleSeq + 1
    /\ rules' = rules \cup {[draft EXCEPT !.id = ruleSeq + 1]}
    /\ UNCHANGED <<logs, busy>>

\* Mutant: no UNIQUE constraint on the prefix.
UpdateRowUnchecked(draft) ==
    /\ ~busy
    /\ rules' = {IF r.id = draft.id THEN draft ELSE r : r \in rules}
    /\ UNCHANGED <<ruleSeq, logs, busy>>

\* Mutant: INSERT OR REPLACE in place of UPDATE.
UpdateRowOrInsert(draft) ==
    /\ ~busy
    /\ PrefixFree(draft.prefix, draft.id)
    /\ rules' = {r \in rules : r.id # draft.id} \cup {draft}
    /\ UNCHANGED <<ruleSeq, logs, busy>>

\* UPDATE proxy_rules SET ... WHERE id = draft.id; it matches one row or none.
UpdateRow(draft) ==
    /\ ~busy
    /\ draft.id \in Ids(rules) => PrefixFree(draft.prefix, draft.id)
    /\ rules' = {IF r.id = draft.id THEN draft ELSE r : r \in rules}
    /\ UNCHANGED <<ruleSeq, logs, busy>>

\* UPDATE proxy_rules SET enabled = on WHERE id = id.
UpdateEnabled(id, on) ==
    /\ ~busy
    /\ rules' = {IF r.id = id THEN [r EXCEPT !.enabled = on] ELSE r : r \in rules}
    /\ UNCHANGED <<ruleSeq, logs, busy>>

\* DELETE FROM proxy_rules; ON DELETE SET NULL detaches the rows of http_logs.
DeleteRow(id) ==
    /\ ~busy
    /\ rules' = {r \in rules : r.id # id}
    /\ logs' = {IF l.rule = id THEN [l EXCEPT !.rule = NoRule] ELSE l : l \in logs}
    /\ UNCHANGED <<ruleSeq, busy>>

-----------------------------------------------------------------------------
(* Statements on http_logs *)

\* The foreign key of http_logs.rule_id, which is on for the connection.
RuleKeyHolds(id) == id = NoRule \/ id \in Ids(rules)

InsertLogRow(row) ==
    /\ ~busy
    /\ RuleKeyHolds(row.rule)
    /\ logs' = logs \cup {row}
    /\ UNCHANGED <<rules, ruleSeq, busy>>

\* The constraint refuses the row: the statement changes nothing.
InsertLogRefused(row) ==
    /\ ~busy
    /\ ~RuleKeyHolds(row.rule)
    /\ UNCHANGED storeVars

\* DELETE FROM http_logs WHERE id = ?
DeleteLog ==
    /\ ~busy
    /\ \E l \in logs : logs' = logs \ {l}
    /\ UNCHANGED <<rules, ruleSeq, busy>>

\* DELETE FROM http_logs, optionally only rows of one rule and only rows that
\* started before a time; "old" stands for the rows the time selects.
DeleteLogs ==
    /\ ~busy
    /\ \E old \in SUBSET logs, id \in Ids(rules) \cup {NoRule} :
          logs' = logs \ {l \in old : id = NoRule \/ l.rule = id}
    /\ UNCHANGED <<rules, ruleSeq, busy>>

-----------------------------------------------------------------------------
(* The SQL console *)

\* QueryContext takes the connection and the rows keep it ...
QueryDatabaseStarts ==
    /\ ~busy
    /\ busy' = TRUE
    /\ UNCHANGED <<rules, ruleSeq, logs>>

\* ... until the result is read, refused or abandoned and rows.Close runs.
QueryDatabaseEnds ==
    /\ busy
    /\ busy' = FALSE
    /\ UNCHANGED <<rules, ruleSeq, logs>>

StoreNext ==
    \/ DeleteLog
    \/ DeleteLogs
    \/ QueryDatabaseStarts
    \/ QueryDatabaseEnds

=============================================================================
