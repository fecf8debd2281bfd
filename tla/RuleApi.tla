------------------------------- MODULE RuleApi -------------------------------
(***************************************************************************)
(* The rule endpoints of the management API.  Each call runs in its own    *)
(* goroutine and reaches the store one statement at a time, so calls and   *)
(* proxied requests interleave between any two statements of a call.       *)
(*                                                                         *)
(* A call writes and then reads its row back with a second statement; an   *)
(* update also reads the row first and writes the merge of that copy and   *)
(* the fields the payload names.                                           *)
(***************************************************************************)
EXTENDS Store

CONSTANTS
    Calls,     \* the calls clients make
    Op,        \* Op[c]: "create", "update", "enable", "disable" or "delete"
    Target,    \* Target[c]: the id in the URL (NoRule for a create)
    Payload    \* Payload[c]: what the body says, <<>> and {} for absent fields

\* A field of the payload is a pointer in the code: the prefix is <<>> and a
\* flag is {} when the body does not name it.
Payloads == [prefix: RulePrefixes \cup {<<>>}, enabled: SUBSET BOOLEAN, local: SUBSET BOOLEAN]

ASSUME CallAssumption ==
    /\ Op \in [Calls -> {"create", "update", "enable", "disable", "delete"}]
    /\ Target \in [Calls -> Nat]
    /\ Payload \in [Calls -> Payloads]
    /\ \A c \in Calls : Cardinality(Payload[c].enabled) <= 1
                     /\ Cardinality(Payload[c].local) <= 1

VARIABLES
    callPc,  \* where the handler of a call stands
    draft,   \* the row the handler is about to write
    newId,   \* LastInsertId of a create
    gone,    \* the caller went away: the context of the call is cancelled
    reply    \* status code answered, 0 before

apiVars == <<callPc, draft, newId, gone, reply>>

\* ruleID of a create is not known before the insert.
BlankRow(p) == [id |-> NoRule, prefix |-> p, enabled |-> TRUE, local |-> FALSE]

ApiInit ==
    /\ callPc = [c \in Calls |-> "start"]
    /\ draft = [c \in Calls |-> BlankRow(<<>>)]
    /\ newId = [c \in Calls |-> NoRule]
    /\ gone = [c \in Calls |-> FALSE]
    /\ reply = [c \in Calls |-> 0]

-----------------------------------------------------------------------------
(* buildRuleFromPayload *)

Flag(field, old) == IF field = {} THEN old ELSE CHOOSE b \in field : TRUE

\* The copy of the row (or the defaults) overlaid with the named fields.
Merge(payload, old) ==
    [old EXCEPT !.prefix = IF payload.prefix = <<>> THEN @ ELSE payload.prefix,
                !.enabled = Flag(payload.enabled, @),
                !.local = Flag(payload.local, @)]

\* The empty prefix and the prefixes of the program's own routes are refused.
ValidRule(row) == row.prefix # <<>> /\ Head(row.prefix) \notin {"api", "assets"}

-----------------------------------------------------------------------------
(* Steps of a call *)

Goto(c, to) == callPc' = [callPc EXCEPT ![c] = to]

Answer(c, code) ==
    /\ Goto(c, "done")
    /\ reply' = [reply EXCEPT ![c] = code]

\* What a store error turns into: create and update answer 400 to anything,
\* the other handlers go through writeStoreError.
StoreError(c, missing) ==
    IF Op[c] \in {"create", "update"} THEN 400 ELSE IF missing THEN 404 ELSE 500

\* The caller goes away; the server notices once the body has been read, which
\* createRule and updateRule do just before their write.
CallerLeaves(c) ==
    /\ callPc[c] \in {"write", "reread"}
    /\ ~gone[c]
    /\ gone' = [gone EXCEPT ![c] = TRUE]
    /\ UNCHANGED <<callPc, draft, newId, reply, storeVars>>

\* createRule up to the insert: decode, overlay the defaults, validate.
CreateBegins(c) ==
    /\ callPc[c] = "start" /\ Op[c] = "create"
    /\ LET row == Merge(Payload[c], BlankRow(<<>>)) IN
          IF ValidRule(row)
          THEN Goto(c, "write") /\ draft' = [draft EXCEPT ![c] = row] /\ UNCHANGED reply
          ELSE Answer(c, 400) /\ UNCHANGED draft
    /\ UNCHANGED <<newId, gone, storeVars>>

\* updateRule: GetRule, then merge the payload into that copy and validate.
UpdateReads(c) ==
    /\ callPc[c] = "start" /\ Op[c] = "update"
    /\ ~busy
    /\ \/ /\ Target[c] \notin Ids(rules)
          /\ Answer(c, 404)
          /\ UNCHANGED draft
       \/ \E r \in rules :
             /\ r.id = Target[c]
             /\ LET row == Merge(Payload[c], r) IN
                   IF ValidRule(row)
                   THEN Goto(c, "write") /\ draft' = [draft EXCEPT ![c] = row] /\ UNCHANGED reply
                   ELSE Answer(c, 400) /\ UNCHANGED draft
    /\ UNCHANGED <<newId, gone, storeVars>>

\* setRuleEnabled and deleteRule go straight to their statement.
DirectCall(c) ==
    /\ callPc[c] = "start" /\ Op[c] \in {"enable", "disable", "delete"}
    /\ Goto(c, "write")
    /\ UNCHANGED <<draft, newId, gone, reply, storeVars>>

\* A statement on a cancelled context fails and changes nothing.
StatementCancelled(c) ==
    /\ callPc[c] \in {"write", "reread"}
    /\ gone[c]
    /\ Answer(c, StoreError(c, FALSE))
    /\ UNCHANGED <<draft, newId, gone, storeVars>>

Writing(c, op) == callPc[c] = "write" /\ Op[c] = op /\ ~gone[c]

CreateRule(c) ==
    /\ Writing(c, "create")
    /\ InsertRule(draft[c])
    /\ newId' = [newId EXCEPT ![c] = ruleSeq']
    /\ Goto(c, "reread")
    /\ UNCHANGED <<draft, gone, reply>>

UpdateRule(c) ==
    /\ Writing(c, "update")
    /\ UpdateRow(draft[c])
    /\ Goto(c, "reread")
    /\ UNCHANGED <<draft, newId, gone, reply>>

\* UNIQUE(prefix) refuses the insert or the update.
PrefixTaken(c) ==
    /\ Writing(c, "create") \/ Writing(c, "update")
    /\ ~busy
    /\ ~PrefixFree(draft[c].prefix, draft[c].id)
    /\ Op[c] = "update" => draft[c].id \in Ids(rules)
    /\ Answer(c, StoreError(c, FALSE))
    /\ UNCHANGED <<draft, newId, gone, storeVars>>

SetRuleEnabled(c) ==
    /\ Writing(c, "enable") \/ Writing(c, "disable")
    /\ UpdateEnabled(Target[c], Op[c] = "enable")
    /\ Goto(c, "reread")
    /\ UNCHANGED <<draft, newId, gone, reply>>

DeleteRule(c) ==
    /\ Writing(c, "delete")
    /\ DeleteRow(Target[c])
    /\ Answer(c, 200)
    /\ UNCHANGED <<draft, newId, gone>>

\* Mutant: the row is read back under the id of the request, not LastInsertId.
RowOfTarget(c) == Target[c]

RowOf(c) == IF Op[c] = "create" THEN newId[c] ELSE Target[c]

\* GetRule after the write finds the row, or finds it deleted meanwhile.
RowReread(c) ==
    /\ callPc[c] = "reread"
    /\ ~busy /\ ~gone[c]
    /\ Answer(c, IF RowOf(c) \notin Ids(rules) THEN StoreError(c, TRUE)
                 ELSE IF Op[c] = "create" THEN 201 ELSE 200)
    /\ UNCHANGED <<draft, newId, gone, storeVars>>

ApiStep(c) ==
    \/ CallerLeaves(c)
    \/ CreateBegins(c)
    \/ UpdateReads(c)
    \/ DirectCall(c)
    \/ StatementCancelled(c)
    \/ CreateRule(c)
    \/ UpdateRule(c)
    \/ PrefixTaken(c)
    \/ SetRuleEnabled(c)
    \/ DeleteRule(c)
    \/ RowReread(c)

ApiNext == \E c \in Calls : ApiStep(c)

=============================================================================
