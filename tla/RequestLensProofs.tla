--------------------------- MODULE RequestLensProofs ---------------------------
(***************************************************************************)
(* Proofs about the composed server, for any requests, calls and rules.    *)
(*                                                                         *)
(* The inductive invariant ties each request to the rule it was matched to *)
(* and each log row to the request it is about; the parts are named after  *)
(* what they speak of.                                                     *)
(***************************************************************************)
EXTENDS RequestLens, WellFoundedInduction, TLAPS

\* The keys of proxy_rules hold, and the sequence is ahead of every id.
KeysInv ==
    /\ RulesHaveKeys
    /\ \A r \in rules : r.id <= ruleSeq

\* A row about to be written has passed the validation.
DraftInv ==
    \A c \in Calls :
        callPc[c] = "write" /\ Op[c] \in {"create", "update"} =>
            draft[c].prefix \in RulePrefixes

\* The rule of a request exists, or its deletion is on record.
LinkOf(q) ==
    /\ matched[q] <= ruleSeq
    /\ q \in orphaned => matched[q] # NoRule /\ matched[q] \notin Ids(rules)
    /\ matched[q] = NoRule \/ matched[q] \in Ids(rules) \/ q \in orphaned
    /\ pc[q] = "load" => matched[q] = NoRule

LinkInv == \A q \in Requests : LinkOf(q)

\* A row repeats what the handler of its request held at the end.
LogInv ==
    \A l \in logs :
        /\ RuleKeyHolds(l.rule)
        /\ pc[l.req] = "done"
        /\ l.rule \in {NoRule, matched[l.req]}
        /\ l.status = status[l.req]
        /\ l.error = ErrorMessage(l.req)

\* Which status, error and fate go with which step of a request.
FlowOf(q) ==
    /\ pc[q] \in {"load", "body", "upstream"} => status[q] = 0
    /\ pc[q] \in {"relay", "flush"} => status[q] = 200
    /\ status[q] = 502 => proxyError[q] \in {"upstream", "canceled"}
    /\ proxyError[q] = "canceled" => canceled[q]
    /\ mode[q] = "detached" => canceled[q]
    /\ pc[q] # "done" => fate[q] = "pending"
    /\ fate[q] \in {"unlogged", "canceled"} => canceled[q]
    /\ fate[q] = "canceled" => mode[q] = "request"
    /\ fate[q] = "deadline" => mode[q] = "detached"
    /\ fate[q] = "constraint" => q \in orphaned

FlowInv == \A q \in Requests : FlowOf(q)

RequestInv == LinkInv /\ LogInv /\ FlowInv

Inv == TypeOK /\ KeysInv /\ DraftInv /\ RequestInv

-----------------------------------------------------------------------------
(* Initial states *)

LEMMA InitInv == Init => Inv
<1> SUFFICES ASSUME Init PROVE Inv
  OBVIOUS
<1> USE DEF Init, StoreInit, ProxyInit, ApiInit
<1>1. TypeOK
  BY StoreAssumption, RequestAssumption
  DEF StoreAssumption, RequestAssumption, TypeOK, ProxyTypeOK, ApiTypeOK, Errors, NoRule,
      BlankRow
<1>2. KeysInv
  BY StoreAssumption DEF StoreAssumption, KeysInv, RulesHaveKeys
<1>3. DraftInv
  BY DEF DraftInv
<1>4. RequestInv
  <2>1. LinkInv
    BY StoreAssumption DEF StoreAssumption, LinkInv, LinkOf, NoRule
  <2>2. LogInv
    BY DEF LogInv
  <2>3. FlowInv
    BY DEF FlowInv, FlowOf
  <2>4. QED
    BY <2>1, <2>2, <2>3 DEF RequestInv
<1>5. QED
  BY <1>1, <1>2, <1>3, <1>4 DEF Inv

-----------------------------------------------------------------------------
(* Steps of a request *)

\* Only the insert of a log row touches the store.
LEMMA ProxyFrame ==
  ASSUME NEW q \in Requests, ProxyStep(q)
  PROVE  /\ UNCHANGED <<rules, ruleSeq, busy>>
         /\ LogStored(q) \/ logs' = logs
<1> USE DEF storeVars
<1>1. CASE HandlerStep(q)
  <2>1. CASE Insert(q)
    BY <2>1 DEF Insert, LogStored, LogRefused, InsertCanceled, InsertTimesOut, InsertLogRow,
                InsertLogRefused
  <2>2. CASE ListRulesFails(q) \/ NoRuleMatches(q) \/ AnswerPreflight(q) \/ RuleMatches(q)
    BY <2>2 DEF ListRulesFails, NoRuleMatches, AnswerPreflight, RuleMatches
  <2>3. CASE StreamBody(q) \/ BufferBody(q) \/ BodyReadFails(q)
    BY <2>3 DEF StreamBody, BufferBody, BodyReadFails, Send
  <2>4. CASE RoundTripFails(q) \/ RoundTripCanceled(q) \/ UpstreamAnswers(q)
    BY <2>4 DEF RoundTripFails, RoundTripCanceled, UpstreamAnswers
  <2>5. CASE \/ RelayReads(q) \/ RelayWrites(q)
             \/ RelayEnds(q) \/ RelayWriteFails(q) \/ RelayCanceled(q)
    BY <2>5 DEF RelayReads, RelayWrites, RelayEnds, RelayWriteFails, RelayCanceled
  <2>6. CASE UpgradeRefused(q) \/ UpgradeHijacks(q) \/ TunnelEnds(q) \/ ChooseContext(q)
    BY <2>6 DEF UpgradeRefused, UpgradeHijacks, TunnelEnds, ChooseContext
  <2>7. QED
    BY <1>1, <2>1, <2>2, <2>3, <2>4, <2>5, <2>6 DEF HandlerStep
<1>2. CASE ClientLeaves(q) \/ UploadEnds(q) \/ UploadBreaks(q)
  BY <1>2 DEF ClientLeaves, UploadEnds, UploadBreaks
<1>3. QED
  BY <1>1, <1>2 DEF ProxyStep

\* A set of numbers with an upper bound has a largest one.
LEMMA Largest ==
  ASSUME NEW S \in SUBSET Nat, S # {}, NEW bound \in Nat, \A n \in S : n <= bound
  PROVE  \E m \in S : \A n \in S : n <= m
<1> DEFINE Gaps == {bound - n : n \in S}
<1>1. Gaps \subseteq Nat /\ Gaps # {}
  <2>1. \A n \in S : n \in Nat /\ n <= bound /\ bound - n \in Nat
    OBVIOUS
  <2>2. QED
    BY <2>1
<1>2. PICK g \in Gaps : \A h \in Gaps : <<h, g>> \notin OpToRel(<, Nat)
  BY <1>1, NatLessThanWellFounded, WFMin
<1>3. \A h \in Gaps : ~(h < g)
  BY <1>1, <1>2 DEF OpToRel
<1>4. PICK m \in S : g = bound - m
  OBVIOUS
<1>5. ASSUME NEW n \in S PROVE n <= m
  <2>1. bound - n \in Gaps
    OBVIOUS
  <2>2. ~(bound - n < bound - m)
    BY <1>3, <1>4, <2>1
  <2>3. n \in Nat /\ m \in Nat
    OBVIOUS
  <2>4. QED
    BY <2>2, <2>3
<1>6. QED
  BY <1>5

\* The prefixes a path extends are no longer than the path, so one of the rules
\* that match has the longest prefix, and it is what matchRule returns.
LEMMA MatchIsARule ==
  ASSUME TypeOK, NEW q \in Requests, Hits(Path[q]) # {}
  PROVE  /\ MatchRule(Path[q]) \in rules
         /\ MatchRule(Path[q]).enabled /\ Matches(MatchRule(Path[q]), Path[q])
         /\ \A o \in Hits(Path[q]) : Len(o.prefix) <= Len(MatchRule(Path[q]).prefix)
<1> DEFINE H == Hits(Path[q])
           Lengths == {Len(r.prefix) : r \in H}
<1>1. Len(Path[q]) \in Nat
  BY RequestAssumption DEF RequestAssumption
<1>2. \A r \in H : Len(r.prefix) \in Nat /\ Len(r.prefix) <= Len(Path[q])
  BY StoreAssumption DEF StoreAssumption, TypeOK, RuleRows, Hits, Matches, IsPrefix
<1>3. PICK m \in Lengths : \A n \in Lengths : n <= m
  <2>1. Lengths \in SUBSET Nat /\ Lengths # {} /\ \A n \in Lengths : n <= Len(Path[q])
    BY <1>2
  <2>2. QED
    BY <1>1, <2>1, Largest
<1>4. \E r \in H : \A o \in H : Len(o.prefix) <= Len(r.prefix)
  BY <1>3
<1>5. MatchRule(Path[q]) \in H /\ \A o \in H : Len(o.prefix) <= Len(MatchRule(Path[q]).prefix)
  BY <1>4 DEF MatchRule
<1>6. QED
  BY <1>5 DEF Hits

LEMMA MatchIdIsNat ==
  ASSUME TypeOK, NEW q \in Requests, Hits(Path[q]) # {}
  PROVE  MatchRule(Path[q]).id \in Nat \ {NoRule} /\ MatchRule(Path[q]).id \in Ids(rules)
  BY MatchIsARule DEF TypeOK, RuleRows, Ids

LEMMA FinalizeTypes ==
  ASSUME ProxyTypeOK, NEW q \in Requests, NEW code \in Nat, NEW err \in Errors,
         Finalize(q, code, err)
  PROVE  /\ pc' \in [Requests -> {"load", "body", "upstream", "relay", "flush", "upgrade",
                                  "tunnel", "finish", "insert", "done"}]
         /\ status' \in [Requests -> Nat]
         /\ proxyError' \in [Requests -> Errors]
  BY DEF ProxyTypeOK, Finalize

LEMMA SendTypes ==
  ASSUME NEW q \in Requests
  PROVE  ForwardedHeaders(q) \in SUBSET HeaderNames
<1>1. \A h \in ForwardedHeaders(q) : h \in Headers[q] \/ h \in Forwarded
  BY DEF ForwardedHeaders
<1>2. /\ \A h \in Headers[q] : h \in HeaderNames
      /\ \A h \in Forwarded : h \in HeaderNames
  BY DEF HeaderNames
<1>3. \A h \in ForwardedHeaders(q) : h \in HeaderNames
  BY <1>1, <1>2
<1>4. QED
  BY <1>3

LEMMA ProxyTypes ==
  ASSUME TypeOK, NEW q \in Requests, ProxyStep(q)
  PROVE  ProxyTypeOK'
<1> USE DEF TypeOK, ProxyTypeOK
<1>1. CASE ClientLeaves(q) \/ UploadEnds(q) \/ UploadBreaks(q)
  BY <1>1 DEF ClientLeaves, UploadEnds, UploadBreaks
<1>2. CASE ListRulesFails(q)
  BY <1>2 DEF ListRulesFails
<1>3. CASE NoRuleMatches(q)
  BY <1>3, FinalizeTypes DEF NoRuleMatches, Errors
<1>4. CASE AnswerPreflight(q)
  BY <1>4, FinalizeTypes, MatchIdIsNat, ZenonT(60) DEF AnswerPreflight, Errors
<1>5. CASE RuleMatches(q)
  BY <1>5, MatchIdIsNat DEF RuleMatches
<1>6. CASE StreamBody(q) \/ BufferBody(q)
  <2>1. Send(q) /\ (watched' = watched \/ watched' = [watched EXCEPT ![q] = TRUE])
    BY <1>6 DEF StreamBody, BufferBody
  <2>2. sent' \in [Requests -> SUBSET HeaderNames]
    BY <2>1, SendTypes DEF Send
  <2>3. QED
    BY <2>1, <2>2 DEF Send
<1>7. CASE RoundTripFails(q) \/ RoundTripCanceled(q)
  BY <1>7, FinalizeTypes DEF RoundTripFails, RoundTripCanceled, Errors
<1>8. CASE UpstreamAnswers(q) \/ RelayReads(q) \/ RelayWrites(q)
  BY <1>8 DEF UpstreamAnswers, RelayReads, RelayWrites
<1>9. CASE RelayEnds(q) \/ RelayCanceled(q) \/ UpgradeRefused(q) \/ TunnelEnds(q)
  BY <1>9, FinalizeTypes DEF RelayEnds, RelayCanceled, UpgradeRefused, TunnelEnds, Errors
<1>10. CASE RelayWriteFails(q) \/ BodyReadFails(q)
  <2>1. CASE RelayWriteFails(q)
    BY <2>1, FinalizeTypes DEF RelayWriteFails, Errors
  <2>2. CASE BodyReadFails(q)
    BY <2>2, FinalizeTypes DEF BodyReadFails, Errors
  <2>3. QED
    BY <1>10, <2>1, <2>2
<1>11. CASE UpgradeHijacks(q)
  BY <1>11 DEF UpgradeHijacks
<1>12. CASE ChooseContext(q)
  BY <1>12 DEF ChooseContext
<1>13. CASE Insert(q)
  BY <1>13 DEF Insert, LogStored, LogRefused, InsertCanceled, InsertTimesOut, Ends
<1>14. QED
  BY <1>1, <1>2, <1>3, <1>4, <1>5, <1>6, <1>7, <1>8, <1>9, <1>10, <1>11, <1>12, <1>13
  DEF ProxyStep, HandlerStep

\* A step of a request is a step of one that is not done, and of no other.
LEMMA ProxyStepIsLocal ==
  ASSUME TypeOK, NEW q \in Requests, ProxyStep(q)
  PROVE  /\ pc[q] # "done"
         /\ \A p \in Requests \ {q} :
               /\ pc'[p] = pc[p] /\ matched'[p] = matched[p]
               /\ canceled'[p] = canceled[p] /\ status'[p] = status[p]
               /\ proxyError'[p] = proxyError[p] /\ mode'[p] = mode[p]
               /\ fate'[p] = fate[p]
<1> USE DEF TypeOK, ProxyTypeOK, Finalize, Send
<1>1. CASE ClientLeaves(q) \/ UploadEnds(q) \/ UploadBreaks(q)
  BY <1>1 DEF ClientLeaves, UploadEnds, UploadBreaks
<1>2. CASE ListRulesFails(q) \/ NoRuleMatches(q)
  BY <1>2 DEF ListRulesFails, NoRuleMatches, Loads
<1>3. CASE AnswerPreflight(q) \/ RuleMatches(q)
  BY <1>3 DEF AnswerPreflight, RuleMatches, Loads
<1>4. CASE StreamBody(q) \/ BufferBody(q) \/ BodyReadFails(q)
  BY <1>4 DEF StreamBody, BufferBody, BodyReadFails
<1>5. CASE RoundTripFails(q) \/ RoundTripCanceled(q) \/ UpstreamAnswers(q)
  BY <1>5 DEF RoundTripFails, RoundTripCanceled, UpstreamAnswers
<1>6. CASE \/ RelayReads(q) \/ RelayWrites(q)
           \/ RelayEnds(q) \/ RelayWriteFails(q) \/ RelayCanceled(q)
  BY <1>6 DEF RelayReads, RelayWrites, RelayEnds, RelayWriteFails, RelayCanceled
<1>7. CASE UpgradeRefused(q) \/ UpgradeHijacks(q) \/ TunnelEnds(q) \/ ChooseContext(q)
  BY <1>7 DEF UpgradeRefused, UpgradeHijacks, TunnelEnds, ChooseContext
<1>8. CASE Insert(q)
  BY <1>8 DEF Insert, LogStored, LogRefused, InsertCanceled, InsertTimesOut, Ends
<1>9. QED
  BY <1>1, <1>2, <1>3, <1>4, <1>5, <1>6, <1>7, <1>8 DEF ProxyStep, HandlerStep

\* A request gets its rule when it leaves "load", and keeps it.
LEMMA ProxyMatch ==
  ASSUME TypeOK, NEW q \in Requests, ProxyStep(q)
  PROVE  \/ matched'[q] = matched[q] /\ (pc'[q] = "load" => pc[q] = "load")
         \/ pc[q] = "load" /\ pc'[q] # "load" /\ matched'[q] \in Ids(rules)
<1> USE DEF TypeOK, ProxyTypeOK, Finalize, Send
<1>1. CASE AnswerPreflight(q) \/ RuleMatches(q)
  BY <1>1, MatchIdIsNat DEF AnswerPreflight, RuleMatches, Loads
<1>2. CASE \/ ClientLeaves(q) \/ UploadEnds(q) \/ UploadBreaks(q)
           \/ ListRulesFails(q) \/ NoRuleMatches(q)
  BY <1>2 DEF ClientLeaves, UploadEnds, UploadBreaks, ListRulesFails, NoRuleMatches
<1>3. CASE StreamBody(q) \/ BufferBody(q) \/ BodyReadFails(q)
  BY <1>3 DEF StreamBody, BufferBody, BodyReadFails
<1>4. CASE RoundTripFails(q) \/ RoundTripCanceled(q) \/ UpstreamAnswers(q)
  BY <1>4 DEF RoundTripFails, RoundTripCanceled, UpstreamAnswers
<1>5. CASE \/ RelayReads(q) \/ RelayWrites(q)
           \/ RelayEnds(q) \/ RelayWriteFails(q) \/ RelayCanceled(q)
  BY <1>5 DEF RelayReads, RelayWrites, RelayEnds, RelayWriteFails, RelayCanceled
<1>6. CASE UpgradeRefused(q) \/ UpgradeHijacks(q) \/ TunnelEnds(q) \/ ChooseContext(q)
  BY <1>6 DEF UpgradeRefused, UpgradeHijacks, TunnelEnds, ChooseContext
<1>7. CASE Insert(q)
  BY <1>7 DEF Insert, LogStored, LogRefused, InsertCanceled, InsertTimesOut, Ends
<1>8. QED
  BY <1>1, <1>2, <1>3, <1>4, <1>5, <1>6, <1>7 DEF ProxyStep, HandlerStep

LEMMA ProxyKeepsLink ==
  ASSUME Inv, NEW q \in Requests, ProxyStep(q), orphaned' = orphaned
  PROVE  LinkInv'
<1> USE DEF Inv, RequestInv, LinkInv, LinkOf
<1>1. rules' = rules /\ ruleSeq' = ruleSeq
  BY ProxyFrame
<1>2. ASSUME NEW p \in Requests \ {q} PROVE LinkOf(p)'
  BY <1>1, ProxyStepIsLocal DEF Ids
<1>3. LinkOf(q)'
  <2>1. CASE matched'[q] = matched[q] /\ (pc'[q] = "load" => pc[q] = "load")
    BY <1>1, <2>1 DEF Ids
  <2>2. CASE pc[q] = "load" /\ pc'[q] # "load" /\ matched'[q] \in Ids(rules)
    <3>1. matched'[q] <= ruleSeq
      BY <2>2 DEF KeysInv, Ids
    <3>2. q \notin orphaned
      BY <2>2
    <3>3. Ids(rules)' = Ids(rules)
      BY <1>1 DEF Ids
    <3>4. QED
      BY <1>1, <2>2, <3>1, <3>2, <3>3
  <2>3. QED
    BY <2>1, <2>2, ProxyMatch
<1>4. QED
  BY <1>2, <1>3

LEMMA ProxyKeepsFlow ==
  ASSUME Inv, NEW q \in Requests, ProxyStep(q), orphaned' = orphaned
  PROVE  FlowInv'
<1> USE DEF Inv, RequestInv, TypeOK, ProxyTypeOK, Finalize, Send
<1>1. ASSUME NEW p \in Requests \ {q} PROVE FlowOf(p)'
  BY ProxyStepIsLocal DEF FlowInv, FlowOf
<1>2. FlowOf(q)
  BY DEF FlowInv
<1>3. FlowOf(q)'
  <2>1. CASE ClientLeaves(q) \/ UploadEnds(q) \/ UploadBreaks(q)
    BY <1>2, <2>1 DEF FlowOf, ClientLeaves, UploadEnds, UploadBreaks
  <2>2. CASE ListRulesFails(q) \/ NoRuleMatches(q)
    BY <1>2, <2>2 DEF FlowOf, ListRulesFails, NoRuleMatches, Loads
  <2>3. CASE AnswerPreflight(q) \/ RuleMatches(q)
    BY <1>2, <2>3 DEF FlowOf, AnswerPreflight, RuleMatches, Loads
  <2>4. CASE StreamBody(q) \/ BufferBody(q) \/ BodyReadFails(q)
    BY <1>2, <2>4 DEF FlowOf, StreamBody, BufferBody, BodyReadFails
  <2>5. CASE RoundTripFails(q) \/ RoundTripCanceled(q) \/ UpstreamAnswers(q)
    BY <1>2, <2>5 DEF FlowOf, RoundTripFails, RoundTripCanceled, UpstreamAnswers
  <2>6. CASE \/ RelayReads(q) \/ RelayWrites(q)
             \/ RelayEnds(q) \/ RelayWriteFails(q) \/ RelayCanceled(q)
    BY <1>2, <2>6 DEF FlowOf, RelayReads, RelayWrites, RelayEnds, RelayWriteFails, RelayCanceled
  <2>7. CASE UpgradeRefused(q) \/ UpgradeHijacks(q) \/ TunnelEnds(q) \/ ChooseContext(q)
    BY <1>2, <2>7 DEF FlowOf, UpgradeRefused, UpgradeHijacks, TunnelEnds, ChooseContext
  <2>8. CASE LogStored(q) \/ InsertCanceled(q) \/ InsertTimesOut(q)
    BY <1>2, <2>8 DEF FlowOf, LogStored, InsertCanceled, InsertTimesOut, InsertContextDead, Ends
  <2>9. CASE LogRefused(q)
    <3>1. matched[q] # NoRule /\ matched[q] \notin Ids(rules)
      BY <2>9 DEF LogRefused, InsertLogRefused, RuleKeyHolds, LogRow
    <3>2. q \in orphaned
      BY <3>1 DEF LinkInv, LinkOf
    <3>3. QED
      BY <1>2, <2>9, <3>2 DEF FlowOf, LogRefused, Ends
  <2>10. QED
    BY <2>1, <2>2, <2>3, <2>4, <2>5, <2>6, <2>7, <2>8, <2>9 DEF ProxyStep, HandlerStep, Insert
<1>4. QED
  BY <1>1, <1>3 DEF FlowInv

\* The row that is stored is one of the right kind and names a rule that exists.
LEMMA StoredRow ==
  ASSUME Inv, NEW q \in Requests, LogStored(q)
  PROVE  /\ logs' = logs \cup {LogRow(q)}
         /\ LogRow(q) \in LogRows
         /\ RuleKeyHolds(LogRow(q).rule)
         /\ pc'[q] = "done"
         /\ UNCHANGED <<matched, status, proxyError>>
<1>1. /\ logs' = logs \cup {LogRow(q)} /\ RuleKeyHolds(LogRow(q).rule)
      /\ UNCHANGED <<matched, status, proxyError>>
  BY DEF LogStored, InsertLogRow, Ends
<1>2. ErrorMessage(q) \in Errors
  BY DEF Inv, TypeOK, ProxyTypeOK, ErrorMessage, Errors
<1>3. LogRow(q) \in LogRows
  BY <1>2 DEF Inv, TypeOK, ProxyTypeOK, LogRow, LogRows
<1>4. pc'[q] = "done"
  BY DEF Inv, TypeOK, ProxyTypeOK, LogStored, Ends
<1>5. QED
  BY <1>1, <1>3, <1>4

LEMMA ProxyKeepsLog ==
  ASSUME Inv, NEW q \in Requests, ProxyStep(q)
  PROVE  LogInv' /\ logs' \subseteq LogRows
<1>1. rules' = rules
  BY ProxyFrame
<1>2. ASSUME NEW l \in logs
      PROVE  /\ l.req \in Requests \ {q} /\ l \in LogRows /\ RuleKeyHolds(l.rule)'
             /\ pc'[l.req] = "done" /\ l.rule \in {NoRule, matched'[l.req]}
             /\ l.status = status'[l.req] /\ l.error = ErrorMessage(l.req)'
  <2>1. l \in LogRows /\ l.req \in Requests /\ pc[l.req] = "done"
    BY DEF Inv, TypeOK, RequestInv, LogInv, LogRows
  <2>2. l.req \in Requests \ {q}
    BY <2>1, ProxyStepIsLocal DEF Inv
  <2>3. /\ pc'[l.req] = pc[l.req] /\ matched'[l.req] = matched[l.req]
        /\ status'[l.req] = status[l.req] /\ proxyError'[l.req] = proxyError[l.req]
    BY <2>2, ProxyStepIsLocal DEF Inv
  <2>4. QED
    BY <1>1, <2>1, <2>2, <2>3 DEF Inv, RequestInv, LogInv, RuleKeyHolds, Ids, ErrorMessage
<1>3. CASE logs' = logs
  BY <1>2, <1>3 DEF LogInv
<1>4. CASE LogStored(q)
  <2>1. PICK row \in LogRows : row = LogRow(q)
    BY <1>4, StoredRow
  <2>2. /\ row.req = q /\ row.rule = matched[q] /\ row.status = status[q]
        /\ row.error = ErrorMessage(q)
    BY <2>1 DEF LogRow
  <2>3. /\ logs' = logs \cup {row} /\ RuleKeyHolds(row.rule)
        /\ pc'[q] = "done" /\ UNCHANGED <<matched, status, proxyError>>
    BY <1>4, <2>1, StoredRow
  <2>4. RuleKeyHolds(row.rule)' /\ ErrorMessage(q)' = ErrorMessage(q)
    BY <1>1, <2>3 DEF RuleKeyHolds, Ids, ErrorMessage
  <2>5. /\ pc'[row.req] = "done" /\ row.rule \in {NoRule, matched'[row.req]}
        /\ row.status = status'[row.req] /\ row.error = ErrorMessage(row.req)'
    BY <2>2, <2>3, <2>4
  <2>6. \A l \in logs' : l \in logs \/ l = row
    BY <2>3
  <2>7. LogInv'
    BY <1>2, <2>4, <2>5, <2>6 DEF LogInv
  <2>8. QED
    BY <1>2, <2>6, <2>7
<1>5. QED
  BY <1>3, <1>4, ProxyFrame

\* A step of a request keeps the whole invariant.
LEMMA ProxyKeepsInv ==
  ASSUME Inv, NEW q \in Requests, ProxyStep(q), UNCHANGED apiVars,
         orphaned' = orphaned \cup Orphans
  PROVE  Inv'
<1>1. UNCHANGED <<rules, ruleSeq, busy>>
  BY ProxyFrame
<1>2. orphaned' = orphaned
  BY <1>1 DEF Orphans
<1>3. TypeOK'
  <2>1. ProxyTypeOK' /\ logs' \subseteq LogRows
    BY ProxyTypes, ProxyKeepsLog DEF Inv
  <2>2. ApiTypeOK'
    BY DEF Inv, TypeOK, ApiTypeOK, apiVars
  <2>3. QED
    BY <1>1, <1>2, <2>1, <2>2 DEF Inv, TypeOK
<1>4. KeysInv'
  BY <1>1 DEF Inv, KeysInv, RulesHaveKeys, KeysHold
<1>5. DraftInv'
  BY DEF Inv, DraftInv, apiVars
<1>6. QED
  BY <1>2, <1>3, <1>4, <1>5, ProxyKeepsLink, ProxyKeepsFlow, ProxyKeepsLog DEF Inv, RequestInv

-----------------------------------------------------------------------------
(* Statements on proxy_rules, seen from the requests and the log *)

\* A statement that keeps every id, and adds only ids above the sequence,
\* orphans no request and leaves what is known of them.
LEMMA IdsGrow ==
  ASSUME Inv, UNCHANGED proxyVars, logs' = logs, ruleSeq' \in Nat, ruleSeq <= ruleSeq',
         orphaned' = orphaned \cup Orphans,
         Ids(rules) \subseteq Ids(rules'),
         \A i \in Ids(rules') : i \in Ids(rules) \/ i > ruleSeq
  PROVE  RequestInv' /\ orphaned' = orphaned
<1> USE DEF Inv, RequestInv, proxyVars
<1>1. orphaned' = orphaned
  BY DEF Orphans
<1>2. LinkInv'
  <2>1. ASSUME NEW q \in Requests PROVE LinkOf(q)'
    <3>1. LinkOf(q) /\ matched[q] \in Nat /\ ruleSeq \in Nat
      BY DEF LinkInv, TypeOK, ProxyTypeOK
    <3>2. matched[q] \in Ids(rules') <=> matched[q] \in Ids(rules)
      BY <3>1 DEF LinkOf
    <3>3. Ids(rules)' = Ids(rules')
      BY DEF Ids
    <3>4. QED
      BY <1>1, <3>1, <3>2, <3>3 DEF LinkOf
  <2>2. QED
    BY <2>1 DEF LinkInv
<1>3. LogInv'
  <2>1. Ids(rules)' = Ids(rules')
    BY DEF Ids
  <2>2. QED
    BY <2>1 DEF LogInv, RuleKeyHolds, ErrorMessage
<1>4. FlowInv'
  BY <1>1 DEF FlowInv, FlowOf
<1>5. QED
  BY <1>1, <1>2, <1>3, <1>4

\* Deleting a rule puts its requests on record and detaches its log rows.
LEMMA DeleteKeepsRequests ==
  ASSUME Inv, NEW id \in Nat, DeleteRow(id), UNCHANGED proxyVars,
         orphaned' = orphaned \cup Orphans
  PROVE  RequestInv' /\ logs' \subseteq LogRows /\ orphaned' \subseteq Requests
<1> USE DEF Inv, RequestInv, proxyVars
<1>1. /\ rules' = {r \in rules : r.id # id} /\ ruleSeq' = ruleSeq
      /\ logs' = {IF l.rule = id THEN [l EXCEPT !.rule = NoRule] ELSE l : l \in logs}
  BY DEF DeleteRow
<1>2. Ids(rules') = Ids(rules) \ {id} /\ Ids(rules)' = Ids(rules')
  BY <1>1 DEF Ids
<1>3. Orphans = {q \in Requests : matched[q] = id /\ id \in Ids(rules)}
  BY <1>2 DEF Orphans
<1>4. NoRule \notin Ids(rules)
  BY DEF TypeOK, RuleRows, Ids
<1>5. LinkInv'
  <2>1. ASSUME NEW q \in Requests PROVE LinkOf(q)'
    <3>1. LinkOf(q) /\ matched[q] \in Nat
      BY DEF LinkInv, TypeOK, ProxyTypeOK
    <3>2. QED
      BY <1>1, <1>2, <1>3, <1>4, <3>1 DEF LinkOf
  <2>2. QED
    BY <2>1 DEF LinkInv
<1>6. ASSUME NEW l \in logs'
      PROVE  /\ l \in LogRows /\ RuleKeyHolds(l.rule)' /\ pc'[l.req] = "done"
             /\ l.rule \in {NoRule, matched'[l.req]} /\ l.status = status'[l.req]
             /\ l.error = ErrorMessage(l.req)'
  <2>1. PICK k \in logs : l = IF k.rule = id THEN [k EXCEPT !.rule = NoRule] ELSE k
    BY <1>1
  <2>2. /\ k \in LogRows /\ RuleKeyHolds(k.rule) /\ pc[k.req] = "done"
        /\ k.rule \in {NoRule, matched[k.req]} /\ k.status = status[k.req]
        /\ k.error = ErrorMessage(k.req)
    BY DEF TypeOK, LogInv
  <2>3. /\ l.req = k.req /\ l.status = k.status /\ l.error = k.error /\ l \in LogRows
        /\ l.rule = IF k.rule = id THEN NoRule ELSE k.rule
    BY <2>1, <2>2 DEF LogRows, NoRule
  <2>4. RuleKeyHolds(l.rule)'
    BY <1>2, <2>2, <2>3 DEF RuleKeyHolds
  <2>5. QED
    BY <2>2, <2>3, <2>4 DEF ErrorMessage
<1>7. LogInv' /\ logs' \subseteq LogRows
  BY <1>6 DEF LogInv
<1>8. FlowInv'
  BY DEF FlowInv, FlowOf
<1>9. orphaned' \subseteq Requests
  BY DEF TypeOK, Orphans
<1>10. QED
  BY <1>5, <1>7, <1>8, <1>9

-----------------------------------------------------------------------------
(* Statements on proxy_rules, seen from the table *)

\* What a statement owes the table and the requests that refer to it.
TableKept ==
    /\ rules' \subseteq RuleRows
    /\ KeysInv'
    /\ ruleSeq' \in Nat /\ ruleSeq <= ruleSeq'
    /\ \A i \in Ids(rules') : i \in Ids(rules) \/ i > ruleSeq

LEMMA InsertKeepsTable ==
  ASSUME Inv, NEW row \in [id: Nat, prefix: RulePrefixes, enabled: BOOLEAN, local: BOOLEAN],
         InsertRule(row)
  PROVE  TableKept /\ Ids(rules) \subseteq Ids(rules')
<1> USE DEF Inv, TypeOK
<1>1. PICK new \in RuleRows : /\ new.id = ruleSeq + 1 /\ new.prefix = row.prefix
                              /\ rules' = rules \cup {new}
  <2>1. [row EXCEPT !.id = ruleSeq + 1] \in RuleRows
    BY DEF RuleRows, NoRule
  <2>2. /\ [row EXCEPT !.id = ruleSeq + 1].id = ruleSeq + 1
        /\ [row EXCEPT !.id = ruleSeq + 1].prefix = row.prefix
    BY DEF RuleRows
  <2>3. QED
    BY <2>1, <2>2 DEF InsertRule
<1>2. ruleSeq' = ruleSeq + 1
  BY DEF InsertRule
<1>3. \A r \in rules : r.prefix # new.prefix /\ r.id <= ruleSeq /\ r.id \in Nat
  BY <1>1 DEF InsertRule, PrefixFree, KeysInv, RuleRows, NoRule
<1>4. KeysInv'
  BY <1>1, <1>2, <1>3 DEF KeysInv, RulesHaveKeys, KeysHold
<1>5. \A i : i \in Ids(rules') <=> i \in Ids(rules) \/ i = ruleSeq + 1
  BY <1>1 DEF Ids
<1>6. rules' \subseteq RuleRows
  BY <1>1
<1>7. ruleSeq \in Nat /\ ruleSeq' \in Nat /\ ruleSeq <= ruleSeq' /\ ruleSeq + 1 > ruleSeq
  BY <1>2
<1>8. QED
  BY <1>4, <1>5, <1>6, <1>7 DEF TableKept

\* An update in place: each row keeps its id, and the keys still hold.
LEMMA InPlaceKeepsTable ==
  ASSUME Inv, NEW F, \A r \in rules : F[r] \in RuleRows /\ F[r].id = r.id,
         \A r, s \in rules : F[r].prefix = F[s].prefix => r = s,
         rules' = {F[r] : r \in rules}, ruleSeq' = ruleSeq
  PROVE  TableKept /\ Ids(rules') = Ids(rules)
<1> USE DEF Inv, TypeOK
<1>1. Ids(rules') = Ids(rules)
  BY DEF Ids
<1>2. \A r, s \in rules : r.id = s.id => r = s
  BY DEF KeysInv, RulesHaveKeys, KeysHold
<1>3. KeysInv'
  BY <1>2 DEF KeysInv, RulesHaveKeys, KeysHold
<1>4. rules' \subseteq RuleRows
  OBVIOUS
<1>5. ruleSeq' \in Nat /\ ruleSeq <= ruleSeq'
  OBVIOUS
<1>6. QED
  BY <1>1, <1>3, <1>4, <1>5 DEF TableKept

LEMMA UpdateKeepsTable ==
  ASSUME Inv, NEW row \in [id: Nat, prefix: RulePrefixes, enabled: BOOLEAN, local: BOOLEAN],
         UpdateRow(row)
  PROVE  TableKept /\ Ids(rules') = Ids(rules)
<1> DEFINE F == [r \in rules |-> IF r.id = row.id THEN row ELSE r]
<1>1. \A r \in rules : F[r] \in RuleRows /\ F[r].id = r.id
  BY DEF Inv, TypeOK, RuleRows
<1>2. \A r, s \in rules : F[r].prefix = F[s].prefix => r = s
  <2>1. \A r, s \in rules : r.id = s.id \/ r.prefix = s.prefix => r = s
    BY DEF Inv, KeysInv, RulesHaveKeys, KeysHold
  <2>2. \A r \in rules : r.id = row.id => \A s \in rules : s.prefix = row.prefix => s.id = row.id
    BY DEF UpdateRow, PrefixFree, Ids
  <2>3. QED
    BY <2>1, <2>2
<1>3. rules' = {F[r] : r \in rules} /\ ruleSeq' = ruleSeq
  BY DEF UpdateRow
<1> HIDE DEF F
<1>4. QED
  BY <1>1, <1>2, <1>3, InPlaceKeepsTable

LEMMA EnableKeepsTable ==
  ASSUME Inv, NEW id \in Nat, NEW on \in BOOLEAN, UpdateEnabled(id, on)
  PROVE  TableKept /\ Ids(rules') = Ids(rules)
<1> DEFINE F == [r \in rules |-> IF r.id = id THEN [r EXCEPT !.enabled = on] ELSE r]
<1>1. \A r \in rules : F[r] \in RuleRows /\ F[r].id = r.id /\ F[r].prefix = r.prefix
  BY DEF Inv, TypeOK, RuleRows
<1>2. \A r, s \in rules : F[r].prefix = F[s].prefix => r = s
  BY <1>1 DEF Inv, KeysInv, RulesHaveKeys, KeysHold
<1>3. rules' = {F[r] : r \in rules} /\ ruleSeq' = ruleSeq
  BY DEF UpdateEnabled
<1> HIDE DEF F
<1>4. QED
  BY <1>1, <1>2, <1>3, InPlaceKeepsTable

LEMMA DeleteKeepsTable ==
  ASSUME Inv, NEW id \in Nat, DeleteRow(id)
  PROVE  TableKept
<1>1. rules' \subseteq rules /\ ruleSeq' = ruleSeq
  BY DEF DeleteRow
<1>2. KeysInv'
  BY <1>1 DEF Inv, KeysInv, RulesHaveKeys, KeysHold
<1>3. Ids(rules') \subseteq Ids(rules)
  BY <1>1 DEF Ids
<1>4. QED
  BY <1>1, <1>2, <1>3 DEF TableKept, Inv, TypeOK

-----------------------------------------------------------------------------
(* Steps of an API call *)

DraftRows == [id: Nat, prefix: RulePrefixes \cup {<<>>}, enabled: BOOLEAN, local: BOOLEAN]

LEMMA MergeTypes ==
  ASSUME NEW c \in Calls, NEW old \in DraftRows
  PROVE  Merge(Payload[c], old) \in DraftRows
<1>1. /\ Payload[c].prefix \in RulePrefixes \cup {<<>>}
      /\ Payload[c].enabled \in SUBSET BOOLEAN /\ Payload[c].local \in SUBSET BOOLEAN
  BY CallAssumption DEF CallAssumption, Payloads
<1>2. ASSUME NEW field \in SUBSET BOOLEAN, NEW b \in BOOLEAN PROVE Flag(field, b) \in BOOLEAN
  BY DEF Flag
<1>3. /\ Flag(Payload[c].enabled, old.enabled) \in BOOLEAN
      /\ Flag(Payload[c].local, old.local) \in BOOLEAN
  BY <1>1, <1>2 DEF DraftRows
<1>4. QED
  BY <1>1, <1>3 DEF Merge, DraftRows

\* What a call may do to its own state: only a validated row gets to the write.
LEMMA ApiTypes ==
  ASSUME Inv, NEW c \in Calls, ApiStep(c)
  PROVE  ApiTypeOK' /\ DraftInv'
<1> USE DEF Inv, TypeOK, ApiTypeOK, Goto, Answer
<1>1. CASE CallerLeaves(c)
  BY <1>1 DEF CallerLeaves, DraftInv
<1>2. CASE CreateBegins(c) \/ UpdateReads(c)
  <2>1. /\ callPc' \in [Calls -> {"start", "write", "reread", "done"}]
        /\ reply' \in [Calls -> Nat] /\ newId' = newId /\ gone' = gone
        /\ \A d \in Calls \ {c} : callPc'[d] = callPc[d]
    <3>1. newId' = newId /\ gone' = gone
      BY <1>2 DEF CreateBegins, UpdateReads
    <3>2. \/ Goto(c, "write") /\ reply' = reply
          \/ \E code \in {400, 404} : Answer(c, code)
      <4>1. CASE CreateBegins(c)
        BY <4>1 DEF CreateBegins
      <4>2. CASE UpdateReads(c)
        BY <4>2 DEF UpdateReads
      <4>3. QED
        BY <1>2, <4>1, <4>2
    <3>3. CASE Goto(c, "write") /\ reply' = reply
      BY <3>1, <3>3
    <3>4. CASE \E code \in {400, 404} : Answer(c, code)
      BY <3>1, <3>4
    <3>5. QED
      BY <3>2, <3>3, <3>4
  <2>2. \/ draft' = draft /\ callPc'[c] = "done"
        \/ \E row \in DraftRows : draft' = [draft EXCEPT ![c] = row] /\ ValidRule(row)
    <3>1. CASE CreateBegins(c)
      <4>1. BlankRow(<<>>) \in DraftRows
        BY DEF BlankRow, DraftRows, NoRule
      <4>2. Merge(Payload[c], BlankRow(<<>>)) \in DraftRows
        BY <4>1, MergeTypes
      <4>3. QED
        BY <3>1, <4>2 DEF CreateBegins
    <3>2. CASE UpdateReads(c)
      <4>1. \A r \in rules : r \in DraftRows
        BY DEF RuleRows, DraftRows
      <4>2. \A r \in rules : Merge(Payload[c], r) \in DraftRows
        BY <4>1, MergeTypes
      <4>3. QED
        BY <3>2, <4>2 DEF UpdateReads
    <3>3. QED
      BY <1>2, <3>1, <3>2
  <2>3. CASE draft' = draft /\ callPc'[c] = "done"
    BY <2>1, <2>3 DEF DraftInv
  <2>4. ASSUME NEW row \in DraftRows, draft' = [draft EXCEPT ![c] = row], ValidRule(row)
        PROVE  ApiTypeOK' /\ DraftInv'
    <3>1. draft' \in [Calls -> DraftRows]
      BY <2>4 DEF DraftRows
    <3>2. draft'[c] = row /\ \A d \in Calls \ {c} : draft'[d] = draft[d]
      BY <2>4
    <3>3. row.prefix \in RulePrefixes
      BY <2>4 DEF DraftRows, ValidRule
    <3>4. ApiTypeOK'
      BY <2>1, <3>1 DEF DraftRows
    <3>5. DraftInv'
      BY <2>1, <3>2, <3>3 DEF DraftInv
    <3>6. QED
      BY <3>4, <3>5
  <2>5. QED
    BY <2>2, <2>3, <2>4
<1>3. CASE DirectCall(c)
  BY <1>3 DEF DirectCall, DraftInv
<1>4. CASE StatementCancelled(c) \/ PrefixTaken(c)
  <2>1. StoreError(c, FALSE) \in Nat /\ Answer(c, StoreError(c, FALSE))
    BY <1>4 DEF StatementCancelled, PrefixTaken, StoreError
  <2>2. UNCHANGED <<draft, newId, gone>>
    BY <1>4 DEF StatementCancelled, PrefixTaken
  <2>3. QED
    BY <2>1, <2>2 DEF DraftInv
<1>5. CASE CreateRule(c)
  BY <1>5, CallAssumption DEF CreateRule, InsertRule, DraftInv
<1>6. CASE UpdateRule(c) \/ SetRuleEnabled(c)
  BY <1>6 DEF UpdateRule, SetRuleEnabled, DraftInv
<1>7. CASE DeleteRule(c) \/ RowReread(c)
  <2>1. \E code \in {200, 201, 400, 404, 500} : Answer(c, code)
    BY <1>7 DEF DeleteRule, RowReread, StoreError
  <2>2. UNCHANGED <<draft, newId, gone>>
    BY <1>7 DEF DeleteRule, RowReread
  <2>3. QED
    BY <2>1, <2>2 DEF DraftInv
<1>8. QED
  BY <1>1, <1>2, <1>3, <1>4, <1>5, <1>6, <1>7 DEF ApiStep

\* The row a create or an update writes.
LEMMA DraftIsARow ==
  ASSUME Inv, NEW c \in Calls, callPc[c] = "write", Op[c] \in {"create", "update"}
  PROVE  draft[c] \in [id: Nat, prefix: RulePrefixes, enabled: BOOLEAN, local: BOOLEAN]
<1>1. draft[c].prefix \in RulePrefixes
  BY DEF Inv, DraftInv
<1>2. draft[c] \in DraftRows
  BY DEF Inv, TypeOK, ApiTypeOK, DraftRows
<1>3. QED
  BY <1>1, <1>2 DEF DraftRows

\* What a call does to the store.
LEMMA ApiStoreStep ==
  ASSUME Inv, NEW c \in Calls, ApiStep(c)
  PROVE  /\ busy' = busy
         /\ TableKept
         /\ \/ logs' = logs /\ Ids(rules) \subseteq Ids(rules')
            \/ \E id \in Nat : DeleteRow(id)
<1> USE DEF storeVars
<1>1. CASE CreateRule(c)
  <2>1. InsertRule(draft[c]) /\ draft[c] \in [id: Nat, prefix: RulePrefixes, enabled: BOOLEAN,
                                             local: BOOLEAN]
    BY <1>1, DraftIsARow DEF CreateRule, Writing
  <2>2. QED
    BY <2>1, InsertKeepsTable DEF InsertRule
<1>2. CASE UpdateRule(c)
  <2>1. UpdateRow(draft[c]) /\ draft[c] \in [id: Nat, prefix: RulePrefixes, enabled: BOOLEAN,
                                            local: BOOLEAN]
    BY <1>2, DraftIsARow DEF UpdateRule, Writing
  <2>2. QED
    BY <2>1, UpdateKeepsTable DEF UpdateRow
<1>3. CASE SetRuleEnabled(c)
  <2>1. Target[c] \in Nat /\ (Op[c] = "enable") \in BOOLEAN
    BY CallAssumption DEF CallAssumption
  <2>2. UpdateEnabled(Target[c], Op[c] = "enable")
    BY <1>3 DEF SetRuleEnabled
  <2>3. QED
    BY <2>1, <2>2, EnableKeepsTable DEF UpdateEnabled
<1>4. CASE DeleteRule(c)
  <2>1. Target[c] \in Nat /\ DeleteRow(Target[c])
    BY <1>4, CallAssumption DEF CallAssumption, DeleteRule
  <2>2. QED
    BY <2>1, DeleteKeepsTable DEF DeleteRow
<1>5. CASE UNCHANGED storeVars
  <2>1. KeysInv'
    BY <1>5 DEF Inv, KeysInv, RulesHaveKeys, KeysHold
  <2>2. Ids(rules') = Ids(rules)
    BY <1>5
  <2>3. QED
    BY <1>5, <2>1, <2>2 DEF TableKept, Inv, TypeOK
<1>6. QED
  BY <1>1, <1>2, <1>3, <1>4, <1>5
  DEF ApiStep, CallerLeaves, CreateBegins, UpdateReads, DirectCall, StatementCancelled,
      PrefixTaken, RowReread

\* A step of a call keeps the whole invariant.
LEMMA ApiKeepsInv ==
  ASSUME Inv, NEW c \in Calls, ApiStep(c), UNCHANGED proxyVars,
         orphaned' = orphaned \cup Orphans
  PROVE  Inv'
<1>1. busy' = busy /\ TableKept
  BY ApiStoreStep
<1>2. RequestInv' /\ logs' \subseteq LogRows /\ orphaned' \subseteq Requests
  <2>1. CASE logs' = logs /\ Ids(rules) \subseteq Ids(rules')
    <3>1. RequestInv' /\ orphaned' = orphaned
      BY <1>1, <2>1, IdsGrow DEF TableKept
    <3>2. QED
      BY <2>1, <3>1 DEF Inv, TypeOK
  <2>2. CASE \E id \in Nat : DeleteRow(id)
    BY <2>2, DeleteKeepsRequests
  <2>3. QED
    BY <2>1, <2>2, ApiStoreStep
<1>3. ProxyTypeOK'
  BY DEF Inv, TypeOK, ProxyTypeOK, proxyVars
<1>4. TypeOK'
  BY <1>1, <1>2, <1>3, ApiTypes DEF TypeOK, TableKept, Inv
<1>5. QED
  BY <1>1, <1>2, <1>4, ApiTypes DEF Inv, TableKept

-----------------------------------------------------------------------------
(* Steps of the users of the log and SQL endpoints *)

LEMMA StoreKeepsInv ==
  ASSUME Inv, StoreNext, UNCHANGED <<proxyVars, apiVars>>, orphaned' = orphaned \cup Orphans
  PROVE  Inv'
<1>1. rules' = rules /\ ruleSeq' = ruleSeq /\ logs' \subseteq logs /\ busy' \in BOOLEAN
  BY DEF StoreNext, DeleteLog, DeleteLogs, QueryDatabaseStarts, QueryDatabaseEnds, Inv, TypeOK
<1>2. Ids(rules') = Ids(rules) /\ Ids(rules)' = Ids(rules)
  BY <1>1 DEF Ids
<1>3. orphaned' = orphaned
  BY <1>2 DEF Orphans
<1>4. TypeOK'
  BY <1>1, <1>3 DEF Inv, TypeOK, ProxyTypeOK, ApiTypeOK, proxyVars, apiVars
<1>5. KeysInv' /\ DraftInv'
  BY <1>1 DEF Inv, KeysInv, RulesHaveKeys, KeysHold, DraftInv, apiVars
<1>6. LinkInv'
  BY <1>1, <1>2, <1>3 DEF Inv, RequestInv, LinkInv, LinkOf, proxyVars
<1>7. LogInv'
  BY <1>1, <1>2 DEF Inv, RequestInv, LogInv, RuleKeyHolds, ErrorMessage, proxyVars
<1>8. FlowInv'
  BY <1>3 DEF Inv, RequestInv, FlowInv, FlowOf, proxyVars
<1>9. QED
  BY <1>4, <1>5, <1>6, <1>7, <1>8 DEF Inv, RequestInv

LEMMA NextKeepsInv == Inv /\ [Next]_vars => Inv'
<1>1. ASSUME Inv, UNCHANGED vars PROVE Inv'
  <2> USE <1>1 DEF vars, storeVars, proxyVars, apiVars
  <2>1. Ids(rules)' = Ids(rules)
    BY DEF Ids
  <2>2. TypeOK'
    BY DEF Inv, TypeOK, ProxyTypeOK, ApiTypeOK
  <2>3. KeysInv' /\ DraftInv'
    BY DEF Inv, KeysInv, RulesHaveKeys, KeysHold, DraftInv
  <2>4. LinkInv' /\ LogInv' /\ FlowInv'
    BY <2>1 DEF Inv, RequestInv, LinkInv, LinkOf, LogInv, RuleKeyHolds, ErrorMessage, FlowInv,
                FlowOf
  <2>5. QED
    BY <2>2, <2>3, <2>4 DEF Inv, RequestInv
<1>2. ASSUME Inv, Next PROVE Inv'
  BY <1>2, ProxyKeepsInv, ApiKeepsInv, StoreKeepsInv DEF Next, Actors, ProxyNext, ApiNext
<1>3. QED
  BY <1>1, <1>2

\* The invariant of the server.
THEOREM Invariance == Spec => []Inv
  BY InitInv, NextKeepsInv, PTL DEF Spec

-----------------------------------------------------------------------------
(* What follows from the invariant *)

\* Every variable keeps its type: no interleaving of requests, API calls and
\* console users produces a malformed row or an unknown handler state.
THEOREM TypeCorrect == Spec => []TypeOK
<1>1. Inv => TypeOK
  BY DEF Inv
<1>2. QED
  BY Invariance, <1>1, PTL

\* UNIQUE(prefix) and the primary key hold, so a path never has two longest
\* matching rules.
THEOREM RulesKeepKeys == Spec => []RulesHaveKeys
<1>1. Inv => RulesHaveKeys
  BY DEF Inv, KeysInv
<1>2. QED
  BY Invariance, <1>1, PTL

\* Every row names an existing rule or none, and the row of a request whose rule
\* was deleted is never credited to a rule, for any number of requests, calls and
\* rules: it rests on ids not being reused.
THEOREM NoMisattribution == Spec => []NeverMisattributed
<1>1. ASSUME Inv, NEW l \in logs, l.req \in orphaned PROVE l.rule = NoRule
  <2>1. l.req \in Requests /\ RuleKeyHolds(l.rule) /\ l.rule \in {NoRule, matched[l.req]}
    BY <1>1 DEF Inv, TypeOK, LogRows, RequestInv, LogInv
  <2>2. matched[l.req] \notin Ids(rules)
    BY <1>1, <2>1 DEF Inv, RequestInv, LinkInv, LinkOf
  <2>3. QED
    BY <2>1, <2>2 DEF RuleKeyHolds
<1>2. Inv => \A l \in logs : RuleKeyHolds(l.rule)
  BY DEF Inv, RequestInv, LogInv
<1>3. Inv => NeverMisattributed
  BY <1>1, <1>2 DEF NeverMisattributed
<1>4. QED
  BY Invariance, <1>3, PTL

\* The row of an exchange is lost only if its rule was deleted meanwhile or its
\* client went away, and never to a cancellation of the detached context.
THEOREM LossHasACause == Spec => []LossIsExplained
<1>1. Inv => LossIsExplained
  BY DEF Inv, RequestInv, FlowInv, FlowOf, LossIsExplained
<1>2. QED
  BY Invariance, <1>1, PTL

\* A logged 502 of the proxy has an error message unless the client had left.
THEOREM FailuresAreExplained == Spec => []FailureIsExplained
<1>1. ASSUME Inv, NEW l \in logs, l.status = 502, l.error = "none" PROVE canceled[l.req]
  <2>1. l.req \in Requests /\ status[l.req] = 502 /\ ErrorMessage(l.req) = "none"
    BY <1>1 DEF Inv, TypeOK, LogRows, RequestInv, LogInv
  <2>2. proxyError[l.req] = "canceled"
    BY <1>1, <2>1 DEF Inv, RequestInv, FlowInv, FlowOf, ErrorMessage
  <2>3. QED
    BY <1>1, <2>1, <2>2 DEF Inv, RequestInv, FlowInv, FlowOf
<1>2. Inv => FailureIsExplained
  BY <1>1 DEF FailureIsExplained
<1>3. QED
  BY Invariance, <1>2, PTL

\* Ids only ever appear above the sequence: a deleted rule does not come back.
THEOREM DeletedRulesStayDeleted == Spec => NoResurrection
<1> DEFINE Fresh == \A r \in rules' : r.id \in Ids(rules) \/ r.id > ruleSeq
<1>1. Inv /\ [Next]_vars => [Fresh]_vars
  <2>1. ASSUME Inv, NEW q \in Requests, ProxyStep(q) PROVE Fresh
    <3>1. rules' = rules
      BY <2>1, ProxyFrame
    <3>2. QED
      BY <3>1 DEF Ids
  <2>2. ASSUME Inv, NEW c \in Calls, ApiStep(c) PROVE Fresh
    <3>1. TableKept
      BY <2>2, ApiStoreStep
    <3>2. QED
      BY <3>1 DEF TableKept, Ids
  <2>3. ASSUME Inv, StoreNext PROVE Fresh
    <3>1. rules' = rules
      BY <2>3 DEF StoreNext, DeleteLog, DeleteLogs, QueryDatabaseStarts, QueryDatabaseEnds
    <3>2. QED
      BY <3>1 DEF Ids
  <2>4. QED
    BY <2>1, <2>2, <2>3 DEF Next, Actors, ProxyNext, ApiNext
<1>2. QED
  BY Invariance, <1>1, PTL DEF Spec, NoResurrection

-----------------------------------------------------------------------------
(* What a create leaves behind *)

\* A call has the id of a rule only once it has inserted one, and it answers
\* with an error after that only if it had to.
CreateOf(c) ==
    /\ newId[c] <= ruleSeq
    /\ callPc[c] \in {"start", "write"} => newId[c] = NoRule
    /\ callPc[c] # "done" => reply[c] = 0
    /\ Op[c] = "create" /\ reply[c] = 400 =>
          newId[c] = NoRule \/ gone[c] \/ newId[c] \notin Ids(rules)

CreateInv == \A c \in Calls : CreateOf(c)

\* An id of the past does not come back, so what holds of a call that stands
\* still goes on holding.
LEMMA OthersKeepCreate ==
  ASSUME Inv, CreateInv, NEW c \in Calls, TableKept,
         newId'[c] = newId[c], reply'[c] = reply[c], callPc'[c] = callPc[c],
         gone[c] => gone'[c]
  PROVE  CreateOf(c)'
<1>1. CreateOf(c) /\ newId[c] \in Nat /\ ruleSeq \in Nat
  BY DEF CreateInv, Inv, TypeOK, ApiTypeOK
<1>2. ruleSeq' \in Nat /\ ruleSeq <= ruleSeq'
      /\ \A i \in Ids(rules') : i \in Ids(rules) \/ i > ruleSeq
  BY DEF TableKept
<1>3. newId[c] \notin Ids(rules) => newId[c] \notin Ids(rules')
  BY <1>1, <1>2 DEF CreateOf
<1>4. Ids(rules)' = Ids(rules')
  BY DEF Ids
<1>5. QED
  BY <1>1, <1>2, <1>3, <1>4 DEF CreateOf

\* The call that makes the step.
LEMMA StepKeepsCreate ==
  ASSUME Inv, CreateInv, NEW c \in Calls, ApiStep(c), TableKept
  PROVE  CreateOf(c)'
<1>1. /\ CreateOf(c) /\ newId[c] \in Nat /\ ruleSeq \in Nat
      /\ newId \in [Calls -> Nat] /\ reply \in [Calls -> Nat]
      /\ DOMAIN callPc = Calls /\ DOMAIN gone = Calls
  BY DEF CreateInv, Inv, TypeOK, ApiTypeOK
<1>2. ruleSeq' \in Nat /\ ruleSeq <= ruleSeq'
  BY DEF TableKept
<1>3. Ids(rules)' = Ids(rules')
  BY DEF Ids
<1>4. CASE CallerLeaves(c)
  <2>1. newId' = newId /\ reply' = reply /\ callPc' = callPc /\ gone'[c] = TRUE
    BY <1>1, <1>4 DEF CallerLeaves
  <2>2. QED
    BY <2>1, OthersKeepCreate
<1>5. CASE CreateBegins(c) \/ UpdateReads(c) \/ DirectCall(c)
  <2>1. callPc[c] = "start" /\ newId' = newId /\ callPc'[c] \in {"write", "done"}
        /\ (callPc'[c] # "done" => reply' = reply)
    BY <1>1, <1>5 DEF CreateBegins, UpdateReads, DirectCall, Goto, Answer
  <2>2. QED
    BY <1>1, <1>2, <2>1 DEF CreateOf
<1>6. CASE StatementCancelled(c)
  <2>1. gone[c] /\ gone' = gone /\ newId' = newId /\ callPc'[c] = "done"
    BY <1>1, <1>6 DEF StatementCancelled, Goto, Answer
  <2>2. QED
    BY <1>1, <1>2, <2>1 DEF CreateOf
<1>7. CASE CreateRule(c)
  <2>1. /\ ruleSeq' = ruleSeq + 1 /\ newId'[c] = ruleSeq' /\ reply' = reply
        /\ callPc[c] = "write" /\ callPc'[c] = "reread"
    BY <1>1, <1>7 DEF CreateRule, InsertRule, Writing, Goto
  <2>2. QED
    BY <1>1, <1>2, <2>1 DEF CreateOf
<1>8. CASE UpdateRule(c) \/ SetRuleEnabled(c)
  <2>1. /\ newId' = newId /\ reply' = reply
        /\ callPc[c] = "write" /\ callPc'[c] = "reread"
    BY <1>1, <1>8 DEF UpdateRule, SetRuleEnabled, Writing, Goto
  <2>2. QED
    BY <1>1, <1>2, <2>1 DEF CreateOf
<1>9. CASE PrefixTaken(c) \/ DeleteRule(c)
  <2>1. newId' = newId /\ callPc[c] = "write" /\ callPc'[c] = "done"
    BY <1>1, <1>9 DEF PrefixTaken, DeleteRule, Writing, Goto, Answer
  <2>2. QED
    BY <1>1, <1>2, <2>1 DEF CreateOf
<1>10. CASE RowReread(c)
  <2>1. newId' = newId /\ rules' = rules /\ callPc'[c] = "done"
    BY <1>1, <1>10 DEF RowReread, Goto, Answer, storeVars
  <2>2. ASSUME Op[c] = "create", newId[c] \in Ids(rules) PROVE reply'[c] = 201
    <3>1. RowOf(c) \in Ids(rules)
      BY <2>2 DEF RowOf
    <3>2. QED
      BY <1>1, <1>10, <2>2, <3>1 DEF RowReread, Answer
  <2>3. QED
    BY <1>1, <1>2, <1>3, <2>1, <2>2 DEF CreateOf
<1>11. QED
  BY <1>4, <1>5, <1>6, <1>7, <1>8, <1>9, <1>10 DEF ApiStep

LEMMA NextKeepsCreate == Inv /\ CreateInv /\ [Next]_vars => CreateInv'
<1> SUFFICES ASSUME Inv, CreateInv, [Next]_vars, NEW c \in Calls PROVE CreateOf(c)'
  BY DEF CreateInv
<1>1. ASSUME NEW d \in Calls, ApiStep(d) PROVE CreateOf(c)'
  <2>1. TableKept
    BY <1>1, ApiStoreStep
  <2>2. CASE d = c
    BY <1>1, <2>1, <2>2, StepKeepsCreate
  <2>3. CASE d # c
    <3>1. newId'[c] = newId[c] /\ reply'[c] = reply[c] /\ callPc'[c] = callPc[c]
          /\ gone'[c] = gone[c]
      BY <1>1, <2>3, ZenonT(60)
      DEF Inv, TypeOK, ApiTypeOK, ApiStep, CallerLeaves, CreateBegins, UpdateReads, DirectCall,
          StatementCancelled, CreateRule, UpdateRule, PrefixTaken, SetRuleEnabled, DeleteRule,
          RowReread, Goto, Answer
    <3>2. QED
      BY <2>1, <3>1, OthersKeepCreate
  <2>4. QED
    BY <2>2, <2>3
<1>2. ASSUME UNCHANGED <<apiVars, rules, ruleSeq>> PROVE CreateOf(c)'
  <2>1. Ids(rules)' = Ids(rules)
    BY <1>2 DEF Ids
  <2>2. CreateOf(c)
    BY DEF CreateInv
  <2>3. QED
    BY <1>2, <2>1, <2>2 DEF CreateOf, apiVars
<1>3. ASSUME NEW q \in Requests, ProxyStep(q), UNCHANGED apiVars PROVE CreateOf(c)'
  BY <1>2, <1>3, ProxyFrame
<1>4. ASSUME StoreNext, UNCHANGED apiVars PROVE CreateOf(c)'
  BY <1>2, <1>4 DEF StoreNext, DeleteLog, DeleteLogs, QueryDatabaseStarts, QueryDatabaseEnds
<1>5. QED
  BY <1>1, <1>2, <1>3, <1>4 DEF Next, Actors, ProxyNext, ApiNext, vars, storeVars

\* A create that answers with an error has left a rule only if its caller is
\* gone, however many calls race with it.
THEOREM CreateIsHonest == Spec => []FailedCreateLeavesNoRule
<1>1. Init => CreateInv
  BY StoreAssumption DEF StoreAssumption, Init, StoreInit, ApiInit, CreateInv, CreateOf, NoRule
<1>2. CreateInv => FailedCreateLeavesNoRule
  BY DEF CreateInv, CreateOf, FailedCreateLeavesNoRule
<1>3. QED
  BY <1>1, <1>2, Invariance, NextKeepsCreate, PTL DEF Spec

-----------------------------------------------------------------------------
(* The server implements RequestLog *)

Journal == {l.req : l \in logs}

Losses == {"unlogged", "constraint", "canceled", "deadline"}

\* What a step of a request does to the log.
LEMMA ProxyFate ==
  ASSUME NEW q \in Requests, ProxyStep(q)
  PROVE  \/ LogStored(q)
         \/ logs' = logs /\ fate' = fate
         \/ logs' = logs /\ \E what \in Losses : fate' = [fate EXCEPT ![q] = what]
<1> USE DEF storeVars, Losses
<1>1. CASE ClientLeaves(q) \/ UploadEnds(q) \/ UploadBreaks(q)
  BY <1>1 DEF ClientLeaves, UploadEnds, UploadBreaks
<1>2. CASE ListRulesFails(q) \/ NoRuleMatches(q) \/ AnswerPreflight(q) \/ RuleMatches(q)
  BY <1>2 DEF ListRulesFails, NoRuleMatches, AnswerPreflight, RuleMatches
<1>3. CASE StreamBody(q) \/ BufferBody(q) \/ BodyReadFails(q)
  BY <1>3 DEF StreamBody, BufferBody, BodyReadFails, Send
<1>4. CASE RoundTripFails(q) \/ RoundTripCanceled(q) \/ UpstreamAnswers(q)
  BY <1>4 DEF RoundTripFails, RoundTripCanceled, UpstreamAnswers
<1>5. CASE \/ RelayReads(q) \/ RelayWrites(q)
           \/ RelayEnds(q) \/ RelayWriteFails(q) \/ RelayCanceled(q)
  BY <1>5 DEF RelayReads, RelayWrites, RelayEnds, RelayWriteFails, RelayCanceled
<1>6. CASE UpgradeRefused(q) \/ UpgradeHijacks(q) \/ TunnelEnds(q) \/ ChooseContext(q)
  BY <1>6 DEF UpgradeRefused, UpgradeHijacks, TunnelEnds, ChooseContext
<1>7. CASE LogRefused(q) \/ InsertCanceled(q) \/ InsertTimesOut(q)
  BY <1>7 DEF LogRefused, InsertCanceled, InsertTimesOut, InsertLogRefused, Ends
<1>8. QED
  BY <1>1, <1>2, <1>3, <1>4, <1>5, <1>6, <1>7 DEF ProxyStep, HandlerStep, Insert

\* The log takes a step of a request for the record or the loss of its row, or
\* does not see it.
LEMMA ProxyKeepsPromise ==
  ASSUME Inv, NEW q \in Requests, ProxyStep(q)
  PROVE  [Log!LogNext]_(Log!logVars)
<1>1. fate \in [Requests -> {"pending", "stored"} \cup Losses]
  BY DEF Inv, TypeOK, ProxyTypeOK, Losses
<1>2. fate[q] = "pending"
  BY ProxyStepIsLocal DEF Inv, RequestInv, FlowInv, FlowOf
<1>3. CASE LogStored(q)
  <2>1. logs' = logs \cup {LogRow(q)} /\ LogRow(q).req = q
    BY <1>3, StoredRow DEF LogRow
  <2>2. Journal' = Journal \cup {q}
    BY <2>1 DEF Journal
  <2>3. fate' = [fate EXCEPT ![q] = "stored"]
    BY <1>3 DEF LogStored, Ends
  <2>4. Outcome[q] = "open" /\ Outcome' = [Outcome EXCEPT ![q] = "recorded"]
    BY <1>1, <1>2, <2>3 DEF Outcome
  <2>5. Log!Record(q)
    BY <2>2, <2>4 DEF Log!Record, Journal
  <2>6. QED
    BY <2>5 DEF Log!LogNext
<1>4. CASE logs' = logs /\ fate' = fate
  BY <1>4 DEF Log!logVars, Outcome
<1>5. ASSUME logs' = logs, NEW what \in Losses, fate' = [fate EXCEPT ![q] = what]
      PROVE  [Log!LogNext]_(Log!logVars)
  <2>1. Outcome[q] = "open"
    BY <1>2 DEF Outcome
  <2>2. Outcome' = [p \in Requests |-> IF p \in {q} THEN "dropped" ELSE Outcome[p]]
    BY <1>1, <1>5 DEF Outcome, Losses
  <2>3. Log!Drop({q})
    BY <1>5, <2>1, <2>2 DEF Log!Drop
  <2>4. QED
    BY <2>3 DEF Log!LogNext
<1>6. QED
  BY <1>3, <1>4, <1>5, ProxyFate

\* Deleting a rule changes rows and removes none; other calls leave the rows.
LEMMA ApiKeepsPromise ==
  ASSUME Inv, NEW c \in Calls, ApiStep(c), UNCHANGED proxyVars
  PROVE  UNCHANGED Log!logVars
<1>1. Outcome' = Outcome
  BY DEF Outcome, proxyVars
<1>2. Journal' = Journal
  <2>1. CASE logs' = logs
    BY <2>1 DEF Journal
  <2>2. ASSUME NEW id \in Nat, DeleteRow(id) PROVE Journal' = Journal
    <3>1. DEFINE Detached(l) == IF l.rule = id THEN [l EXCEPT !.rule = NoRule] ELSE l
    <3>2. logs' = {Detached(l) : l \in logs}
      BY <2>2 DEF DeleteRow
    <3>3. \A l \in logs : Detached(l).req = l.req
      BY DEF Inv, TypeOK, LogRows
    <3>4. QED
      BY <3>2, <3>3 DEF Journal
  <2>3. QED
    BY <2>1, <2>2, ApiStoreStep
<1>3. QED
  BY <1>1, <1>2 DEF Log!logVars, Journal

\* Users of the log endpoints only delete rows.
LEMMA StoreKeepsPromise ==
  ASSUME Inv, StoreNext, UNCHANGED proxyVars
  PROVE  [Log!LogNext]_(Log!logVars)
<1>1. logs' \subseteq logs
  BY DEF StoreNext, DeleteLog, DeleteLogs, QueryDatabaseStarts, QueryDatabaseEnds, Inv, TypeOK
<1>2. Outcome' = Outcome
  BY DEF Outcome, proxyVars
<1>3. Journal \subseteq Requests /\ Journal' \subseteq Journal
  BY <1>1 DEF Inv, TypeOK, LogRows, Journal
<1>4. PICK X \in SUBSET Requests : X = Journal \ Journal'
  BY <1>3
<1>5. Log!Forget(X)
  BY <1>2, <1>3, <1>4 DEF Log!Forget, Journal
<1>6. QED
  BY <1>5 DEF Log!LogNext

LEMMA InitKeepsPromise == Init => Log!LogInit
<1> SUFFICES ASSUME Init PROVE Log!LogInit
  OBVIOUS
<1>1. Outcome = [q \in Requests |-> "open"] /\ logs = {}
  BY DEF Init, StoreInit, ProxyInit, Outcome
<1>2. QED
  BY <1>1 DEF Log!LogInit

LEMMA NextKeepsPromise == Inv /\ [Next]_vars => [Log!LogNext]_(Log!logVars)
<1>1. ASSUME UNCHANGED vars PROVE UNCHANGED Log!logVars
  BY <1>1 DEF vars, storeVars, proxyVars, Log!logVars, Outcome
<1>2. ASSUME Inv, Next PROVE [Log!LogNext]_(Log!logVars)
  BY <1>2, ProxyKeepsPromise, ApiKeepsPromise, StoreKeepsPromise
  DEF Next, Actors, ProxyNext, ApiNext
<1>3. QED
  BY <1>1, <1>2

\* The server implements RequestLog: whatever requests, calls and users of the
\* log do, a row is written in the step that records its request and stays
\* until it is deleted.
THEOREM LogPromiseKept == Spec => KeepsLogPromise
  BY Invariance, InitKeepsPromise, NextKeepsPromise, PTL DEF Spec, KeepsLogPromise, Log!LogSpec

=============================================================================
