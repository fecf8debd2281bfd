----------------------------- MODULE ProxyHandler -----------------------------
(***************************************************************************)
(* Handler.ServeHTTP of the proxy: what happens to a request between its   *)
(* arrival and the row it leaves in http_logs.  Each request runs in a     *)
(* goroutine of its own; they share the store and nothing else.            *)
(*                                                                         *)
(* The context of a request is cancelled when net/http notices that the    *)
(* client is gone.  The handler reads it in four places that the steps     *)
(* below keep apart: both store calls, the round trip and the reads of the *)
(* response, and the choice of the context the log is inserted with.  A    *)
(* write to the client does not look at it, nor has it a deadline.         *)
(***************************************************************************)
EXTENDS Store

CONSTANTS
    Requests,    \* the requests clients send
    Path,        \* Path[q]: the segments of its URL path
    Headers,     \* Headers[q]: the names of its headers
    WithBody,    \* the requests that carry a body
    Preflights   \* OPTIONS requests with Access-Control-Request-Method

HopByHop ==
    {"Connection", "Proxy-Connection", "Keep-Alive", "Proxy-Authenticate",
     "Proxy-Authorization", "Te", "Trailer", "Transfer-Encoding", "Upgrade"}

ASSUME RequestAssumption ==
    /\ Path \in [Requests -> Seq(STRING)]
    /\ WithBody \subseteq Requests
    /\ Preflights \subseteq Requests

VARIABLES
    pc,          \* where the handler of a request stands
    matched,     \* id of the rule it was matched to, from a copy of the row
    watched,     \* net/http reads the connection and would notice a disconnect
    canceled,    \* r.Context() is cancelled
    sent,        \* names of the headers sent upstream
    status,      \* status written to the client, 0 before
    proxyError,  \* class of the error the handler holds when it finalizes
    mode,        \* context chosen for the insert: "request" or "detached"
    fate         \* what became of the log row

proxyVars == <<pc, matched, watched, canceled, sent, status, proxyError, mode, fate>>

ProxyInit ==
    /\ pc = [q \in Requests |-> "load"]
    /\ matched = [q \in Requests |-> NoRule]
    /\ watched = [q \in Requests |-> q \notin WithBody]
    /\ canceled = [q \in Requests |-> FALSE]
    /\ sent = [q \in Requests |-> {}]
    /\ status = [q \in Requests |-> 0]
    /\ proxyError = [q \in Requests |-> "none"]
    /\ mode = [q \in Requests |-> "none"]
    /\ fate = [q \in Requests |-> "pending"]

-----------------------------------------------------------------------------
(* matchRule: the enabled rule with the longest prefix of the path *)

\* A stored prefix ends in "/": the path extends it, or is it without the slash.
Matches(r, path) == IsPrefix(r.prefix, path)

Hits(path) == {r \in rules : r.enabled /\ Matches(r, path)}

MatchRule(path) ==
    CHOOSE r \in Hits(path) : \A o \in Hits(path) : Len(o.prefix) <= Len(r.prefix)

-----------------------------------------------------------------------------
(* The steps of a request *)

\* q moves on to a step with the given status and error.
Finalize(q, code, err) ==
    /\ pc' = [pc EXCEPT ![q] = "finish"]
    /\ status' = [status EXCEPT ![q] = code]
    /\ proxyError' = [proxyError EXCEPT ![q] = err]

\* The client goes away, or closes its side only, and the background read of its
\* connection fails.
ClientLeaves(q) ==
    /\ pc[q] # "done"
    /\ watched[q] /\ ~canceled[q]
    /\ canceled' = [canceled EXCEPT ![q] = TRUE]
    /\ UNCHANGED <<pc, matched, watched, sent, status, proxyError, mode, fate, storeVars>>

\* ListRules fails on a cancelled context: 500, and nothing is logged.
ListRulesFails(q) ==
    /\ pc[q] = "load" /\ canceled[q]
    /\ pc' = [pc EXCEPT ![q] = "done"]
    /\ status' = [status EXCEPT ![q] = 500]
    /\ fate' = [fate EXCEPT ![q] = "unlogged"]
    /\ UNCHANGED <<matched, watched, canceled, sent, proxyError, mode, storeVars>>

Loads(q) == pc[q] = "load" /\ ~canceled[q] /\ ~busy

NoRuleMatches(q) ==
    /\ Loads(q)
    /\ Hits(Path[q]) = {}
    /\ Finalize(q, 404, "no_rule")
    /\ UNCHANGED <<matched, watched, canceled, sent, mode, fate, storeVars>>

\* A rule with cors_mode local answers a preflight itself.
AnswerPreflight(q) ==
    /\ Loads(q)
    /\ Hits(Path[q]) # {}
    /\ q \in Preflights /\ MatchRule(Path[q]).local
    /\ matched' = [matched EXCEPT ![q] = MatchRule(Path[q]).id]
    /\ Finalize(q, 204, "none")
    /\ UNCHANGED <<watched, canceled, sent, mode, fate, storeVars>>

RuleMatches(q) ==
    /\ Loads(q)
    /\ Hits(Path[q]) # {}
    /\ ~(q \in Preflights /\ MatchRule(Path[q]).local)
    /\ matched' = [matched EXCEPT ![q] = MatchRule(Path[q]).id]
    /\ pc' = [pc EXCEPT ![q] = "body"]
    /\ UNCHANGED <<watched, canceled, sent, status, proxyError, mode, fate, storeVars>>

-----------------------------------------------------------------------------
(* The request body and the request sent upstream *)

\* What AppendForwardedHeaders sets.
Forwarded == {"X-Forwarded-For", "X-Forwarded-Host", "X-Forwarded-Proto"}

\* A Connection header may name further headers to delete; the clients modelled
\* name none but Upgrade.
ForwardedHeaders(q) ==
    (Headers[q] \ (HopByHop \cup {"Accept-Encoding"})) \cup Forwarded

Send(q) ==
    /\ pc' = [pc EXCEPT ![q] = "upstream"]
    /\ sent' = [sent EXCEPT ![q] = ForwardedHeaders(q)]
    /\ UNCHANGED <<matched, canceled, status, proxyError, mode, fate, storeVars>>

\* No body, or one that is wrapped and read while it is forwarded.
StreamBody(q) ==
    /\ pc[q] = "body"
    /\ Send(q)
    /\ UNCHANGED watched

\* A small body is read whole before it is forwarded; at its end net/http
\* starts to watch the connection.
BufferBody(q) ==
    /\ pc[q] = "body" /\ q \in WithBody
    /\ Send(q)
    /\ watched' = [watched EXCEPT ![q] = TRUE]

\* The body of a known length cannot be read because the connection broke:
\* net/http cancels the context, the handler answers 400 and logs the error.
BodyReadFails(q) ==
    /\ pc[q] = "body" /\ q \in WithBody
    /\ Finalize(q, 400, "read")
    /\ canceled' = [canceled EXCEPT ![q] = TRUE]
    /\ UNCHANGED <<matched, watched, sent, mode, fate, storeVars>>

\* The transport reaches the end of a streamed body.
UploadEnds(q) ==
    /\ pc[q] \in {"upstream", "relay", "flush"}
    /\ ~watched[q]
    /\ watched' = [watched EXCEPT ![q] = TRUE]
    /\ UNCHANGED <<pc, matched, canceled, sent, status, proxyError, mode, fate, storeVars>>

\* The connection breaks while the transport reads the body from it.
UploadBreaks(q) ==
    /\ pc[q] \in {"upstream", "relay", "flush"}
    /\ ~watched[q] /\ ~canceled[q]
    /\ canceled' = [canceled EXCEPT ![q] = TRUE]
    /\ UNCHANGED <<pc, matched, watched, sent, status, proxyError, mode, fate, storeVars>>

-----------------------------------------------------------------------------
(* The round trip *)

RoundTripFails(q) ==
    /\ pc[q] = "upstream"
    /\ Finalize(q, 502, "upstream")
    /\ UNCHANGED <<matched, watched, canceled, sent, mode, fate, storeVars>>

\* The request sent upstream carries the context of the client's request.
RoundTripCanceled(q) ==
    /\ pc[q] = "upstream" /\ canceled[q]
    /\ Finalize(q, 502, "canceled")
    /\ UNCHANGED <<matched, watched, canceled, sent, mode, fate, storeVars>>

\* 200 stands for every status but 101, which the handler treats apart.
UpstreamAnswers(q) ==
    /\ pc[q] = "upstream"
    /\ \E code \in {101, 200} :
          /\ status' = [status EXCEPT ![q] = code]
          /\ pc' = [pc EXCEPT ![q] = IF code = 101 THEN "upgrade" ELSE "relay"]
    /\ UNCHANGED <<matched, watched, canceled, sent, proxyError, mode, fate, storeVars>>

-----------------------------------------------------------------------------
(* copyAndFlush: at "relay" it reads from upstream, at "flush" it writes *)

\* A chunk is read; the handler now waits for the client to take it.
RelayReads(q) ==
    /\ pc[q] = "relay"
    /\ pc' = [pc EXCEPT ![q] = "flush"]
    /\ UNCHANGED <<matched, watched, canceled, sent, status, proxyError, mode, fate, storeVars>>

\* The chunk is written and flushed.
RelayWrites(q) ==
    /\ pc[q] = "flush"
    /\ pc' = [pc EXCEPT ![q] = "relay"]
    /\ UNCHANGED <<matched, watched, canceled, sent, status, proxyError, mode, fate, storeVars>>

\* The body is copied to its end, or there is none to copy, or upstream
\* breaks off in the middle of it.
RelayEnds(q) ==
    /\ pc[q] = "relay"
    /\ \E err \in {"none", "upstream"} : Finalize(q, status[q], err)
    /\ UNCHANGED <<matched, watched, canceled, sent, mode, fate, storeVars>>

\* A write to the client fails; net/http cancels the context on the way.
RelayWriteFails(q) ==
    /\ pc[q] = "flush"
    /\ Finalize(q, status[q], "write")
    /\ canceled' = [canceled EXCEPT ![q] = TRUE]
    /\ UNCHANGED <<matched, watched, sent, mode, fate, storeVars>>

\* The cancelled context makes the read from upstream fail.
RelayCanceled(q) ==
    /\ pc[q] = "relay" /\ canceled[q]
    /\ Finalize(q, status[q], "canceled")
    /\ UNCHANGED <<matched, watched, canceled, sent, mode, fate, storeVars>>

-----------------------------------------------------------------------------
(* tunnelUpgradedConnection *)

\* The upgrade cannot be set up: no writable body, or Hijack fails.
UpgradeRefused(q) ==
    /\ pc[q] = "upgrade"
    /\ Finalize(q, 101, "tunnel")
    /\ UNCHANGED <<matched, watched, canceled, sent, mode, fate, storeVars>>

\* Hijack takes the connection away from net/http.
UpgradeHijacks(q) ==
    /\ pc[q] = "upgrade"
    /\ pc' = [pc EXCEPT ![q] = "tunnel"]
    /\ watched' = [watched EXCEPT ![q] = FALSE]
    /\ UNCHANGED <<matched, canceled, sent, status, proxyError, mode, fate, storeVars>>

\* The first direction to end, or a failed write of the 101, ends the tunnel.
TunnelEnds(q) ==
    /\ pc[q] = "tunnel"
    /\ \E err \in {"none", "tunnel"} : Finalize(q, 101, err)
    /\ UNCHANGED <<matched, watched, canceled, sent, mode, fate, storeVars>>

-----------------------------------------------------------------------------
(* The log row and insertLog *)

\* Mutant: every failed round trip is taken for a cancellation.
ErrorMessageOfNone(q) ==
    IF proxyError[q] \in {"canceled", "upstream"} THEN "none" ELSE proxyError[q]

\* A cancellation is not kept as an error of the exchange.
ErrorMessage(q) == IF proxyError[q] = "canceled" THEN "none" ELSE proxyError[q]

LogRow(q) ==
    [req |-> q, rule |-> matched[q], status |-> status[q], error |-> ErrorMessage(q)]

\* insertLog uses the request's context if it is alive, else one of 3 seconds.
ChooseContext(q) ==
    /\ pc[q] = "finish"
    /\ pc' = [pc EXCEPT ![q] = "insert"]
    /\ mode' = [mode EXCEPT ![q] = IF canceled[q] THEN "detached" ELSE "request"]
    /\ UNCHANGED <<matched, watched, canceled, sent, status, proxyError, fate, storeVars>>

Ends(q, what) ==
    /\ pc' = [pc EXCEPT ![q] = "done"]
    /\ fate' = [fate EXCEPT ![q] = what]
    /\ UNCHANGED <<matched, watched, canceled, sent, status, proxyError, mode>>

\* Mutant: the 3 seconds are added to the request's own context.
InsertContextDerived(q) == canceled[q]

\* The context the insert runs with is cancelled.
InsertContextDead(q) == mode[q] = "request" /\ canceled[q]

LogStored(q) ==
    /\ pc[q] = "insert" /\ ~InsertContextDead(q)
    /\ InsertLogRow(LogRow(q))
    /\ Ends(q, "stored")

\* Mutant: a refused insert is tried again for ever.
LogRetried(q) ==
    /\ pc[q] = "insert" /\ ~InsertContextDead(q)
    /\ InsertLogRefused(LogRow(q))
    /\ UNCHANGED proxyVars

\* The error of the insert is only printed, so the row is lost.
LogRefused(q) ==
    /\ pc[q] = "insert" /\ ~InsertContextDead(q)
    /\ InsertLogRefused(LogRow(q))
    /\ Ends(q, "constraint")

\* Mutant: the cancellation is reported although the row was committed.
InsertCanceledLate(q) ==
    /\ pc[q] = "insert" /\ InsertContextDead(q)
    /\ Ends(q, "canceled")
    /\ InsertLogRow(LogRow(q))

InsertCanceled(q) ==
    /\ pc[q] = "insert" /\ InsertContextDead(q)
    /\ Ends(q, "canceled")
    /\ UNCHANGED storeVars

\* Mutant: the detached context has no timeout.
InsertWaits(q) == FALSE /\ UNCHANGED <<proxyVars, storeVars>>

\* The 3 seconds pass while another statement keeps the connection.
InsertTimesOut(q) ==
    /\ pc[q] = "insert" /\ mode[q] = "detached"
    /\ busy
    /\ Ends(q, "deadline")
    /\ UNCHANGED storeVars

-----------------------------------------------------------------------------

Insert(q) == LogStored(q) \/ LogRefused(q) \/ InsertCanceled(q) \/ InsertTimesOut(q)

HandlerStep(q) ==
    \/ ListRulesFails(q) \/ NoRuleMatches(q) \/ AnswerPreflight(q) \/ RuleMatches(q)
    \/ StreamBody(q) \/ BufferBody(q) \/ BodyReadFails(q)
    \/ RoundTripFails(q) \/ RoundTripCanceled(q) \/ UpstreamAnswers(q)
    \/ RelayReads(q) \/ RelayWrites(q) \/ RelayEnds(q) \/ RelayWriteFails(q) \/ RelayCanceled(q)
    \/ UpgradeRefused(q) \/ UpgradeHijacks(q) \/ TunnelEnds(q)
    \/ ChooseContext(q) \/ Insert(q)

ProxyStep(q) == HandlerStep(q) \/ ClientLeaves(q) \/ UploadEnds(q) \/ UploadBreaks(q)

ProxyNext == \E q \in Requests : ProxyStep(q)

=============================================================================
