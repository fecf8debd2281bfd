----------------------------- MODULE RequestLens -----------------------------
(***************************************************************************)
(* The server: proxied requests, calls of the rule API and users of the    *)
(* log and SQL endpoints, all over one store.                              *)
(***************************************************************************)
EXTENDS ProxyHandler, RuleApi

VARIABLE orphaned  \* history: requests whose matched rule was deleted since

vars == <<storeVars, proxyVars, apiVars, orphaned>>

Init ==
    /\ StoreInit
    /\ ProxyInit
    /\ ApiInit
    /\ orphaned = {}

Actors ==
    \/ ProxyNext /\ UNCHANGED apiVars
    \/ ApiNext /\ UNCHANGED proxyVars
    \/ StoreNext /\ UNCHANGED <<proxyVars, apiVars>>

Orphans == {q \in Requests : matched[q] \in Ids(rules) \ Ids(rules')}

Next == Actors /\ orphaned' = orphaned \cup Orphans

Spec == Init /\ [][Next]_vars

(***************************************************************************)
(* Fairness.  The waits of a handler select on its context, or on the 3    *)
(* seconds of the detached one, so it keeps running once the context is    *)
(* cancelled; but a write to the client and the copying in a tunnel do     *)
(* not, and the server sets no WriteTimeout: at "flush" and "tunnel"       *)
(* nothing is assumed, and a client that reads no more may hold the        *)
(* handler there.  Cancelling closes the connection to upstream, so the    *)
(* reads that still succeed, from buffers, are few: a handler that comes   *)
(* back to read again and again sees one fail.  The pool hands the         *)
(* database connection to those who wait for it in turn, so an insert that *)
(* may go ahead again and again does.  Nothing is assumed of upstream      *)
(* servers, clients, callers of the API, or the console.                   *)
(***************************************************************************)
\* Steps of the handler that may wait for a peer whatever the context says.
Unbounded(q) == pc[q] \in {"flush", "tunnel"}

HandlerAction(A) == A /\ UNCHANGED apiVars /\ orphaned' = orphaned \cup Orphans

Fairness ==
    \A q \in Requests :
        /\ WF_vars(canceled[q] /\ ~Unbounded(q) /\ HandlerAction(HandlerStep(q)))
        /\ SF_vars(HandlerAction(RelayCanceled(q)))
        /\ WF_vars(HandlerAction(ChooseContext(q)))
        /\ SF_vars(HandlerAction(Insert(q)))

FairSpec == Spec /\ Fairness

-----------------------------------------------------------------------------
(* Types *)

Errors == {"none", "no_rule", "read", "upstream", "canceled", "write", "tunnel"}

HeaderNames == (UNION {Headers[q] : q \in Requests}) \cup Forwarded

LogRows == [req: Requests, rule: Nat, status: Nat, error: Errors]

ProxyTypeOK ==
    /\ pc \in [Requests -> {"load", "body", "upstream", "relay", "flush", "upgrade",
                            "tunnel", "finish", "insert", "done"}]
    /\ matched \in [Requests -> Nat]
    /\ watched \in [Requests -> BOOLEAN]
    /\ canceled \in [Requests -> BOOLEAN]
    /\ sent \in [Requests -> SUBSET HeaderNames]
    /\ status \in [Requests -> Nat]
    /\ proxyError \in [Requests -> Errors]
    /\ mode \in [Requests -> {"none", "request", "detached"}]
    /\ fate \in [Requests -> {"pending", "stored", "unlogged", "constraint", "canceled",
                              "deadline"}]

ApiTypeOK ==
    /\ callPc \in [Calls -> {"start", "write", "reread", "done"}]
    /\ draft \in [Calls -> [id: Nat, prefix: RulePrefixes \cup {<<>>}, enabled: BOOLEAN,
                            local: BOOLEAN]]
    /\ newId \in [Calls -> Nat]
    /\ gone \in [Calls -> BOOLEAN]
    /\ reply \in [Calls -> Nat]

\* Every variable holds values of its kind; in particular each row of the two
\* tables is a whole row whatever statements and handlers interleave.
TypeOK ==
    /\ rules \subseteq RuleRows
    /\ ruleSeq \in Nat
    /\ logs \subseteq LogRows
    /\ busy \in BOOLEAN
    /\ ProxyTypeOK
    /\ ApiTypeOK
    /\ orphaned \subseteq Requests

-----------------------------------------------------------------------------
(* Safety *)

\* No two rules share an id or a prefix, whatever creates and updates
\* interleave; so the longest matching prefix names one rule.
RulesHaveKeys == KeysHold(rules)

\* A log row names the rule of its request only while that rule exists.  The row
\* of a request whose rule was deleted while the request was in flight or later
\* names none: not the deleted one, and not a rule created since, which would be
\* credited with traffic it never served.
NeverMisattributed ==
    \A l \in logs : RuleKeyHolds(l.rule) /\ (l.req \in orphaned => l.rule = NoRule)

\* A request that the handler finalizes leaves its row unless its rule was
\* deleted under it or its client went away; and once the handler has seen that
\* the client is gone and chosen the detached context, a cancellation can no
\* longer be what costs the row.
LossIsExplained ==
    \A q \in Requests :
        /\ fate[q] \in {"unlogged", "constraint", "canceled", "deadline"} =>
              q \in orphaned \/ canceled[q]
        /\ fate[q] = "canceled" => mode[q] # "detached"

\* A 502 of the handler's own (200 stands for what upstream answers) is logged
\* with an error message, or else the client had left.
FailureIsExplained ==
    \A l \in logs : l.status = 502 /\ l.error = "none" => canceled[l.req]

\* A create that answers an error after its insert went through does so only
\* because the caller is gone or someone else has deleted the rule.
FailedCreateLeavesNoRule ==
    \A c \in Calls :
        Op[c] = "create" /\ reply[c] = 400 =>
            newId[c] = NoRule \/ gone[c] \/ newId[c] \notin Ids(rules)

\* A deleted rule stays deleted: an update in flight that read the row before
\* the deletion does not bring it back, and ids are not handed out again.
NoResurrection ==
    [][\A r \in rules' : r.id \in Ids(rules) \/ r.id > ruleSeq]_vars

-----------------------------------------------------------------------------
(* Liveness *)

\* Once the client is known to be gone the handler comes to its end, whoever
\* holds the database connection, unless it stays for ever in a tunnel or in
\* one write to a client that has closed its side and takes no more bytes.
DisconnectEndsHandler ==
    \A q \in Requests : []<>~Unbounded(q) => (canceled[q] ~> pc[q] = "done")

\* A finished exchange gets past its log insert if console queries end, be the
\* row stored or refused, and although the console may take the connection
\* again and again.
LogPhaseEnds ==
    []<>~busy => \A q \in Requests : pc[q] = "finish" ~> pc[q] = "done"

-----------------------------------------------------------------------------
(* The promise of the log *)

\* What has become of each request, as RequestLog sees it.
Outcome ==
    [q \in Requests |-> CASE fate[q] = "pending" -> "open"
                          [] fate[q] = "stored" -> "recorded"
                          [] OTHER -> "dropped"]

Log == INSTANCE RequestLog
           WITH Exchanges <- Requests, outcome <- Outcome, journal <- {l.req : l \in logs}

\* However handlers, calls, deletions and disconnects interleave, the log keeps
\* what RequestLog promises: a row is there from the step that records its
\* request until it is deleted, and none appears for a request given up.
KeepsLogPromise == Log!LogSpec

-----------------------------------------------------------------------------
(* What the documents say *)

\* PROJECT_DESIGN.md: WebSocket upgrades take a path of their own, on which the
\* Upgrade header of the client reaches the upstream server.
UpgradeReachesUpstream ==
    \A q \in Requests :
        pc[q] = "upstream" /\ "Upgrade" \in Headers[q] => "Upgrade" \in sent[q]

\* PROJECT_DESIGN.md: enabling and disabling a rule takes effect at once; so a
\* rule goes from disabled to enabled only by a call that asks for it.
EnabledOnlyOnRequest ==
    [][\A r \in rules, s \in rules' :
          r.id = s.id /\ ~r.enabled /\ s.enabled =>
              \E c \in Calls : /\ callPc[c] = "write" /\ callPc'[c] = "reread"
                               /\ \/ Op[c] = "enable"
                                  \/ Op[c] = "update" /\ TRUE \in Payload[c].enabled]_vars

=============================================================================
