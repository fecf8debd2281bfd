------------------------------- MODULE Session -------------------------------
(***************************************************************************)
(* The management token: the check of main.go in front of the API, and the *)
(* sign-in of the web console, whose gate lies over the page.  Every       *)
(* request carries the token the console has when it is sent, and its      *)
(* answer acts on the gate that is there when it arrives.                  *)
(***************************************************************************)
EXTENDS Integers

CONSTANTS
    Tokens,        \* what users type, and what localStorage may hold
    RequiredToken, \* the token of the configuration
    CallSlots      \* bounds the requests in flight

NoToken == ""

ASSUME SessionAssumption ==
    /\ NoToken \notin Tokens
    /\ RequiredToken \in Tokens

VARIABLES
    token,     \* state.authToken, the same as in localStorage
    gate,      \* the sign-in lies over the page
    calls,     \* requests in flight, by slot
    (* history *)
    overtaken, \* since the gate was last lifted, a refusal of another token came in
    unheard    \* since a token was last typed, an answer was lost

sessionVars == <<token, gate, calls, overtaken, unheard>>

\* left counts the requests that the same function sends one after another: 4 is
\* the first of loginWithToken, from 3 on they are those of bootstrapManagement
\* (health, rules, the list or the schema), and 0 is one nobody waits for.
NoCall == [left |-> 0, token |-> NoToken, answer |-> "none"]

Call(left, t) == [left |-> left, token |-> t, answer |-> "awaited"]

\* init: a token from localStorage is tried without a word, none shows the gate.
SessionInit(kept) ==
    /\ token \in kept
    /\ gate = (token = NoToken)
    /\ \E first \in CallSlots :
          calls = [s \in CallSlots |-> IF s = first /\ token # NoToken THEN Call(3, token)
                                      ELSE NoCall]
    /\ overtaken = FALSE
    /\ unheard = FALSE

-----------------------------------------------------------------------------
(* The server *)

\* requireManagementToken: one of the places for a token holds the right one.
Admitted(candidates) == \E c \in candidates : c # NoToken /\ c = RequiredToken

\* The console uses one of the places, the header X-RequestLens-Token.
Answer(s) ==
    /\ calls[s].answer = "awaited"
    /\ calls' = [calls EXCEPT ![s].answer = IF Admitted({calls[s].token}) THEN "ok" ELSE "refused"]
    /\ UNCHANGED <<token, gate, overtaken, unheard>>

\* The server is not there, or its answer does not come through.
AnswerIsLost(s) ==
    /\ calls[s].answer = "awaited"
    /\ calls' = [calls EXCEPT ![s].answer = "lost"]
    /\ unheard' = TRUE
    /\ UNCHANGED <<token, gate, overtaken>>

-----------------------------------------------------------------------------
(* The console *)

\* loginWithToken up to its first request; the form is there while the gate is.
LoginWithToken(s, t) ==
    /\ gate
    /\ calls[s] = NoCall
    /\ token' = t
    /\ calls' = [calls EXCEPT ![s] = Call(4, t)]
    /\ unheard' = FALSE
    /\ UNCHANGED <<gate, overtaken>>

Logout ==
    /\ token' = NoToken
    /\ gate' = TRUE
    /\ UNCHANGED <<calls, overtaken, unheard>>

\* The timer of the list and the tabs load without waiting for anything.
LoadSomething(s) ==
    /\ calls[s] = NoCall
    /\ calls' = [calls EXCEPT ![s] = Call(0, token)]
    /\ UNCHANGED <<token, gate, overtaken, unheard>>

\* The function that waited sends its next request, with the token of now.
Continue(s) ==
    calls' = [calls EXCEPT ![s] = IF calls[s].left = 0 THEN NoCall
                                  ELSE Call(calls[s].left - 1, token)]

Refused(s) == calls[s].answer = "refused"

\* Mutant: a refusal shows the gate only if the console has no token.
AnswerArrivesTrustsToken(s) ==
    /\ calls[s].answer \in {"ok", "refused", "lost"}
    /\ Continue(s)
    /\ gate' = IF calls[s].left = 4 THEN FALSE ELSE gate \/ (Refused(s) /\ token = NoToken)
    /\ overtaken' = IF calls[s].left = 4 THEN FALSE
                    ELSE overtaken \/ (Refused(s) /\ calls[s].token # token)
    /\ UNCHANGED <<token, unheard>>

\* Mutant: whoever signs in has to reload the page.
AnswerArrivesNeverLifts(s) ==
    /\ calls[s].answer \in {"ok", "refused", "lost"}
    /\ Continue(s)
    /\ gate' = (gate \/ Refused(s))
    /\ overtaken' = (calls[s].left # 4 /\ (overtaken \/ (Refused(s) /\ calls[s].token # token)))
    /\ UNCHANGED <<token, unheard>>

\* api() shows the gate on any 401 and throws; every load catches what it throws,
\* loadHealth among them, so loginWithToken lifts the gate whatever the answer to
\* its first request was, and goes on.
AnswerArrives(s) ==
    /\ calls[s].answer \in {"ok", "refused", "lost"}
    /\ Continue(s)
    /\ gate' = IF calls[s].left = 4 THEN FALSE ELSE gate \/ Refused(s)
    /\ overtaken' = IF calls[s].left = 4 THEN FALSE
                    ELSE overtaken \/ (Refused(s) /\ calls[s].token # token)
    /\ UNCHANGED <<token, unheard>>

SessionNext ==
    \/ Logout
    \/ \E s \in CallSlots :
          \/ Answer(s) \/ AnswerIsLost(s) \/ AnswerArrives(s) \/ LoadSomething(s)
          \/ \E t \in Tokens : LoginWithToken(s, t)

SessionSpec == SessionInit(Tokens \cup {NoToken}) /\ [][SessionNext]_sessionVars

-----------------------------------------------------------------------------
(* Properties *)

SessionTypeOK ==
    /\ token \in Tokens \cup {NoToken}
    /\ gate \in BOOLEAN /\ overtaken \in BOOLEAN /\ unheard \in BOOLEAN
    /\ calls \in [CallSlots -> [left: 0..4, token: Tokens \cup {NoToken},
                                answer: {"none", "awaited", "ok", "refused", "lost"}]]

Quiet == \A s \in CallSlots : calls[s] = NoCall

\* Although loginWithToken lifts the gate before it knows the answer, and never
\* takes a wrong token back, the gate lies over the page again when all has
\* answered: sign-ins, log-outs and the timer's loads may overlap in any way.
WrongTokenIsShut == Quiet /\ ~unheard /\ token # RequiredToken => gate

\* If the gate lies over the page though the token is right, then the refusal of a
\* request that was sent with another token came in after the sign-in.
RightTokenIsShutByOldAnswers == Quiet /\ gate /\ token = RequiredToken => overtaken

=============================================================================
