------------------------------ MODULE LogViews ------------------------------
(***************************************************************************)
(* The log endpoints and their clients over one table: a program that      *)
(* reads a list page by page, and of the console the list, the panel of    *)
(* details, and the sign-in before them.  Only clearLogs writes, as any    *)
(* other client may, so that one client at a time shows what each can meet.*)
(***************************************************************************)
EXTENDS LogReader, Console, Session

CONSTANT InFlight  \* exchanges in flight when a client of each kind sets out

VARIABLE client  \* the client of this behaviour

Clients == {"reader", "list", "details", "visitor"}

ASSUME LogViewsAssumption == InFlight \in [Clients -> SUBSET Exchanges]

vars == <<tableVars, readerVars, listVars, detailVars, sessionVars, client>>

Init ==
    /\ client \in Clients
    /\ TableInit(InFlight[client])
    /\ ReaderInit
    /\ ConsoleInit
    /\ SessionInit(IF client = "visitor" THEN Tokens \cup {NoToken} ELSE {NoToken})

ListStep(A) == client = "list" /\ A /\ UNCHANGED <<readerVars, sessionVars, client>>

Next ==
    \/ TableNext /\ Watch /\ UNCHANGED <<listVars, detailVars, sessionVars, client>>
    \/ client = "reader" /\ ReaderNext /\ UNCHANGED <<listVars, detailVars, sessionVars, client>>
    \/ ListStep(ListNext)
    \/ client = "details" /\ DetailNext /\ UNCHANGED <<readerVars, sessionVars, client>>
    \/ client = "visitor" /\ SessionNext
          /\ UNCHANGED <<tableVars, readerVars, listVars, detailVars, client>>

Spec == Init /\ [][Next]_vars

\* The timer goes off, the server answers, and not every answer of one slot is
\* lost.  Nothing is assumed of users and of other clients.
Fairness ==
    \A s \in Slots :
        /\ WF_vars(ListStep(AutoLoad(s)))
        /\ WF_vars(ListStep(CountFor(s)))
        /\ WF_vars(ListStep(PageFor(s)))
        /\ SF_vars(ListStep(ListArrives(s)))

FairSpec == Spec /\ Fairness

-----------------------------------------------------------------------------

TypeOK == TableTypeOK /\ ReaderTypeOK /\ SessionTypeOK

=============================================================================
