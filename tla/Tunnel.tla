-------------------------------- MODULE Tunnel --------------------------------
(***************************************************************************)
(* tunnelUpgradedConnection: once upstream has answered 101, the handler   *)
(* takes the client's connection over, passes the answer on, and starts    *)
(* one goroutine per direction.  The first goroutine to end ends the       *)
(* tunnel: the handler returns, its defers close both connections, and     *)
(* that gets the other goroutine out of whatever it waits for.             *)
(*                                                                         *)
(* Each side sends the messages 1, 2, 3 ... in order.  Bytes the client    *)
(* sent early may sit in the reader that Hijack hands over.                *)
(***************************************************************************)
EXTENDS Integers, Sequences

CONSTANT MaxSent  \* bound of the model: messages each side sends

ASSUME TunnelAssumption == MaxSent \in Nat

\* The directions, named for where the bytes go.
Dirs == {"up", "down"}

VARIABLES
    main,    \* the handler: "answer", "wait" or "returned"
    copier,  \* per direction: "idle", "early", "read", "write", "report", "done"
    early,   \* the client's messages in the buffer of the hijacked reader
    wire,    \* per direction: messages sent and not read by the tunnel
    hand,    \* per direction: message read and not yet written
    got,     \* per direction: messages that reached the other side
    sent,    \* per direction: number of messages sent
    ended,   \* per direction: the sender has closed its side
    errc     \* number of results in the channel

vars == <<main, copier, early, wire, hand, got, sent, ended, errc>>

Init ==
    /\ main = "answer"
    /\ copier = [d \in Dirs |-> "idle"]
    /\ \E n \in 0..MaxSent :
          /\ early = [i \in 1..n |-> i]
          /\ sent = [d \in Dirs |-> IF d = "up" THEN n ELSE 0]
    /\ wire = [d \in Dirs |-> <<>>]
    /\ hand = [d \in Dirs |-> <<>>]
    /\ got = [d \in Dirs |-> <<>>]
    /\ ended = [d \in Dirs |-> FALSE]
    /\ errc = 0

-----------------------------------------------------------------------------
(* The two sides *)

Sends(d) ==
    /\ ~ended[d] /\ sent[d] < MaxSent
    /\ sent' = [sent EXCEPT ![d] = @ + 1]
    /\ wire' = [wire EXCEPT ![d] = Append(@, sent[d] + 1)]
    /\ UNCHANGED <<main, copier, early, hand, got, ended, errc>>

Closes(d) ==
    /\ ~ended[d]
    /\ ended' = [ended EXCEPT ![d] = TRUE]
    /\ UNCHANGED <<main, copier, early, wire, hand, got, sent, errc>>

-----------------------------------------------------------------------------
(* The handler *)

\* resp.Write and Flush put the 101 on the wire, then both copiers start.
Answer ==
    /\ main = "answer"
    /\ main' = "wait"
    /\ copier' = [d \in Dirs |-> IF d = "up" THEN "early" ELSE "read"]
    /\ UNCHANGED <<early, wire, hand, got, sent, ended, errc>>

\* Writing the 101 fails: the handler returns, no copier was started.
AnswerFails ==
    /\ main = "answer"
    /\ main' = "returned"
    /\ copier' = [d \in Dirs |-> "done"]
    /\ UNCHANGED <<early, wire, hand, got, sent, ended, errc>>

\* Mutant: the handler waits until both directions have ended.
ReturnAfterBoth ==
    /\ main = "wait"
    /\ errc > 1
    /\ errc' = errc - 2
    /\ main' = "returned"
    /\ UNCHANGED <<copier, early, wire, hand, got, sent, ended>>

\* <-errc, and the deferred closes of both connections.
Return ==
    /\ main = "wait"
    /\ errc > 0
    /\ errc' = errc - 1
    /\ main' = "returned"
    /\ UNCHANGED <<copier, early, wire, hand, got, sent, ended>>

\* Both connections are closed when the handler has returned.
Closed == main = "returned"

-----------------------------------------------------------------------------
(* The copiers *)

Turns(d, to) == copier' = [copier EXCEPT ![d] = to]

\* Mutant: nobody looks at the buffer of the hijacked reader.
SkipEarly ==
    /\ copier["up"] = "early" /\ ~Closed
    /\ Turns("up", "read")
    /\ UNCHANGED <<main, early, wire, hand, got, sent, ended, errc>>

\* io.CopyN of what the client sent before the hijack.
CopyEarly ==
    /\ copier["up"] = "early" /\ ~Closed
    /\ got' = [got EXCEPT !["up"] = @ \o early]
    /\ early' = <<>>
    /\ Turns("up", "read")
    /\ UNCHANGED <<main, wire, hand, sent, ended, errc>>

\* io.Copy reads a message ...
Read(d) ==
    /\ copier[d] = "read" /\ ~Closed
    /\ wire[d] # <<>>
    /\ hand' = [hand EXCEPT ![d] = <<Head(wire[d])>>]
    /\ wire' = [wire EXCEPT ![d] = Tail(@)]
    /\ Turns(d, "write")
    /\ UNCHANGED <<main, early, got, sent, ended, errc>>

\* ... and writes it.
Write(d) ==
    /\ copier[d] = "write" /\ ~Closed
    /\ got' = [got EXCEPT ![d] = @ \o hand[d]]
    /\ hand' = [hand EXCEPT ![d] = <<>>]
    /\ Turns(d, "read")
    /\ UNCHANGED <<main, early, wire, sent, ended, errc>>

\* The end of the stream: the sender has closed, and all it sent is read.
ReadsEnd(d) ==
    /\ copier[d] = "read" /\ ~Closed
    /\ ended[d] /\ wire[d] = <<>>
    /\ Turns(d, "report")
    /\ UNCHANGED <<main, early, wire, hand, got, sent, ended, errc>>

\* The receiver is gone, so the write fails and the message is lost.
WriteFails(d) ==
    /\ copier[d] \in {"early", "write"} /\ ~Closed
    /\ \E other \in Dirs \ {d} : ended[other]
    /\ Turns(d, "report")
    /\ UNCHANGED <<main, early, wire, hand, got, sent, ended, errc>>

\* Every wait of a copier ends with an error once its connection is closed.
SeesClose(d) ==
    /\ copier[d] \in {"early", "read", "write"} /\ Closed
    /\ Turns(d, "report")
    /\ UNCHANGED <<main, early, wire, hand, got, sent, ended, errc>>

\* Mutant: the channel has no buffer, so a result needs a handler that waits.
ChannelUnbuffered == main = "wait"

\* make(chan error, 2)
ChannelHasRoom == errc < 2

Report(d) ==
    /\ copier[d] = "report"
    /\ ChannelHasRoom
    /\ errc' = errc + 1
    /\ Turns(d, "done")
    /\ UNCHANGED <<main, early, wire, hand, got, sent, ended>>

Copier(d) == Read(d) \/ Write(d) \/ ReadsEnd(d) \/ WriteFails(d) \/ SeesClose(d) \/ Report(d)

Next ==
    \/ Answer \/ AnswerFails \/ Return
    \/ CopyEarly
    \/ \E d \in Dirs : Sends(d) \/ Closes(d) \/ Copier(d)

Spec == Init /\ [][Next]_vars

\* Goroutines that can run do.  That includes writes: it is assumed that both
\* sides read what they are sent, as the code sets no deadline on a write.
Fairness ==
    /\ WF_vars(Answer \/ AnswerFails)
    /\ WF_vars(Return)
    /\ WF_vars(CopyEarly)
    /\ \A d \in Dirs : WF_vars(Copier(d))

FairSpec == Spec /\ Fairness

-----------------------------------------------------------------------------

EarlyOf(d) == IF d = "up" THEN early ELSE <<>>

\* What a side sent is, in this order and without a gap, what has arrived, what
\* the tunnel holds in its hand and in the buffer, and what is on the wire.
NothingLostOrReordered ==
    \A d \in Dirs :
        got[d] \o hand[d] \o EarlyOf(d) \o wire[d] = [i \in 1..sent[d] |-> i]

\* Neither goroutine outlives the tunnel: the close wakes up the one that is
\* left, and it can deliver its result although nobody receives it any more.
CopiersEnd == Closed ~> \A d \in Dirs : copier[d] = "done"

\* A side that closes ends the tunnel for both, if both read what they get.
CloseEndsTunnel == \A d \in Dirs : ended[d] ~> Closed

=============================================================================
