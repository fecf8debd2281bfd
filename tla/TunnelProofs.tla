----------------------------- MODULE TunnelProofs -----------------------------
(***************************************************************************)
(* Proofs about the bytes in a tunnel, for any number of messages.         *)
(***************************************************************************)
EXTENDS Tunnel, SequenceTheorems, TLAPS

-----------------------------------------------------------------------------
(* Sequences that are passed on from hand to hand *)

\* A part that is empty may be left out.
LEMMA EmptyParts ==
  ASSUME NEW s \in Seq(Nat)
  PROVE  s \o <<>> = s /\ <<>> \o s = s
  BY ConcatEmptySeq

\* What is appended to the last part is appended to the whole.
LEMMA AppendToWhole ==
  ASSUME NEW s \in Seq(Nat), NEW w \in Seq(Nat), NEW m \in Nat
  PROVE  s \o Append(w, m) = Append(s \o w, m)
<1>1. s \o w \in Seq(Nat) /\ <<m>> \in Seq(Nat)
  OBVIOUS
<1>2. Append(w, m) = w \o <<m>> /\ Append(s \o w, m) = (s \o w) \o <<m>>
  BY <1>1, AppendIsConcat
<1>3. QED
  BY <1>1, <1>2, ConcatAssociative

\* The first message of a part may move to the end of the part before.
LEMMA HeadMoves ==
  ASSUME NEW s \in Seq(Nat), NEW w \in Seq(Nat), w # <<>>
  PROVE  (s \o <<Head(w)>>) \o Tail(w) = s \o w
<1>1. Head(w) \in Nat /\ Tail(w) \in Seq(Nat) /\ <<Head(w)>> \in Seq(Nat)
  BY HeadTailProperties
<1>2. <<Head(w)>> \o Tail(w) = w
  OBVIOUS
<1>3. QED
  BY <1>1, <1>2, ConcatAssociative

LEMMA OneMoreMessage ==
  ASSUME NEW n \in Nat
  PROVE  Append([i \in 1..n |-> i], n + 1) = [i \in 1..(n + 1) |-> i]
  OBVIOUS

-----------------------------------------------------------------------------
(* The inductive invariant *)

TypeOK ==
    /\ main \in {"answer", "wait", "returned"}
    /\ copier \in [Dirs -> {"idle", "early", "read", "write", "report", "done"}]
    /\ early \in Seq(Nat)
    /\ wire \in [Dirs -> Seq(Nat)]
    /\ hand \in [Dirs -> Seq(Nat)]
    /\ got \in [Dirs -> Seq(Nat)]
    /\ sent \in [Dirs -> Nat]

\* Who is about to read holds nothing, and reads of the connection only when
\* the buffer of the hijacked reader is empty.
HandsInv ==
    /\ main = "answer" => \A d \in Dirs : copier[d] = "idle"
    /\ \A d \in Dirs :
          /\ copier[d] \in {"idle", "early", "read"} => hand[d] = <<>>
          /\ copier[d] \in {"read", "write"} => EarlyOf(d) = <<>>

Inv == TypeOK /\ HandsInv /\ NothingLostOrReordered

LEMMA InitInv == Init => Inv
<1> SUFFICES ASSUME Init PROVE Inv
  OBVIOUS
<1>1. PICK n \in 0..MaxSent : /\ early = [i \in 1..n |-> i]
                              /\ sent = [d \in Dirs |-> IF d = "up" THEN n ELSE 0]
  BY DEF Init
<1>2. n \in Nat /\ early \in Seq(Nat)
  BY <1>1, TunnelAssumption DEF TunnelAssumption
<1>3. TypeOK
  BY <1>1, <1>2 DEF Init, TypeOK
<1>4. HandsInv
  BY DEF Init, HandsInv
<1>5. ASSUME NEW d \in Dirs
      PROVE  got[d] \o hand[d] \o EarlyOf(d) \o wire[d] = [i \in 1..sent[d] |-> i]
  <2>1. got[d] = <<>> /\ hand[d] = <<>> /\ wire[d] = <<>>
    BY <1>5 DEF Init
  <2>2. EarlyOf(d) = [i \in 1..sent[d] |-> i] /\ EarlyOf(d) \in Seq(Nat)
    BY <1>1, <1>2, <1>5 DEF EarlyOf, Dirs
  <2>3. QED
    BY <2>1, <2>2, EmptyParts
<1>6. QED
  BY <1>3, <1>4, <1>5 DEF Inv, NothingLostOrReordered

-----------------------------------------------------------------------------
(* Steps *)

\* A step that touches no byte keeps their order.
LEMMA SameBytes ==
  ASSUME NothingLostOrReordered, UNCHANGED <<early, wire, hand, got, sent>>
  PROVE  NothingLostOrReordered'
  BY DEF NothingLostOrReordered, EarlyOf

LEMMA SendsInv ==
  ASSUME Inv, NEW d \in Dirs, Sends(d)
  PROVE  Inv'
<1>1. TypeOK' /\ HandsInv'
  BY DEF Inv, TypeOK, HandsInv, Sends, EarlyOf
<1>2. ASSUME NEW e \in Dirs
      PROVE  (got[e] \o hand[e] \o EarlyOf(e) \o wire[e] = [i \in 1..sent[e] |-> i])'
  <2>1. got[e] \in Seq(Nat) /\ hand[e] \in Seq(Nat) /\ EarlyOf(e) \in Seq(Nat)
        /\ wire[e] \in Seq(Nat) /\ sent[e] \in Nat
    BY <1>2 DEF Inv, TypeOK, EarlyOf
  <2>2. got[e] \o hand[e] \o EarlyOf(e) \in Seq(Nat)
    BY <2>1
  <2>3. got[e] \o hand[e] \o EarlyOf(e) \o wire[e] = [i \in 1..sent[e] |-> i]
    BY <1>2 DEF Inv, NothingLostOrReordered
  <2>4. UNCHANGED <<got, hand, early>> /\ EarlyOf(e)' = EarlyOf(e)
    BY DEF Sends, EarlyOf
  <2>5. CASE e # d
    BY <2>3, <2>4, <2>5 DEF Sends, Inv, TypeOK
  <2>6. CASE e = d
    <3>1. wire'[e] = Append(wire[e], sent[e] + 1) /\ sent'[e] = sent[e] + 1
      BY <2>6 DEF Sends, Inv, TypeOK
    <3>2. (got[e] \o hand[e] \o EarlyOf(e)) \o Append(wire[e], sent[e] + 1)
            = Append([i \in 1..sent[e] |-> i], sent[e] + 1)
      <4>1. PICK front \in Seq(Nat) : front = got[e] \o hand[e] \o EarlyOf(e)
        BY <2>2
      <4>2. front \o Append(wire[e], sent[e] + 1) = Append(front \o wire[e], sent[e] + 1)
        <5>1. sent[e] + 1 \in Nat
          BY <2>1
        <5>2. QED
          BY <2>1, <5>1, AppendToWhole
      <4>3. QED
        BY <2>3, <4>1, <4>2
    <3>3. QED
      BY <2>1, <2>4, <3>1, <3>2, OneMoreMessage
  <2>7. QED
    BY <2>5, <2>6
<1>3. QED
  BY <1>1, <1>2 DEF Inv, NothingLostOrReordered

\* The bytes the client sent early come before what it sends later.
LEMMA CopyEarlyInv ==
  ASSUME Inv, CopyEarly
  PROVE  Inv'
<1>1. hand["up"] = <<>>
  BY DEF Inv, HandsInv, CopyEarly, Dirs
<1>2. TypeOK'
  BY DEF Inv, TypeOK, CopyEarly, Turns, Dirs
<1>3. HandsInv'
  BY <1>1 DEF Inv, TypeOK, HandsInv, CopyEarly, Turns, EarlyOf, Dirs
<1>4. ASSUME NEW e \in Dirs
      PROVE  (got[e] \o hand[e] \o EarlyOf(e) \o wire[e] = [i \in 1..sent[e] |-> i])'
  <2>1. got[e] \in Seq(Nat) /\ hand[e] \in Seq(Nat) /\ early \in Seq(Nat)
        /\ wire[e] \in Seq(Nat)
    BY <1>4 DEF Inv, TypeOK
  <2>2. got[e] \o hand[e] \o EarlyOf(e) \o wire[e] = [i \in 1..sent[e] |-> i]
    BY <1>4 DEF Inv, NothingLostOrReordered
  <2>3. UNCHANGED <<hand, wire, sent>> /\ EarlyOf(e)' = <<>>
    BY DEF CopyEarly, EarlyOf
  <2>4. CASE e = "up"
    <3>1. got'[e] = got[e] \o early /\ EarlyOf(e) = early
      BY <2>4 DEF CopyEarly, Inv, TypeOK, EarlyOf, Dirs
    <3>2. got[e] \o early \in Seq(Nat)
      BY <2>1
    <3>3. got[e] \o early \o wire[e] = [i \in 1..sent[e] |-> i]
      <4>1. got[e] \o hand[e] = got[e]
        BY <1>1, <2>1, <2>4, EmptyParts
      <4>2. QED
        BY <2>2, <3>1, <4>1
    <3>4. (got'[e] \o <<>>) \o <<>> = got[e] \o early
      BY <3>1, <3>2, EmptyParts
    <3>5. hand'[e] = <<>> /\ wire'[e] = wire[e] /\ sent'[e] = sent[e] /\ EarlyOf(e)' = <<>>
      BY <1>1, <2>3, <2>4
    <3>6. QED
      BY <3>3, <3>4, <3>5
  <2>5. CASE e # "up"
    BY <2>2, <2>3, <2>5 DEF CopyEarly, Inv, TypeOK, EarlyOf
  <2>6. QED
    BY <2>4, <2>5
<1>5. QED
  BY <1>2, <1>3, <1>4 DEF Inv, NothingLostOrReordered

LEMMA ReadInv ==
  ASSUME Inv, NEW d \in Dirs, Read(d)
  PROVE  Inv'
<1>1. /\ hand[d] = <<>> /\ EarlyOf(d) = <<>> /\ wire[d] # <<>>
      /\ wire[d] \in Seq(Nat) /\ got[d] \in Seq(Nat)
  BY DEF Inv, TypeOK, HandsInv, Read
<1>2. Head(wire[d]) \in Nat /\ Tail(wire[d]) \in Seq(Nat) /\ <<Head(wire[d])>> \in Seq(Nat)
  BY <1>1, HeadTailProperties
<1>3. TypeOK'
  BY <1>2 DEF Inv, TypeOK, Read, Turns
<1>4. HandsInv'
  BY <1>1 DEF Inv, TypeOK, HandsInv, Read, Turns, EarlyOf
<1>5. ASSUME NEW e \in Dirs
      PROVE  (got[e] \o hand[e] \o EarlyOf(e) \o wire[e] = [i \in 1..sent[e] |-> i])'
  <2>1. got[e] \o hand[e] \o EarlyOf(e) \o wire[e] = [i \in 1..sent[e] |-> i]
    BY <1>5 DEF Inv, NothingLostOrReordered
  <2>2. UNCHANGED <<got, sent>> /\ EarlyOf(e)' = EarlyOf(e)
    BY DEF Read, EarlyOf
  <2>3. CASE e # d
    BY <2>1, <2>2, <2>3 DEF Read, Inv, TypeOK
  <2>4. CASE e = d
    <3>1. hand'[e] = <<Head(wire[e])>> /\ wire'[e] = Tail(wire[e])
      BY <2>4 DEF Read, Inv, TypeOK
    <3>2. got[e] \o <<>> = got[e] /\ got[e] \o hand'[e] \in Seq(Nat)
      BY <1>1, <1>2, <2>4, <3>1, EmptyParts
    <3>3. (got[e] \o <<Head(wire[e])>>) \o Tail(wire[e]) = got[e] \o wire[e]
      BY <1>1, <2>4, HeadMoves
    <3>4. (got[e] \o hand'[e]) \o <<>> = got[e] \o hand'[e]
      BY <3>2, EmptyParts
    <3>5. got[e] \o wire[e] = [i \in 1..sent[e] |-> i]
      <4>1. (got[e] \o hand[e]) \o EarlyOf(e) = got[e]
        BY <1>1, <2>4, <3>2
      <4>2. QED
        BY <2>1, <4>1
    <3>6. got'[e] = got[e] /\ sent'[e] = sent[e] /\ EarlyOf(e)' = <<>>
      BY <1>1, <2>2, <2>4
    <3>7. ((got'[e] \o hand'[e]) \o EarlyOf(e)') \o wire'[e] = got[e] \o wire[e]
      BY <3>1, <3>3, <3>4, <3>6
    <3>8. QED
      BY <3>5, <3>6, <3>7
  <2>5. QED
    BY <2>3, <2>4
<1>6. QED
  BY <1>3, <1>4, <1>5 DEF Inv, NothingLostOrReordered

LEMMA WriteInv ==
  ASSUME Inv, NEW d \in Dirs, Write(d)
  PROVE  Inv'
<1>1. TypeOK'
  BY DEF Inv, TypeOK, Write, Turns
<1>2. HandsInv'
  BY DEF Inv, TypeOK, HandsInv, Write, Turns, EarlyOf
<1>3. ASSUME NEW e \in Dirs
      PROVE  (got[e] \o hand[e] \o EarlyOf(e) \o wire[e] = [i \in 1..sent[e] |-> i])'
  <2>1. got[e] \o hand[e] \o EarlyOf(e) \o wire[e] = [i \in 1..sent[e] |-> i]
    BY <1>3 DEF Inv, NothingLostOrReordered
  <2>2. UNCHANGED <<wire, sent>> /\ EarlyOf(e)' = EarlyOf(e)
    BY DEF Write, EarlyOf
  <2>3. CASE e # d
    BY <2>1, <2>2, <2>3 DEF Write, Inv, TypeOK
  <2>4. CASE e = d
    <3>1. got'[e] = got[e] \o hand[e] /\ hand'[e] = <<>>
      BY <2>4 DEF Write, Inv, TypeOK
    <3>2. got[e] \o hand[e] \in Seq(Nat)
      BY <1>3 DEF Inv, TypeOK
    <3>3. QED
      BY <2>1, <2>2, <3>1, <3>2, EmptyParts
  <2>5. QED
    BY <2>3, <2>4
<1>4. QED
  BY <1>1, <1>2, <1>3 DEF Inv, NothingLostOrReordered

\* Every other step leaves the bytes where they are.
LEMMA ControlInv ==
  ASSUME Inv,
         \/ Answer \/ AnswerFails \/ Return
         \/ \E d \in Dirs : \/ Closes(d) \/ ReadsEnd(d) \/ WriteFails(d)
                            \/ SeesClose(d) \/ Report(d)
         \/ UNCHANGED vars
  PROVE  Inv'
<1> USE DEF Answer, AnswerFails, Return, Closes, ReadsEnd, WriteFails, SeesClose, Report,
            Turns, vars
<1>1. UNCHANGED <<early, wire, hand, got, sent>>
  OBVIOUS
<1>2. TypeOK'
  BY <1>1 DEF Inv, TypeOK
<1>3. HandsInv'
  <2>1. \A d \in Dirs : EarlyOf(d)' = EarlyOf(d)
    BY <1>1 DEF EarlyOf
  <2>2. CASE Answer
    BY <1>1, <2>2 DEF Inv, TypeOK, HandsInv, EarlyOf, Dirs
  <2>3. CASE AnswerFails
    BY <1>1, <2>3 DEF Inv, TypeOK, HandsInv
  <2>4. CASE Return \/ UNCHANGED vars \/ \E d \in Dirs : Closes(d)
    BY <1>1, <2>1, <2>4 DEF Inv, TypeOK, HandsInv
  <2>5. ASSUME NEW d \in Dirs, ReadsEnd(d) \/ WriteFails(d) \/ SeesClose(d) \/ Report(d)
        PROVE  HandsInv'
    <3>1. main' = main /\ main # "answer"
      BY <2>5 DEF Inv, TypeOK, HandsInv
    <3>2. copier'[d] \in {"report", "done"} /\ \A e \in Dirs \ {d} : copier'[e] = copier[e]
      BY <2>5 DEF Inv, TypeOK
    <3>3. QED
      BY <1>1, <2>1, <3>1, <3>2 DEF Inv, HandsInv
  <2>6. QED
    BY <2>2, <2>3, <2>4, <2>5
<1>4. NothingLostOrReordered'
  BY <1>1, SameBytes DEF Inv
<1>5. QED
  BY <1>2, <1>3, <1>4 DEF Inv

LEMMA NextInv == Inv /\ [Next]_vars => Inv'
<1> SUFFICES ASSUME Inv, [Next]_vars PROVE Inv'
  OBVIOUS
<1>1. CASE Answer \/ AnswerFails \/ Return \/ UNCHANGED vars
  BY <1>1, ControlInv
<1>2. CASE CopyEarly
  BY <1>2, CopyEarlyInv
<1>3. ASSUME NEW d \in Dirs, Sends(d) \/ Closes(d) \/ Copier(d)
      PROVE  Inv'
  <2>1. CASE Sends(d)
    BY <2>1, SendsInv
  <2>2. CASE Read(d)
    BY <2>2, ReadInv
  <2>3. CASE Write(d)
    BY <2>3, WriteInv
  <2>4. CASE Closes(d) \/ ReadsEnd(d) \/ WriteFails(d) \/ SeesClose(d) \/ Report(d)
    BY <2>4, ControlInv
  <2>5. QED
    BY <1>3, <2>1, <2>2, <2>3, <2>4 DEF Copier
<1>4. QED
  BY <1>1, <1>2, <1>3 DEF Next

\* Whatever is sent, closed and broken off in whatever order, neither direction
\* of a tunnel loses a message in the middle or passes one on out of turn.
THEOREM BytesKeepTheirOrder == Spec => []NothingLostOrReordered
<1>1. Inv => NothingLostOrReordered
  BY DEF Inv
<1>2. QED
  BY <1>1, InitInv, NextInv, PTL DEF Spec

=============================================================================
