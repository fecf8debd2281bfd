-------------------------- MODULE SharedCaptureProofs --------------------------
(***************************************************************************)
(* The writer of SharedCapture, which updates the capture field by field,  *)
(* implements the atomic BodyCapture; the snapshot is bounded in any race. *)
(***************************************************************************)
EXTENDS SharedCapture, TLAPS

\* What holds in the middle of a write.
WriterOK ==
    /\ writer = "keep" => store /\ chunk \in Chunks /\ chunk > 0 /\ chunk <= size
    /\ writer \in {"idle", "keep"} => ~due
    /\ writer = "mark" => due
    /\ size <= MaxSize

Inv == TypeOK /\ WriterOK

LEMMA LimitIsNat == ASSUME Init PROVE max \in Nat
<1>1. PICK m \in Limits : max = IF m < 0 THEN 0 ELSE m
  BY DEF Init
<1>2. m \in Int
  BY SharedAssumption DEF SharedAssumption
<1>3. QED
  BY <1>1, <1>2

LEMMA InitInv == Init => Inv
<1> SUFFICES ASSUME Init PROVE Inv
  OBVIOUS
<1>1. TypeOK
  BY LimitIsNat DEF Init, TypeOK, Fields
<1>2. WriterOK
  BY SharedAssumption DEF SharedAssumption, Init, WriterOK
<1>3. QED
  BY <1>1, <1>2 DEF Inv

LEMMA WriterKeepsInv == ASSUME Inv, Writer PROVE Inv'
<1> USE DEF Inv, TypeOK, WriterOK, Remaining, Meets
<1>1. ASSUME NEW n \in Chunks, AddSize(n) PROVE Inv'
  <2>1. n \in Nat
    BY SharedAssumption DEF SharedAssumption
  <2>2. QED
    BY <1>1, <2>1, SharedAssumption DEF SharedAssumption, AddSize
<1>2. CASE GrowAll
  BY <1>2 DEF GrowAll
<1>3. CASE GrowSome
  BY <1>3 DEF GrowSome
<1>4. CASE DropAll
  BY <1>4 DEF DropAll, captureVars
<1>5. CASE Fill
  BY <1>5 DEF Fill
<1>6. CASE Mark
  BY <1>6 DEF Mark
<1>7. QED
  BY <1>1, <1>2, <1>3, <1>4, <1>5, <1>6 DEF Writer

LEMMA ReaderKeepsInv == ASSUME Inv, Reader PROVE Inv'
<1> USE DEF Inv, TypeOK, WriterOK, captureVars, Fields
<1>1. CASE CopyLength
  BY <1>1 DEF CopyLength
<1>2. CASE CopyBytes
  BY <1>2 DEF CopyBytes
<1>3. CASE CopySize
  BY <1>3 DEF CopySize
<1>4. CASE CopyFlag
  BY <1>4 DEF CopyFlag
<1>5. QED
  BY <1>1, <1>2, <1>3, <1>4 DEF Reader

LEMMA StepKeepsInv == Inv /\ [Next]_vars => Inv'
<1>1. CASE UNCHANGED vars
  BY <1>1 DEF vars, captureVars, Inv, TypeOK, WriterOK
<1>2. QED
  BY <1>1, WriterKeepsInv, ReaderKeepsInv DEF Next

-----------------------------------------------------------------------------
(* Refinement *)

LEMMA InitRefines == Init => Promise!Init
  BY DEF Init, Promise!Init

\* Only the step after which the buffer has its new length, or the step that
\* counts the bytes of a capture that keeps none, is a write of the promise.
LEMMA WriterRefines ==
  ASSUME Inv, Writer
  PROVE  [Promise!Next]_(Promise!captureVars)
<1> USE DEF Inv, TypeOK, WriterOK
<1> DEFINE Abs == Promise!captureVars
<1>1. ASSUME NEW n \in Chunks, AddSize(n) PROVE Promise!Next \/ UNCHANGED Abs
  <2>1. n \in Nat
    BY SharedAssumption DEF SharedAssumption
  <2>2. CASE store
    BY <1>1, <2>1, <2>2 DEF AddSize, Promise!captureVars
  <2>3. CASE ~store
    <3>1. Promise!WriteObserved(n)
      BY <1>1, <2>1, <2>3
      DEF AddSize, Promise!WriteObserved, Promise!Kept, Promise!Drops
    <3>2. QED
      BY <3>1 DEF Promise!Next
  <2>4. QED
    BY <2>2, <2>3
<1>2. ASSUME GrowAll \/ GrowSome \/ DropAll PROVE Promise!Next
  <2>1. Promise!WriteObserved(chunk)
    BY <1>2
    DEF GrowAll, GrowSome, DropAll, captureVars, Remaining, Promise!WriteObserved,
        Promise!Kept, Promise!Drops, Promise!Remaining
  <2>2. chunk \in Chunks
    BY <1>2 DEF GrowAll, GrowSome, DropAll
  <2>3. QED
    BY <2>1, <2>2 DEF Promise!Next
<1>3. CASE Fill
  BY <1>3 DEF Fill, Promise!captureVars
<1>4. CASE Mark
  BY <1>4 DEF Mark, Promise!captureVars
<1>5. QED
  BY <1>1, <1>2, <1>3, <1>4 DEF Writer

LEMMA StepRefines == Inv /\ [Next]_vars => [Promise!Next]_(Promise!captureVars)
<1>1. CASE UNCHANGED vars
  BY <1>1 DEF vars, captureVars, Promise!captureVars
<1>2. CASE Reader
  BY <1>2 DEF Reader, CopyLength, CopyBytes, CopySize, CopyFlag, captureVars,
              Promise!captureVars
<1>3. QED
  BY <1>1, <1>2, WriterRefines DEF Next

\* The unsynchronized writer implements the atomic capture for every limit and
\* every sequence of reads: its steps take effect one write at a time.
THEOREM WriterImplementsCapture == Spec => KeepsPromise
  BY InitInv, StepKeepsInv, InitRefines, StepRefines, PTL
  DEF Spec, KeepsPromise, Promise!Spec

-----------------------------------------------------------------------------
(* The snapshot *)

\* The buffer never runs ahead of the counter or over the limit, and what the
\* snapshot has copied was there when it was copied.
SnapOK ==
    /\ stored + (IF writer = "keep" THEN chunk ELSE 0) <= size
    /\ max # 0 => stored <= max /\ snap.length <= max
    /\ snap.length <= stored
    /\ snap.bytes <= snap.length
    /\ left = Fields => snap.length = 0 /\ snap.bytes = 0
    /\ "length" \in left => left = Fields
    /\ "bytes" \in left => left \in {Fields, Fields \ {"length"}} /\ snap.bytes = 0
    /\ "size" \notin left => snap.length <= snap.size

LEMMA InitSnap == Init => SnapOK
<1> SUFFICES ASSUME Init PROVE SnapOK
  OBVIOUS
<1>1. QED
  BY LimitIsNat DEF Init, SnapOK, Fields

LEMMA WriterKeepsSnap == ASSUME Inv, SnapOK, Writer PROVE SnapOK'
<1> USE DEF Inv, TypeOK, WriterOK, SnapOK, Remaining
<1>1. ASSUME NEW n \in Chunks, AddSize(n) PROVE SnapOK'
  <2>1. n \in Nat
    BY SharedAssumption DEF SharedAssumption
  <2>2. QED
    BY <1>1, <2>1 DEF AddSize
<1>2. CASE GrowAll
  BY <1>2 DEF GrowAll
<1>3. CASE GrowSome
  BY <1>3 DEF GrowSome
<1>4. CASE DropAll
  BY <1>4 DEF DropAll, captureVars
<1>5. CASE Fill
  BY <1>5 DEF Fill
<1>6. CASE Mark
  BY <1>6 DEF Mark
<1>7. QED
  BY <1>1, <1>2, <1>3, <1>4, <1>5, <1>6 DEF Writer

LEMMA ReaderKeepsSnap == ASSUME Inv, SnapOK, Reader PROVE SnapOK'
<1> USE DEF Inv, TypeOK, SnapOK, captureVars, Fields
<1>1. CASE CopyLength
  BY <1>1 DEF CopyLength
<1>2. CASE CopyBytes
  BY <1>2 DEF CopyBytes
<1>3. CASE CopySize
  BY <1>3 DEF CopySize, WriterOK
<1>4. CASE CopyFlag
  BY <1>4 DEF CopyFlag
<1>5. QED
  BY <1>1, <1>2, <1>3, <1>4 DEF Reader

LEMMA StepKeepsSnap == Inv /\ SnapOK /\ [Next]_vars => SnapOK'
<1>1. CASE UNCHANGED vars
  BY <1>1 DEF vars, captureVars, SnapOK
<1>2. QED
  BY <1>1, WriterKeepsSnap, ReaderKeepsSnap DEF Next

\* No interleaving of the writer and the snapshot makes a log claim more bytes
\* than the size it states, or than the limit.
THEOREM SnapshotStaysBounded == Spec => []SnapshotIsBounded
<1>1. Inv /\ SnapOK => SnapshotIsBounded
  BY DEF Inv, TypeOK, SnapOK, SnapshotIsBounded, Logged
<1>2. QED
  BY InitInv, InitSnap, StepKeepsInv, StepKeepsSnap, <1>1, PTL DEF Spec

\* The fields and the snapshot keep their types.
THEOREM TypesHold == Spec => []TypeOK
<1>1. Inv => TypeOK
  BY DEF Inv
<1>2. QED
  BY InitInv, StepKeepsInv, <1>1, PTL DEF Spec

-----------------------------------------------------------------------------
(* A snapshot that meets no write *)

\* Bytes of the writes that have taken effect.
Seen == IF writer = "keep" THEN size - chunk ELSE size

\* How many of n bytes belong into the buffer.
Prefix(n) == IF ~store THEN 0 ELSE IF max = 0 \/ n <= max THEN n ELSE max

\* The buffer is as the writes so far require, but for bytes not yet in place
\* and a mark not yet set.
ExactOK ==
    /\ stored = Prefix(Seen)
    /\ (truncated \/ due) <=> store /\ max # 0 /\ Seen > max
    /\ writer # "fill" => filled = stored

\* Between its first and its last step an undisturbed snapshot agrees with the
\* fields as they are.
QuietOK ==
    ~overlap =>
        /\ left \notin {Fields, {}} =>
              /\ writer = "idle"
              /\ snap.length = stored
              /\ "bytes" \notin left => snap.bytes = stored
              /\ "size" \notin left => snap.size = size
              /\ "flag" \notin left => snap.flag = truncated
        /\ QuietSnapshotIsExact

LEMMA WriterKeepsExact == ASSUME Inv, ExactOK, Writer PROVE ExactOK'
<1> USE DEF Inv, TypeOK, WriterOK, ExactOK, Prefix, Seen, Remaining
<1>1. ASSUME NEW n \in Chunks, AddSize(n) PROVE ExactOK'
  <2>1. n \in Nat
    BY SharedAssumption DEF SharedAssumption
  <2>2. CASE store
    BY <1>1, <2>1, <2>2 DEF AddSize
  <2>3. CASE ~store
    BY <1>1, <2>1, <2>3 DEF AddSize
  <2>4. QED
    BY <2>2, <2>3
<1>2. CASE GrowAll
  BY <1>2 DEF GrowAll
<1>3. CASE GrowSome
  BY <1>3 DEF GrowSome
<1>4. CASE DropAll
  BY <1>4 DEF DropAll, captureVars
<1>5. CASE Fill
  BY <1>5 DEF Fill
<1>6. CASE Mark
  BY <1>6 DEF Mark
<1>7. QED
  BY <1>1, <1>2, <1>3, <1>4, <1>5, <1>6 DEF Writer

LEMMA StepKeepsExact == Inv /\ ExactOK /\ [Next]_vars => ExactOK'
<1> SUFFICES ASSUME Inv, ExactOK, [Next]_vars PROVE ExactOK'
  OBVIOUS
<1>1. CASE Writer
  BY <1>1, WriterKeepsExact
<1>2. CASE Reader \/ UNCHANGED vars
  BY <1>2 DEF Reader, CopyLength, CopyBytes, CopySize, CopyFlag, vars, captureVars, ExactOK,
              Prefix, Seen
<1>3. QED
  BY <1>1, <1>2 DEF Next

\* A write that meets the snapshot is on record; any other leaves it as it is.
LEMMA WriterKeepsQuiet == ASSUME Inv, QuietOK, Writer PROVE QuietOK'
<1>1. Meets /\ left' = left /\ snap' = snap /\ max' = max /\ store' = store
  BY DEF Writer, AddSize, GrowAll, GrowSome, DropAll, Fill, Mark, captureVars
<1>2. SUFFICES ASSUME ~overlap' PROVE QuietOK'
  BY DEF QuietOK
<1>3. ~overlap /\ left \in {Fields, {}}
  BY <1>1, <1>2 DEF Meets, Inv, TypeOK
<1>4. QuietSnapshotIsExact'
  BY <1>1, <1>2, <1>3 DEF QuietOK, QuietSnapshotIsExact, Logged
<1>5. QED
  BY <1>1, <1>3, <1>4 DEF QuietOK

LEMMA ReaderKeepsQuiet ==
  ASSUME Inv, Inv', SnapOK, SnapOK', ExactOK, ExactOK', QuietOK, Reader
  PROVE  QuietOK'
<1> USE DEF Inv, TypeOK, captureVars
<1>1. SUFFICES ASSUME ~overlap' PROVE QuietOK'
  BY DEF QuietOK
<1>2. /\ left' \notin {Fields, {}} \/ left' = {}
      /\ writer' = "idle" /\ snap'.length = stored'
      /\ "bytes" \notin left' => snap'.bytes = stored'
      /\ "size" \notin left' => snap'.size = size'
      /\ "flag" \notin left' => snap'.flag = truncated'
  <2>1. CASE CopyLength
    <3>1. left = Fields /\ left' = Fields \ {"length"} /\ snap' = [snap EXCEPT !.length = stored]
          /\ UNCHANGED <<captureVars, writer>> /\ writer = "idle"
      BY <1>1, <2>1 DEF CopyLength, SnapOK
    <3>2. QED
      BY <3>1 DEF Fields
  <2>2. CASE CopyBytes
    <3>1. "length" \notin left /\ "bytes" \in left /\ left' = left \ {"bytes"} /\ ~overlap
          /\ snap' = [snap EXCEPT !.bytes = IF filled < snap.length THEN filled ELSE snap.length]
          /\ UNCHANGED <<captureVars, writer>>
      BY <1>1, <2>2 DEF CopyBytes
    <3>2. left = Fields \ {"length"}
      BY <3>1 DEF SnapOK, Fields
    <3>3. writer = "idle" /\ snap.length = stored /\ filled = stored
      BY <3>1, <3>2 DEF QuietOK, ExactOK, Fields
    <3>4. QED
      BY <3>1, <3>2, <3>3 DEF Fields
  <2>3. CASE CopySize
    <3>1. "bytes" \notin left /\ "size" \in left /\ left' = left \ {"size"} /\ ~overlap
          /\ snap' = [snap EXCEPT !.size = size] /\ UNCHANGED <<captureVars, writer>>
      BY <1>1, <2>3 DEF CopySize
    <3>2. left \notin {Fields, {}}
      BY <3>1 DEF Fields
    <3>3. QED
      BY <3>1, <3>2 DEF QuietOK, Fields
  <2>4. CASE CopyFlag
    <3>1. "bytes" \notin left /\ "flag" \in left /\ left' = left \ {"flag"} /\ ~overlap
          /\ snap' = [snap EXCEPT !.flag = truncated] /\ UNCHANGED <<captureVars, writer>>
      BY <1>1, <2>4 DEF CopyFlag
    <3>2. left \notin {Fields, {}}
      BY <3>1 DEF Fields
    <3>3. QED
      BY <3>1, <3>2 DEF QuietOK, Fields
  <2>5. QED
    BY <2>1, <2>2, <2>3, <2>4 DEF Reader
<1>3. QuietSnapshotIsExact'
  <2>1. CASE left' = {}
    BY <1>2, <2>1 DEF WriterOK, ExactOK, Prefix, Seen, QuietSnapshotIsExact
  <2>2. CASE left' # {}
    BY <2>2 DEF QuietSnapshotIsExact, Logged
  <2>3. QED
    BY <2>1, <2>2
<1>4. QED
  BY <1>2, <1>3 DEF QuietOK

\* A snapshot that meets no write is exact, mark included, for every limit and
\* every sequence of reads.
THEOREM QuietSnapshots == Spec => []QuietSnapshotIsExact
<1>1. Init => ExactOK /\ QuietOK
  <2> SUFFICES ASSUME Init PROVE ExactOK /\ QuietOK
    OBVIOUS
  <2>1. QED
    BY LimitIsNat
    DEF Init, ExactOK, Prefix, Seen, QuietOK, QuietSnapshotIsExact, Logged, Fields
<1>2. UNCHANGED vars /\ QuietOK => QuietOK'
  BY DEF vars, captureVars, QuietOK, QuietSnapshotIsExact, Logged
<1>3. (/\ Inv /\ Inv' /\ SnapOK /\ SnapOK' /\ ExactOK /\ ExactOK' /\ QuietOK
       /\ [Next]_vars) => QuietOK'
  BY <1>2, WriterKeepsQuiet, ReaderKeepsQuiet DEF Next
<1>4. Inv /\ QuietOK => QuietSnapshotIsExact
  BY DEF QuietOK, QuietSnapshotIsExact
<1>5. QED
  BY InitInv, InitSnap, StepKeepsInv, StepKeepsSnap, StepKeepsExact, <1>1, <1>3, <1>4, PTL
  DEF Spec

=============================================================================
