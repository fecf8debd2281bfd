---------------------------- MODULE CaptureProofs ----------------------------
(***************************************************************************)
(* Proofs about the atomic capture and about the inspection that feeds it, *)
(* for every limit and every way to cut a body into pieces, and without a  *)
(* bound on its size other than MaxSize, which may be any number.          *)
(***************************************************************************)
EXTENDS Inspection, TLAPS

\* The promise is inductive once the variables have their types.
Inv == TypeOK /\ KeepsExactPrefix

LEMMA InitInv == Init => Inv
<1> SUFFICES ASSUME Init PROVE Inv
  OBVIOUS
<1>1. max \in Nat
  <2>1. PICK m \in Limits : max = IF m < 0 THEN 0 ELSE m
    BY DEF Init
  <2>2. m \in Int
    BY CaptureAssumption DEF CaptureAssumption
  <2>3. QED
    BY <2>1, <2>2
<1>2. TypeOK
  BY <1>1 DEF Init, TypeOK
<1>3. KeepsExactPrefix
  BY <1>1 DEF Init, KeepsExactPrefix
<1>4. QED
  BY <1>2, <1>3 DEF Inv

\* One observed write keeps the counters and the mark in step with each other.
LEMMA WriteKeepsInv ==
  ASSUME Inv, NEW n \in Nat, WriteObserved(n)
  PROVE  Inv'
<1>1. n \in Nat /\ n > 0
  BY DEF WriteObserved
<1>2. TypeOK'
  BY <1>1 DEF Inv, TypeOK, WriteObserved, Kept, Drops, Remaining
<1>3. CASE ~store
  BY <1>1, <1>2, <1>3 DEF Inv, TypeOK, KeepsExactPrefix, WriteObserved, Kept, Drops, Remaining
<1>4. CASE store /\ max = 0
  BY <1>1, <1>2, <1>4 DEF Inv, TypeOK, KeepsExactPrefix, WriteObserved, Kept, Drops, Remaining
<1>5. CASE store /\ max # 0
  <2>1. /\ max \in Nat /\ size \in Nat /\ stored \in Nat
        /\ stored = IF size <= max THEN size ELSE max
        /\ size' = size + n /\ max' = max /\ store' = store
    BY <1>5 DEF Inv, TypeOK, KeepsExactPrefix, WriteObserved
  <2>2. stored' = IF size' <= max THEN size' ELSE max
    BY <1>1, <1>5, <2>1 DEF WriteObserved, Kept, Remaining
  <2>3. truncated' <=> size' > max
    <3>1. truncated <=> size > max
      BY <1>5 DEF Inv, KeepsExactPrefix
    <3>2. Drops(n) <=> n > max - stored
      BY <1>5 DEF Drops, Remaining
    <3>3. size' > max <=> size > max \/ n > max - stored
      BY <1>1, <2>1
    <3>4. QED
      BY <3>1, <3>2, <3>3 DEF WriteObserved
  <2>4. QED
    BY <1>2, <1>5, <2>1, <2>2, <2>3 DEF Inv, KeepsExactPrefix
<1>6. QED
  BY <1>3, <1>4, <1>5 DEF Inv, TypeOK

\* A capture keeps exactly the first max bytes of a body and is marked truncated
\* exactly if the body is longer, for every limit and every sequence of reads.
THEOREM CaptureIsExact == Spec => []KeepsExactPrefix
<1>1. Inv /\ [Next]_captureVars => Inv'
  <2>1. CASE UNCHANGED captureVars
    BY <2>1 DEF Inv, TypeOK, KeepsExactPrefix, captureVars
  <2>2. ASSUME Inv, Next PROVE Inv'
    BY <2>2, WriteKeepsInv, CaptureAssumption DEF Next, CaptureAssumption
  <2>3. QED
    BY <2>1, <2>2
<1>2. Inv => KeepsExactPrefix
  BY DEF Inv
<1>3. QED
  BY InitInv, <1>1, <1>2, PTL DEF Spec

-----------------------------------------------------------------------------
(* Inspection *)

\* The announced length is the true one, a body that is read ahead fits the
\* limit, and whether bytes are kept is what the rule and the class say.
InspectInv ==
    /\ Inv
    /\ total \in Nat /\ announced \in {-1, total}
    /\ phase = "buffered" => PreBuffers
    /\ store = CapturePlan(rule, class)

LEMMA InspectInitInv == InspectInit => InspectInv
<1> SUFFICES ASSUME InspectInit PROVE InspectInv
  OBVIOUS
<1>1. Inv
  BY InitInv DEF InspectInit
<1>2. total \in Nat /\ announced \in {-1, total}
  BY CaptureAssumption DEF InspectInit, CaptureAssumption
<1>3. QED
  BY <1>1, <1>2 DEF InspectInit, InspectInv

LEMMA InspectNextInv == InspectInv /\ [InspectNext]_inspectVars => InspectInv'
<1> SUFFICES ASSUME InspectInv, [InspectNext]_inspectVars PROVE InspectInv'
  OBVIOUS
<1>1. CASE PreBuffer
  <2>1. Inv'
    BY <1>1, WriteKeepsInv DEF InspectInv, PreBuffer
  <2>2. UNCHANGED <<bodyVars, max, store>> /\ PreBuffers
    BY <1>1 DEF PreBuffer, WriteObserved
  <2>3. PreBuffers' /\ store' = CapturePlan(rule, class)'
    BY <2>2 DEF InspectInv, PreBuffers, CapturePlan, bodyVars
  <2>4. QED
    BY <2>1, <2>2, <2>3 DEF InspectInv, bodyVars
<1>2. CASE ReadThrough
  <2>1. PICK n \in Nat : WriteObserved(n)
    BY <1>2, CaptureAssumption DEF ReadThrough, CaptureAssumption
  <2>2. Inv'
    BY <2>1, WriteKeepsInv DEF InspectInv
  <2>3. UNCHANGED <<bodyVars, max, store>> /\ phase' = "streaming"
    BY <1>2, <2>1 DEF ReadThrough, WriteObserved
  <2>4. store' = CapturePlan(rule, class)'
    BY <2>3 DEF InspectInv, CapturePlan, bodyVars
  <2>5. QED
    BY <2>2, <2>3, <2>4 DEF InspectInv, bodyVars
<1>3. CASE Finish
  <2>1. UNCHANGED <<bodyVars, captureVars>> /\ phase' = "logged"
    BY <1>3 DEF Finish
  <2>2. Inv'
    BY <2>1 DEF InspectInv, Inv, TypeOK, KeepsExactPrefix, captureVars
  <2>3. QED
    BY <2>1, <2>2 DEF InspectInv, CapturePlan, bodyVars, captureVars
<1>4. CASE UNCHANGED inspectVars
  <2>1. UNCHANGED <<bodyVars, phase, captureVars>>
    BY <1>4 DEF inspectVars
  <2>2. Inv'
    BY <2>1 DEF InspectInv, Inv, TypeOK, KeepsExactPrefix, captureVars
  <2>3. QED
    BY <2>1, <2>2 DEF InspectInv, PreBuffers, CapturePlan, bodyVars, captureVars
<1>5. QED
  BY <1>1, <1>2, <1>3, <1>4 DEF InspectNext

\* No more of a body is held than the rule's limit, although small bodies are
\* read whole before they are forwarded.
THEOREM LimitBoundsMemory == InspectSpec => []HeldIsBounded
<1>1. InspectInv => HeldIsBounded
  <2> SUFFICES ASSUME InspectInv, max # 0 PROVE Held <= max
    BY DEF HeldIsBounded
  <2>1. stored <= max
    BY DEF InspectInv, Inv, TypeOK, KeepsExactPrefix
  <2>2. phase = "buffered" => total <= max
    BY DEF InspectInv, PreBuffers
  <2>3. QED
    BY <2>1, <2>2 DEF Held
<1>2. QED
  BY <1>1, InspectInitInv, InspectNextInv, PTL DEF InspectSpec

\* A text that fits the limit is logged whole, streamed or not, read ahead or
\* on its way.
THEOREM TextIsKept == InspectSpec => []TextIsLoggedWhole
<1>1. InspectInv => TextIsLoggedWhole
  <2> SUFFICES ASSUME InspectInv, class.text, ~class.binary, rule.capture,
                      size = total, max = 0 \/ total <= max
               PROVE  stored = total /\ ~truncated
    BY DEF TextIsLoggedWhole
  <2>1. store
    BY DEF InspectInv, CapturePlan
  <2>2. QED
    BY <2>1 DEF InspectInv, Inv, TypeOK, KeepsExactPrefix
<1>2. QED
  BY <1>1, InspectInitInv, InspectNextInv, PTL DEF InspectSpec

=============================================================================
