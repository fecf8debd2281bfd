----------------------------- MODULE BodyCapture -----------------------------
(***************************************************************************)
(* What a BodyCapture promises: it counts every byte of a body that passes *)
(* by and keeps a prefix of it, up to a limit.  Bytes are counted, their   *)
(* values do not matter; the kept bytes are always the first of the body.  *)
(***************************************************************************)
EXTENDS Integers, FiniteSets

CONSTANTS
    Limits,   \* values rule.MaxBodySize may have
    Chunks,   \* sizes of the pieces in which a body is read
    MaxSize   \* bound of the model: the largest body

ASSUME CaptureAssumption ==
    /\ Limits \subseteq Int
    /\ Chunks \subseteq Nat
    /\ MaxSize \in Nat

VARIABLES
    max,       \* bytes to keep, 0 for no limit
    store,     \* whether bytes are kept at all
    size,      \* bytes seen
    stored,    \* bytes kept
    truncated  \* bytes were dropped because of max

captureVars == <<max, store, size, stored, truncated>>

\* NewBodyCapture: a negative limit means none.
Init ==
    /\ \E m \in Limits : max = IF m < 0 THEN 0 ELSE m
    /\ store \in BOOLEAN
    /\ size = 0
    /\ stored = 0
    /\ truncated = FALSE

Remaining == max - stored

\* How many of n bytes are kept, and whether the rest is dropped.
Kept(n) ==
    IF ~store THEN 0
    ELSE IF max = 0 THEN n
    ELSE IF Remaining <= 0 THEN 0
    ELSE IF n > Remaining THEN Remaining ELSE n

\* Mutant: a chunk that just fits counts as cut.
DropsEarly(n) == store /\ max # 0 /\ n >= Remaining

Drops(n) == store /\ max # 0 /\ n > Remaining

WriteObserved(n) ==
    /\ size + n <= MaxSize
    /\ n > 0
    /\ size' = size + n
    /\ stored' = stored + Kept(n)
    /\ truncated' = (truncated \/ Drops(n))
    /\ UNCHANGED <<max, store>>

Next == \E n \in Chunks : WriteObserved(n)

Spec == Init /\ [][Next]_captureVars

-----------------------------------------------------------------------------

\* The counters never go below zero and the limit is the clamped one.
TypeOK ==
    /\ max \in Nat
    /\ store \in BOOLEAN
    /\ size \in Nat
    /\ stored \in Nat
    /\ truncated \in BOOLEAN

\* However the body is cut into reads, the capture keeps exactly the first max
\* bytes of it, and says "truncated" exactly if there was more than that.
KeepsExactPrefix ==
    /\ stored = IF ~store THEN 0
                ELSE IF max = 0 \/ size <= max THEN size ELSE max
    /\ truncated <=> store /\ max # 0 /\ size > max

=============================================================================
