---------------------------- MODULE SharedCapture ----------------------------
(***************************************************************************)
(* The capture of a streamed request body.  The transport's goroutine      *)
(* reads the body and calls WriteObserved; the handler's goroutine takes   *)
(* the Snapshot for the log once the response is complete, which may be    *)
(* before the body is.  Nothing synchronizes the two, so each access to a  *)
(* field of the struct is a step of its own.                               *)
(*                                                                         *)
(* A bytes.Buffer first grows to its new length and then copies the bytes. *)
(* Snapshot takes the length of the buffer, then that many of its bytes,   *)
(* then the other two fields, which the compiler may load in either order. *)
(* Both sides keep the order of their accesses, as they do on amd64.       *)
(***************************************************************************)
EXTENDS Integers, FiniteSets

CONSTANTS Limits, Chunks, MaxSize

VARIABLES
    max, store, size, stored, truncated,  \* the fields of the BodyCapture;
    filled,    \* stored is the length of the buffer, filled its bytes in place
    writer,    \* "idle", or what WriteObserved turns to next
    chunk,     \* bytes of the write in progress
    due,       \* the write in progress has dropped bytes
    left,      \* what Snapshot has yet to copy
    snap,      \* the snapshot as far as it is taken
    overlap    \* history: the snapshot met a write

captureVars == <<max, store, size, stored, truncated, filled>>
vars == <<captureVars, writer, chunk, due, left, snap, overlap>>

\* The promise of the capture.  A write counts from the moment the buffer has
\* grown: before, its size is not in yet; after, its mark is only due.
Promise == INSTANCE BodyCapture WITH
    size <- IF writer = "keep" THEN size - chunk ELSE size,
    truncated <- (truncated \/ due)

ASSUME SharedAssumption ==
    /\ Limits \subseteq Int
    /\ Chunks \subseteq Nat
    /\ MaxSize \in Nat

Fields == {"length", "bytes", "size", "flag"}

Init ==
    /\ \E m \in Limits : max = IF m < 0 THEN 0 ELSE m
    /\ store \in BOOLEAN
    /\ size = 0
    /\ stored = 0
    /\ truncated = FALSE
    /\ filled = 0
    /\ writer = "idle"
    /\ chunk = 0
    /\ due = FALSE
    /\ left = Fields
    /\ snap = [length |-> 0, bytes |-> 0, size |-> 0, flag |-> FALSE]
    /\ overlap = FALSE

-----------------------------------------------------------------------------
(* WriteObserved, in the transport's goroutine *)

Remaining == max - stored

\* A step of the writer while the snapshot is being taken.
Meets == overlap' = (overlap \/ left \notin {Fields, {}})

\* c.size += n; a capture that stores nothing is done with that.
AddSize(n) ==
    /\ writer = "idle"
    /\ n > 0
    /\ size + n <= MaxSize
    /\ size' = size + n
    /\ IF store THEN writer' = "keep" /\ chunk' = n ELSE UNCHANGED <<writer, chunk>>
    /\ Meets
    /\ UNCHANGED <<max, store, stored, truncated, filled, due, left, snap>>

\* The buffer grows by the whole chunk ...
GrowAll ==
    /\ writer = "keep"
    /\ max = 0 \/ chunk <= Remaining
    /\ stored' = stored + chunk
    /\ writer' = "fill"
    /\ Meets
    /\ UNCHANGED <<max, store, size, truncated, filled, chunk, due, left, snap>>

\* Mutant: the chunk is not cut to what remains.
GrowTooMuch ==
    /\ writer = "keep"
    /\ max # 0 /\ chunk > Remaining /\ Remaining > 0
    /\ stored' = stored + chunk
    /\ writer' = "fill"
    /\ due' = TRUE
    /\ Meets
    /\ UNCHANGED <<max, store, size, truncated, filled, chunk, left, snap>>

\* ... or by what still fits ...
GrowSome ==
    /\ writer = "keep"
    /\ max # 0 /\ chunk > Remaining /\ Remaining > 0
    /\ stored' = stored + Remaining
    /\ writer' = "fill"
    /\ due' = TRUE
    /\ Meets
    /\ UNCHANGED <<max, store, size, truncated, filled, chunk, left, snap>>

\* Mutant: a chunk of which nothing fits is dropped without a mark.
DropSilently ==
    /\ writer = "keep"
    /\ max # 0 /\ Remaining <= 0
    /\ writer' = "idle"
    /\ Meets
    /\ UNCHANGED <<captureVars, chunk, due, left, snap>>

\* ... or not at all.
DropAll ==
    /\ writer = "keep"
    /\ max # 0 /\ Remaining <= 0
    /\ writer' = "mark"
    /\ due' = TRUE
    /\ Meets
    /\ UNCHANGED <<captureVars, chunk, left, snap>>

\* The bytes are copied to the end of the buffer.
Fill ==
    /\ writer = "fill"
    /\ filled' = stored
    /\ writer' = IF due THEN "mark" ELSE "idle"
    /\ Meets
    /\ UNCHANGED <<max, store, size, stored, truncated, chunk, due, left, snap>>

\* c.truncated = true
Mark ==
    /\ writer = "mark"
    /\ truncated' = TRUE
    /\ due' = FALSE
    /\ writer' = "idle"
    /\ Meets
    /\ UNCHANGED <<max, store, size, stored, filled, chunk, left, snap>>

Writer == (\E n \in Chunks : AddSize(n)) \/ GrowAll \/ GrowSome \/ DropAll \/ Fill \/ Mark

-----------------------------------------------------------------------------
(* Snapshot, in the handler's goroutine *)

\* make([]byte, c.buf.Len())
CopyLength ==
    /\ "length" \in left
    /\ snap' = [snap EXCEPT !.length = stored]
    /\ left' = left \ {"length"}
    /\ overlap' = (writer # "idle")
    /\ UNCHANGED <<captureVars, writer, chunk, due>>

\* copy(body, c.buf.Bytes()): of the bytes asked for, those in place.
CopyBytes ==
    /\ "length" \notin left /\ "bytes" \in left
    /\ snap' = [snap EXCEPT !.bytes = IF filled < snap.length THEN filled ELSE snap.length]
    /\ left' = left \ {"bytes"}
    /\ UNCHANGED <<captureVars, writer, chunk, due, overlap>>

\* Mutant: the counter is read without waiting for the copy of the buffer.
CopySizeFirst ==
    /\ "size" \in left /\ "length" \in left
    /\ snap' = [snap EXCEPT !.size = size]
    /\ left' = left \ {"size"}
    /\ UNCHANGED <<captureVars, writer, chunk, due, overlap>>

CopySize ==
    /\ "bytes" \notin left /\ "size" \in left
    /\ snap' = [snap EXCEPT !.size = size]
    /\ left' = left \ {"size"}
    /\ UNCHANGED <<captureVars, writer, chunk, due, overlap>>

CopyFlag ==
    /\ "bytes" \notin left /\ "flag" \in left
    /\ snap' = [snap EXCEPT !.flag = truncated]
    /\ left' = left \ {"flag"}
    /\ UNCHANGED <<captureVars, writer, chunk, due, overlap>>

Reader == CopyLength \/ CopyBytes \/ CopySize \/ CopyFlag

-----------------------------------------------------------------------------

Next == Writer \/ Reader

Spec == Init /\ [][Next]_vars

\* The fields and the snapshot hold values of their kinds; a negative limit has
\* been replaced before the first byte is observed.
TypeOK ==
    /\ max \in Nat
    /\ store \in BOOLEAN
    /\ size \in Nat
    /\ stored \in Nat
    /\ truncated \in BOOLEAN
    /\ filled \in Nat
    /\ writer \in {"idle", "keep", "fill", "mark"}
    /\ chunk \in Nat
    /\ due \in BOOLEAN
    /\ left \subseteq Fields
    /\ snap \in [length: Nat, bytes: Nat, size: Nat, flag: BOOLEAN]
    /\ overlap \in BOOLEAN

\* The field-by-field writer keeps the promise of the atomic capture, the mark
\* of dropped bytes included, at every moment of a write.
KeepsPromise == Promise!Spec

Logged == left = {}

\* Whatever the race, a log never claims more bytes of a body than the size it
\* states, nor more than the limit: the buffer is copied before the counter.
SnapshotIsBounded ==
    Logged =>
        /\ snap.bytes <= snap.length /\ snap.length <= snap.size
        /\ max # 0 => snap.length <= max

\* A snapshot that meets no write holds the bytes it should and says so.
QuietSnapshotIsExact ==
    Logged /\ ~overlap =>
        /\ snap.bytes = snap.length
        /\ snap.flag <=> store /\ snap.length < snap.size
        /\ snap.length = IF ~store THEN 0
                         ELSE IF max = 0 \/ snap.size <= max THEN snap.size ELSE max

=============================================================================
