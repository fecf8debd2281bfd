--------------------------- MODULE LifecycleProofs ---------------------------
(***************************************************************************)
(* Proofs about the life of the process, for any rules, limits, exchanges, *)
(* retention and readings of the clock, and any number of starts, stops    *)
(* and crashes.                                                            *)
(***************************************************************************)
EXTENDS Lifecycle, LogTimeProofs, TLAPS

-----------------------------------------------------------------------------

\* The rows a start deletes, by the days of the instants.
LEMMA ExpiredByDay ==
  ASSUME TypeOK, NEW x \in rows
  PROVE  x \in Expired <=> RetentionDays > 0 /\ startedAt[x].day < now.day - RetentionDays
<1>1. startedAt[x] \in Instant /\ now \in Instant /\ RetentionDays \in Int
  BY LifecycleAssumption DEF TypeOK, LifecycleAssumption
<1>2. now.day \in Nat /\ now.sec \in Nat
  BY <1>1 DEF Instant
<1>3. Datetime(DaysBefore(now, RetentionDays)) = <<now.day - RetentionDays, Blank, now.sec>>
  BY <1>1 DEF Instant, Datetime, DaysBefore
<1>4. now.day - RetentionDays \in Int
  BY <1>1, <1>2
<1>5. QED
  BY <1>1, <1>2, <1>3, <1>4, TextsCompareByDay DEF Expired

-----------------------------------------------------------------------------
(* The inductive invariant *)

Up == {"serving", "draining", "closing", "closed"}

\* Where the version stands at the places of a start.
VersionInv ==
    /\ phase = "limits" => version = 0
    /\ phase \in Up \cup {"cleanup"} => version = 1

\* While the file has version 0 no user has set the limit that the migration
\* looks for; from the migration on, nothing but users accounts for it.
LimitInv ==
    /\ DOMAIN chosen \subseteq DOMAIN limit
    /\ \A r \in DOMAIN chosen : limit[r] = chosen[r]
    /\ version = 0 => \A r \in DOMAIN chosen : chosen[r] # LegacyLimit
    /\ version = 1 \/ phase = "record" =>
          \A r \in DOMAIN limit : limit[r] = LegacyLimit => r \in DOMAIN chosen

\* Only a process that is up has exchanges.
ProcessInv == phase \notin Up => InFlight = {} /\ cleanedAt = NoInstant

\* Rows by the days of their exchanges.
RowInv ==
    /\ \A x \in rows : status[x] = "recorded"
    /\ \A x \in Exchanges : status[x] = "recorded" /\ x \notin rows =>
          RetentionDays > 0 /\ startedAt[x].day < now.day - RetentionDays
    /\ cleanedAt.day <= now.day
    /\ RetentionDays > 0 /\ cleanedAt # NoInstant =>
          /\ \A x \in rows : startedAt[x].day >= cleanedAt.day - RetentionDays
          /\ \A x \in InFlight : startedAt[x].day >= cleanedAt.day

\* What Shutdown has waited for, unless it gave up.
StopInv == phase \in {"closing", "closed"} /\ ~late => Running = {}

Inv == TypeOK /\ VersionInv /\ LimitInv /\ ProcessInv /\ RowInv /\ StopInv

LEMMA InitInv == Init => Inv
<1> SUFFICES ASSUME Init PROVE Inv
  OBVIOUS
<1> USE LifecycleAssumption DEF LifecycleAssumption
<1>1. PICK R \in SUBSET Rules : limit \in [R -> Limits]
  BY DEF Init
<1>2. DOMAIN limit = R /\ version \in {0, 1} /\ phase = "down"
  BY <1>1 DEF Init
<1>3. /\ DOMAIN chosen = {r \in R : version = 1 \/ limit[r] # LegacyLimit}
      /\ \A r \in DOMAIN chosen : chosen[r] = limit[r]
  BY <1>2 DEF Init
<1>4. chosen \in [DOMAIN chosen -> Limits]
  <2>1. chosen = [r \in DOMAIN chosen |-> limit[r]]
    BY <1>2, <1>3 DEF Init
  <2>2. \A r \in DOMAIN chosen : limit[r] \in Limits
    BY <1>1, <1>3
  <2>3. QED
    BY <2>1, <2>2
<1>5. now \in Instant /\ NoInstant \in Instant
  BY DEF Init, NoInstant, Instant
<1>6. TypeOK
  <2>1. status \in [Exchanges -> {"new", "recorded"}] /\ startedAt \in [Exchanges -> Instant]
    BY <1>5 DEF Init
  <2>2. QED
    BY <1>1, <1>2, <1>3, <1>4, <1>5, <2>1 DEF Init, TypeOK, Served
<1>7. VersionInv /\ ProcessInv
  <2>1. status \in [Exchanges -> {"new", "recorded"}]
    BY DEF Init
  <2>2. QED
    BY <1>2, <2>1 DEF Init, VersionInv, ProcessInv, InFlight, Up
<1>8. LimitInv
  BY <1>2, <1>3 DEF LimitInv
<1>9. RowInv
  BY <1>5 DEF Init, RowInv, NoInstant, Instant
<1>10. StopInv
  BY <1>2 DEF StopInv
<1>11. QED
  BY <1>6, <1>7, <1>8, <1>9, <1>10 DEF Inv

-----------------------------------------------------------------------------
(* Types *)

LEMMA PutTypes ==
  ASSUME NEW f, f \in [DOMAIN f -> Limits], NEW r, NEW value \in Limits
  PROVE  /\ DOMAIN Put(f, r, value) = DOMAIN f \cup {r}
         /\ Put(f, r, value) \in [DOMAIN f \cup {r} -> Limits]
  BY DEF Put

LEMMA WithoutTypes ==
  ASSUME NEW f, f \in [DOMAIN f -> Limits], NEW r
  PROVE  /\ DOMAIN Without(f, r) = DOMAIN f \ {r}
         /\ Without(f, r) \in [DOMAIN f \ {r} -> Limits]
         /\ \A s \in DOMAIN f \ {r} : Without(f, r)[s] = f[s]
  BY DEF Without

LEMMA NextTypes == TypeOK /\ [Next]_vars => TypeOK'
<1> SUFFICES ASSUME TypeOK, [Next]_vars PROVE TypeOK'
  OBVIOUS
<1> USE LifecycleAssumption DEF TypeOK, LifecycleAssumption, file, Served
<1>1. CASE Start \/ CreateTables \/ ReadVersion \/ RecordVersion
  BY <1>1 DEF Start, CreateTables, ReadVersion, RecordVersion
<1>2. CASE MigrateLimits
  BY <1>2 DEF MigrateLimits
<1>3. CASE CleanupOldLogs \/ CleanupFails
  BY <1>3 DEF CleanupOldLogs, CleanupFails
<1>4. ASSUME NEW r \in Rules, NEW value \in Limits, SetLimit(r, value) PROVE TypeOK'
  <2>1. limit' = Put(limit, r, value) /\ chosen' = Put(chosen, r, value)
    BY <1>4 DEF SetLimit
  <2>2. DOMAIN limit' = DOMAIN limit \cup {r} /\ limit' \in [DOMAIN limit \cup {r} -> Limits]
    BY <2>1, PutTypes
  <2>3. DOMAIN chosen' = DOMAIN chosen \cup {r} /\ chosen' \in [DOMAIN chosen \cup {r} -> Limits]
    BY <2>1, PutTypes
  <2>4. QED
    BY <1>4, <2>2, <2>3 DEF SetLimit
<1>5. ASSUME NEW r \in Rules, DeleteRule(r) PROVE TypeOK'
  <2>1. /\ DOMAIN limit' \subseteq Rules /\ limit' \in [DOMAIN limit' -> Limits]
        /\ DOMAIN chosen' \subseteq Rules /\ chosen' \in [DOMAIN chosen' -> Limits]
    BY <1>5, WithoutTypes DEF DeleteRule
  <2>2. QED
    BY <1>5, <2>1 DEF DeleteRule
<1>6. ASSUME NEW x \in Exchanges, Begin(x) \/ Hijack(x) \/ Finish(x) \/ FinishTooLate(x)
      PROVE  TypeOK'
  BY <1>6 DEF Begin, Hijack, Finish, FinishTooLate
<1>7. CASE Signal \/ Drained \/ Deadline \/ CloseStore
  BY <1>7 DEF Signal, Drained, Deadline, CloseStore
<1>8. CASE Exit \/ Crash
  <2>1. NoInstant \in Instant
    BY DEF NoInstant, Instant
  <2>2. QED
    BY <1>8, <2>1 DEF Exit, Crash, Ends
<1>9. CASE Tick
  BY <1>9 DEF Tick
<1>10. CASE UNCHANGED vars
  BY <1>10 DEF vars
<1>11. QED
  BY <1>1, <1>2, <1>3, <1>4, <1>5, <1>6, <1>7, <1>8, <1>9, <1>10
  DEF Next, Migrate, Serve, Stop

-----------------------------------------------------------------------------
(* Steps *)

LEMMA NextVersion == TypeOK /\ VersionInv /\ [Next]_vars => VersionInv'
<1> SUFFICES ASSUME TypeOK, VersionInv, [Next]_vars PROVE VersionInv'
  OBVIOUS
<1> USE DEF TypeOK, VersionInv, Up, file
<1>1. CASE Start \/ Migrate
  BY <1>1 DEF Start, Migrate, CreateTables, ReadVersion, MigrateLimits, RecordVersion
<1>2. CASE CleanupOldLogs \/ CleanupFails \/ Signal \/ Stop
  BY <1>2 DEF CleanupOldLogs, CleanupFails, Signal, Stop, Drained, Deadline, CloseStore, Exit,
              Ends
<1>3. CASE Crash \/ Tick \/ UNCHANGED vars
  BY <1>3 DEF Crash, Ends, Tick, vars
<1>4. CASE Serve
  BY <1>4 DEF Serve, SetLimit, DeleteRule, Begin, Hijack, Finish, FinishTooLate
<1>5. QED
  BY <1>1, <1>2, <1>3, <1>4 DEF Next

LEMMA NextLimits == TypeOK /\ VersionInv /\ LimitInv /\ [Next]_vars => LimitInv'
<1> SUFFICES ASSUME TypeOK, VersionInv, LimitInv, [Next]_vars PROVE LimitInv'
  OBVIOUS
<1> USE DEF LimitInv, file
<1>1. CASE MigrateLimits
  <2>1. version = 0 /\ phase' = "record" /\ chosen' = chosen /\ version' = version
    BY <1>1 DEF MigrateLimits, VersionInv
  <2>2. limit' = [r \in DOMAIN limit |-> IF limit[r] = LegacyLimit THEN 0 ELSE limit[r]]
    BY <1>1 DEF MigrateLimits
  <2>3. LegacyLimit # 0
    BY LifecycleAssumption DEF LifecycleAssumption
  <2>4. QED
    BY <2>1, <2>2, <2>3
<1>2. ASSUME NEW r \in Rules, NEW value \in Limits, SetLimit(r, value) PROVE LimitInv'
  <2>1. version = 1 /\ version' = version
    BY <1>2 DEF SetLimit, StoreOpen, VersionInv, Up
  <2>2. limit' = Put(limit, r, value) /\ chosen' = Put(chosen, r, value)
    BY <1>2 DEF SetLimit
  <2>3. /\ DOMAIN limit' = DOMAIN limit \cup {r} /\ limit'[r] = value
        /\ \A s \in DOMAIN limit \ {r} : limit'[s] = limit[s]
    BY <2>2 DEF Put
  <2>4. /\ DOMAIN chosen' = DOMAIN chosen \cup {r} /\ chosen'[r] = value
        /\ \A s \in DOMAIN chosen \ {r} : chosen'[s] = chosen[s]
    BY <2>2 DEF Put
  <2>5. QED
    BY <2>1, <2>3, <2>4
<1>3. ASSUME NEW r \in Rules, DeleteRule(r) PROVE LimitInv'
  <2>1. version = 1 /\ version' = version
    BY <1>3 DEF DeleteRule, StoreOpen, VersionInv, Up
  <2>2. /\ DOMAIN limit' = DOMAIN limit \ {r} /\ DOMAIN chosen' = DOMAIN chosen \ {r}
        /\ \A s \in DOMAIN limit \ {r} : limit'[s] = limit[s]
        /\ \A s \in DOMAIN chosen \ {r} : chosen'[s] = chosen[s]
    BY <1>3, WithoutTypes DEF DeleteRule, TypeOK
  <2>3. QED
    BY <2>1, <2>2
<1>4. CASE RecordVersion
  BY <1>4 DEF RecordVersion
<1>5. CASE Start \/ CreateTables \/ ReadVersion
  BY <1>5 DEF Start, CreateTables, ReadVersion
<1>6. CASE CleanupOldLogs \/ CleanupFails \/ Signal \/ Stop
  BY <1>6 DEF CleanupOldLogs, CleanupFails, Signal, Stop, Drained, Deadline, CloseStore, Exit,
              Ends
<1>7. CASE Crash \/ Tick \/ UNCHANGED vars
  BY <1>7 DEF Crash, Ends, Tick, vars
<1>8. CASE \E x \in Exchanges : Begin(x) \/ Hijack(x) \/ Finish(x) \/ FinishTooLate(x)
  BY <1>8 DEF Begin, Hijack, Finish, FinishTooLate
<1>9. QED
  BY <1>1, <1>2, <1>3, <1>4, <1>5, <1>6, <1>7, <1>8 DEF Next, Migrate, Serve

LEMMA NextProcess == TypeOK /\ ProcessInv /\ [Next]_vars => ProcessInv'
<1> SUFFICES ASSUME TypeOK, ProcessInv, [Next]_vars PROVE ProcessInv'
  OBVIOUS
<1> USE DEF TypeOK, ProcessInv, InFlight, Up, file
<1>1. CASE Start \/ Migrate
  BY <1>1 DEF Start, Migrate, CreateTables, ReadVersion, MigrateLimits, RecordVersion
<1>2. CASE CleanupOldLogs \/ CleanupFails \/ Signal \/ Drained \/ Deadline \/ CloseStore
  BY <1>2 DEF CleanupOldLogs, CleanupFails, Signal, Drained, Deadline, CloseStore
<1>3. CASE Exit \/ Crash
  <2>1. cleanedAt' = NoInstant
    BY <1>3 DEF Exit, Crash, Ends
  <2>2. \A x \in Exchanges : status'[x] \notin {"running", "hijacked"}
    BY <1>3 DEF Exit, Crash, Ends, Served
  <2>3. QED
    BY <2>1, <2>2
<1>4. CASE Tick \/ UNCHANGED vars
  BY <1>4 DEF Tick, vars
<1>5. CASE Serve
  <2>1. phase \in Up /\ phase' = phase
    BY <1>5 DEF Serve, SetLimit, DeleteRule, Begin, Hijack, Finish, FinishTooLate, StoreOpen
  <2>2. QED
    BY <2>1
<1>6. QED
  BY <1>1, <1>2, <1>3, <1>4, <1>5 DEF Next, Stop

LEMMA NextStop == TypeOK /\ StopInv /\ [Next]_vars => StopInv'
<1> SUFFICES ASSUME TypeOK, StopInv, [Next]_vars PROVE StopInv'
  OBVIOUS
<1> USE DEF TypeOK, StopInv, Running, file
<1>1. CASE Start \/ Migrate
  BY <1>1 DEF Start, Migrate, CreateTables, ReadVersion, MigrateLimits, RecordVersion
<1>2. CASE CleanupOldLogs \/ CleanupFails \/ Signal \/ Drained \/ Deadline \/ CloseStore
  BY <1>2 DEF CleanupOldLogs, CleanupFails, Signal, Drained, Deadline, CloseStore
<1>3. CASE Exit \/ Crash
  BY <1>3 DEF Exit, Crash, Ends
<1>4. CASE Tick \/ UNCHANGED vars
  BY <1>4 DEF Tick, vars
<1>5. CASE \E r \in Rules : DeleteRule(r) \/ \E value \in Limits : SetLimit(r, value)
  BY <1>5 DEF DeleteRule, SetLimit
<1>6. ASSUME NEW x \in Exchanges, Begin(x) PROVE StopInv'
  BY <1>6 DEF Begin
<1>7. ASSUME NEW x \in Exchanges, Hijack(x) \/ Finish(x) \/ FinishTooLate(x)
      PROVE  StopInv'
  <2>1. phase' = phase /\ late' = late
    BY <1>7 DEF Hijack, Finish, FinishTooLate
  <2>2. \A y \in Exchanges : status'[y] = "running" => status[y] = "running"
    BY <1>7 DEF Hijack, Finish, FinishTooLate
  <2>3. QED
    BY <2>1, <2>2
<1>8. QED
  BY <1>1, <1>2, <1>3, <1>4, <1>5, <1>6, <1>7 DEF Next, Serve, Stop

LEMMA NextRows == TypeOK /\ ProcessInv /\ RowInv /\ [Next]_vars => RowInv'
<1> SUFFICES ASSUME TypeOK, ProcessInv, RowInv, [Next]_vars PROVE RowInv'
  OBVIOUS
<1>0. /\ now.day \in Nat /\ cleanedAt.day \in Nat /\ RetentionDays \in Int
      /\ \A x \in Exchanges : startedAt[x].day \in Nat
      /\ rows \subseteq Exchanges /\ NoInstant.day = 0
      /\ status \in [Exchanges -> {"new", "running", "hijacked"} \cup Served]
      /\ startedAt \in [Exchanges -> Instant]
  BY LifecycleAssumption DEF TypeOK, Instant, LifecycleAssumption, NoInstant
<1>1. CASE CleanupOldLogs
  <2>1. /\ rows' = rows \ Expired /\ cleanedAt' = now
        /\ UNCHANGED <<status, startedAt, now>> /\ InFlight' = {}
    BY <1>1 DEF CleanupOldLogs, ProcessInv, Up, InFlight
  <2>2. \A x \in rows : x \in Expired
                        <=> RetentionDays > 0 /\ startedAt[x].day < now.day - RetentionDays
    BY ExpiredByDay
  <2>3. \A x \in rows' : status'[x] = "recorded"
    BY <2>1 DEF RowInv
  <2>4. \A x \in Exchanges : status'[x] = "recorded" /\ x \notin rows' =>
            RetentionDays > 0 /\ startedAt'[x].day < now'.day - RetentionDays
    BY <2>1, <2>2 DEF RowInv
  <2>5. RetentionDays > 0 => \A x \in rows' : startedAt'[x].day >= cleanedAt'.day - RetentionDays
    BY <1>0, <2>1, <2>2
  <2>6. QED
    BY <1>0, <2>1, <2>3, <2>4, <2>5 DEF RowInv
<1>2. ASSUME NEW x \in Exchanges, Begin(x) PROVE RowInv'
  <2>1. /\ status[x] = "new" /\ status' = [status EXCEPT ![x] = "running"]
        /\ startedAt' = [startedAt EXCEPT ![x] = now]
        /\ UNCHANGED <<rows, now, cleanedAt>>
    BY <1>2 DEF Begin, file
  <2>2. x \notin rows /\ InFlight' \subseteq InFlight \cup {x}
    BY <1>0, <2>1 DEF RowInv, InFlight
  <2>3. /\ startedAt'[x] = now /\ status'[x] = "running"
        /\ \A y \in Exchanges \ {x} : startedAt'[y] = startedAt[y] /\ status'[y] = status[y]
    BY <1>0, <2>1
  <2>4. \A y \in rows' : status'[y] = "recorded" /\ y # x
    BY <1>0, <2>1, <2>2, <2>3 DEF RowInv
  <2>5. \A y \in Exchanges : status'[y] = "recorded" /\ y \notin rows' =>
            RetentionDays > 0 /\ startedAt'[y].day < now'.day - RetentionDays
    BY <2>1, <2>3 DEF RowInv
  <2>6. RetentionDays > 0 /\ cleanedAt # NoInstant =>
            /\ \A y \in rows' : startedAt'[y].day >= cleanedAt'.day - RetentionDays
            /\ \A y \in InFlight' : startedAt'[y].day >= cleanedAt'.day
    <3>1. \A y \in InFlight' : y = x \/ (y \in InFlight /\ y \in Exchanges \ {x})
      BY <2>2 DEF InFlight
    <3>2. QED
      BY <1>0, <2>1, <2>3, <2>4, <3>1 DEF RowInv
  <2>7. QED
    BY <2>1, <2>4, <2>5, <2>6 DEF RowInv
<1>3. ASSUME NEW x \in Exchanges, Hijack(x) \/ Finish(x) \/ FinishTooLate(x) PROVE RowInv'
  <2>1. x \in InFlight /\ status[x] # "recorded" /\ UNCHANGED <<startedAt, now, cleanedAt>>
    BY <1>3 DEF Hijack, Finish, FinishTooLate, InFlight, file
  <2>2. InFlight' \subseteq InFlight
    BY <1>0, <1>3 DEF Hijack, Finish, FinishTooLate, InFlight
  <2>3. x \notin rows /\ \A y \in Exchanges \ {x} : status'[y] = status[y]
    BY <1>0, <1>3, <2>1 DEF Hijack, Finish, FinishTooLate, RowInv
  <2>4. \/ rows' = rows /\ status'[x] # "recorded"
        \/ rows' = rows \cup {x} /\ status'[x] = "recorded"
    BY <1>0, <1>3 DEF Hijack, Finish, FinishTooLate, InFlight, file
  <2>5. \A y \in rows' : status'[y] = "recorded"
    BY <1>0, <2>3, <2>4 DEF RowInv
  <2>6. \A y \in Exchanges : status'[y] = "recorded" /\ y \notin rows' =>
            RetentionDays > 0 /\ startedAt'[y].day < now'.day - RetentionDays
    BY <2>1, <2>3, <2>4 DEF RowInv
  <2>7. RetentionDays > 0 /\ cleanedAt # NoInstant =>
            startedAt[x].day >= cleanedAt.day /\ startedAt[x].day >= cleanedAt.day - RetentionDays
    <3>1. startedAt[x].day \in Nat
      BY <1>0
    <3>2. RetentionDays > 0 /\ cleanedAt # NoInstant => startedAt[x].day >= cleanedAt.day
      BY <2>1 DEF RowInv
    <3>3. QED
      BY <1>0, <3>1, <3>2
  <2>8. QED
    BY <2>1, <2>2, <2>4, <2>5, <2>6, <2>7 DEF RowInv
<1>4. CASE Exit \/ Crash
  <2>1. cleanedAt' = NoInstant /\ UNCHANGED <<rows, startedAt, now>>
    BY <1>4 DEF Exit, Crash, Ends, file
  <2>2. \A x \in Exchanges : status'[x] = "recorded" <=> status[x] = "recorded"
    BY <1>4 DEF Exit, Crash, Ends, InFlight
  <2>3. QED
    BY <1>0, <2>1, <2>2 DEF RowInv
<1>5. CASE Tick
  <2>1. Earlier(now, now') /\ now' \in Instant
    BY <1>5, LifecycleAssumption DEF Tick, LifecycleAssumption
  <2>2. now'.day \in Nat /\ now.day <= now'.day
    BY <1>0, <2>1 DEF Instant, Earlier
  <2>3. UNCHANGED <<rows, status, startedAt, cleanedAt, InFlight>>
    BY <1>5 DEF Tick, InFlight, file
  <2>4. \A x \in Exchanges : startedAt[x].day < now.day - RetentionDays
                             => startedAt[x].day < now'.day - RetentionDays
    BY <1>0, <2>2
  <2>5. cleanedAt'.day <= now'.day
    BY <1>0, <2>2, <2>3 DEF RowInv
  <2>6. QED
    BY <2>3, <2>4, <2>5 DEF RowInv
<1>6. CASE UNCHANGED <<rows, status, startedAt, now, cleanedAt>>
  BY <1>6 DEF RowInv, InFlight
<1>7. CASE Start \/ Migrate \/ CleanupFails \/ Signal \/ Drained \/ Deadline \/ CloseStore
  <2>1. UNCHANGED <<rows, status, startedAt, now, cleanedAt>>
    BY <1>7 DEF Start, Migrate, CreateTables, ReadVersion, MigrateLimits, RecordVersion,
                CleanupFails, Signal, Drained, Deadline, CloseStore, file
  <2>2. QED
    BY <1>6, <2>1
<1>8. CASE \E r \in Rules : DeleteRule(r) \/ \E value \in Limits : SetLimit(r, value)
  <2>1. UNCHANGED <<rows, status, startedAt, now, cleanedAt>>
    BY <1>8 DEF DeleteRule, SetLimit
  <2>2. QED
    BY <1>6, <2>1
<1>9. CASE UNCHANGED vars
  BY <1>6, <1>9 DEF vars
<1>10. QED
  BY <1>1, <1>2, <1>3, <1>4, <1>5, <1>7, <1>8, <1>9 DEF Next, Serve, Stop

LEMMA NextKeepsInv == Inv /\ [Next]_vars => Inv'
  BY NextTypes, NextVersion, NextLimits, NextProcess, NextRows, NextStop DEF Inv

-----------------------------------------------------------------------------
(* The theorems *)

\* The invariant of which the others are parts or consequences: where the
\* version stands, what accounts for limits and rows, whom Shutdown waited for.
THEOREM Invariance == Spec => []Inv
<1>1. Init => Inv
  BY InitInv
<1>2. Inv /\ [Next]_vars => Inv'
  BY NextKeepsInv
<1>3. QED
  BY <1>1, <1>2, PTL DEF Spec

\* Type correctness of the life of the process.
THEOREM TypesCorrect == Spec => []TypeOK
<1>1. Inv => TypeOK
  BY DEF Inv
<1>2. QED
  BY <1>1, Invariance, PTL

\* A limit that a user has set survives starts and crashes in the middle of the
\* migration (store.go runVersionedMigrations), for any values of the limits.
THEOREM LimitsSurvive == Spec => []UserLimitsSurvive
<1>1. Inv => UserLimitsSurvive
  BY DEF Inv, LimitInv, UserLimitsSurvive
<1>2. QED
  BY <1>1, Invariance, PTL

\* When the server runs the migration is complete, however many starts it took.
THEOREM MigrationComplete == Spec => []NoLegacyLimitServed
<1>1. Inv => NoLegacyLimitServed
  BY DEF Inv, LimitInv, VersionInv, Up, StoreOpen, NoLegacyLimitServed
<1>2. QED
  BY <1>1, Invariance, PTL

\* The clean-up of a start deletes no row before its days have passed.
THEOREM RowsLast == Spec => []RowsLastTheirDays
<1>1. Inv => RowsLastTheirDays
  <2> SUFFICES ASSUME Inv, NEW x \in Exchanges, status[x] = "recorded", x \notin rows
               PROVE  RetentionDays > 0 /\ Earlier(startedAt[x], DaysBefore(now, RetentionDays))
    BY DEF RowsLastTheirDays
  <2>1. RetentionDays > 0 /\ startedAt[x].day < now.day - RetentionDays
    BY DEF Inv, RowInv
  <2>2. now \in Instant
    BY DEF Inv, TypeOK
  <2>3. DaysBefore(now, RetentionDays).day = now.day - RetentionDays
    BY <2>2 DEF DaysBefore, Instant
  <2>4. QED
    BY <2>1, <2>3 DEF Earlier
<1>2. QED
  BY <1>1, Invariance, PTL

\* The clean-up of a start leaves no row that is a whole day too old.
THEOREM OldRowsGo == Spec => []OldRowsAreGone
<1>1. Inv => OldRowsAreGone
  <2> SUFFICES ASSUME Inv, RetentionDays > 0, cleanedAt # NoInstant, NEW x \in rows
               PROVE  ~Earlier(startedAt[x], DaysBefore(cleanedAt, RetentionDays + 1))
    BY DEF OldRowsAreGone
  <2>1. startedAt[x].day >= cleanedAt.day - RetentionDays
    BY DEF Inv, RowInv
  <2>2. cleanedAt \in Instant /\ startedAt[x] \in Instant /\ RetentionDays \in Int
    BY LifecycleAssumption DEF Inv, TypeOK, LifecycleAssumption
  <2>3. DaysBefore(cleanedAt, RetentionDays + 1).day = cleanedAt.day - (RetentionDays + 1)
    BY <2>2 DEF DaysBefore, Instant
  <2>4. cleanedAt.day \in Nat /\ startedAt[x].day \in Nat
    BY <2>2 DEF Instant
  <2>5. startedAt[x].day > DaysBefore(cleanedAt, RetentionDays + 1).day
    BY <2>1, <2>2, <2>3, <2>4
  <2>6. QED
    BY <2>2, <2>3, <2>4, <2>5 DEF Earlier
<1>2. QED
  BY <1>1, Invariance, PTL

LEMMA NextSparesExchanges ==
  Inv /\ [Next]_vars =>
    \A x \in Exchanges :
       status[x] # "cut" /\ status'[x] = "cut" => status[x] = "hijacked" \/ late
<1> SUFFICES ASSUME Inv, [Next]_vars, NEW x \in Exchanges, status[x] # "cut", status'[x] = "cut"
             PROVE  status[x] = "hijacked" \/ late
  OBVIOUS
<1>0. status \in [Exchanges -> {"new", "running", "hijacked"} \cup Served]
  BY DEF Inv, TypeOK
<1>1. CASE Start \/ Migrate \/ CleanupOldLogs \/ CleanupFails
  BY <1>1 DEF Start, Migrate, CreateTables, ReadVersion, MigrateLimits, RecordVersion,
              CleanupOldLogs, CleanupFails
<1>2. CASE \E r \in Rules : DeleteRule(r) \/ \E value \in Limits : SetLimit(r, value)
  BY <1>2 DEF DeleteRule, SetLimit
<1>3. CASE \E y \in Exchanges : Begin(y) \/ Hijack(y) \/ Finish(y)
  BY <1>0, <1>3 DEF Begin, Hijack, Finish
<1>4. CASE (\E y \in Exchanges : FinishTooLate(y)) \/ Exit
  <2>1. phase = "closed" /\ x \in InFlight
    BY <1>0, <1>4 DEF FinishTooLate, Exit, Ends
  <2>2. ~late => status[x] # "running"
    BY <2>1 DEF Inv, StopInv, Running
  <2>3. QED
    BY <2>1, <2>2 DEF InFlight
<1>5. CASE Signal \/ Drained \/ Deadline \/ CloseStore
  BY <1>5 DEF Signal, Drained, Deadline, CloseStore
<1>6. CASE Crash
  BY <1>6 DEF Crash, Ends
<1>7. CASE Tick \/ UNCHANGED vars
  BY <1>7 DEF Tick, vars
<1>8. QED
  BY <1>1, <1>2, <1>3, <1>4, <1>5, <1>6, <1>7 DEF Next, Serve, Stop

\* An exchange that a stop cuts off was upgraded, or outlasted the 10 seconds.
THEOREM StopIsGraceful == Spec => StopSparesExchanges
<1>1. Inv /\ [Next]_vars =>
        [\A x \in Exchanges :
            status[x] # "cut" /\ status'[x] = "cut" => status[x] = "hijacked" \/ late]_vars
  BY NextSparesExchanges
<1>2. QED
  BY <1>1, Invariance, PTL DEF Spec, StopSparesExchanges

-----------------------------------------------------------------------------
(* The promise of the log *)

LEMMA InitKeepsPromise == Init => Log!LogInit
<1> SUFFICES ASSUME Init PROVE Log!LogInit
  OBVIOUS
<1>1. status \in [Exchanges -> {"new", "recorded"}]
  BY DEF Init
<1>2. Outcome = [x \in Exchanges |-> IF status[x] = "recorded" THEN "recorded" ELSE "open"]
  BY <1>1 DEF Outcome
<1>3. \A x \in Exchanges : Outcome[x] = "recorded" <=> status[x] = "recorded"
  BY <1>2
<1>4. rows = {x \in Exchanges : Outcome[x] = "recorded"}
  BY <1>3 DEF Init
<1>5. QED
  BY <1>2, <1>4 DEF Log!LogInit

\* A crash, a stop or a refused insert drops exchanges that were open.
LEMMA DropKeepsPromise ==
  ASSUME TypeOK, TypeOK', rows' = rows, NEW what \in {"unlogged", "crashed", "cut"},
         NEW X \in SUBSET InFlight,
         status' = [x \in Exchanges |-> IF x \in X THEN what ELSE status[x]]
  PROVE  [Log!LogNext]_(Log!logVars)
<1>1. X \in SUBSET Exchanges /\ \A x \in X : Outcome[x] = "open"
  BY DEF InFlight, Outcome
<1>2. Outcome' = [x \in Exchanges |-> IF x \in X THEN "dropped" ELSE Outcome[x]]
  BY DEF Outcome
<1>3. Log!Drop(X)
  BY <1>1, <1>2 DEF Log!Drop
<1>4. QED
  BY <1>1, <1>3 DEF Log!LogNext

LEMMA FinishKeepsPromise ==
  ASSUME TypeOK, TypeOK', NEW x \in Exchanges, Finish(x) \/ FinishTooLate(x)
  PROVE  [Log!LogNext]_(Log!logVars)
<1>1. x \in InFlight /\ Outcome[x] = "open"
  BY DEF Finish, FinishTooLate, InFlight, Outcome
<1>2. CASE status' = [status EXCEPT ![x] = "recorded"] /\ rows' = rows \cup {x}
  <2>1. Outcome' = [Outcome EXCEPT ![x] = "recorded"]
    BY <1>2 DEF Outcome, TypeOK
  <2>2. Log!Record(x)
    BY <1>1, <1>2, <2>1 DEF Log!Record
  <2>3. QED
    BY <2>2 DEF Log!LogNext
<1>3. ASSUME NEW what \in {"unlogged", "cut"}, status' = [status EXCEPT ![x] = what], rows' = rows
      PROVE  [Log!LogNext]_(Log!logVars)
  <2>1. status' = [y \in Exchanges |-> IF y \in {x} THEN what ELSE status[y]]
    BY <1>3 DEF TypeOK
  <2>2. {x} \in SUBSET InFlight
    BY <1>1
  <2>3. QED
    BY <1>3, <2>1, <2>2, DropKeepsPromise
<1>4. QED
  BY <1>2, <1>3 DEF Finish, FinishTooLate, file

LEMMA NextKeepsPromise == Inv /\ [Next]_vars => [Log!LogNext]_(Log!logVars)
<1> SUFFICES ASSUME Inv, [Next]_vars PROVE [Log!LogNext]_(Log!logVars)
  OBVIOUS
<1>0. TypeOK /\ TypeOK'
  BY NextTypes DEF Inv
<1>1. CASE Outcome' = Outcome /\ rows' = rows
  BY <1>1 DEF Log!logVars
<1>2. CASE Start \/ Migrate \/ CleanupFails \/ Signal \/ Drained \/ Deadline \/ CloseStore
  <2>1. status' = status /\ rows' = rows
    BY <1>2 DEF Start, Migrate, CreateTables, ReadVersion, MigrateLimits, RecordVersion,
                CleanupFails, Signal, Drained, Deadline, CloseStore, file
  <2>2. QED
    BY <1>1, <2>1 DEF Outcome
<1>3. CASE (\E r \in Rules : DeleteRule(r) \/ \E value \in Limits : SetLimit(r, value))
           \/ Tick \/ UNCHANGED vars
  <2>1. status' = status /\ rows' = rows
    BY <1>3 DEF DeleteRule, SetLimit, Tick, vars, file
  <2>2. QED
    BY <1>1, <2>1 DEF Outcome
<1>4. ASSUME NEW x \in Exchanges, Begin(x) \/ Hijack(x) PROVE [Log!LogNext]_(Log!logVars)
  <2>1. Outcome' = Outcome
    BY <1>0, <1>4 DEF Begin, Hijack, Outcome, TypeOK
  <2>2. QED
    BY <1>1, <1>4, <2>1 DEF Begin, Hijack, file
<1>5. CASE CleanupOldLogs
  <2>1. Outcome' = Outcome /\ rows' = rows \ Expired
    BY <1>5 DEF CleanupOldLogs, Outcome
  <2>2. PICK X \in SUBSET Exchanges : X = rows \cap Expired
    BY <1>0 DEF TypeOK
  <2>3. Log!Forget(X)
    BY <2>1, <2>2 DEF Log!Forget
  <2>4. QED
    BY <2>3 DEF Log!LogNext
<1>6. CASE Exit \/ Crash
  <2>1. PICK what \in {"crashed", "cut"} : Ends(what)
    BY <1>6 DEF Exit, Crash
  <2>2. rows' = rows
    BY <1>6 DEF Exit, Crash, file
  <2>3. InFlight \in SUBSET InFlight
    OBVIOUS
  <2>4. QED
    BY <1>0, <2>1, <2>2, <2>3, DropKeepsPromise DEF Ends
<1>7. ASSUME NEW x \in Exchanges, Finish(x) \/ FinishTooLate(x)
      PROVE  [Log!LogNext]_(Log!logVars)
  BY <1>0, <1>7, FinishKeepsPromise
<1>8. QED
  BY <1>2, <1>3, <1>4, <1>5, <1>6, <1>7 DEF Next, Serve, Stop

\* The life of the process implements RequestLog: starts, stops and crashes
\* lose open exchanges and old rows, and never a row or an outcome otherwise.
THEOREM PromiseOutlivesProcess == Spec => KeepsLogPromise
  BY Invariance, InitKeepsPromise, NextKeepsPromise, PTL DEF Spec, KeepsLogPromise, Log!LogSpec

=============================================================================
