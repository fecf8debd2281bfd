------------------------------ MODULE Lifecycle ------------------------------
(***************************************************************************)
(* The process of RequestLens from start to end and start again: what      *)
(* main.go does around the server, the migrations a start runs on the      *)
(* file it finds, and what becomes of the exchanges in flight when the     *)
(* process stops.                                                          *)
(*                                                                         *)
(* Every statement commits by itself, so a crash between two statements    *)
(* leaves the first done and the second not.  A failure of a statement of  *)
(* a migration ends the process as a crash does (log.Fatalf).              *)
(***************************************************************************)
EXTENDS LogTime, FiniteSets

CONSTANTS
    Rules,          \* ids of rules
    Limits,         \* values of max_body_size; 0 is no limit
    LegacyLimit,    \* the default of versions before 1
    Exchanges,      \* exchanges that clients begin, each at most once
    RetentionDays,  \* LogRetentionDays of the configuration
    Instants        \* the readings of the clock, a finite set

ASSUME LifecycleAssumption ==
    /\ 0 \in Limits /\ LegacyLimit \in Limits /\ LegacyLimit # 0
    /\ RetentionDays \in Int
    /\ Instants \subseteq Instant

VARIABLES
    (* the file *)
    tables,     \* the tables exist
    version,    \* PRAGMA user_version
    limit,      \* max_body_size of each rule in proxy_rules
    rows,       \* exchanges with a row in http_logs
    (* the process *)
    phase,      \* where main and Open stand
    status,     \* of each exchange
    startedAt,  \* when the handler of each exchange began
    now,        \* the clock
    (* history *)
    chosen,     \* limits that users set and that no migration is meant to touch
    cleanedAt,  \* when this start deleted the old rows, if it did
    late        \* Shutdown gave up waiting for exchanges

vars == <<tables, version, limit, rows, phase, status, startedAt, now, chosen,
          cleanedAt, late>>

file == <<tables, version, limit, rows>>

NoInstant == [day |-> 0, sec |-> 0, frac |-> 0]

Served == {"recorded", "unlogged", "crashed", "cut"}

InFlight == {x \in Exchanges : status[x] \in {"running", "hijacked"}}

Running == {x \in Exchanges : status[x] = "running"}

\* The file is new, or was left by an older version with rules of any limit,
\* or by this one; some exchanges were recorded before.
Init ==
    /\ tables \in BOOLEAN
    /\ version \in IF tables THEN {0, 1} ELSE {0}
    /\ limit \in UNION {[R -> Limits] : R \in IF tables THEN SUBSET Rules ELSE {{}}}
    /\ now \in {t \in Instants : \A u \in Instants : ~Earlier(u, t)}
    /\ status \in [Exchanges -> IF tables THEN {"new", "recorded"} ELSE {"new"}]
    /\ startedAt = [x \in Exchanges |-> IF status[x] = "new" THEN NoInstant ELSE now]
    /\ rows = {x \in Exchanges : status[x] = "recorded"}
    /\ chosen = [r \in {s \in DOMAIN limit : version = 1 \/ limit[s] # LegacyLimit}
                    |-> limit[r]]
    /\ phase = "down"
    /\ cleanedAt = NoInstant
    /\ late = FALSE

-----------------------------------------------------------------------------
(* Start: Open and migrate *)

Start ==
    /\ phase = "down"
    /\ phase' = "create"
    /\ UNCHANGED <<file, status, startedAt, now, chosen, cleanedAt, late>>

\* CREATE TABLE IF NOT EXISTS.
CreateTables ==
    /\ phase = "create"
    /\ tables' = TRUE
    /\ phase' = "version"
    /\ UNCHANGED <<version, limit, rows, status, startedAt, now, chosen, cleanedAt, late>>

\* Mutant: the version is recorded before the limits are migrated.
ClaimVersion ==
    /\ phase = "version"
    /\ version' = 1
    /\ phase' = IF version < 1 THEN "limits" ELSE "cleanup"
    /\ UNCHANGED <<tables, limit, rows, status, startedAt, now, chosen, cleanedAt, late>>

ReadVersion ==
    /\ phase = "version"
    /\ phase' = IF version < 1 THEN "limits" ELSE "cleanup"
    /\ UNCHANGED <<file, status, startedAt, now, chosen, cleanedAt, late>>

\* Mutant: SET max_body_size = max_body_size - 262144, on every row.
SubtractLegacy ==
    /\ phase = "limits"
    /\ limit' = [r \in DOMAIN limit |-> limit[r] - LegacyLimit]
    /\ phase' = "record"
    /\ UNCHANGED <<tables, version, rows, status, startedAt, now, chosen, cleanedAt, late>>

\* UPDATE proxy_rules SET max_body_size = 0 WHERE max_body_size = 262144
MigrateLimits ==
    /\ phase = "limits"
    /\ limit' = [r \in DOMAIN limit |-> IF limit[r] = LegacyLimit THEN 0 ELSE limit[r]]
    /\ phase' = "record"
    /\ UNCHANGED <<tables, version, rows, status, startedAt, now, chosen, cleanedAt, late>>

\* Mutant: the version is never recorded.
RecordNothing ==
    /\ phase = "record"
    /\ phase' = "cleanup"
    /\ UNCHANGED <<file, status, startedAt, now, chosen, cleanedAt, late>>

\* PRAGMA user_version = 1
RecordVersion ==
    /\ phase = "record"
    /\ version' = 1
    /\ phase' = "cleanup"
    /\ UNCHANGED <<tables, limit, rows, status, startedAt, now, chosen, cleanedAt, late>>

-----------------------------------------------------------------------------
(* Start: CleanupOldLogs *)

DaysBefore(t, n) == [t EXCEPT !.day = t.day - n]

\* Mutant: the current day counts as one of the days.
ExpiredADayEarly ==
    IF RetentionDays <= 0 THEN {}
    ELSE {x \in rows : TextBefore(RFC3339Nano(startedAt[x]),
                                  Datetime(DaysBefore(now, RetentionDays - 1)))}

\* Mutant: a retention of one day is taken for none.
ExpiredUnlessOne ==
    IF RetentionDays <= 1 THEN {}
    ELSE {x \in rows : TextBefore(RFC3339Nano(startedAt[x]),
                                  Datetime(DaysBefore(now, RetentionDays)))}

\* WHERE started_at < datetime('now', '-N days'); none if retention is off.
Expired ==
    IF RetentionDays <= 0 THEN {}
    ELSE {x \in rows : TextBefore(RFC3339Nano(startedAt[x]),
                                  Datetime(DaysBefore(now, RetentionDays)))}

CleanupOldLogs ==
    /\ phase = "cleanup"
    /\ rows' = rows \ Expired
    /\ cleanedAt' = now
    /\ phase' = "serving"
    /\ UNCHANGED <<tables, version, limit, status, startedAt, now, chosen, late>>

\* An error of the clean-up is only printed, and the server goes on.
CleanupFails ==
    /\ phase = "cleanup"
    /\ phase' = "serving"
    /\ UNCHANGED <<file, status, startedAt, now, chosen, cleanedAt, late>>

-----------------------------------------------------------------------------
(* The server: rules and exchanges, while the store is open *)

StoreOpen == phase \in {"serving", "draining", "closing"}

Put(f, r, value) == [s \in DOMAIN f \cup {r} |-> IF s = r THEN value ELSE f[s]]

Without(f, r) == [s \in DOMAIN f \ {r} |-> f[s]]

\* A rule is created or its limit changed through the API.
SetLimit(r, value) ==
    /\ StoreOpen
    /\ limit' = Put(limit, r, value)
    /\ chosen' = Put(chosen, r, value)
    /\ UNCHANGED <<tables, version, rows, phase, status, startedAt, now, cleanedAt, late>>

DeleteRule(r) ==
    /\ StoreOpen
    /\ r \in DOMAIN limit
    /\ limit' = Without(limit, r)
    /\ chosen' = Without(chosen, r)
    /\ UNCHANGED <<tables, version, rows, phase, status, startedAt, now, cleanedAt, late>>

\* A connection accepted before Shutdown may still begin its first exchange
\* unless Shutdown has seen all of them come to rest.
Begin(x) ==
    /\ phase \in {"serving", "draining"} \/ (phase = "closing" /\ late)
    /\ status[x] = "new"
    /\ status' = [status EXCEPT ![x] = "running"]
    /\ startedAt' = [startedAt EXCEPT ![x] = now]
    /\ UNCHANGED <<file, phase, now, chosen, cleanedAt, late>>

\* An upgraded connection no longer belongs to the server.
Hijack(x) ==
    /\ StoreOpen
    /\ status[x] = "running"
    /\ status' = [status EXCEPT ![x] = "hijacked"]
    /\ UNCHANGED <<file, phase, startedAt, now, chosen, cleanedAt, late>>

\* The handler ends: it stores the row, or the insert is refused.
Finish(x) ==
    /\ StoreOpen
    /\ x \in InFlight
    /\ \/ /\ status' = [status EXCEPT ![x] = "recorded"]
          /\ rows' = rows \cup {x}
       \/ /\ status' = [status EXCEPT ![x] = "unlogged"]
          /\ UNCHANGED rows
    /\ UNCHANGED <<tables, version, limit, phase, startedAt, now, chosen, cleanedAt, late>>

\* The handler ends after the store was closed, and its insert fails.
FinishTooLate(x) ==
    /\ phase = "closed"
    /\ x \in InFlight
    /\ status' = [status EXCEPT ![x] = "cut"]
    /\ UNCHANGED <<file, phase, startedAt, now, chosen, cleanedAt, late>>

-----------------------------------------------------------------------------
(* Stop: a signal, Shutdown with its deadline, the deferred Close, the exit *)

\* Mutant: the server is closed instead of shut down.
SignalCloses ==
    /\ phase = "serving"
    /\ phase' = "closing"
    /\ UNCHANGED <<file, status, startedAt, now, chosen, cleanedAt, late>>

\* The first signal; signals that follow are swallowed while main shuts down.
Signal ==
    /\ phase = "serving"
    /\ phase' = "draining"
    /\ UNCHANGED <<file, status, startedAt, now, chosen, cleanedAt, late>>

\* Shutdown returns when no connection of the server has an exchange on it.
Drained ==
    /\ phase = "draining"
    /\ Running = {}
    /\ phase' = "closing"
    /\ UNCHANGED <<file, status, startedAt, now, chosen, cleanedAt, late>>

\* Mutant: Shutdown has no deadline.
DeadlineNever == FALSE /\ UNCHANGED vars

\* ... or when its 10 seconds have passed; the error is only printed.
Deadline ==
    /\ phase = "draining"
    /\ phase' = "closing"
    /\ late' = TRUE
    /\ UNCHANGED <<file, status, startedAt, now, chosen, cleanedAt>>

CloseStore ==
    /\ phase = "closing"
    /\ phase' = "closed"
    /\ UNCHANGED <<file, status, startedAt, now, chosen, cleanedAt, late>>

\* The process ends, and the exchanges it still served with it.
Ends(what) ==
    /\ phase' = "down"
    /\ status' = [x \in Exchanges |-> IF x \in InFlight THEN what ELSE status[x]]
    /\ cleanedAt' = NoInstant
    /\ late' = FALSE

\* main returns.
Exit ==
    /\ phase = "closed"
    /\ Ends("cut")
    /\ UNCHANGED <<file, startedAt, now, chosen>>

\* Mutant: rows that were not yet flushed go with the process.
CrashLosesRows ==
    /\ phase # "down"
    /\ Ends("crashed")
    /\ rows' \in SUBSET rows
    /\ UNCHANGED <<tables, version, limit, startedAt, now, chosen>>

\* The process is killed or fails; what was committed stays.
Crash ==
    /\ phase # "down"
    /\ Ends("crashed")
    /\ UNCHANGED <<file, startedAt, now, chosen>>

\* The clock moves forward.
Tick ==
    /\ now' \in {t \in Instants : Earlier(now, t)}
    /\ UNCHANGED <<file, phase, status, startedAt, chosen, cleanedAt, late>>

-----------------------------------------------------------------------------

Migrate == CreateTables \/ ReadVersion \/ MigrateLimits \/ RecordVersion

Serve ==
    \/ \E r \in Rules : DeleteRule(r) \/ \E value \in Limits : SetLimit(r, value)
    \/ \E x \in Exchanges : Begin(x) \/ Hijack(x) \/ Finish(x) \/ FinishTooLate(x)

Stop == Drained \/ Deadline \/ CloseStore \/ Exit

Next ==
    \/ Start \/ Migrate \/ CleanupOldLogs \/ CleanupFails
    \/ Serve
    \/ Signal \/ Stop \/ Crash
    \/ Tick

Spec == Init /\ [][Next]_vars

\* Once a signal has come the steps of main follow: a timer ends the wait for
\* the exchanges, of which nothing is assumed, and the others do not wait.
FairSpec ==
    /\ Spec
    /\ WF_vars(Deadline)
    /\ WF_vars(CloseStore)
    /\ WF_vars(Exit)

-----------------------------------------------------------------------------
(* Types *)

TypeOK ==
    /\ tables \in BOOLEAN
    /\ version \in {0, 1}
    /\ DOMAIN limit \subseteq Rules /\ limit \in [DOMAIN limit -> Limits]
    /\ rows \subseteq Exchanges
    /\ phase \in {"down", "create", "version", "limits", "record", "cleanup", "serving",
                  "draining", "closing", "closed"}
    /\ status \in [Exchanges -> {"new", "running", "hijacked"} \cup Served]
    /\ startedAt \in [Exchanges -> Instant]
    /\ now \in Instant
    /\ DOMAIN chosen \subseteq Rules /\ chosen \in [DOMAIN chosen -> Limits]
    /\ cleanedAt \in Instant
    /\ late \in BOOLEAN

-----------------------------------------------------------------------------
(* Safety *)

\* A limit that a user has set is still in the file whatever crashes and starts
\* follow: the migration of the old default runs again only if nobody could
\* have set a limit since, though its two statements are not one transaction.
UserLimitsSurvive ==
    DOMAIN chosen \subseteq DOMAIN limit /\ \A r \in DOMAIN chosen : limit[r] = chosen[r]

\* No rule is served with a limit that only the old default explains, although
\* earlier starts may have crashed between any two statements.
NoLegacyLimitServed ==
    StoreOpen => \A r \in DOMAIN limit : limit[r] = LegacyLimit => r \in DOMAIN chosen

\* A recorded exchange keeps its row through crashes and restarts until it is
\* older than the retention; RFC3339 texts compared with those of datetime()
\* never delete a row too early.
RowsLastTheirDays ==
    \A x \in Exchanges :
        status[x] = "recorded" /\ x \notin rows =>
            RetentionDays > 0 /\ Earlier(startedAt[x], DaysBefore(now, RetentionDays))

\* Once a start has deleted the old rows, no row is left that was older than
\* the retention by a whole day: the comparison of texts is no worse than that.
OldRowsAreGone ==
    RetentionDays > 0 /\ cleanedAt # NoInstant =>
        \A x \in rows : ~Earlier(startedAt[x], DaysBefore(cleanedAt, RetentionDays + 1))

\* A stop costs an exchange its row only if the exchange was upgraded, or ran on
\* when Shutdown had waited its 10 seconds.
StopSparesExchanges ==
    [][\A x \in Exchanges :
          status[x] # "cut" /\ status'[x] = "cut" => status[x] = "hijacked" \/ late]_vars

-----------------------------------------------------------------------------
(* Liveness *)

\* After a signal the process ends, though exchanges never do.
StopCompletes == phase = "draining" ~> phase = "down"

-----------------------------------------------------------------------------
(* The promise of the log *)

Outcome ==
    [x \in Exchanges |-> CASE status[x] \in {"new", "running", "hijacked"} -> "open"
                           [] status[x] = "recorded" -> "recorded"
                           [] OTHER -> "dropped"]

Log == INSTANCE RequestLog WITH outcome <- Outcome, journal <- rows

\* The life of the process keeps the promise RequestLog makes: a crash or a stop
\* drops exchanges and no rows, a start forgets rows and revives none.
KeepsLogPromise == Log!LogSpec

=============================================================================
