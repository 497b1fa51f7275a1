------------------------------ MODULE BffReads ------------------------------
(***************************************************************************)
(* The queries of the bff: each reads Redis, may take a Redis lock against *)
(* stampedes, asks Postgres through the circuit breaker of its pod, and    *)
(* fills the cache.  Values are versions of the row; 0 is an empty list.   *)
(* An entry may expire at any time, a lock before its holder is done.  The *)
(* row is the reader's own tenant's; keys hold one tenant, device and page *)
(* size, those of the readers.                                             *)
(***************************************************************************)
EXTENDS ReadStore

CONSTANTS
    Readers,       \* clients, each repeating the query its budget gives it
    Threshold,     \* failureThreshold
    Successes      \* successThreshold

VARIABLES
    reader,        \* per reader: where it is, what it has, which locks
    empty,         \* history: the last answer of each reader was empty
    cache,         \* Redis: the entry of each key
    lock,          \* Redis: the holder of each key's lock
    breaker,       \* per pod: the CircuitBreaker
    shared         \* Redis: the breaker state the pods share

bffVars == <<reader, empty, cache, lock, breaker, shared>>

Keys == {"device", "devices", "list", "latest", "all", "count"}
NoEntry == -1
Error == -2
Free == "free"
NoLock == "none"

\* The key a resolver caches under, whether it locks that key, and the key the
\* data source below caches and locks for itself.
Outer(q) == CASE q = "device" -> "device"
              [] q = "devices" -> "devices"
              [] q \in {"deviceTelemetry", "manyDeviceTelemetry"} -> "latest"
              [] q = "allTelemetry" -> "all"
              [] q = "devicesConnection" -> "count"
              [] q = "deviceTelemetryHistory" -> NoLock
LocksOuter(q) == q \in {"deviceTelemetry", "allTelemetry"}
Inner(q) == CASE q = "devices" -> "list"
              [] q = "allTelemetry" -> "all"
              [] OTHER -> NoLock

\* Queries that begin with one that is not cached: the page itself, and the
\* check whose device it is.
ChecksFirst(q) == q \in {"devicesConnection", "deviceTelemetryHistory"}

Queries == {"device", "devices", "deviceTelemetry", "manyDeviceTelemetry",
            "allTelemetry", "devicesConnection", "deviceTelemetryHistory"}

ASSUME ReadersAssumption ==
    /\ Free \notin Readers
    /\ Successes \in Nat \ {0}
    /\ \A r \in Readers : PodOf[r] \in Pods
    /\ \A b \in Budgets : /\ DOMAIN b.query \subseteq Readers
                          /\ \A r \in DOMAIN b.query : b.query[r] \in Queries

Idle == [at |-> "idle", got |-> NoEntry, first |-> FALSE, holds |-> {}]
Closed == [state |-> "CLOSED", failures |-> 0, successes |-> 0, cooled |-> FALSE]
NotShared == [state |-> "CLOSED", failures |-> 0, cooled |-> FALSE]

Query(r) == budget.query[r]
Active == DOMAIN budget.query

LockKey(r, level) == IF level = "outer" THEN Outer(Query(r)) ELSE Inner(Query(r))
Holds(r, k) == r \in Active /\ \E level \in reader[r].holds : LockKey(r, level) = k

BffTypeOK ==
    /\ \A r \in Active :
          /\ reader[r].at \in {"idle", "get", "lock", "reget", "dbget", "dblock",
                "sleep", "execute", "run", "cassandra", "dbset", "dbrelease",
                "set", "release"}
          /\ reader[r].holds \subseteq {"outer", "inner"}
          /\ reader[r].got \in Error .. version
    /\ cache \in [Keys -> NoEntry .. version]
    /\ lock \in [Keys -> Readers \cup {Free}]
    /\ \A p \in Pods : /\ breaker[p].state \in {"CLOSED", "OPEN", "HALF_OPEN"}
                       /\ breaker[p].successes \in 0 .. Successes - 1

BffInit ==
    /\ reader = [r \in Readers |-> Idle]
    /\ empty = [r \in Readers |-> FALSE]
    /\ cache = [k \in Keys |-> NoEntry]
    /\ lock = [k \in Keys |-> Free]
    /\ breaker = [p \in Pods |-> Closed]
    /\ shared = NotShared

-----------------------------------------------------------------------------
(* Moving a request on. *)

At(r, at) == r \in Active /\ reader[r].at = at
Go(r, at) == reader' = [reader EXCEPT ![r].at = at]
Have(r, got, at) == reader' = [reader EXCEPT ![r].at = at, ![r].got = got]
Finish(r, got) ==
    /\ reader' = [reader EXCEPT ![r] = Idle]
    /\ empty' = [empty EXCEPT ![r] = got = 0]

\* Past the resolver's cache: into the data source.
Source(r) == IF Inner(Query(r)) = NoLock THEN "execute" ELSE "dbget"

\* An error unwinds through the finally blocks of the locks that are held.
Unwind(r, held) ==
    IF held = {} THEN Finish(r, Error)
    ELSE /\ reader' = [reader EXCEPT ![r].got = Error, ![r].holds = held,
                ![r].at = IF "inner" \in held THEN "dbrelease" ELSE "release"]
         /\ UNCHANGED empty

Begin(r) ==
    /\ At(r, "idle")
    /\ reader' = [reader EXCEPT ![r].at = IF ChecksFirst(Query(r)) THEN "execute" ELSE "get",
                                ![r].first = ChecksFirst(Query(r))]
    /\ UNCHANGED <<empty, cache, lock, breaker, shared, used>>

\* cache.get of the resolver.
GetCached(r) ==
    LET k == Outer(Query(r)) IN
    /\ At(r, "get")
    /\ IF cache[k] # NoEntry THEN Finish(r, cache[k])
       ELSE /\ Go(r, IF LocksOuter(Query(r)) THEN "lock" ELSE Source(r))
            /\ UNCHANGED empty
    /\ UNCHANGED <<cache, lock, breaker, shared, used>>

\* Variant: the lock is taken whether or not it is free.
AcquireLockAlways(r, level, won, lost) ==
    /\ lock' = [lock EXCEPT ![LockKey(r, level)] = r]
    /\ reader' = [reader EXCEPT ![r].at = won, ![r].holds = @ \cup {level}]

\* acquireLock: SET NX.
AcquireLock(r, level, won, lost) ==
    IF lock[LockKey(r, level)] = Free
    THEN /\ lock' = [lock EXCEPT ![LockKey(r, level)] = r]
         /\ reader' = [reader EXCEPT ![r].at = won, ![r].holds = @ \cup {level}]
    ELSE Go(r, lost) /\ UNCHANGED lock

\* cacheGetOrLock: without the lock one more look, then on without it.
CacheGetOrLock(r) ==
    /\ \/ /\ At(r, "lock")
          /\ AcquireLock(r, "outer", Source(r), "reget")
          /\ UNCHANGED empty
       \/ /\ At(r, "reget")
          /\ LET c == cache[Outer(Query(r))] IN
             IF c # NoEntry THEN Finish(r, c) ELSE Go(r, Source(r)) /\ UNCHANGED empty
          /\ UNCHANGED lock
    /\ UNCHANGED <<cache, breaker, shared, used>>

\* getAllDevicesWithTelemetry and getAllTelemetry: cache, lock, or 100 ms and
\* one more look, an empty list if there is still nothing.
DbGetCached(r) ==
    LET c == cache[Inner(Query(r))] IN
    /\ At(r, "dbget")
    /\ IF c # NoEntry THEN Have(r, c, "set") ELSE Go(r, "dblock")
    /\ UNCHANGED <<empty, cache, lock, breaker, shared, used>>

DbLock(r) ==
    /\ At(r, "dblock")
    /\ AcquireLock(r, "inner", "execute", "sleep")
    /\ UNCHANGED <<empty, cache, breaker, shared, used>>

Wake(r) ==
    LET c == cache[Inner(Query(r))] IN
    /\ At(r, "sleep")
    /\ Have(r, IF c = NoEntry THEN 0 ELSE c, "set")
    /\ UNCHANGED <<empty, cache, lock, breaker, shared, used>>

\* cache.set, then releaseLock in the data source's finally.
DbSet(r) ==
    /\ At(r, "dbset")
    /\ cache' = [cache EXCEPT ![Inner(Query(r))] = reader[r].got]
    /\ Go(r, "dbrelease")
    /\ UNCHANGED <<empty, lock, breaker, shared, used>>

\* releaseLock without the token: whoever holds the lock loses it.
DbRelease(r) ==
    LET held == reader[r].holds \ {"inner"} IN
    /\ At(r, "dbrelease")
    /\ lock' = [lock EXCEPT ![LockKey(r, "inner")] = Free]
    /\ IF reader[r].got = Error THEN Unwind(r, held)
       ELSE /\ reader' = [reader EXCEPT ![r].at = "set", ![r].holds = held]
            /\ UNCHANGED empty
    /\ UNCHANGED <<cache, breaker, shared, used>>

\* cache.set of the resolver; a row that was not found is not cached.
SetCached(r) ==
    /\ At(r, "set")
    /\ cache' = [cache EXCEPT ![Outer(Query(r))] = reader[r].got]
    /\ IF reader[r].holds = {} THEN Finish(r, reader[r].got)
       ELSE Go(r, "release") /\ UNCHANGED empty
    /\ UNCHANGED <<lock, breaker, shared, used>>

Release(r) ==
    /\ At(r, "release")
    /\ lock' = [lock EXCEPT ![LockKey(r, "outer")] = Free]
    /\ Finish(r, reader[r].got)
    /\ UNCHANGED <<cache, breaker, shared, used>>

-----------------------------------------------------------------------------
(* CircuitBreaker.execute. *)

\* syncFromRedis: the shared state, if it counts more failures.
SyncFromRedis(b) ==
    IF shared.failures > b.failures
    THEN [b EXCEPT !.state = shared.state, !.failures = shared.failures,
                   !.cooled = shared.cooled]
    ELSE b

\* syncToRedis, best effort: what Redis may hold after it.
SyncToRedis(b) ==
    {shared, [state |-> b.state, failures |-> b.failures, cooled |-> b.cooled]}

\* Open and not timed out: fail at once.  Timed out: half open, and on.
Execute(r) ==
    LET p == PodOf[r] IN
    /\ At(r, "execute")
    /\ \E readable \in BOOLEAN :
          LET b == IF readable THEN SyncFromRedis(breaker[p]) ELSE breaker[p] IN
          /\ MayFail(readable)
          /\ IF b.state = "OPEN" /\ ~b.cooled
             THEN Unwind(r, reader[r].holds) /\ breaker' = [breaker EXCEPT ![p] = b]
             ELSE /\ Go(r, "run") /\ UNCHANGED empty
                  /\ breaker' = [breaker EXCEPT ![p] =
                        IF b.state = "OPEN" THEN [b EXCEPT !.state = "HALF_OPEN"] ELSE b]
    /\ UNCHANGED <<cache, lock, shared>>

\* Variant: one success more than the threshold.
OnSuccessLate(b) ==
    LET closes == b.state = "HALF_OPEN" /\ b.successes >= Successes IN
    [b EXCEPT !.failures = 0,
              !.state = IF closes THEN "CLOSED" ELSE @,
              !.successes = IF closes THEN 0
                            ELSE IF b.state = "HALF_OPEN" THEN @ + 1 ELSE @]

\* Variant: no success is enough while half open.
OnSuccessStays(b) == [b EXCEPT !.failures = 0]

OnSuccess(b) ==
    LET closes == b.state = "HALF_OPEN" /\ b.successes + 1 >= Successes IN
    [b EXCEPT !.failures = 0,
              !.state = IF closes THEN "CLOSED" ELSE @,
              !.successes = IF closes THEN 0
                            ELSE IF b.state = "HALF_OPEN" THEN @ + 1 ELSE @]

OnFailure(b) ==
    [b EXCEPT !.failures = @ + 1, !.cooled = FALSE,
              !.state = IF @ = "HALF_OPEN" \/ b.failures + 1 >= Threshold
                        THEN "OPEN" ELSE @,
              !.successes = IF b.state = "HALF_OPEN" THEN 0 ELSE @]

\* Where a result goes: the history and the page go on, the rest is cached.
Deliver(r, got) ==
    LET q == Query(r) IN
    IF reader[r].first
    THEN /\ reader' = [reader EXCEPT ![r].first = FALSE,
              ![r].at = IF q = "devicesConnection" THEN "get" ELSE "cassandra"]
         /\ UNCHANGED empty
    ELSE IF q = "deviceTelemetryHistory" THEN Finish(r, got)
    ELSE /\ Have(r, got, IF Inner(q) = NoLock THEN "set" ELSE "dbset")
         /\ UNCHANGED empty

\* The answer of Postgres, and what the breaker makes of it.
QuerySucceeds(r) ==
    LET p == PodOf[r]
        b == OnSuccess(breaker[p])
    IN
    /\ At(r, "run")
    /\ Deliver(r, version)
    /\ breaker' = [breaker EXCEPT ![p] = b]
    /\ shared' \in IF breaker[p].state = "HALF_OPEN" /\ b.state = "CLOSED"
                   THEN SyncToRedis(b) ELSE {shared}
    /\ UNCHANGED <<cache, lock, used>>

\* The connection fails, which counts, or Postgres refuses the statement, which
\* does not.
QueryFails(r) ==
    LET p == PodOf[r]
        b == OnFailure(breaker[p])
    IN
    /\ At(r, "run")
    /\ Spend("failures")
    /\ Unwind(r, reader[r].holds)
    /\ \/ UNCHANGED <<breaker, shared>>
       \/ /\ breaker' = [breaker EXCEPT ![p] = b]
          /\ shared' \in IF breaker[p].state = "HALF_OPEN" \/ b.failures >= Threshold
                         THEN SyncToRedis(b) ELSE {shared}
    /\ UNCHANGED <<cache, lock>>

\* Variant: no look at how many rows there are.
AskCassandraAnyRows(r) ==
    /\ At(r, "cassandra")
    /\ \E rows \in BOOLEAN : Finish(r, IF rows THEN version ELSE 0)
    /\ UNCHANGED <<cache, lock, breaker, shared, used>>

\* getTelemetryHistoryFromCassandra: rows, or nothing or an error.
AskCassandra(r) ==
    /\ At(r, "cassandra")
    /\ \E rows \in BOOLEAN :
          IF rows THEN Finish(r, version) ELSE Go(r, "execute") /\ UNCHANGED empty
    /\ UNCHANGED <<cache, lock, breaker, shared, used>>

-----------------------------------------------------------------------------
(* Time and faults. *)

\* A Redis call throws.  Where a release does, the lock stays.
RedisFails(r) ==
    /\ r \in Active
    /\ reader[r].at \in {"get", "lock", "reget", "dbget", "dblock", "sleep", "dbset",
                         "dbrelease", "set", "release"}
    /\ Spend("faults")
    /\ Unwind(r, reader[r].holds \ CASE reader[r].at = "dbrelease" -> {"inner"}
                                     [] reader[r].at = "release" -> {"outer"}
                                     [] OTHER -> {})
    /\ UNCHANGED <<cache, lock, breaker, shared>>

\* A pod stops: its requests end, their locks stay, its breaker is forgotten.
StopPod(p) ==
    /\ \E r \in Active : PodOf[r] = p /\ reader[r] # Idle
    /\ Spend("faults")
    /\ reader' = [r \in Readers |-> IF PodOf[r] = p THEN Idle ELSE reader[r]]
    /\ breaker' = [breaker EXCEPT ![p] = Closed]
    /\ UNCHANGED <<empty, cache, lock, shared>>

\* Variant: the entry of a device is set without a time to live.
ExpireEntryNotDevice(k) ==
    /\ cache[k] # NoEntry /\ k # "device"
    /\ cache' = [cache EXCEPT ![k] = NoEntry]
    /\ UNCHANGED <<reader, empty, lock, breaker, shared, used>>

ExpireEntry(k) ==
    /\ cache[k] # NoEntry
    /\ cache' = [cache EXCEPT ![k] = NoEntry]
    /\ UNCHANGED <<reader, empty, lock, breaker, shared, used>>

\* After five seconds, which a request may take longer than.
ExpireLock(k) ==
    /\ lock[k] # Free
    /\ IF Holds(lock[k], k) THEN Spend("expiries") ELSE UNCHANGED used
    /\ lock' = [lock EXCEPT ![k] = Free]
    /\ UNCHANGED <<reader, empty, cache, breaker, shared>>

\* 30 seconds pass since the last failure of a pod, or of the one that shared
\* its state.
CoolDown(p) ==
    /\ ~breaker[p].cooled /\ breaker[p].state = "OPEN"
    /\ breaker' = [breaker EXCEPT ![p].cooled = TRUE]
    /\ UNCHANGED <<reader, empty, cache, lock, shared, used>>

CoolShared ==
    /\ ~shared.cooled /\ shared.state = "OPEN"
    /\ shared' = [shared EXCEPT !.cooled = TRUE]
    /\ UNCHANGED <<reader, empty, cache, lock, breaker, used>>

\* After 120 seconds.
ExpireShared ==
    /\ shared.cooled
    /\ shared' = NotShared
    /\ UNCHANGED <<reader, empty, cache, lock, breaker, used>>

ReaderStep(r) ==
    \/ GetCached(r) \/ CacheGetOrLock(r) \/ DbGetCached(r) \/ DbLock(r) \/ Wake(r)
    \/ Execute(r) \/ QuerySucceeds(r) \/ AskCassandra(r)
    \/ DbSet(r) \/ DbRelease(r) \/ SetCached(r) \/ Release(r)
====
