------------------------ MODULE TelemetryProjection ------------------------
(***************************************************************************)
(* The read-model-builder's telemetry path: the fetch loop behind its      *)
(* circuit breaker, the workers that gather messages into batches, the     *)
(* projection transaction of a batch, the Redis pointer to the latest      *)
(* version, the dead letter topic and the commit of the offsets, for one   *)
(* partition of telemetry.events.                                          *)
(***************************************************************************)
EXTENDS Integers, Sequences, FiniteSets

CONSTANTS
    Readings,     \* telemetry.recorded events, by their event id
    Devices,
    DeviceOf,     \* the device of each reading
    RecordedAt,   \* its occurredAt
    Workers,
    BatchSize,    \* 256 in the code
    MaxAttempts,  \* of retryWithBackoff, 5 in the code
    Threshold,    \* failureThreshold of the breaker, 5 in the code
    Budgets       \* scenarios: the workers that run, what the group has
                  \* committed at first (-1 for nothing), and bounds on the
                  \* messages in the topic, failed database, Redis and commit
                  \* calls, failed rounds of writes to the DLQ, fetch errors,
                  \* orderly shutdowns and crashes

ASSUME ReadingsAssumption ==
    DeviceOf \in [Readings -> Devices] /\ RecordedAt \in [Readings -> Nat]
ASSUME SizesAssumption ==
    /\ {BatchSize, MaxAttempts, Threshold} \subseteq Nat \ {0}
    /\ \A b \in Budgets : /\ b.workers \subseteq Workers /\ IsFiniteSet(b.workers)
                          /\ b.first \in {-1, 0}

VARIABLES
    topic,      \* the partition: a sequence of readings, repetitions included
    fetched,    \* offset of the last message fetched
    committed,  \* offset committed for the consumer group, -1 for none
    breaker,    \* the circuit breaker: state, failures, halfOpenAllowed
    queue,      \* the jobs channel: offsets
    batch,      \* per worker: the offsets it has gathered
    pc,         \* per worker: what it does next
    attempt,    \* per worker: attempts made for this batch
    due,        \* per worker: the versions it still has to write to Redis
    processed,  \* processed_events; device_telemetry_history has the same ids
    latest,     \* device_telemetry_latest: reading and version per device
    cache,      \* Redis: latest_version per device, 0 for none
    dlq,        \* readings in telemetry.events.dlq
    stopping,   \* the context is cancelled
    used,       \* how much of each bound is used up
    budget      \* the scenario

kafkaVars == <<topic, fetched, committed>>
workerVars == <<batch, pc, attempt, due>>
runVars == <<stopping, budget>>
storeVars == <<processed, latest, cache, dlq>>
vars == <<kafkaVars, breaker, queue, workerVars, storeVars, runVars, used>>

Bounds == {"faults", "dlqFaults", "fetchErrors", "shutdowns", "crashes"}
Breaker == [state : {"closed", "open", "half-open"}, failures : Nat,
            halfOpenAllowed : BOOLEAN]

\* No row yet.
NoRow == [reading |-> "none", version |-> 0]

TypeOK ==
    /\ topic \in Seq(Readings)
    /\ fetched \in 0 .. Len(topic) /\ committed \in -1 .. Len(topic)
    /\ breaker \in Breaker
    /\ queue \in Seq(Nat)
    /\ batch \in [Workers -> Seq(Nat)]
    /\ pc \in [Workers -> {"fill", "run", "cache", "dlq", "commit"}]
    /\ attempt \in [Workers -> 0 .. MaxAttempts]
    /\ due \in [Workers -> [Devices -> Nat]]
    /\ processed \subseteq Readings /\ dlq \subseteq Readings
    /\ latest \in [Devices -> [reading : Readings \cup {"none"}, version : Nat]]
    /\ cache \in [Devices -> Nat]
    /\ stopping \in BOOLEAN
    /\ used \in [Bounds -> Nat]

NothingDue == [d \in Devices |-> 0]

Init ==
    /\ budget \in Budgets
    /\ topic = <<>> /\ fetched = 0 /\ committed = budget.first
    /\ breaker = [state |-> "closed", failures |-> 0, halfOpenAllowed |-> FALSE]
    /\ queue = <<>>
    /\ batch = [w \in Workers |-> <<>>]
    /\ pc = [w \in Workers |-> "fill"]
    /\ attempt = [w \in Workers |-> 0]
    /\ due = [w \in Workers |-> NothingDue]
    /\ processed = {} /\ dlq = {}
    /\ latest = [d \in Devices |-> NoRow]
    /\ cache = [d \in Devices |-> 0]
    /\ stopping = FALSE
    /\ used = [b \in Bounds |-> 0]

-----------------------------------------------------------------------------
Spend(b) == used[b] < budget[b] /\ used' = [used EXCEPT ![b] = @ + 1]

\* A call goes well, or it fails: because of a fault, or because its context is
\* cancelled, in which case it may also still succeed.
MayFail(ok, b) ==
    IF ok \/ stopping THEN UNCHANGED used ELSE Spend(b)

\* The outbox publishes a reading, at least once and in any order.
Produce(r) ==
    /\ Len(topic) < budget.messages
    /\ topic' = Append(topic, r)
    /\ UNCHANGED <<fetched, committed, breaker, queue, workerVars, storeVars,
                   runVars, used>>

(***************************************************************************)
(* The fetch loop.  The breaker has no other user, so asking it and the    *)
(* fetch it allows are one step.                                           *)
(***************************************************************************)

\* The breaker after an Allow that returned true; resetTimeout may be over at
\* any time.
Allowed ==
    CASE breaker.state = "closed" -> breaker
      [] breaker.state = "open" ->
            [breaker EXCEPT !.state = "half-open", !.halfOpenAllowed = TRUE]
      [] OTHER -> [breaker EXCEPT !.halfOpenAllowed = FALSE]

Allow == breaker.state = "half-open" => breaker.halfOpenAllowed

\* Failure in state b.
AfterFailure(b) ==
    CASE b.state = "half-open" ->
            [state |-> "open", failures |-> b.failures + 1,
             halfOpenAllowed |-> FALSE]
      [] OTHER ->
            [b EXCEPT !.failures = @ + 1,
                      !.state = IF b.failures + 1 >= Threshold THEN "open"
                                                               ELSE @]

\* A message is fetched and handed on, at times even after the cancellation.
\* Success of the breaker is not called.
FetchMessage ==
    /\ Allow /\ fetched < Len(topic)
    /\ breaker' = Allowed
    /\ fetched' = fetched + 1
    /\ queue' = Append(queue, fetched + 1)
    /\ UNCHANGED <<topic, committed, workerVars, storeVars, runVars, used>>

FetchError ==
    /\ Allow /\ ~stopping
    /\ Spend("fetchErrors")
    /\ breaker' = AfterFailure(Allowed)
    /\ UNCHANGED <<kafkaVars, queue, workerVars, storeVars, runVars>>

(***************************************************************************)
(* A worker of StartBatch.                                                 *)
(***************************************************************************)
Receive(w) ==
    /\ w \in budget.workers
    /\ pc[w] = "fill" /\ queue # <<>> /\ Len(batch[w]) < BatchSize
    /\ batch' = [batch EXCEPT ![w] = Append(@, Head(queue))]
    /\ queue' = Tail(queue)
    /\ UNCHANGED <<kafkaVars, breaker, pc, attempt, due, storeVars, runVars,
                   used>>

\* Variant of Flush without the timer.
FlushFull(w) ==
    /\ pc[w] = "fill" /\ Len(batch[w]) = BatchSize
    /\ pc' = [pc EXCEPT ![w] = "run"]
    /\ attempt' = [attempt EXCEPT ![w] = 0]
    /\ UNCHANGED <<kafkaVars, breaker, queue, batch, due, storeVars, runVars,
                   used>>

\* The batch is full, batchTimeout is over or the context is cancelled.
Flush(w) ==
    /\ pc[w] = "fill" /\ batch[w] # <<>>
    /\ pc' = [pc EXCEPT ![w] = "run"]
    /\ attempt' = [attempt EXCEPT ![w] = 0]
    /\ UNCHANGED <<kafkaVars, breaker, queue, batch, due, storeVars, runVars,
                   used>>

\* The readings of a batch, and the places of those that processed_events did
\* not have: a repetition within the batch is new at both its places.
Payload(w, i) == topic[batch[w][i]]
NewPlaces(w) == {i \in DOMAIN batch[w] : Payload(w, i) \notin processed}
NewReadings(w) == {Payload(w, i) : i \in NewPlaces(w)}

\* Variant of Repeats: one row per device and batch.
RepeatsByDevice(w) ==
    \E i, j \in NewPlaces(w) :
        i # j /\ DeviceOf[Payload(w, i)] = DeviceOf[Payload(w, j)]

\* The COPY into device_telemetry_history violates its primary key.
Repeats(w) ==
    \E i, j \in NewPlaces(w) : i # j /\ Payload(w, i) = Payload(w, j)

\* deduped: of a device's new readings the latest, and of equals the last.
IsNewest(w, i) ==
    /\ i \in NewPlaces(w)
    /\ \A j \in NewPlaces(w) :
          DeviceOf[Payload(w, j)] = DeviceOf[Payload(w, i)] =>
              \/ RecordedAt[Payload(w, j)] < RecordedAt[Payload(w, i)]
              \/ RecordedAt[Payload(w, j)] = RecordedAt[Payload(w, i)] /\ j <= i

\* Variant of Upsert without the comparison of recorded_at.
UpsertAlways(w, d) ==
    LET place == {i \in NewPlaces(w) : IsNewest(w, i)
                                          /\ DeviceOf[Payload(w, i)] = d}
    IN  IF place = {} THEN latest[d]
        ELSE [reading |-> Payload(w, CHOOSE i \in place : TRUE),
              version |-> latest[d].version + 1]

\* The row of device d after the upsert of the batch's newest reading.
Upsert(w, d) ==
    LET place == {i \in NewPlaces(w) : IsNewest(w, i)
                                          /\ DeviceOf[Payload(w, i)] = d}
        accepted == {i \in place :
                        latest[d].version = 0
                            \/ RecordedAt[Payload(w, i)]
                                  >= RecordedAt[latest[d].reading]}
    IN  IF accepted = {} THEN latest[d]
        ELSE [reading |-> Payload(w, CHOOSE i \in accepted : TRUE),
              version |-> latest[d].version + 1]

\* One call of HandleTelemetryBatch up to its commit.  The row locks of its
\* two INSERTs put concurrent calls that touch the same rows in some order.
Transaction(w) ==
    /\ pc[w] = "run" /\ ~Repeats(w)
    /\ processed' = processed \cup NewReadings(w)
    /\ latest' = [d \in Devices |-> Upsert(w, d)]
    /\ due' = [due EXCEPT ![w] =
                  [d \in Devices |-> IF Upsert(w, d) = latest[d] THEN 0
                                     ELSE Upsert(w, d).version]]
    /\ pc' = [pc EXCEPT ![w] = "cache"]
    /\ UNCHANGED <<kafkaVars, breaker, queue, batch, attempt, cache, dlq,
                   runVars, used>>

\* Variant of TransactionFails that leaves out the dead letter topic.
TransactionFailsNoDlq(w) ==
    /\ pc[w] = "run"
    /\ MayFail(Repeats(w), "faults")
    /\ attempt' = [attempt EXCEPT ![w] = @ + 1]
    /\ pc' = [pc EXCEPT ![w] = IF attempt'[w] = MaxAttempts THEN "commit"
                                                             ELSE "run"]
    /\ UNCHANGED <<kafkaVars, breaker, queue, batch, due, storeVars, runVars>>

\* The call returned an error and left nothing behind.
TransactionFails(w) ==
    /\ pc[w] = "run"
    /\ MayFail(Repeats(w), "faults")
    /\ attempt' = [attempt EXCEPT ![w] = @ + 1]
    /\ pc' = [pc EXCEPT ![w] = IF attempt'[w] = MaxAttempts \/ stopping
                               THEN "dlq" ELSE "run"]
    /\ UNCHANGED <<kafkaVars, breaker, queue, batch, due, storeVars, runVars>>

\* The pipeline of SETs, each for five minutes; an error is logged.
WriteCache(w) ==
    /\ pc[w] = "cache"
    /\ \E ok \in BOOLEAN :
          /\ MayFail(ok, "faults")
          /\ cache' = [d \in Devices |-> IF ok /\ due[w][d] > 0
                                         THEN due[w][d] ELSE cache[d]]
    /\ due' = [due EXCEPT ![w] = NothingDue]
    /\ pc' = [pc EXCEPT ![w] = "commit"]
    /\ UNCHANGED <<kafkaVars, breaker, queue, batch, attempt, processed, latest,
                   dlq, runVars>>

\* Variant of ExpireCache: the pointers are SET without a time to live.
ExpireCacheNever(d) ==
    /\ FALSE
    /\ UNCHANGED vars

\* The time to live of a device's pointer is over.
ExpireCache(d) ==
    /\ cache[d] # 0
    /\ cache' = [cache EXCEPT ![d] = 0]
    /\ UNCHANGED <<kafkaVars, breaker, queue, workerVars, processed, latest, dlq,
                   runVars, used>>

\* Each message is written to the dead letter topic; errors are ignored.
DeadLetter(w) ==
    /\ pc[w] = "dlq"
    /\ \E S \in SUBSET {Payload(w, i) : i \in DOMAIN batch[w]} :
          /\ MayFail(S = {Payload(w, i) : i \in DOMAIN batch[w]},
                     "dlqFaults")
          /\ dlq' = dlq \cup S
    /\ pc' = [pc EXCEPT ![w] = "commit"]
    /\ UNCHANGED <<kafkaVars, breaker, queue, batch, attempt, due, processed,
                   latest, cache, runVars>>

\* CommitMessages sets the group's offset to the highest of the batch, be it
\* higher or lower than before; an error is logged.
CommitBatch(w) ==
    /\ pc[w] = "commit"
    /\ \E ok \in BOOLEAN :
          /\ MayFail(ok, "faults")
          /\ committed' = IF ok THEN batch[w][Len(batch[w])] ELSE committed
    /\ batch' = [batch EXCEPT ![w] = <<>>]
    /\ pc' = [pc EXCEPT ![w] = "fill"]
    /\ UNCHANGED <<topic, fetched, breaker, queue, attempt, due, storeVars,
                   runVars>>

(***************************************************************************)
(* Shutdown and restart.                                                   *)
(***************************************************************************)
Shutdown ==
    /\ ~stopping
    /\ stopping' = TRUE
    /\ Spend("shutdowns")
    /\ UNCHANGED <<kafkaVars, breaker, queue, workerVars, storeVars, budget>>

\* Where a reader starts: at the committed offset or, where there is none, at
\* the end of the topic (StartOffset is LastOffset).
StartOffset == IF committed = -1 THEN Len(topic) ELSE committed

\* The process is gone and starts again.
Restarted ==
    /\ stopping' = FALSE
    /\ fetched' = StartOffset
    /\ breaker' = [state |-> "closed", failures |-> 0, halfOpenAllowed |-> FALSE]
    /\ queue' = <<>>
    /\ batch' = [w \in Workers |-> <<>>]
    /\ pc' = [w \in Workers |-> "fill"]
    /\ attempt' = [w \in Workers |-> 0]
    /\ due' = [w \in Workers |-> NothingDue]
    /\ UNCHANGED <<topic, committed, storeVars, budget>>

Restart == stopping /\ Restarted /\ UNCHANGED used
Crash == ~stopping /\ Spend("crashes") /\ Restarted

-----------------------------------------------------------------------------
WorkerStep(w) ==
    Receive(w) \/ Flush(w) \/ Transaction(w) \/ WriteCache(w) \/ DeadLetter(w)
        \/ CommitBatch(w) \/ (Repeats(w) /\ TransactionFails(w))

Next ==
    \/ \E r \in Readings : Produce(r)
    \/ FetchMessage \/ FetchError
    \/ \E w \in Workers : WorkerStep(w) \/ TransactionFails(w)
    \/ \E d \in Devices : ExpireCache(d)
    \/ Shutdown \/ Restart \/ Crash

Spec == Init /\ [][Next]_vars

\* The fetch loop, the workers and the orchestrating platform keep going, and a
\* pointer that is not written again lasts five minutes.
FairSpec ==
    /\ Spec
    /\ WF_vars(~stopping /\ FetchMessage)
    /\ \A w \in Workers : WF_vars(WorkerStep(w))
    /\ \A d \in Devices : WF_vars(ExpireCache(d))
    /\ WF_vars(Restart)

-----------------------------------------------------------------------------
\* Whatever order and however often readings arrive, are batched and committed,
\* the row of a device holds the latest of its processed readings.
LatestIsNewest ==
    \A d \in Devices :
        LET mine == {r \in processed : DeviceOf[r] = d} IN
        IF latest[d].version = 0 THEN mine = {}
        ELSE /\ latest[d].reading \in mine
             /\ \A r \in mine : RecordedAt[r] <= RecordedAt[latest[d].reading]

\* Redis never points to a version that the database does not have.
CacheNotAhead == \A d \in Devices : cache[d] <= latest[d].version

\* The offsets some part of the live process still holds.
InFlight ==
    {queue[i] : i \in DOMAIN queue}
        \cup UNION {{batch[w][i] : i \in DOMAIN batch[w]} : w \in Workers}

\* A committed message was projected, dead-lettered or is still being handled.
\* ADR-007, line 33: "At-least-once delivery + idempotent processing =
\* effectively exactly-once".
CommittedWasHandled ==
    \A o \in 1 .. committed :
        topic[o] \in processed \cup dlq \/ o \in InFlight

\* What the code takes to lose a message: a crash while another worker holds
\* lower offsets, dead letters that fail, a shutdown, or a group that has not
\* committed yet.
Careful ==
    /\ Cardinality(budget.workers) = 1 \/ budget.crashes = 0
    /\ budget.dlqFaults = 0 /\ budget.shutdowns = 0 /\ budget.first = 0

\* Nothing else loses one: failed transactions, cache writes and commits, fetch
\* errors, redeliveries, and a crash of a single worker.
LossNeedsFault == Careful => CommittedWasHandled

\* The breaker leaves the closed state at the Threshold-th fetch error since the
\* process started, however many fetches went well in between, and for good.
BreakerCountsAllErrors ==
    breaker.state = "closed" <=> breaker.failures < Threshold

\* Every reading in the topic is eventually projected or dead-lettered, unless
\* the breaker has left the closed state, from which nothing brings it back.
EveryReadingHandled ==
    \A r \in Readings :
        (Careful /\ \E i \in DOMAIN topic : topic[i] = r) ~>
            (r \in processed \cup dlq \/ breaker.state # "closed")

\* ADR-007, lines 29-30: "Idempotent consumers (processed_events table with
\* unique constraint) handle duplicate delivery".  The code dead-letters without
\* a failure only where the topic repeats a reading, in whatever batches the
\* readings of a device meet.
DeadLettersNeedCause ==
    used = [b \in Bounds |-> 0] /\ dlq # {} =>
        \E i, j \in DOMAIN topic : i # j /\ topic[i] = topic[j]

\* The pointer of device d is right, or there is none and a reader goes to the
\* database.
PointerSound(d) == cache[d] \in {0, latest[d].version}

\* The version pointer of the latest reading, "invalidated on new telemetry
\* event" (openapi.yaml, line 117): with one worker and no failed call, no
\* pointer is an old one whenever nothing is in flight.
CacheFollows ==
    /\ Cardinality(budget.workers) = 1 /\ InFlight = {}
    /\ used = [b \in Bounds |-> 0]
    => \A d \in Devices : PointerSound(d)

\* Workers that write the pointer in the opposite order of their transactions,
\* a pipeline that fails and a process that dies before it all leave an old
\* pointer behind; once no more messages come, none of them stays.
PointersSettle == \A d \in Devices : <>[]PointerSound(d)
====
