--------------------- MODULE TelemetryProjection_proofs ---------------------
(***************************************************************************)
(* What the read-model-builder never does, for any number of workers,      *)
(* readings, messages, attempts and failures.                              *)
(***************************************************************************)
EXTENDS TelemetryProjection, TLAPS

-----------------------------------------------------------------------------
(* The breaker.                                                            *)

BreakerInv == breaker \in Breaker /\ BreakerCountsAllErrors

\* The breaker's record keeps its type and its count, whatever the fetches do.
THEOREM BreakerInvariance == Spec => []BreakerInv
<1> USE DEF BreakerInv, BreakerCountsAllErrors, Breaker
<1>1. Init => BreakerInv
  BY SizesAssumption DEF Init
<1>2. BreakerInv /\ [Next]_vars => BreakerInv'
  <2> SUFFICES ASSUME BreakerInv, [Next]_vars
               PROVE  BreakerInv'
    OBVIOUS
  <2>1. Threshold \in Nat /\ Threshold > 0
    BY SizesAssumption
  <2>2. CASE FetchMessage
    BY Zenon, <2>2 DEF FetchMessage, Allowed
  <2>3. CASE FetchError
    <3>1. breaker' = AfterFailure(Allowed)
      BY <2>3 DEF FetchError
    <3>2. CASE breaker.state = "closed"
      <4>1. Allowed = breaker
        BY <3>2 DEF Allowed
      <4> DEFINE counted == [breaker EXCEPT !.failures = @ + 1]
      <4>2. breaker' = [counted EXCEPT
                          !.state = IF breaker.failures + 1 >= Threshold THEN "open" ELSE @]
        BY <3>1, <3>2, <4>1 DEF AfterFailure
      <4>3. counted \in Breaker /\ counted.state = "closed"
              /\ counted.failures = breaker.failures + 1
        BY <3>2
      <4> HIDE DEF counted
      <4>4. CASE breaker.failures + 1 >= Threshold
        <5>1. breaker' = [counted EXCEPT !.state = "open"]
          BY <4>2, <4>4
        <5> QED
          BY <2>1, <4>3, <4>4, <5>1
      <4>5. CASE ~(breaker.failures + 1 >= Threshold)
        <5>1. breaker' = [counted EXCEPT !.state = @]
          BY <4>2, <4>5
        <5> QED
          BY <2>1, <4>3, <4>5, <5>1
      <4> QED
        BY <4>4, <4>5
    <3>3. CASE breaker.state # "closed"
      <4>1. Allowed.state = "half-open" /\ Allowed.failures = breaker.failures
        BY <3>3 DEF Allowed
      <4>2. breaker' = [state |-> "open", failures |-> breaker.failures + 1,
                        halfOpenAllowed |-> FALSE]
        BY <3>1, <4>1 DEF AfterFailure
      <4> QED
        BY <2>1, <3>3, <4>2
    <3> QED
      BY <3>2, <3>3
  <2>4. CASE Restart \/ Crash
    <3>1. breaker' = [state |-> "closed", failures |-> 0, halfOpenAllowed |-> FALSE]
      BY <2>4 DEF Restart, Crash, Restarted
    <3> QED
      BY <2>1, <3>1
  <2>5. CASE UNCHANGED breaker
    BY Zenon, <2>5
  <2>6. ASSUME NEW w \in Workers, WorkerStep(w) \/ TransactionFails(w)
        PROVE  UNCHANGED breaker
    BY <2>6 DEF WorkerStep, TransactionFails, Receive, Flush, Transaction, WriteCache,
                DeadLetter, CommitBatch
  <2> QED
    BY <2>2, <2>3, <2>4, <2>5, <2>6 DEF Next, Produce, ExpireCache, Shutdown, vars
<1> QED
  BY <1>1, <1>2, PTL DEF Spec

\* The circuit breaker of the fetch loop is closed exactly while fewer than
\* failureThreshold fetches have failed since the process started: Success is
\* never called, so that no fetch that went well resets the count.
THEOREM BreakerTheorem == Spec => []BreakerCountsAllErrors
<1>1. BreakerInv => BreakerCountsAllErrors
  BY DEF BreakerInv
<1> QED
  BY <1>1, BreakerInvariance, PTL

-----------------------------------------------------------------------------
(* The version pointers in Redis.                                          *)

CacheInv ==
    /\ DOMAIN latest = Devices /\ \A d \in Devices : latest[d].version \in Nat
    /\ cache \in [Devices -> Nat]
    /\ due \in [Workers -> [Devices -> Nat]]
    /\ CacheNotAhead
    /\ \A w \in Workers, d \in Devices : due[w][d] <= latest[d].version

\* The upsert of a batch leaves the row of a device as it is, or gives it the
\* next version: ON CONFLICT ... SET version = version + 1.
LEMMA UpsertVersion ==
  ASSUME NEW w, NEW d \in Devices, latest[d].version \in Nat
  PROVE  /\ Upsert(w, d).version \in Nat
         /\ Upsert(w, d).version >= latest[d].version
<1> DEFINE place == {i \in NewPlaces(w) : IsNewest(w, i)
                                             /\ DeviceOf[Payload(w, i)] = d}
           accepted == {i \in place :
                           latest[d].version = 0
                               \/ RecordedAt[Payload(w, i)]
                                     >= RecordedAt[latest[d].reading]}
           row == [reading |-> Payload(w, CHOOSE i \in accepted : TRUE),
                   version |-> latest[d].version + 1]
<1>1. Upsert(w, d) = IF accepted = {} THEN latest[d] ELSE row
  BY DEF Upsert
<1>2. row.version = latest[d].version + 1
  OBVIOUS
<1> HIDE DEF accepted, row
<1> QED
  BY <1>1, <1>2

\* Rows, pointers and the versions workers have yet to write keep their order.
THEOREM CacheInvariance == Spec => []CacheInv
<1>1. Init => CacheInv
  BY DEF Init, CacheInv, CacheNotAhead, NothingDue, NoRow
<1>2. CacheInv /\ [Next]_vars => CacheInv'
  <2> SUFFICES ASSUME CacheInv, [Next]_vars
               PROVE  CacheInv'
    OBVIOUS
  <2> USE DEF CacheInv, CacheNotAhead
  <2>1. CASE UNCHANGED <<latest, cache, due>>
    BY <2>1
  <2>2. ASSUME NEW w \in Workers, Transaction(w)
        PROVE  CacheInv'
    <3>1. /\ latest' = [d \in Devices |-> Upsert(w, d)]
          /\ due' = [due EXCEPT ![w] =
                        [d \in Devices |-> IF Upsert(w, d) = latest[d] THEN 0
                                           ELSE Upsert(w, d).version]]
          /\ cache' = cache
      BY <2>2 DEF Transaction
    <3>2. \A d \in Devices : /\ Upsert(w, d).version \in Nat
                             /\ Upsert(w, d).version >= latest[d].version
      BY UpsertVersion
    <3> QED
      BY <3>1, <3>2
  <2>3. ASSUME NEW w \in Workers, WriteCache(w)
        PROVE  CacheInv'
    <3>1. PICK ok \in BOOLEAN :
            cache' = [d \in Devices |-> IF ok /\ due[w][d] > 0
                                        THEN due[w][d] ELSE cache[d]]
      BY <2>3 DEF WriteCache
    <3>2. latest' = latest /\ due' = [due EXCEPT ![w] = NothingDue]
      BY <2>3 DEF WriteCache
    <3> QED
      BY <3>1, <3>2 DEF NothingDue
  <2>4. CASE Restart \/ Crash
    <3>1. /\ latest' = latest /\ cache' = cache
          /\ due' = [w \in Workers |-> NothingDue]
      BY Zenon, <2>4 DEF Restart, Crash, Restarted, storeVars
    <3> QED
      BY <3>1 DEF NothingDue
  <2>5. ASSUME NEW w \in Workers,
               Receive(w) \/ Flush(w) \/ DeadLetter(w) \/ CommitBatch(w)
                 \/ TransactionFails(w)
        PROVE  UNCHANGED <<latest, cache, due>>
    BY Zenon, <2>5 DEF Receive, Flush, DeadLetter, CommitBatch, TransactionFails, storeVars
  <2>6. CASE \/ \E r \in Readings : Produce(r)
             \/ FetchMessage \/ FetchError \/ Shutdown \/ UNCHANGED vars
    <3>1. UNCHANGED <<latest, cache, due>>
      BY Zenon, <2>6 DEF Produce, FetchMessage, FetchError, Shutdown, vars, workerVars, storeVars
    <3> QED
      BY Zenon, <3>1, <2>1
  <2>7. ASSUME NEW d \in Devices, ExpireCache(d)
        PROVE  CacheInv'
    <3>1. UNCHANGED <<latest, due>> /\ cache' = [cache EXCEPT ![d] = 0]
      BY <2>7 DEF ExpireCache, workerVars
    <3> QED
      BY <3>1
  <2> QED
    BY <2>1, <2>2, <2>3, <2>4, <2>5, <2>6, <2>7 DEF Next, WorkerStep
<1> QED
  BY <1>1, <1>2, PTL DEF Spec

\* Redis never points to a version that device_telemetry_latest does not have:
\* the pipeline of SETs runs after the commit, with the versions it returned,
\* and no version is ever taken back, whatever fails, races or restarts.
THEOREM CacheTheorem == Spec => []CacheNotAhead
<1>1. CacheInv => CacheNotAhead
  BY DEF CacheInv
<1> QED
  BY <1>1, CacheInvariance, PTL

-----------------------------------------------------------------------------
(* Where offsets are.                                                      *)

\* What the channel and a batch hold after a message moved.
LEMMA AppendFacts ==
  ASSUME NEW s \in Seq(Nat), NEW e \in Nat
  PROVE  /\ \A i \in DOMAIN s : i \in DOMAIN Append(s, e) /\ Append(s, e)[i] = s[i]
         /\ Len(s) + 1 \in DOMAIN Append(s, e) /\ Append(s, e)[Len(s) + 1] = e
         /\ \A i \in DOMAIN Append(s, e) : i \in DOMAIN s \/ i = Len(s) + 1
         /\ \A i \in DOMAIN s : i < Len(s) + 1
OBVIOUS

\* What the channel holds after its first message was received.
LEMMA TailFacts ==
  ASSUME NEW s \in Seq(Nat), s # <<>>
  PROVE  /\ 1 \in DOMAIN s /\ Head(s) = s[1]
         /\ \A j \in DOMAIN Tail(s) : j + 1 \in DOMAIN s /\ Tail(s)[j] = s[j + 1]
         /\ \A j \in DOMAIN Tail(s) : j \in Nat /\ j >= 1
         /\ \A j \in DOMAIN s :
               j = 1 \/ (j - 1 \in DOMAIN Tail(s) /\ Tail(s)[j - 1] = s[j])
OBVIOUS

LogInv ==
    /\ budget \in Budgets
    /\ topic \in Seq(Readings)
    /\ fetched \in Nat /\ fetched <= Len(topic)
    /\ committed \in Int /\ committed >= -1 /\ committed <= fetched
    /\ queue \in Seq(Nat) /\ \A i \in DOMAIN queue : queue[i] \in 1 .. fetched
    /\ batch \in [Workers -> Seq(Nat)]
    /\ \A w \in Workers : \A i \in DOMAIN batch[w] : batch[w][i] \in 1 .. fetched
    /\ pc \in [Workers -> {"fill", "run", "cache", "dlq", "commit"}]
    /\ \A w \in Workers : pc[w] # "fill" => batch[w] # <<>>

\* What a worker holds or has yet to receive was fetched from the topic, and a
\* worker that is past filling its batch has something in it, so that the
\* commit has a last message.
THEOREM LogTheorem == Spec => []LogInv
<1> USE DEF LogInv
<1>1. Init => LogInv
  BY SizesAssumption DEF Init
<1>2. LogInv /\ [Next]_vars => LogInv'
  <2> SUFFICES ASSUME LogInv, [Next]_vars
               PROVE  LogInv'
    OBVIOUS
  <2>1. ASSUME NEW r \in Readings, Produce(r)
        PROVE  LogInv'
    <3>1. topic' = Append(topic, r)
      BY <2>1 DEF Produce
    <3>2. topic' \in Seq(Readings) /\ Len(topic') = Len(topic) + 1
      BY <3>1
    <3>3. UNCHANGED <<budget, fetched, committed, queue, batch, pc>>
      BY Zenon, <2>1 DEF Produce, workerVars, runVars
    <3> QED
      BY <3>2, <3>3
  <2>2. CASE FetchMessage
    <3>1. /\ fetched < Len(topic) /\ fetched' = fetched + 1
          /\ queue' = Append(queue, fetched + 1)
      BY <2>2 DEF FetchMessage
    <3>2. UNCHANGED <<budget, topic, committed, batch, pc>>
      BY <2>2 DEF FetchMessage, workerVars, runVars
    <3>3. queue' \in Seq(Nat) /\ \A i \in DOMAIN queue' : queue'[i] \in 1 .. fetched'
      BY <3>1
    <3> QED
      BY <3>1, <3>2, <3>3
  <2>3. CASE \/ \E d \in Devices : ExpireCache(d)
             \/ FetchError \/ Shutdown \/ UNCHANGED vars
    <3>1. UNCHANGED <<budget, topic, fetched, committed, queue, batch, pc>>
      BY Zenon, <2>3 DEF ExpireCache, FetchError, Shutdown, vars, kafkaVars, workerVars, runVars
    <3> QED
      BY <3>1
  <2>4. CASE Restart \/ Crash
    <3>1. /\ fetched' = StartOffset /\ queue' = <<>>
          /\ batch' = [w \in Workers |-> <<>>] /\ pc' = [w \in Workers |-> "fill"]
          /\ UNCHANGED <<topic, committed, budget>>
      BY <2>4 DEF Restart, Crash, Restarted
    <3>2. fetched' \in Nat /\ fetched' <= Len(topic) /\ committed <= fetched'
      BY <3>1 DEF StartOffset
    <3> QED
      BY <3>1, <3>2
  <2>5. ASSUME NEW w \in Workers, Receive(w)
        PROVE  LogInv'
    <3>1. /\ pc[w] = "fill" /\ queue # <<>>
          /\ batch' = [batch EXCEPT ![w] = Append(@, Head(queue))]
          /\ queue' = Tail(queue)
      BY Zenon, <2>5 DEF Receive
    <3>2. UNCHANGED <<budget, topic, fetched, committed, pc>>
      BY <2>5 DEF Receive, kafkaVars, runVars
    <3>3. Head(queue) \in 1 .. fetched
      BY <3>1
    <3>4. queue' \in Seq(Nat) /\ \A i \in DOMAIN queue' : queue'[i] \in 1 .. fetched
      <4>1. queue \in Seq(Nat) /\ \A i \in DOMAIN queue : queue[i] \in 1 .. fetched
        OBVIOUS
      <4> HIDE DEF LogInv
      <4>2. queue' \in Seq(Nat)
        BY <3>1, <4>1
      <4>3. \A i \in DOMAIN queue' : i + 1 \in DOMAIN queue /\ queue'[i] = queue[i + 1]
        BY Zenon, <3>1, <4>1, TailFacts
      <4> QED
        BY <4>1, <4>2, <4>3
    <3>5. batch' \in [Workers -> Seq(Nat)]
      BY <3>1, <3>3
    <3>6. ASSUME NEW v \in Workers, NEW i \in DOMAIN batch'[v]
          PROVE  batch'[v][i] \in 1 .. fetched
      BY <3>1, <3>3, <3>6
    <3> QED
      BY Zenon, <3>1, <3>2, <3>4, <3>5, <3>6
  <2>6. ASSUME NEW w \in Workers, CommitBatch(w)
        PROVE  LogInv'
    <3>1. /\ pc[w] = "commit"
          /\ committed' = batch[w][Len(batch[w])] \/ committed' = committed
          /\ batch' = [batch EXCEPT ![w] = <<>>]
          /\ pc' = [pc EXCEPT ![w] = "fill"]
      BY Zenon, <2>6 DEF CommitBatch
    <3>2. UNCHANGED <<budget, topic, fetched, queue>>
      BY Zenon, <2>6 DEF CommitBatch, runVars
    <3>3. batch[w] # <<>> /\ Len(batch[w]) \in DOMAIN batch[w]
      BY <3>1
    <3>4. committed' \in Int /\ committed' >= -1 /\ committed' <= fetched
      BY <3>1, <3>3
    <3> QED
      BY <3>1, <3>2, <3>4
  <2>7. ASSUME NEW w \in Workers,
               Flush(w) \/ Transaction(w) \/ WriteCache(w) \/ DeadLetter(w)
                 \/ TransactionFails(w)
        PROVE  LogInv'
    <3>1. UNCHANGED <<budget, topic, fetched, committed, queue, batch>>
      BY Zenon, <2>7 DEF Flush, Transaction, WriteCache, DeadLetter, TransactionFails, kafkaVars,
                  runVars
    <3>2. batch[w] # <<>>
      BY Zenon, <2>7 DEF Flush, Transaction, WriteCache, DeadLetter, TransactionFails
    <3>3. PICK p \in {"fill", "run", "cache", "dlq", "commit"} : pc' = [pc EXCEPT ![w] = p]
      BY Zenon, <2>7 DEF Flush, Transaction, WriteCache, DeadLetter, TransactionFails
    <3> QED
      BY Zenon, <3>1, <3>2, <3>3
  <2> QED
    BY Zenon, <2>1, <2>2, <2>3, <2>4, <2>5, <2>6, <2>7 DEF Next, WorkerStep
<1> QED
  BY <1>1, <1>2, PTL DEF Spec

-----------------------------------------------------------------------------
(* Messages are not lost.                                                  *)

Handled(o) == topic[o] \in processed \cup dlq

Queued(o) == \E i \in DOMAIN queue : queue[i] = o

Holds(w, o) == \E i \in DOMAIN batch[w] : batch[w][i] = o

\* A single worker commits in the order of the topic.
Single == \A u, w \in budget.workers : u = w

InOrder ==
    /\ \A o \in 1 .. committed : Handled(o)
    /\ \A w \in Workers : w \notin budget.workers => batch[w] = <<>>
    /\ \A w \in Workers : \A i \in DOMAIN batch[w] : \A j \in DOMAIN queue :
          batch[w][i] < queue[j]
    /\ \A i, j \in DOMAIN queue : i < j => queue[i] < queue[j]

NoneLost ==
    /\ stopping = FALSE /\ committed >= 0
    /\ \A o \in 1 .. fetched : Handled(o) \/ Queued(o) \/ \E w \in Workers : Holds(w, o)
    /\ \A w \in Workers : pc[w] \in {"cache", "commit"} =>
          \A i \in DOMAIN batch[w] : Handled(batch[w][i])
    /\ Single => InOrder

LossInv == used \in [Bounds -> Nat] /\ (Careful => NoneLost)

\* A bound that the scenario sets to zero is never spent.
LEMMA NothingToSpend ==
  ASSUME used \in [Bounds -> Nat], NEW b \in Bounds, budget[b] = 0
  PROVE  ~Spend(b)
BY DEF Spend

\* No step changes the scenario, and every step keeps count.
LEMMA StepKeepsCount ==
  ASSUME used \in [Bounds -> Nat], [Next]_vars
  PROVE  budget' = budget /\ used' \in [Bounds -> Nat]
<1> USE DEF Spend, MayFail, Bounds, runVars
<1>1. CASE (\E r \in Readings : Produce(r)) \/ (\E d \in Devices : ExpireCache(d))
  BY Zenon, <1>1 DEF Produce, ExpireCache
<1>2. CASE FetchMessage \/ FetchError \/ Shutdown \/ Restart \/ Crash
  BY <1>2 DEF FetchMessage, FetchError, Shutdown, Restart, Crash, Restarted
<1>3. ASSUME NEW w \in Workers, WorkerStep(w) \/ TransactionFails(w)
      PROVE  budget' = budget /\ used' \in [Bounds -> Nat]
  <2>1. CASE Receive(w) \/ Flush(w) \/ Transaction(w)
    BY Zenon, <2>1 DEF Receive, Flush, Transaction
  <2>2. CASE TransactionFails(w)
    BY <2>2 DEF TransactionFails
  <2>3. CASE WriteCache(w)
    BY <2>3 DEF WriteCache
  <2>4. CASE DeadLetter(w)
    BY <2>4 DEF DeadLetter
  <2>5. CASE CommitBatch(w)
    BY <2>5 DEF CommitBatch
  <2> QED
    BY <1>3, <2>1, <2>2, <2>3, <2>4, <2>5 DEF WorkerStep
<1>4. CASE UNCHANGED vars
  BY Zenon, <1>4 DEF vars
<1> QED
  BY Zenon, <1>1, <1>2, <1>3, <1>4 DEF Next

\* A step of a careful scenario keeps what it takes to lose nothing.
LEMMA StepLosesNothing ==
  ASSUME LogInv, LogInv', used \in [Bounds -> Nat], Careful, NoneLost, Next,
         budget' = budget, Single \/ budget.crashes = 0
  PROVE  NoneLost'
<1>a. stopping = FALSE /\ committed >= 0
  BY Zenon DEF NoneLost
<1>b. \A o \in 1 .. fetched : Handled(o) \/ Queued(o) \/ \E w \in Workers : Holds(w, o)
  BY Zenon DEF NoneLost
<1>c. \A w \in Workers : pc[w] \in {"cache", "commit"} =>
        \A i \in DOMAIN batch[w] : Handled(batch[w][i])
  BY Zenon DEF NoneLost
<1>d. (Single => InOrder) /\ (Single' <=> Single)
  BY DEF NoneLost, Single
<1>0. /\ \A b \in {"dlqFaults", "shutdowns"} : b \in Bounds /\ budget[b] = 0
      /\ Single \/ budget.crashes = 0
  BY DEF Careful, Bounds
<1>1. ~Shutdown
  BY <1>0, NothingToSpend DEF Shutdown
<1>2. ~Restart
  BY Zenon, <1>a DEF Restart
<1>3. ASSUME NEW r \in Readings, Produce(r)
      PROVE  NoneLost'
  <2>1. topic' = Append(topic, r)
    BY Zenon, <1>3 DEF Produce
  <2>2. \A o \in 1 .. fetched : topic'[o] = topic[o]
    BY <2>1 DEF LogInv
  <2>3. UNCHANGED <<fetched, committed, queue, batch, pc, processed, dlq, stopping>>
    BY Zenon, <1>3 DEF Produce, workerVars, storeVars, runVars
  <2>4. \A o \in 1 .. fetched : Handled(o)' <=> Handled(o)
    BY Zenon, <2>2, <2>3 DEF Handled
  <2>5. /\ \A o : Queued(o)' <=> Queued(o)
        /\ \A o, w : Holds(w, o)' <=> Holds(w, o)
    BY Zenon, <2>3 DEF Queued, Holds
  <2>6. (\A o \in 1 .. fetched : Handled(o) \/ Queued(o) \/ \E w \in Workers : Holds(w, o))'
    BY Zenon, <1>b, <2>3, <2>4, <2>5
  <2>7. (\A w \in Workers : pc[w] \in {"cache", "commit"} =>
            \A i \in DOMAIN batch[w] : Handled(batch[w][i]))'
    BY Zenon, <1>c, <2>3, <2>4 DEF LogInv
  <2>8. \A o \in 1 .. committed : o \in 1 .. fetched
    BY DEF LogInv
  <2>9. Single => InOrder'
    BY Zenon, <1>d, <2>3, <2>4, <2>8 DEF InOrder
  <2> QED
    BY Zenon, <1>a, <1>d, <2>3, <2>6, <2>7, <2>9 DEF NoneLost
<1>4. CASE FetchMessage
  <2>1. fetched' = fetched + 1 /\ queue' = Append(queue, fetched + 1)
    BY Zenon, <1>4 DEF FetchMessage
  <2>2. UNCHANGED <<topic, committed, batch, pc, processed, dlq, stopping>>
    BY Zenon, <1>4 DEF FetchMessage, workerVars, storeVars, runVars
  <2>3. \A o : Handled(o)' <=> Handled(o)
    BY Zenon, <2>2 DEF Handled
  <2>4. \A o, w : Holds(w, o)' <=> Holds(w, o)
    BY Zenon, <2>2 DEF Holds
  <2>5. /\ \A j \in DOMAIN queue : j \in DOMAIN queue' /\ queue'[j] = queue[j]
        /\ Len(queue) + 1 \in DOMAIN queue' /\ queue'[Len(queue) + 1] = fetched + 1
        /\ \A j \in DOMAIN queue' : j \in DOMAIN queue \/ j = Len(queue) + 1
        /\ \A j \in DOMAIN queue : j < Len(queue) + 1
    BY Zenon, <2>1, AppendFacts DEF LogInv
  <2>5a. \A o : o = fetched + 1 \/ Queued(o) => Queued(o)'
    BY Zenon, <2>5 DEF Queued
  <2>6. \A o \in 1 .. fetched' : o \in 1 .. fetched \/ o = fetched + 1
    BY <2>1 DEF LogInv
  <2>7. (\A o \in 1 .. fetched : Handled(o) \/ Queued(o) \/ \E w \in Workers : Holds(w, o))'
    BY Zenon, <1>b, <2>3, <2>4, <2>5a, <2>6
  <2>8. Single => InOrder'
    <3> SUFFICES ASSUME Single PROVE InOrder'
      OBVIOUS
    <3>1. InOrder
      BY Zenon, <1>d
    <3>2. \A j \in DOMAIN queue : j \in Nat /\ queue[j] < fetched + 1
      BY DEF LogInv
    <3>3. ASSUME NEW i \in DOMAIN queue', NEW j \in DOMAIN queue', i < j
          PROVE  queue'[i] < queue'[j]
      <4>1. i \in DOMAIN queue
        <5>1. Len(queue) \in Nat
          BY DEF LogInv
        <5> QED
          BY <2>5, <3>2, <3>3, <5>1
      <4>2. CASE j \in DOMAIN queue
        BY Zenon, <2>5, <3>1, <3>3, <4>1, <4>2 DEF InOrder
      <4>3. CASE j = Len(queue) + 1
        BY Zenon, <2>5, <3>2, <4>1, <4>3
      <4> QED
        BY <2>5, <4>2, <4>3
    <3>4. ASSUME NEW w \in Workers, NEW i \in DOMAIN batch[w], NEW j \in DOMAIN queue'
          PROVE  batch[w][i] < queue'[j]
      <4>1. batch[w][i] < fetched + 1
        BY DEF LogInv
      <4> QED
        BY Zenon, <2>5, <3>1, <4>1 DEF InOrder
    <3> QED
      BY <3>1, <3>3, <3>4, <2>2, <2>3 DEF InOrder
  <2>9. (\A w \in Workers : pc[w] \in {"cache", "commit"} =>
            \A i \in DOMAIN batch[w] : Handled(batch[w][i]))'
    BY <1>c, <2>2, <2>3
  <2> QED
    BY Zenon, <1>a, <1>d, <2>2, <2>7, <2>8, <2>9 DEF NoneLost
<1>5. CASE FetchError
  <2>1. UNCHANGED <<topic, fetched, committed, queue, batch, pc, processed, dlq, stopping>>
    BY Zenon, <1>5 DEF FetchError, kafkaVars, workerVars, storeVars, runVars
  <2> QED
    BY <2>1 DEF Handled, Queued, Holds, NoneLost, InOrder, Single
<1>6. CASE Crash
  <2>1. Single
    <3>1. "crashes" \in Bounds /\ Spend("crashes")
      BY Zenon, <1>6 DEF Crash, Bounds
    <3> QED
      BY Zenon, <1>0, <3>1, NothingToSpend
  <2>2. /\ fetched' = committed /\ committed' = committed /\ queue' = <<>>
        /\ batch' = [w \in Workers |-> <<>>] /\ pc' = [w \in Workers |-> "fill"]
        /\ stopping' = FALSE
        /\ UNCHANGED <<topic, processed, dlq>>
    BY <1>6, <1>a DEF Crash, Restarted, StartOffset, storeVars
  <2>3. \A o : Handled(o)' <=> Handled(o)
    BY <2>2 DEF Handled
  <2>4. InOrder
    BY <1>d, <2>1
  <2> QED
    BY <1>a, <2>2, <2>3, <2>4 DEF NoneLost, InOrder
<1>7. ASSUME NEW w \in Workers, Receive(w)
      PROVE  NoneLost'
  <2>1. /\ pc[w] = "fill" /\ queue # <<>> /\ w \in budget.workers
        /\ batch' = [batch EXCEPT ![w] = Append(@, Head(queue))]
        /\ queue' = Tail(queue)
    BY <1>7 DEF Receive
  <2>2. UNCHANGED <<topic, fetched, committed, pc, processed, dlq, stopping>>
    BY Zenon, <1>7 DEF Receive, kafkaVars, storeVars, runVars
  <2>3. \A o : Handled(o)' <=> Handled(o)
    BY <2>2 DEF Handled
  <2>4. /\ \A v \in Workers : v # w => batch'[v] = batch[v]
        /\ batch'[w] = Append(batch[w], queue[1])
        /\ 1 \in DOMAIN queue
        /\ \A j \in DOMAIN queue' : j + 1 \in DOMAIN queue /\ queue'[j] = queue[j + 1]
        /\ \A j \in DOMAIN queue' : j \in Nat /\ j >= 1
        /\ \A j \in DOMAIN queue : j = 1 \/ (j - 1 \in DOMAIN queue' /\ queue'[j - 1] = queue[j])
    <3>1. queue \in Seq(Nat) /\ batch \in [Workers -> Seq(Nat)]
      BY DEF LogInv
    <3>2. Head(queue) = queue[1]
      BY <2>1, <3>1, TailFacts
    <3>3. \A v \in Workers : v # w => batch'[v] = batch[v]
      BY Zenon, <2>1, <3>1
    <3>4. batch'[w] = Append(batch[w], queue[1])
      BY Zenon, <2>1, <3>1, <3>2
    <3> QED
      BY Zenon, <2>1, <3>1, <3>3, <3>4, TailFacts
  <2>5. \A o : Queued(o) => Queued(o)' \/ o = queue[1]
    BY <2>4 DEF Queued
  <2>6. \A i \in DOMAIN batch'[w] : \/ i \in DOMAIN batch[w] /\ batch'[w][i] = batch[w][i]
                                    \/ batch'[w][i] = queue[1]
    <3>1. batch[w] \in Seq(Nat) /\ queue[1] \in Nat
      BY <2>4 DEF LogInv
    <3> QED
      BY <2>4, <3>1, AppendFacts
  <2>7. /\ \A i \in DOMAIN batch[w] : i \in DOMAIN batch'[w] /\ batch'[w][i] = batch[w][i]
        /\ Len(batch[w]) + 1 \in DOMAIN batch'[w]
        /\ batch'[w][Len(batch[w]) + 1] = queue[1]
    <3>1. batch[w] \in Seq(Nat) /\ queue[1] \in Nat
      BY <2>4 DEF LogInv
    <3> QED
      BY <2>4, <3>1, AppendFacts
  <2>8. \A o : \A v \in Workers : Holds(v, o) => Holds(v, o)'
    BY <2>4, <2>7 DEF Holds
  <2>9. \A o : o = queue[1] => Holds(w, o)'
    BY <2>7 DEF Holds
  <2>10. (\A o \in 1 .. fetched : Handled(o) \/ Queued(o) \/ \E v \in Workers : Holds(v, o))'
    BY Zenon, <1>b, <2>2, <2>3, <2>5, <2>8, <2>9
  <2>11. (\A v \in Workers : pc[v] \in {"cache", "commit"} =>
            \A i \in DOMAIN batch[v] : Handled(batch[v][i]))'
    BY Zenon, <1>c, <2>1, <2>2, <2>3, <2>4
  <2>12. Single => InOrder'
    <3> SUFFICES ASSUME Single PROVE InOrder'
      OBVIOUS
    <3>1. InOrder
      BY Zenon, <1>d
    <3>2. \A i \in DOMAIN queue : i # 1 => queue[1] < queue[i]
      <4>1. \A i \in DOMAIN queue : i # 1 => 1 < i
        BY DEF LogInv
      <4> QED
        BY Zenon, <2>4, <3>1, <4>1 DEF InOrder
    <3>3. ASSUME NEW i \in DOMAIN queue', NEW j \in DOMAIN queue', i < j
          PROVE  queue'[i] < queue'[j]
      <4>1. i + 1 < j + 1
        BY <2>4, <3>3
      <4> QED
        BY Zenon, <2>4, <3>1, <3>3, <4>1 DEF InOrder
    <3>4. ASSUME NEW v \in Workers, NEW i \in DOMAIN batch'[v], NEW j \in DOMAIN queue'
          PROVE  batch'[v][i] < queue'[j]
      <4>1. j \in Nat /\ j + 1 \in DOMAIN queue /\ j + 1 # 1 /\ queue'[j] = queue[j + 1]
        BY <2>4, <3>4
      <4>2. CASE v = w
        BY Zenon, <2>6, <3>1, <3>2, <3>4, <4>1, <4>2 DEF InOrder
      <4>3. CASE v # w
        BY Zenon, <2>4, <3>1, <3>4, <4>1, <4>3 DEF InOrder
      <4> QED
        BY Zenon, <4>2, <4>3
    <3> QED
      BY Zenon, <3>1, <3>3, <3>4, <2>1, <2>2, <2>3, <2>4 DEF InOrder
  <2> QED
    BY Zenon, <1>a, <1>d, <2>2, <2>10, <2>11, <2>12 DEF NoneLost
<1>8. ASSUME NEW w \in Workers, Flush(w) \/ TransactionFails(w)
      PROVE  NoneLost'
  <2>1. UNCHANGED <<topic, fetched, committed, queue, batch, processed, dlq, stopping>>
    BY Zenon, <1>8 DEF Flush, TransactionFails, kafkaVars, storeVars, runVars
  <2>2. PICK p \in {"run", "dlq"} : pc' = [pc EXCEPT ![w] = p]
    BY Zenon, <1>8 DEF Flush, TransactionFails
  <2>3. /\ \A o : Handled(o)' <=> Handled(o)
        /\ \A o : Queued(o)' <=> Queued(o)
        /\ \A o, v : Holds(v, o)' <=> Holds(v, o)
    BY Zenon, <2>1 DEF Handled, Queued, Holds
  <2>4. (\A v \in Workers : pc[v] \in {"cache", "commit"} =>
            \A i \in DOMAIN batch[v] : Handled(batch[v][i]))'
    BY Zenon, <1>c, <2>1, <2>2, <2>3 DEF LogInv
  <2>5. Single => InOrder'
    BY Zenon, <1>d, <2>1, <2>3 DEF InOrder
  <2> QED
    BY Zenon, <1>a, <1>b, <1>d, <2>1, <2>3, <2>4, <2>5 DEF NoneLost
<1>9. ASSUME NEW w \in Workers, WriteCache(w)
      PROVE  NoneLost'
  <2>1. UNCHANGED <<topic, fetched, committed, queue, batch, processed, dlq, stopping>>
    BY Zenon, <1>9 DEF WriteCache, kafkaVars, runVars
  <2>2. pc[w] = "cache" /\ pc' = [pc EXCEPT ![w] = "commit"]
    BY Zenon, <1>9 DEF WriteCache
  <2>3. /\ \A o : Handled(o)' <=> Handled(o)
        /\ \A o : Queued(o)' <=> Queued(o)
        /\ \A o, v : Holds(v, o)' <=> Holds(v, o)
    BY Zenon, <2>1 DEF Handled, Queued, Holds
  <2>4. (\A v \in Workers : pc[v] \in {"cache", "commit"} =>
            \A i \in DOMAIN batch[v] : Handled(batch[v][i]))'
    BY Zenon, <1>c, <2>1, <2>2, <2>3 DEF LogInv
  <2>5. Single => InOrder'
    BY Zenon, <1>d, <2>1, <2>3 DEF InOrder
  <2> QED
    BY Zenon, <1>a, <1>b, <1>d, <2>1, <2>3, <2>4, <2>5 DEF NoneLost
<1>10. ASSUME NEW w \in Workers, Transaction(w) \/ DeadLetter(w)
       PROVE  NoneLost'
  <2>1. UNCHANGED <<topic, fetched, committed, queue, batch, stopping>>
    BY Zenon, <1>10 DEF Transaction, DeadLetter, kafkaVars, runVars
  <2>2. PICK p \in {"cache", "commit"} : pc' = [pc EXCEPT ![w] = p]
    BY Zenon, <1>10 DEF Transaction, DeadLetter
  <2>3. processed \cup dlq \subseteq processed' \cup dlq'
    BY Zenon, <1>10 DEF Transaction, DeadLetter
  <2>4. \A i \in DOMAIN batch[w] : Payload(w, i) \in processed' \cup dlq'
    <3>1. CASE Transaction(w)
      BY Zenon, <3>1 DEF Transaction, NewReadings, NewPlaces
    <3>2. CASE DeadLetter(w)
      <4>1. PICK S \in SUBSET {Payload(w, i) : i \in DOMAIN batch[w]} :
              /\ MayFail(S = {Payload(w, i) : i \in DOMAIN batch[w]}, "dlqFaults")
              /\ dlq' = dlq \cup S
        BY Zenon, <3>2 DEF DeadLetter
      <4>2. S = {Payload(w, i) : i \in DOMAIN batch[w]}
        BY Zenon, <1>0, <1>a, <4>1, NothingToSpend DEF MayFail
      <4> QED
        BY <4>1, <4>2
    <3> QED
      BY Zenon, <1>10, <3>1, <3>2
  <2>5. \A o : Handled(o) => Handled(o)'
    BY Zenon, <2>1, <2>3 DEF Handled
  <2>6. \A i \in DOMAIN batch[w] : Handled(batch[w][i])'
    BY Zenon, <2>1, <2>4 DEF Handled, Payload
  <2>7. \A v \in Workers : v # w => pc'[v] = pc[v]
    BY Zenon, <2>2 DEF LogInv
  <2>8. (\A v \in Workers : pc[v] \in {"cache", "commit"} =>
            \A i \in DOMAIN batch[v] : Handled(batch[v][i]))'
    BY Zenon, <1>c, <2>1, <2>5, <2>6, <2>7
  <2>9. \A o : Queued(o)' <=> Queued(o)
    BY Zenon, <2>1 DEF Queued
  <2>10. \A o, v : Holds(v, o)' <=> Holds(v, o)
    BY Zenon, <2>1 DEF Holds
  <2>11. Single => InOrder'
    BY Zenon, <1>d, <2>1, <2>5 DEF InOrder
  <2> QED
    BY Zenon, <1>a, <1>b, <1>d, <2>1, <2>5, <2>8, <2>9, <2>10, <2>11 DEF NoneLost
<1>11. ASSUME NEW w \in Workers, CommitBatch(w)
       PROVE  NoneLost'
  <2>1. /\ pc[w] = "commit"
        /\ committed' = batch[w][Len(batch[w])] \/ committed' = committed
        /\ batch' = [batch EXCEPT ![w] = <<>>]
        /\ pc' = [pc EXCEPT ![w] = "fill"]
    BY Zenon, <1>11 DEF CommitBatch
  <2>2. UNCHANGED <<topic, fetched, queue, processed, dlq, stopping>>
    BY Zenon, <1>11 DEF CommitBatch, storeVars, runVars
  <2>3. \A o : Handled(o)' <=> Handled(o)
    BY Zenon, <2>2 DEF Handled
  <2>4. \A o : Queued(o)' <=> Queued(o)
    BY Zenon, <2>2 DEF Queued
  <2>5. \A o : Holds(w, o) => Handled(o)
    BY Zenon, <1>c, <2>1 DEF Holds
  <2>6. /\ batch'[w] = <<>> /\ pc'[w] = "fill"
        /\ \A v \in Workers : v # w => batch'[v] = batch[v] /\ pc'[v] = pc[v]
    BY Zenon, <2>1 DEF LogInv
  <2>7. \A o : \A v \in Workers : v # w => (Holds(v, o)' <=> Holds(v, o))
    BY Zenon, <2>6 DEF Holds
  <2>8. batch[w] # <<>> /\ Len(batch[w]) \in DOMAIN batch[w]
    BY <2>1 DEF LogInv
  <2>9. committed' >= 0
    BY <1>a, <2>1, <2>8 DEF LogInv
  <2>10. (\A o \in 1 .. fetched : Handled(o) \/ Queued(o) \/ \E v \in Workers : Holds(v, o))'
    BY Zenon, <1>b, <2>2, <2>3, <2>4, <2>5, <2>7
  <2>11. (\A v \in Workers : pc[v] \in {"cache", "commit"} =>
            \A i \in DOMAIN batch[v] : Handled(batch[v][i]))'
    BY Zenon, <1>c, <2>3, <2>6
  <2>12. Single => InOrder'
    <3> SUFFICES ASSUME Single PROVE InOrder'
      OBVIOUS
    <3>1. InOrder
      BY <1>d
    <3>2. \A v \in Workers : \A o : Holds(v, o) => v = w
      <4>1. w \in budget.workers
        BY <2>8, <3>1 DEF InOrder
      <4> QED
        BY <3>1, <4>1 DEF Holds, InOrder, Single
    <3> DEFINE top == batch[w][Len(batch[w])]
    <3>0. top \in 1 .. fetched /\ fetched \in Nat
      BY Zenon, <2>8 DEF LogInv
    <3>a. \A j \in DOMAIN queue : queue[j] \in 1 .. fetched /\ top < queue[j]
      BY Zenon, <2>8, <3>1 DEF InOrder, LogInv
    <3>3. ASSUME NEW o \in 1 .. top
          PROVE  Handled(o)
      <4> HIDE DEF top
      <4>1. o \in 1 .. fetched
        BY <3>0
      <4>2. ~Queued(o)
        <5>1. \A j \in DOMAIN queue : queue[j] # o
          BY <3>0, <3>a
        <5> QED
          BY Zenon, <5>1 DEF Queued
      <4> QED
        BY Zenon, <1>b, <2>5, <3>2, <4>1, <4>2
    <3>4. (\A o \in 1 .. committed : Handled(o))'
      BY Zenon, <2>1, <2>3, <3>1, <3>3 DEF InOrder
    <3>5. (\A v \in Workers : \A i \in DOMAIN batch[v] : \A j \in DOMAIN queue :
             batch[v][i] < queue[j])'
      BY <2>2, <2>6, <3>1 DEF InOrder
    <3>6. (\A v \in Workers : v \notin budget.workers => batch[v] = <<>>)'
      BY Zenon, <2>6, <3>1 DEF InOrder
    <3> QED
      BY Zenon, <2>2, <3>1, <3>4, <3>5, <3>6 DEF InOrder
  <2> QED
    BY Zenon, <1>a, <1>d, <2>2, <2>9, <2>10, <2>11, <2>12 DEF NoneLost
<1>12. ASSUME NEW d \in Devices, ExpireCache(d)
       PROVE  NoneLost'
  <2>1. UNCHANGED <<topic, fetched, committed, queue, batch, pc, processed, dlq, stopping>>
    BY <1>12, Zenon DEF ExpireCache, kafkaVars, workerVars, runVars
  <2>2. InOrder' <=> InOrder
    BY Zenon, <2>1 DEF InOrder, Handled
  <2> QED
    BY <1>d, <2>1, <2>2 DEF NoneLost, Handled, Queued, Holds
<1> QED
  BY Zenon, <1>1, <1>2, <1>3, <1>4, <1>5, <1>6, <1>7, <1>8, <1>9, <1>10, <1>11, <1>12
     DEF Next, WorkerStep

-----------------------------------------------------------------------------
(* Types, with the bound on the attempts of retryWithBackoff.              *)

Row == [reading : Readings \cup {"none"}, version : Nat]

RestInv ==
    /\ attempt \in [Workers -> 0 .. MaxAttempts]
    /\ \A w \in Workers : pc[w] = "run" => attempt[w] < MaxAttempts
    /\ processed \subseteq Readings /\ dlq \subseteq Readings
    /\ latest \in [Devices -> Row]
    /\ stopping \in BOOLEAN
    /\ used \in [Bounds -> Nat]

\* What a worker holds are readings of the topic.
LEMMA BatchOfReadings ==
  ASSUME LogInv, NEW w \in Workers
  PROVE  /\ \A i \in DOMAIN batch[w] : Payload(w, i) \in Readings
         /\ NewPlaces(w) \subseteq DOMAIN batch[w]
         /\ NewReadings(w) \subseteq Readings
<1>1. ASSUME NEW i \in DOMAIN batch[w]
      PROVE  Payload(w, i) \in Readings
  <2>1. batch[w][i] \in 1 .. Len(topic)
    BY DEF LogInv
  <2>2. topic \in Seq(Readings)
    BY DEF LogInv
  <2>3. \A o \in 1 .. Len(topic) : topic[o] \in Readings
    BY <2>2
  <2> QED
    BY Zenon, <2>1, <2>3 DEF Payload
<1>2. NewPlaces(w) \subseteq DOMAIN batch[w]
  BY DEF NewPlaces
<1> QED
  BY Zenon, <1>1, <1>2 DEF NewReadings

\* The upsert of a batch gives a device a row with a reading of the topic.
LEMMA UpsertRow ==
  ASSUME LogInv, NEW w \in Workers, NEW d \in Devices, latest[d] \in Row
  PROVE  Upsert(w, d) \in Row
<1> DEFINE place == {i \in NewPlaces(w) : IsNewest(w, i)
                                             /\ DeviceOf[Payload(w, i)] = d}
           accepted == {i \in place :
                           latest[d].version = 0
                               \/ RecordedAt[Payload(w, i)]
                                     >= RecordedAt[latest[d].reading]}
           chosen == CHOOSE i \in accepted : TRUE
           row == [reading |-> Payload(w, chosen), version |-> latest[d].version + 1]
<1>1. Upsert(w, d) = IF accepted = {} THEN latest[d] ELSE row
  BY Zenon DEF Upsert
<1>2. accepted # {} => chosen \in DOMAIN batch[w]
  BY Zenon DEF NewPlaces
<1>3. \A i \in DOMAIN batch[w] : Payload(w, i) \in Readings
  BY Zenon, BatchOfReadings
<1> HIDE DEF accepted, chosen
<1>4. latest[d].version + 1 \in Nat
  BY DEF Row
<1>5. ASSUME accepted # {}
      PROVE  row \in Row
  <2>1. Payload(w, chosen) \in Readings
    BY <1>2, <1>3, <1>5
  <2> QED
    BY Zenon, <1>4, <2>1 DEF Row
<1> QED
  BY Zenon, <1>1, <1>5

\* Every variable keeps its type; in particular retryWithBackoff never makes
\* more than maxAttempts attempts at a batch, whatever is cancelled or restarted.
THEOREM TypeTheorem == Spec => []TypeOK
<1>1. Init => RestInv
  <2>1. MaxAttempts \in Nat /\ MaxAttempts > 0
    BY SizesAssumption
  <2>2. NoRow \in Row
    BY DEF NoRow, Row
  <2> SUFFICES ASSUME Init PROVE RestInv
    OBVIOUS
  <2>3. attempt \in [Workers -> 0 .. MaxAttempts] /\ used \in [Bounds -> Nat]
    BY <2>1 DEF Init
  <2>4. latest \in [Devices -> Row]
    BY Zenon, <2>2 DEF Init
  <2>5. \A w \in Workers : pc[w] # "run"
    BY DEF Init
  <2>6. processed \subseteq Readings /\ dlq \subseteq Readings /\ stopping \in BOOLEAN
    BY Zenon DEF Init
  <2> QED
    BY Zenon, <2>3, <2>4, <2>5, <2>6 DEF RestInv
<1>2. RestInv /\ LogInv /\ [Next]_vars => RestInv'
  <2> SUFFICES ASSUME RestInv, LogInv, [Next]_vars
               PROVE  RestInv'
    OBVIOUS
  <2>1. used' \in [Bounds -> Nat]
    BY Zenon, StepKeepsCount DEF RestInv
  <2>2. pc \in [Workers -> {"fill", "run", "cache", "dlq", "commit"}]
    BY Zenon DEF LogInv
  <2>3. MaxAttempts \in Nat /\ MaxAttempts > 0
    BY SizesAssumption
  <2>4. ASSUME NEW w \in Workers, Transaction(w)
        PROVE  RestInv'
    <3>1. /\ processed' = processed \cup NewReadings(w)
          /\ latest' = [d \in Devices |-> Upsert(w, d)]
          /\ pc' = [pc EXCEPT ![w] = "cache"]
          /\ UNCHANGED <<attempt, dlq, stopping>>
      BY Zenon, <2>4 DEF Transaction, runVars
    <3>2. NewReadings(w) \subseteq Readings
      BY Zenon, BatchOfReadings
    <3>3. \A d \in Devices : Upsert(w, d) \in Row
      BY Zenon, UpsertRow DEF RestInv
    <3> QED
      BY Zenon, <2>1, <2>2, <3>1, <3>2, <3>3 DEF RestInv
  <2>5. ASSUME NEW w \in Workers, TransactionFails(w)
        PROVE  RestInv'
    <3>1. /\ pc[w] = "run"
          /\ attempt' = [attempt EXCEPT ![w] = @ + 1]
          /\ pc' = [pc EXCEPT ![w] = IF attempt'[w] = MaxAttempts \/ stopping
                                     THEN "dlq" ELSE "run"]
          /\ UNCHANGED <<processed, latest, dlq, stopping>>
      BY Zenon, <2>5 DEF TransactionFails, storeVars, runVars
    <3>2. attempt[w] \in Nat /\ attempt[w] < MaxAttempts
      BY <3>1 DEF RestInv
    <3>3. attempt' \in [Workers -> 0 .. MaxAttempts] /\ attempt'[w] = attempt[w] + 1
      BY <2>3, <3>1, <3>2 DEF RestInv
    <3>4. \A v \in Workers : pc'[v] = "run" => attempt'[v] < MaxAttempts
      BY <2>2, <2>3, <3>1, <3>2, <3>3 DEF RestInv
    <3> QED
      BY Zenon, <2>1, <3>1, <3>3, <3>4 DEF RestInv
  <2>6. ASSUME NEW w \in Workers, DeadLetter(w)
        PROVE  RestInv'
    <3>1. PICK S \in SUBSET {Payload(w, i) : i \in DOMAIN batch[w]} : dlq' = dlq \cup S
      BY Zenon, <2>6 DEF DeadLetter
    <3>2. \A i \in DOMAIN batch[w] : Payload(w, i) \in Readings
      BY Zenon, BatchOfReadings
    <3>3. /\ pc' = [pc EXCEPT ![w] = "commit"]
          /\ UNCHANGED <<attempt, processed, latest, stopping>>
      BY Zenon, <2>6 DEF DeadLetter, runVars
    <3> QED
      BY Zenon, <2>1, <2>2, <3>1, <3>2, <3>3 DEF RestInv
  <2>7. ASSUME NEW w \in Workers, Flush(w)
        PROVE  RestInv'
    <3>1. /\ attempt' = [attempt EXCEPT ![w] = 0]
          /\ pc' = [pc EXCEPT ![w] = "run"]
          /\ UNCHANGED <<processed, dlq, latest, stopping>>
      BY Zenon, <2>7 DEF Flush, storeVars, runVars
    <3> QED
      BY <2>1, <2>2, <2>3, <3>1 DEF RestInv
  <2>8. ASSUME NEW w \in Workers, WriteCache(w) \/ CommitBatch(w)
        PROVE  RestInv'
    <3>1. /\ \/ pc' = [pc EXCEPT ![w] = "commit"]
             \/ pc' = [pc EXCEPT ![w] = "fill"]
          /\ UNCHANGED <<attempt, processed, dlq, latest, stopping>>
      BY Zenon, <2>8 DEF WriteCache, CommitBatch, storeVars, runVars
    <3>2. \A v \in Workers : pc'[v] = "run" => pc[v] = "run"
      BY <2>2, <3>1
    <3> QED
      BY Zenon, <2>1, <3>1, <3>2 DEF RestInv
  <2>9. CASE Restart \/ Crash
    <3>1. /\ pc' = [w \in Workers |-> "fill"] /\ attempt' = [w \in Workers |-> 0]
          /\ UNCHANGED <<processed, dlq, latest>> /\ stopping' = FALSE
      BY Zenon, <2>9 DEF Restart, Crash, Restarted, storeVars
    <3>2. attempt' \in [Workers -> 0 .. MaxAttempts]
      BY <2>3, <3>1
    <3>3. \A w \in Workers : pc'[w] # "run"
      BY Zenon, <3>1
    <3> QED
      BY Zenon, <2>1, <3>1, <3>2, <3>3 DEF RestInv
  <2>10. CASE Shutdown
    BY Zenon, <2>1, <2>10 DEF RestInv, Shutdown, workerVars, storeVars
  <2>11. ASSUME UNCHANGED <<pc, attempt, processed, dlq, latest, stopping>>
         PROVE  RestInv'
    BY Zenon, <2>1, <2>11 DEF RestInv
  <2>12. CASE \/ \E r \in Readings : Produce(r)
              \/ \E d \in Devices : ExpireCache(d)
              \/ FetchMessage \/ FetchError \/ UNCHANGED vars
    <3>1. UNCHANGED <<pc, attempt, processed, dlq, latest, stopping>>
      BY Zenon, <2>12 DEF Produce, ExpireCache, FetchMessage, FetchError, vars, workerVars, storeVars, runVars
    <3> QED
      BY Zenon, <2>11, <3>1
  <2>13. ASSUME NEW w \in Workers, Receive(w)
         PROVE  RestInv'
    <3>1. UNCHANGED <<pc, attempt, processed, dlq, latest, stopping>>
      BY Zenon, <2>13 DEF Receive, storeVars, runVars
    <3> QED
      BY Zenon, <2>11, <3>1
  <2> QED
    BY Zenon, <2>4, <2>5, <2>6, <2>7, <2>8, <2>9, <2>10, <2>12, <2>13 DEF Next, WorkerStep
<1>3. RestInv /\ LogInv /\ CacheInv /\ BreakerInv => TypeOK
  BY DEF RestInv, LogInv, CacheInv, BreakerInv, TypeOK, Row
<1> QED
  BY <1>1, <1>2, <1>3, LogTheorem, CacheInvariance, BreakerInvariance, PTL DEF Spec

-----------------------------------------------------------------------------
(* A process that nothing failed in.                                       *)

\* No call failed, and the process has neither been stopped nor killed.
Quiet == used = [b \in Bounds |-> 0]

\* What the channel and the batches hold comes once, in the order of the topic.
Ascending ==
    /\ \A i, j \in DOMAIN queue : i < j => queue[i] < queue[j]
    /\ \A w \in Workers : \A i, j \in DOMAIN batch[w] : i < j => batch[w][i] < batch[w][j]
    /\ \A w \in Workers : \A i \in DOMAIN batch[w] : \A j \in DOMAIN queue :
          batch[w][i] < queue[j]

\* The topic repeats a reading.
Repetition == \E i, j \in DOMAIN topic : i # j /\ topic[i] = topic[j]

LettersCaused == dlq # {} \/ (\E w \in Workers : pc[w] = "dlq") => Repetition

\* What a worker has yet to write is all that Redis lacks.
OnlyDue(w) ==
    \A d \in Devices :
        IF due[w][d] > 0 THEN latest[d].version = due[w][d] ELSE PointerSound(d)

CacheKept ==
    /\ \A w \in Workers : pc[w] = "cache" => OnlyDue(w)
    /\ (\A w \in Workers : pc[w] # "cache") => \A d \in Devices : PointerSound(d)

QuietInv ==
    Quiet => /\ stopping = FALSE
             /\ \A w \in Workers : w \notin budget.workers => batch[w] = <<>>
             /\ Ascending /\ LettersCaused
             /\ Single => CacheKept

\* A step that uses up a bound is one that something failed in.
LEMMA SpentIsNotQuiet ==
  ASSUME used \in [Bounds -> Nat], NEW b \in Bounds, Spend(b)
  PROVE  ~Quiet'
<1>1. used'[b] = used[b] + 1 /\ used[b] \in Nat
  BY Zenon DEF Spend
<1> QED
  BY <1>1 DEF Quiet

\* Whatever follows a failure is no longer quiet.
LEMMA QuietBefore ==
  ASSUME used \in [Bounds -> Nat], Next, Quiet'
  PROVE  Quiet /\ \A b \in Bounds : ~Spend(b)
<1>1. \A b \in Bounds : ~Spend(b)
  BY Zenon, SpentIsNotQuiet
<1>2. {"faults", "dlqFaults", "fetchErrors", "shutdowns", "crashes"} \subseteq Bounds
  BY DEF Bounds
<1>3. CASE \/ \E r \in Readings : Produce(r)
           \/ \E d \in Devices : ExpireCache(d)
           \/ FetchMessage \/ Restart
  BY <1>1, <1>3, Zenon DEF Produce, ExpireCache, FetchMessage, Restart, Quiet
<1>4. ~(FetchError \/ Shutdown \/ Crash)
  BY <1>1, <1>2 DEF FetchError, Shutdown, Crash
<1>5. ASSUME NEW w \in Workers, WorkerStep(w) \/ TransactionFails(w)
      PROVE  used' = used
  <2>1. CASE Receive(w) \/ Flush(w) \/ Transaction(w)
    BY <2>1, Zenon DEF Receive, Flush, Transaction
  <2>2. CASE TransactionFails(w) \/ WriteCache(w) \/ DeadLetter(w) \/ CommitBatch(w)
    <3>1. \A ok, b : MayFail(ok, b) /\ b \in Bounds => used' = used
      BY <1>1, Zenon DEF MayFail
    <3> QED
      BY Zenon, <1>2, <2>2, <3>1 DEF TransactionFails, WriteCache, DeadLetter, CommitBatch
  <2> QED
    BY <1>5, <2>1, <2>2, Zenon DEF WorkerStep
<1> QED
  BY Zenon, <1>1, <1>3, <1>4, <1>5 DEF Next, Quiet

\* A repetition stays one when readings are published.
LEMMA RepetitionStays ==
  ASSUME topic \in Seq(Readings), NEW r, topic' = Append(topic, r), Repetition
  PROVE  Repetition'
<1>1. PICK i \in DOMAIN topic, j \in DOMAIN topic : i # j /\ topic[i] = topic[j]
  BY Zenon DEF Repetition
<1>2. i \in DOMAIN topic' /\ j \in DOMAIN topic' /\ topic'[i] = topic[i] /\ topic'[j] = topic[j]
  OBVIOUS
<1> QED
  BY Zenon, <1>1, <1>2 DEF Repetition

\* Two places of a batch that hold the same reading are two places of the topic.
LEMMA RepeatsIsRepetition ==
  ASSUME LogInv, Ascending, NEW w \in Workers, Repeats(w)
  PROVE  Repetition
<1>1. PICK i \in DOMAIN batch[w], j \in DOMAIN batch[w] :
        i # j /\ topic[batch[w][i]] = topic[batch[w][j]]
  BY Zenon DEF Repeats, NewPlaces, Payload
<1>2. i \in Nat /\ j \in Nat /\ batch[w][i] \in 1 .. fetched /\ batch[w][j] \in 1 .. fetched
  BY DEF LogInv
<1>3. batch[w][i] # batch[w][j]
  BY <1>1, <1>2 DEF Ascending
<1>4. batch[w][i] \in DOMAIN topic /\ batch[w][j] \in DOMAIN topic
  BY <1>2 DEF LogInv
<1> QED
  BY Zenon, <1>1, <1>3, <1>4 DEF Repetition

\* The fetch loop appends to what the channel holds.
LEMMA FetchAscends ==
  ASSUME LogInv, Ascending, FetchMessage
  PROVE  Ascending'
<1>1. queue' = Append(queue, fetched + 1) /\ batch' = batch
  BY Zenon DEF FetchMessage, workerVars
<1>2. /\ \A j \in DOMAIN queue : j \in DOMAIN queue' /\ queue'[j] = queue[j]
      /\ queue'[Len(queue) + 1] = fetched + 1
      /\ \A j \in DOMAIN queue' : j \in DOMAIN queue \/ j = Len(queue) + 1
  BY <1>1, AppendFacts DEF LogInv
<1>3. /\ Len(queue) \in Nat /\ fetched \in Nat
      /\ \A j \in DOMAIN queue : j \in Nat /\ j <= Len(queue) /\ queue[j] < fetched + 1
      /\ \A w \in Workers : \A i \in DOMAIN batch[w] : batch[w][i] < fetched + 1
  BY DEF LogInv
<1>4. ASSUME NEW i \in DOMAIN queue', NEW j \in DOMAIN queue', i < j
      PROVE  queue'[i] < queue'[j]
  <2>1. i \in DOMAIN queue
    BY <1>2, <1>3, <1>4
  <2>2. CASE j \in DOMAIN queue
    BY Zenon, <1>2, <1>4, <2>1, <2>2 DEF Ascending
  <2>3. CASE j = Len(queue) + 1
    BY Zenon, <1>2, <1>3, <2>1, <2>3
  <2> QED
    BY Zenon, <1>2, <2>2, <2>3
<1>5. ASSUME NEW w \in Workers, NEW i \in DOMAIN batch'[w], NEW j \in DOMAIN queue'
      PROVE  batch'[w][i] < queue'[j]
  BY Zenon, <1>1, <1>2, <1>3 DEF Ascending
<1> QED
  BY Zenon, <1>1, <1>4, <1>5 DEF Ascending

\* A worker receives the first message of the channel.
LEMMA ReceiveAscends ==
  ASSUME LogInv, Ascending, NEW w \in Workers, Receive(w)
  PROVE  Ascending'
<1>1. /\ queue # <<>> /\ queue' = Tail(queue)
      /\ batch' = [batch EXCEPT ![w] = Append(@, Head(queue))]
  BY Zenon DEF Receive
<1>2. queue \in Seq(Nat) /\ batch \in [Workers -> Seq(Nat)] /\ batch[w] \in Seq(Nat)
  BY Zenon DEF LogInv
<1>3. /\ 1 \in DOMAIN queue /\ Head(queue) = queue[1]
      /\ \A j \in DOMAIN queue' : /\ j + 1 \in DOMAIN queue /\ queue'[j] = queue[j + 1]
                                  /\ j \in Nat /\ j >= 1
  BY Zenon, <1>1, <1>2, TailFacts
<1>4. Head(queue) \in Nat
  BY <1>2, <1>3
<1>5. /\ batch'[w] = Append(batch[w], Head(queue))
      /\ \A v \in Workers : v # w => batch'[v] = batch[v]
  BY Zenon, <1>1, <1>2
<1>6. /\ \A i \in DOMAIN batch[w] : batch'[w][i] = batch[w][i]
      /\ batch'[w][Len(batch[w]) + 1] = Head(queue)
      /\ \A i \in DOMAIN batch'[w] : i \in DOMAIN batch[w] \/ i = Len(batch[w]) + 1
  BY <1>2, <1>4, <1>5, AppendFacts
<1>7. \A i \in DOMAIN batch[w] : i \in Nat /\ i < Len(batch[w]) + 1
  BY <1>2
<1>8. \A j \in DOMAIN queue' : queue[1] < queue'[j]
  BY <1>3 DEF Ascending
<1>9. ASSUME NEW i \in DOMAIN queue', NEW j \in DOMAIN queue', i < j
      PROVE  queue'[i] < queue'[j]
  BY <1>3, <1>9 DEF Ascending
<1>10. ASSUME NEW v \in Workers, NEW i \in DOMAIN batch'[v], NEW j \in DOMAIN batch'[v], i < j
       PROVE  batch'[v][i] < batch'[v][j]
  <2>1. CASE v # w
    BY Zenon, <1>5, <1>10, <2>1 DEF Ascending
  <2>2. CASE v = w
    <3>1. i \in DOMAIN batch[w]
      <4>1. Len(batch[w]) \in Nat
        BY <1>2
      <4> QED
        BY <1>6, <1>7, <1>10, <2>2, <4>1
    <3>2. CASE j \in DOMAIN batch[w]
      BY <1>6, <1>10, <2>2, <3>1, <3>2 DEF Ascending
    <3>3. CASE j = Len(batch[w]) + 1
      BY Zenon, <1>3, <1>6, <2>2, <3>1, <3>3 DEF Ascending
    <3> QED
      BY Zenon, <1>6, <2>2, <3>2, <3>3
  <2> QED
    BY Zenon, <2>1, <2>2
<1>11. ASSUME NEW v \in Workers, NEW i \in DOMAIN batch'[v], NEW j \in DOMAIN queue'
       PROVE  batch'[v][i] < queue'[j]
  <2>1. CASE v # w
    BY Zenon, <1>3, <1>5, <2>1 DEF Ascending
  <2>2. CASE v = w /\ i \in DOMAIN batch[w]
    BY Zenon, <1>3, <1>6, <2>2 DEF Ascending
  <2>3. CASE v = w /\ i = Len(batch[w]) + 1
    BY Zenon, <1>3, <1>6, <1>8, <2>3
  <2> QED
    BY Zenon, <1>6, <2>1, <2>2, <2>3
<1> QED
  BY Zenon, <1>9, <1>10, <1>11 DEF Ascending

\* With a single worker, no other is past filling its batch.
LEMMA OthersFill ==
  ASSUME LogInv, Quiet, QuietInv, Single, NEW w \in Workers, pc[w] # "fill",
         NEW v \in Workers, v # w
  PROVE  pc[v] = "fill"
<1>1. \A u \in Workers : pc[u] # "fill" => u \in budget.workers
  BY Zenon DEF LogInv, QuietInv
<1> QED
  BY Zenon, <1>1 DEF Single

\* The transaction of the only worker leaves to Redis what it changed.
LEMMA TransactionKeepsCache ==
  ASSUME LogInv, CacheInv, Quiet, QuietInv, Single, NEW w \in Workers, Transaction(w)
  PROVE  CacheKept'
<1>1. /\ pc[w] = "run" /\ pc' = [pc EXCEPT ![w] = "cache"] /\ cache' = cache
      /\ latest' = [d \in Devices |-> Upsert(w, d)]
      /\ due' = [due EXCEPT ![w] = [d \in Devices |-> IF Upsert(w, d) = latest[d] THEN 0
                                                     ELSE Upsert(w, d).version]]
  BY Zenon DEF Transaction
<1>2. \A v \in Workers : v # w => pc[v] = "fill"
  BY Zenon, <1>1, OthersFill
<1>3. pc'[w] = "cache" /\ \A v \in Workers : v # w => pc'[v] = "fill"
  BY Zenon, <1>1, <1>2 DEF LogInv
<1>4. \A v \in Workers : pc[v] # "cache"
  BY <1>1, <1>2
<1>5. \A d \in Devices : PointerSound(d)
  BY <1>4, Zenon DEF QuietInv, CacheKept
<1>6. \A d \in Devices : due'[w][d] = IF Upsert(w, d) = latest[d] THEN 0
                                      ELSE Upsert(w, d).version
  BY <1>1 DEF CacheInv
<1>7. \A d \in Devices : /\ latest[d].version \in Nat
                         /\ Upsert(w, d) # latest[d] =>
                               Upsert(w, d).version = latest[d].version + 1
  <2>1. \A d \in Devices : latest[d].version \in Nat
    BY Zenon DEF CacheInv
  <2> QED
    BY Zenon, <2>1 DEF Upsert
<1>8. OnlyDue(w)'
  BY <1>1, <1>5, <1>6, <1>7 DEF OnlyDue, PointerSound
<1> QED
  BY Zenon, <1>3, <1>8 DEF CacheKept

\* A pointer that expires is none.
LEMMA ExpireKeepsCache ==
  ASSUME CacheInv, CacheKept, NEW e \in Devices, ExpireCache(e)
  PROVE  CacheKept'
<1>1. UNCHANGED <<pc, latest, due>> /\ cache' = [cache EXCEPT ![e] = 0]
  BY Zenon DEF ExpireCache, workerVars
<1>2. \A d \in Devices : PointerSound(d) => PointerSound(d)'
  BY <1>1 DEF PointerSound, CacheInv
<1> QED
  BY <1>1, <1>2, Zenon DEF CacheKept, OnlyDue

\* The pipeline of the only worker, when it does not fail, brings Redis up to date.
LEMMA WriteKeepsCache ==
  ASSUME LogInv, Quiet, QuietInv, Single, NEW w \in Workers, WriteCache(w),
         \A b \in Bounds : ~Spend(b)
  PROVE  CacheKept'
<1>1. pc[w] = "cache" /\ pc' = [pc EXCEPT ![w] = "commit"] /\ latest' = latest
  BY Zenon DEF WriteCache
<1>2. cache' = [d \in Devices |-> IF due[w][d] > 0 THEN due[w][d] ELSE cache[d]]
  <2>1. PICK ok \in BOOLEAN :
          /\ MayFail(ok, "faults")
          /\ cache' = [d \in Devices |-> IF ok /\ due[w][d] > 0
                                         THEN due[w][d] ELSE cache[d]]
    BY Zenon DEF WriteCache
  <2>2. stopping = FALSE /\ "faults" \in Bounds
    BY DEF QuietInv, Bounds
  <2>3. ok
    BY <2>1, <2>2, Zenon DEF MayFail
  <2> QED
    BY Zenon, <2>1, <2>3
<1>3. \A v \in Workers : v # w => pc[v] = "fill"
  BY Zenon, <1>1, OthersFill
<1>4. \A v \in Workers : pc'[v] # "cache"
  BY <1>1, <1>3 DEF LogInv
<1>5. OnlyDue(w)
  BY <1>1, Zenon DEF QuietInv, CacheKept
<1>6. \A d \in Devices : PointerSound(d)'
  BY Zenon, <1>1, <1>2, <1>5 DEF OnlyDue, PointerSound
<1> QED
  BY <1>4, <1>6, Zenon DEF CacheKept

\* A step in which nothing fails keeps what a quiet process has.
LEMMA StepStaysQuiet ==
  ASSUME LogInv, CacheInv, used \in [Bounds -> Nat], QuietInv, Next, Quiet',
         budget' = budget
  PROVE  QuietInv'
<1>1. Quiet /\ \A b \in Bounds : ~Spend(b)
  BY Zenon, QuietBefore
<1>2. {"faults", "dlqFaults", "fetchErrors", "shutdowns", "crashes"} \subseteq Bounds
  BY DEF Bounds
<1>3. /\ stopping = FALSE
      /\ \A w \in Workers : w \notin budget.workers => batch[w] = <<>>
      /\ Ascending /\ LettersCaused /\ (Single => CacheKept)
  BY <1>1, Zenon DEF QuietInv
<1>4. ~(FetchError \/ Shutdown \/ Crash \/ Restart)
  BY <1>1, <1>2, <1>3 DEF FetchError, Shutdown, Crash, Restart
<1>5. Single' <=> Single
  BY Zenon DEF Single
<1>6. UNCHANGED <<pc, latest, cache, due>> => (CacheKept' <=> CacheKept)
  BY Zenon DEF CacheKept, OnlyDue, PointerSound
<1>7. UNCHANGED <<queue, batch>> => (Ascending' <=> Ascending)
  BY Zenon DEF Ascending
<1>8. UNCHANGED <<topic, dlq, pc>> => (LettersCaused' <=> LettersCaused)
  BY Zenon DEF LettersCaused, Repetition
<1>9. ASSUME NEW r \in Readings, Produce(r)
      PROVE  QuietInv'
  <2>1. /\ topic' = Append(topic, r)
        /\ UNCHANGED <<queue, batch, pc, due, latest, cache, dlq, stopping>>
    BY <1>9 DEF Produce, workerVars, storeVars, runVars
  <2>2. LettersCaused'
    <3>1. Repetition => Repetition'
      BY Zenon, <2>1, RepetitionStays DEF LogInv
    <3> QED
      BY <1>3, <2>1, <3>1, Zenon DEF LettersCaused
  <2> QED
    BY Zenon, <1>3, <1>5, <1>6, <1>7, <2>1, <2>2 DEF QuietInv
<1>10. CASE FetchMessage
  <2>1. UNCHANGED <<topic, batch, pc, due, latest, cache, dlq, stopping>>
    BY Zenon, <1>10 DEF FetchMessage, workerVars, storeVars, runVars
  <2>2. Ascending'
    BY Zenon, <1>3, <1>10, FetchAscends
  <2> QED
    BY Zenon, <1>3, <1>5, <1>6, <1>8, <2>1, <2>2 DEF QuietInv
<1>11. ASSUME NEW w \in Workers, Receive(w)
       PROVE  QuietInv'
  <2>1. /\ UNCHANGED <<topic, pc, due, latest, cache, dlq, stopping>>
        /\ w \in budget.workers
        /\ batch' = [batch EXCEPT ![w] = Append(@, Head(queue))]
    BY Zenon, <1>11 DEF Receive, kafkaVars, storeVars, runVars
  <2>2. Ascending'
    BY Zenon, <1>3, <1>11, ReceiveAscends
  <2>3. \A v \in Workers : v \notin budget.workers => batch'[v] = <<>>
    BY Zenon, <1>3, <2>1 DEF LogInv
  <2> QED
    BY Zenon, <1>3, <1>5, <1>6, <1>8, <2>1, <2>2, <2>3 DEF QuietInv
<1>12. ASSUME NEW w \in Workers, Flush(w) \/ TransactionFails(w) \/ DeadLetter(w)
       PROVE  QuietInv'
  <2>1. UNCHANGED <<topic, queue, batch, due, latest, cache, stopping>>
    BY Zenon, <1>12 DEF Flush, TransactionFails, DeadLetter, kafkaVars, storeVars, runVars
  <2>2. PICK p \in {"run", "dlq", "commit"} : pc' = [pc EXCEPT ![w] = p]
    BY Zenon, <1>12 DEF Flush, TransactionFails, DeadLetter
  <2>3. pc[w] # "cache"
    BY Zenon, <1>12 DEF Flush, TransactionFails, DeadLetter
  <2>4. \A v \in Workers : pc'[v] = "cache" <=> pc[v] = "cache"
    BY Zenon, <2>2, <2>3 DEF LogInv
  <2>5. CacheKept' <=> CacheKept
    BY <2>1, <2>4 DEF CacheKept, OnlyDue, PointerSound
  <2>6. Repetition' <=> Repetition
    BY <2>1, Zenon DEF Repetition
  <2>7. CASE Flush(w)
    <3>1. dlq' = dlq /\ pc' = [pc EXCEPT ![w] = "run"]
      BY Zenon, <2>7 DEF Flush, storeVars
    <3>2. \A v \in Workers : pc'[v] = "dlq" => pc[v] = "dlq"
      BY <3>1 DEF LogInv
    <3>3. LettersCaused'
      BY <1>3, <2>6, <3>1, <3>2, Zenon DEF LettersCaused
    <3> QED
      BY Zenon, <1>3, <1>5, <1>7, <2>1, <2>5, <3>3 DEF QuietInv
  <2>8. CASE TransactionFails(w) \/ DeadLetter(w)
    <3>1. Repetition
      <4>1. CASE TransactionFails(w)
        <5>1. Repeats(w)
          BY Zenon, <1>1, <1>2, <1>3, <4>1 DEF TransactionFails, MayFail
        <5> QED
          BY Zenon, <1>3, <5>1, RepeatsIsRepetition
      <4>2. CASE DeadLetter(w)
        BY <1>3, <4>2, Zenon DEF LettersCaused, DeadLetter
      <4> QED
        BY Zenon, <2>8, <4>1, <4>2
    <3>2. LettersCaused'
      BY <2>6, <3>1, Zenon DEF LettersCaused
    <3> QED
      BY <1>3, <1>5, <1>7, <2>1, <2>5, <3>2 DEF QuietInv
  <2> QED
    BY <1>12, <2>7, <2>8
<1>13. ASSUME NEW w \in Workers, Transaction(w) \/ WriteCache(w)
       PROVE  QuietInv'
  <2>1. UNCHANGED <<topic, queue, batch, dlq, stopping>>
    BY Zenon, <1>13 DEF Transaction, WriteCache, kafkaVars, runVars
  <2>2. PICK p \in {"cache", "commit"} : pc' = [pc EXCEPT ![w] = p]
    BY Zenon, <1>13 DEF Transaction, WriteCache
  <2>3. \A v \in Workers : pc'[v] = "dlq" => pc[v] = "dlq"
    BY <2>2 DEF LogInv
  <2>4. LettersCaused'
    BY <1>3, <2>1, <2>3, Zenon DEF LettersCaused, Repetition
  <2>5. Single => CacheKept'
    BY Zenon, <1>1, <1>13, TransactionKeepsCache, WriteKeepsCache
  <2> QED
    BY <1>3, <1>5, <1>7, <2>1, <2>4, <2>5 DEF QuietInv
<1>14. ASSUME NEW w \in Workers, CommitBatch(w)
       PROVE  QuietInv'
  <2>1. /\ UNCHANGED <<topic, queue, due, latest, cache, dlq, stopping>>
        /\ batch' = [batch EXCEPT ![w] = <<>>]
        /\ pc[w] = "commit" /\ pc' = [pc EXCEPT ![w] = "fill"]
    BY Zenon, <1>14 DEF CommitBatch, storeVars, runVars
  <2>2. /\ \A v \in Workers : pc'[v] = "dlq" => pc[v] = "dlq"
        /\ \A v \in Workers : pc'[v] = "cache" <=> pc[v] = "cache"
    BY <2>1 DEF LogInv
  <2>3. LettersCaused'
    BY <1>3, <2>1, <2>2, Zenon DEF LettersCaused, Repetition
  <2>4. CacheKept' <=> CacheKept
    BY Zenon, <2>1, <2>2 DEF CacheKept, OnlyDue, PointerSound
  <2>5. \A v \in Workers : batch'[v] = <<>> \/ batch'[v] = batch[v]
    BY Zenon, <2>1 DEF LogInv
  <2>6. Ascending'
    BY <1>3, <2>1, <2>5 DEF Ascending
  <2> QED
    BY Zenon, <1>3, <1>5, <2>1, <2>3, <2>4, <2>5, <2>6 DEF QuietInv
<1>15. ASSUME NEW d \in Devices, ExpireCache(d)
       PROVE  QuietInv'
  <2>1. UNCHANGED <<topic, queue, batch, pc, dlq, stopping>>
    BY <1>15, Zenon DEF ExpireCache, kafkaVars, workerVars, runVars
  <2>2. Single => CacheKept'
    BY Zenon, <1>3, <1>15, ExpireKeepsCache
  <2> QED
    BY Zenon, <1>3, <1>5, <1>7, <1>8, <2>1, <2>2 DEF QuietInv
<1> QED
  BY Zenon, <1>4, <1>9, <1>10, <1>11, <1>12, <1>13, <1>14, <1>15 DEF Next, WorkerStep

\* While nothing failed, every message is held once and in order, what reached
\* the dead letter topic met its repetition in a batch, and a single worker has
\* written to Redis all that it does not still hold and that has not expired.
THEOREM QuietTheorem == Spec => [](used \in [Bounds -> Nat] /\ QuietInv)
<1>1. Init => used \in [Bounds -> Nat] /\ QuietInv
  <2>0. Init => used \in [Bounds -> Nat]
    BY DEF Init
  <2> SUFFICES ASSUME Init PROVE QuietInv
    BY Zenon, <2>0
  <2>1. /\ queue = <<>> /\ \A w \in Workers : batch[w] = <<>> /\ pc[w] = "fill"
        /\ stopping = FALSE /\ dlq = {}
    BY Zenon DEF Init
  <2>2. \A d \in Devices : PointerSound(d)
    BY Zenon DEF Init, NoRow, PointerSound
  <2>3. Ascending /\ LettersCaused /\ CacheKept
    BY <2>1, <2>2 DEF Ascending, LettersCaused, CacheKept
  <2> QED
    BY Zenon, <2>1, <2>3 DEF QuietInv
<1>2. /\ used \in [Bounds -> Nat] /\ QuietInv /\ LogInv /\ CacheInv /\ [Next]_vars
      => (used \in [Bounds -> Nat] /\ QuietInv)'
  <2> SUFFICES ASSUME used \in [Bounds -> Nat], QuietInv, LogInv, CacheInv, [Next]_vars
               PROVE  used' \in [Bounds -> Nat] /\ QuietInv'
    OBVIOUS
  <2>1. budget' = budget /\ used' \in [Bounds -> Nat]
    BY StepKeepsCount
  <2>2. CASE UNCHANGED vars
    <3>1. UNCHANGED <<used, stopping, batch, queue, pc, dlq, topic, latest, cache, due, budget>>
      BY <2>2 DEF vars, kafkaVars, workerVars, storeVars, runVars
    <3>2. (Ascending' <=> Ascending) /\ (LettersCaused' <=> LettersCaused)
      BY Zenon, <3>1 DEF Ascending, LettersCaused, Repetition
    <3>3. CacheKept' <=> CacheKept
      BY <3>1 DEF CacheKept, OnlyDue, PointerSound
    <3>4. (Quiet' <=> Quiet) /\ (Single' <=> Single)
      BY <3>1, Zenon DEF Quiet, Single
    <3> QED
      BY Zenon, <2>1, <3>1, <3>2, <3>3, <3>4 DEF QuietInv
  <2>3. CASE Next
    <3>1. Quiet' => QuietInv'
      BY <2>1, <2>3, StepStaysQuiet
    <3> QED
      BY Zenon, <2>1, <3>1 DEF QuietInv
  <2> QED
    BY Zenon, <2>2, <2>3
<1> QED
  BY <1>1, <1>2, LogTheorem, CacheInvariance, PTL DEF Spec

\* The handler dead-letters a batch without a failure only where the topic
\* repeats a reading, whatever workers share the readings of a device, for any
\* number of workers and messages.
THEOREM DeadLetterTheorem == Spec => []DeadLettersNeedCause
<1>1. QuietInv => DeadLettersNeedCause
  BY Zenon DEF QuietInv, Quiet, LettersCaused, Repetition, DeadLettersNeedCause
<1> QED
  BY <1>1, QuietTheorem, PTL

-----------------------------------------------------------------------------
(* Where the workers are counted.                                          *)

INSTANCE FiniteSetTheorems

\* A process started with one worker has that worker and no other.
LEMMA OneWorker ==
    ASSUME LogInv, Cardinality(budget.workers) = 1
    PROVE  Single
<1>1. IsFiniteSet(budget.workers)
  BY Zenon, SizesAssumption DEF LogInv
<1> QED
  BY <1>1, FS_Singleton DEF Single

\* What the worker pool takes to lose a message, for any number of workers and
\* messages: without a crash of several workers, a failed dead letter, a
\* shutdown or a group that never committed, every message at or below the
\* committed offset is projected, dead-lettered or still in the process.
THEOREM LossTheorem == Spec => []LossNeedsFault
<1>1. Init => LossInv
  <2>0. Init => used \in [Bounds -> Nat]
    BY DEF Init
  <2> SUFFICES ASSUME Init, Careful PROVE LossInv
    BY Zenon, <2>0 DEF LossInv
  <2>1. fetched = 0 /\ committed = 0 /\ stopping = FALSE /\ used \in [Bounds -> Nat]
    BY Zenon DEF Init, Careful
  <2>2. /\ queue = <<>> /\ batch = [w \in Workers |-> <<>>]
        /\ pc = [w \in Workers |-> "fill"]
    BY Zenon DEF Init
  <2>3. \A w \in Workers : DOMAIN batch[w] = {} /\ batch[w] = <<>>
    BY <2>2
  <2>4. DOMAIN queue = {}
    BY <2>2
  <2>5. InOrder
    BY <2>1, <2>3, <2>4 DEF InOrder
  <2> QED
    BY <2>1, <2>3, <2>5 DEF LossInv, NoneLost
<1>2. LossInv /\ LogInv /\ LogInv' /\ [Next]_vars => LossInv'
  <2> SUFFICES ASSUME LossInv, LogInv, LogInv', [Next]_vars
               PROVE  LossInv'
    OBVIOUS
  <2>1. budget' = budget /\ used' \in [Bounds -> Nat]
    BY Zenon, StepKeepsCount DEF LossInv
  <2>2. Careful' => Careful
    BY Zenon, <2>1 DEF Careful
  <2>3. CASE UNCHANGED vars
    <3>1. UNCHANGED <<topic, fetched, committed, queue, batch, pc, processed, dlq,
                      stopping, budget>>
      BY Zenon, <2>3 DEF vars, kafkaVars, workerVars, storeVars, runVars
    <3>2. InOrder' <=> InOrder
      BY Zenon, <3>1 DEF InOrder, Handled
    <3>3. Single' <=> Single
      BY Zenon, <3>1 DEF Single
    <3>4. NoneLost => NoneLost'
      BY <3>1, <3>2, <3>3 DEF NoneLost, Handled, Queued, Holds
    <3> QED
      BY Zenon, <2>1, <2>2, <3>4 DEF LossInv
  <2>4. CASE Next
    <3>1. Careful => Single \/ budget.crashes = 0
      BY Zenon, OneWorker DEF Careful
    <3> QED
      BY Zenon, <2>1, <2>2, <2>4, <3>1, StepLosesNothing DEF LossInv
  <2> QED
    BY Zenon, <2>3, <2>4
<1>3. LossInv /\ LogInv => LossNeedsFault
  <2> SUFFICES ASSUME LossInv, LogInv, Careful, NEW o \in 1 .. committed
               PROVE  Handled(o) \/ o \in InFlight
    BY Zenon DEF LossNeedsFault, CommittedWasHandled, Handled
  <2>1. o \in 1 .. fetched
    BY DEF LogInv
  <2> QED
    BY <2>1 DEF LossInv, NoneLost, Queued, Holds, InFlight
<1> QED
  BY <1>1, <1>2, <1>3, LogTheorem, PTL DEF Spec

\* With one worker and no failed call, Redis has no pointer of a device to an old
\* version whenever the process holds no message, whatever pointers expire.
THEOREM CacheFollowsTheorem == Spec => []CacheFollows
<1>1. QuietInv /\ LogInv => CacheFollows
  <2> SUFFICES ASSUME QuietInv, LogInv, Cardinality(budget.workers) = 1, InFlight = {},
                      Quiet
               PROVE  \A d \in Devices : PointerSound(d)
    BY Zenon DEF CacheFollows, Quiet
  <2>1. Single
    BY Zenon, OneWorker
  <2>2. \A w \in Workers : pc[w] = "fill"
    <3> SUFFICES ASSUME NEW w \in Workers, pc[w] # "fill" PROVE FALSE
      OBVIOUS
    <3>1. batch[w] # <<>> /\ batch[w] \in Seq(Nat)
      BY Zenon DEF LogInv
    <3>2. 1 \in DOMAIN batch[w]
      BY <3>1
    <3>3. batch[w][1] \in InFlight
      BY <3>2 DEF InFlight
    <3> QED
      BY Zenon, <3>3
  <2> QED
    BY Zenon, <2>1, <2>2 DEF QuietInv, CacheKept
<1> QED
  BY <1>1, QuietTheorem, LogTheorem, PTL

-----------------------------------------------------------------------------
(* The latest reading of a device.                                         *)

RowInv ==
    /\ DOMAIN latest = Devices /\ \A d \in Devices : latest[d].version \in Nat
    /\ processed \subseteq Readings
    /\ LatestIsNewest

\* The order of the times of recording.
LEMMA AtMost ==
  /\ \A a, b, c \in Nat : a <= b /\ b <= c => a <= c
  /\ \A a, b \in Nat : a < b \/ a = b => a <= b
  /\ \A a, b \in Nat : (a >= b => b <= a) /\ (~(a >= b) => a <= b)
  /\ \A a \in Nat : a + 1 # 0
OBVIOUS

\* Of finitely many places one has the latest time, and of equals is the last.
LEMMA LastOfLatest ==
  ASSUME NEW S \in SUBSET Nat, IsFiniteSet(S), S # {}, NEW f \in [S -> Nat]
  PROVE  \E i \in S : \A j \in S : f[j] < f[i] \/ (f[j] = f[i] /\ j <= i)
<1> DEFINE Above(i) == {j \in S : f[i] < f[j] \/ (f[i] = f[j] /\ i < j)}
           T == {Above(i) : i \in S}
           R == StrictSubsetOrdering(S)
<1>1. IsWellFoundedOn(R, FiniteSubsetsOf(S))
  BY Zenon, FS_StrictSubsetOrderingWellFounded
<1>2. T \subseteq FiniteSubsetsOf(S) /\ T # {}
  <2>1. FiniteSubsetsOf(S) = SUBSET S
    BY Zenon, FS_FiniteSubsetsOfFinite
  <2>2. \A i \in S : Above(i) \in SUBSET S
    OBVIOUS
  <2> HIDE DEF Above
  <2>3. T \subseteq SUBSET S
    BY Zenon, <2>2
  <2>4. PICK i : i \in S
    OBVIOUS
  <2>5. Above(i) \in T
    BY Zenon, <2>4
  <2> HIDE DEF T
  <2> QED
    BY Zenon, <2>1, <2>3, <2>5
<1>3. \E x \in T : \A y \in T : ~(<<y, x>> \in R)
  <2> HIDE DEF T, R
  <2> QED
    BY Zenon, <1>1, <1>2, WFMin
<1>4. PICK i \in S : \A j \in S : ~(<<Above(j), Above(i)>> \in R)
  BY Zenon, <1>3
<1>5. ASSUME NEW j \in S, ~(f[j] < f[i] \/ (f[j] = f[i] /\ j <= i))
      PROVE  FALSE
  <2>1. f[i] \in Nat /\ f[j] \in Nat /\ i \in Nat /\ j \in Nat
    OBVIOUS
  <2>2. f[i] < f[j] \/ (f[i] = f[j] /\ i < j)
    BY <1>5, <2>1
  <2>3. j \in Above(i) /\ j \notin Above(j)
    BY <2>1, <2>2
  <2>4. ASSUME NEW k \in Above(j)
        PROVE  k \in Above(i)
    <3>1. k \in S /\ f[k] \in Nat /\ k \in Nat /\ (f[j] < f[k] \/ (f[j] = f[k] /\ j < k))
      BY Zenon, <2>4
    <3> QED
      BY <2>1, <2>2, <3>1
  <2>5. Above(j) \subseteq Above(i) /\ Above(j) # Above(i)
    BY Zenon, <2>3, <2>4
  <2>6. Above(j) \in SUBSET S /\ Above(i) \in SUBSET S
    OBVIOUS
  <2> HIDE DEF Above
  <2>7. <<Above(j), Above(i)>> \in R
    BY Zenon, <2>5, <2>6 DEF StrictSubsetOrdering
  <2> QED
    BY <1>4, <2>7
<1> QED
  BY Zenon, <1>5

\* A batch that has new readings of a device has a newest one: the loop that
\* fills deduped always keeps one.
LEMMA NewestExists ==
  ASSUME LogInv, NEW w \in Workers, NEW k \in NewPlaces(w)
  PROVE  \E i \in NewPlaces(w) :
            /\ DeviceOf[Payload(w, i)] = DeviceOf[Payload(w, k)]
            /\ IsNewest(w, i)
<1> DEFINE S == {i \in NewPlaces(w) : DeviceOf[Payload(w, i)] = DeviceOf[Payload(w, k)]}
           f == [i \in S |-> RecordedAt[Payload(w, i)]]
<1>1. S \subseteq 1 .. Len(batch[w]) /\ Len(batch[w]) \in Nat
  BY DEF NewPlaces, LogInv
<1>2. S \in SUBSET Nat /\ IsFiniteSet(S)
  <2>1. IsFiniteSet(1 .. Len(batch[w]))
    BY <1>1, FS_Interval
  <2> QED
    BY <1>1, <2>1, FS_Subset
<1>3. S # {}
  OBVIOUS
<1>4. \A i \in S : Payload(w, i) \in Readings
  BY Zenon, BatchOfReadings
<1>5. f \in [S -> Nat]
  BY Zenon, <1>4, ReadingsAssumption
<1>6. PICK i \in S : \A j \in S : f[j] < f[i] \/ (f[j] = f[i] /\ j <= i)
  <2> HIDE DEF S, f
  <2> QED
    BY Zenon, <1>2, <1>3, <1>5, LastOfLatest
<1>7. i \in NewPlaces(w) /\ DeviceOf[Payload(w, i)] = DeviceOf[Payload(w, k)]
  OBVIOUS
<1>8. ASSUME NEW j \in NewPlaces(w), DeviceOf[Payload(w, j)] = DeviceOf[Payload(w, i)]
      PROVE  \/ RecordedAt[Payload(w, j)] < RecordedAt[Payload(w, i)]
             \/ RecordedAt[Payload(w, j)] = RecordedAt[Payload(w, i)] /\ j <= i
  <2>1. j \in S
    BY Zenon, <1>7, <1>8
  <2>2. f[j] = RecordedAt[Payload(w, j)] /\ f[i] = RecordedAt[Payload(w, i)]
    BY Zenon, <2>1
  <2> QED
    BY Zenon, <1>6, <2>1, <2>2
<1> QED
  BY Zenon, <1>7, <1>8 DEF IsNewest

\* The row that a batch leaves for a device.
LEMMA UpsertKeepsNewest ==
  ASSUME LogInv, RowInv, NEW w \in Workers, NEW d \in Devices,
         NEW mine, mine = {r \in processed : DeviceOf[r] = d},
         NEW added, added = {r \in NewReadings(w) : DeviceOf[r] = d}
  PROVE  IF Upsert(w, d).version = 0 THEN mine \cup added = {}
         ELSE /\ Upsert(w, d).reading \in mine \cup added
              /\ \A r \in mine \cup added :
                    RecordedAt[r] <= RecordedAt[Upsert(w, d).reading]
<1> DEFINE place == {i \in NewPlaces(w) : IsNewest(w, i)
                                             /\ DeviceOf[Payload(w, i)] = d}
           accepted == {i \in place :
                           latest[d].version = 0
                               \/ RecordedAt[Payload(w, i)]
                                     >= RecordedAt[latest[d].reading]}
           chosen == CHOOSE i \in accepted : TRUE
           row == [reading |-> Payload(w, chosen), version |-> latest[d].version + 1]
<1>1. Upsert(w, d) = IF accepted = {} THEN latest[d] ELSE row
  BY Zenon DEF Upsert
<1>2. latest[d].version \in Nat
  BY Zenon DEF RowInv
<1>3. IF latest[d].version = 0 THEN mine = {}
      ELSE /\ latest[d].reading \in mine
           /\ \A r \in mine : RecordedAt[r] <= RecordedAt[latest[d].reading]
  BY Zenon DEF RowInv, LatestIsNewest
<1>4. \A i \in NewPlaces(w) : Payload(w, i) \in Readings
  BY Zenon, BatchOfReadings
<1>5. mine \subseteq Readings /\ added \subseteq Readings
  BY Zenon, <1>4 DEF RowInv, NewReadings
<1>6. \A r \in Readings : RecordedAt[r] \in Nat
  BY Zenon, ReadingsAssumption
<1>7. ASSUME NEW i \in place
      PROVE  /\ Payload(w, i) \in added
             /\ \A r \in added : RecordedAt[r] <= RecordedAt[Payload(w, i)]
  <2>1. Payload(w, i) \in added
    BY Zenon, <1>7 DEF NewReadings
  <2>2. ASSUME NEW r \in added
        PROVE  RecordedAt[r] <= RecordedAt[Payload(w, i)]
    <3>1. PICK j \in NewPlaces(w) : r = Payload(w, j) /\ DeviceOf[Payload(w, j)] = d
      BY Zenon, <2>2 DEF NewReadings
    <3>2. \/ RecordedAt[Payload(w, j)] < RecordedAt[Payload(w, i)]
          \/ RecordedAt[Payload(w, j)] = RecordedAt[Payload(w, i)]
      BY Zenon, <1>7, <3>1 DEF IsNewest
    <3>3. RecordedAt[Payload(w, j)] \in Nat /\ RecordedAt[Payload(w, i)] \in Nat
      BY Zenon, <1>4, <1>6
    <3> QED
      BY <3>1, <3>2, <3>3, AtMost, Zenon
  <2> QED
    BY Zenon, <2>1, <2>2
<1>8. ASSUME NEW r \in added
      PROVE  place # {}
  <2>1. PICK k \in NewPlaces(w) : r = Payload(w, k) /\ DeviceOf[Payload(w, k)] = d
    BY Zenon, <1>8 DEF NewReadings
  <2>2. PICK i \in NewPlaces(w) : /\ DeviceOf[Payload(w, i)] = DeviceOf[Payload(w, k)]
                                  /\ IsNewest(w, i)
    BY Zenon, NewestExists
  <2> QED
    BY Zenon, <2>1, <2>2
<1>9. CASE accepted = {}
  <2>1. Upsert(w, d) = latest[d]
    BY Zenon, <1>1, <1>9
  <2>2. ASSUME NEW r \in added
        PROVE  /\ latest[d].version # 0
               /\ RecordedAt[r] <= RecordedAt[latest[d].reading]
    <3>1. PICK i \in place : TRUE
      BY Zenon, <1>8
    <3>2. ~(latest[d].version = 0
              \/ RecordedAt[Payload(w, i)] >= RecordedAt[latest[d].reading])
      BY Zenon, <1>9, <3>1
    <3>3. /\ RecordedAt[r] <= RecordedAt[Payload(w, i)]
          /\ Payload(w, i) \in Readings /\ r \in Readings
      BY Zenon, <1>5, <1>7, <3>1
    <3>4. latest[d].reading \in Readings
      BY Zenon, <1>3, <1>5, <3>2
    <3>5. /\ RecordedAt[r] \in Nat /\ RecordedAt[Payload(w, i)] \in Nat
          /\ RecordedAt[latest[d].reading] \in Nat
      BY Zenon, <1>6, <3>3, <3>4
    <3> HIDE DEF place, accepted, row
    <3> QED
      BY <3>2, <3>3, <3>5, AtMost, Zenon
  <2> HIDE DEF place, accepted, row
  <2> QED
    BY Zenon, <1>3, <2>1, <2>2
<1>10. CASE accepted # {}
  <2>1. chosen \in accepted
    BY Zenon, <1>10
  <2>2. chosen \in place
    BY Zenon, <2>1
  <2>3. latest[d].version = 0
          \/ RecordedAt[Payload(w, chosen)] >= RecordedAt[latest[d].reading]
    BY Zenon, <2>1
  <2>4. /\ Payload(w, chosen) \in added
        /\ \A r \in added : RecordedAt[r] <= RecordedAt[Payload(w, chosen)]
    BY Zenon, <1>7, <2>2
  <2>5. /\ Upsert(w, d).reading = Payload(w, chosen)
        /\ Upsert(w, d).version = latest[d].version + 1
    <3>1. Upsert(w, d) = row
      BY Zenon, <1>1, <1>10
    <3>2. row.reading = Payload(w, chosen) /\ row.version = latest[d].version + 1
      BY Zenon
    <3> HIDE DEF place, accepted, chosen, row
    <3> QED
      BY Zenon, <3>1, <3>2
  <2> HIDE DEF place, accepted, chosen, row
  <2>6. ASSUME NEW r \in mine
        PROVE  RecordedAt[r] <= RecordedAt[Payload(w, chosen)]
    <3>1. /\ latest[d].reading \in mine
          /\ RecordedAt[r] <= RecordedAt[latest[d].reading]
          /\ latest[d].version # 0
      BY <1>3, <2>6
    <3>2. /\ RecordedAt[r] \in Nat /\ RecordedAt[latest[d].reading] \in Nat
          /\ RecordedAt[Payload(w, chosen)] \in Nat
      BY <1>5, <1>6, <2>4, <2>6, <3>1
    <3> QED
      BY <2>3, <3>1, <3>2, AtMost, Zenon
  <2>7. Upsert(w, d).version # 0
    BY <1>2, <2>5, AtMost, Zenon
  <2> QED
    BY <2>4, <2>5, <2>6, <2>7, Zenon
<1> QED
  BY Zenon, <1>9, <1>10

\* Whatever order readings arrive in, however they are batched, repeated, retried
\* or raced by other workers, the row of a device in device_telemetry_latest is
\* the latest of its processed readings.
THEOREM LatestTheorem == Spec => []LatestIsNewest
<1>1. Init => RowInv
  <2> SUFFICES ASSUME Init PROVE RowInv
    OBVIOUS
  <2>1. latest = [d \in Devices |-> NoRow] /\ processed = {}
    BY Zenon DEF Init
  <2>2. NoRow.version = 0
    BY Zenon DEF NoRow
  <2>3. \A d \in Devices : latest[d].version = 0
    BY Zenon, <2>1, <2>2
  <2> QED
    BY <2>1, <2>3 DEF RowInv, LatestIsNewest
<1>2. RowInv /\ LogInv /\ [Next]_vars => RowInv'
  <2> SUFFICES ASSUME RowInv, LogInv, [Next]_vars
               PROVE  RowInv'
    OBVIOUS
  <2>1. ASSUME NEW w \in Workers, Transaction(w)
        PROVE  RowInv'
    <3>1. /\ processed' = processed \cup NewReadings(w)
          /\ latest' = [d \in Devices |-> Upsert(w, d)]
      BY Zenon, <2>1 DEF Transaction
    <3>2. NewReadings(w) \subseteq Readings
      BY Zenon, BatchOfReadings
    <3>3. \A d \in Devices : Upsert(w, d).version \in Nat
      BY Zenon, UpsertVersion DEF RowInv
    <3>4. ASSUME NEW d \in Devices
          PROVE  LET mine == {r \in processed' : DeviceOf[r] = d} IN
                 IF Upsert(w, d).version = 0 THEN mine = {}
                 ELSE /\ Upsert(w, d).reading \in mine
                      /\ \A r \in mine : RecordedAt[r] <= RecordedAt[Upsert(w, d).reading]
      <4> DEFINE old == {r \in processed : DeviceOf[r] = d}
                 added == {r \in NewReadings(w) : DeviceOf[r] = d}
                 mine == {r \in processed' : DeviceOf[r] = d}
      <4>1. mine = old \cup added
        BY Zenon, <3>1
      <4>2. IF Upsert(w, d).version = 0 THEN old \cup added = {}
            ELSE /\ Upsert(w, d).reading \in old \cup added
                 /\ \A r \in old \cup added :
                       RecordedAt[r] <= RecordedAt[Upsert(w, d).reading]
        BY Zenon, UpsertKeepsNewest
      <4> HIDE DEF old, added
      <4> QED
        BY Zenon, <4>1, <4>2
    <3> QED
      BY Zenon, <3>1, <3>2, <3>3, <3>4 DEF RowInv, LatestIsNewest
  <2>2. CASE UNCHANGED <<processed, latest>>
    BY <2>2 DEF RowInv, LatestIsNewest
  <2>3. ASSUME NEW w \in Workers,
               Receive(w) \/ Flush(w) \/ WriteCache(w) \/ DeadLetter(w) \/ CommitBatch(w)
                 \/ TransactionFails(w)
        PROVE  UNCHANGED <<processed, latest>>
    BY Zenon, <2>3 DEF Receive, Flush, WriteCache, DeadLetter, CommitBatch, TransactionFails, storeVars
  <2>4. CASE \/ \E r \in Readings : Produce(r)
             \/ \E d \in Devices : ExpireCache(d)
             \/ FetchMessage \/ FetchError \/ Shutdown \/ Restart \/ Crash \/ UNCHANGED vars
    <3>1. UNCHANGED <<processed, latest>>
      BY Zenon, <2>4 DEF Produce, ExpireCache, FetchMessage, FetchError, Shutdown, Restart, Crash, Restarted, vars,
                  storeVars
    <3> QED
      BY Zenon, <2>2, <3>1
  <2> QED
    BY Zenon, <2>1, <2>2, <2>3, <2>4 DEF Next, WorkerStep
<1>3. RowInv => LatestIsNewest
  BY DEF RowInv
<1> QED
  BY <1>1, <1>2, <1>3, LogTheorem, PTL DEF Spec
====
