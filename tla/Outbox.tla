------------------------------- MODULE Outbox -------------------------------
(***************************************************************************)
(* The transactional outbox of the telemetry-service: business             *)
(* transactions that insert an outbox row, and the OutboxWorkers (one per  *)
(* replica) that publish the rows to Kafka in batches, each batch in one   *)
(* database transaction that holds row locks (FOR UPDATE SKIP LOCKED).     *)
(***************************************************************************)
EXTENDS Integers, FiniteSets

CONSTANTS
    Events,      \* outbox rows that may be inserted
    Workers,     \* OutboxWorker processes
    BatchSize,   \* LIMIT of the select, 10 in the code
    MaxTime,     \* bound: values of created_at
    MaxFaults,   \* bound: failed Kafka writes, database errors and crashes
    MaxLost      \* bound: events with a Kafka write reported good and lost

ASSUME EventsFinite == IsFiniteSet(Events)
ASSUME BoundsAssumption ==
    /\ BatchSize \in Nat \ {0} /\ MaxTime \in Nat \ {0}
    /\ MaxFaults \in Nat /\ MaxLost \in Nat

VARIABLES
    createdAt,  \* created_at of each row, 0 if absent
    published,  \* rows whose committed published_at is set
    topic,      \* copies of each event in its Kafka topic
    batch,      \* per worker: rows selected and locked, still to be sent
    marked,     \* per worker: rows sent and updated in its open transaction
    faults,     \* how many of MaxFaults have happened
    lost        \* events of which a write was reported good and lost

vars == <<createdAt, published, topic, batch, marked, faults, lost>>

Recorded == {e \in Events : createdAt[e] > 0}

TypeOK ==
    /\ createdAt \in [Events -> Nat]
    /\ published \subseteq Recorded
    /\ topic \in [Events -> Nat]
    /\ batch \in [Workers -> SUBSET Recorded]
    /\ marked \in [Workers -> SUBSET Recorded]
    /\ faults \in 0 .. MaxFaults
    /\ lost \subseteq Recorded

Init ==
    /\ createdAt = [e \in Events |-> 0]
    /\ published = {}
    /\ topic = [e \in Events |-> 0]
    /\ batch = [w \in Workers |-> {}]
    /\ marked = [w \in Workers |-> {}]
    /\ faults = 0
    /\ lost = {}

-----------------------------------------------------------------------------
Fault == faults < MaxFaults /\ faults' = faults + 1

\* CreateDeviceService.Execute and RecordTelemetryService.Execute: the business
\* rows and the outbox row are committed together or not at all.  Transactions
\* may commit in another order than that of their created_at.
Record(e) ==
    /\ createdAt[e] = 0
    /\ \E t \in 1 .. MaxTime : createdAt' = [createdAt EXCEPT ![e] = t]
    /\ UNCHANGED <<published, topic, batch, marked, faults, lost>>

Locked(w) == batch[w] \cup marked[w]

\* Variant: rows of transactions that have not committed are read.
AvailableDirty ==
    {e \in Events \ published : \A w \in Workers : e \notin Locked(w)}

\* Unpublished rows that no worker's transaction has locked.
Available == {e \in Recorded \ published : \A w \in Workers : e \notin Locked(w)}

\* Variant: the worker waits until it can fill a batch.
SelectFullBatch(w) ==
    /\ Locked(w) = {}
    /\ \E B \in SUBSET Available :
          /\ Cardinality(B) = BatchSize
          /\ \A e \in B, f \in Available \ B : createdAt[e] <= createdAt[f]
          /\ batch' = [batch EXCEPT ![w] = B]
    /\ UNCHANGED <<createdAt, published, topic, marked, faults, lost>>

\* The select of processBatch: the oldest available rows, up to the limit.
SelectBatch(w) ==
    /\ Locked(w) = {}
    /\ Available # {}
    /\ \E B \in SUBSET Available :
          /\ \/ Cardinality(B) = BatchSize
             \/ B = Available /\ Cardinality(B) <= BatchSize
          /\ \A e \in B, f \in Available \ B : createdAt[e] <= createdAt[f]
          /\ batch' = [batch EXCEPT ![w] = B]
    /\ UNCHANGED <<createdAt, published, topic, marked, faults, lost>>

Rollback(w) ==
    /\ batch' = [batch EXCEPT ![w] = {}]
    /\ marked' = [marked EXCEPT ![w] = {}]

Oldest(e, S) == \A f \in S : createdAt[e] <= createdAt[f]

\* One round of the loop: WriteMessages, then the UPDATE.  The writer asks for
\* no acknowledgement, so a write may be reported good and be lost.
PublishRow(w, e) ==
    /\ e \in batch[w] /\ Oldest(e, batch[w])
    /\ \E stored \in BOOLEAN :
          /\ stored \/ Cardinality(lost \cup {e}) <= MaxLost
          /\ topic' = [topic EXCEPT ![e] = IF stored THEN @ + 1 ELSE @]
          /\ lost' = IF stored THEN lost ELSE lost \cup {e}
    /\ batch' = [batch EXCEPT ![w] = @ \ {e}]
    /\ marked' = [marked EXCEPT ![w] = @ \cup {e}]
    /\ UNCHANGED <<createdAt, published, faults>>

\* The write or the UPDATE failed, with the event in Kafka or not: processBatch
\* returns and its deferred Rollback runs.
PublishFails(w, e) ==
    /\ e \in batch[w] /\ Oldest(e, batch[w])
    /\ Fault
    /\ \E written \in BOOLEAN :
          topic' = [topic EXCEPT ![e] = IF written THEN @ + 1 ELSE @]
    /\ Rollback(w)
    /\ UNCHANGED <<createdAt, published, lost>>

\* Variant: the UPDATE is left out.
CommitNoUpdate(w) ==
    /\ batch[w] = {} /\ marked[w] # {}
    /\ marked' = [marked EXCEPT ![w] = {}]
    /\ UNCHANGED <<createdAt, published, topic, batch, faults, lost>>

CommitBatch(w) ==
    /\ batch[w] = {} /\ marked[w] # {}
    /\ published' = published \cup marked[w]
    /\ marked' = [marked EXCEPT ![w] = {}]
    /\ UNCHANGED <<createdAt, topic, batch, faults, lost>>

\* The process stops, or the commit fails: the transaction is rolled back.
Crash(w) ==
    /\ Locked(w) # {}
    /\ Fault
    /\ Rollback(w)
    /\ UNCHANGED <<createdAt, published, topic, lost>>

WorkerStep(w) ==
    SelectBatch(w) \/ CommitBatch(w) \/ \E e \in Events : PublishRow(w, e)

Next ==
    \/ \E e \in Events : Record(e)
    \/ \E w \in Workers : WorkerStep(w) \/ Crash(w)
                              \/ \E e \in Events : PublishFails(w, e)

Spec == Init /\ [][Next]_vars

\* A worker's ticker keeps calling processBatch.
FairSpec == Spec /\ \A w \in Workers : WF_vars(WorkerStep(w))

-----------------------------------------------------------------------------
\* ADR-002, line 71: "SKIP LOCKED ensures multiple outbox workers don't process
\* same event": a row is in at most one open transaction, and in none once its
\* publication is committed.
RowInOneTransaction ==
    /\ \A v, w \in Workers : v # w => Locked(v) \cap Locked(w) = {}
    /\ \A w \in Workers : Locked(w) \cap published = {}

\* Duplicates come from failures only: each rolled-back transaction can add at
\* most one copy of an event, and a committed one ends its publication.
DuplicatesNeedFailure ==
    \A e \in Events : topic[e] <= 1 + faults

\* A row is marked only when its event is in Kafka or its write was lost there.
MarkedWasSent ==
    \A e \in published \cup UNION {marked[w] : w \in Workers} :
        topic[e] > 0 \/ e \in lost

\* What makes the three inductive: the rows still to be sent and those marked
\* are distinct, and an event that is neither marked nor published has one copy
\* for each failure at most.
OutboxInv ==
    /\ TypeOK /\ RowInOneTransaction /\ MarkedWasSent
    /\ \A w \in Workers : batch[w] \cap marked[w] = {}
    /\ \A e \in Events :
          topic[e] <= IF e \in published \/ \E w \in Workers : e \in marked[w]
                      THEN 1 + faults ELSE faults

\* Whatever rolls a batch back, every recorded row is published in the end, and
\* then its event is in Kafka unless Kafka lost an unacknowledged write of it.
\* The exception is the code's: ADR-002, line 60, promises "Zero event loss
\* under any failure condition".
EventuallySent ==
    \A e \in Events :
        createdAt[e] > 0 ~> e \in published /\ (topic[e] > 0 \/ e \in lost)

\* The outbox implements the abstract specification, lost writes included.
A == INSTANCE AtLeastOnce WITH
        recorded <- Recorded, copies <- topic, dropped <- lost, forgotten <- published
ImplementsAtLeastOnce == A!Spec
====
