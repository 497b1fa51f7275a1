------------------------ MODULE ProvisionSaga_proofs ------------------------
(***************************************************************************)
(* SagaInv holds initially and every step of the telemetry-service, the    *)
(* orchestrator, its recovery worker and the asset-registry preserves it,  *)
(* for every set of devices and partitions, every number of messages in    *)
(* flight, every plan limit and every bound; and what follows from it.     *)
(* Last, the invariant of a provisioning in which nothing fails.           *)
(***************************************************************************)
EXTENDS ProvisionSaga, TLAPS

\* A published event stays published; Append1 adds exactly its own.
LEMMA PublishedAppend1 ==
    ASSUME TypeOK, NEW p \in Partitions, NEW t \in EventTypes, NEW d \in Devices,
           log' = Append1(p, t, d), NEW type \in EventTypes
    PROVE  Published(type)' = Published(type) \cup
                                  (IF type = t THEN {d} ELSE {})
<1> DEFINE e == [type |-> t, device |-> d]
<1>1. log[p] \in Seq(Event) /\ e \in Event
  BY Zenon DEF TypeOK, Event
<1>2. /\ log'[p] = Append(log[p], e)
      /\ \A q \in Partitions : q # p => log'[q] = log[q]
  BY Zenon DEF TypeOK, Append1
<1>3. /\ Len(log'[p]) = Len(log[p]) + 1
      /\ Len(log[p]) \in Nat
      /\ log'[p][Len(log[p]) + 1] = e
      /\ \A i \in 1 .. Len(log[p]) : log'[p][i] = log[p][i]
  BY <1>1, <1>2
<1>4. ASSUME NEW x \in Devices
      PROVE  x \in Published(type)' <=>
                x \in Published(type) \/ (type = t /\ x = d)
  <2> DEFINE f == [type |-> type, device |-> x]
  <2>1. (f = e) <=> (type = t /\ x = d)
    OBVIOUS
  <2>2. x \in Published(type) <=>
           \E q \in Partitions : \E i \in 1 .. Len(log[q]) : log[q][i] = f
    BY Zenon DEF Published
  <2>3. x \in Published(type)' <=>
           \E q \in Partitions : \E i \in 1 .. Len(log'[q]) : log'[q][i] = f
    BY Zenon DEF Published
  <2> HIDE DEF f, e
  <2>4. ASSUME NEW q \in Partitions, NEW i \in 1 .. Len(log'[q]), log'[q][i] = f
        PROVE  f = e \/ \E k \in 1 .. Len(log[q]) : log[q][k] = f
    <3>1. CASE q # p
      BY Zenon, <1>2, <2>4, <3>1
    <3>2. CASE q = p
      BY <1>3, <2>4, <3>2
    <3>3. QED
      BY Zenon, <3>1, <3>2
  <2>5. ASSUME NEW q \in Partitions, NEW i \in 1 .. Len(log[q]), log[q][i] = f
        PROVE  \E k \in 1 .. Len(log'[q]) : log'[q][k] = f
    <3>1. CASE q # p
      BY Zenon, <1>2, <2>5, <3>1
    <3>2. CASE q = p
      BY <1>3, <2>5, <3>2
    <3>3. QED
      BY Zenon, <3>1, <3>2
  <2>6. ASSUME f = e
        PROVE  \E k \in 1 .. Len(log'[p]) : log'[p][k] = f
    BY <1>3, <2>6
  <2>7. QED
    BY Zenon, <2>1, <2>2, <2>3, <2>4, <2>5, <2>6
<1>5. Published(type) \subseteq Devices /\ Published(type)' \subseteq Devices
  BY Zenon DEF Published
<1>6. QED
  BY Zenon, <1>4, <1>5

\* The log is append-only, so a job's message is what it was.
LEMMA MessageAppend1 ==
    ASSUME TypeOK, NEW p \in Partitions, NEW t \in EventTypes, NEW d \in Devices,
           log' = Append1(p, t, d)
    PROVE  /\ log' \in [Partitions -> Seq(Event)]
           /\ \A q \in Partitions :
                 /\ Len(log[q]) \in Nat /\ Len(log'[q]) \in Nat
                 /\ Len(log[q]) <= Len(log'[q])
                 /\ \A i \in 1 .. Len(log[q]) : log'[q][i] = log[q][i]
<1> DEFINE e == [type |-> t, device |-> d]
<1>1. log \in [Partitions -> Seq(Event)] /\ e \in Event
  BY Zenon DEF TypeOK, Event
<1>2. log' = [log EXCEPT ![p] = Append(log[p], e)]
  BY Zenon DEF Append1
<1> HIDE DEF e
<1>3. QED
  BY <1>1, <1>2

\* What is published depends on the log only.
LEMMA PublishedSame ==
    ASSUME UNCHANGED log
    PROVE  \A type \in EventTypes : Published(type)' = Published(type)
BY Zenon DEF Published

\* What is being answered depends on the asset-registry only.
LEMMA AnsweringSame ==
    ASSUME UNCHANGED asset
    PROVE  \A type \in EventTypes : Answering(type)' = Answering(type)
BY Zenon DEF Answering

\* What the sets of the invariant range over.
LEMMA PublishedType ==
    ASSUME TypeOK
    PROVE  \A type \in EventTypes : /\ Published(type) \subseteq Devices
                                    /\ Answering(type) \subseteq Devices
BY DEF TypeOK, Published, Answering, Handling, Command

\* The counters of the bounds stay natural numbers.
LEMMA UsedType ==
    ASSUME TypeOK, NEW ok \in BOOLEAN, MayFail(ok)
    PROVE  used' \in [Bounds -> Nat]
<1>1. CASE ok
  BY Zenon, <1>1 DEF TypeOK, MayFail
<1>2. CASE ~ok
  BY <1>2 DEF TypeOK, MayFail, Spend, Failure, Bounds
<1>3. QED
  BY Zenon, <1>1, <1>2

\* The initial state satisfies all of the invariant but the count.
LEMMA InitOthers ==
    ASSUME Init
    PROVE  /\ TypeOK /\ EventsInv /\ RowsInv /\ CommandsInv /\ JobsInv /\ StuckInv
           /\ devices \cap (Published("quota_allocated_v1") \cup
                            Answering("quota_allocated_v1")) = {}
<1>1. TypeOK
  BY DEF Init, TypeOK, NoSaga, SagaRow, Statuses, Steps, Bounds
<1>2. \A type \in EventTypes : Published(type) = {} /\ Answering(type) = {}
  BY DEF Init, Published, Answering
<1>3. \A d \in Devices : ~Exists(d)
  BY Zenon DEF Init, Exists, NoSaga
<1>4. EventsInv /\ RowsInv
  BY <1>2, <1>3 DEF Init, EventsInv, RowsInv, EventTypes, Answers,
     OutcomeWasDecided, DeletedWasRefused, NoSaga
<1>5. CommandsInv /\ JobsInv /\ StuckInv
  BY DEF Init, CommandsInv, JobsInv, StuckInv
<1>6. devices = {}
  BY Zenon DEF Init
<1>7. QED
  BY Zenon, <1>1, <1>4, <1>5, <1>6

\* Steps that touch neither the log nor the registry keep the quota.
LEMMA QuotaSame ==
    ASSUME QuotaInv, UNCHANGED <<log, asset, devices>>
    PROVE  QuotaInv'
BY Zenon, PublishedSame, AnsweringSame DEF QuotaInv, EventTypes, Answers

\* CreateDevice preserves the invariant.
LEMMA CreateDeviceInv ==
    ASSUME SagaInv, NEW d \in Devices, CreateDevice(d)
    PROVE  SagaInv'
<1> USE DEF CreateDevice, SagaInv
<1>1. TypeOK'
  BY DEF TypeOK, Spend, Failure, Bounds, consumerVars
<1>2. /\ \A type \in EventTypes : Published(type)' = Published(type)
      /\ \A type \in EventTypes : Answering(type)' = Answering(type)
  BY Zenon, PublishedSame, AnsweringSame
<1>3. /\ d \notin Published("tenant_detached_v1")
      /\ d \notin Answering("tenant_detached_v1")
  BY Zenon DEF EventsInv
<1>4. EventsInv'
  BY Zenon, <1>2, <1>3 DEF EventsInv, TypeOK, Exists, EventTypes, Answers
<1>5. CommandsInv' /\ StuckInv'
  BY Zenon, <1>2 DEF CommandsInv, StuckInv, Exists, EventTypes, Answers
<1>6. JobsInv'
  BY Zenon DEF JobsInv, Exists, Message, consumerVars
<1>7. RowsInv'
  BY Zenon, <1>2 DEF RowsInv, OutcomeWasDecided, DeletedWasRefused, EventTypes, Answers
<1>8. QuotaInv'
  <2>1. d \in Published("quota_allocated_v1") \cup
             Answering("quota_allocated_v1") => d \in devices
    BY Zenon DEF EventsInv, EventTypes, Answers
  <2>2. (devices \cap (Published("quota_allocated_v1") \cup
                       Answering("quota_allocated_v1")))'
           = devices \cap (Published("quota_allocated_v1") \cup
                           Answering("quota_allocated_v1"))
    BY Zenon, <1>2, <2>1 DEF EventTypes, Answers
  <2>3. QED
    BY Zenon, <2>2 DEF QuotaInv
<1>9. QED
  BY Zenon, <1>1, <1>4, <1>5, <1>6, <1>7, <1>8

\* RecordTelemetry preserves the invariant.
LEMMA RecordTelemetryInv ==
    ASSUME SagaInv, NEW d \in Devices, RecordTelemetry(d)
    PROVE  SagaInv'
<1> USE DEF RecordTelemetry, SagaInv
<1>1. TypeOK'
  BY Zenon DEF TypeOK, consumerVars
<1>2. /\ \A type \in EventTypes : Published(type)' = Published(type)
      /\ \A type \in EventTypes : Answering(type)' = Answering(type)
  BY Zenon, PublishedSame, AnsweringSame
<1>3. EventsInv' /\ CommandsInv' /\ StuckInv'
  BY Zenon, <1>2 DEF EventsInv, CommandsInv, StuckInv, Exists, EventTypes, Answers
<1>4. JobsInv'
  BY Zenon DEF JobsInv, Exists, Message, consumerVars
<1>5. RowsInv'
  BY Zenon, <1>2 DEF RowsInv, OutcomeWasDecided, DeletedWasRefused, EventTypes, Answers
<1>6. QED
  BY Zenon, <1>1, <1>3, <1>4, <1>5, QuotaSame

\* An append keeps the invariant if what it says is so.  This covers the three
\* places that write to device.events.
LEMMA AppendKeeps ==
    ASSUME SagaInv, NEW p \in Partitions, NEW t \in EventTypes, NEW d \in Devices,
           log' = Append1(p, t, d),
           UNCHANGED <<devices, created, sagas, fetched, committed, jobs, stuck>>
    PROVE  /\ \A type \in EventTypes : Published(type) \subseteq Published(type)'
           /\ \A type \in EventTypes :
                 Published(type)' \subseteq Published(type)
                     \cup (IF type = t THEN {d} ELSE {})
           /\ JobsInv' /\ StuckInv' /\ RowsInv'
<1> USE DEF SagaInv
<1>1. \A type \in EventTypes : Published(type)' = Published(type) \cup
                                   (IF type = t THEN {d} ELSE {})
  BY Zenon, PublishedAppend1
<1>2. \A type \in EventTypes : Published(type) \subseteq Published(type)'
  BY Zenon, <1>1
<1>3. \A j \in jobs : /\ Message(j)' = Message(j)
                      /\ j.off \in 1 .. Len(log[j.part])
                      /\ j.off \in 1 .. Len(log'[j.part])
  <2> SUFFICES ASSUME NEW j \in jobs
               PROVE  /\ Message(j)' = Message(j)
                      /\ j.off \in 1 .. Len(log[j.part])
                      /\ j.off \in 1 .. Len(log'[j.part])
    OBVIOUS
  <2>1. j.part \in Partitions /\ j.off \in Nat
    BY Zenon DEF TypeOK, Job
  <2>2. j.off \in 1 .. Len(log[j.part])
    BY Zenon DEF JobsInv
  <2>3. QED
    BY <2>1, <2>2, MessageAppend1 DEF Message
<1>4. \A q \in Partitions : fetched[q] <= Len(log'[q])
                               /\ committed[q] <= Len(log'[q])
  <2>1. \A q \in Partitions : /\ Len(log[q]) \in Nat /\ Len(log'[q]) \in Nat
                              /\ Len(log[q]) <= Len(log'[q])
    BY Zenon, MessageAppend1
  <2>2. \A q \in Partitions : /\ fetched[q] \in Nat /\ committed[q] \in Nat
                              /\ fetched[q] <= Len(log[q])
                              /\ committed[q] <= Len(log[q])
    BY Zenon DEF JobsInv, TypeOK
  <2>3. QED
    BY <2>1, <2>2
<1>5. JobsInv'
  BY Zenon, <1>3, <1>4 DEF JobsInv, Exists
<1>6. StuckInv'
  BY Zenon, <1>2 DEF StuckInv, Exists, EventTypes, Answers
<1>7. RowsInv'
  BY Zenon, <1>2 DEF RowsInv, OutcomeWasDecided, DeletedWasRefused, EventTypes, Answers
<1>8. QED
  BY Zenon, <1>1, <1>2, <1>5, <1>6, <1>7

\* OutboxPublish preserves the invariant.
LEMMA OutboxPublishInv ==
    ASSUME SagaInv, NEW d \in Devices, OutboxPublish(d)
    PROVE  SagaInv'
<1> USE DEF SagaInv
<1>1. PICK p \in Partitions, marked \in BOOLEAN :
          /\ MayFail(marked)
          /\ log' = Append1(p, "device_created_v1", d)
          /\ outbox' = [outbox EXCEPT ![d] = IF marked THEN @ - 1 ELSE @]
  BY Zenon DEF OutboxPublish
<1>2. UNCHANGED <<devices, created, readings, sagas, fetched, committed, dlq,
                  jobs, commands, asset, stuck>>
  BY Zenon DEF OutboxPublish, consumerVars
<1>3. "device_created_v1" \in EventTypes
  BY Zenon DEF EventTypes
<1>4. /\ \A type \in EventTypes : Published(type) \subseteq Published(type)'
      /\ \A type \in EventTypes :
            Published(type)' \subseteq Published(type)
                \cup (IF type = "device_created_v1" THEN {d} ELSE {})
      /\ JobsInv' /\ StuckInv' /\ RowsInv'
  BY Zenon, <1>1, <1>2, <1>3, AppendKeeps
<1>5. \A type \in EventTypes : Answering(type)' = Answering(type)
  BY Zenon, <1>2, AnsweringSame
<1>6. log' \in [Partitions -> Seq(Event)]
  BY Zenon, <1>1, <1>3, MessageAppend1
<1>7. TypeOK'
  <2>1. used' \in [Bounds -> Nat]
    BY Zenon, <1>1, UsedType
  <2>2. outbox' \in [Devices -> Nat] /\ outbox[d] > 0
    BY <1>1 DEF TypeOK, OutboxPublish
  <2>3. QED
    BY Zenon, <1>2, <1>6, <2>1, <2>2 DEF TypeOK
<1>8. \A type \in Answers : Published(type)' = Published(type)
  <2> TAKE type \in Answers
  <2>1. type \in EventTypes /\ type # "device_created_v1"
    BY Zenon DEF EventTypes, Answers
  <2>2. /\ Published(type) \subseteq Published(type)'
        /\ Published(type)' \subseteq Published(type) \cup {}
    BY Zenon, <1>4, <2>1
  <2>3. QED
    BY Zenon, <2>2
<1>9. EventsInv'
  <2>1. d \in created
    BY Zenon DEF EventsInv, OutboxPublish
  <2>2. \A x \in Devices : outbox'[x] > 0 => outbox[x] > 0
    BY Zenon, <1>1 DEF TypeOK, OutboxPublish
  <2>3. QED
    BY Zenon, <1>2, <1>4, <1>5, <1>8, <2>1, <2>2 DEF EventsInv, Exists, EventTypes,
       Answers
<1>10. CommandsInv'
  BY Zenon, <1>2, <1>8 DEF CommandsInv, Exists, EventTypes, Answers
<1>11. QuotaInv'
  BY Zenon, <1>2, <1>5, <1>8 DEF QuotaInv, EventTypes, Answers
<1>12. QED
  BY Zenon, <1>4, <1>7, <1>9, <1>10, <1>11

-----------------------------------------------------------------------------
\* The orchestrator writes neither the log nor the registry: what remains to
\* be shown of a step of its handlers is about the variables it does write.
LEMMA OrchestratorKeeps ==
    ASSUME SagaInv, UNCHANGED <<telemetryVars, log, asset>>,
           \A d \in Devices : Exists(d) => Exists(d)',
           \A d \in Devices : Exists(d)' => d \in created
    PROVE  /\ \A type \in EventTypes : Published(type)' = Published(type)
           /\ EventsInv' /\ QuotaInv'
           /\ UNCHANGED commands => CommandsInv'
           /\ stuck' \subseteq stuck => StuckInv'
           /\ UNCHANGED sagas => RowsInv'
<1> USE DEF SagaInv, telemetryVars
<1>1. /\ \A type \in EventTypes : Published(type)' = Published(type)
      /\ \A type \in EventTypes : Answering(type)' = Answering(type)
  BY Zenon, PublishedSame, AnsweringSame
<1>2. \A type \in EventTypes : /\ Published(type) \subseteq Devices
                               /\ Answering(type) \subseteq Devices
  BY Zenon, PublishedType
<1>3. EventsInv'
  BY Zenon, <1>1, <1>2 DEF EventsInv, EventTypes, Answers
<1>4. UNCHANGED commands => CommandsInv'
  BY Zenon, <1>1 DEF CommandsInv, EventTypes, Answers, Command
<1>5. stuck' \subseteq stuck => StuckInv'
  BY Zenon, <1>1 DEF StuckInv, EventTypes, Answers, TypeOK
<1>6. UNCHANGED sagas => RowsInv'
  BY Zenon, <1>1 DEF RowsInv, OutcomeWasDecided, DeletedWasRefused, EventTypes, Answers
<1>7. QED
  BY Zenon, <1>1, <1>3, <1>4, <1>5, <1>6, QuotaSame

\* A job moves on to a statement whose precondition holds.
LEMMA JobMoves ==
    ASSUME SagaInv, UNCHANGED <<log, fetched, committed>>,
           \A d \in Devices : Exists(d) => Exists(d)',
           NEW j \in jobs, NEW k \in Job, k.part = j.part, k.off = j.off,
           Replace(j, k),
           k.pc = "create" => Message(j).type = "device_created_v1",
           k.pc \in {"publish", "markFailed", "update"} =>
               Exists(Message(j).device)',
           k.pc \in {"publish", "markFailed"} =>
               Message(j).type \in DOMAIN CommandFor
    PROVE  JobsInv' /\ jobs' \subseteq Job
<1> USE DEF SagaInv
<1>1. /\ Message(k)' = Message(j)
      /\ k.off \in 1 .. Len(log[k.part])
  BY Zenon DEF Message, JobsInv
<1>2. \A i \in jobs : /\ Message(i)' = Message(i)
                      /\ Message(i).device \in Devices
  <2> SUFFICES ASSUME NEW i \in jobs
               PROVE  Message(i)' = Message(i) /\ Message(i).device \in Devices
    OBVIOUS
  <2>1. /\ log[i.part] \in Seq(Event) /\ i.off \in 1 .. Len(log[i.part])
    BY Zenon DEF TypeOK, JobsInv, Job
  <2>2. log[i.part][i.off] \in Event
    BY <2>1
  <2>3. QED
    BY Zenon, <2>2 DEF Message, Event
<1>3. jobs' \subseteq jobs \cup {k}
  BY Zenon DEF Replace
<1>4. QED
  BY Zenon, <1>1, <1>2, <1>3 DEF JobsInv, TypeOK

\* The message of a job is an event of the log.
LEMMA MessageType ==
    ASSUME SagaInv, NEW j \in jobs
    PROVE  /\ j \in Job
           /\ Message(j) \in Event
           /\ Message(j).device \in Published(Message(j).type)
<1>1. /\ j \in Job /\ j.part \in Partitions
      /\ log[j.part] \in Seq(Event) /\ j.off \in 1 .. Len(log[j.part])
  BY Zenon DEF SagaInv, TypeOK, JobsInv, Job
<1>2. Message(j) \in Event
  BY <1>1 DEF Message
<1>3. /\ Message(j) = [type |-> Message(j).type, device |-> Message(j).device]
      /\ Message(j).device \in Devices
  BY Zenon, <1>2 DEF Event
<1>4. QED
  BY Zenon, <1>1, <1>2, <1>3 DEF Published, Message

\* Where a failed attempt leads.
LEMMA FailMoves ==
    ASSUME NEW j \in Job
    PROVE  \E k \in Job : /\ k.part = j.part /\ k.off = j.off
                          /\ k.pc \in {"find", "done"}
                          /\ Fail(j) => Replace(j, k)
<1> DEFINE k == IF j.attempt < MaxRetries
                THEN [j EXCEPT !.pc = "find", !.attempt = @ + 1]
                ELSE [j EXCEPT !.pc = "done", !.err = TRUE]
<1>1. k \in Job /\ k.part = j.part /\ k.off = j.off /\ k.pc \in {"find", "done"}
  <2>1. MaxRetries \in Nat /\ j.attempt \in 1 .. MaxRetries
    BY Zenon, BoundsAssumption DEF Job
  <2>2. CASE j.attempt < MaxRetries
    <3>1. k = [j EXCEPT !.pc = "find", !.attempt = @ + 1]
      BY Zenon, <2>2
    <3>2. j.attempt + 1 \in 1 .. MaxRetries
      BY <2>1, <2>2
    <3>3. QED
      BY Zenon, <3>1, <3>2 DEF Job
  <2>3. CASE ~(j.attempt < MaxRetries)
    <3>1. k = [j EXCEPT !.pc = "done", !.err = TRUE]
      BY Zenon, <2>3
    <3>2. QED
      BY Zenon, <3>1 DEF Job
  <2>4. QED
    BY Zenon, <2>2, <2>3
<1>2. QED
  BY Zenon, <1>1 DEF Fail

\* FetchMessage preserves the invariant.
LEMMA FetchMessageInv ==
    ASSUME SagaInv, NEW p \in Partitions, FetchMessage(p)
    PROVE  SagaInv'
<1> USE DEF SagaInv
<1> DEFINE k == [part |-> p, off |-> fetched[p] + 1, pc |-> "find",
                 attempt |-> 1, err |-> FALSE]
<1>1. /\ UNCHANGED <<telemetryVars, sagas, log, committed, dlq, commands,
                     asset, stuck, used>>
      /\ jobs' = jobs \cup {k}
      /\ fetched[p] \in Nat /\ Len(log[p]) \in Nat /\ fetched[p] < Len(log[p])
      /\ fetched' = [fetched EXCEPT ![p] = @ + 1]
  BY DEF FetchMessage, TypeOK
<1>2. k \in Job
  BY <1>1, BoundsAssumption DEF Job
<1>3. TypeOK'
  <2>1. fetched' \in [Partitions -> Nat]
    BY <1>1 DEF TypeOK
  <2> HIDE DEF k
  <2>2. QED
    BY Zenon, <1>1, <1>2, <2>1 DEF TypeOK, telemetryVars
<1>4. JobsInv'
  <2>1. k.off \in 1 .. Len(log[k.part])
    BY <1>1
  <2>2. \A q \in Partitions : fetched'[q] <= Len(log[q])
    BY <1>1 DEF TypeOK, JobsInv
  <2>3. k.pc = "find" /\ k.part = p
    OBVIOUS
  <2> HIDE DEF k
  <2>4. UNCHANGED <<log, sagas, committed>>
    BY Zenon, <1>1
  <2>5. \A i \in jobs' : i \in jobs \/ i = k
    BY Zenon, <1>1
  <2>6. \A i \in jobs' :
          /\ i.off \in 1 .. Len(log[i.part])
          /\ i.pc = "create" => Message(i).type = "device_created_v1"
          /\ i.pc \in {"publish", "markFailed", "update"} =>
                Exists(Message(i).device)
          /\ i.pc \in {"publish", "markFailed"} =>
                Message(i).type \in DOMAIN CommandFor
    <3> TAKE i \in jobs'
    <3>1. CASE i = k BY Zenon, <3>1, <2>1, <2>3
    <3>2. CASE i \in jobs BY Zenon, <3>2 DEF JobsInv
    <3>3. QED BY Zenon, <2>5, <3>1, <3>2
  <2>7. \A i : Message(i)' = Message(i) BY Zenon, <2>4 DEF Message
  <2>8. \A d : Exists(d)' = Exists(d) BY Zenon, <2>4 DEF Exists
  <2>9. \A q \in Partitions : fetched'[q] <= Len(log'[q])
                                  /\ committed'[q] <= Len(log'[q])
    BY Zenon, <2>2, <2>4 DEF JobsInv
  <2>10. QED
    BY Zenon, <2>4, <2>6, <2>7, <2>8, <2>9 DEF JobsInv
<1>5. QED
  BY Zenon, <1>1, <1>3, <1>4, OrchestratorKeeps DEF Exists, EventsInv

\* FindSaga preserves the invariant.
LEMMA FindSagaInv ==
    ASSUME SagaInv, NEW j \in jobs, FindSaga(j)
    PROVE  SagaInv'
<1> USE DEF SagaInv
<1>1. UNCHANGED <<telemetryVars, sagas, log, consumerVars, commands, asset,
                  stuck, used>>
  BY Zenon DEF FindSaga
<1>2. j \in Job /\ Message(j) \in Event
  BY Zenon, MessageType
<1>3. \E k \in Job :
         /\ k.part = j.part /\ k.off = j.off /\ Replace(j, k)
         /\ k.pc = "create" => Message(j).type = "device_created_v1"
         /\ k.pc \in {"publish", "markFailed", "update"} =>
               Exists(Message(j).device)
         /\ k.pc \in {"publish", "markFailed"} =>
               Message(j).type \in DOMAIN CommandFor
  <2> DEFINE Moved(pc) == [j EXCEPT !.pc = pc]
  <2>1. CASE Message(j).type = "device_created_v1" /\ Succeed(j)
    <3> DEFINE k == [j EXCEPT !.pc = "done", !.err = FALSE]
    <3>1. k \in Job /\ k.part = j.part /\ k.off = j.off /\ k.pc = "done"
      BY Zenon, <1>2 DEF Job
    <3>2. QED
      BY Zenon, <2>1, <3>1 DEF Succeed
  <2>2. CASE Message(j).type = "device_created_v1" /\ Goto(j, "create")
    <3>1. Moved("create") \in Job /\ Moved("create").pc = "create"
          /\ Moved("create").part = j.part /\ Moved("create").off = j.off
      BY Zenon, <1>2 DEF Job
    <3>2. QED
      BY Zenon, <2>2, <3>1 DEF Goto
  <2>3. CASE /\ Message(j).type \in Answers /\ Exists(Message(j).device)
             /\ Goto(j, IF Message(j).type \in {"tenant_attached_v1",
                                    "quota_allocation_failed_v1"}
                        THEN "publish" ELSE "update")
    <3>1. CASE Message(j).type \in {"tenant_attached_v1",
                                    "quota_allocation_failed_v1"}
      <4>1. Moved("publish") \in Job /\ Moved("publish").pc = "publish"
            /\ Moved("publish").part = j.part /\ Moved("publish").off = j.off
        BY Zenon, <1>2 DEF Job
      <4>2. Message(j).type \in DOMAIN CommandFor
        BY Zenon, <3>1 DEF CommandFor
      <4>3. QED
        BY Zenon, <2>3, <3>1, <4>1, <4>2 DEF Goto
    <3>2. CASE Message(j).type \notin {"tenant_attached_v1",
                                       "quota_allocation_failed_v1"}
      <4>1. Moved("update") \in Job /\ Moved("update").pc = "update"
            /\ Moved("update").part = j.part /\ Moved("update").off = j.off
        BY Zenon, <1>2 DEF Job
      <4>2. QED
        BY Zenon, <2>3, <3>2, <4>1 DEF Goto
    <3>3. QED
      BY Zenon, <3>1, <3>2
  <2>4. QED
    BY Zenon, <2>1, <2>2, <2>3 DEF FindSaga
<1>4. JobsInv' /\ jobs' \subseteq Job
  <2>1. /\ \A d \in Devices : Exists(d) => Exists(d)'
        /\ Exists(Message(j).device) => Exists(Message(j).device)'
    BY Zenon, <1>1 DEF Exists, Message
  <2>2. UNCHANGED <<log, fetched, committed>>
    BY Zenon, <1>1 DEF consumerVars
  <2>3. QED
    BY Zenon, <1>3, <2>1, <2>2, JobMoves
<1>5. TypeOK'
  BY Zenon, <1>1, <1>4 DEF TypeOK, telemetryVars, consumerVars
<1>6. QED
  BY Zenon, <1>1, <1>4, <1>5, OrchestratorKeeps DEF Exists, EventsInv

\* HandlerError preserves the invariant.
LEMMA HandlerErrorInv ==
    ASSUME SagaInv, NEW j \in jobs, HandlerError(j)
    PROVE  SagaInv'
<1> USE DEF SagaInv
<1>1. /\ UNCHANGED <<telemetryVars, sagas, log, consumerVars, commands, asset,
                     stuck>>
      /\ Fail(j)
      /\ used' \in [Bounds -> Nat]
  BY DEF HandlerError, MayFail, Spend, Failure, TypeOK, Bounds
<1>2. PICK k \in Job : /\ k.part = j.part /\ k.off = j.off
                       /\ k.pc \in {"find", "done"}
                       /\ Replace(j, k)
  BY Zenon, <1>1, FailMoves, MessageType
<1>3. JobsInv' /\ jobs' \subseteq Job
  BY Zenon, <1>1, <1>2, JobMoves DEF Exists, consumerVars
<1>4. TypeOK'
  BY Zenon, <1>1, <1>3 DEF TypeOK, telemetryVars, consumerVars
<1>5. QED
  BY Zenon, <1>1, <1>3, <1>4, OrchestratorKeeps DEF Exists, EventsInv

\* CreateSaga preserves the invariant.
LEMMA CreateSagaInv ==
    ASSUME SagaInv, NEW j \in jobs, CreateSaga(j)
    PROVE  SagaInv'
<1> USE DEF SagaInv
<1>1. UNCHANGED <<telemetryVars, log, consumerVars, commands, asset, stuck,
                  used>>
  BY Zenon DEF CreateSaga
<1> PICK d \in Devices : d = Message(j).device
  BY Zenon, MessageType DEF Event
<1>2. j \in Job /\ d \in created /\ Message(j)' = Message(j)
  BY Zenon, <1>1, MessageType DEF EventsInv, Event, Message
<1>3. CASE Exists(d) /\ Fail(j) /\ UNCHANGED sagas
  <2>1. PICK k \in Job : /\ k.part = j.part /\ k.off = j.off
                         /\ k.pc \in {"find", "done"}
                         /\ Replace(j, k)
    BY Zenon, <1>2, <1>3, FailMoves
  <2>2. JobsInv' /\ jobs' \subseteq Job
    BY Zenon, <1>1, <1>3, <2>1, JobMoves DEF Exists, consumerVars
  <2>3. TypeOK'
    BY Zenon, <1>1, <1>3, <2>2 DEF TypeOK, telemetryVars, consumerVars
  <2>4. QED
    BY Zenon, <1>1, <1>3, <2>2, <2>3, OrchestratorKeeps DEF Exists, EventsInv
<1>4. CASE /\ ~Exists(d)
           /\ sagas' = [sagas EXCEPT ![d] = [NoSaga EXCEPT !.status = "STARTED"]]
           /\ Goto(j, "publish")
  <2>1. /\ sagas' \in [Devices -> SagaRow]
        /\ sagas'[d].status = "STARTED"
        /\ \A x \in Devices : x # d => sagas'[x] = sagas[x]
    BY Zenon, <1>2, <1>4 DEF TypeOK, NoSaga, SagaRow, Statuses, Steps
  <2>2. /\ Exists(d)'
        /\ \A x \in Devices : Exists(x) => Exists(x)'
        /\ \A x \in Devices : Exists(x)' => x \in created
    BY Zenon, <1>2, <2>1 DEF Exists, EventsInv
  <2> DEFINE k == [j EXCEPT !.pc = "publish"]
  <2>3. /\ k \in Job /\ k.part = j.part /\ k.off = j.off /\ k.pc = "publish"
        /\ Replace(j, k)
    BY Zenon, <1>2, <1>4 DEF Job, Goto
  <2>4. Message(j).type \in DOMAIN CommandFor
    BY Zenon DEF CreateSaga, JobsInv, CommandFor
  <2>5. JobsInv' /\ jobs' \subseteq Job
    <3> HIDE DEF k
    <3>1. Exists(Message(j).device)'
      BY Zenon, <1>2, <2>2
    <3>2. QED
      BY Zenon, <1>1, <2>2, <2>3, <2>4, <3>1, JobMoves DEF consumerVars
  <2>6. TypeOK'
    BY Zenon, <1>1, <2>1, <2>5 DEF TypeOK, telemetryVars, consumerVars
  <2>7. /\ \A type \in EventTypes : Published(type)' = Published(type)
        /\ EventsInv' /\ QuotaInv' /\ CommandsInv' /\ StuckInv'
    BY Zenon, <1>1, <2>2, OrchestratorKeeps
  <2>8. RowsInv'
    BY Zenon, <1>1, <2>1, <2>7 DEF RowsInv, OutcomeWasDecided, DeletedWasRefused,
       EventTypes, Answers, telemetryVars
  <2>9. QED
    BY Zenon, <2>5, <2>6, <2>7, <2>8
<1>5. QED
  BY Zenon, <1>3, <1>4 DEF CreateSaga

\* A job reaches a command only with the event that calls for it.
LEMMA PublishInv ==
    ASSUME SagaInv, NEW j \in jobs, Publish(j)
    PROVE  SagaInv'
<1> USE DEF SagaInv
<1> DEFINE m == Message(j)
           cmd == [type |-> CommandFor[m.type], device |-> m.device,
                   tenant |-> TRUE]
<1>1. PICK delivered \in BOOLEAN, reported \in BOOLEAN :
          /\ MayFail(delivered /\ reported)
          /\ commands' = [commands EXCEPT ![cmd] = IF delivered THEN @ + 1
                                                                ELSE @]
          /\ Goto(j, IF reported THEN "update" ELSE "markFailed")
  BY Zenon DEF Publish
<1>2. UNCHANGED <<telemetryVars, sagas, log, consumerVars, asset, stuck>>
  BY Zenon DEF Publish
<1>3. /\ j \in Job /\ m \in Event /\ m.device \in Devices
      /\ m.device \in Published(m.type)
      /\ m.type \in DOMAIN CommandFor /\ Exists(m.device)
      /\ m.type \in {"device_created_v1", "tenant_attached_v1",
                     "quota_allocation_failed_v1"}
  BY Zenon, MessageType DEF Publish, JobsInv, Event, CommandFor
<1>4. /\ cmd \in Command
      /\ cmd.device = m.device
      /\ cmd.type = "tenant.detach_device" =>
            m.type = "quota_allocation_failed_v1"
  BY <1>3 DEF CommandFor, Command, CommandTypes
<1>5. PICK k \in Job : /\ k.part = j.part /\ k.off = j.off /\ Replace(j, k)
                       /\ k.pc \in {"update", "markFailed"}
  <2>1. \A pc \in {"update", "markFailed"} :
           LET k == [j EXCEPT !.pc = pc]
           IN  k \in Job /\ k.part = j.part /\ k.off = j.off /\ k.pc = pc
    BY Zenon, <1>3 DEF Job
  <2>2. PICK pc \in {"update", "markFailed"} : Goto(j, pc)
    BY Zenon, <1>1
  <2>3. QED
    BY Zenon, <2>1, <2>2 DEF Goto
<1>6. JobsInv' /\ jobs' \subseteq Job
  <2>1. /\ \A d \in Devices : Exists(d) => Exists(d)'
        /\ Exists(Message(j).device)'
    BY Zenon, <1>2, <1>3 DEF Exists, Message
  <2>2. UNCHANGED <<log, fetched, committed>>
    BY Zenon, <1>2 DEF consumerVars
  <2>3. QED
    BY Zenon, <1>3, <1>5, <2>1, <2>2, JobMoves
<1> HIDE DEF cmd, m
<1>7. TypeOK'
  <2>1. used' \in [Bounds -> Nat] /\ commands' \in [Command -> Nat]
    <3>1. used' \in [Bounds -> Nat]
      BY Zenon, <1>1, UsedType
    <3>2. commands \in [Command -> Nat]
      BY Zenon DEF TypeOK
    <3>3. PICK n \in Nat : commands' = [commands EXCEPT ![cmd] = n]
      <4>1. commands[cmd] \in Nat /\ commands[cmd] + 1 \in Nat
        BY <1>4, <3>2
      <4>2. QED
        BY Zenon, <1>1, <4>1
    <3>4. commands' \in [Command -> Nat]
      BY Zenon, <3>2, <3>3
    <3>5. QED
      BY Zenon, <3>1, <3>4
  <2>2. QED
    BY Zenon, <1>2, <1>6, <2>1 DEF TypeOK, telemetryVars, consumerVars
<1>8. /\ \A type \in EventTypes : Published(type)' = Published(type)
      /\ EventsInv' /\ QuotaInv' /\ StuckInv' /\ RowsInv'
  BY Zenon, <1>2, OrchestratorKeeps DEF Exists, EventsInv
<1>9. CommandsInv'
  <2>1. \A c \in Command : commands'[c] > 0 => commands[c] > 0 \/ c = cmd
    BY Zenon, <1>1 DEF TypeOK
  <2>2. QED
    BY Zenon, <1>2, <1>3, <1>4, <1>8, <2>1 DEF CommandsInv, Exists, EventTypes, Answers
<1>10. QED
  BY Zenon, <1>6, <1>7, <1>8, <1>9

\* MarkFailed preserves the invariant.
LEMMA MarkFailedInv ==
    ASSUME SagaInv, NEW j \in jobs, MarkFailed(j)
    PROVE  SagaInv'
<1> USE DEF SagaInv
<1>1. UNCHANGED <<telemetryVars, log, consumerVars, commands, asset, stuck>>
  BY Zenon DEF MarkFailed
<1> PICK d \in Devices : d = Message(j).device
  BY MessageType DEF Event
<1>2. j \in Job /\ Exists(d)
  BY Zenon, MessageType DEF JobsInv, MarkFailed
<1>3. PICK ok \in BOOLEAN :
          /\ MayFail(ok)
          /\ sagas' = [sagas EXCEPT ![d] =
                          IF ok THEN [@ EXCEPT !.status = "FAILED",
                                               !.lastError = TRUE]
                                ELSE @]
  BY Zenon DEF MarkFailed
<1>4. /\ sagas' \in [Devices -> SagaRow]
      /\ \A x \in Devices : \/ sagas'[x] = sagas[x]
                            \/ /\ x = d
                               /\ sagas'[x].status = "FAILED"
                               /\ sagas'[x].lastError = TRUE
  <2>1. sagas[d] \in SagaRow
    BY Zenon DEF TypeOK
  <2>2. CASE ok
    BY Zenon, <1>3, <2>1, <2>2 DEF TypeOK, SagaRow, Statuses
  <2>3. CASE ~ok
    BY Zenon, <1>3, <2>1, <2>3 DEF TypeOK
  <2>4. QED
    BY Zenon, <2>2, <2>3
<1>5. /\ \A x \in Devices : Exists(x) => Exists(x)'
      /\ \A x \in Devices : Exists(x)' => x \in created
  BY Zenon, <1>2, <1>4 DEF Exists, EventsInv
<1>6. PICK k \in Job : /\ k.part = j.part /\ k.off = j.off
                       /\ k.pc \in {"find", "done"}
                       /\ Replace(j, k)
  BY Zenon, <1>2, FailMoves DEF MarkFailed
<1>7. JobsInv' /\ jobs' \subseteq Job
  BY Zenon, <1>1, <1>5, <1>6, JobMoves DEF consumerVars
<1>8. TypeOK'
  <2>1. used' \in [Bounds -> Nat]
    BY Zenon, <1>3, UsedType
  <2>2. QED
    BY Zenon, <1>1, <1>4, <1>7, <2>1 DEF TypeOK, telemetryVars, consumerVars
<1>9. /\ \A type \in EventTypes : Published(type)' = Published(type)
      /\ EventsInv' /\ QuotaInv' /\ CommandsInv' /\ StuckInv'
  BY Zenon, <1>1, <1>5, OrchestratorKeeps
<1>10. RowsInv'
  BY Zenon, <1>1, <1>4, <1>9 DEF RowsInv, OutcomeWasDecided, DeletedWasRefused,
     EventTypes, Answers, telemetryVars
<1>11. QED
  BY Zenon, <1>7, <1>8, <1>9, <1>10

\* A row is written on the strength of the event in hand, which is published.
LEMMA UpdateStepStatusInv ==
    ASSUME SagaInv, NEW j \in jobs, UpdateStepStatus(j)
    PROVE  SagaInv'
<1> USE DEF SagaInv
<1>1. UNCHANGED <<telemetryVars, log, consumerVars, commands, asset, stuck,
                  used>>
  BY Zenon DEF UpdateStepStatus
<1> PICK d \in Devices, t \in EventTypes :
        d = Message(j).device /\ t = Message(j).type
  BY Zenon, MessageType DEF Event
<1>2. j \in Job /\ Exists(d) /\ d \in Published(t)
  BY Zenon, MessageType DEF JobsInv, UpdateStepStatus
<1>3. sagas' = [sagas EXCEPT ![d] = [@ EXCEPT !.step = Outcome[t].step,
                                              !.status = Outcome[t].status]]
  BY Zenon DEF UpdateStepStatus
<1>4. /\ Outcome[t].step \in Steps /\ Outcome[t].status \in Statuses
      /\ Outcome[t].status = "COMPLETED" => t = "quota_allocated_v1"
      /\ Outcome[t].status = "COMPENSATING" => t = "quota_allocation_failed_v1"
      /\ Outcome[t].status = "FAILED" => t = "tenant_detached_v1"
  BY DEF Outcome, EventTypes, Answers, Steps, Statuses
<1>5. /\ sagas' \in [Devices -> SagaRow]
      /\ sagas'[d].status = Outcome[t].status
      /\ sagas'[d].lastError = sagas[d].lastError
      /\ \A x \in Devices : x # d => sagas'[x] = sagas[x]
  <2>1. sagas[d] \in SagaRow
    BY Zenon DEF TypeOK
  <2>2. QED
    BY Zenon, <1>3, <1>4, <2>1 DEF TypeOK, SagaRow
<1>6. /\ \A x \in Devices : Exists(x) => Exists(x)'
      /\ \A x \in Devices : Exists(x)' => x \in created
  BY Zenon, <1>2, <1>4, <1>5 DEF Exists, EventsInv, Statuses
<1>7. PICK k \in Job : /\ k.part = j.part /\ k.off = j.off /\ k.pc = "done"
                       /\ Replace(j, k)
  BY Zenon, <1>2 DEF UpdateStepStatus, Succeed, Job
<1>8. JobsInv' /\ jobs' \subseteq Job
  BY Zenon, <1>1, <1>6, <1>7, JobMoves DEF consumerVars
<1>9. TypeOK'
  BY Zenon, <1>1, <1>5, <1>8 DEF TypeOK, telemetryVars, consumerVars
<1>10. /\ \A type \in EventTypes : Published(type)' = Published(type)
       /\ EventsInv' /\ QuotaInv' /\ CommandsInv' /\ StuckInv'
  BY Zenon, <1>1, <1>6, OrchestratorKeeps
<1>11. RowsInv'
  BY Zenon, <1>1, <1>2, <1>4, <1>5, <1>10 DEF RowsInv, OutcomeWasDecided,
     DeletedWasRefused, EventTypes, Answers, telemetryVars
<1>12. QED
  BY Zenon, <1>8, <1>9, <1>10, <1>11

\* CommitResult preserves the invariant.
LEMMA CommitResultInv ==
    ASSUME SagaInv, NEW j \in jobs, CommitResult(j)
    PROVE  SagaInv'
<1> USE DEF SagaInv
<1>1. /\ UNCHANGED <<telemetryVars, sagas, log, fetched, commands, asset, stuck>>
      /\ jobs' = jobs \ {j}
  BY Zenon DEF CommitResult
<1>2. PICK parked \in BOOLEAN, ok \in BOOLEAN :
          /\ MayFail(ok)
          /\ dlq' = IF parked THEN dlq \cup {<<j.part, j.off>>} ELSE dlq
          /\ committed' = IF ok THEN [committed EXCEPT ![j.part] = j.off]
                                ELSE committed
  BY Zenon DEF CommitResult
<1>3. /\ j.part \in Partitions /\ j.off \in Nat /\ j.off <= Len(log[j.part])
  BY MessageType DEF JobsInv, Job
<1>4. /\ used' \in [Bounds -> Nat]
      /\ dlq' \subseteq Partitions \X Nat
      /\ committed' \in [Partitions -> Nat]
  <2>1. used' \in [Bounds -> Nat]
    BY Zenon, <1>2, UsedType
  <2>2. dlq' \subseteq Partitions \X Nat
    BY <1>2, <1>3 DEF TypeOK
  <2>3. committed' \in [Partitions -> Nat]
    BY Zenon, <1>2, <1>3 DEF TypeOK
  <2>4. QED
    BY Zenon, <2>1, <2>2, <2>3
<1>5. TypeOK'
  BY Zenon, <1>1, <1>4 DEF TypeOK, telemetryVars
<1>6. JobsInv'
  <2>1. \A p \in Partitions : committed'[p] <= Len(log[p])
    BY Zenon, <1>2, <1>3 DEF JobsInv, TypeOK
  <2>2. QED
    BY Zenon, <1>1, <2>1 DEF JobsInv, Message, Exists
<1>7. QED
  BY Zenon, <1>1, <1>5, <1>6, OrchestratorKeeps DEF Exists, EventsInv

\* OrchestratorCrash preserves the invariant.
LEMMA OrchestratorCrashInv ==
    ASSUME SagaInv, OrchestratorCrash
    PROVE  SagaInv'
<1> USE DEF SagaInv, OrchestratorCrash
<1>1. TypeOK'
  <2>1. used' \in [Bounds -> Nat]
    BY DEF TypeOK, Spend, Failure, Bounds
  <2>2. QED
    BY Zenon, <2>1 DEF TypeOK, telemetryVars
<1>2. JobsInv'
  BY Zenon DEF JobsInv
<1>3. QED
  BY Zenon, <1>1, <1>2, OrchestratorKeeps DEF Exists, EventsInv

\* Recover preserves the invariant.
LEMMA RecoverInv ==
    ASSUME SagaInv, Recover
    PROVE  SagaInv'
<1> USE DEF SagaInv
<1>1. /\ UNCHANGED <<telemetryVars, sagas, log, consumerVars, jobs, commands,
                     asset>>
      /\ used' \in [Bounds -> Nat]
  <2>1. used \in [Bounds -> Nat] /\ "ticks" \in Bounds
    BY Zenon DEF TypeOK, Bounds
  <2>2. used' = [used EXCEPT !["ticks"] = @ + 1]
    BY Zenon DEF Recover, Spend, Failure
  <2>3. used' \in [Bounds -> Nat]
    BY <2>1, <2>2
  <2>4. QED
    BY Zenon, <2>3 DEF Recover
<1>2. \A s \in stuck' : /\ s \in [device : Devices, row : SagaRow]
                        /\ s.row = sagas[s.device]
                        /\ s.row.status \in {"IN_PROGRESS", "COMPENSATING"}
  BY DEF Recover, TypeOK
<1>3. TypeOK'
  BY Zenon, <1>1, <1>2 DEF TypeOK, telemetryVars, consumerVars
<1>4. /\ \A type \in EventTypes : Published(type)' = Published(type)
      /\ EventsInv' /\ QuotaInv' /\ CommandsInv' /\ RowsInv'
  BY Zenon, <1>1, OrchestratorKeeps DEF Exists, EventsInv
<1>5. JobsInv'
  BY Zenon, <1>1 DEF JobsInv, Exists, Message, consumerVars
<1>6. StuckInv'
  BY Zenon, <1>1, <1>2, <1>4 DEF StuckInv, Exists, RowsInv, OutcomeWasDecided,
     EventTypes, Answers
<1>7. QED
  BY Zenon, <1>3, <1>4, <1>5, <1>6

\* RetryOrCompensate preserves the invariant.
LEMMA RetryOrCompensateInv ==
    ASSUME SagaInv, NEW s \in stuck, RetryOrCompensate(s)
    PROVE  SagaInv'
<1> USE DEF SagaInv
<1>1. /\ UNCHANGED <<telemetryVars, sagas, log, consumerVars, jobs, asset>>
      /\ stuck' = stuck \ {s}
  BY Zenon DEF RetryOrCompensate
<1> DEFINE cmd == RetryCommand(s)
<1>2. PICK delivered \in BOOLEAN :
          /\ MayFail(delivered)
          /\ commands' = [commands EXCEPT ![cmd] = IF delivered THEN @ + 1
                                                                ELSE @]
  BY Zenon DEF RetryOrCompensate
<1>3. /\ cmd \in Command /\ cmd.device = s.device
      /\ cmd.type = "tenant.detach_device" => s.row.status = "COMPENSATING"
  BY Zenon DEF TypeOK, RetryCommand, Command, CommandTypes
<1> HIDE DEF cmd
<1>4. TypeOK'
  <2>1. used' \in [Bounds -> Nat]
    BY Zenon, <1>2, UsedType
  <2>2. commands' \in [Command -> Nat]
    BY <1>2, <1>3 DEF TypeOK
  <2>3. QED
    BY Zenon, <1>1, <2>1, <2>2 DEF TypeOK, telemetryVars, consumerVars
<1>5. /\ \A type \in EventTypes : Published(type)' = Published(type)
      /\ EventsInv' /\ QuotaInv' /\ StuckInv' /\ RowsInv'
  BY Zenon, <1>1, OrchestratorKeeps DEF Exists, EventsInv
<1>6. JobsInv'
  BY Zenon, <1>1 DEF JobsInv, Exists, Message, consumerVars
<1>7. CommandsInv'
  <2>1. \A c \in Command : commands'[c] > 0 => commands[c] > 0 \/ c = cmd
    BY Zenon, <1>2 DEF TypeOK
  <2>2. QED
    BY Zenon, <1>1, <1>3, <1>5, <2>1 DEF CommandsInv, StuckInv, Exists, EventTypes,
       Answers
<1>8. QED
  BY Zenon, <1>4, <1>5, <1>6, <1>7

-----------------------------------------------------------------------------
(* One answer per saga while nothing fails: what a step does to the tokens. *)

\* Nothing has failed, and no recovery round has repeated a command.
Quiet == used["failures"] = 0 /\ used["ticks"] = 0

\* The message at offset i of partition p carries device d's chain on: it is a
\* decision about quota, or the job that will publish its command is to come.
Working(p, i, pcs) == \E j \in jobs : j.part = p /\ j.off = i /\ j.pc \in pcs

Live(d, p, i) ==
    LET m == log[p][i] IN
    /\ m.device = d
    /\ \/ m.type \in {"quota_allocated_v1", "quota_allocation_failed_v1"}
       \/ /\ m.type = "tenant_attached_v1"
          /\ i > fetched[p] \/ Working(p, i, {"find", "publish"})
       \/ m.type = "device_created_v1" /\ Working(p, i, {"publish"})

\* A command and an answer that do.
Forward(cmd, d) ==
    cmd.device = d /\ cmd.type \in {"tenant.attach_device", "quota.allocate_device"}

Deciding(h, d) ==
    /\ h.cmd.device = d /\ h.pc = "publish"
    /\ h.reply \in {"tenant_attached_v1", "quota_allocated_v1", "quota_allocation_failed_v1"}

\* Where the chain from device_created_v1 to the decision about quota has come.
Messages(d) ==
    UNION {{<<"message", p, i>> : i \in {n \in 1 .. Len(log[p]) : Live(d, p, n)}} :
              p \in Partitions}

Commands(d) ==
    UNION {{<<"command", cmd, n>> : n \in 1 .. commands[cmd]} :
              cmd \in {c \in Command : Forward(c, d)}}

Deciders(d) == {<<"answer", h, 0>> : h \in {g \in asset : Deciding(g, d)}}

Tokens(d) == Messages(d) \cup Commands(d) \cup Deciders(d)

\* A message is worked on once.
FetchInv ==
    /\ \A j \in jobs : j.off <= fetched[j.part]
    /\ \A j, k \in jobs : j.part = k.part /\ j.off = k.off => j = k

ChainInv ==
    Quiet => /\ stuck = {} /\ \A j \in jobs : j.pc # "markFailed"
             /\ \A d \in Devices : \A s, t \in Tokens(d) : s = t

\* A handler replaces its job by one for the same message.
LEMMA HandlerReplaces ==
    ASSUME SagaInv, NEW j \in jobs,
           FindSaga(j) \/ CreateSaga(j) \/ Publish(j) \/ MarkFailed(j)
               \/ UpdateStepStatus(j) \/ HandlerError(j)
    PROVE  /\ UNCHANGED <<log, fetched, asset, stuck>>
           /\ \E k \in Job : k.part = j.part /\ k.off = j.off /\ Replace(j, k)
<1>1. j \in Job
  BY Zenon, MessageType
<1>2. UNCHANGED <<log, fetched, asset, stuck>>
  BY Zenon DEF FindSaga, CreateSaga, Publish, MarkFailed, UpdateStepStatus, HandlerError,
         consumerVars
<1>3. \A pc \in {"find", "create", "publish", "markFailed", "update", "done"} :
        /\ [j EXCEPT !.pc = pc] \in Job
        /\ [j EXCEPT !.pc = pc].part = j.part /\ [j EXCEPT !.pc = pc].off = j.off
  BY Zenon, <1>1 DEF Job
<1>4. /\ [j EXCEPT !.pc = "done", !.err = FALSE] \in Job
      /\ [j EXCEPT !.pc = "done", !.err = FALSE].part = j.part
      /\ [j EXCEPT !.pc = "done", !.err = FALSE].off = j.off
  BY Zenon, <1>1 DEF Job
<1>5. Fail(j) \/ Succeed(j) \/
        \E pc \in {"find", "create", "publish", "markFailed", "update", "done"} : Goto(j, pc)
  BY Zenon DEF FindSaga, CreateSaga, Publish, MarkFailed, UpdateStepStatus, HandlerError
<1>6. CASE Fail(j)
  BY Zenon, <1>1, <1>2, <1>6, FailMoves
<1>7. CASE Succeed(j)
  BY Zenon, <1>2, <1>4, <1>7 DEF Succeed
<1>8. CASE \E pc \in {"find", "create", "publish", "markFailed", "update", "done"} : Goto(j, pc)
  BY Zenon, <1>2, <1>3, <1>8 DEF Goto
<1> QED
  BY Zenon, <1>5, <1>6, <1>7, <1>8

\* No message is worked on twice at a time, nor before it was fetched.
LEMMA NextFetchInv == SagaInv /\ FetchInv /\ [Next]_vars => FetchInv'
<1> SUFFICES ASSUME SagaInv, FetchInv, [Next]_vars PROVE FetchInv'
  OBVIOUS
<1>0. jobs \subseteq Job /\ fetched \in [Partitions -> Nat]
  BY Zenon DEF SagaInv, TypeOK
<1>1. \A j \in jobs : j.part \in Partitions /\ j.off \in Nat
  BY Zenon, <1>0 DEF Job
<1>2. CASE UNCHANGED <<jobs, fetched>>
  BY Zenon, <1>2 DEF FetchInv
<1>3. ASSUME NEW p \in Partitions, FetchMessage(p)
      PROVE  FetchInv'
  <2> DEFINE n == [part |-> p, off |-> fetched[p] + 1, pc |-> "find",
                   attempt |-> 1, err |-> FALSE]
  <2>1. fetched' = [fetched EXCEPT ![p] = fetched[p] + 1] /\ jobs' = jobs \cup {n}
    BY Zenon, <1>3 DEF FetchMessage
  <2>2. n.part = p /\ n.off = fetched[p] + 1
    OBVIOUS
  <2> HIDE DEF n
  <2>3. /\ fetched[p] \in Nat /\ fetched'[p] = fetched[p] + 1
        /\ \A q \in Partitions : q # p => fetched'[q] = fetched[q]
    BY Zenon, <1>0, <2>1
  <2>4. \A j \in jobs : j.off <= fetched[j.part] /\ fetched[j.part] \in Nat
    BY Zenon, <1>0, <1>1 DEF FetchInv
  <2>5. \A j \in jobs : j.off <= fetched'[j.part]
    BY <1>1, <2>3, <2>4
  <2>6. \A j \in jobs : j.part = p => j.off # n.off
    BY <1>1, <2>2, <2>3, <2>4
  <2>7. \A j \in jobs' : j.off <= fetched'[j.part]
    BY <2>1, <2>2, <2>3, <2>5
  <2> QED
    BY Zenon, <2>1, <2>2, <2>6, <2>7 DEF FetchInv
<1>4. ASSUME NEW j \in jobs,
             FindSaga(j) \/ CreateSaga(j) \/ Publish(j) \/ MarkFailed(j)
                 \/ UpdateStepStatus(j) \/ HandlerError(j)
      PROVE  FetchInv'
  <2>1. fetched' = fetched
    BY Zenon, <1>4, HandlerReplaces
  <2>2. PICK k \in Job : k.part = j.part /\ k.off = j.off /\ Replace(j, k)
    BY Zenon, <1>4, HandlerReplaces
  <2>3. jobs' = (jobs \ {j}) \cup {k}
    BY Zenon, <2>2 DEF Replace
  <2> QED
    BY <2>1, <2>2, <2>3 DEF FetchInv
<1>5. ASSUME NEW j \in jobs, CommitResult(j)
      PROVE  FetchInv'
  <2>1. fetched' = fetched /\ jobs' = jobs \ {j}
    BY Zenon, <1>5 DEF CommitResult
  <2> QED
    BY Zenon, <2>1 DEF FetchInv
<1>6. CASE OrchestratorCrash
  BY Zenon, <1>6 DEF OrchestratorCrash, FetchInv
<1>7. ASSUME \/ \E d \in Devices : CreateDevice(d) \/ RecordTelemetry(d) \/ OutboxPublish(d)
             \/ Recover \/ \E s \in stuck : RetryOrCompensate(s)
             \/ \E cmd \in Command : AssetStep(cmd)
             \/ \E h \in asset : PublishAnswer(h) \/ CommitCommand(h) \/ AssetCrash(h)
             \/ UNCHANGED vars
      PROVE  UNCHANGED <<jobs, fetched>>
  BY Zenon, <1>7 DEF CreateDevice, RecordTelemetry, OutboxPublish, Recover, RetryOrCompensate,
     AssetStep, HandleAttachDevice, HandleAllocateQuota, HandleDetachDevice, PublishAnswer,
     CommitCommand, AssetCrash, consumerVars, vars
<1> QED
  BY Zenon, <1>2, <1>3, <1>4, <1>5, <1>6, <1>7 DEF Next, HandlerStep

\* Two tokens cannot arise where one is handed over.
LEMMA Handover ==
    ASSUME NEW d, \A s, t \in Tokens(d) : s = t, NEW a \in Tokens(d), NEW b,
           Tokens(d)' \subseteq (Tokens(d) \ {a}) \cup {b}
    PROVE  \A s, t \in Tokens(d)' : s = t
OBVIOUS

\* The parts of a device's chain that a step does not write.
LEMMA TokensSame ==
    ASSUME NEW d
    PROVE  /\ UNCHANGED <<log, fetched, jobs>> => Messages(d)' = Messages(d)
           /\ UNCHANGED commands => Commands(d)' = Commands(d)
           /\ UNCHANGED asset => Deciders(d)' = Deciders(d)
<1>1. UNCHANGED <<log, fetched, jobs>> => Messages(d)' = Messages(d)
  BY DEF Messages, Live, Working
<1>2. UNCHANGED commands => Commands(d)' = Commands(d)
  BY DEF Commands
<1>3. UNCHANGED asset => Deciders(d)' = Deciders(d)
  BY Zenon DEF Deciders
<1> QED
  BY Zenon, <1>1, <1>2, <1>3

\* What the token of a message says.
LEMMA MessageToken ==
    ASSUME NEW d, NEW p \in Partitions, NEW i \in 1 .. Len(log[p])
    PROVE  Live(d, p, i) <=> <<"message", p, i>> \in Messages(d)
BY DEF Messages

\* An event that is appended to the log adds at most its own token.
LEMMA AppendTokens ==
    ASSUME SagaInv, FetchInv, NEW p \in Partitions, NEW t \in EventTypes,
           NEW x \in Devices, log' = Append1(p, t, x), UNCHANGED <<fetched, jobs>>,
           NEW d \in Devices
    PROVE  /\ Messages(d)' \subseteq Messages(d) \cup {<<"message", p, Len(log[p]) + 1>>}
           /\ d # x \/ t \in {"device_created_v1", "tenant_detached_v1"} =>
                 Messages(d)' \subseteq Messages(d)
<1> DEFINE e == [type |-> t, device |-> x]
<1>1. log[p] \in Seq(Event) /\ e \in Event /\ log \in [Partitions -> Seq(Event)]
  BY Zenon DEF SagaInv, TypeOK, Event
<1>2. /\ log'[p] = Append(log[p], e)
      /\ \A q \in Partitions : q # p => log'[q] = log[q]
  BY Zenon, <1>1 DEF Append1
<1>3. /\ Len(log'[p]) = Len(log[p]) + 1
      /\ Len(log[p]) \in Nat
      /\ log'[p][Len(log[p]) + 1] = e
      /\ \A i \in 1 .. Len(log[p]) : log'[p][i] = log[p][i]
  BY <1>1, <1>2
<1>4. ASSUME NEW q \in Partitions, NEW i \in 1 .. Len(log'[q]), Live(d, q, i)'
      PROVE  \/ <<"message", q, i>> \in Messages(d)
             \/ /\ q = p /\ i = Len(log[p]) + 1
                /\ d = x /\ t \notin {"device_created_v1", "tenant_detached_v1"}
  <2>1. CASE q # p \/ i # Len(log[p]) + 1
    <3>1. i \in 1 .. Len(log[q]) /\ log'[q][i] = log[q][i]
      BY <1>2, <1>3, <2>1
    <3>2. Live(d, q, i)
      BY <1>4, <3>1, Zenon DEF Live, Working
    <3> QED
      BY Zenon, <3>1, <3>2, MessageToken
  <2>2. CASE q = p /\ i = Len(log[p]) + 1
    <3>1. log'[q][i].type = t /\ log'[q][i].device = x
      BY <1>3, <2>2
    <3>2. \A j \in jobs : j.part = p => j.off # i
      <4>1. fetched \in [Partitions -> Nat] /\ \A j \in jobs : j.off \in Nat
        BY Zenon DEF SagaInv, TypeOK, Job
      <4>2. fetched[p] <= Len(log[p])
        BY Zenon DEF SagaInv, JobsInv
      <4> QED
        BY <1>3, <2>2, <4>1, <4>2 DEF FetchInv
    <3>3. ~Working(q, i, {"publish"})'
      BY <2>2, <3>2, Zenon DEF Working
    <3> QED
      BY Zenon, <1>4, <2>2, <3>1, <3>3 DEF Live
  <2> QED
    BY Zenon, <2>1, <2>2
<1>5. \A s \in Messages(d)' : \E q \in Partitions : \E i \in 1 .. Len(log'[q]) :
        Live(d, q, i)' /\ s = <<"message", q, i>>
  BY Zenon DEF Messages
<1> QED
  BY <1>4, <1>5

\* Whether a job at pc has yet to publish what its message m leads to.
Carries(m, pc) ==
    \/ m.type \in {"quota_allocated_v1", "quota_allocation_failed_v1"}
    \/ m.type = "tenant_attached_v1" /\ pc \in {"find", "publish"}
    \/ m.type = "device_created_v1" /\ pc = "publish"

\* What a handler's step does to the tokens: only its own message's may come or go.
LEMMA JobTokens ==
    ASSUME SagaInv, FetchInv, NEW j \in jobs, NEW k \in Job, k.part = j.part,
           k.off = j.off, Replace(j, k), UNCHANGED <<log, fetched>>, NEW d \in Devices
    PROVE  /\ Messages(d)' \subseteq Messages(d) \cup {<<"message", j.part, j.off>>}
           /\ Message(j).device # d \/ (Carries(Message(j), k.pc) => Carries(Message(j), j.pc))
                 => Messages(d)' \subseteq Messages(d)
           /\ ~Carries(Message(j), k.pc) => <<"message", j.part, j.off>> \notin Messages(d)'
           /\ Message(j).device = d /\ Carries(Message(j), j.pc)
                 => <<"message", j.part, j.off>> \in Messages(d)
<1> DEFINE p == j.part  i == j.off  m == log[p][i]  tok == <<"message", p, i>>
<1>1. /\ p \in Partitions /\ i \in 1 .. Len(log[p]) /\ i \in Nat
      /\ fetched[p] \in Nat /\ i <= fetched[p]
  BY Zenon DEF SagaInv, TypeOK, JobsInv, FetchInv, Job
<1>2. jobs' = (jobs \ {j}) \cup {k}
  BY Zenon DEF Replace
<1>3. \A pcs : (Working(p, i, pcs) <=> j.pc \in pcs) /\ (Working(p, i, pcs)' <=> k.pc \in pcs)
  BY Zenon, <1>2 DEF Working, FetchInv
<1>4. ~(i > fetched[p])
  BY <1>1
<1>5. \A x : /\ Live(x, p, i) <=> m.device = x /\ Carries(m, j.pc)
             /\ Live(x, p, i)' <=> m.device = x /\ Carries(m, k.pc)
  <2>1. \A x : Live(x, p, i) <=> m.device = x /\ Carries(m, j.pc)
    BY Zenon, <1>3, <1>4 DEF Live, Carries
  <2>2. \A x : Live(x, p, i)' <=> m.device = x /\ Carries(m, k.pc)
    BY Zenon, <1>3, <1>4 DEF Live, Carries
  <2> QED
    BY Zenon, <2>1, <2>2
<1>6. \A q, n, pcs : q # p \/ n # i => (Working(q, n, pcs)' <=> Working(q, n, pcs))
  BY Zenon, <1>2 DEF Working
<1>7. \A q, n : q # p \/ n # i => (Live(d, q, n)' <=> Live(d, q, n))
  BY Zenon, <1>6 DEF Live
<1>8. \A s \in Messages(d)' : \E q \in Partitions : \E n \in 1 .. Len(log[q]) :
        Live(d, q, n)' /\ s = <<"message", q, n>>
  BY Zenon DEF Messages
<1>9. \A s \in Messages(d)' : s = tok \/ s \in Messages(d)
  BY <1>7, <1>8, MessageToken
<1>10. tok \in Messages(d)' <=> Live(d, p, i)'
  <2>1. \A q, n : <<"message", q, n>> = tok => q = p /\ n = i
    OBVIOUS
  <2>2. tok \in Messages(d)' => Live(d, p, i)'
    BY Zenon, <1>8, <2>1
  <2>3. Live(d, p, i)' => tok \in Messages(d)'
    BY <1>1 DEF Messages
  <2> QED
    BY Zenon, <2>2, <2>3
<1>11. tok \in Messages(d) <=> Live(d, p, i)
  BY Zenon, <1>1, MessageToken
<1>12. m = Message(j)
  BY Zenon DEF Message
<1> HIDE DEF m, tok, p, i
<1>13. QED
  <2>1. Messages(d)' \subseteq Messages(d) \cup {tok}
    BY Zenon, <1>9
  <2>2. m.device # d \/ (Carries(m, k.pc) => Carries(m, j.pc)) => Messages(d)' \subseteq Messages(d)
    BY Zenon, <1>5, <1>9, <1>10, <1>11
  <2>3. ~Carries(m, k.pc) => tok \notin Messages(d)'
    BY Zenon, <1>5, <1>10
  <2>4. m.device = d /\ Carries(m, j.pc) => tok \in Messages(d)
    BY Zenon, <1>5, <1>11
  <2> QED
    BY Zenon, <1>12, <2>1, <2>2, <2>3, <2>4 DEF tok, p, i

\* What one more copy of a command does to the tokens, and one less.
LEMMA CommandTokens ==
    ASSUME commands \in [Command -> Nat], NEW c \in Command, NEW d
    PROVE  /\ commands' = [commands EXCEPT ![c] = @ + 1] =>
                 /\ Commands(d)' \subseteq
                       Commands(d) \cup {<<"command", c, commands[c] + 1>>}
                 /\ ~Forward(c, d) => Commands(d)' \subseteq Commands(d)
           /\ commands[c] > 0 /\ commands' = [commands EXCEPT ![c] = @ - 1] =>
                 /\ Commands(d)' \subseteq Commands(d) \ {<<"command", c, commands[c]>>}
                 /\ Forward(c, d) => <<"command", c, commands[c]>> \in Commands(d)
<1>1. \A s \in Commands(d)' : \E x \in Command : \E n \in 1 .. commands'[x] :
        Forward(x, d) /\ s = <<"command", x, n>>
  BY Zenon DEF Commands, Forward
<1>2. \A x \in Command : \A n \in 1 .. commands[x] :
        Forward(x, d) => <<"command", x, n>> \in Commands(d)
  BY DEF Commands
<1>3. ASSUME commands' = [commands EXCEPT ![c] = @ + 1]
      PROVE  /\ Commands(d)' \subseteq Commands(d) \cup {<<"command", c, commands[c] + 1>>}
             /\ ~Forward(c, d) => Commands(d)' \subseteq Commands(d)
  <2>1. /\ commands[c] \in Nat /\ commands'[c] = commands[c] + 1
        /\ \A x \in Command : x # c => commands'[x] = commands[x]
    BY Zenon, <1>3
  <2>2. \A x \in Command : \A n \in 1 .. commands'[x] :
          n \in 1 .. commands[x] \/ (x = c /\ n = commands[c] + 1)
    BY <2>1
  <2> QED
    BY <1>1, <1>2, <2>2
<1>4. ASSUME commands[c] > 0, commands' = [commands EXCEPT ![c] = @ - 1]
      PROVE  /\ Commands(d)' \subseteq Commands(d) \ {<<"command", c, commands[c]>>}
             /\ Forward(c, d) => <<"command", c, commands[c]>> \in Commands(d)
  <2>1. /\ commands[c] \in Nat /\ commands'[c] = commands[c] - 1
        /\ \A x \in Command : x # c => commands'[x] = commands[x]
    BY Zenon, <1>4
  <2>2. \A x \in Command : \A n \in 1 .. commands'[x] :
          n \in 1 .. commands[x] /\ ~(x = c /\ n = commands[c])
    BY <2>1
  <2>3. \A x, n : <<"command", x, n>> = <<"command", c, commands[c]>> =>
          x = c /\ n = commands[c]
    OBVIOUS
  <2>4. commands[c] \in 1 .. commands[c]
    BY <1>4, <2>1
  <2> QED
    BY <1>1, <1>2, <2>2, <2>3, <2>4
<1> QED
  BY Zenon, <1>3, <1>4

\* Tokens of different kinds differ.
LEMMA KindsDiffer ==
    ASSUME NEW d, NEW x, NEW n
    PROVE  /\ <<"message", x, n>> \notin Commands(d)' \cup Deciders(d)'
           /\ <<"command", x, n>> \notin Messages(d)' \cup Deciders(d)'
           /\ <<"answer", x, n>> \notin Messages(d)' \cup Commands(d)'
<1>1. /\ \A s \in Messages(d)' : \E q, i : s = <<"message", q, i>>
      /\ \A s \in Commands(d)' : \E q, i : s = <<"command", q, i>>
      /\ \A s \in Deciders(d)' : \E q, i : s = <<"answer", q, i>>
  BY Zenon DEF Messages, Commands, Deciders
<1>2. \A q, i : /\ <<"message", x, n>> # <<"command", q, i>>
                /\ <<"message", x, n>> # <<"answer", q, i>>
                /\ <<"command", x, n>> # <<"message", q, i>>
                /\ <<"command", x, n>> # <<"answer", q, i>>
                /\ <<"answer", x, n>> # <<"message", q, i>>
                /\ <<"answer", x, n>> # <<"command", q, i>>
  OBVIOUS
<1> QED
  BY Zenon, <1>1, <1>2

One == \A d \in Devices : \A s, t \in Tokens(d) : s = t

\* A device without a saga has no token.
LEMMA NoSagaNoToken ==
    ASSUME SagaInv, NEW d \in Devices, ~Exists(d)
    PROVE  Tokens(d) = {}
<1>1. Messages(d) = {}
  <2> SUFFICES ASSUME NEW p \in Partitions, NEW i \in 1 .. Len(log[p]), Live(d, p, i)
               PROVE  FALSE
    BY Zenon DEF Messages
  <2>1. log[p][i] \in Event /\ log[p][i].device = d
    BY DEF SagaInv, TypeOK, Live
  <2>2. log[p][i] = [type |-> log[p][i].type, device |-> d]
    BY Zenon, <2>1 DEF Event
  <2>3. log[p][i].type \in Answers => d \in Published(log[p][i].type)
    BY Zenon, <2>2 DEF Published
  <2>4. log[p][i].type \notin Answers
    BY Zenon, <2>3 DEF SagaInv, EventsInv
  <2>5. Working(p, i, {"publish"})
    BY Zenon, <2>4 DEF Live, Answers
  <2>6. PICK j \in jobs : j.part = p /\ j.off = i /\ j.pc = "publish"
    BY Zenon, <2>5 DEF Working
  <2> QED
    BY Zenon, <2>1, <2>6 DEF SagaInv, JobsInv, Message
<1>2. Commands(d) = {}
  <2> SUFFICES ASSUME NEW c \in Command, NEW n \in 1 .. commands[c], c.device = d
               PROVE  FALSE
    BY Zenon DEF Commands, Forward
  <2>1. commands[c] \in Nat
    BY Zenon DEF SagaInv, TypeOK
  <2>2. commands[c] > 0
    BY <2>1
  <2> QED
    BY Zenon, <2>2 DEF SagaInv, CommandsInv
<1>3. Deciders(d) = {}
  <2> SUFFICES ASSUME NEW h \in asset, h.cmd.device = d
               PROVE  FALSE
    BY Zenon DEF Deciders, Deciding
  <2>1. h.cmd \in Command
    BY Zenon DEF SagaInv, TypeOK, Handling
  <2> QED
    BY Zenon, <2>1 DEF SagaInv, CommandsInv
<1> QED
  BY Zenon, <1>1, <1>2, <1>3 DEF Tokens

\* Without failures a call goes well.
LEMMA QuietSteps ==
    ASSUME SagaInv, Next, Quiet'
    PROVE  /\ Quiet /\ ~Spend("ticks", MaxTicks) /\ \A kind : ~Failure(kind)
           /\ \A ok \in BOOLEAN : MayFail(ok) => ok
<1>0. used \in [Bounds -> Nat] /\ {"creates", "ticks", "failures"} \subseteq Bounds
  BY Zenon DEF SagaInv, TypeOK, Bounds
<1>1. \A b \in {"ticks", "failures"} : \A max : ~Spend(b, max)
  BY <1>0 DEF Spend, Quiet
<1>2. ~Spend("ticks", MaxTicks) /\ \A kind : ~Failure(kind)
  BY Zenon, <1>1 DEF Failure
<1>3. \A ok : MayFail(ok) => ok /\ used' = used
  BY <1>2, Zenon DEF MayFail
<1>4. CASE \E d \in Devices : CreateDevice(d)
  <2>1. Spend("creates", MaxCreates)
    BY Zenon, <1>4 DEF CreateDevice
  <2>2. used'["ticks"] = used["ticks"] /\ used'["failures"] = used["failures"]
    BY Zenon, <1>0, <2>1 DEF Spend
  <2> QED
    BY Zenon, <1>2, <1>3, <2>2 DEF Quiet
<1>5. ASSUME ~\E d \in Devices : CreateDevice(d) PROVE used' = used
  <2>1. ~(OrchestratorCrash \/ Recover \/ \E h \in asset : AssetCrash(h))
    BY Zenon, <1>2 DEF OrchestratorCrash, Recover, AssetCrash
  <2>2. ASSUME \/ \E d \in Devices : RecordTelemetry(d) \/ OutboxPublish(d)
               \/ \E p \in Partitions : FetchMessage(p)
               \/ \E s \in stuck : RetryOrCompensate(s)
               \/ \E cmd \in Command : AssetStep(cmd)
               \/ \E h \in asset : PublishAnswer(h) \/ CommitCommand(h)
        PROVE  used' = used
    BY Zenon, <1>3, <2>2 DEF RecordTelemetry, OutboxPublish, FetchMessage, RetryOrCompensate,
       AssetStep, HandleAttachDevice, HandleAllocateQuota, HandleDetachDevice,
       PublishAnswer, CommitCommand
  <2>3. ASSUME NEW j \in jobs, HandlerStep(j) \/ HandlerError(j) PROVE used' = used
    BY Zenon, <1>3, <2>3 DEF HandlerStep, FindSaga, CreateSaga, Publish, MarkFailed,
       UpdateStepStatus, CommitResult, HandlerError
  <2> QED
    BY <1>5, <2>1, <2>2, <2>3, Zenon DEF Next
<1> QED
  BY Zenon, <1>2, <1>3, <1>4, <1>5 DEF Quiet

\* Fetching a message keeps its token.
LEMMA FetchTokens ==
    ASSUME SagaInv, NEW p \in Partitions, FetchMessage(p), NEW d
    PROVE  Messages(d)' \subseteq Messages(d)
<1> DEFINE n == [part |-> p, off |-> fetched[p] + 1, pc |-> "find",
                 attempt |-> 1, err |-> FALSE]
<1>1. /\ fetched' = [fetched EXCEPT ![p] = fetched[p] + 1] /\ jobs' = jobs \cup {n}
      /\ log' = log
  BY Zenon DEF FetchMessage
<1>2. n.part = p /\ n.off = fetched[p] + 1 /\ n.pc = "find"
  OBVIOUS
<1> HIDE DEF n
<1>3. \A q \in Partitions : fetched[q] \in Nat /\ fetched'[q] >= fetched[q]
  BY <1>1 DEF SagaInv, TypeOK
<1>4. ASSUME NEW q \in Partitions, NEW i \in 1 .. Len(log[q]), Live(d, q, i)'
      PROVE  Live(d, q, i)
  <2>1. i \in Nat /\ fetched'[q] \in Nat
    BY <1>1, <1>3 DEF SagaInv, TypeOK
  <2>2. i > fetched'[q] => i > fetched[q]
    BY <1>3, <2>1
  <2>3. Working(q, i, {"publish"})' => Working(q, i, {"publish"})
    BY Zenon, <1>1, <1>2 DEF Working
  <2>4. Working(q, i, {"find", "publish"})' => Working(q, i, {"find", "publish"}) \/ i > fetched[q]
    <3>1. n.part = q /\ n.off = i => i > fetched[q]
      BY <1>2, <1>3
    <3> QED
      BY Zenon, <1>1, <3>1 DEF Working
  <2> QED
    BY <1>1, <1>4, <2>2, <2>3, <2>4, Zenon DEF Live
<1>5. \A s \in Messages(d)' : \E q \in Partitions : \E i \in 1 .. Len(log'[q]) :
        Live(d, q, i)' /\ s = <<"message", q, i>>
  BY Zenon DEF Messages
<1> QED
  BY <1>1, <1>4, <1>5, MessageToken

\* A handler that publishes no command hands no token on, and only the one that
\* inserts a saga adds one.
LEMMA HandlerTokens ==
    ASSUME SagaInv, FetchInv, One, NEW j \in jobs, \A ok \in BOOLEAN : MayFail(ok) => ok,
           FindSaga(j) \/ CreateSaga(j) \/ UpdateStepStatus(j) \/ HandlerError(j)
    PROVE  One' /\ \A k \in jobs' : k.pc = "markFailed" => k \in jobs
<1>1. j \in Job /\ Message(j) \in Event
  BY Zenon, MessageType
<1>2. UNCHANGED <<log, fetched, asset, commands>>
  BY Zenon DEF FindSaga, CreateSaga, UpdateStepStatus, HandlerError, consumerVars
<1>3. \A d \in Devices : Tokens(d)' = Messages(d)' \cup Commands(d) \cup Deciders(d)
  BY Zenon, <1>2, TokensSame DEF Tokens
<1>4. ASSUME NEW k \in Job, k.part = j.part, k.off = j.off, Replace(j, k),
             k.pc # "markFailed",
             Carries(Message(j), k.pc) => Carries(Message(j), j.pc)
      PROVE  One' /\ \A i \in jobs' : i.pc = "markFailed" => i \in jobs
  <2>1. \A d \in Devices : Messages(d)' \subseteq Messages(d)
    BY Zenon, <1>2, <1>4, JobTokens
  <2>2. \A d \in Devices : Tokens(d)' \subseteq Tokens(d)
    BY Zenon, <1>3, <2>1 DEF Tokens
  <2>3. jobs' = (jobs \ {j}) \cup {k}
    BY Zenon, <1>4 DEF Replace
  <2> QED
    BY Zenon, <1>4, <2>2, <2>3 DEF One
<1>5. \A pc \in {"create", "publish", "update"} :
        /\ [j EXCEPT !.pc = pc] \in Job /\ [j EXCEPT !.pc = pc].pc = pc
        /\ [j EXCEPT !.pc = pc].part = j.part /\ [j EXCEPT !.pc = pc].off = j.off
  BY Zenon, <1>1 DEF Job
<1> DEFINE ended == [j EXCEPT !.pc = "done", !.err = FALSE]
<1>6. ended \in Job /\ ended.part = j.part /\ ended.off = j.off /\ ended.pc = "done"
  BY Zenon, <1>1 DEF Job
<1>7. Succeed(j) => Replace(j, ended)
  BY Zenon DEF Succeed
<1> HIDE DEF ended
<1>8. PICK failed \in Job : /\ failed.part = j.part /\ failed.off = j.off
                            /\ failed.pc \in {"find", "done"}
                            /\ Fail(j) => Replace(j, failed)
  BY Zenon, <1>1, FailMoves
<1>9. Message(j).type \in Answers \cup {"device_created_v1"}
  BY Zenon, <1>1 DEF Event, EventTypes
<1>10. CASE FindSaga(j)
  <2>1. j.pc = "find"
    BY Zenon, <1>10 DEF FindSaga
  <2>2. CASE Succeed(j)
    BY Zenon, <1>4, <1>6, <1>7, <2>2 DEF Carries
  <2>3. CASE Message(j).type = "device_created_v1" /\ Goto(j, "create")
    BY Zenon, <1>4, <1>5, <2>3 DEF Goto, Carries
  <2>4. CASE \E pc \in {"publish", "update"} : Goto(j, pc) /\ Message(j).type \in Answers
    BY Zenon, <1>4, <1>5, <2>1, <2>4 DEF Goto, Carries, Answers
  <2> QED
    BY Zenon, <1>10, <2>2, <2>3, <2>4 DEF FindSaga
<1>11. CASE CreateSaga(j)
  <2>1. j.pc = "create" /\ Message(j).type = "device_created_v1"
    BY Zenon, <1>11 DEF CreateSaga, SagaInv, JobsInv
  <2>2. CASE Fail(j)
    BY Zenon, <1>4, <1>8, <2>1, <2>2 DEF Carries
  <2>3. CASE ~Exists(Message(j).device) /\ Goto(j, "publish")
    <3> DEFINE tok == <<"message", j.part, j.off>>
    <3>0. PICK x \in Devices : x = Message(j).device
      BY Zenon, <1>1 DEF Event
    <3>1. Tokens(x) = {}
      BY Zenon, <2>3, <3>0, NoSagaNoToken
    <3>2. /\ [j EXCEPT !.pc = "publish"] \in Job
          /\ [j EXCEPT !.pc = "publish"].part = j.part /\ [j EXCEPT !.pc = "publish"].off = j.off
          /\ Replace(j, [j EXCEPT !.pc = "publish"])
      BY Zenon, <1>5, <2>3 DEF Goto
    <3>3. \A d \in Devices :
            /\ Messages(d)' \subseteq Messages(d) \cup {tok}
            /\ d # x => Messages(d)' \subseteq Messages(d)
      BY Zenon, <1>2, <3>0, <3>2, JobTokens
    <3> HIDE DEF tok
    <3>4. \A t \in Tokens(x)' : t = tok
      <4>1. Messages(x) = {} /\ Commands(x) = {} /\ Deciders(x) = {}
        BY <3>1, Zenon DEF Tokens
      <4> QED
        BY Zenon, <1>3, <3>1, <3>3, <4>1
    <3>5. \A d \in Devices : d # x => Tokens(d)' \subseteq Tokens(d)
      <4>1. \A d \in Devices : Tokens(d) = Messages(d) \cup Commands(d) \cup Deciders(d)
        BY Zenon DEF Tokens
      <4> QED
        BY Zenon, <1>3, <3>3, <4>1
    <3>6. One'
      BY Zenon, <3>4, <3>5 DEF One
    <3>7. jobs' = (jobs \ {j}) \cup {[j EXCEPT !.pc = "publish"]}
      BY Zenon, <3>2 DEF Replace
    <3> QED
      BY Zenon, <1>5, <3>6, <3>7
  <2> QED
    BY Zenon, <1>11, <2>2, <2>3 DEF CreateSaga
<1>12. CASE UpdateStepStatus(j)
  <2>1. Succeed(j)
    BY Zenon, <1>12 DEF UpdateStepStatus
  <2> QED
    BY Zenon, <1>4, <1>6, <1>7, <2>1 DEF Carries
<1>13. CASE HandlerError(j)
  <2>1. Fail(j) /\ j.pc = "find"
    BY Zenon, <1>13 DEF HandlerError
  <2> QED
    BY Zenon, <1>4, <1>8, <2>1 DEF Carries
<1> QED
  BY Zenon, <1>10, <1>11, <1>12, <1>13

\* A handler that publishes a command hands its message's token to it.
LEMMA PublishTokens ==
    ASSUME SagaInv, FetchInv, One, NEW j \in jobs, \A ok \in BOOLEAN : MayFail(ok) => ok,
           Publish(j)
    PROVE  One' /\ \A k \in jobs' : k.pc = "markFailed" => k \in jobs
<1> DEFINE m == Message(j)
           cmd == [type |-> CommandFor[m.type], device |-> m.device, tenant |-> TRUE]
           k == [j EXCEPT !.pc = "update"]
           a == <<"message", j.part, j.off>>
<1>1. j \in Job /\ m \in Event /\ j.pc = "publish" /\ m.type \in DOMAIN CommandFor
  BY Zenon, MessageType DEF Publish, SagaInv, JobsInv
<1>2. /\ UNCHANGED <<log, fetched, asset>>
      /\ commands' = [commands EXCEPT ![cmd] = commands[cmd] + 1] /\ Replace(j, k)
  BY Zenon DEF Publish, consumerVars, Goto
<1>3. k \in Job /\ k.part = j.part /\ k.off = j.off /\ k.pc = "update"
  BY Zenon, <1>1 DEF Job
<1>4. m.type \in {"device_created_v1", "tenant_attached_v1", "quota_allocation_failed_v1"}
  BY Zenon, <1>1 DEF CommandFor
<1>5. cmd \in Command /\ cmd.device = m.device /\ cmd.type = CommandFor[m.type]
  BY <1>1, <1>4 DEF CommandFor, Command, CommandTypes, Event
<1>6. commands \in [Command -> Nat]
  BY Zenon DEF SagaInv, TypeOK
<1>7. m.device \in Devices
  BY Zenon, <1>1 DEF Event
<1>8. m.type = "quota_allocation_failed_v1" => cmd.type = "tenant.detach_device"
  BY <1>5 DEF CommandFor
<1> HIDE DEF cmd, k, m
<1>9. \A i \in jobs' : i.pc = "markFailed" => i \in jobs
  BY Zenon, <1>2, <1>3 DEF Replace
<1>10. \A d \in Devices :
         /\ Messages(d)' \subseteq Messages(d)
         /\ ~Carries(m, "update") => a \notin Messages(d)'
         /\ m.device = d /\ Carries(m, "publish") => a \in Messages(d)
  <2>1. Carries(m, k.pc) => Carries(m, j.pc)
    BY Zenon, <1>1, <1>3 DEF Carries
  <2> QED
    BY Zenon, <1>1, <1>2, <1>3, <2>1, JobTokens DEF m
<1>11. \A d \in Devices :
         /\ Commands(d)' \subseteq Commands(d) \cup {<<"command", cmd, commands[cmd] + 1>>}
         /\ ~Forward(cmd, d) => Commands(d)' \subseteq Commands(d)
  BY Zenon, <1>2, <1>5, <1>6, CommandTokens
<1>12. \A d \in Devices : Deciders(d)' = Deciders(d)
  BY Zenon, <1>2, TokensSame
<1>13. ASSUME NEW d \in Devices, ~Forward(cmd, d)
       PROVE  \A s, t \in Tokens(d)' : s = t
  <2>1. Tokens(d)' \subseteq Tokens(d)
    BY Zenon, <1>10, <1>11, <1>12, <1>13 DEF Tokens
  <2> QED
    BY Zenon, <2>1 DEF One
<1>14. ASSUME NEW d \in Devices, Forward(cmd, d)
       PROVE  \A s, t \in Tokens(d)' : s = t
  <2>1. d = m.device /\ m.type \in {"device_created_v1", "tenant_attached_v1"}
    BY Zenon, <1>4, <1>5, <1>8, <1>14 DEF Forward
  <2>2. ~Carries(m, "update") /\ Carries(m, "publish")
    BY Zenon, <2>1 DEF Carries
  <2>3. a \in Tokens(d)
    BY Zenon, <1>10, <2>1, <2>2 DEF Tokens
  <2>4. a \notin Messages(d)' \cup Commands(d)' \cup Deciders(d)'
    BY Zenon, <1>10, <2>2, KindsDiffer
  <2>5. Tokens(d)' \subseteq (Tokens(d) \ {a}) \cup {<<"command", cmd, commands[cmd] + 1>>}
    BY Zenon, <1>10, <1>11, <1>12, <2>4 DEF Tokens
  <2> QED
    BY <2>3, <2>5, Handover DEF One
<1> QED
  BY Zenon, <1>9, <1>13, <1>14 DEF One

\* The registry hands the token of a command to its answer.
LEMMA TakeTokens ==
    ASSUME SagaInv, One, NEW cmd \in Command, Take(cmd), UNCHANGED <<log, fetched, jobs>>,
           NEW reply \in Answers \cup {"none"}, Answer(cmd, reply),
           cmd.type = "tenant.detach_device" => reply \in {"tenant_detached_v1", "none"}
    PROVE  One'
<1> DEFINE h == [cmd |-> cmd, reply |-> reply,
                 pc |-> IF reply = "none" THEN "commit" ELSE "publish"]
           a == <<"command", cmd, commands[cmd]>>
           b == <<"answer", h, 0>>
<1>1. asset' = {h} /\ h.cmd = cmd /\ h.reply = reply
  BY Zenon DEF Answer
<1> HIDE DEF h
<1>2. commands \in [Command -> Nat]
  BY Zenon DEF SagaInv, TypeOK
<1>3. commands[cmd] > 0 /\ commands' = [commands EXCEPT ![cmd] = @ - 1]
  BY Zenon DEF Take
<1>4. \A d \in Devices : /\ Commands(d)' \subseteq Commands(d) \ {a}
                         /\ Forward(cmd, d) => a \in Commands(d)
  BY Zenon, <1>2, <1>3, CommandTokens
<1>5. \A d \in Devices : Messages(d)' = Messages(d)
  BY Zenon, TokensSame
<1>6. \A d \in Devices : \A s \in Deciders(d)' : s = b /\ Deciding(h, d)
  BY <1>1, Zenon DEF Deciders, Deciding
<1>7. \A d \in Devices : Deciding(h, d) => Forward(cmd, d)
  <2>1. cmd.type \in CommandTypes
    BY Zenon DEF Command
  <2> QED
    BY Zenon, <1>1, <2>1 DEF Deciding, Forward, CommandTypes
<1>8. \A d \in Devices : a \notin Messages(d)' \cup Deciders(d)'
  BY Zenon, KindsDiffer
<1> HIDE DEF a, b
<1>9. ASSUME NEW d \in Devices
      PROVE  \A s, t \in Tokens(d)' : s = t
  <2>1. CASE Deciding(h, d)
    <3>1. a \in Tokens(d)
      BY Zenon, <1>4, <1>7, <2>1 DEF Tokens
    <3>2. Tokens(d)' \subseteq (Tokens(d) \ {a}) \cup {b}
      BY Zenon, <1>4, <1>5, <1>6, <1>8 DEF Tokens
    <3> QED
      BY Zenon, <3>1, <3>2, Handover DEF One
  <2>2. CASE ~Deciding(h, d)
    <3>1. Tokens(d)' \subseteq Tokens(d)
      BY Zenon, <1>4, <1>5, <1>6, <2>2 DEF Tokens
    <3> QED
      BY Zenon, <3>1 DEF One
  <2> QED
    BY Zenon, <2>1, <2>2
<1> QED
  BY Zenon, <1>9 DEF One

\* The steps of the registry's handlers.
LEMMA AssetTokens ==
    ASSUME SagaInv, One, NEW cmd \in Command, AssetStep(cmd)
    PROVE  One'
<1>1. UNCHANGED <<log, fetched, jobs>>
  BY Zenon DEF AssetStep, HandleAttachDevice, HandleAllocateQuota, HandleDetachDevice, consumerVars
<1>2. CASE HandleAttachDevice(cmd)
  <2>1. Take(cmd) /\ cmd.type = "tenant.attach_device"
    BY Zenon, <1>2 DEF HandleAttachDevice
  <2>2. PICK reply \in Answers \cup {"none"} : Answer(cmd, reply)
    BY Zenon, <1>2 DEF HandleAttachDevice, Answers
  <2> QED
    BY Zenon, <1>1, <2>1, <2>2, TakeTokens
<1>3. CASE HandleAllocateQuota(cmd)
  <2>1. Take(cmd) /\ cmd.type = "quota.allocate_device"
    BY Zenon, <1>3 DEF HandleAllocateQuota
  <2>2. PICK reply \in Answers \cup {"none"} : Answer(cmd, reply)
    BY Zenon, <1>3 DEF HandleAllocateQuota, Answers
  <2> QED
    BY Zenon, <1>1, <2>1, <2>2, TakeTokens
<1>4. CASE HandleDetachDevice(cmd)
  <2>1. Take(cmd) /\ cmd.type = "tenant.detach_device"
    BY Zenon, <1>4 DEF HandleDetachDevice
  <2>2. PICK reply \in {"tenant_detached_v1", "none"} : Answer(cmd, reply)
    BY Zenon, <1>4 DEF HandleDetachDevice
  <2>3. reply \in Answers \cup {"none"}
    BY Zenon DEF Answers
  <2> QED
    BY Zenon, <1>1, <2>1, <2>2, <2>3, TakeTokens
<1> QED
  BY Zenon, <1>2, <1>3, <1>4 DEF AssetStep

\* The registry hands the token of an answer to the message that carries it.
LEMMA AnswerTokens ==
    ASSUME SagaInv, FetchInv, One, NEW h \in asset, PublishAnswer(h),
           \A ok \in BOOLEAN : MayFail(ok) => ok
    PROVE  One'
<1> DEFINE x == h.cmd.device  p == PartitionOf[x]  t == h.reply
           a == <<"answer", h, 0>>
           b == <<"message", p, Len(log[p]) + 1>>
<1>1. h \in Handling /\ h.pc = "publish" /\ t # "none"
  BY Zenon DEF SagaInv, TypeOK, QuotaInv, PublishAnswer
<1>2. x \in Devices /\ p \in Partitions /\ t \in EventTypes /\ t \in Answers
  BY Zenon, <1>1, PartitionOfAssumption DEF Handling, Command, EventTypes
<1>3. /\ log' = Append1(p, t, x) /\ UNCHANGED <<fetched, jobs, commands>>
      /\ asset' = {[h EXCEPT !.pc = "commit"]}
  BY Zenon DEF PublishAnswer, consumerVars
<1>4. [h EXCEPT !.pc = "commit"].pc = "commit"
  BY Zenon, <1>1 DEF Handling
<1>5. \A d \in Devices : Deciders(d)' = {}
  BY <1>3, <1>4, Zenon DEF Deciders, Deciding
<1>6. \A d \in Devices : Commands(d)' = Commands(d)
  BY Zenon, <1>3, TokensSame
<1>7. \A d \in Devices : /\ Messages(d)' \subseteq Messages(d) \cup {b}
                         /\ d # x \/ t \in {"device_created_v1", "tenant_detached_v1"} =>
                               Messages(d)' \subseteq Messages(d)
  BY <1>2, <1>3, AppendTokens
<1>8. \A d \in Devices : a \notin Messages(d)' \cup Commands(d)'
  BY Zenon, KindsDiffer
<1>9. Deciding(h, x) => a \in Deciders(x)
  BY Zenon DEF Deciders
<1>10. t \notin {"device_created_v1", "tenant_detached_v1"} => Deciding(h, x)
  BY Zenon, <1>1, <1>2 DEF Deciding, Answers
<1> HIDE DEF a, b, x, t, p
<1>11. ASSUME NEW d \in Devices
       PROVE  \A r, s \in Tokens(d)' : r = s
  <2>1. CASE d # x \/ t \in {"device_created_v1", "tenant_detached_v1"}
    <3>1. Tokens(d)' \subseteq Tokens(d)
      BY Zenon, <1>5, <1>6, <1>7, <2>1 DEF Tokens
    <3> QED
      BY Zenon, <3>1 DEF One
  <2>2. CASE d = x /\ t \notin {"device_created_v1", "tenant_detached_v1"}
    <3>1. a \in Tokens(d)
      BY Zenon, <1>9, <1>10, <2>2 DEF Tokens
    <3>2. Tokens(d)' \subseteq (Tokens(d) \ {a}) \cup {b}
      BY Zenon, <1>5, <1>6, <1>7, <1>8 DEF Tokens
    <3> QED
      BY Zenon, <3>1, <3>2, Handover DEF One
  <2> QED
    BY Zenon, <2>1, <2>2
<1> QED
  BY Zenon, <1>11 DEF One

\* Every step keeps one token per device while nothing fails.
LEMMA NextChainInv == SagaInv /\ FetchInv /\ ChainInv /\ [Next]_vars => ChainInv'
<1> SUFFICES ASSUME SagaInv, FetchInv, ChainInv, [Next]_vars, Quiet'
             PROVE  stuck' = {} /\ (\A j \in jobs' : j.pc # "markFailed") /\ One'
  BY Zenon DEF ChainInv, One
<1>1. CASE UNCHANGED vars
  <2>1. UNCHANGED <<log, fetched, jobs, commands, asset, stuck, used>>
    BY Zenon, <1>1 DEF vars, consumerVars
  <2>2. \A d \in Devices : Tokens(d)' = Tokens(d)
    BY Zenon, <2>1, TokensSame DEF Tokens
  <2>3. Quiet
    BY Zenon, <2>1 DEF Quiet
  <2> QED
    BY Zenon, <2>1, <2>2, <2>3 DEF ChainInv, One
<1>2. CASE Next
  <2>1. /\ Quiet /\ ~Spend("ticks", MaxTicks) /\ \A kind : ~Failure(kind)
        /\ \A ok \in BOOLEAN : MayFail(ok) => ok
    BY Zenon, <1>2, QuietSteps
  <2>2. stuck = {} /\ (\A j \in jobs : j.pc # "markFailed") /\ One
    BY Zenon, <2>1 DEF ChainInv, One
  <2>3. ~(OrchestratorCrash \/ Recover \/ \E h \in asset : AssetCrash(h))
    BY Zenon, <2>1 DEF OrchestratorCrash, Recover, AssetCrash
  <2>4. ASSUME \A d \in Devices : Tokens(d)' \subseteq Tokens(d)
        PROVE  One'
    BY Zenon, <2>2, <2>4 DEF One
  <2>5. ASSUME NEW d \in Devices, CreateDevice(d) \/ RecordTelemetry(d)
        PROVE  stuck' = stuck /\ jobs' = jobs /\ One'
    <3>1. UNCHANGED <<log, fetched, jobs, commands, asset, stuck>>
      BY Zenon, <2>5 DEF CreateDevice, RecordTelemetry, consumerVars
    <3>2. \A x \in Devices : Tokens(x)' = Tokens(x)
      BY Zenon, <3>1, TokensSame DEF Tokens
    <3> QED
      BY Zenon, <2>4, <3>1, <3>2
  <2>6. ASSUME NEW d \in Devices, OutboxPublish(d)
        PROVE  stuck' = stuck /\ jobs' = jobs /\ One'
    <3>1. UNCHANGED <<fetched, jobs, commands, asset, stuck>>
      BY Zenon, <2>6 DEF OutboxPublish, consumerVars
    <3>2. PICK p \in Partitions : log' = Append1(p, "device_created_v1", d)
      BY Zenon, <2>6 DEF OutboxPublish
    <3>3. "device_created_v1" \in EventTypes
      BY Zenon DEF EventTypes
    <3>4. \A x \in Devices : Messages(x)' \subseteq Messages(x)
      BY Zenon, <3>1, <3>2, <3>3, AppendTokens
    <3>5. \A x \in Devices : Tokens(x)' \subseteq Tokens(x)
      BY Zenon, <3>1, <3>4, TokensSame DEF Tokens
    <3> QED
      BY Zenon, <2>4, <3>1, <3>5
  <2>7. ASSUME NEW p \in Partitions, FetchMessage(p)
        PROVE  stuck' = stuck /\ (\A j \in jobs' : j.pc # "markFailed") /\ One'
    <3>1. UNCHANGED <<commands, asset, stuck>>
      BY Zenon, <2>7 DEF FetchMessage
    <3>2. \A j \in jobs' : j \in jobs \/ j.pc = "find"
      BY <2>7 DEF FetchMessage
    <3>3. \A x \in Devices : Tokens(x)' \subseteq Tokens(x)
      BY Zenon, <2>7, <3>1, TokensSame, FetchTokens DEF Tokens
    <3> QED
      BY Zenon, <2>2, <2>4, <3>1, <3>2, <3>3
  <2>8. ASSUME NEW j \in jobs, HandlerStep(j) \/ HandlerError(j), ~CommitResult(j)
        PROVE  stuck' = stuck /\ (\A k \in jobs' : k.pc # "markFailed") /\ One'
    <3>1. ~MarkFailed(j)
      BY Zenon, <2>2 DEF MarkFailed
    <3>2. FindSaga(j) \/ CreateSaga(j) \/ UpdateStepStatus(j) \/ HandlerError(j) \/ Publish(j)
      BY <2>8, <3>1, Zenon DEF HandlerStep
    <3>3. stuck' = stuck
      BY Zenon, <3>2, HandlerReplaces
    <3>4. One' /\ \A k \in jobs' : k.pc = "markFailed" => k \in jobs
      BY Zenon, <2>1, <2>2, <3>2, HandlerTokens, PublishTokens
    <3> QED
      BY Zenon, <2>2, <3>3, <3>4
  <2>9. ASSUME NEW j \in jobs, CommitResult(j)
        PROVE  stuck' = stuck /\ (\A k \in jobs' : k.pc # "markFailed") /\ One'
    <3>1. UNCHANGED <<log, fetched, commands, asset, stuck>> /\ jobs' \subseteq jobs
      BY Zenon, <2>9 DEF CommitResult
    <3>2. \A d, p, i : Live(d, p, i)' => Live(d, p, i)
      <4>1. \A p, i, pcs : Working(p, i, pcs)' => Working(p, i, pcs)
        BY Zenon, <3>1 DEF Working
      <4> QED
        BY <3>1, <4>1, Zenon DEF Live
    <3>3. \A d \in Devices : \A s \in Messages(d)' :
            \E q \in Partitions : \E i \in 1 .. Len(log'[q]) :
                Live(d, q, i)' /\ s = <<"message", q, i>>
      BY Zenon DEF Messages
    <3>4. \A d \in Devices : Messages(d)' \subseteq Messages(d)
      BY <3>1, <3>2, <3>3, MessageToken
    <3>5. \A d \in Devices : Tokens(d)' \subseteq Tokens(d)
      BY Zenon, <3>1, <3>4, TokensSame DEF Tokens
    <3> QED
      BY Zenon, <2>2, <2>4, <3>1, <3>5
  <2>10. ASSUME NEW cmd \in Command, AssetStep(cmd)
         PROVE  stuck' = stuck /\ jobs' = jobs /\ One'
    <3>1. UNCHANGED <<stuck, jobs>>
      BY Zenon, <2>10 DEF AssetStep, HandleAttachDevice, HandleAllocateQuota, HandleDetachDevice
    <3> QED
      BY Zenon, <2>2, <2>10, <3>1, AssetTokens
  <2>11. ASSUME NEW h \in asset, PublishAnswer(h) \/ CommitCommand(h)
         PROVE  stuck' = stuck /\ jobs' = jobs /\ One'
    <3>1. UNCHANGED <<stuck, jobs>>
      BY Zenon, <2>11 DEF PublishAnswer, CommitCommand
    <3>2. CASE PublishAnswer(h)
      BY Zenon, <2>1, <2>2, <3>1, <3>2, AnswerTokens
    <3>3. CASE CommitCommand(h)
      <4>1. UNCHANGED <<log, fetched, jobs, commands>> /\ asset' = {}
        BY Zenon, <3>3 DEF CommitCommand, consumerVars
      <4>2. \A d \in Devices : Deciders(d)' = {}
        BY <4>1, Zenon DEF Deciders
      <4>3. \A d \in Devices : Tokens(d)' \subseteq Tokens(d)
        BY Zenon, <4>1, <4>2, TokensSame DEF Tokens
      <4> QED
        BY Zenon, <2>4, <3>1, <4>3
    <3> QED
      BY Zenon, <2>11, <3>2, <3>3
  <2>12. ~\E s \in stuck : RetryOrCompensate(s)
    BY Zenon, <2>2
  <2> QED
    BY Zenon, <1>2, <2>2, <2>3, <2>5, <2>6, <2>7, <2>8, <2>9, <2>10, <2>11, <2>12 DEF Next
<1> QED
  BY Zenon, <1>1, <1>2

\* A device that was granted its place was not refused it, so the compensation
\* did not delete it.
LEMMA GrantedWasNotRefused == SagaInv /\ ChainInv => CompletedIsRegistered
<1> SUFFICES ASSUME SagaInv, ChainInv, Quiet, NEW d \in Devices,
                    sagas[d].status = "COMPLETED", d \notin devices
             PROVE  FALSE
  BY Zenon DEF CompletedIsRegistered, Quiet
<1>1. d \in Published("quota_allocated_v1") /\ Published("quota_allocated_v1") \subseteq created
  BY Zenon DEF SagaInv, RowsInv, OutcomeWasDecided, EventsInv, EventTypes, Answers
<1>2. d \in Published("quota_allocation_failed_v1")
  BY Zenon, <1>1 DEF SagaInv, RowsInv, DeletedWasRefused
<1>3. PICK p \in Partitions : \E i \in 1 .. Len(log[p]) :
             log[p][i] = [type |-> "quota_allocated_v1", device |-> d]
  BY Zenon, <1>1 DEF Published
<1>4. PICK i \in 1 .. Len(log[p]) : log[p][i] = [type |-> "quota_allocated_v1", device |-> d]
  BY Zenon, <1>3
<1>5. PICK q \in Partitions : \E k \in 1 .. Len(log[q]) :
             log[q][k] = [type |-> "quota_allocation_failed_v1", device |-> d]
  BY Zenon, <1>2 DEF Published
<1>6. PICK k \in 1 .. Len(log[q]) :
             log[q][k] = [type |-> "quota_allocation_failed_v1", device |-> d]
  BY Zenon, <1>5
<1>7. Live(d, p, i) /\ Live(d, q, k)
  BY <1>4, <1>6 DEF Live
<1>8. <<"message", p, i>> \in Tokens(d) /\ <<"message", q, k>> \in Tokens(d)
  BY Zenon, <1>7, MessageToken DEF Tokens
<1>9. <<"message", p, i>> = <<"message", q, k>>
  BY <1>8, Zenon DEF ChainInv
<1>10. p = q /\ i = k
  BY Zenon, <1>9
<1> QED
  BY <1>4, <1>6, <1>10

-----------------------------------------------------------------------------
(* The registry, which counts.                                             *)

INSTANCE FiniteSetTheorems

\* A subset of the devices is finite and no larger than its superset.
LEMMA CardinalitySubset ==
    ASSUME NEW S, NEW T \in SUBSET Devices, S \subseteq T
    PROVE  /\ Cardinality(S) \in Nat /\ Cardinality(T) \in Nat
           /\ Cardinality(S) <= Cardinality(T)
<1>1. IsFiniteSet(T)
  BY Zenon, DevicesFinite, FS_Subset
<1>2. QED
  BY Zenon, <1>1, FS_Subset, FS_CardinalityType

\* The registry takes a command and decides its answer.  Deleting the device
\* must be what the command asks for and be answered with tenant_detached_v1,
\* and a grant needs the count to be within the limit.
LEMMA CommandTaken ==
    ASSUME SagaInv, NEW cmd \in Command, NEW reply \in Answers \cup {"none"},
           Take(cmd), Answer(cmd, reply), used' \in [Bounds -> Nat],
           UNCHANGED <<created, readings, outbox, sagas, log, consumerVars, jobs,
                       stuck>>,
           \/ UNCHANGED devices /\ reply # "tenant_detached_v1"
           \/ /\ devices' = devices \ {cmd.device}
              /\ cmd.type = "tenant.detach_device"
              /\ reply = "tenant_detached_v1",
           reply = "quota_allocated_v1" =>
               (Limit = -1 \/ Cardinality(devices) <= Limit)
    PROVE  SagaInv'
<1> USE DEF SagaInv
<1> DEFINE h == [cmd |-> cmd, reply |-> reply,
                 pc |-> IF reply = "none" THEN "commit" ELSE "publish"]
<1>1. asset' = {h} /\ h \in Handling /\ h.reply = reply /\ h.cmd = cmd
      /\ (h.pc = "publish" => h.reply # "none")
  BY Zenon DEF Answer, Handling
<1> HIDE DEF h
<1>2. \A type \in EventTypes : Published(type)' = Published(type)
  BY Zenon, PublishedSame
<1>3. \A type \in EventTypes : Answering(type)' =
          IF type = reply THEN {cmd.device} ELSE {}
  BY Zenon, <1>1 DEF Answering
<1>4. /\ cmd.device \in Devices /\ Exists(cmd.device) /\ cmd.device \in created
      /\ cmd.type = "tenant.detach_device" =>
            cmd.device \in Published("quota_allocation_failed_v1")
      /\ devices' \subseteq devices
  BY DEF CommandsInv, Take, Command, EventsInv
<1>5. TypeOK'
  <2>1. commands' \in [Command -> Nat]
    BY DEF Take, TypeOK
  <2>2. QED
    BY Zenon, <1>1, <1>4, <2>1 DEF TypeOK, consumerVars
<1>6. EventsInv'
  BY Zenon, <1>2, <1>3, <1>4 DEF EventsInv, Exists, EventTypes, Answers
<1>7. CommandsInv'
  <2>1. \A c \in Command : commands'[c] > 0 => commands[c] > 0
    BY Zenon DEF Take, TypeOK
  <2>2. commands[cmd] > 0
    BY Zenon DEF Take
  <2>3. QED
    BY Zenon, <1>1, <1>2, <2>1, <2>2 DEF CommandsInv, Exists, EventTypes, Answers
<1>8. JobsInv' /\ StuckInv'
  BY Zenon, <1>2 DEF JobsInv, StuckInv, Exists, Message, consumerVars, EventTypes,
     Answers
<1>9. RowsInv'
  BY Zenon, <1>2, <1>4 DEF RowsInv, OutcomeWasDecided, DeletedWasRefused, EventTypes,
     Answers
<1>10. QuotaInv'
  <2> DEFINE G == Published("quota_allocated_v1") \cup
                      Answering("quota_allocated_v1")
  <2>1. \A g \in asset' : g.pc = "publish" => g.reply # "none"
    BY Zenon, <1>1
  <2>2. ASSUME Limit # -1
        PROVE  Cardinality((devices \cap G)') <= Limit
    <3>1. Limit \in Nat
      BY Zenon, <2>2, LimitAssumption
    <3>2. devices \in SUBSET Devices
      BY Zenon DEF TypeOK
    <3>3. CASE reply = "quota_allocated_v1"
      <4>1. (devices \cap G)' \subseteq devices
        BY Zenon, <1>4
      <4>2. Cardinality(devices) <= Limit
        BY Zenon, <2>2, <3>3
      <4>3. QED
        BY <3>1, <3>2, <4>1, <4>2, CardinalitySubset
    <3>4. CASE reply # "quota_allocated_v1"
      <4>1. (devices \cap G)' \subseteq devices \cap G
        BY Zenon, <1>2, <1>3, <1>4, <3>4 DEF EventTypes, Answers
      <4>2. Cardinality(devices \cap G) <= Limit
        BY Zenon, <2>2 DEF QuotaInv
      <4>3. QED
        BY <3>1, <3>2, <4>1, <4>2, CardinalitySubset
    <3>5. QED
      BY Zenon, <3>3, <3>4
  <2>3. QED
    BY Zenon, <2>1, <2>2 DEF QuotaInv
<1>11. QED
  BY <1>5, <1>6, <1>7, <1>8, <1>9, <1>10

\* A command handler answers what the registry says.
LEMMA AssetStepInv ==
    ASSUME SagaInv, NEW cmd \in Command, AssetStep(cmd)
    PROVE  SagaInv'
<1> USE DEF SagaInv
<1>1. CASE HandleAttachDevice(cmd)
  <2>1. PICK ok \in BOOLEAN :
            /\ MayFail(ok)
            /\ Answer(cmd, IF ok /\ cmd.device \in devices
                           THEN "tenant_attached_v1" ELSE "none")
    BY Zenon, <1>1 DEF HandleAttachDevice
  <2>2. PICK reply \in {"tenant_attached_v1", "none"} : Answer(cmd, reply)
    BY Zenon, <2>1
  <2>3. used' \in [Bounds -> Nat]
    BY <2>1, UsedType
  <2>4. QED
    BY Zenon, <1>1, <2>2, <2>3, CommandTaken DEF HandleAttachDevice, Answers,
       telemetryVars
<1>2. CASE HandleAllocateQuota(cmd)
  <2>1. PICK ok \in BOOLEAN :
            /\ MayFail(ok)
            /\ Answer(cmd, CASE ~ok \/ ~cmd.tenant -> "none"
                             [] OverLimit -> "quota_allocation_failed_v1"
                             [] OTHER -> "quota_allocated_v1")
    BY Zenon, <1>2 DEF HandleAllocateQuota
  <2>2. used' \in [Bounds -> Nat]
    BY Zenon, <2>1, UsedType
  <2>3. \E reply \in {"none", "quota_allocation_failed_v1",
                      "quota_allocated_v1"} :
           Answer(cmd, reply) /\ (reply = "quota_allocated_v1" => ~OverLimit)
    <3>1. CASE ~ok \/ ~cmd.tenant
      BY Zenon, <2>1, <3>1
    <3>2. CASE ok /\ cmd.tenant /\ OverLimit
      BY Zenon, <2>1, <3>2
    <3>3. CASE ok /\ cmd.tenant /\ ~OverLimit
      BY Zenon, <2>1, <3>3
    <3>4. QED
      BY <3>1, <3>2, <3>3
  <2>4. ~OverLimit => Limit = -1 \/ Cardinality(devices) <= Limit
    <3>1. devices \in SUBSET Devices /\ Cardinality(devices) \in Nat
      BY Zenon, CardinalitySubset DEF TypeOK
    <3>2. QED
      BY <3>1, LimitAssumption DEF OverLimit
  <2>5. QED
    BY Zenon, <1>2, <2>2, <2>3, <2>4, CommandTaken DEF HandleAllocateQuota, Answers,
       telemetryVars
<1>3. CASE HandleDetachDevice(cmd)
  <2> DEFINE deletable == cmd.tenant /\ cmd.device \notin readings
  <2>1. PICK ok \in BOOLEAN :
            /\ MayFail(ok)
            /\ devices' = IF ok /\ deletable THEN devices \ {cmd.device}
                                             ELSE devices
            /\ Answer(cmd, IF ok /\ deletable THEN "tenant_detached_v1"
                                              ELSE "none")
    BY Zenon, <1>3 DEF HandleDetachDevice
  <2>2. used' \in [Bounds -> Nat]
    BY Zenon, <2>1, UsedType
  <2>3. \E reply \in {"none", "tenant_detached_v1"} :
           /\ Answer(cmd, reply)
           /\ \/ UNCHANGED devices /\ reply # "tenant_detached_v1"
              \/ /\ devices' = devices \ {cmd.device}
                 /\ reply = "tenant_detached_v1"
    BY <2>1
  <2>4. QED
    BY Zenon, <1>3, <2>2, <2>3, CommandTaken DEF HandleDetachDevice, Answers
<1>4. QED
  BY Zenon, <1>1, <1>2, <1>3 DEF AssetStep

\* An answer is published as it was decided.
LEMMA PublishAnswerInv ==
    ASSUME SagaInv, NEW h \in asset, PublishAnswer(h)
    PROVE  SagaInv'
<1> USE DEF SagaInv
<1>1. PICK delivered \in BOOLEAN :
          /\ MayFail(delivered)
          /\ log' = IF delivered
                    THEN Append1(PartitionOf[h.cmd.device], h.reply,
                                 h.cmd.device)
                    ELSE log
  BY Zenon DEF PublishAnswer
<1> DEFINE g == [h EXCEPT !.pc = "commit"]
<1>2. /\ UNCHANGED <<telemetryVars, sagas, consumerVars, jobs, commands, stuck>>
      /\ asset' = {g}
  BY Zenon DEF PublishAnswer
<1>3. /\ h \in Handling /\ h.cmd \in Command /\ h.cmd.device \in Devices
      /\ h.reply \in Answers
      /\ PartitionOf[h.cmd.device] \in Partitions
  BY PartitionOfAssumption DEF TypeOK, Handling, Command, QuotaInv, PublishAnswer
<1>4. g \in Handling /\ g.cmd = h.cmd /\ g.reply = h.reply /\ g.pc = "commit"
  BY Zenon, <1>3 DEF Handling
<1> HIDE DEF g
<1>5. /\ Exists(h.cmd.device) /\ h.cmd.device \in created
      /\ \A type \in EventTypes : Answering(type)' =
            IF type = h.reply THEN {h.cmd.device} ELSE {}
      /\ h.cmd.device \in Answering(h.reply)
  BY Zenon, <1>2, <1>3, <1>4 DEF CommandsInv, EventsInv, Answering
<1>6. /\ log' \in [Partitions -> Seq(Event)]
      /\ \A type \in EventTypes : Published(type) \subseteq Published(type)'
      /\ \A type \in EventTypes :
            Published(type)' \subseteq Published(type)
                \cup (IF type = h.reply THEN {h.cmd.device} ELSE {})
      /\ JobsInv' /\ StuckInv' /\ RowsInv'
  <2>1. UNCHANGED <<devices, created, sagas, fetched, committed, jobs, stuck>>
    BY Zenon, <1>2 DEF telemetryVars, consumerVars
  <2>2. CASE delivered
    <3>1. h.reply \in EventTypes BY Zenon, <1>3 DEF EventTypes
    <3>2. log' = Append1(PartitionOf[h.cmd.device], h.reply, h.cmd.device)
      BY Zenon, <1>1, <2>2
    <3>3. log' \in [Partitions -> Seq(Event)]
      BY Zenon, <1>3, <3>1, <3>2, MessageAppend1
    <3> DEFINE p == PartitionOf[h.cmd.device]
               t == h.reply
               d == h.cmd.device
    <3>4. p \in Partitions /\ t \in EventTypes /\ d \in Devices
          /\ log' = Append1(p, t, d)
      BY <1>3, <3>1, <3>2
    <3> HIDE DEF p, t, d, SagaInv
    <3>5. /\ \A type \in EventTypes : Published(type) \subseteq Published(type)'
          /\ \A type \in EventTypes :
                Published(type)' \subseteq Published(type)
                    \cup (IF type = t THEN {d} ELSE {})
          /\ JobsInv' /\ StuckInv' /\ RowsInv'
      BY Zenon, <2>1, <3>4, AppendKeeps
    <3>6. QED
      BY Zenon, <3>3, <3>5 DEF t, d
  <2>3. CASE ~delivered
    <3>1. UNCHANGED log
      BY <1>1, <2>3
    <3>2. \A type \in EventTypes : Published(type)' = Published(type)
      BY Zenon, <3>1, PublishedSame
    <3>3. JobsInv' /\ StuckInv'
      BY Zenon, <2>1, <3>1, <3>2 DEF JobsInv, StuckInv, Exists, Message, EventTypes,
         Answers
    <3>4. RowsInv'
      BY Zenon, <2>1, <3>2 DEF RowsInv, OutcomeWasDecided, DeletedWasRefused,
         EventTypes, Answers
    <3>5. QED
      BY Zenon, <3>1, <3>2, <3>3, <3>4 DEF TypeOK
  <2>4. QED
    BY Zenon, <2>2, <2>3
<1>7. TypeOK'
  <2>1. used' \in [Bounds -> Nat]
    BY <1>1, UsedType
  <2>2. QED
    BY Zenon, <1>2, <1>4, <1>6, <2>1 DEF TypeOK, telemetryVars, consumerVars
<1>8. EventsInv'
  BY Zenon, <1>2, <1>3, <1>5, <1>6 DEF EventsInv, Exists, EventTypes, Answers,
     telemetryVars
<1>9. CommandsInv'
  BY Zenon, <1>2, <1>4, <1>6 DEF CommandsInv, Exists, EventTypes, Answers
<1>10. QuotaInv'
  <2> DEFINE G == Published("quota_allocated_v1") \cup
                      Answering("quota_allocated_v1")
  <2>1. (devices \cap G)' \subseteq devices \cap G
    BY Zenon, <1>2, <1>5, <1>6 DEF EventTypes, Answers, telemetryVars
  <2>2. ASSUME Limit # -1
        PROVE  Cardinality((devices \cap G)') <= Limit
    <3>1. Limit \in Nat /\ devices \cap G \in SUBSET Devices
      BY Zenon, <2>2, LimitAssumption DEF TypeOK
    <3>2. Cardinality(devices \cap G) <= Limit
      BY <2>2 DEF QuotaInv
    <3>3. QED
      BY <2>1, <3>1, <3>2, CardinalitySubset
  <2>3. QED
    BY Zenon, <1>2, <1>4, <2>2 DEF QuotaInv
<1>11. QED
  BY Zenon, <1>6, <1>7, <1>8, <1>9, <1>10

\* The command is done with, or is to be delivered again.
LEMMA AssetForgetsInv ==
    ASSUME SagaInv, NEW h \in asset, CommitCommand(h) \/ AssetCrash(h)
    PROVE  SagaInv'
<1> USE DEF SagaInv
<1>1. /\ UNCHANGED <<telemetryVars, sagas, log, consumerVars, jobs, stuck>>
      /\ asset' = {}
      /\ h \in Handling /\ h.cmd \in Command
  BY Zenon DEF CommitCommand, AssetCrash, TypeOK, Handling
<1>2. /\ \A type \in EventTypes : Published(type)' = Published(type)
      /\ \A type \in EventTypes : Answering(type)' = {}
  BY Zenon, <1>1, PublishedSame DEF Answering
<1>3. TypeOK'
  <2>1. used' \in [Bounds -> Nat] /\ commands' \in [Command -> Nat]
    BY <1>1 DEF CommitCommand, AssetCrash, Spend, Failure, TypeOK, Bounds
  <2>2. QED
    BY <1>1, <2>1 DEF TypeOK, telemetryVars, consumerVars
<1>4. EventsInv'
  BY Zenon, <1>1, <1>2 DEF EventsInv, Exists, EventTypes, Answers, telemetryVars
<1>5. CommandsInv'
  <2>1. \A c \in Command : commands'[c] > 0 => commands[c] > 0 \/ c = h.cmd
    BY Zenon, <1>1 DEF CommitCommand, AssetCrash, TypeOK
  <2>2. QED
    BY Zenon, <1>1, <1>2, <2>1 DEF CommandsInv, Exists, EventTypes, Answers
<1>6. JobsInv' /\ StuckInv'
  BY Zenon, <1>1, <1>2 DEF JobsInv, StuckInv, Exists, Message, consumerVars,
     EventTypes, Answers
<1>7. RowsInv'
  BY Zenon, <1>1, <1>2 DEF RowsInv, OutcomeWasDecided, DeletedWasRefused, EventTypes,
     Answers, telemetryVars
<1>8. QuotaInv'
  <2> DEFINE G == Published("quota_allocated_v1") \cup
                      Answering("quota_allocated_v1")
  <2>1. (devices \cap G)' \subseteq devices \cap G
    BY Zenon, <1>1, <1>2 DEF EventTypes, Answers, telemetryVars
  <2>2. ASSUME Limit # -1
        PROVE  Cardinality((devices \cap G)') <= Limit
    <3>1. Limit \in Nat /\ devices \cap G \in SUBSET Devices
      BY Zenon, <2>2, LimitAssumption DEF TypeOK
    <3>2. Cardinality(devices \cap G) <= Limit
      BY Zenon, <2>2 DEF QuotaInv
    <3>3. QED
      BY <2>1, <3>1, <3>2, CardinalitySubset
  <2>3. QED
    BY Zenon, <1>1, <2>2 DEF QuotaInv
<1>9. QED
  BY Zenon, <1>3, <1>4, <1>5, <1>6, <1>7, <1>8

-----------------------------------------------------------------------------
(* Every reachable state.                                                  *)

\* The initial state satisfies the invariant.
LEMMA InitSagaInv == Init => SagaInv
<1> SUFFICES ASSUME Init PROVE SagaInv
  OBVIOUS
<1>1. Limit # -1 => Cardinality({}) <= Limit
  <2>1. Cardinality({}) = 0
    BY Zenon, FS_EmptySet
  <2>2. QED
    BY <2>1, LimitAssumption
<1>2. QuotaInv
  BY Zenon, <1>1, InitOthers DEF QuotaInv, Init
<1>3. QED
  BY Zenon, <1>2, InitOthers DEF SagaInv

\* Every step preserves the invariant.
LEMMA NextSagaInv == SagaInv /\ [Next]_vars => SagaInv'
<1> SUFFICES ASSUME SagaInv, [Next]_vars PROVE SagaInv'
  OBVIOUS
<1>1. ASSUME NEW d \in Devices,
             CreateDevice(d) \/ RecordTelemetry(d) \/ OutboxPublish(d)
      PROVE  SagaInv'
  BY Zenon, <1>1, CreateDeviceInv, RecordTelemetryInv, OutboxPublishInv
<1>2. ASSUME NEW p \in Partitions, FetchMessage(p) PROVE SagaInv'
  BY <1>2, FetchMessageInv
<1>3. ASSUME NEW j \in jobs, HandlerStep(j) \/ HandlerError(j) PROVE SagaInv'
  BY Zenon, <1>3, FindSagaInv, CreateSagaInv, PublishInv, MarkFailedInv,
     UpdateStepStatusInv, CommitResultInv, HandlerErrorInv DEF HandlerStep
<1>4. CASE OrchestratorCrash
  BY Zenon, <1>4, OrchestratorCrashInv
<1>5. CASE Recover
  BY Zenon, <1>5, RecoverInv
<1>6. ASSUME NEW s \in stuck, RetryOrCompensate(s) PROVE SagaInv'
  BY Zenon, <1>6, RetryOrCompensateInv
<1>7. ASSUME NEW cmd \in Command, AssetStep(cmd) PROVE SagaInv'
  BY Zenon, <1>7, AssetStepInv
<1>8. ASSUME NEW h \in asset,
             PublishAnswer(h) \/ CommitCommand(h) \/ AssetCrash(h)
      PROVE  SagaInv'
  BY Zenon, <1>8, PublishAnswerInv, AssetForgetsInv
<1>9. CASE UNCHANGED vars
  <2>1. UNCHANGED <<telemetryVars, log, asset>>
    BY <1>9 DEF vars
  <2>2. EventsInv' /\ QuotaInv' /\ CommandsInv' /\ StuckInv' /\ RowsInv'
    BY Zenon, <1>9, <2>1, OrchestratorKeeps DEF vars, Exists, SagaInv, EventsInv
  <2>3. TypeOK' /\ JobsInv'
    BY Zenon, <1>9 DEF vars, telemetryVars, consumerVars, SagaInv, TypeOK, JobsInv,
       Exists, Message
  <2>4. QED
    BY Zenon, <2>2, <2>3 DEF SagaInv
<1>10. QED
  BY Zenon, <1>1, <1>2, <1>3, <1>4, <1>5, <1>6, <1>7, <1>8, <1>9 DEF Next

\* SagaInv holds in every reachable state, whatever is lost, repeated,
\* reordered or interrupted.
THEOREM SagaInvariance == Spec => []SagaInv
BY InitSagaInv, NextSagaInv, PTL DEF Spec

\* No handler looks for a saga that was never created.
THEOREM AnswersHaveSagaTheorem == Spec => []AnswersHaveSaga
<1>1. SagaInv => AnswersHaveSaga
  BY Zenon DEF SagaInv, EventsInv, CommandsInv, AnswersHaveSaga
<1>2. QED
  BY <1>1, SagaInvariance, PTL

\* A saga ends, or turns to compensation, on the asset-registry's word only.
THEOREM OutcomeWasDecidedTheorem == Spec => []OutcomeWasDecided
<1>1. SagaInv => OutcomeWasDecided
  BY Zenon DEF SagaInv, RowsInv
<1>2. QED
  BY <1>1, SagaInvariance, PTL

\* Only a refused device is ever deleted.
THEOREM DeletedWasRefusedTheorem == Spec => []DeletedWasRefused
<1>1. SagaInv => DeletedWasRefused
  BY Zenon DEF SagaInv, RowsInv
<1>2. QED
  BY <1>1, SagaInvariance, PTL

\* A saga that failed without an error has removed its device for good.
THEOREM CompensatedIsGoneTheorem == Spec => []CompensatedIsGone
<1>1. SagaInv => CompensatedIsGone
  BY Zenon DEF SagaInv, RowsInv, EventsInv, CompensatedIsGone
<1>2. QED
  BY <1>1, SagaInvariance, PTL

\* Granted devices never outnumber the plan's limit.
THEOREM QuotaRespectedTheorem == Spec => []QuotaRespected
<1>1. ASSUME SagaInv PROVE QuotaRespected
  <2> DEFINE G == Published("quota_allocated_v1")
             H == G \cup Answering("quota_allocated_v1")
  <2>1. devices \cap G \subseteq devices \cap H
        /\ devices \cap H \in SUBSET Devices
    BY Zenon, <1>1 DEF SagaInv, TypeOK
  <2>2. Limit # -1 => Limit \in Nat /\ Cardinality(devices \cap H) <= Limit
    BY <1>1, LimitAssumption DEF SagaInv, QuotaInv
  <2>3. QED
    BY <2>1, <2>2, CardinalitySubset DEF QuotaRespected
<1>2. QED
  BY <1>1, SagaInvariance, PTL

\* At most one quota decision per device is ever taken while nothing fails: each
\* message is worked on once, only the job that inserted the saga publishes its
\* first command, and command, answer and event hand one token on.
THEOREM ChainInvariance == Spec => [](FetchInv /\ ChainInv)
<1>1. Init => FetchInv /\ ChainInv
  <2> SUFFICES ASSUME Init PROVE FetchInv /\ ChainInv
    OBVIOUS
  <2>1. jobs = {} /\ stuck = {}
    BY Zenon DEF Init
  <2>2. SagaInv /\ \A d \in Devices : ~Exists(d)
    BY Zenon, InitSagaInv DEF Init, Exists, NoSaga
  <2>3. \A d \in Devices : Tokens(d) = {}
    BY Zenon, <2>2, NoSagaNoToken
  <2> QED
    BY Zenon, <2>1, <2>3 DEF FetchInv, ChainInv
<1> QED
  BY <1>1, NextFetchInv, NextChainInv, SagaInvariance, PTL DEF Spec

\* While nothing failed and no recovery round repeated a command, a saga that
\* COMPLETED has left its device behind: the compensation deletes only refused
\* devices, and a granted one was not refused.
THEOREM CompletedIsRegisteredTheorem == Spec => []CompletedIsRegistered
<1>1. SagaInv /\ ChainInv => CompletedIsRegistered
  BY Zenon, GrantedWasNotRefused
<1> QED
  BY <1>1, SagaInvariance, ChainInvariance, PTL
====
