--------------------------- MODULE ProvisionSaga ---------------------------
(***************************************************************************)
(* Device provisioning: the saga-orchestrator (its Kafka worker pool, the  *)
(* ProvisionSaga event handlers, the sagas table and the recovery worker), *)
(* the asset-registry that executes its commands, and the part of the      *)
(* telemetry-service that starts a saga, for the devices of one tenant.    *)
(*                                                                         *)
(* A handler is one action per database statement or Kafka write, because  *)
(* other workers, the recovery worker and crashes come in between.         *)
(***************************************************************************)
EXTENDS Integers, Sequences, FiniteSets

CONSTANTS
    Devices,      \* device ids, which are also the correlation ids
    Reporting,    \* the devices that may send telemetry
    Partitions,   \* partitions of the topic device.events
    PartitionOf,  \* the partition Kafka's Hash balancer picks for a device
    InFlight,     \* messages the orchestrator works on at a time
    Limit,        \* planLimit of the tenant's plan, -1 for unlimited
    MaxRetries,   \* handler attempts per message
    MaxCreates,   \* bound: CreateDevice requests
    MaxTicks,     \* bound: recovery rounds that find a stuck saga
    FailureKinds, \* "fault": database errors, lost or failed Kafka writes;
                  \* "crash": process restarts
    MaxFailures   \* bound: failures of either kind

ASSUME DevicesFinite == IsFiniteSet(Devices)
ASSUME ReportingAssumption == Reporting \subseteq Devices
ASSUME PartitionOfAssumption == PartitionOf \in [Devices -> Partitions]
ASSUME LimitAssumption == Limit \in Nat \cup {-1}
ASSUME BoundsAssumption ==
    /\ {MaxRetries, InFlight} \subseteq Nat \ {0}
    /\ {MaxCreates, MaxTicks, MaxFailures} \subseteq Nat
    /\ FailureKinds \subseteq {"fault", "crash"}

VARIABLES
    devices,    \* rows of the devices table
    created,    \* every id that was ever inserted there
    readings,   \* devices that rows of telemetry_readings refer to
    outbox,     \* unpublished device_created_v1 rows per device
    sagas,      \* the sagas table: one row per correlation_id (UNIQUE)
    log,        \* the messages of each partition of device.events
    fetched,    \* per partition: offset of the last message fetched
    committed,  \* per partition: offset committed for the consumer group
    dlq,        \* <<partition, offset>> of the messages in device.events.dlq
    jobs,       \* the messages in flight and how far each handler has come
    commands,   \* device.commands: copies of each command to be delivered
    asset,      \* the command the asset-registry is handling, if any
    stuck,      \* rows the recovery worker selected and has yet to retry
    used        \* how much of each bound is used up

telemetryVars == <<devices, created, readings, outbox>>
consumerVars == <<fetched, committed, dlq>>
vars == <<telemetryVars, sagas, log, consumerVars, jobs, commands, asset,
          stuck, used>>

-----------------------------------------------------------------------------
Statuses == {"STARTED", "IN_PROGRESS", "COMPENSATING", "COMPLETED", "FAILED"}

Steps == {"DEVICE_CREATED", "TENANT_ATTACHED", "QUOTA_ALLOCATED"}

\* A device without a saga has a row with status "NONE".
SagaRow == [status : Statuses \cup {"NONE"}, step : Steps, lastError : BOOLEAN]

NoSaga == [status |-> "NONE", step |-> "DEVICE_CREATED", lastError |-> FALSE]

\* The events of device.events; the last four are the asset-registry's.
Answers == {"tenant_attached_v1", "quota_allocated_v1",
            "quota_allocation_failed_v1", "tenant_detached_v1"}
EventTypes == Answers \cup {"device_created_v1"}
Event == [type : EventTypes, device : Devices]

\* A command names its tenant, or was published without a tenant_id.
CommandTypes == {"tenant.attach_device", "quota.allocate_device",
                 "tenant.detach_device"}
Command == [type : CommandTypes, device : Devices, tenant : BOOLEAN]

\* A fetched message, the next statement of its handler, the attempt this is,
\* and whether the last attempt failed.
Job ==
    [part : Partitions, off : Nat,
     pc : {"find", "create", "publish", "markFailed", "update", "done"},
     attempt : 1 .. MaxRetries, err : BOOLEAN]

\* A command taken from device.commands and the event to answer it with.
Handling == [cmd : Command, pc : {"publish", "commit"},
             reply : Answers \cup {"none"}]

Bounds == {"creates", "ticks", "failures"}

TypeOK ==
    /\ devices \subseteq created /\ created \subseteq Devices
    /\ readings \subseteq Devices
    /\ outbox \in [Devices -> Nat]
    /\ sagas \in [Devices -> SagaRow]
    /\ log \in [Partitions -> Seq(Event)]
    /\ fetched \in [Partitions -> Nat] /\ committed \in [Partitions -> Nat]
    /\ dlq \subseteq Partitions \X Nat
    /\ jobs \subseteq Job
    /\ commands \in [Command -> Nat]
    /\ asset \subseteq Handling
    /\ stuck \subseteq [device : Devices, row : SagaRow]
    /\ used \in [Bounds -> Nat]

-----------------------------------------------------------------------------
Init ==
    /\ devices = {} /\ created = {} /\ readings = {}
    /\ outbox = [d \in Devices |-> 0]
    /\ sagas = [d \in Devices |-> NoSaga]
    /\ log = [p \in Partitions |-> <<>>]
    /\ fetched = [p \in Partitions |-> 0]
    /\ committed = [p \in Partitions |-> 0]
    /\ dlq = {}
    /\ jobs = {}
    /\ commands = [c \in Command |-> 0]
    /\ asset = {}
    /\ stuck = {}
    /\ used = [b \in Bounds |-> 0]

-----------------------------------------------------------------------------
\* One more of a bounded kind of step.
Spend(b, max) == used[b] < max /\ used' = [used EXCEPT ![b] = @ + 1]

Failure(kind) == kind \in FailureKinds /\ Spend("failures", MaxFailures)

\* A step that goes as intended, or fails.
MayFail(ok) == IF ok THEN UNCHANGED used ELSE Failure("fault")

Append1(p, type, d) ==
    [log EXCEPT ![p] = Append(@, [type |-> type, device |-> d])]

(***************************************************************************)
(* The telemetry-service.                                                  *)
(***************************************************************************)

\* CreateDeviceService.Execute: one transaction upserts the device by (tenant,
\* serial), which returns the existing id when there is one, and inserts a
\* device_created_v1 outbox row either way.  A deleted device's serial gets a
\* new id.
CreateDevice(d) ==
    /\ d \in created => d \in devices
    /\ Spend("creates", MaxCreates)
    /\ devices' = devices \cup {d}
    /\ created' = created \cup {d}
    /\ outbox' = [outbox EXCEPT ![d] = @ + 1]
    /\ UNCHANGED <<readings, sagas, log, consumerVars, jobs, commands, asset,
                   stuck>>

\* RecordTelemetryService.Execute: a reading refers to an existing device.
RecordTelemetry(d) ==
    /\ d \in (devices \cap Reporting) \ readings
    /\ readings' = readings \cup {d}
    /\ UNCHANGED <<devices, created, outbox, sagas, log, consumerVars, jobs,
                   commands, asset, stuck, used>>

\* OutboxWorker.processBatch for one row.  The LeastBytes balancer may choose
\* any partition; if the transaction does not commit (marked = FALSE) the row
\* stays unpublished and is sent again.
OutboxPublish(d) ==
    /\ outbox[d] > 0
    /\ \E p \in Partitions, marked \in BOOLEAN :
          /\ MayFail(marked)
          /\ log' = Append1(p, "device_created_v1", d)
          /\ outbox' = [outbox EXCEPT ![d] = IF marked THEN @ - 1 ELSE @]
    /\ UNCHANGED <<devices, created, readings, sagas, consumerVars, jobs,
                   commands, asset, stuck>>

(***************************************************************************)
(* The orchestrator's Kafka consumer and the handlers of ProvisionSaga.    *)
(***************************************************************************)
Message(j) == log[j.part][j.off]
Exists(d) == sagas[d].status # "NONE"

Replace(j, k) == jobs' = (jobs \ {j}) \cup {k}
Goto(j, pc) == Replace(j, [j EXCEPT !.pc = pc])

\* The handler returned nil, or an error on which the worker tries again.
Succeed(j) == Replace(j, [j EXCEPT !.pc = "done", !.err = FALSE])
Fail(j) ==
    Replace(j, IF j.attempt < MaxRetries
               THEN [j EXCEPT !.pc = "find", !.attempt = @ + 1]
               ELSE [j EXCEPT !.pc = "done", !.err = TRUE])

FetchMessage(p) ==
    /\ Cardinality(jobs) < InFlight
    /\ fetched[p] < Len(log[p])
    /\ fetched' = [fetched EXCEPT ![p] = @ + 1]
    /\ jobs' = jobs \cup {[part |-> p, off |-> fetched[p] + 1, pc |-> "find",
                           attempt |-> 1, err |-> FALSE]}
    /\ UNCHANGED <<telemetryVars, sagas, log, committed, dlq, commands, asset,
                   stuck, used>>

\* Variant of FindSaga that takes a missing saga for one already handled.
FindSagaInverted(j) ==
    /\ j.pc = "find"
    /\ IF Exists(Message(j).device) THEN Goto(j, "update") ELSE Succeed(j)
    /\ UNCHANGED <<telemetryVars, sagas, log, consumerVars, commands, asset,
                   stuck, used>>

\* FindByCorrelationID.  A device_created_v1 whose saga exists is skipped; the
\* other events need the saga.
FindSaga(j) ==
    LET m == Message(j) IN
    /\ j.pc = "find"
    /\ \/ m.type = "device_created_v1" /\ Exists(m.device) /\ Succeed(j)
       \/ m.type = "device_created_v1" /\ ~Exists(m.device) /\ Goto(j, "create")
       \/ /\ m.type \in Answers /\ Exists(m.device)
          /\ Goto(j, IF m.type \in {"tenant_attached_v1",
                                    "quota_allocation_failed_v1"}
                     THEN "publish" ELSE "update")
    /\ UNCHANGED <<telemetryVars, sagas, log, consumerVars, commands, asset,
                   stuck, used>>

\* Create: an INSERT that the UNIQUE correlation_id refuses when another worker
\* has inserted the saga since the find.
CreateSaga(j) ==
    LET d == Message(j).device IN
    /\ j.pc = "create"
    /\ \/ /\ ~Exists(d)
          /\ sagas' = [sagas EXCEPT ![d] = [NoSaga EXCEPT !.status = "STARTED"]]
          /\ Goto(j, "publish")
       \/ Exists(d) /\ Fail(j) /\ UNCHANGED sagas
    /\ UNCHANGED <<telemetryVars, log, consumerVars, commands, asset, stuck,
                   used>>

\* Variant of CommandFor: a copy-paste slip in handleTenantAttached.
CommandForMixedUp ==
    [device_created_v1 |-> "tenant.attach_device",
     tenant_attached_v1 |-> "tenant.detach_device",
     quota_allocation_failed_v1 |-> "tenant.detach_device"]

\* Variant of Outcome that completes the saga before quota is decided.
OutcomeTooEarly ==
    [device_created_v1 |->
        [step |-> "TENANT_ATTACHED", status |-> "IN_PROGRESS"],
     tenant_attached_v1 |->
        [step |-> "QUOTA_ALLOCATED", status |-> "COMPLETED"],
     quota_allocated_v1 |->
        [step |-> "QUOTA_ALLOCATED", status |-> "COMPLETED"],
     quota_allocation_failed_v1 |->
        [step |-> "TENANT_ATTACHED", status |-> "COMPENSATING"],
     tenant_detached_v1 |->
        [step |-> "DEVICE_CREATED", status |-> "FAILED"]]

\* The command each event leads to, and the row UpdateStepStatus writes.
CommandFor ==
    [device_created_v1 |-> "tenant.attach_device",
     tenant_attached_v1 |-> "quota.allocate_device",
     quota_allocation_failed_v1 |-> "tenant.detach_device"]

Outcome ==
    [device_created_v1 |->
        [step |-> "TENANT_ATTACHED", status |-> "IN_PROGRESS"],
     tenant_attached_v1 |->
        [step |-> "QUOTA_ALLOCATED", status |-> "IN_PROGRESS"],
     quota_allocated_v1 |->
        [step |-> "QUOTA_ALLOCATED", status |-> "COMPLETED"],
     quota_allocation_failed_v1 |->
        [step |-> "TENANT_ATTACHED", status |-> "COMPENSATING"],
     tenant_detached_v1 |->
        [step |-> "DEVICE_CREATED", status |-> "FAILED"]]

\* Producer.Publish of a command.  The write may be lost although it was
\* reported good (the writer asks for no acknowledgement) and may have arrived
\* although it was reported bad.
Publish(j) ==
    LET m == Message(j)
        cmd == [type |-> CommandFor[m.type], device |-> m.device,
                tenant |-> TRUE]
    IN
    /\ j.pc = "publish"
    /\ \E delivered, reported \in BOOLEAN :
          /\ MayFail(delivered /\ reported)
          /\ commands' = [commands EXCEPT ![cmd] = IF delivered THEN @ + 1
                                                                ELSE @]
          /\ Goto(j, IF reported THEN "update" ELSE "markFailed")
    /\ UNCHANGED <<telemetryVars, sagas, log, consumerVars, asset, stuck>>

\* MarkFailed keeps the step; an error of its own is ignored.
MarkFailed(j) ==
    /\ j.pc = "markFailed"
    /\ \E ok \in BOOLEAN :
          /\ MayFail(ok)
          /\ sagas' = [sagas EXCEPT ![Message(j).device] =
                          IF ok THEN [@ EXCEPT !.status = "FAILED",
                                               !.lastError = TRUE]
                                ELSE @]
    /\ Fail(j)
    /\ UNCHANGED <<telemetryVars, log, consumerVars, commands, asset, stuck>>

\* UpdateStepStatus writes step and status whatever the row holds by now, and
\* leaves last_error alone.
UpdateStepStatus(j) ==
    LET m == Message(j) IN
    /\ j.pc = "update"
    /\ sagas' = [sagas EXCEPT ![m.device] =
                    [@ EXCEPT !.step = Outcome[m.type].step,
                              !.status = Outcome[m.type].status]]
    /\ Succeed(j)
    /\ UNCHANGED <<telemetryVars, log, consumerVars, commands, asset, stuck,
                   used>>

\* A repository call of the handler returns an error: the database failed, or
\* the saga an event belongs to was not found.
HandlerError(j) ==
    LET m == Message(j) IN
    /\ j.pc \in {"find", "create", "update"}
    /\ MayFail(j.pc = "find" /\ m.type \in Answers /\ ~Exists(m.device))
    /\ Fail(j)
    /\ UNCHANGED <<telemetryVars, sagas, log, consumerVars, commands, asset,
                   stuck>>

\* The commit goroutine: a failed message goes to the DLQ first (parked) and is
\* not committed if that fails; CommitMessages (ok) sets the group's offset to
\* this message's, be it higher or lower than the last one committed.
CommitResult(j) ==
    /\ j.pc = "done"
    /\ \E parked, ok \in BOOLEAN :
          /\ parked => j.err
          /\ ok => (j.err => parked)
          /\ MayFail(ok)
          /\ dlq' = IF parked THEN dlq \cup {<<j.part, j.off>>} ELSE dlq
          /\ committed' = IF ok THEN [committed EXCEPT ![j.part] = j.off]
                                ELSE committed
    /\ jobs' = jobs \ {j}
    /\ UNCHANGED <<telemetryVars, sagas, log, fetched, commands, asset, stuck>>

\* The orchestrator restarts: what was in flight is gone and fetching resumes
\* after the committed offsets.
OrchestratorCrash ==
    /\ Failure("crash")
    /\ jobs' = {} /\ stuck' = {}
    /\ fetched' = committed
    /\ UNCHANGED <<telemetryVars, sagas, log, committed, dlq, commands, asset>>

(***************************************************************************)
(* The recovery worker.                                                    *)
(***************************************************************************)

\* One tick: the rows that have been IN_PROGRESS or COMPENSATING for 5 minutes.
\* Any such row may be that old.  The next tick waits for this one's retries.
Recover ==
    /\ stuck = {}
    /\ Spend("ticks", MaxTicks)
    /\ LET open == {d \in Devices : sagas[d].status \in {"IN_PROGRESS",
                                                         "COMPENSATING"}}
       IN \E D \in (SUBSET open) \ {{}} :
             stuck' = {[device |-> d, row |-> sagas[d]] : d \in D}
    /\ UNCHANGED <<telemetryVars, sagas, log, consumerVars, jobs, commands,
                   asset>>

\* The command for a row as it was when selected: only tenant.attach_device is
\* published with a tenant_id.
RetryCommand(s) ==
    [type |-> CASE s.row.status = "COMPENSATING" -> "tenant.detach_device"
                [] s.row.step = "TENANT_ATTACHED" -> "tenant.attach_device"
                [] OTHER -> "quota.allocate_device",
     device |-> s.device,
     tenant |-> s.row.status = "IN_PROGRESS" /\ s.row.step = "TENANT_ATTACHED"]

RetryOrCompensate(s) ==
    /\ stuck' = stuck \ {s}
    /\ \E delivered \in BOOLEAN :
          /\ MayFail(delivered)
          /\ commands' = [commands EXCEPT ![RetryCommand(s)] =
                             IF delivered THEN @ + 1 ELSE @]
    /\ UNCHANGED <<telemetryVars, sagas, log, consumerVars, jobs, asset>>

(***************************************************************************)
(* The asset-registry: one loop fetches a command, runs its handler (one   *)
(* database statement, then the answer) and commits the command.           *)
(***************************************************************************)
Take(cmd) ==
    /\ asset = {} /\ commands[cmd] > 0
    /\ commands' = [commands EXCEPT ![cmd] = @ - 1]

\* The handler goes on to publish its answer, or returned an error, on which
\* the loop commits the command all the same.
Answer(cmd, reply) ==
    asset' = {[cmd |-> cmd, reply |-> reply,
               pc |-> IF reply = "none" THEN "commit" ELSE "publish"]}

\* HandleAttachDevice.  It uses the stored tenant whatever the command names.
HandleAttachDevice(cmd) ==
    /\ cmd.type = "tenant.attach_device"
    /\ Take(cmd)
    /\ \E ok \in BOOLEAN :
          /\ MayFail(ok)
          /\ Answer(cmd, IF ok /\ cmd.device \in devices
                         THEN "tenant_attached_v1" ELSE "none")
    /\ UNCHANGED <<telemetryVars, sagas, log, consumerVars, jobs, stuck>>

\* Variant of OverLimit that does not count the device being added.
OverLimitOffByOne == Limit # -1 /\ Cardinality(devices) > Limit + 1

\* The tenant is over its plan; the count includes the device itself.
OverLimit == Limit # -1 /\ Cardinality(devices) > Limit

\* HandleAllocateQuota.  Without a tenant_id the query fails: '' is no UUID.
HandleAllocateQuota(cmd) ==
    /\ cmd.type = "quota.allocate_device"
    /\ Take(cmd)
    /\ \E ok \in BOOLEAN :
          /\ MayFail(ok)
          /\ Answer(cmd, CASE ~ok \/ ~cmd.tenant -> "none"
                           [] OverLimit -> "quota_allocation_failed_v1"
                           [] OTHER -> "quota_allocated_v1")
    /\ UNCHANGED <<telemetryVars, sagas, log, consumerVars, jobs, stuck>>

\* Variant of HandleDetachDevice that answers although the DELETE failed.
HandleDetachIgnoringError(cmd) ==
    LET deletable == cmd.tenant /\ cmd.device \notin readings IN
    /\ cmd.type = "tenant.detach_device"
    /\ Take(cmd)
    /\ devices' = IF deletable THEN devices \ {cmd.device} ELSE devices
    /\ Answer(cmd, "tenant_detached_v1")
    /\ UNCHANGED <<created, readings, outbox, sagas, log, consumerVars, jobs,
                   stuck, used>>

\* HandleDetachDevice.  The DELETE fails without a tenant_id, and on the foreign
\* key of telemetry_readings; deleting no row is no error.
HandleDetachDevice(cmd) ==
    LET deletable == cmd.tenant /\ cmd.device \notin readings IN
    /\ cmd.type = "tenant.detach_device"
    /\ Take(cmd)
    /\ \E ok \in BOOLEAN :
          /\ MayFail(ok)
          /\ devices' = IF ok /\ deletable THEN devices \ {cmd.device}
                                           ELSE devices
          /\ Answer(cmd, IF ok /\ deletable THEN "tenant_detached_v1"
                                            ELSE "none")
    /\ UNCHANGED <<created, readings, outbox, sagas, log, consumerVars, jobs,
                   stuck>>

\* EventPublisher.Publish: the key's hash picks the partition.
PublishAnswer(h) ==
    /\ h.pc = "publish"
    /\ \E delivered \in BOOLEAN :
          /\ MayFail(delivered)
          /\ log' = IF delivered
                    THEN Append1(PartitionOf[h.cmd.device], h.reply,
                                 h.cmd.device)
                    ELSE log
    /\ asset' = {[h EXCEPT !.pc = "commit"]}
    /\ UNCHANGED <<telemetryVars, sagas, consumerVars, jobs, commands, stuck>>

CommitCommand(h) ==
    /\ h.pc = "commit"
    /\ asset' = {}
    /\ UNCHANGED <<telemetryVars, sagas, log, consumerVars, jobs, commands,
                   stuck, used>>

\* The asset-registry restarts and is given the uncommitted command again.
AssetCrash(h) ==
    /\ Failure("crash")
    /\ asset' = {}
    /\ commands' = [commands EXCEPT ![h.cmd] = @ + 1]
    /\ UNCHANGED <<telemetryVars, sagas, log, consumerVars, jobs, stuck>>

-----------------------------------------------------------------------------
HandlerStep(j) ==
    FindSaga(j) \/ CreateSaga(j) \/ Publish(j) \/ MarkFailed(j)
        \/ UpdateStepStatus(j) \/ CommitResult(j)

AssetStep(cmd) ==
    HandleAttachDevice(cmd) \/ HandleAllocateQuota(cmd)
        \/ HandleDetachDevice(cmd)

Next ==
    \/ \E d \in Devices : CreateDevice(d) \/ RecordTelemetry(d)
                              \/ OutboxPublish(d)
    \/ \E p \in Partitions : FetchMessage(p)
    \/ \E j \in jobs : HandlerStep(j) \/ HandlerError(j)
    \/ OrchestratorCrash
    \/ Recover
    \/ \E s \in stuck : RetryOrCompensate(s)
    \/ \E cmd \in Command : AssetStep(cmd)
    \/ \E h \in asset : PublishAnswer(h) \/ CommitCommand(h) \/ AssetCrash(h)

Spec == Init /\ [][Next]_vars

(***************************************************************************)
(* Fairness: every process that can take a step takes one.  Nothing makes  *)
(* a client create a device or send telemetry, or a component fail.        *)
(***************************************************************************)
Fairness ==
    /\ WF_vars(\E d \in Devices : OutboxPublish(d))
    /\ \A p \in Partitions : WF_vars(FetchMessage(p))
    /\ WF_vars(\E j \in jobs : HandlerStep(j))
    /\ WF_vars(Recover)
    /\ WF_vars(\E s \in stuck : RetryOrCompensate(s))
    /\ WF_vars(\E cmd \in Command : AssetStep(cmd))
    /\ WF_vars(\E h \in asset : PublishAnswer(h) \/ CommitCommand(h))

FairSpec == Spec /\ Fairness

-----------------------------------------------------------------------------
(***************************************************************************)
(* Properties.                                                             *)
(***************************************************************************)

\* The devices for which an event of this type was ever published.
Published(type) ==
    {d \in Devices : \E p \in Partitions : \E i \in 1 .. Len(log[p]) :
                         log[p][i] = [type |-> type, device |-> d]}

Terminal(d) == sagas[d].status \in {"COMPLETED", "FAILED"}

\* No answer, and no command, outruns the saga it belongs to: whatever was
\* lost, repeated or reordered, the "find saga" of a handler can only fail
\* because the database does.
AnswersHaveSaga ==
    /\ \A type \in Answers : \A d \in Published(type) : Exists(d)
    /\ \A cmd \in Command : commands[cmd] > 0 => Exists(cmd.device)

\* A saga is COMPLETED only on the strength of a quota_allocated_v1 for its own
\* device, and awaits compensation only after a quota_allocation_failed_v1.
OutcomeWasDecided ==
    \A d \in Devices :
        /\ sagas[d].status = "COMPLETED" => d \in Published("quota_allocated_v1")
        /\ sagas[d].status = "COMPENSATING" =>
              d \in Published("quota_allocation_failed_v1")

\* Compensation deletes only a device whose quota was refused.
DeletedWasRefused ==
    created \ devices \subseteq Published("quota_allocation_failed_v1")

\* A saga that FAILED without a last_error was compensated: its device is gone,
\* and no upsert brings it back.
CompensatedIsGone ==
    \A d \in Devices :
        sagas[d].status = "FAILED" /\ ~sagas[d].lastError =>
            d \in created \ devices

\* The devices that were granted quota and are still registered never outnumber
\* the plan's limit, however creations, checks, answers and compensations
\* interleave: HandleAllocateQuota counts rows, not grants.
QuotaRespected ==
    Limit # -1 =>
        Cardinality(devices \cap Published("quota_allocated_v1")) <= Limit

\* The devices whose answer of this type is decided but not yet published.
Answering(type) == {h.cmd.device : h \in {g \in asset : g.reply = type}}

(***************************************************************************)
(* The inductive invariant behind these: who may speak of which device.    *)
(***************************************************************************)

\* Every event, and every saga, is about a device that was created; an answer
\* is about one that has a saga, and tenant_detached_v1 about one that is gone.
EventsInv ==
    /\ \A type \in EventTypes : Published(type) \subseteq created
    /\ \A type \in Answers : \A d \in Published(type) \cup Answering(type) :
          Exists(d)
    /\ Published("tenant_detached_v1") \cup Answering("tenant_detached_v1")
          \subseteq created \ devices
    /\ \A d \in Devices : Exists(d) \/ outbox[d] > 0 => d \in created

\* Every command still to be executed belongs to a saga, and a detach command
\* to a refused device.
CommandsInv ==
    \A cmd \in Command :
        commands[cmd] > 0 \/ (\E h \in asset : h.cmd = cmd) =>
            /\ Exists(cmd.device)
            /\ cmd.type = "tenant.detach_device" =>
                  cmd.device \in Published("quota_allocation_failed_v1")

\* Every job is about a message of the log; past the find (the create) its
\* saga exists, and only an event that leads to a command publishes one.
JobsInv ==
    /\ \A p \in Partitions : fetched[p] <= Len(log[p])
                                /\ committed[p] <= Len(log[p])
    /\ \A j \in jobs :
          /\ j.off \in 1 .. Len(log[j.part])
          /\ j.pc = "create" => Message(j).type = "device_created_v1"
          /\ j.pc \in {"publish", "markFailed", "update"} =>
                Exists(Message(j).device)
          /\ j.pc \in {"publish", "markFailed"} =>
                Message(j).type \in DOMAIN CommandFor

\* A row the recovery worker selected was open then, and if it was COMPENSATING
\* its device had been refused.
StuckInv ==
    \A s \in stuck :
        /\ Exists(s.device)
        /\ s.row.status = "COMPENSATING" =>
              s.device \in Published("quota_allocation_failed_v1")

\* What a saga row says has happened.
RowsInv ==
    /\ OutcomeWasDecided
    /\ DeletedWasRefused
    /\ \A d \in Devices : sagas[d].status = "FAILED" /\ ~sagas[d].lastError =>
                              d \in Published("tenant_detached_v1")

\* A grant counts from the moment it is decided.
QuotaInv ==
    /\ \A h \in asset : h.pc = "publish" => h.reply # "none"
    /\ Limit # -1 =>
          Cardinality(devices \cap (Published("quota_allocated_v1") \cup
                                    Answering("quota_allocated_v1"))) <= Limit

SagaInv ==
    TypeOK /\ EventsInv /\ CommandsInv /\ JobsInv /\ StuckInv /\ RowsInv
        /\ QuotaInv

\* Without crashes and faults provisioning comes to rest as it should: every
\* registered device has a saga, and a device whose quota was refused is gone
\* unless telemetry of it came in.
ProvisioningSettles ==
    <>[](\A d \in Devices :
            /\ d \in devices => Exists(d)
            /\ d \in Published("quota_allocation_failed_v1") \ readings
                  => d \notin devices)

-----------------------------------------------------------------------------
\* ADR-003, line 58: "Recovery worker automatically retries stuck sagas".
EverySagaEnds == \A d \in Devices : Exists(d) ~> Terminal(d)

\* ADR-003, line 59: "Compensation ensures no partial device registrations".
\* A saga that COMPLETED has left a device behind, as long as nothing fails and
\* no recovery round repeats a command: a repeated quota.allocate_device counts
\* the devices again after the compensation deleted this one.
CompletedIsRegistered ==
    used["failures"] = 0 /\ used["ticks"] = 0 =>
        \A d \in Devices : sagas[d].status = "COMPLETED" => d \in devices
====
