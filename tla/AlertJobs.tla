----------------------------- MODULE AlertJobs -----------------------------
(***************************************************************************)
(* From a risk score to the people it concerns.  workflow-alerts reads     *)
(* risk events from Kafka, drops repetitions by two in-memory maps and     *)
(* publishes alert jobs.  The jobs-worker consumes the RabbitMQ queues on  *)
(* one channel: an alert job becomes one email job per recipient, subject  *)
(* to the recipient's preferences, and one webhook job per endpoint;       *)
(* emails, webhooks and exports are delivered with retries and a           *)
(* dead-letter queue.  The gateway edits preferences and endpoints.        *)
(***************************************************************************)
EXTENDS JobQueue, FiniteSets

CONSTANTS
    Topic,         \* the risk events in their Kafka partition, in order
    Recipients,    \* the email addresses an event names, in order
    Endpoints,     \* webhook_endpoints rows the tenant may have
    InitPrefs,     \* the preference rows at the start
    Produced,      \* jobs other publishers put on a queue: <<queue, job>>
    MaxRetries,    \* per queue: MAX_RETRIES of its handler
    Cooldown,      \* COOLDOWN_MS in ticks
    ProcessedTtl,  \* PROCESSED_EVENT_TTL_MS in ticks
    Budgets        \* bounds: how much the environment does in a behaviour

VARIABLES
    pos, committed,       \* Kafka: messages handled, and the group's offset
    evaluating,           \* eachMessage awaits the serial number
    cooldowns, processed, \* the two maps, 0 for a missing entry
    now,                  \* the clock, from 1
    alertLog,             \* history: what publishAlert sent, when, since which start
    queues,               \* the broker's queues
    pc, msg,              \* per queue: where its handler is, and its message
    todo,                 \* the alert handler: recipients still to see
    chan,                 \* the jobs-worker's channel
    prefs,                \* notification_preferences
    endpoints,            \* webhook_endpoints: absent, off, on or deleted
    lastError,            \* endpoints whose last_error is set
    accepted,             \* history: jobs that entered a queue
    sent,                 \* how often the provider or the endpoint got a job
    skipped,              \* history: jobs the alert handler had reason not to queue
    budget, used          \* the bounds, and how much of each is used

flowVars == <<pos, committed, evaluating, cooldowns, processed, now, alertLog>>
workVars == <<pc, msg, todo, chan>>
dataVars == <<prefs, endpoints, lastError>>
vars == <<flowVars, queues, workVars, dataVars, accepted, sent, skipped, used,
          budget>>

-----------------------------------------------------------------------------
Range1(s) == {s[i] : i \in DOMAIN s}

\* events: messages of the topic that arrive; jobs: those of other publishers;
\* ticks of the clock; restarts of workflow-alerts; digest cycles; edits of
\* preferences and endpoints; failures: calls of a provider or an endpoint that
\* fail; faults: closed channels, lost answers and messages, expired messages,
\* database errors.
Bounds == {"events", "jobs", "ticks", "restarts", "digests", "edits",
           "failures", "faults"}
Most(b) == CHOOSE n \in {x[b] : x \in Budgets} : \A x \in Budgets : x[b] <= n

Devices == {e.device : e \in Range1(Topic)}
Levels == {"warn", "critical"}

\* eventKey of eachMessage, for an event with a source_event_id.
EventKey(e) == <<e.id, e.level>>
Keys == {EventKey(e) : e \in Range1(Topic)}

Malformed == <<"malformed">>
DigestKeys == {<<"digest", n>> : n \in 1 .. Most("digests")}
AlertJob(k) == <<"alert", k>>
EmailJob(k, r) == <<"email", k, r>>
WebhookJob(k, ep) == <<"webhook", k, ep>>
Jobs == [alerts |-> {AlertJob(k) : k \in Keys},
         emails |-> {EmailJob(k, r) : k \in Keys \cup DigestKeys,
                                      r \in Range1(Recipients)},
         webhooks |-> {WebhookJob(k, ep) : k \in Keys, ep \in Endpoints},
         exports |-> {j[2] : j \in {p \in Produced : p[1] = "exports"}}]
QUEUES == DOMAIN Jobs
AllJobs == {Malformed} \cup UNION {Jobs[q] : q \in QUEUES}

Row == [alerts : BOOLEAN, digest : BOOLEAN, levels : SUBSET Levels]
NoMsg == Msg(<<>>, 0)

\* How a user without a row is treated: every alert, and no digest.
NoRow == [alerts |-> TRUE, digest |-> FALSE, levels |-> Levels]

Start == [alerts |-> "emails", emails |-> "send", webhooks |-> "deliver",
          exports |-> "post"]
Labels == {"idle", "emails", "webhooks", "send", "deliver", "statusOk",
           "statusFail", "post", "requeue", "wait", "ack", "nack"}

\* The topic and the recipients are sequences.  The jobs of other publishers are
\* exports, or unreadable; a bound is a natural number, and no more events arrive
\* than the topic has.
ASSUME WindowsAssumption == Cooldown \in Nat /\ ProcessedTtl \in Nat
ASSUME SettingsAssumption ==
    /\ Topic \in Seq(Range1(Topic)) /\ Recipients \in Seq(Range1(Recipients))
    /\ IsFiniteSet(Endpoints) /\ InitPrefs \subseteq [Range1(Recipients) -> Row]
ASSUME JobsAssumption ==
    /\ \A q \in QUEUES : MaxRetries[q] \in Nat \ {0}
    /\ \A p \in Produced :
          /\ p[1] \in QUEUES
          /\ \/ p[2] = Malformed
             \/ p[1] = "exports" /\ DOMAIN p[2] = 1 .. 2 /\ p[2][1] = "export"
ASSUME BudgetsAssumption ==
    /\ Most("digests") \in Nat
    /\ \A x \in Budgets :
          /\ \A b \in Bounds : x[b] \in Nat
          /\ x.events <= Len(Topic) /\ x.digests <= Most("digests")

TypeOK ==
    /\ committed \in 0 .. pos /\ pos \in 0 .. Len(Topic)
    /\ evaluating \in BOOLEAN
    /\ cooldowns \in [Devices -> 0 .. now] /\ processed \in [Keys -> 0 .. now]
    /\ \A q \in QUEUES : IsQueue(queues[q], Jobs[q] \cup {Malformed},
                                 0 .. MaxRetries[q] - 1)
    /\ pc \in [QUEUES -> Labels]
    /\ \A q \in QUEUES : pc[q] = "idle" <=> msg[q] = NoMsg
    /\ chan \in {"open", "closed"}
    /\ prefs \in [Range1(Recipients) -> Row]
    /\ endpoints \in [Endpoints -> {"absent", "off", "on", "deleted"}]
    /\ lastError \subseteq Endpoints
    /\ accepted \subseteq AllJobs
    /\ sent \in [AllJobs -> Nat]

Init ==
    /\ pos = 0 /\ committed = 0 /\ evaluating = FALSE
    /\ cooldowns = [d \in Devices |-> 0] /\ processed = [k \in Keys |-> 0]
    /\ now = 1
    /\ alertLog = <<>>
    /\ queues = [q \in QUEUES |-> EmptyQueue]
    /\ pc = [q \in QUEUES |-> "idle"] /\ msg = [q \in QUEUES |-> NoMsg]
    /\ todo = <<>> /\ chan = "open"
    /\ prefs \in InitPrefs
    /\ endpoints \in [Endpoints -> {"absent", "on"}]
    /\ lastError = {}
    /\ accepted = {}
    /\ sent = [j \in AllJobs |-> 0]
    /\ skipped = {}
    /\ budget \in Budgets
    /\ used = [b \in Bounds |-> 0]

Spend(b) == used[b] < budget[b] /\ used' = [used EXCEPT ![b] = @ + 1]
MayFail(ok) == IF ok THEN UNCHANGED used ELSE Spend("faults")

-----------------------------------------------------------------------------
(* workflow-alerts *)

\* normalizeRiskEvent: only warnings and critical scores are of interest.
NormalizeRiskEvent(e) == e.level \in Levels

HasProcessed(k) == processed[k] > 0 /\ now - processed[k] < ProcessedTtl

\* Variant: the cooldown is kept by event and not by device.
IsOnCooldownByEvent(d) == FALSE

IsOnCooldown(d) == cooldowns[d] > 0 /\ now - cooldowns[d] < Cooldown

\* eachMessage up to its await.  What is dropped here is not marked processed.
EachMessage ==
    /\ ~evaluating /\ pos < budget.events
    /\ LET e == Topic[pos + 1]
           drop == \/ ~NormalizeRiskEvent(e)
                   \/ HasProcessed(EventKey(e))
                   \/ IsOnCooldown(e.device)
       IN evaluating' = ~drop /\ pos' = IF drop THEN pos + 1 ELSE pos
    /\ UNCHANGED <<committed, cooldowns, processed, now, alertLog, queues,
                   workVars, dataVars, accepted, sent, skipped, used>>

\* The rest of eachMessage.  The publisher awaits no confirmation, so a message
\* may be lost although publishAlert returned; and when the channel is closed
\* and connectRabbitMQ gives up, the error is logged and the event passed over.
PublishAlert ==
    LET e == Topic[pos + 1]
        k == EventKey(e)
    IN
    /\ evaluating
    /\ \E outcome \in {"stored", "lost", "failed"} :
          /\ MayFail(outcome = "stored")
          /\ queues' = IF outcome = "stored"
                       THEN [queues EXCEPT !.alerts =
                                SendToQueue(@, Msg(AlertJob(k), 0))]
                       ELSE queues
          /\ accepted' = IF outcome = "stored" THEN accepted \cup {AlertJob(k)}
                         ELSE accepted
          /\ IF outcome = "failed"
             THEN UNCHANGED <<cooldowns, processed, alertLog>>
             ELSE /\ cooldowns' = [cooldowns EXCEPT ![e.device] = now]
                  /\ processed' = [processed EXCEPT ![k] = now]
                  /\ alertLog' = Append(alertLog,
                        [key |-> k, device |-> e.device, at |-> now,
                         start |-> used.restarts])
    /\ pos' = pos + 1 /\ evaluating' = FALSE
    /\ UNCHANGED <<committed, now, workVars, dataVars, sent, skipped>>

\* The maps are gone, and the events after the offset that kafkajs had last
\* chosen to commit come again.
RestartWorkflow ==
    /\ Spend("restarts")
    /\ \E c \in committed .. pos : committed' = c /\ pos' = c
    /\ evaluating' = FALSE
    /\ cooldowns' = [d \in Devices |-> 0] /\ processed' = [k \in Keys |-> 0]
    /\ UNCHANGED <<now, alertLog, queues, workVars, dataVars, accepted, sent,
                   skipped>>

Tick ==
    /\ Spend("ticks")
    /\ now' = now + 1
    /\ UNCHANGED <<pos, committed, evaluating, cooldowns, processed, alertLog,
                   queues, workVars, dataVars, accepted, sent, skipped>>

-----------------------------------------------------------------------------
(* Other publishers: the producers of producer.ts, and unreadable messages. *)

PublishJob(q, j) ==
    /\ <<q, j>> \in Produced /\ j \notin accepted
    /\ Spend("jobs")
    /\ queues' = [queues EXCEPT ![q] = SendToQueue(@, Msg(j, 0))]
    /\ accepted' = accepted \cup {j}
    /\ UNCHANGED <<flowVars, workVars, dataVars, sent, skipped>>

\* The rows S of a query, in an order it may return them in.
Orders(S) == {rows \in [1 .. Cardinality(S) -> S] : Range1(rows) = S}

\* The messages of one publisher, in one go.
SendAll(q, js) ==
    /\ queues' = [queues EXCEPT ![q].ready =
                     @ \o [i \in DOMAIN js |-> Msg(js[i], 0)]]
    /\ accepted' = accepted \cup Range1(js)

\* runDigestCycle for the tenant: the users who have a row and want it.
RunDigestCycle ==
    /\ chan = "open"
    /\ Spend("digests")
    /\ \E users \in Orders({r \in Range1(Recipients) : prefs[r].digest}) :
          SendAll("emails", [i \in DOMAIN users |->
                    EmailJob(<<"digest", used.digests + 1>>, users[i])])
    /\ UNCHANGED <<flowVars, workVars, dataVars, sent, skipped>>

-----------------------------------------------------------------------------
(* The gateway. *)

\* PUT /notifications/preferences.  A field the request leaves out gets its
\* default: the COALESCE never sees a null.
PutPreferences(r) ==
    /\ Spend("edits")
    /\ \E alerts, digest \in BOOLEAN, levels \in {Levels, {"critical"}} :
          prefs' = [prefs EXCEPT ![r] =
                       [alerts |-> alerts, digest |-> digest, levels |-> levels]]
    /\ UNCHANGED <<flowVars, queues, workVars, endpoints, lastError, accepted, sent,
                   skipped>>

\* POST, PATCH and DELETE /webhooks.  "on" is enabled and subscribed to
\* telemetry.alert.  The id of a deleted row is not used again.
EditEndpoint(ep) ==
    /\ endpoints[ep] # "deleted"
    /\ Spend("edits")
    /\ \E s \in {"off", "on", "deleted"} \ {endpoints[ep]} :
          /\ endpoints[ep] = "absent" => s # "deleted"
          /\ endpoints' = [endpoints EXCEPT ![ep] = s]
          /\ lastError' = IF s = "deleted" THEN lastError \ {ep} ELSE lastError
    /\ UNCHANGED <<flowVars, queues, workVars, prefs, accepted, sent, skipped>>

-----------------------------------------------------------------------------
(* The jobs-worker: what the handlers share. *)

Goto(q, l) ==
    /\ pc' = [pc EXCEPT ![q] = l]
    /\ msg' = IF l = "idle" THEN [msg EXCEPT ![q] = NoMsg] ELSE msg

\* A message arrives: an unreadable one is dead-lettered at once.
Consume(q) ==
    /\ pc[q] = "idle" /\ chan = "open" /\ queues[q].ready # <<>>
    /\ LET m == Head(queues[q].ready) IN
       IF m.job = Malformed
       THEN /\ queues' = [queues EXCEPT ![q] = Nack(Deliver(@))]
            /\ UNCHANGED <<pc, msg, todo>>
       ELSE /\ queues' = [queues EXCEPT ![q] = Deliver(@)]
            /\ pc' = [pc EXCEPT ![q] = Start[q]]
            /\ msg' = [msg EXCEPT ![q] = m]
            /\ todo' = IF q = "alerts" THEN Recipients ELSE todo
    /\ UNCHANGED <<flowVars, chan, dataVars, accepted, sent, skipped, used>>

\* A call on the channel, which throws once the channel is closed.
OnChannel(q, from, queue, to) ==
    /\ pc[q] = from /\ chan = "open"
    /\ queues' = [queues EXCEPT ![q] = queue]
    /\ Goto(q, to)
    /\ UNCHANGED <<flowVars, todo, chan, dataVars, accepted, sent, skipped, used>>

\* Variant: nack with requeue where ack was meant.
AckJobRequeues(q) == OnChannel(q, "ack", Requeue(queues[q]), "idle")

AckJob(q) == OnChannel(q, "ack", Ack(queues[q]), "idle")
NackJob(q) == OnChannel(q, "nack", Nack(queues[q]), "idle")

Copy(q) == Msg(msg[q].job, msg[q].retry + 1)

\* The email handler retries by a copy at the end of the queue, then acks.
RequeueCopy(q) ==
    OnChannel(q, "requeue", SendToQueue(queues[q], Copy(q)), "ack")

\* The broker puts back what the closed channel's consumers held.
Close(qs) ==
    /\ chan' = "closed"
    /\ queues' = [q \in QUEUES |-> Requeue(qs[q])]

\* The retry timer of the other handlers: nack, which dead-letters the message,
\* then a copy.  The connection may break between the two.
RetryAfterDelay(q) ==
    /\ pc[q] = "wait" /\ chan = "open"
    /\ \/ /\ queues' = [queues EXCEPT ![q] = SendToQueue(Nack(@), Copy(q))]
          /\ UNCHANGED <<chan, used>>
       \/ /\ Spend("faults")
          /\ Close([queues EXCEPT ![q] = Nack(@)])
    /\ Goto(q, "idle")
    /\ UNCHANGED <<flowVars, todo, dataVars, accepted, sent, skipped>>

\* gracefulShutdown closes the channel first and lets the handlers run on; a
\* broken connection does the same.  Either way the process ends: after ten
\* seconds, with the error of the first call on the closed channel or, without
\* a handler under way, because nothing keeps its event loop alive.
CloseChannel ==
    /\ chan = "open"
    /\ Spend("faults")
    /\ Close(queues)
    /\ UNCHANGED <<flowVars, pc, msg, todo, dataVars, accepted, sent, skipped>>

\* Variant: shutting down waits for the handlers that hold a message.
RestartWorkerWhenIdle ==
    /\ chan = "closed" /\ chan' = "open"
    /\ \A q \in QUEUES : pc[q] = "idle"
    /\ UNCHANGED <<flowVars, queues, pc, msg, todo, dataVars, accepted, sent,
                   skipped, used>>

\* main of the next process: connect and start the workers.
RestartWorker ==
    /\ chan = "closed" /\ chan' = "open"
    /\ pc' = [q \in QUEUES |-> "idle"] /\ msg' = [q \in QUEUES |-> NoMsg]
    /\ todo' = <<>>
    /\ UNCHANGED <<flowVars, queues, dataVars, accepted, sent, skipped, used>>

ExpireJob(q) ==
    /\ queues[q].ready # <<>>
    /\ Spend("faults")
    /\ queues' = [queues EXCEPT ![q] = Expire(@)]
    /\ UNCHANGED <<flowVars, workVars, dataVars, accepted, sent, skipped>>

\* Variant: one attempt more.
ExhaustedLate(q) == msg[q].retry >= MaxRetries[q]

Exhausted(q) == msg[q].retry >= MaxRetries[q] - 1

-----------------------------------------------------------------------------
(* The alert handler. *)

ShouldSendEmail(r, level) == prefs[r].alerts /\ level \in prefs[r].levels

\* One round of processAlert's loop.  When the preferences cannot be read the
\* email is sent.
AlertEmail ==
    LET k == msg["alerts"].job[2]
        j == EmailJob(k, Head(todo))
    IN
    /\ pc["alerts"] = "emails" /\ chan = "open" /\ todo # <<>>
    /\ \E read \in BOOLEAN :
          /\ MayFail(read)
          /\ IF read /\ ~ShouldSendEmail(Head(todo), k[2])
             THEN skipped' = skipped \cup {j} /\ UNCHANGED <<queues, accepted>>
             ELSE SendAll("emails", <<j>>) /\ UNCHANGED skipped
    /\ todo' = Tail(todo)
    /\ UNCHANGED <<flowVars, pc, msg, chan, dataVars, sent>>

\* Variant: the alert is acknowledged before its webhooks are queued.
AlertWebhooksNone ==
    /\ pc["alerts"] = "emails" /\ chan = "open" /\ todo = <<>>
    /\ Goto("alerts", "ack")
    /\ UNCHANGED <<flowVars, queues, todo, chan, dataVars, accepted, sent,
                   skipped, used>>

\* fanOutToWebhooks: one job for each endpoint that listens; an error of the
\* query is logged and the alert goes without webhooks.
AlertWebhooks ==
    LET k == msg["alerts"].job[2]
        on == {ep \in Endpoints : endpoints[ep] = "on"}
        jobsFor(S) == {WebhookJob(k, ep) : ep \in S}
    IN
    /\ pc["alerts"] = "emails" /\ chan = "open" /\ todo = <<>>
    /\ \E read \in BOOLEAN :
          /\ MayFail(read)
          /\ IF read
             THEN /\ \E eps \in Orders(on) :
                        SendAll("webhooks", [i \in DOMAIN eps |-> WebhookJob(k, eps[i])])
                  /\ skipped' = skipped \cup jobsFor(Endpoints \ on)
             ELSE /\ skipped' = skipped \cup jobsFor(Endpoints)
                  /\ UNCHANGED <<queues, accepted>>
    /\ Goto("alerts", "ack")
    /\ UNCHANGED <<flowVars, todo, chan, dataVars, sent>>

-----------------------------------------------------------------------------
(* The handlers that deliver.  None of these calls is on the channel, so they *)
(* happen after it is closed as well.                                         *)

\* The call arrives (got) or not and is reported good (ok) or not; an answer
\* that is lost after the call arrived is a fault.
Call(q, got, ok) ==
    /\ ok => got
    /\ CASE ok -> UNCHANGED used
         [] got /\ ~ok -> Spend("faults")
         [] ~got -> Spend("failures")
    /\ sent' = IF got THEN [sent EXCEPT ![msg[q].job] = @ + 1] ELSE sent

\* sendEmail and what startEmailWorker does with its outcome.  An error that
\* Resend reports has code 400 and is not retried; one that was thrown is,
\* without any delay.
SendEmail ==
    /\ pc["emails"] = "send"
    /\ \E got, ok, refused \in BOOLEAN :
          /\ refused => ~got
          /\ Call("emails", got, ok)
          /\ Goto("emails", IF ok THEN "ack"
                            ELSE IF refused \/ Exhausted("emails") THEN "nack"
                            ELSE "requeue")
    /\ UNCHANGED <<flowVars, queues, todo, chan, dataVars, accepted, skipped>>

\* generateExport: an export whose query failed is posted empty.
PostExport ==
    /\ pc["exports"] = "post"
    /\ \E got, ok \in BOOLEAN :
          /\ Call("exports", got, ok)
          /\ Goto("exports", IF ok THEN "ack"
                             ELSE IF Exhausted("exports") THEN "nack" ELSE "wait")
    /\ UNCHANGED <<flowVars, queues, todo, chan, dataVars, accepted, skipped>>

\* What the catch of the webhook handler does next.
AfterError == IF Exhausted("webhooks") THEN "statusFail" ELSE "wait"

\* deliverWebhook and recordDelivery, which leaves no row whatever the outcome:
\* its INSERT names no tenant_id, the column is NOT NULL, and the error is
\* logged.
DeliverWebhook ==
    /\ pc["webhooks"] = "deliver"
    /\ \E got, ok \in BOOLEAN :
          /\ Call("webhooks", got, ok)
          /\ Goto("webhooks", IF ok THEN "statusOk" ELSE AfterError)
    /\ UNCHANGED <<flowVars, queues, todo, chan, dataVars, accepted, skipped>>

\* The ack of a delivered webhook is within the try: on a closed channel it
\* throws, and the handler takes the webhook for failed.
AckThrows ==
    /\ pc["webhooks"] = "ack" /\ chan = "closed"
    /\ Goto("webhooks", AfterError)
    /\ UNCHANGED <<flowVars, queues, todo, chan, dataVars, accepted, sent,
                   skipped, used>>

\* updateEndpointStatus: best effort.
UpdateEndpointStatus ==
    LET ep == msg["webhooks"].job[3] IN
    /\ pc["webhooks"] \in {"statusOk", "statusFail"}
    /\ \E written \in BOOLEAN :
          /\ MayFail(written)
          /\ lastError' =
                CASE ~written \/ endpoints[ep] = "deleted" -> lastError
                  [] OTHER -> IF pc["webhooks"] = "statusOk"
                              THEN lastError \ {ep} ELSE lastError \cup {ep}
    /\ Goto("webhooks", IF pc["webhooks"] = "statusOk" THEN "ack" ELSE "nack")
    /\ UNCHANGED <<flowVars, queues, todo, chan, prefs, endpoints, accepted,
                   sent, skipped>>

-----------------------------------------------------------------------------
WorkflowStep == EachMessage \/ PublishAlert

HandlerStep(q) ==
    \/ Consume(q) \/ AckJob(q) \/ NackJob(q)
    \/ RequeueCopy(q) \/ RetryAfterDelay(q)
    \/ q = "alerts" /\ (AlertEmail \/ AlertWebhooks)
    \/ q = "emails" /\ SendEmail
    \/ q = "exports" /\ PostExport
    \/ q = "webhooks" /\ (DeliverWebhook \/ AckThrows \/ UpdateEndpointStatus)

Step ==
    \/ WorkflowStep \/ RestartWorkflow \/ Tick
    \/ RunDigestCycle \/ CloseChannel \/ RestartWorker
    \/ \E r \in Range1(Recipients) : PutPreferences(r)
    \/ \E ep \in Endpoints : EditEndpoint(ep)
    \/ \E q \in QUEUES : HandlerStep(q) \/ ExpireJob(q)
    \/ \E p \in Produced : PublishJob(p[1], p[2])

Next == Step /\ UNCHANGED budget

Spec == Init /\ [][Next]_vars

\* The Kafka consumer polls, RabbitMQ pushes to an idle consumer and a stopped
\* worker is started again.
FairSpec ==
    /\ Spec
    /\ WF_vars(WorkflowStep /\ UNCHANGED budget)
    /\ WF_vars(RestartWorker /\ UNCHANGED budget)
    /\ \A q \in QUEUES : WF_vars(HandlerStep(q) /\ UNCHANGED budget)

-----------------------------------------------------------------------------
IsWaiting(j) == \E q \in QUEUES : j \in Waiting(queues[q])
IsDead(j) == \E q \in QUEUES : j \in Dead(queues[q])

\* The jobs an alert is to be turned into.
FanOut(k) == {EmailJob(k, r) : r \in Range1(Recipients)}
                 \cup {WebhookJob(k, ep) : ep \in Endpoints}

Finished(j) == IF j \in Jobs.alerts THEN FanOut(j[2]) \subseteq accepted \cup skipped
                                    ELSE sent[j] > 0

\* Whatever closes the channel and whenever, a job that entered a queue is
\* still there, was dead-lettered or was done; an alert is done when each email
\* and webhook it stands for entered a queue of its own or was left out for a
\* reason (preferences, endpoint not listening, endpoints unreadable).  The
\* handlers acknowledge last and publish on the channel they acknowledge on.
NothingLost ==
    \A j \in accepted : IsWaiting(j) \/ IsDead(j) \/ Finished(j)

\* What published a job: the alerts of its event, or one cycle or request.
FromAlert(j) == j[1] # "export" /\ j[2] \in Keys
Causes(j) ==
    IF FromAlert(j)
    THEN Cardinality({i \in DOMAIN alertLog : alertLog[i].key = j[2]})
    ELSE 1

\* Duplicates come from faults only: a retry repeats a call that failed.  One
\* closed channel makes the broker deliver the held email again and the alert
\* it came from, which queues the email anew: two more for each fault at most
\* where an alert is behind the job, one more otherwise.
DuplicatesNeedFault ==
    \A j \in AllJobs \ (Jobs.alerts \cup {Malformed}) :
        sent[j] <= Causes(j) + (IF FromAlert(j) THEN 2 ELSE 1) * used.faults

\* Within one run of workflow-alerts two alerts of a device are the cooldown
\* apart, and two of an event the longer time processedEvents remembers it.
AlertsSpaced ==
    \A i, j \in DOMAIN alertLog :
        (i < j /\ alertLog[i].start = alertLog[j].start) =>
            LET gap == alertLog[j].at - alertLog[i].at IN
            /\ alertLog[i].device = alertLog[j].device => gap >= Cooldown
            /\ alertLog[i].key = alertLog[j].key => gap >= ProcessedTtl

\* Once the events, faults and edits have stopped, every queue drains: retries
\* end, and a closed channel is replaced.
QueuesDrain ==
    <>[](\A q \in QUEUES : queues[q].ready = <<>> /\ queues[q].held = <<>>)
====
