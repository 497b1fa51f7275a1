------------------------------ MODULE Billing ------------------------------
(***************************************************************************)
(* The subscription and the devices of the tenant of module Tenancy.  The  *)
(* gateway opens Stripe checkouts, queues Stripe's webhook events and      *)
(* checks the device quota; the Stripe workers of the jobs-worker apply    *)
(* the events to tenants, tenant_billing and devices, one transaction      *)
(* each.  Account deletion takes all of it away.                           *)
(***************************************************************************)
EXTENDS Tenancy, Integers, Sequences

CONSTANTS
    Workers,       \* jobs-worker replicas
    Subs,          \* subscriptions Stripe may create
    FreeLimit,     \* FREE_DEVICE_LIMIT
    PaidLimits,    \* devices of each paid plan, -1 for no limit
    Priced,        \* the plans checkout sells
    MaxRetries,    \* MAX_RETRIES
    MaxRows        \* rows of an import at most

ASSUME LimitsAssumption ==
    /\ FreeLimit \in Nat
    /\ \A p \in DOMAIN PaidLimits : PaidLimits[p] \in Nat \cup {-1}
    /\ Priced \subseteq DOMAIN PaidLimits
    /\ MaxRetries \in Nat \ {0} /\ MaxRows \in Nat
    /\ \A b \in Budgets : IsFiniteSet(b.workers)

VARIABLES
    account,      \* tenants: plan, subscription_status, current_period_end
    billing,      \* the tenant_billing row
    devices,      \* by age: is it disabled
    clock,        \* billing periods gone by
    customers,    \* Stripe: how many customers were created
    sessions,     \* Stripe: open checkouts
    subs,         \* Stripe: the subscriptions: status, customer, the plan in the
                  \* metadata and the plan of the price
    events,       \* Stripe: all events, in the order they happened
    queue,        \* grainguard.stripe.billing: [id, retry]
    declared,     \* how the queue was declared: "none", "plain" or "dlx"
    dead,         \* events in the dead-letter queue
    worker,       \* per replica: where it is, its message, what it read
    log,          \* stripe_webhook_events, in the order of the commits
    queued,       \* history: events that were ever put on the queue
    told,         \* history: how often each event's email was queued
    settled,      \* history: no device and no date changed since a reconcile
    allowed       \* history: the largest limit under which a request was let in

billingVars == <<account, billing, devices, clock, customers, sessions, subs,
                 events, queue, declared, dead, worker, log, queued, told, settled,
                 allowed>>
stripeVars == <<customers, sessions, subs, events>>
workVars == <<queue, declared, dead, worker, log, queued, told>>
deviceVars == <<devices, settled, allowed>>
vars == <<tenancyVars, billingVars>>

Plans == DOMAIN PaidLimits \cup {"free"}
Statuses == {"none", "trialing", "active", "past_due", "cancelled"}
NewAccount == [plan |-> "free", status |-> "trialing", ends |-> 0]
NoSub == "none"
NoBilling == [exists |-> FALSE, customer |-> 0, sub |-> NoSub, plan |-> "free",
              status |-> "none"]
Larger(m, n) == IF m > n THEN m ELSE n

NoContext == [found |-> FALSE, plan |-> "free", ends |-> 0]
NoMessage == [id |-> 0, retry |-> 0]
NoWork(at) == [at |-> at, msg |-> NoMessage, context |-> NoContext]

BillingTypeOK ==
    /\ account.plan \in Plans /\ account.status \in Statuses
    /\ billing.plan \in Plans /\ billing.status \in Statuses
    /\ billing.customer \in 0 .. customers
    /\ billing.sub \in {s \in Subs : subs[s].state # "none"} \cup {NoSub}
    /\ devices \in Seq(BOOLEAN)
    /\ \A i \in DOMAIN queue : /\ queue[i].id \in DOMAIN events
                               /\ queue[i].retry \in 0 .. MaxRetries - 1
    /\ declared \in {"none", "plain", "dlx"}
    /\ dead \subseteq DOMAIN events
    /\ \A w \in Workers : worker[w].at \in {"down", "idle", "begin", "commit",
                             "email", "ack", "wait"}

TypeOK == TenancyTypeOK /\ BillingTypeOK

Init ==
    /\ TenancyInit
    /\ account = NewAccount /\ billing = NoBilling
    /\ devices = <<>> /\ clock = 0
    /\ customers = 0 /\ sessions = {}
    /\ subs = [s \in Subs |-> [state |-> "none", plan |-> "free", price |-> "free",
                               customer |-> 0]]
    /\ events = <<>> /\ queue = <<>> /\ declared = "none" /\ dead = {}
    /\ worker = [w \in Workers |-> NoWork("down")]
    /\ log = <<>> /\ queued = {} /\ told = <<>>
    /\ settled = TRUE /\ allowed = 0

-----------------------------------------------------------------------------
(* Limits.  The worker and the gateway each have their own hasPaidAccess.    *)

\* Variant: what was paid is not forgotten when the period is unknown.
HasPaidAccessAlways(status, ends) ==
    status \in {"active", "trialing", "past_due", "cancelled"}

\* hasPaidAccess of the worker; no date is 0.
HasPaidAccess(status, ends) ==
    \/ status \in {"active", "trialing"}
    \/ status \in {"past_due", "cancelled"} /\ ends > clock

PlanDeviceLimit(plan, status, ends) ==
    IF HasPaidAccess(status, ends) /\ plan \in DOMAIN PaidLimits
    THEN PaidLimits[plan] ELSE FreeLimit

\* checkDeviceQuota, with the gateway's hasPaidAccess and quotaLimitForPlan.
QuotaLimit ==
    LET paid == /\ account.plan \in DOMAIN PaidLimits
                /\ \/ account.status \in {"active", "trialing"}
                   \/ account.status \in {"past_due", "cancelled"}
                         /\ account.ends > clock
    IN IF paid THEN PaidLimits[account.plan] ELSE FreeLimit

\* Variant: one device more.
QuotaAllowsOneMore ==
    tenant.state = "live" /\ (QuotaLimit = -1 \/ Len(devices) <= QuotaLimit)

QuotaAllows ==
    tenant.state = "live" /\ (QuotaLimit = -1 \/ Len(devices) < QuotaLimit)

\* reconcileTenantDevices: the oldest stay enabled.
Reconciled(limit) ==
    [i \in DOMAIN devices |-> limit # -1 /\ i > limit]

-----------------------------------------------------------------------------
(* The gateway: checkout and the webhook. *)

Checkout(u, plan) ==
    /\ InTenant(u) /\ plan \in Priced
    /\ Begin(u, "checkout", IF billing.customer = 0 THEN "customer" ELSE "session",
             plan, billing.customer)
    /\ UNCHANGED <<rowVars, authVars, billingVars>>

CreateCustomer(u) ==
    /\ At(u, "checkout", "customer")
    /\ customers' = customers + 1
    /\ req' = [req EXCEPT ![u].at = "upsert", ![u].seen = customers + 1]
    /\ UNCHANGED <<rowVars, authVars, overlap, used, account, billing, clock,
                   sessions, subs, events, workVars, deviceVars>>

\* Refused by the foreign key once the tenant is gone.
UpsertCustomer(u) ==
    /\ At(u, "checkout", "upsert")
    /\ GoOr(u, tenant.state = "live", "session")
    /\ billing' = IF tenant.state = "live"
                  THEN [billing EXCEPT !.exists = TRUE, !.customer = req[u].seen]
                  ELSE billing
    /\ UNCHANGED <<rowVars, authVars, overlap, used, account, clock, stripeVars,
                   workVars, deviceVars>>

CreateSession(u) ==
    /\ At(u, "checkout", "session")
    /\ sessions' = sessions \cup {[customer |-> req[u].seen, plan |-> req[u].arg]}
    /\ Answer(u)
    /\ UNCHANGED <<rowVars, authVars, overlap, used, account, billing, clock,
                   customers, subs, events, workVars, deviceVars>>

\* stripeWebhookHandler: publishToStripeQueue declares the queue without the
\* worker's arguments, which the broker refuses where the worker declared it;
\* the answer is then 500 and nothing happened.
StripeWebhook(k) ==
    /\ declared # "dlx"
    /\ declared' = "plain"
    /\ queue' = Append(queue, [id |-> k, retry |-> 0])
    /\ queued' = queued \cup {k}
    /\ UNCHANGED <<dead, worker, log, told>>

\* A message put on the existing queue by hand, as the smoke test does.
PublishDirectly(k) ==
    /\ declared # "none"
    /\ queue' = Append(queue, [id |-> k, retry |-> 0])
    /\ queued' = queued \cup {k}
    /\ UNCHANGED <<declared, dead, worker, log, told>>

\* An event reaches the queue once, and again only as a fault.
QueueEvent(k) ==
    /\ MayFail(k \notin queued)
    /\ StripeWebhook(k) \/ PublishDirectly(k)
    /\ UNCHANGED <<rowVars, authVars, req, overlap, account, billing, clock,
                   stripeVars, deviceVars>>

\* Stripe repeats a webhook until it is answered with success.
Redeliver(k) == k \notin queued /\ StripeWebhook(k) /\ QueueEvent(k)

-----------------------------------------------------------------------------
(* Stripe: what happens to a subscription, and the event that says so. *)

Event(type, s, status, ends) ==
    [type |-> type, sub |-> s, customer |-> subs'[s].customer,
     plan |-> subs'[s].plan, status |-> status, ends |-> ends]

Emit(type, s, status, ends) ==
    /\ Spend("events")
    /\ events' = Append(events, Event(type, s, status, ends))
    /\ told' = Append(told, 0)
    /\ UNCHANGED <<rowVars, authVars, req, overlap, account, billing, clock,
                   customers, queue, declared, dead, worker, log, queued, deviceVars>>

CompleteCheckout(x, s) ==
    /\ x \in sessions /\ subs[s].state = "none"
    /\ sessions' = sessions \ {x}
    /\ subs' = [subs EXCEPT ![s] = [state |-> "active", plan |-> x.plan,
                                    price |-> x.plan, customer |-> x.customer]]
    /\ Emit("checkout.session.completed", s, "active", 0)

\* The payload of subscription.updated has the subscription's status and, in
\* Stripe's older API versions, the end of its period; the newer ones nest that,
\* and the subscription of an invoice, where the code does not look.  A paid
\* invoice has the period it pays for.
ChangeSubscription(s, type, status, ends) ==
    /\ subs[s].state \in {"active", "past_due", "trialing"}
    /\ subs' = [subs EXCEPT ![s].state = status]
    /\ UNCHANGED sessions
    /\ Emit(type, s, status, ends)

\* The period's end that a subscription.updated carries.
PayloadEnds == IF budget.nested THEN 0 ELSE clock + 1

\* In the portal the customer takes another plan.  The price changes; the
\* metadata that checkout gave the subscription does not, and the worker reads
\* that first.
SwitchPrice(s, plan) ==
    /\ subs[s].state \in {"active", "past_due", "trialing"}
    /\ plan # subs[s].price
    /\ subs' = [subs EXCEPT ![s].price = plan]
    /\ UNCHANGED sessions
    /\ Emit("customer.subscription.updated", s, subs[s].state, PayloadEnds)

StripeStep(s) ==
    \/ \E x \in sessions : CompleteCheckout(x, s)
    \/ \E status \in {"active", "past_due", "trialing"} :
          ChangeSubscription(s, "customer.subscription.updated", status, PayloadEnds)
    \/ \E plan \in DOMAIN PaidLimits : SwitchPrice(s, plan)
    \/ ChangeSubscription(s, "customer.subscription.deleted", "cancelled", 0)
    \/ ChangeSubscription(s, "invoice.payment_succeeded", "active", clock + 1)
    \/ ChangeSubscription(s, "invoice.payment_failed", "past_due", 0)
    \/ ChangeSubscription(s, "customer.subscription.trial_will_end",
                          subs[s].state, 0)

PeriodEnds ==
    /\ Spend("periods")
    /\ clock' = clock + 1 /\ settled' = FALSE
    /\ UNCHANGED <<rowVars, authVars, req, overlap, account, billing, devices,
                   allowed, stripeVars, workVars>>

-----------------------------------------------------------------------------
(* The Stripe worker. *)

IsCheckout(e) == e.type = "checkout.session.completed"
IsInvoice(e) == e.type \in {"invoice.payment_succeeded", "invoice.payment_failed"}

EventOf(w) == events[worker[w].msg.id]
IsLogged(k) == \E i \in DOMAIN log : log[i] = k

WorkerAt(w, at) == [worker EXCEPT ![w].at = at]
Unacked(w) == IF worker[w].msg = NoMessage THEN <<>> ELSE <<worker[w].msg>>

\* What a worker leaves alone while it is not writing to the tenant.
OnlyWork ==
    UNCHANGED <<rowVars, authVars, req, overlap, account, billing, clock,
                stripeVars, deviceVars>>

\* connect: the queue with its dead-letter arguments.  Where the gateway
\* declared it without, ten attempts fail and the process ends.
ConnectWorker(w) ==
    /\ w \in budget.workers
    /\ worker[w].at = "down" /\ declared # "plain"
    /\ declared' = "dlx" /\ worker' = WorkerAt(w, "idle")
    /\ UNCHANGED <<queue, dead, log, queued, told, used>> /\ OnlyWork

StopWorker(w) ==
    /\ worker[w].at # "down"
    /\ Spend("faults")
    /\ queue' = Unacked(w) \o queue
    /\ worker' = [worker EXCEPT ![w] = NoWork("down")]
    /\ UNCHANGED <<declared, dead, log, queued, told>> /\ OnlyWork

ConsumeEvent(w) ==
    /\ worker[w].at = "idle" /\ queue # <<>>
    /\ worker' = [worker EXCEPT ![w].at = "begin", ![w].msg = Head(queue)]
    /\ queue' = Tail(queue)
    /\ UNCHANGED <<declared, dead, log, queued, told, used>> /\ OnlyWork

\* Variant: only by the subscription.
FindBillingContextBySub(e) ==
    IF billing.exists /\ ~(budget.nested /\ IsInvoice(e)) /\ billing.sub = e.sub
    THEN [found |-> TRUE, plan |-> billing.plan, ends |-> account.ends]
    ELSE NoContext

\* findBillingContext: by the tenant in the subscription's metadata for an
\* update, else by the subscription, or by the customer where the payload names
\* no subscription.
FindBillingContext(e) ==
    IF /\ billing.exists
       /\ \/ e.type = "customer.subscription.updated"
          \/ ~(budget.nested /\ IsInvoice(e)) /\ billing.sub = e.sub
          \/ budget.nested /\ IsInvoice(e) /\ billing.customer = e.customer
    THEN [found |-> TRUE, plan |-> billing.plan, ends |-> account.ends]
    ELSE NoContext

\* Variant: the event is not looked up in stripe_webhook_events.
BeginStripeEventUnmarked(w) ==
    /\ worker[w].at = "begin"
    /\ worker' = [worker EXCEPT ![w].at = "commit",
                                ![w].context = FindBillingContext(EventOf(w))]
    /\ UNCHANGED <<queue, declared, dead, log, queued, told, used>> /\ OnlyWork

\* Variant: an event that was processed before is not acknowledged.
BeginStripeEventNoAck(w) ==
    LET k == worker[w].msg.id IN
    /\ worker[w].at = "begin" /\ ~IsLogged(k)
    /\ \A v \in Workers \ {w} : ~(worker[v].at = "commit" /\ worker[v].msg.id = k)
    /\ worker' = [worker EXCEPT ![w].at = "commit",
                                ![w].context = FindBillingContext(EventOf(w))]
    /\ UNCHANGED <<queue, declared, dead, log, queued, told, used>> /\ OnlyWork

\* processStripeEvent up to the context.  The row of markProcessed makes a
\* second transaction for the same event wait for the first to end.
BeginStripeEvent(w) ==
    LET k == worker[w].msg.id IN
    /\ worker[w].at = "begin"
    /\ \A v \in Workers \ {w} : ~(worker[v].at = "commit" /\ worker[v].msg.id = k)
    /\ worker' = IF IsLogged(k) THEN WorkerAt(w, "ack")
                 ELSE [worker EXCEPT ![w].at = "commit",
                                     ![w].context = FindBillingContext(EventOf(w))]
    /\ UNCHANGED <<queue, declared, dead, log, queued, told, used>> /\ OnlyWork

\* What an event makes of the subscription, and the device limit it sets.
Effect(e, c) ==
    CASE IsCheckout(e) ->
           [plan |-> e.plan, status |-> "active", ends |-> account.ends,
            sub |-> e.sub, limit |-> PlanDeviceLimit(e.plan, "active", 0)]
      [] e.type = "customer.subscription.updated" ->
           [plan |-> e.plan, status |-> e.status, ends |-> e.ends, sub |-> e.sub,
            limit |-> PlanDeviceLimit(e.plan, e.status, e.ends)]
      [] e.type = "customer.subscription.deleted" ->
           [plan |-> "free", status |-> "cancelled", ends |-> 0,
            sub |-> NoSub, limit |-> FreeLimit]
      [] e.type = "invoice.payment_succeeded" ->
           [plan |-> account.plan, status |-> "active", ends |-> e.ends,
            sub |-> billing.sub, limit |-> PlanDeviceLimit(c.plan, "active", e.ends)]
      [] e.type = "invoice.payment_failed" ->
           [plan |-> account.plan, status |-> "past_due", ends |-> account.ends,
            sub |-> billing.sub,
            limit |-> PlanDeviceLimit(c.plan, "past_due", c.ends)]

Notifies(e) == e.type \in {"invoice.payment_failed",
                           "customer.subscription.trial_will_end"}

Changes(e, c) ==
    \/ IsCheckout(e)
    \/ c.found /\ e.type # "customer.subscription.trial_will_end"

\* The device rows that an account deletion under way has deleted.
Locked == \E u \in Users : At(u, "leave", "commit") /\ req[u].seen > 0

\* The rest of the transaction.  The update of a tenant that is gone by now
\* changes no row; inserting its billing row is refused.
CommitStripeEvent(w) ==
    LET e == EventOf(w)
        c == worker[w].context
        x == Effect(e, c)
        changes == Changes(e, c) /\ tenant.state = "live"
    IN
    /\ worker[w].at = "commit" /\ ~Locked
    /\ IsCheckout(e) => tenant.state = "live"
    /\ log' = Append(log, worker[w].msg.id)
    /\ IF changes
       THEN /\ account' = [plan |-> x.plan, status |-> x.status, ends |-> x.ends]
            /\ billing' = [exists |-> TRUE,
                  customer |-> IF IsCheckout(e) \/ e.type = "customer.subscription.updated"
                               THEN e.customer ELSE billing.customer,
                  sub |-> x.sub,
                  plan |-> IF IsInvoice(e) THEN billing.plan ELSE x.plan,
                  status |-> x.status]
            /\ devices' = Reconciled(x.limit)
            /\ settled' = TRUE
       ELSE UNCHANGED <<account, billing, devices, settled>>
    /\ worker' = WorkerAt(w, IF Notifies(e) /\ c.found /\ Admins # {}
                             THEN "email" ELSE "ack")
    /\ UNCHANGED <<rowVars, authVars, req, overlap, used, clock, allowed,
                   stripeVars, queue, declared, dead, queued, told>>

\* The emails go out after the commit.
QueueOwnerEmail(w) ==
    /\ worker[w].at = "email"
    /\ told' = [told EXCEPT ![worker[w].msg.id] = @ + 1]
    /\ worker' = WorkerAt(w, "ack")
    /\ UNCHANGED <<queue, declared, dead, log, queued, used>> /\ OnlyWork

AckEvent(w) ==
    /\ worker[w].at = "ack"
    /\ worker' = [worker EXCEPT ![w] = NoWork("idle")]
    /\ UNCHANGED <<queue, declared, dead, log, queued, told, used>> /\ OnlyWork

\* Variant: one retry too many.
FailStripeEventLate(w) ==
    /\ worker[w].at \in {"begin", "commit"}
    /\ MayFail(/\ worker[w].at = "commit" /\ IsCheckout(EventOf(w))
               /\ tenant.state # "live")
    /\ IF worker[w].msg.retry >= MaxRetries
       THEN /\ dead' = dead \cup {worker[w].msg.id}
            /\ worker' = [worker EXCEPT ![w] = NoWork("idle")]
       ELSE UNCHANGED dead /\ worker' = WorkerAt(w, "wait")
    /\ UNCHANGED <<queue, declared, log, queued, told>> /\ OnlyWork

\* The transaction fails and is rolled back: the database is away, or the
\* foreign key refuses the billing row.
FailStripeEvent(w) ==
    /\ worker[w].at \in {"begin", "commit"}
    /\ MayFail(/\ worker[w].at = "commit" /\ IsCheckout(EventOf(w))
               /\ tenant.state # "live")
    /\ IF worker[w].msg.retry >= MaxRetries - 1
       THEN /\ dead' = dead \cup {worker[w].msg.id}
            /\ worker' = [worker EXCEPT ![w] = NoWork("idle")]
       ELSE UNCHANGED dead /\ worker' = WorkerAt(w, "wait")
    /\ UNCHANGED <<queue, declared, log, queued, told>> /\ OnlyWork

\* The retry timer: the copy, then the ack; the channel may close in between.
RetryEvent(w) ==
    LET copy == [worker[w].msg EXCEPT !.retry = @ + 1] IN
    /\ worker[w].at = "wait"
    /\ \E acked \in BOOLEAN :
          /\ MayFail(acked)
          /\ queue' = (IF acked THEN <<>> ELSE Unacked(w)) \o Append(queue, copy)
          /\ worker' = [worker EXCEPT ![w] =
                           NoWork(IF acked THEN "idle" ELSE "down")]
    /\ UNCHANGED <<declared, dead, log, queued, told>> /\ OnlyWork

\* A message not consumed within a day is dead-lettered.
ExpireEvent ==
    /\ declared = "dlx" /\ queue # <<>>
    /\ Spend("periods")
    /\ dead' = dead \cup {Head(queue).id} /\ queue' = Tail(queue)
    /\ UNCHANGED <<declared, worker, log, queued, told>> /\ OnlyWork

WorkerStep(w) ==
    \/ ConnectWorker(w) \/ ConsumeEvent(w) \/ BeginStripeEvent(w)
    \/ CommitStripeEvent(w) \/ QueueOwnerEmail(w) \/ AckEvent(w)
    \/ FailStripeEvent(w) \/ RetryEvent(w)

-----------------------------------------------------------------------------
(* Devices: the quota is checked once, the rows come later. *)

OnlyDevices ==
    UNCHANGED <<rowVars, authVars, account, billing, clock, stripeVars, workVars>>

\* POST /devices, and the import, which needs a role.
RequestDevices(u, how, rows) ==
    /\ InTenant(u)
    /\ how = "import" => token[u].roles # {}
    /\ Begin(u, "devices", "quota", how, rows)
    /\ UNCHANGED deviceVars /\ OnlyDevices

\* deviceQuotaMiddleware, and the import's check, which is one for all its
\* rows.  Both let the request pass when the check itself fails.
CheckQuota(u) ==
    LET next == IF req[u].arg = "import" THEN "job" ELSE "create" IN
    /\ At(u, "devices", "quota")
    /\ \E checked \in BOOLEAN :
          /\ MayFail(checked)
          /\ GoOr(u, checked => QuotaAllows, next)
          /\ allowed' = IF checked /\ QuotaAllows THEN Larger(allowed, QuotaLimit)
                        ELSE allowed
    /\ UNCHANGED <<overlap, devices, settled>> /\ OnlyDevices

\* The bulk_import_jobs row: refused once the tenant is gone.
InsertImportJob(u) ==
    /\ At(u, "devices", "job")
    /\ GoOr(u, tenant.state = "live", "create")
    /\ UNCHANGED <<overlap, used, deviceVars>> /\ OnlyDevices

\* createDevice: the telemetry-service adds the row or not.  devices has no
\* foreign key to tenants.
CreateDevice(added) ==
    /\ MayFail(added)
    /\ devices' = IF added THEN Append(devices, FALSE) ELSE devices
    /\ settled' = (settled /\ ~added)

\* One row of an import, or the only one of a single request.  The loop goes on
\* after a row that failed.
CreateRow(u) ==
    /\ At(u, "devices", "create")
    /\ \E added \in BOOLEAN : CreateDevice(added)
    /\ IF req[u].seen = 1 THEN Answer(u)
       ELSE req' = [req EXCEPT ![u].seen = @ - 1]
    /\ UNCHANGED <<overlap, allowed>> /\ OnlyDevices

DeleteDevice(u, i) ==
    /\ InTenant(u) /\ i \in DOMAIN devices /\ ~Locked
    /\ AtOnce(u, "delete")
    /\ devices' = SubSeq(devices, 1, i - 1) \o SubSeq(devices, i + 1, Len(devices))
    /\ settled' = FALSE
    /\ UNCHANGED allowed /\ OnlyDevices

-----------------------------------------------------------------------------
(* DELETE /account/me by the last admin: the devices that exist by then, then  *)
(* the tenant, in one transaction.                                            *)

EraseDevices(u) ==
    /\ At(u, "leave", "erase")
    /\ ~Locked
    /\ req' = [req EXCEPT ![u].at = "commit", ![u].seen = Len(devices)]
    /\ UNCHANGED <<rowVars, authVars, overlap, used, billingVars>>

EraseTenant(u) ==
    /\ CommitErase(u)
    /\ devices' = SubSeq(devices, req[u].seen + 1, Len(devices))
    /\ settled' = FALSE
    /\ billing' = NoBilling /\ account' = NewAccount
    /\ UNCHANGED <<clock, allowed, stripeVars, workVars>>

-----------------------------------------------------------------------------
RequestStep(u) ==
    \/ Continue(u) /\ UNCHANGED billingVars
    \/ CreateCustomer(u) \/ UpsertCustomer(u) \/ CreateSession(u)
    \/ CheckQuota(u) \/ InsertImportJob(u) \/ CreateRow(u)
    \/ EraseDevices(u) \/ EraseTenant(u)

NewRequest(u) ==
    \/ Arrive(u) /\ UNCHANGED billingVars
    \/ \E plan \in Priced : Checkout(u, plan)
    \/ RequestDevices(u, "single", 1)
    \/ \E n \in 1 .. MaxRows : RequestDevices(u, "import", n)
    \/ \E i \in DOMAIN devices : DeleteDevice(u, i)

Environment ==
    \/ (StopGateway \/ \E i \in Invites : ExpireInvite(i)) /\ UNCHANGED billingVars
    \/ \E u \in Users : Login(u) /\ UNCHANGED billingVars
    \/ \E s \in Subs : StripeStep(s)
    \/ PeriodEnds \/ ExpireEvent
    \/ \E k \in DOMAIN events : QueueEvent(k)
    \/ \E w \in Workers : StopWorker(w)

Next ==
    \/ Environment
    \/ \E u \in Users : NewRequest(u) \/ RequestStep(u)
    \/ \E w \in Workers : WorkerStep(w)

Spec == Init /\ [][Next]_vars

\* A request's awaits end, and Kubernetes restarts a worker that ended.
FairSpec ==
    /\ Spec
    /\ \A u \in Users : WF_vars(RequestStep(u))
    /\ \A w \in Workers : WF_vars(WorkerStep(w))

\* And Stripe does not stop sending an event.
FairDelivery == FairSpec /\ WF_vars(\E k \in DOMAIN events : Redeliver(k))

-----------------------------------------------------------------------------
(* Properties of the team, the invites and single sign-on. *)

NoRequests == \A u \in Users : req[u] = NoRequest

\* When the last admin's deletion has erased the tenant, no request that was
\* under way puts back a member, an invite, a key or a billing row; and without
\* overlapping requests, or a quota check that failed and let its request pass,
\* no device is left either.
NothingOutlivesTenant ==
    tenant.state = "gone" =>
        /\ \A u \in Users : role[u] = "none"
        /\ \A i \in Invites : invites[i].state \in {"none", "deleted"}
        /\ \A k \in ApiKeys : apiKeys[k] \in {"none", "deleted"}
        /\ billing = NoBilling
        /\ ~overlap /\ used["faults"] = 0 => devices = <<>>

\* While requests come one at a time, an invite admits one person, and an
\* address has one pending invite; the code checks both before it writes.
InvitesUsedOnce ==
    ~overlap =>
        /\ \A i \in Invites : admitted[i] <= 1
        /\ \A u \in Users : Cardinality(Pending(u)) <= 1

\* Where members only come by invite and leave by themselves, one at a time,
\* deletion by the last admin erases the tenant, and no other deletion does:
\* the tenant is never erased under another admin, and never left without one.
LastAdminDecides ==
    [][~overlap' /\ budget.ops \cap {"role", "remove"} = {} =>
          /\ tenant.state = "live" /\ tenant'.state = "gone"
                => Cardinality(Admins) = 1
          /\ tenant'.state = "live" => Admins' # {}]_vars

\* Once requests that did not overlap have ended without a fault, the row names
\* the organization Auth0 has and a connection it has enabled, and as long as
\* only one kind was set up, nothing but that connection is enabled.
SsoRecordMatches ==
    NoRequests /\ ~overlap /\ used["faults"] = 0 /\ tenant.state = "live" =>
        /\ tenant.org = idp.org
        /\ tenant.conn # "none" => tenant.conn \in idp.enabled
        /\ Cardinality(idp.conns) <= 1 => idp.enabled = {tenant.conn} \ {"none"}

-----------------------------------------------------------------------------
(* Properties of billing and devices. *)

\* Whatever is redelivered, retried or in the hands of two workers, an event is
\* applied once, and its email goes out at most once and only if it is applied;
\* one that was queued is queued still, or with a worker, applied or in the
\* dead-letter queue, and it got there only after MaxRetries failures, by its
\* age, or when it activates a plan for a tenant that was erased.
EventsHandledOnce ==
    /\ \A i, j \in DOMAIN log : log[i] = log[j] => i = j
    /\ \A k \in DOMAIN told : told[k] <= (IF IsLogged(k) THEN 1 ELSE 0)
    /\ \A k \in queued :
          \/ \E i \in DOMAIN queue : queue[i].id = k
          \/ \E w \in Workers : worker[w].msg.id = k
          \/ IsLogged(k) \/ k \in dead
    /\ \A k \in dead :
          \/ used["faults"] >= MaxRetries \/ used["periods"] > 0
          \/ IsCheckout(events[k]) /\ tenant.state = "gone"

\* One worker leaves enabled exactly the devices that the gateway's own quota
\* rule admits, until a device or the date changes.
DevicesMatchPlan ==
    settled /\ tenant.state = "live" /\ Cardinality(budget.workers) = 1 =>
        \A i \in DOMAIN devices :
            devices[i] = (QuotaLimit # -1 /\ i > QuotaLimit)

\* Stripe does not promise an order, and the code compares no dates.  When one
\* worker has applied all events of the one subscription, in whatever order, and
\* the last it applied, reminders aside, is the last that Stripe sent, then the
\* tenant has Stripe's status and the plan bought at checkout, unless checkouts
\* that overlapped left the row with another customer.  It is the plan bought
\* even if the customer has switched to another price in the portal since.
LastEventDecides ==
    LET live == {s \in Subs : subs[s].state # "none"}
        applied == SelectSeq(log, LAMBDA k :
                       events[k].type # "customer.subscription.trial_will_end")
    IN
    /\ tenant.state = "live" /\ ~overlap /\ Cardinality(budget.workers) = 1
    /\ Cardinality(live) = 1 /\ \A k \in DOMAIN events : IsLogged(k)
    /\ \A i \in DOMAIN applied : applied[i] <= applied[Len(applied)]
    => \A s \in live :
          /\ account.status = subs[s].state
          /\ account.plan = (IF subs[s].state = "cancelled" THEN "free"
                             ELSE subs[s].plan)

\* Requests and imports that pass the quota check together exceed the limit, but
\* by no more than the rows they bring while the check works.
OvershootBounded ==
    used["faults"] = 0 =>
        Len(devices) <= Larger(allowed - 1, 0) + Cardinality(Users) * MaxRows

\* What is on a queue the workers declared is consumed, retried and settled.
EventsSettle ==
    <>[](declared = "dlx" =>
           queue = <<>> /\ \A w \in Workers : worker[w].msg = NoMessage)

\* An event that Stripe keeps sending to the gateway is applied in the end, or
\* dead-lettered.
EventsReachWorker ==
    (events # <<>>) ~> (\A k \in DOMAIN events : IsLogged(k) \/ k \in dead)
====
