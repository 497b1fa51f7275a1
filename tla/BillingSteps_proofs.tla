------------------------ MODULE BillingSteps_proofs ------------------------
(***************************************************************************)
(* The subscription, Stripe's events and the devices, for any number of    *)
(* users, workers, events, requests and faults: the invariant BillingInv,  *)
(* which contains the invariant of the tenant, and that the steps of       *)
(* Stripe, the queue and the workers keep it.                              *)
(***************************************************************************)
EXTENDS Billing, TenancyInvariant, TLAPS

-----------------------------------------------------------------------------
(* The inductive invariant. *)

\* The requests of the two routes, with what each has in hand.
Buying == [op : {"checkout"}, at : {"customer", "upsert", "session"}, arg : Priced,
           seen : Nat]
Adding == [op : {"devices"}, at : {"quota", "job", "create"}, arg : {"single", "import"},
           seen : Nat \ {0}]
ShopReq ==
    /\ customers \in Nat
    /\ \A u \in Users :
          /\ req[u].op = "checkout" => req[u] \in Buying /\ req[u].seen <= customers
          /\ req[u].op = "devices" => req[u] \in Adding

Types == {"checkout.session.completed", "customer.subscription.updated",
          "customer.subscription.deleted", "invoice.payment_succeeded",
          "invoice.payment_failed", "customer.subscription.trial_will_end"}
EventRec == [type : Types, sub : Subs, customer : Nat, plan : Plans, status : Statuses,
             ends : Nat]
SubRec == [state : Statuses, plan : Plans, price : Plans, customer : Nat]
MsgRec == [id : Nat, retry : Nat]
ContextRec == [found : BOOLEAN, plan : Plans, ends : Nat]
WorkerRec == [at : {"down", "idle", "begin", "commit", "email", "ack", "wait"},
              msg : MsgRec, context : ContextRec]

\* What Stripe has names customers that exist, and subscriptions.
StripeInv ==
    /\ clock \in Nat
    /\ sessions \subseteq [customer : Nat, plan : Priced]
    /\ \A x \in sessions : x.customer <= customers
    /\ subs \in [Subs -> SubRec]
    /\ \A s \in Subs : subs[s].customer <= customers
    /\ events \in Seq(EventRec)
    /\ \A k \in DOMAIN events : /\ events[k].customer <= customers
                                /\ subs[events[k].sub].state # "none"
    /\ tenant.state = "none" =>
          sessions = {} /\ events = <<>> /\ \A s \in Subs : subs[s].state = "none"

\* The rows of the tenant's subscription.
RowsInv ==
    /\ account \in [plan : Plans, status : Statuses, ends : Nat]
    /\ billing \in [exists : BOOLEAN, customer : Nat, sub : Subs \cup {NoSub},
                    plan : Plans, status : Statuses]
    /\ billing.customer <= customers
    /\ billing.sub # NoSub => subs[billing.sub].state # "none"
    /\ tenant.state = "gone" => billing = NoBilling
    /\ tenant.state # "gone" => billing.plan = account.plan

Elements(s) == {s[i] : i \in DOMAIN s}

\* A message is about an event, and was retried once for every fault, or because
\* the plan it activates is for a tenant that was erased.
Erasable(k) == IsCheckout(events[k]) /\ tenant.state = "gone"
MsgOK(m) == /\ m \in MsgRec /\ m.id \in DOMAIN events /\ m.retry <= MaxRetries - 1
            /\ m.retry <= used["faults"] \/ Erasable(m.id)

Has(w) == worker[w].at \notin {"down", "idle"}
Holds(w) ==
    /\ Has(w) => MsgOK(worker[w].msg)
    /\ ~Has(w) => worker[w].msg = NoMessage
    /\ worker[w].at = "wait" =>
          /\ worker[w].msg.retry < MaxRetries - 1
          /\ worker[w].msg.retry + 1 <= used["faults"] \/ Erasable(worker[w].msg.id)
    /\ worker[w].at # "down" => w \in budget.workers
Buried(k) == used["faults"] >= MaxRetries \/ used["periods"] > 0 \/ Erasable(k)
Kept(k) ==
    \/ \E m \in Elements(queue) : m.id = k
    \/ \E w \in Workers : worker[w].msg.id = k
    \/ k \in Elements(log) \/ k \in dead

QueueInv ==
    /\ declared \in {"none", "plain", "dlx"}
    /\ worker \in [Workers -> WorkerRec]
    /\ queue \in Seq(MsgRec) /\ \A m \in Elements(queue) : MsgOK(m)
    /\ \A w \in Workers : Holds(w)
    /\ queued \subseteq DOMAIN events /\ dead \subseteq DOMAIN events
    /\ \A k \in dead : Buried(k)
    /\ \A k \in queued : Kept(k)

\* An event is logged once, and its email is due to one worker at most.
LogInv ==
    /\ log \in Seq(Nat)
    /\ \A i, j \in DOMAIN log : log[i] = log[j] => i = j
    /\ told \in Seq(Nat) /\ Len(told) = Len(events)
    /\ \A k \in DOMAIN told : told[k] <= 1 /\ (told[k] # 0 => k \in Elements(log))
    /\ \A w \in Workers :
          /\ worker[w].at = "commit" => worker[w].msg.id \notin Elements(log)
          /\ worker[w].at \in {"email", "ack"} => worker[w].msg.id \in Elements(log)
          /\ worker[w].at = "email" => told[worker[w].msg.id] = 0
    /\ \A w, v \in Workers :
          /\ worker[w].at \in {"commit", "email"} /\ worker[v].at \in {"commit", "email"}
          /\ worker[w].msg.id = worker[v].msg.id
          => w = v

\* Only one worker: the context it has read is still what the rows say.
LoneWorker == Cardinality(budget.workers) = 1
Fits(limit) == \A i \in DOMAIN devices : devices[i] = (limit # -1 /\ i > limit)
PlanInv ==
    /\ devices \in Seq(BOOLEAN) /\ settled \in BOOLEAN
    /\ LoneWorker /\ tenant.state # "gone" =>
          /\ \A w \in Workers :
                worker[w].at = "commit" /\ worker[w].context.found =>
                    /\ worker[w].context.plan = account.plan
                    /\ worker[w].context.ends = account.ends
          /\ settled => Fits(QuotaLimit)

\* The devices an account deletion under way has deleted are all there are.
DeviceInv ==
    /\ ~overlap => \A u \in Users : At(u, "leave", "commit") => req[u].seen = Len(devices)
    /\ ~overlap /\ used["faults"] = 0 /\ tenant.state = "gone" =>
          /\ devices = <<>>
          /\ \A u \in Users : ~At(u, "devices", "create")

BillingInv ==
    /\ TenancyInv /\ ShopReq /\ StripeInv /\ RowsInv /\ QueueInv /\ LogInv /\ PlanInv
    /\ DeviceInv

-----------------------------------------------------------------------------
(* What an event makes of the rows. *)

\* The words of plans and events that Effect and PlanDeviceLimit tell apart.
LEMMA Words ==
    /\ "active" \in Statuses /\ "past_due" \in Statuses /\ "cancelled" \in Statuses
    /\ "free" \in Plans /\ "cancelled" \notin {"active", "trialing"}
    /\ \A t \in {"checkout.session.completed", "customer.subscription.updated",
                 "customer.subscription.deleted"} :
          t \notin {"invoice.payment_succeeded", "invoice.payment_failed"}
    /\ 0 \in Nat /\ \A n \in Nat : ~(0 > n)
BY DEF Statuses, Plans

\* What an event makes of the subscription is a subscription, and the device
\* limit it sets is the one of that subscription, if the context was current.
LEMMA EffectOK ==
    ASSUME RowsInv, clock \in Nat, NEW e \in EventRec, subs[e.sub].state # "none",
           NEW c \in ContextRec, e.type # "customer.subscription.trial_will_end",
           NEW x, x = Effect(e, c)
    PROVE  /\ x.plan \in Plans /\ x.status \in Statuses /\ x.ends \in Nat
           /\ x.sub \in Subs \cup {NoSub} /\ (x.sub # NoSub => subs[x.sub].state # "none")
           /\ IsInvoice(e) => x.plan = account.plan
           /\ (IsInvoice(e) => c.plan = account.plan /\ c.ends = account.ends)
              => x.limit = PlanDeviceLimit(x.plan, x.status, x.ends)
<1>0. /\ account.plan \in Plans /\ account.status \in Statuses /\ account.ends \in Nat
      /\ billing.sub \in Subs \cup {NoSub}
      /\ billing.sub # NoSub => subs[billing.sub].state # "none"
      /\ e.type \in Types /\ e.sub \in Subs /\ e.plan \in Plans /\ e.status \in Statuses
      /\ e.ends \in Nat /\ c.plan \in Plans /\ c.ends \in Nat
  BY Zenon DEF RowsInv, EventRec, ContextRec
<1>1. CASE e.type = "checkout.session.completed"
  <2>1. x = [plan |-> e.plan, status |-> "active", ends |-> account.ends,
             sub |-> e.sub, limit |-> PlanDeviceLimit(e.plan, "active", 0)]
    BY Zenon, <1>1 DEF Effect, IsCheckout
  <2>2. PlanDeviceLimit(e.plan, "active", 0) = PlanDeviceLimit(e.plan, "active", account.ends)
    BY Zenon DEF PlanDeviceLimit, HasPaidAccess
  <2> QED BY <1>0, <1>1, <2>1, <2>2, Words DEF IsInvoice
<1>2. CASE e.type = "customer.subscription.updated"
  <2>1. x = [plan |-> e.plan, status |-> e.status, ends |-> e.ends, sub |-> e.sub,
             limit |-> PlanDeviceLimit(e.plan, e.status, e.ends)]
    BY Zenon, <1>2 DEF Effect, IsCheckout
  <2> QED BY <1>0, <1>2, <2>1, Words DEF IsInvoice
<1>3. CASE e.type = "customer.subscription.deleted"
  <2>1. x = [plan |-> "free", status |-> "cancelled", ends |-> 0,
             sub |-> NoSub, limit |-> FreeLimit]
    BY Zenon, <1>3 DEF Effect, IsCheckout
  <2>2. PlanDeviceLimit("free", "cancelled", 0) = FreeLimit
    BY Zenon, Words DEF PlanDeviceLimit, HasPaidAccess
  <2> QED BY <1>0, <1>3, <2>1, <2>2, Words DEF IsInvoice
<1>4. CASE e.type = "invoice.payment_succeeded"
  <2>1. x = [plan |-> account.plan, status |-> "active", ends |-> e.ends,
             sub |-> billing.sub, limit |-> PlanDeviceLimit(c.plan, "active", e.ends)]
    BY Zenon, <1>4 DEF Effect, IsCheckout
  <2> QED BY <1>0, <1>4, <2>1, Words DEF IsInvoice
<1>5. CASE e.type = "invoice.payment_failed"
  <2>1. x = [plan |-> account.plan, status |-> "past_due", ends |-> account.ends,
             sub |-> billing.sub, limit |-> PlanDeviceLimit(c.plan, "past_due", c.ends)]
    BY Zenon, <1>5 DEF Effect, IsCheckout
  <2> QED BY <1>0, <1>5, <2>1, Words DEF IsInvoice
<1> QED BY Zenon, <1>0, <1>1, <1>2, <1>3, <1>4, <1>5 DEF Types

\* What the commit writes to the rows of the tenant and to its devices.  With one
\* worker the context is current, so that the devices fit the new limit.
LEMMA ChangeInv ==
    ASSUME BillingInv, NEW e \in EventRec, NEW c \in ContextRec, NEW x,
           x = Effect(e, c), Changes(e, c), tenant.state = "live", UNCHANGED <<tenant, clock>>,
           UNCHANGED stripeVars,
           e.customer <= customers, subs[e.sub].state # "none",
           account' = [plan |-> x.plan, status |-> x.status, ends |-> x.ends],
           billing' = [exists |-> TRUE,
                  customer |-> IF IsCheckout(e) \/ e.type = "customer.subscription.updated"
                               THEN e.customer ELSE billing.customer,
                  sub |-> x.sub,
                  plan |-> IF IsInvoice(e) THEN billing.plan ELSE x.plan,
                  status |-> x.status],
           devices' = Reconciled(x.limit)
    PROVE  /\ RowsInv' /\ devices' \in Seq(BOOLEAN) /\ Len(devices') = Len(devices)
           /\ (c.found => c.plan = account.plan /\ c.ends = account.ends) => Fits(QuotaLimit)'
<1>0. /\ RowsInv /\ clock \in Nat /\ devices \in Seq(BOOLEAN)
      /\ billing.plan = account.plan /\ billing.customer \in Nat /\ billing.customer <= customers
      /\ account.plan \in Plans
      /\ UNCHANGED <<subs, customers>>
  BY Zenon DEF BillingInv, RowsInv, StripeInv, PlanInv, stripeVars
<1>1. e.type # "customer.subscription.trial_will_end" /\ (IsInvoice(e) => c.found)
  BY Zenon DEF Changes, IsCheckout, IsInvoice
<1>2. /\ x.plan \in Plans /\ x.status \in Statuses /\ x.ends \in Nat
      /\ x.sub \in Subs \cup {NoSub} /\ (x.sub # NoSub => subs[x.sub].state # "none")
      /\ IsInvoice(e) => x.plan = account.plan
      /\ (IsInvoice(e) => c.plan = account.plan /\ c.ends = account.ends)
         => x.limit = PlanDeviceLimit(x.plan, x.status, x.ends)
  BY Zenon, <1>0, <1>1, EffectOK
<1>3. RowsInv'
  <2> DEFINE cu == IF IsCheckout(e) \/ e.type = "customer.subscription.updated"
                   THEN e.customer ELSE billing.customer
             pl == IF IsInvoice(e) THEN billing.plan ELSE x.plan
  <2>1. cu \in Nat /\ cu <= customers /\ pl = x.plan
    BY Zenon, <1>0, <1>2 DEF EventRec
  <2>2. billing' = [exists |-> TRUE, customer |-> cu, sub |-> x.sub, plan |-> pl,
                    status |-> x.status]
    BY Zenon
  <2> HIDE DEF cu, pl
  <2>3. /\ billing' \in [exists : BOOLEAN, customer : Nat, sub : Subs \cup {NoSub},
                         plan : Plans, status : Statuses]
        /\ billing'.customer = cu /\ billing'.sub = x.sub /\ billing'.plan = x.plan
    BY <1>2, <2>1, <2>2
  <2>4. account' \in [plan : Plans, status : Statuses, ends : Nat] /\ account'.plan = x.plan
    BY Zenon, <1>2
  <2> QED BY Zenon, <1>0, <1>2, <2>1, <2>3, <2>4 DEF RowsInv
<1>4. /\ DOMAIN devices' = DOMAIN devices
      /\ \A i \in DOMAIN devices : devices'[i] = (x.limit # -1 /\ i > x.limit)
  BY Zenon DEF Reconciled
<1>5. devices' \in Seq(BOOLEAN) /\ Len(devices') = Len(devices)
  <2>1. \A i \in DOMAIN devices : devices'[i] \in BOOLEAN
    BY Zenon, <1>4
  <2>2. DOMAIN devices = 1 .. Len(devices) /\ Len(devices) \in Nat
    BY <1>0
  <2>3. devices' = [i \in 1 .. Len(devices) |-> devices'[i]]
    BY Zenon, <1>4, <2>2 DEF Reconciled
  <2> QED BY <2>1, <2>2, <2>3
<1>6. ASSUME c.found => c.plan = account.plan /\ c.ends = account.ends
      PROVE  Fits(QuotaLimit)'
  <2>1. x.limit = PlanDeviceLimit(x.plan, x.status, x.ends)
    BY Zenon, <1>1, <1>2, <1>6
  <2>2. QuotaLimit' = x.limit
    BY Zenon, <2>1 DEF QuotaLimit, PlanDeviceLimit, HasPaidAccess
  <2> QED BY Zenon, <1>4, <2>2 DEF Fits
<1> QED BY Zenon, <1>3, <1>5, <1>6

-----------------------------------------------------------------------------
(* What a step leaves alone. *)

\* The requests of the two routes keep their shape.
LEMMA ShopReqFrame ==
    ASSUME ShopReq, Quiet, customers' \in Nat, customers <= customers'
    PROVE  ShopReq'
<1>1. ASSUME NEW u \in Users
      PROVE  /\ req'[u].op = "checkout" => req'[u] \in Buying /\ req'[u].seen <= customers'
             /\ req'[u].op = "devices" => req'[u] \in Adding
  <2>1. CASE req'[u] = req[u]
    <3>1. req[u] \in Buying => req[u].seen \in Nat
      BY Zenon DEF Buying
    <3> QED BY <2>1, <3>1 DEF ShopReq
  <2>2. CASE req'[u].op \notin ShopOps
    BY Zenon, <2>2 DEF ShopOps
  <2> QED BY Zenon, <2>1, <2>2 DEF Quiet
<1> QED BY Zenon, <1>1 DEF ShopReq

\* Stripe's side of it.
LEMMA StripeFrame ==
    ASSUME StripeInv, UNCHANGED <<stripeVars, clock>>,
           tenant'.state = "none" => tenant.state = "none"
    PROVE  StripeInv'
BY Zenon DEF StripeInv, stripeVars

\* The rows.
LEMMA RowsFrame ==
    ASSUME RowsInv, UNCHANGED <<account, billing>>, customers \in Nat, customers' \in Nat,
           customers <= customers',
           \A s \in Subs : subs[s].state # "none" => subs'[s].state # "none",
           tenant'.state = "gone" <=> tenant.state = "gone"
    PROVE  RowsInv'
<1>1. billing.customer \in Nat /\ billing.sub \in Subs \cup {NoSub}
  BY Zenon DEF RowsInv
<1> QED BY <1>1 DEF RowsInv

\* And what touches nothing of them.
LEMMA RowsSame ==
    ASSUME RowsInv, account' = account, billing' = billing, customers' = customers,
           tenant' = tenant,
           \A s \in Subs : subs[s].state # "none" => subs'[s].state # "none"
    PROVE  RowsInv'
<1>1. billing.sub \in Subs \cup {NoSub}
  BY Zenon DEF RowsInv
<1> QED BY Zenon, <1>1 DEF RowsInv

\* What is known of a message stays true.
LEMMA MsgKept ==
    ASSUME Grows, used \in [Bounds -> Nat], DOMAIN events \subseteq DOMAIN events',
           \A k \in DOMAIN events : events'[k] = events[k],
           tenant.state = "gone" => tenant'.state = "gone"
    PROVE  /\ \A k \in DOMAIN events : Erasable(k) => Erasable(k)'
           /\ \A k \in DOMAIN events : Buried(k) => Buried(k)'
           /\ \A m : MsgOK(m) => MsgOK(m)'
<1>1. \A k \in DOMAIN events : Erasable(k) => Erasable(k)'
  BY Zenon DEF Erasable, IsCheckout
<1>2. /\ used["faults"] \in Nat /\ used'["faults"] \in Nat
      /\ used["periods"] \in Nat /\ used'["periods"] \in Nat
      /\ used["faults"] <= used'["faults"] /\ used["periods"] <= used'["periods"]
  BY Zenon DEF Grows, Bounds
<1>3. \A k \in DOMAIN events : Buried(k) => Buried(k)'
  BY <1>1, <1>2, LimitsAssumption DEF Buried
<1>4. ASSUME NEW m, MsgOK(m)
      PROVE  MsgOK(m)'
  <2>1. m.retry \in Nat
    BY Zenon, <1>4 DEF MsgOK, MsgRec
  <2>2. m.retry <= used'["faults"] \/ Erasable(m.id)'
    BY <1>1, <1>2, <1>4, <2>1 DEF MsgOK
  <2> QED BY Zenon, <1>4, <2>2 DEF MsgOK
<1> QED BY Zenon, <1>1, <1>3, <1>4

\* So does what is known of a worker that stays where it is.
LEMMA HoldsKept ==
    ASSUME NEW w \in Workers, Holds(w), worker[w] \in WorkerRec, worker'[w] = worker[w], Grows,
           used \in [Bounds -> Nat],
           \A k \in DOMAIN events : Erasable(k) => Erasable(k)',
           \A m : MsgOK(m) => MsgOK(m)'
    PROVE  Holds(w)'
<1>1. /\ used["faults"] \in Nat /\ used'["faults"] \in Nat
      /\ used["faults"] <= used'["faults"] /\ budget' = budget
  BY Zenon DEF Grows, Bounds
<1>2. worker[w].msg.retry \in Nat
  BY Zenon DEF WorkerRec, MsgRec
<1>3. Has(w) => MsgOK(worker[w].msg)'
  BY Zenon DEF Holds
<1>4. worker[w].at = "wait" => worker[w].msg.id \in DOMAIN events
  BY Zenon DEF Holds, Has, MsgOK
<1>5. ASSUME worker[w].at = "wait"
      PROVE  worker[w].msg.retry + 1 <= used'["faults"] \/ Erasable(worker[w].msg.id)'
  BY <1>1, <1>2, <1>4, <1>5 DEF Holds
<1> QED BY Zenon, <1>1, <1>3, <1>5 DEF Holds, Has

\* The queue and the workers, while events may be added.
LEMMA QueueFrame ==
    ASSUME QueueInv, Grows, used \in [Bounds -> Nat],
           UNCHANGED <<queue, declared, dead, worker, log, queued>>,
           DOMAIN events \subseteq DOMAIN events',
           \A k \in DOMAIN events : events'[k] = events[k],
           tenant.state = "gone" => tenant'.state = "gone"
    PROVE  QueueInv'
<1>1. /\ \A k \in DOMAIN events : Erasable(k) => Erasable(k)'
      /\ \A k \in DOMAIN events : Buried(k) => Buried(k)'
      /\ \A m : MsgOK(m) => MsgOK(m)'
  BY Zenon, MsgKept
<1>2. /\ \A m \in Elements(queue)' : MsgOK(m)'
      /\ \A k \in dead' : Buried(k)'
      /\ \A k \in queued' : Kept(k)'
  BY Zenon, <1>1 DEF QueueInv, Kept
<1>3. \A w \in Workers : Holds(w)'
  BY Zenon, <1>1, HoldsKept DEF QueueInv
<1> QED BY Zenon, <1>2, <1>3 DEF QueueInv

\* The log.
LEMMA LogFrame ==
    ASSUME LogInv, UNCHANGED <<log, told, worker, events>>
    PROVE  LogInv'
BY Zenon DEF LogInv

\* The devices and the context.
LEMMA PlanFrame ==
    ASSUME PlanInv, UNCHANGED <<account, clock, devices, settled, worker, budget>>,
           tenant'.state = "gone" <=> tenant.state = "gone"
    PROVE  PlanInv'
<1>1. QuotaLimit' = QuotaLimit
  BY Zenon DEF QuotaLimit
<1> QED BY Zenon, <1>1 DEF PlanInv, LoneWorker, Fits

\* The devices and an account deletion.
LEMMA DeviceFrame ==
    ASSUME DeviceInv, Quiet, used \in [Bounds -> Nat], Len(devices') = Len(devices),
           devices = <<>> => devices' = <<>>
    PROVE  DeviceInv'
<1>1. used["faults"] \in Nat /\ used'["faults"] \in Nat /\ used["faults"] <= used'["faults"]
  BY Zenon DEF Quiet, Grows, Bounds
<1>2. ASSUME NEW u \in Users
      PROVE  /\ At(u, "leave", "commit")' => At(u, "leave", "commit") /\ req'[u] = req[u]
             /\ At(u, "devices", "create")' => At(u, "devices", "create")
  BY Zenon DEF Quiet, At, ShopOps
<1> QED BY <1>1, <1>2 DEF DeviceInv, Quiet

\* What the queue, the workers and the log know of a step that leaves them and
\* Stripe's events alone.
LEMMA WorkFrame ==
    ASSUME ReqShapes, QueueInv, LogInv, Grows, UNCHANGED <<workVars, events>>,
           tenant.state = "gone" => tenant'.state = "gone"
    PROVE  QueueInv' /\ LogInv'
<1>1. UNCHANGED <<queue, declared, dead, worker, log, queued, told, events>>
  BY Zenon DEF workVars
<1>2. used \in [Bounds -> Nat]
  BY Zenon DEF ReqShapes
<1> QED BY Zenon, <1>1, <1>2, QueueFrame, LogFrame

\* A step of the team, or of the gateway's life.
LEMMA QuietStep ==
    ASSUME BillingInv, TenancyInv', Quiet, UNCHANGED billingVars
    PROVE  BillingInv'
<1> USE DEF BillingInv
<1>1. /\ UNCHANGED <<stripeVars, workVars, deviceVars, account, billing, clock>>
      /\ UNCHANGED <<customers, subs, events, devices, settled, worker>>
  BY Zenon DEF billingVars, stripeVars, workVars, deviceVars
<1>2. ReqShapes /\ customers \in Nat /\ Grows /\ budget' = budget
  BY Zenon DEF TenancyInv, ShopReq, Quiet, Grows
<1>3. QueueInv' /\ LogInv'
  BY Zenon, <1>1, <1>2, WorkFrame DEF Quiet
<1>4. ShopReq' /\ StripeInv' /\ RowsInv'
  BY <1>1, <1>2, ShopReqFrame, StripeFrame, RowsFrame DEF Quiet
<1>5. PlanInv' /\ DeviceInv'
  BY Zenon, <1>1, <1>2, PlanFrame, DeviceFrame DEF Quiet, ReqShapes
<1> QED BY Zenon, <1>3, <1>4, <1>5

-----------------------------------------------------------------------------
(* Stripe. *)

\* The bounds only ever count up.
LEMMA BoundsGrow ==
    ASSUME ReqShapes, budget' = budget
    PROVE  /\ UNCHANGED used => Grows
           /\ \A b \in Bounds : Spend(b) => Grows
           /\ \A ok : MayFail(ok) => Grows
<1>1. used \in [Bounds -> Nat] /\ "faults" \in Bounds
  BY Zenon DEF ReqShapes, Bounds
<1>2. UNCHANGED used => Grows
  BY <1>1 DEF Grows
<1>3. ASSUME NEW b \in Bounds, Spend(b)
      PROVE  Grows
  BY <1>1, <1>3 DEF Spend, Grows
<1> QED BY Zenon, <1>1, <1>2, <1>3 DEF MayFail

\* The tenant keeps its invariant where nothing of it changes.
LEMMA StillTenancy ==
    ASSUME TenancyInv, Grows, UNCHANGED <<rowVars, authVars, req, overlap>>
    PROVE  TenancyInv'
<1>1. /\ UNCHANGED <<tenant, role, invites, admitted, apiKeys, auth0, token, idp, req, overlap>>
      /\ budget' = budget /\ used' \in [Bounds -> Nat]
  BY Zenon DEF rowVars, authVars, Grows
<1>2. used["faults"] \in Nat /\ used'["faults"] \in Nat /\ used["faults"] <= used'["faults"]
  BY Zenon DEF Grows, TenancyInv, ReqShapes, Bounds
<1>3. Calm' => Calm
  BY <1>1, <1>2 DEF Calm
<1>4. \A u, op, at : At(u, op, at)' = At(u, op, at)
  BY Zenon, <1>1 DEF At
<1>5. RowShapes' /\ ReqShapes'
  BY <1>1 DEF TenancyInv, RowShapes, ReqShapes
<1>6. Unregistered' /\ Erased'
  BY Zenon, <1>1 DEF TenancyInv, Unregistered, Erased
<1>7. InviteInv'
  <2>1. \A v : Pending(v)' = Pending(v)
    BY Zenon, <1>1 DEF Pending
  <2> QED BY <1>1, <1>4, <2>1 DEF TenancyInv, InviteInv
<1>8. LeaveInv'
  <2>1. Admins' = Admins
    BY Zenon, <1>1 DEF Admins
  <2> QED BY <1>1, <1>4, <2>1 DEF TenancyInv, LeaveInv, Deliberate
<1>9. SsoInv'
  BY Zenon, <1>1, <1>3, <1>4 DEF TenancyInv, SsoInv
<1> QED BY Zenon, <1>5, <1>6, <1>7, <1>8, <1>9 DEF TenancyInv

\* What a step knows that no request and no row of the tenant takes part in.
LEMMA QuietHolds ==
    ASSUME BillingInv, Grows, UNCHANGED <<rowVars, authVars, req, overlap, customers>>
    PROVE  TenancyInv' /\ Quiet /\ ShopReq' /\ UNCHANGED tenant
<1>1. Still /\ UNCHANGED tenant
  BY Zenon DEF Still, rowVars
<1>2. Quiet
  BY <1>1 DEF Quiet, Still
<1>3. TenancyInv'
  BY Zenon, StillTenancy DEF BillingInv
<1> QED BY Zenon, <1>1, <1>2, <1>3 DEF BillingInv, ShopReq

\* What an event appended to Stripe's says.
LEMMA EmitInv ==
    ASSUME BillingInv, NEW s \in Subs, NEW type \in Types, NEW status \in Statuses \ {"none"},
           NEW ends \in Nat, Emit(type, s, status, ends),
           subs' \in [Subs -> SubRec], sessions' \subseteq sessions,
           \A r \in Subs : subs[r].state # "none" => subs'[r].state # "none",
           \A r \in Subs : subs'[r].customer <= customers,
           subs'[s].state # "none", tenant.state # "none"
    PROVE  BillingInv'
<1> DEFINE e == Event(type, s, status, ends)
<1>0. /\ ReqShapes /\ customers \in Nat /\ used \in [Bounds -> Nat] /\ clock \in Nat
      /\ events \in Seq(EventRec) /\ told \in Seq(Nat) /\ Len(told) = Len(events)
      /\ "events" \in Bounds
  BY Zenon DEF BillingInv, TenancyInv, ReqShapes, ShopReq, StripeInv, LogInv, Bounds
<1>1. /\ UNCHANGED <<rowVars, authVars, req, overlap, customers>>
      /\ UNCHANGED <<account, billing, clock, customers, queue, declared, dead, worker>>
      /\ UNCHANGED <<log, queued, devices, settled, budget>>
      /\ Spend("events") /\ events' = Append(events, e) /\ told' = Append(told, 0)
  BY Zenon DEF Emit, deviceVars, authVars
<1>2. e \in EventRec /\ e.customer = subs'[s].customer /\ e.sub = s
  BY Zenon DEF Event, EventRec, SubRec
<1> HIDE DEF e
<1>3. Grows
  BY Zenon, <1>0, <1>1, BoundsGrow
<1>4. TenancyInv' /\ Quiet /\ ShopReq' /\ UNCHANGED tenant
  BY Zenon, <1>1, <1>3, QuietHolds
<1>5. /\ events' \in Seq(EventRec) /\ DOMAIN events' = 1 .. Len(events) + 1
      /\ DOMAIN events = 1 .. Len(events) /\ events'[Len(events) + 1] = e
      /\ \A k \in DOMAIN events : events'[k] = events[k]
      /\ Len(events') = Len(events) + 1
  BY <1>0, <1>1, <1>2
<1>6. StripeInv'
  <2>1. \A k \in DOMAIN events' : /\ events'[k].customer <= customers
                                  /\ subs'[events'[k].sub].state # "none"
    <3>1. \A k \in DOMAIN events : events[k].sub \in Subs
      <4>1. \A k \in DOMAIN events : events[k] \in EventRec
        BY <1>0
      <4> QED BY Zenon, <4>1 DEF EventRec
    <3>2. \A k \in DOMAIN events : events[k].customer <= customers /\ subs[events[k].sub].state # "none"
      BY Zenon DEF BillingInv, StripeInv
    <3>3. \A k \in DOMAIN events' : k \in DOMAIN events \/ k = Len(events) + 1
      BY <1>0, <1>5
    <3> QED BY Zenon, <1>2, <1>5, <3>1, <3>2, <3>3
  <2>2. sessions' \subseteq [customer : Nat, plan : Priced] /\ \A x \in sessions' : x.customer <= customers
    BY Zenon DEF BillingInv, StripeInv
  <2> QED BY Zenon, <1>0, <1>1, <1>4, <1>5, <2>1, <2>2 DEF StripeInv
<1>7. RowsInv'
  BY Zenon, <1>1, <1>4, RowsSame DEF BillingInv
<1>8. QueueInv'
  <2>1. DOMAIN events \subseteq DOMAIN events'
    BY <1>0, <1>5
  <2> QED BY Zenon, <1>0, <1>1, <1>3, <1>4, <1>5, <2>1, QueueFrame DEF BillingInv
<1>9. LogInv'
  <2>1. /\ told' \in Seq(Nat) /\ Len(told') = Len(events') /\ DOMAIN told = 1 .. Len(told)
        /\ \A k \in DOMAIN told' : k \in DOMAIN told \/ told'[k] = 0
        /\ \A k \in DOMAIN told : told'[k] = told[k]
    BY <1>0, <1>1, <1>5
  <2>2. \A w \in Workers : worker[w].at = "email" => worker[w].msg.id \in DOMAIN told
    BY Zenon, <1>0, <1>5, <2>1 DEF BillingInv, QueueInv, Holds, Has, MsgOK
  <2>3. \A k \in DOMAIN told' : told'[k] <= 1 /\ (told'[k] # 0 => k \in Elements(log))
    BY <2>1 DEF BillingInv, LogInv
  <2> QED BY Zenon, <1>1, <2>1, <2>2, <2>3 DEF BillingInv, LogInv
<1>10. PlanInv' /\ DeviceInv'
  BY Zenon, <1>0, <1>1, <1>4, PlanFrame, DeviceFrame DEF BillingInv
<1> QED BY Zenon, <1>4, <1>6, <1>7, <1>8, <1>9, <1>10 DEF BillingInv

\* What happens to a subscription.
LEMMA StripeStepInv ==
    ASSUME BillingInv, NEW s \in Subs, StripeStep(s)
    PROVE  BillingInv'
<1>0. /\ subs \in [Subs -> SubRec] /\ clock \in Nat /\ customers \in Nat
      /\ \A r \in Subs : subs[r].customer <= customers
      /\ tenant.state = "none" => sessions = {} /\ \A r \in Subs : subs[r].state = "none"
  BY Zenon DEF BillingInv, StripeInv, ShopReq
<1>1. ASSUME NEW x \in sessions, CompleteCheckout(x, s)
      PROVE  BillingInv'
  <2> DEFINE n == [state |-> "active", plan |-> x.plan, price |-> x.plan,
                     customer |-> x.customer]
  <2>1. x.customer \in Nat /\ x.plan \in Priced /\ x.customer <= customers
    BY Zenon DEF BillingInv, StripeInv
  <2>2. n \in SubRec /\ n.state = "active" /\ n.customer <= customers
    BY Zenon, <2>1, LimitsAssumption DEF SubRec, Statuses, Plans
  <2>3. subs' = [subs EXCEPT ![s] = n] /\ sessions' \subseteq sessions
    BY Zenon, <1>1 DEF CompleteCheckout
  <2> HIDE DEF n
  <2>4. /\ subs' \in [Subs -> SubRec] /\ subs'[s] = n
        /\ \A r \in Subs : r # s => subs'[r] = subs[r]
    BY Zenon, <1>0, <2>2, <2>3
  <2>5. Emit("checkout.session.completed", s, "active", 0) /\ tenant.state # "none"
    BY Zenon, <1>0, <1>1 DEF CompleteCheckout
  <2>6. "active" \in Statuses \ {"none"} /\ "checkout.session.completed" \in Types
    BY Zenon DEF Statuses, Types
  <2>7. /\ \A r \in Subs : subs[r].state # "none" => subs'[r].state # "none"
        /\ \A r \in Subs : subs'[r].customer <= customers
        /\ subs'[s].state # "none"
    BY Zenon, <1>0, <2>2, <2>4
  <2> QED BY Zenon, <2>3, <2>4, <2>5, <2>6, <2>7, EmitInv
<1>2. ASSUME NEW type \in Types, NEW status \in Statuses \ {"none"}, NEW ends \in Nat,
             ChangeSubscription(s, type, status, ends)
      PROVE  BillingInv'
  <2> DEFINE n == [subs[s] EXCEPT !.state = status]
  <2>1. n \in SubRec /\ n.state = status /\ n.customer = subs[s].customer
    BY Zenon, <1>0 DEF SubRec
  <2>2. subs' = [subs EXCEPT ![s] = n] /\ sessions' \subseteq sessions
    BY Zenon, <1>2 DEF ChangeSubscription
  <2> HIDE DEF n
  <2>3. /\ subs' \in [Subs -> SubRec] /\ subs'[s] = n
        /\ \A r \in Subs : r # s => subs'[r] = subs[r]
    BY Zenon, <1>0, <2>1, <2>2
  <2>4. Emit(type, s, status, ends) /\ tenant.state # "none"
    BY Zenon, <1>0, <1>2 DEF ChangeSubscription
  <2>5. /\ \A r \in Subs : subs[r].state # "none" => subs'[r].state # "none"
        /\ \A r \in Subs : subs'[r].customer <= customers
        /\ subs'[s].state # "none"
    BY Zenon, <1>0, <2>1, <2>3
  <2> QED BY Zenon, <2>2, <2>3, <2>4, <2>5, EmitInv
<1>3. subs[s].state \in {"active", "past_due", "trialing"} => subs[s].state \in Statuses \ {"none"}
  BY Zenon DEF Statuses
<1>4. clock + 1 \in Nat /\ PayloadEnds \in Nat
  BY <1>0 DEF PayloadEnds
<1>5. /\ {"active", "past_due", "trialing", "cancelled"} \subseteq Statuses \ {"none"}
      /\ {"customer.subscription.updated", "customer.subscription.deleted",
          "invoice.payment_succeeded", "invoice.payment_failed",
          "customer.subscription.trial_will_end"} \subseteq Types
  BY Zenon DEF Statuses, Types
<1>6. ASSUME ChangeSubscription(s, "customer.subscription.trial_will_end", subs[s].state, 0)
      PROVE  BillingInv'
  BY Zenon, <1>2, <1>3, <1>5, <1>6 DEF ChangeSubscription
<1>7. ASSUME NEW plan \in DOMAIN PaidLimits, SwitchPrice(s, plan)
      PROVE  BillingInv'
  <2> DEFINE n == [subs[s] EXCEPT !.price = plan]
  <2>1. n \in SubRec /\ n.state = subs[s].state /\ n.customer = subs[s].customer
    BY Zenon, <1>0 DEF SubRec, Plans
  <2>2. subs' = [subs EXCEPT ![s] = n] /\ sessions' \subseteq sessions
    BY Zenon, <1>7 DEF SwitchPrice
  <2> HIDE DEF n
  <2>3. /\ subs' \in [Subs -> SubRec] /\ subs'[s] = n
        /\ \A r \in Subs : r # s => subs'[r] = subs[r]
    BY Zenon, <1>0, <2>1, <2>2
  <2>4. /\ Emit("customer.subscription.updated", s, subs[s].state, PayloadEnds)
        /\ tenant.state # "none" /\ subs[s].state \in Statuses \ {"none"}
    BY Zenon, <1>0, <1>3, <1>7 DEF SwitchPrice
  <2>5. /\ \A r \in Subs : subs[r].state # "none" => subs'[r].state # "none"
        /\ \A r \in Subs : subs'[r].customer <= customers
        /\ subs'[s].state # "none"
    BY Zenon, <1>0, <2>1, <2>3, <2>4
  <2> QED BY Zenon, <1>4, <1>5, <2>2, <2>3, <2>4, <2>5, EmitInv
<1> QED BY Zenon, <1>1, <1>2, <1>4, <1>5, <1>6, <1>7 DEF StripeStep

\* A billing period goes by.
LEMMA PeriodEndsInv ==
    ASSUME BillingInv, PeriodEnds
    PROVE  BillingInv'
<1>0. ReqShapes /\ used \in [Bounds -> Nat] /\ customers \in Nat /\ clock \in Nat /\ "periods" \in Bounds
  BY Zenon DEF BillingInv, TenancyInv, ReqShapes, ShopReq, StripeInv, Bounds
<1>1. /\ UNCHANGED <<rowVars, authVars, req, overlap, account, billing, devices, budget>>
      /\ UNCHANGED <<stripeVars, customers, sessions, subs, events, workVars, worker>>
      /\ clock' = clock + 1 /\ settled' = FALSE /\ Spend("periods")
  BY Zenon DEF PeriodEnds, stripeVars, workVars, authVars
<1>2. Grows
  BY Zenon, <1>0, <1>1, BoundsGrow
<1>3. TenancyInv' /\ Quiet /\ ShopReq' /\ UNCHANGED tenant
  BY Zenon, <1>1, <1>2, QuietHolds
<1>4. StripeInv'
  BY <1>0, <1>1, <1>3 DEF BillingInv, StripeInv
<1>5. RowsInv' /\ QueueInv' /\ LogInv'
  BY <1>0, <1>1, <1>2, <1>3, RowsFrame, WorkFrame DEF BillingInv
<1>6. PlanInv'
  BY Zenon, <1>1, <1>3 DEF BillingInv, PlanInv, LoneWorker
<1>7. DeviceInv'
  BY Zenon, <1>0, <1>1, <1>3, DeviceFrame DEF BillingInv
<1> QED BY Zenon, <1>3, <1>4, <1>5, <1>6, <1>7 DEF BillingInv

-----------------------------------------------------------------------------
(* The queue and the workers. *)

\* What sequences hold.
LEMMA RangeOf ==
    ASSUME NEW S, NEW q \in Seq(S)
    PROVE  /\ \A x : Elements(Append(q, x)) = Elements(q) \cup {x}
           /\ q # <<>> => Elements(q) = Elements(Tail(q)) \cup {Head(q)}
           /\ \A r \in Seq(S) : Elements(q \o r) = Elements(q) \cup Elements(r)
<1>1. ASSUME NEW x PROVE Elements(Append(q, x)) = Elements(q) \cup {x}
  <2>1. /\ Len(q) \in Nat /\ DOMAIN q = 1 .. Len(q)
        /\ DOMAIN Append(q, x) = DOMAIN q \cup {Len(q) + 1}
        /\ \A i \in DOMAIN q : Append(q, x)[i] = q[i]
        /\ Append(q, x)[Len(q) + 1] = x
    OBVIOUS
  <2> QED BY ZenonT(30), <2>1 DEF Elements
<1>2. ASSUME q # <<>> PROVE Elements(q) = Elements(Tail(q)) \cup {Head(q)}
  <2>1. ASSUME NEW x \in Elements(q)
        PROVE  x = Head(q) \/ x \in Elements(Tail(q))
    <3>1. PICK i \in 1 .. Len(q) : x = q[i]
      BY <2>1 DEF Elements
    <3>2. i = 1 \/ (i - 1 \in DOMAIN Tail(q) /\ Tail(q)[i - 1] = q[i])
      BY <1>2, <3>1
    <3>3. i = 1 => x = Head(q)
      BY <1>2, <3>1
    <3> QED BY Zenon, <3>1, <3>2, <3>3 DEF Elements
  <2>2. ASSUME NEW x \in Elements(Tail(q))
        PROVE  x \in Elements(q)
    <3>1. PICK i \in 1 .. Len(Tail(q)) : x = Tail(q)[i]
      BY <1>2, <2>2 DEF Elements
    <3>2. Tail(q)[i] = q[i + 1] /\ i + 1 \in 1 .. Len(q)
      BY <1>2, <3>1
    <3> QED BY <3>1, <3>2 DEF Elements
  <2>3. Head(q) \in Elements(q)
    BY <1>2 DEF Elements
  <2> QED BY Zenon, <2>1, <2>2, <2>3
<1>3. ASSUME NEW r \in Seq(S) PROVE Elements(q \o r) = Elements(q) \cup Elements(r)
  <2>1. ASSUME NEW x \in Elements(q \o r)
        PROVE  x \in Elements(q) \cup Elements(r)
    BY <2>1 DEF Elements
  <2>2. ASSUME NEW i \in DOMAIN q
        PROVE  (q \o r)[i] = q[i] /\ i \in DOMAIN (q \o r)
    OBVIOUS
  <2>3. ASSUME NEW i \in DOMAIN r
        PROVE  (q \o r)[i + Len(q)] = r[i] /\ i + Len(q) \in DOMAIN (q \o r)
    OBVIOUS
  <2>4. Elements(q) \subseteq Elements(q \o r)
    BY Zenon, <2>2 DEF Elements
  <2>5. Elements(r) \subseteq Elements(q \o r)
    BY Zenon, <2>3 DEF Elements
  <2> QED BY Zenon, <2>1, <2>4, <2>5
<1> QED BY Zenon, <1>1, <1>2, <1>3

\* What a publish leaves in the queue, and a commit in stripe_events, ...
LEMMA Appended ==
    /\ \A q \in Seq(MsgRec), m \in MsgRec :
          Append(q, m) \in Seq(MsgRec) /\ Elements(Append(q, m)) = Elements(q) \cup {m}
    /\ \A s \in Seq(Nat), n \in Nat :
          Append(s, n) \in Seq(Nat) /\ Elements(Append(s, n)) = Elements(s) \cup {n}
BY RangeOf

\* ... and what a delivery takes from it.
LEMMA Consumed ==
    ASSUME NEW S, NEW q \in Seq(S), q # <<>>
    PROVE  /\ Head(q) \in S /\ Tail(q) \in Seq(S)
           /\ Elements(q) = Elements(Tail(q)) \cup {Head(q)}
BY RangeOf

\* Each event has its count of emails.
LEMMA SameLength ==
    ASSUME told \in Seq(Nat), events \in Seq(EventRec), Len(told) = Len(events)
    PROVE  DOMAIN told = DOMAIN events
OBVIOUS

\* The first email about an event.
LEMMA FirstEmail ==
    ASSUME told \in Seq(Nat), NEW k \in DOMAIN told, told[k] = 0,
           told' = [told EXCEPT ![k] = @ + 1]
    PROVE  /\ told' \in Seq(Nat) /\ Len(told') = Len(told) /\ DOMAIN told' = DOMAIN told
           /\ told'[k] = 1 /\ \A j \in DOMAIN told \ {k} : told'[j] = told[j]
OBVIOUS

\* One more on both sides.
LEMMA Increment == \A m, n \in Nat : m <= n => m + 1 <= n + 1
OBVIOUS

\* One worker moves.
Turns(w) ==
    /\ worker' \in [Workers -> WorkerRec]
    /\ \A v \in Workers \ {w} : worker'[v] = worker[v]

\* Where it moves to.
LEMMA WorkerMoves ==
    ASSUME worker \in [Workers -> WorkerRec], NEW w \in Workers
    PROVE  /\ \A at \in {"idle", "begin", "commit", "email", "ack", "wait"} :
                 worker' = WorkerAt(w, at) =>
                     /\ Turns(w) /\ worker'[w].at = at /\ worker'[w].msg = worker[w].msg
                     /\ worker'[w].context = worker[w].context
           /\ \A at \in {"down", "idle"} :
                 worker' = [worker EXCEPT ![w] = NoWork(at)] =>
                     Turns(w) /\ worker'[w].at = at /\ worker'[w].msg = NoMessage
           /\ \A m \in MsgRec :
                 worker' = [worker EXCEPT ![w].at = "begin", ![w].msg = m] =>
                     Turns(w) /\ worker'[w].at = "begin" /\ worker'[w].msg = m
           /\ \A c \in ContextRec :
                 worker' = [worker EXCEPT ![w].at = "commit", ![w].context = c] =>
                     /\ Turns(w) /\ worker'[w].at = "commit"
                     /\ worker'[w].msg = worker[w].msg /\ worker'[w].context = c
<1>0. worker[w] \in WorkerRec
  OBVIOUS
<1>1. ASSUME NEW n \in WorkerRec, worker' = [worker EXCEPT ![w] = n]
      PROVE  Turns(w) /\ worker'[w] = n
  BY Zenon, <1>1 DEF Turns
<1>2. ASSUME NEW at \in {"idle", "begin", "commit", "email", "ack", "wait"},
             worker' = WorkerAt(w, at)
      PROVE  /\ Turns(w) /\ worker'[w].at = at /\ worker'[w].msg = worker[w].msg
             /\ worker'[w].context = worker[w].context
  <2> DEFINE n == [worker[w] EXCEPT !.at = at]
  <2>1. /\ n \in WorkerRec /\ n.at = at /\ n.msg = worker[w].msg
        /\ n.context = worker[w].context
    BY Zenon, <1>0 DEF WorkerRec
  <2>2. worker' = [worker EXCEPT ![w] = n]
    BY Zenon, <1>2 DEF WorkerAt
  <2> HIDE DEF n
  <2> QED BY Zenon, <1>1, <2>1, <2>2
<1>3. ASSUME NEW at \in {"down", "idle"}, worker' = [worker EXCEPT ![w] = NoWork(at)]
      PROVE  Turns(w) /\ worker'[w].at = at /\ worker'[w].msg = NoMessage
  <2>1. NoWork(at) \in WorkerRec /\ NoWork(at).at = at /\ NoWork(at).msg = NoMessage
    BY Zenon DEF NoWork, WorkerRec, NoMessage, MsgRec, NoContext, ContextRec, Plans
  <2> QED BY Zenon, <1>1, <1>3, <2>1
<1>4. ASSUME NEW m \in MsgRec, worker' = [worker EXCEPT ![w].at = "begin", ![w].msg = m]
      PROVE  Turns(w) /\ worker'[w].at = "begin" /\ worker'[w].msg = m
  <2> DEFINE n == [worker[w] EXCEPT !.at = "begin", !.msg = m]
  <2>1. n \in WorkerRec /\ n.at = "begin" /\ n.msg = m
    BY Zenon, <1>0 DEF WorkerRec
  <2>2. worker' = [worker EXCEPT ![w] = n]
    BY Zenon, <1>4
  <2> HIDE DEF n
  <2> QED BY Zenon, <1>1, <2>1, <2>2
<1>5. ASSUME NEW c \in ContextRec,
             worker' = [worker EXCEPT ![w].at = "commit", ![w].context = c]
      PROVE  /\ Turns(w) /\ worker'[w].at = "commit"
             /\ worker'[w].msg = worker[w].msg /\ worker'[w].context = c
  <2> DEFINE n == [worker[w] EXCEPT !.at = "commit", !.context = c]
  <2>1. n \in WorkerRec /\ n.at = "commit" /\ n.msg = worker[w].msg /\ n.context = c
    BY Zenon, <1>0 DEF WorkerRec
  <2>2. worker' = [worker EXCEPT ![w] = n]
    BY Zenon, <1>5
  <2> HIDE DEF n
  <2> QED BY Zenon, <1>1, <2>1, <2>2
<1> QED BY Zenon, <1>2, <1>3, <1>4, <1>5

\* A step of the queue or of a worker that does not write to the tenant: the rest
\* is what it was.
LEMMA OnlyWorkFrame ==
    ASSUME BillingInv, OnlyWork, Grows
    PROVE  /\ TenancyInv' /\ ShopReq' /\ StripeInv' /\ RowsInv' /\ DeviceInv'
           /\ UNCHANGED <<tenant, events, account, clock, devices, settled, budget>>
           /\ \A k \in DOMAIN events : Erasable(k) => Erasable(k)'
           /\ \A k \in DOMAIN events : Buried(k) => Buried(k)'
           /\ \A m : MsgOK(m) => MsgOK(m)'
<1>0. used \in [Bounds -> Nat] /\ customers \in Nat
  BY Zenon DEF BillingInv, TenancyInv, ReqShapes, ShopReq
<1>1. /\ UNCHANGED <<rowVars, authVars, req, overlap, customers>>
      /\ UNCHANGED <<account, billing, clock, stripeVars, subs, events, devices, settled, budget>>
  BY Zenon DEF OnlyWork, stripeVars, deviceVars, authVars
<1>2. TenancyInv' /\ Quiet /\ ShopReq' /\ UNCHANGED tenant
  BY Zenon, <1>1, QuietHolds
<1>3. StripeInv' /\ RowsInv'
  BY <1>0, <1>1, <1>2, StripeFrame, RowsFrame DEF BillingInv
<1>4. DeviceInv'
  BY Zenon, <1>0, <1>1, <1>2, DeviceFrame DEF BillingInv
<1>5. /\ \A k \in DOMAIN events : Erasable(k) => Erasable(k)'
      /\ \A k \in DOMAIN events : Buried(k) => Buried(k)'
      /\ \A m : MsgOK(m) => MsgOK(m)'
  BY Zenon, <1>0, <1>1, <1>2, MsgKept
<1> QED BY Zenon, <1>1, <1>2, <1>3, <1>4, <1>5

\* The queue after a step of a worker, or of none: what it is left to show.
LEMMA QueueMoves ==
    ASSUME QueueInv, used \in [Bounds -> Nat], Grows, UNCHANGED events,
           \A k \in DOMAIN events : Erasable(k) => Erasable(k)',
           \A k \in DOMAIN events : Buried(k) => Buried(k)',
           \A m : MsgOK(m) => MsgOK(m)',
           worker' \in [Workers -> WorkerRec],
           \A v \in Workers : worker'[v] = worker[v] \/ Holds(v)',
           declared' \in {"none", "plain", "dlx"}, queue' \in Seq(MsgRec),
           \A m \in Elements(queue') : m \in Elements(queue) \/ MsgOK(m)',
           dead' \subseteq DOMAIN events, \A k \in dead' : k \in dead \/ Buried(k)',
           queued' \subseteq DOMAIN events, \A k \in queued' : k \in queued \/ Kept(k)',
           \A k \in DOMAIN events : Kept(k) => Kept(k)'
    PROVE  QueueInv'
<1>1. \A v \in Workers : Holds(v)'
  BY Zenon, HoldsKept DEF QueueInv
<1>2. /\ \A m \in Elements(queue') : MsgOK(m)'
      /\ \A k \in dead' : Buried(k)'
      /\ \A k \in queued' : Kept(k)'
  BY Zenon DEF QueueInv
<1> QED BY Zenon, <1>1, <1>2 DEF QueueInv

\* The log after a step of a worker that neither writes nor sends.
LEMMA LogMoves ==
    ASSUME LogInv, NEW w \in Workers, Turns(w), UNCHANGED <<log, told, events>>,
           worker'[w].at = "ack" => worker'[w].msg.id \in Elements(log),
           \/ worker'[w].at \notin {"commit", "email"}
           \/ /\ worker'[w].at = "commit" /\ worker'[w].msg.id \notin Elements(log)
              /\ \A v \in Workers \ {w} :
                    ~(worker[v].at = "commit" /\ worker[v].msg.id = worker'[w].msg.id)
    PROVE  LogInv'
<1>1. \A v \in Workers \ {w} : worker'[v] = worker[v]
  BY Zenon DEF Turns
<1>2. /\ log' \in Seq(Nat) /\ \A i, j \in DOMAIN log' : log'[i] = log'[j] => i = j
      /\ told' \in Seq(Nat) /\ Len(told') = Len(events')
      /\ \A k \in DOMAIN told' : told'[k] <= 1 /\ (told'[k] # 0 => k \in Elements(log'))
  BY Zenon DEF LogInv
<1>3. ASSUME NEW v \in Workers
      PROVE  /\ worker'[v].at = "commit" => worker'[v].msg.id \notin Elements(log)
             /\ worker'[v].at \in {"email", "ack"} => worker'[v].msg.id \in Elements(log)
             /\ worker'[v].at = "email" => told[worker'[v].msg.id] = 0
  BY ZenonT(30), <1>1 DEF LogInv
<1>4. ASSUME NEW v \in Workers, NEW x \in Workers,
             worker'[v].at \in {"commit", "email"}, worker'[x].at \in {"commit", "email"},
             worker'[v].msg.id = worker'[x].msg.id
      PROVE  v = x
  <2>1. CASE v # w /\ x # w
    BY <1>1, <1>4, <2>1 DEF LogInv
  <2>2. CASE v = w /\ x # w
    BY Zenon, <1>1, <1>3, <1>4, <2>2
  <2>3. CASE v # w /\ x = w
    BY Zenon, <1>1, <1>3, <1>4, <2>3
  <2> QED BY Zenon, <2>1, <2>2, <2>3
<1> QED BY Zenon, <1>2, <1>3, <1>4 DEF LogInv

\* The context after a step that brings none to a commit.
LEMMA PlanMoves ==
    ASSUME PlanInv, UNCHANGED <<tenant, account, clock, devices, settled, budget>>,
           \A v \in Workers : worker'[v].at = "commit" => worker'[v] = worker[v]
    PROVE  PlanInv'
<1>1. QuotaLimit' = QuotaLimit
  BY Zenon DEF QuotaLimit
<1> QED BY Zenon, <1>1 DEF PlanInv, LoneWorker, Fits

\* An event on its way to the workers, or too old for them.
LEMMA QueueEventInv ==
    ASSUME BillingInv, (\E k \in DOMAIN events : QueueEvent(k)) \/ ExpireEvent
    PROVE  BillingInv'
<1>0. /\ ReqShapes /\ used \in [Bounds -> Nat] /\ queue \in Seq(MsgRec) /\ QueueInv
      /\ worker \in [Workers -> WorkerRec] /\ "periods" \in Bounds /\ dead \subseteq DOMAIN events
      /\ queued \subseteq DOMAIN events /\ \A m \in Elements(queue) : MsgOK(m)
      /\ declared \in {"none", "plain", "dlx"}
  BY Zenon DEF BillingInv, TenancyInv, ReqShapes, QueueInv, Bounds
<1>1. OnlyWork /\ UNCHANGED <<worker, log, told, budget>>
  BY Zenon DEF QueueEvent, StripeWebhook, PublishDirectly, ExpireEvent, OnlyWork, authVars
<1>2. Grows
  BY Zenon, <1>0, <1>1, BoundsGrow DEF QueueEvent, ExpireEvent
<1>3. /\ TenancyInv' /\ ShopReq' /\ StripeInv' /\ RowsInv' /\ DeviceInv'
      /\ UNCHANGED <<tenant, events, account, clock, devices, settled, budget>>
      /\ \A k \in DOMAIN events : Erasable(k) => Erasable(k)'
      /\ \A k \in DOMAIN events : Buried(k) => Buried(k)'
      /\ \A m : MsgOK(m) => MsgOK(m)'
  BY Zenon, <1>1, <1>2, OnlyWorkFrame
<1>4. LogInv' /\ PlanInv'
  BY Zenon, <1>1, <1>3, LogFrame, PlanMoves DEF BillingInv
<1>5. ASSUME NEW k \in DOMAIN events, QueueEvent(k)
      PROVE  QueueInv'
  <2> DEFINE m == [id |-> k, retry |-> 0]
  <2>1. /\ queue' = Append(queue, m) /\ queued' = queued \cup {k} /\ dead' = dead
        /\ declared' \in {"none", "plain", "dlx"}
    BY Zenon, <1>0, <1>5 DEF QueueEvent, StripeWebhook, PublishDirectly
  <2>2. k \in Nat /\ used'["faults"] \in Nat
    BY <1>2 DEF BillingInv, StripeInv, Grows, Bounds
  <2>3. m \in MsgRec /\ m.id = k /\ MsgOK(m)'
    BY <1>3, <2>2, LimitsAssumption DEF MsgOK, MsgRec
  <2> HIDE DEF m
  <2>4. queue' \in Seq(MsgRec) /\ Elements(queue') = Elements(queue) \cup {m}
    <3>1. queue \in Seq(MsgRec)
      BY Zenon, <1>0
    <3>2. Append(queue, m) \in Seq(MsgRec) /\ Elements(Append(queue, m)) = Elements(queue) \cup {m}
      BY Zenon, <2>3, <3>1, Appended
    <3> QED BY Zenon, <2>1, <3>2
  <2>5. Kept(k)' /\ \A j \in DOMAIN events : Kept(j) => Kept(j)'
    BY Zenon, <1>1, <2>1, <2>3, <2>4 DEF Kept
  <2> QED BY Zenon, <1>0, <1>1, <1>2, <1>3, <2>1, <2>3, <2>4, <2>5, QueueMoves
<1>6. ASSUME ExpireEvent
      PROVE  QueueInv'
  <2> DEFINE m == Head(queue)
  <2>1. /\ queue # <<>> /\ queue' = Tail(queue) /\ dead' = dead \cup {m.id}
        /\ UNCHANGED <<queued, declared>> /\ Spend("periods")
    BY Zenon, <1>6 DEF ExpireEvent
  <2>2. used'["periods"] > 0
    BY <1>0, <2>1 DEF Spend
  <2>3. \A k : Buried(k)'
    BY Zenon, <2>2 DEF Buried
  <2>4. queue' \in Seq(MsgRec) /\ Elements(queue) = Elements(queue') \cup {m}
    BY Zenon, <1>0, <2>1, Consumed
  <2> HIDE DEF m
  <2>5. dead' \subseteq DOMAIN events
    BY Zenon, <1>0, <2>1, <2>4 DEF MsgOK
  <2>6. \A k \in DOMAIN events : Kept(k) => Kept(k)'
    BY Zenon, <1>1, <2>1, <2>4 DEF Kept
  <2> QED BY Zenon, <1>0, <1>1, <1>2, <1>3, <2>1, <2>3, <2>4, <2>5, <2>6, QueueMoves
<1> QED BY Zenon, <1>3, <1>4, <1>5, <1>6 DEF BillingInv

\* What comes of a queue when the broker puts a worker's message back at its head.
Returned(w, q) ==
    LET r == Unacked(w) \o q IN
    /\ r \in Seq(MsgRec) /\ Elements(q) \subseteq Elements(r)
    /\ \A m \in Elements(r) : m \in Elements(q) \/ MsgOK(m)
    /\ worker[w].msg # NoMessage => worker[w].msg \in Elements(r)

\* What the broker takes back of a worker that is gone.
LEMMA UnackedOK ==
    ASSUME NEW w \in Workers, Holds(w), worker[w].msg \in MsgRec, NEW q \in Seq(MsgRec)
    PROVE  Returned(w, q)
<1>1. CASE worker[w].msg = NoMessage
  <2>1. Unacked(w) \o q = q
    BY <1>1 DEF Unacked
  <2> QED BY Zenon, <1>1, <2>1 DEF Returned
<1>2. CASE worker[w].msg # NoMessage
  <2>1. MsgOK(worker[w].msg)
    BY Zenon, <1>2 DEF Holds
  <2> DEFINE u == <<worker[w].msg>>
  <2>2. u \in Seq(MsgRec) /\ Elements(u) = {worker[w].msg} /\ Unacked(w) = u
    BY <1>2 DEF Unacked, Elements
  <2> HIDE DEF u
  <2>3. u \o q \in Seq(MsgRec) /\ Elements(u \o q) = Elements(u) \cup Elements(q)
    BY <2>2, RangeOf
  <2> QED BY Zenon, <2>1, <2>2, <2>3 DEF Returned
<1> QED BY Zenon, <1>1, <1>2

\* The steps of a worker but for the commit.
LEMMA WorkInv ==
    ASSUME BillingInv, NEW w \in Workers,
           \/ ConnectWorker(w) \/ StopWorker(w) \/ ConsumeEvent(w) \/ BeginStripeEvent(w)
           \/ QueueOwnerEmail(w) \/ AckEvent(w) \/ FailStripeEvent(w) \/ RetryEvent(w)
    PROVE  BillingInv'
<1>0. /\ ReqShapes /\ used \in [Bounds -> Nat] /\ queue \in Seq(MsgRec) /\ QueueInv /\ LogInv
      /\ worker \in [Workers -> WorkerRec] /\ dead \subseteq DOMAIN events
      /\ Holds(w) /\ \A m \in Elements(queue) : MsgOK(m)
      /\ declared \in {"none", "plain", "dlx"} /\ queued \subseteq DOMAIN events
  BY Zenon DEF BillingInv, TenancyInv, ReqShapes, QueueInv
<1>t. worker \in [Workers -> WorkerRec]
  BY Zenon, <1>0
<1>1. /\ worker[w].msg \in MsgRec /\ worker[w].msg.id \in Nat /\ worker[w].msg.retry \in Nat
      /\ \A k \in DOMAIN events : k # NoMessage.id
  <2>1. worker[w] \in WorkerRec
    BY Zenon, <1>0
  <2>2. worker[w].msg \in MsgRec
    BY Zenon, <2>1 DEF WorkerRec
  <2>3. 0 \notin DOMAIN events
    BY DEF BillingInv, StripeInv
  <2> QED BY Zenon, <2>2, <2>3 DEF MsgRec, NoMessage
<1>2. OnlyWork /\ UNCHANGED <<queued, log, budget>>
  BY Zenon DEF ConnectWorker, StopWorker, ConsumeEvent, BeginStripeEvent, QueueOwnerEmail, AckEvent,
         FailStripeEvent, RetryEvent, OnlyWork, authVars
<1>3. Grows
  <2>1. UNCHANGED used \/ Spend("faults") \/ \E ok : MayFail(ok)
    BY Zenon DEF ConnectWorker, StopWorker, ConsumeEvent, BeginStripeEvent, QueueOwnerEmail, AckEvent,
           FailStripeEvent, RetryEvent
  <2>2. "faults" \in Bounds
    BY Zenon DEF Bounds
  <2> QED BY Zenon, <1>0, <1>2, <2>1, <2>2, BoundsGrow
<1>4. /\ TenancyInv' /\ ShopReq' /\ StripeInv' /\ RowsInv' /\ DeviceInv'
      /\ UNCHANGED <<tenant, events, account, clock, devices, settled, budget>>
      /\ \A k \in DOMAIN events : Erasable(k) => Erasable(k)'
      /\ \A k \in DOMAIN events : Buried(k) => Buried(k)'
      /\ \A m : MsgOK(m) => MsgOK(m)'
  BY Zenon, <1>2, <1>3, OnlyWorkFrame
<1>5. ASSUME Turns(w), Holds(w)', LogInv', worker'[w].at # "commit" \/ PlanInv',
             queue' \in Seq(MsgRec), \A m \in Elements(queue') : m \in Elements(queue) \/ MsgOK(m)',
             declared' \in {"none", "plain", "dlx"}, dead \subseteq dead',
             dead' \subseteq DOMAIN events, \A k \in dead' : k \in dead \/ Buried(k)',
             \A m \in Elements(queue) : \/ \E n \in Elements(queue') : n.id = m.id
                                     \/ worker'[w].msg.id = m.id,
             \A k \in DOMAIN events : worker[w].msg.id = k => Kept(k)'
      PROVE  BillingInv'
  <2>1. \A v \in Workers \ {w} : worker'[v] = worker[v]
    BY Zenon, <1>5 DEF Turns
  <2>2. \A k \in DOMAIN events : Kept(k) => Kept(k)'
    <3> SUFFICES ASSUME NEW k \in DOMAIN events, Kept(k) PROVE Kept(k)'
      OBVIOUS
    <3>1. CASE \E m \in Elements(queue) : m.id = k
      BY Zenon, <1>5, <3>1 DEF Kept
    <3>2. CASE \E v \in Workers : worker[v].msg.id = k
      <4> PICK v \in Workers : worker[v].msg.id = k
        BY Zenon, <3>2
      <4>1. CASE v = w
        BY Zenon, <1>5, <4>1
      <4>2. CASE v # w
        <5>1. worker'[v].msg.id = k
          BY Zenon, <2>1, <4>2
        <5> QED BY Zenon, <5>1 DEF Kept
      <4> QED BY Zenon, <4>1, <4>2
    <3>3. CASE k \in Elements(log) \/ k \in dead
      BY Zenon, <1>2, <1>5, <3>3 DEF Kept
    <3> QED BY Zenon, <3>1, <3>2, <3>3 DEF Kept
  <2>3. QueueInv'
    BY Zenon, <1>0, <1>2, <1>3, <1>4, <1>5, <2>1, <2>2, QueueMoves DEF Turns
  <2>4. PlanInv'
    BY Zenon, <1>4, <1>5, <2>1, PlanMoves DEF BillingInv
  <2> QED BY Zenon, <1>4, <1>5, <2>3, <2>4 DEF BillingInv
<1>6. ASSUME UNCHANGED told, Turns(w), worker'[w].at \notin {"commit", "email", "ack"}
      PROVE  LogInv'
  BY Zenon, <1>0, <1>2, <1>4, <1>6, LogMoves
<1>7. queue' = queue => \A m \in Elements(queue) : \E n \in Elements(queue') : n.id = m.id
  OBVIOUS
<1>8. ASSUME worker'[w].at \in {"down", "idle"}, worker'[w].msg = NoMessage,
             worker'[w].at = "idle" => w \in budget.workers
      PROVE  Holds(w)'
  BY Zenon, <1>4, <1>8 DEF Holds, Has
<1>9. ASSUME worker'[w].at \in {"begin", "commit", "email", "ack"}, MsgOK(worker[w].msg)',
             w \in budget.workers
      PROVE  Holds(w)'
  BY Zenon, <1>4, <1>9 DEF Holds, Has
<1>10. CASE ConnectWorker(w)
  <2>1. /\ worker' = WorkerAt(w, "idle") /\ declared' = "dlx" /\ UNCHANGED <<queue, dead, told>>
        /\ w \in budget.workers /\ worker[w].at = "down"
    BY Zenon, <1>10 DEF ConnectWorker
  <2>2. Turns(w) /\ worker'[w].at = "idle" /\ worker'[w].msg = worker[w].msg
    BY Zenon, <1>t, <2>1, WorkerMoves
  <2>3. worker[w].msg = NoMessage
    BY Zenon, <1>0, <2>1 DEF Holds, Has
  <2> QED BY Zenon, <1>0, <1>1, <1>5, <1>6, <1>7, <1>8, <2>1, <2>2, <2>3
<1>11. CASE AckEvent(w)
  <2>1. /\ worker' = [worker EXCEPT ![w] = NoWork("idle")] /\ UNCHANGED <<queue, declared, dead, told>>
        /\ worker[w].at = "ack"
    BY Zenon, <1>11 DEF AckEvent
  <2>2. Turns(w) /\ worker'[w].at = "idle" /\ worker'[w].msg = NoMessage
    BY Zenon, <1>t, <2>1, WorkerMoves
  <2>3. w \in budget.workers /\ worker[w].msg.id \in Elements(log)
    BY Zenon, <1>0, <2>1 DEF Holds, LogInv
  <2>4. \A k \in DOMAIN events : worker[w].msg.id = k => Kept(k)'
    BY Zenon, <1>2, <2>3 DEF Kept
  <2> QED BY Zenon, <1>0, <1>5, <1>6, <1>7, <1>8, <2>1, <2>2, <2>3, <2>4
<1>12. CASE ConsumeEvent(w)
  <2>1. /\ worker' = [worker EXCEPT ![w].at = "begin", ![w].msg = Head(queue)]
        /\ queue # <<>> /\ queue' = Tail(queue) /\ UNCHANGED <<declared, dead, told>>
        /\ worker[w].at = "idle"
    BY Zenon, <1>12 DEF ConsumeEvent
  <2>2. queue' \in Seq(MsgRec) /\ Head(queue) \in MsgRec
        /\ Elements(queue) = Elements(queue') \cup {Head(queue)}
    BY Zenon, <1>0, <2>1, Consumed
  <2>3. Turns(w) /\ worker'[w].at = "begin" /\ worker'[w].msg = Head(queue)
    BY Zenon, <1>t, <2>1, <2>2, WorkerMoves
  <2>4. w \in budget.workers /\ MsgOK(worker[w].msg)' /\ worker[w].msg = NoMessage
    <3>1. w \in budget.workers /\ worker[w].msg = NoMessage
      BY Zenon, <1>0, <2>1 DEF Holds, Has
    <3> DEFINE h == Head(queue)
    <3>2. MsgOK(h)
      BY Zenon, <1>0, <2>2
    <3> HIDE DEF h
    <3>3. \A m : MsgOK(m) => MsgOK(m)'
      BY Zenon, <1>4
    <3>4. PICK m : m = h
      OBVIOUS
    <3>5. MsgOK(m)' /\ worker'[w].msg = m
      BY Zenon, <2>3, <3>2, <3>3, <3>4 DEF h
    <3>6. MsgOK(worker[w].msg)'
      BY Zenon, <3>5 DEF MsgOK, Erasable
    <3> QED BY Zenon, <3>1, <3>6
  <2>5. Holds(w)' /\ LogInv'
    BY Zenon, <1>6, <1>9, <2>1, <2>3, <2>4
  <2>6. \A m \in Elements(queue) : \/ \E n \in Elements(queue') : n.id = m.id
                                \/ worker'[w].msg.id = m.id
    BY Zenon, <2>2, <2>3
  <2> QED BY Zenon, <1>0, <1>1, <1>5, <2>1, <2>2, <2>3, <2>4, <2>5, <2>6
<1>13. CASE StopWorker(w)
  <2>1. /\ worker' = [worker EXCEPT ![w] = NoWork("down")] /\ UNCHANGED <<declared, dead, told>>
        /\ queue' = Unacked(w) \o queue /\ worker[w].at # "down"
    BY Zenon, <1>13 DEF StopWorker
  <2>2. Turns(w) /\ worker'[w].at = "down" /\ worker'[w].msg = NoMessage
    BY Zenon, <1>t, <2>1, WorkerMoves
  <2>3. Returned(w, queue)
    BY Zenon, <1>0, <1>1, UnackedOK
  <2>4. /\ queue' \in Seq(MsgRec)
        /\ \A m \in Elements(queue') : m \in Elements(queue) \/ MsgOK(m)'
        /\ \A m \in Elements(queue) : \E n \in Elements(queue') : n.id = m.id
    BY Zenon, <1>0, <1>4, <2>1, <2>3 DEF Returned
  <2>5. \A k \in DOMAIN events : worker[w].msg.id = k => Kept(k)'
    BY Zenon, <1>0, <1>1, <2>1, <2>3 DEF Kept, Returned
  <2> QED BY Zenon, <1>0, <1>5, <1>6, <1>8, <2>1, <2>2, <2>4, <2>5
<1>14. CASE RetryEvent(w)
  <2> DEFINE copy == [worker[w].msg EXCEPT !.retry = @ + 1]
  <2>1. PICK acked \in BOOLEAN :
          /\ queue' = (IF acked THEN <<>> ELSE Unacked(w)) \o Append(queue, copy)
          /\ worker' = [worker EXCEPT ![w] = NoWork(IF acked THEN "idle" ELSE "down")]
    BY Zenon, <1>14 DEF RetryEvent
  <2>2. UNCHANGED <<declared, dead, told>> /\ worker[w].at = "wait"
    BY Zenon, <1>14 DEF RetryEvent
  <2>3. /\ Turns(w) /\ worker'[w].at \in {"idle", "down"} /\ worker'[w].msg = NoMessage
        /\ w \in budget.workers
    BY Zenon, <1>0, <2>1, <2>2, WorkerMoves DEF Holds
  <2>4. MsgOK(copy) /\ copy.id = worker[w].msg.id
    <3>1. /\ MsgOK(worker[w].msg) /\ worker[w].msg.retry < MaxRetries - 1
          /\ worker[w].msg.retry + 1 <= used["faults"] \/ Erasable(worker[w].msg.id)
      BY Zenon, <1>0, <2>2 DEF Holds, Has
    <3>2. copy \in MsgRec /\ copy.id = worker[w].msg.id /\ copy.retry = worker[w].msg.retry + 1
      BY <1>1 DEF MsgRec
    <3> HIDE DEF copy
    <3> QED BY <1>1, <3>1, <3>2, LimitsAssumption DEF MsgOK
  <2> HIDE DEF copy
  <2> DEFINE rest == Append(queue, copy)
  <2>5. rest \in Seq(MsgRec) /\ Elements(rest) = Elements(queue) \cup {copy}
    <3>1. queue \in Seq(MsgRec) /\ copy \in MsgRec
      BY Zenon, <1>0, <2>4 DEF MsgOK
    <3> QED BY Zenon, <3>1, Appended
  <2> HIDE DEF rest
  <2>6. Returned(w, rest)
    BY Zenon, <1>0, <1>1, <2>5, UnackedOK
  <2>7. /\ queue' \in Seq(MsgRec) /\ Elements(rest) \subseteq Elements(queue')
        /\ \A m \in Elements(queue') : m \in Elements(rest) \/ MsgOK(m)
    <3>1. CASE acked
      <4>1. queue' = rest
        BY <2>1, <2>5, <3>1 DEF rest
      <4> QED BY Zenon, <2>5, <4>1
    <3>2. CASE ~acked
      BY Zenon, <2>1, <2>6, <3>2 DEF rest, Returned
    <3> QED BY Zenon, <3>1, <3>2
  <2>8. /\ \A m \in Elements(queue') : m \in Elements(queue) \/ MsgOK(m)'
        /\ \A m \in Elements(queue) : \E n \in Elements(queue') : n.id = m.id
    BY Zenon, <1>4, <2>4, <2>5, <2>7
  <2>9. \A k \in DOMAIN events : worker[w].msg.id = k => Kept(k)'
    BY Zenon, <2>4, <2>5, <2>7 DEF Kept
  <2> QED BY Zenon, <1>0, <1>5, <1>6, <1>8, <2>2, <2>3, <2>7, <2>8, <2>9
<1>15. CASE FailStripeEvent(w)
  <2> DEFINE ok == worker[w].at = "commit" /\ IsCheckout(EventOf(w)) /\ tenant.state # "live"
             r == worker[w].msg.retry
             k == worker[w].msg.id
  <2>1. /\ worker[w].at \in {"begin", "commit"} /\ MayFail(ok)
        /\ IF r >= MaxRetries - 1
           THEN /\ dead' = dead \cup {k}
                /\ worker' = [worker EXCEPT ![w] = NoWork("idle")]
           ELSE UNCHANGED dead /\ worker' = WorkerAt(w, "wait")
        /\ UNCHANGED <<queue, declared, told>>
    BY Zenon, <1>15 DEF FailStripeEvent
  <2>2. MsgOK(worker[w].msg) /\ w \in budget.workers
    BY Zenon, <1>0, <2>1 DEF Holds, Has
  <2>3. r + 1 <= used'["faults"] \/ Erasable(k)
    <3>1. CASE ok
      <4>1. events # <<>> /\ EventOf(w) = events[k]
        BY <2>2 DEF MsgOK, EventOf
      <4>2. tenant.state \notin {"none", "live"}
        BY Zenon, <3>1, <4>1 DEF BillingInv, StripeInv
      <4>3. tenant.state = "gone"
        BY Zenon, <4>2 DEF BillingInv, TenancyInv, RowShapes
      <4> QED BY Zenon, <3>1, <4>1, <4>3 DEF Erasable
    <3>2. CASE ~ok
      <4>1. Spend("faults")
        BY Zenon, <2>1, <3>2 DEF MayFail
      <4>2. used'["faults"] = used["faults"] + 1
        BY Zenon, <1>0, <4>1 DEF Spend, Bounds
      <4>3. r <= used["faults"] \/ Erasable(k)
        BY Zenon, <2>2 DEF MsgOK
      <4>4. used["faults"] \in Nat
        BY Zenon, <1>0 DEF Bounds
      <4>5. r \in Nat
        BY Zenon, <1>1, <2>2 DEF MsgOK
      <4> QED BY Zenon, <4>2, <4>3, <4>4, <4>5, Increment
    <3> QED BY Zenon, <3>1, <3>2
  <2>4. k \in DOMAIN events /\ r <= MaxRetries - 1 /\ r \in Nat
    BY Zenon, <1>1, <2>2 DEF MsgOK
  <2> HIDE DEF ok
  <2>5. CASE r >= MaxRetries - 1
    <3>1. Turns(w) /\ worker'[w].at = "idle" /\ worker'[w].msg = NoMessage
      BY Zenon, <1>t, <2>1, <2>5, WorkerMoves
    <3>2. r + 1 = MaxRetries
      BY <2>4, <2>5, LimitsAssumption
    <3>3. \A j \in dead' : j \in dead \/ Buried(j)'
      <4> SUFFICES ASSUME NEW j \in dead', j \notin dead PROVE Buried(j)'
        OBVIOUS
      <4>1. j = k
        BY Zenon, <2>1, <2>5
      <4>2. Erasable(j) => Erasable(j)'
        BY Zenon, <1>4, <2>4, <4>1
      <4>3. used'["faults"] >= MaxRetries \/ Erasable(j)
        BY Zenon, <2>3, <3>2, <4>1
      <4> QED BY Zenon, <4>2, <4>3 DEF Buried
    <3>4. dead \subseteq dead' /\ dead' \subseteq DOMAIN events
      BY Zenon, <1>0, <2>1, <2>4, <2>5
    <3>5. \A j \in DOMAIN events : worker[w].msg.id = j => Kept(j)'
      BY Zenon, <2>1, <2>5 DEF Kept
    <3> QED BY Zenon, <1>0, <1>5, <1>6, <1>7, <1>8, <2>1, <2>2, <3>1, <3>3, <3>4, <3>5
  <2>6. CASE ~(r >= MaxRetries - 1)
    <3>1. Turns(w) /\ worker'[w].at = "wait" /\ worker'[w].msg = worker[w].msg
      BY Zenon, <1>t, <2>1, <2>6, WorkerMoves
    <3>2. Holds(w)'
      <4>1. MsgOK(worker[w].msg)'
        BY Zenon, <1>4, <2>2, <3>1 DEF MsgOK, Erasable
      <4>2. r < MaxRetries - 1
        BY <2>4, <2>6, LimitsAssumption
      <4>3. Erasable(worker[w].msg.id) => Erasable(worker[w].msg.id)'
        BY Zenon, <1>4, <3>1 DEF Erasable
      <4> QED BY Zenon, <1>4, <2>2, <2>3, <3>1, <4>1, <4>2, <4>3 DEF Holds, Has
    <3>3. dead \subseteq dead' /\ dead' \subseteq DOMAIN events /\ UNCHANGED dead
      BY Zenon, <1>0, <2>1, <2>6
    <3>4. \A j \in DOMAIN events : worker[w].msg.id = j => Kept(j)'
      BY Zenon, <3>1 DEF Kept
    <3> QED BY Zenon, <1>0, <1>5, <1>6, <1>7, <2>1, <3>1, <3>2, <3>3, <3>4
  <2> QED BY Zenon, <2>5, <2>6
<1>16. CASE BeginStripeEvent(w)
  <2> DEFINE k == worker[w].msg.id
             c == FindBillingContext(EventOf(w))
  <2>1. /\ worker[w].at = "begin" /\ UNCHANGED <<queue, declared, dead, told>>
        /\ \A v \in Workers \ {w} : ~(worker[v].at = "commit" /\ worker[v].msg.id = k)
        /\ worker' = IF IsLogged(k) THEN WorkerAt(w, "ack")
                     ELSE [worker EXCEPT ![w].at = "commit", ![w].context = c]
    BY Zenon, <1>16 DEF BeginStripeEvent
  <2>2. MsgOK(worker[w].msg) /\ w \in budget.workers
    BY Zenon, <1>0, <2>1 DEF Holds, Has
  <2>3. IsLogged(k) <=> k \in Elements(log)
    BY Zenon DEF IsLogged, Elements
  <2>4. /\ c \in ContextRec
        /\ tenant.state # "gone" /\ c.found => c.plan = account.plan /\ c.ends = account.ends
    <3>1. account \in [plan : Plans, status : Statuses, ends : Nat] /\ billing.plan \in Plans
      BY Zenon DEF BillingInv, RowsInv
    <3>2. c = NoContext \/ c = [found |-> TRUE, plan |-> billing.plan, ends |-> account.ends]
      BY Zenon DEF FindBillingContext
    <3>3. tenant.state # "gone" => billing.plan = account.plan
      BY Zenon DEF BillingInv, RowsInv
    <3>4. NoContext \in ContextRec /\ ~NoContext.found
      BY Zenon DEF NoContext, ContextRec, Plans
    <3> HIDE DEF c
    <3>5. CASE c = NoContext
      BY Zenon, <3>4, <3>5
    <3>6. CASE c = [found |-> TRUE, plan |-> billing.plan, ends |-> account.ends]
      <4>1. account.ends \in Nat
        BY Zenon, <3>1
      <4>2. c.plan = billing.plan /\ c.ends = account.ends
        BY Zenon, <3>6
      <4>3. c \in ContextRec
        BY Zenon, <3>1, <3>6, <4>1 DEF ContextRec
      <4> QED BY Zenon, <3>3, <4>2, <4>3
    <3> QED BY Zenon, <3>2, <3>5, <3>6
  <2> HIDE DEF c
  <2>5. /\ Turns(w) /\ worker'[w].msg = worker[w].msg
        /\ \/ worker'[w].at = "ack" /\ k \in Elements(log)
           \/ worker'[w].at = "commit" /\ k \notin Elements(log) /\ worker'[w].context = c
    <3>1. CASE IsLogged(k)
      <4>1. worker' = WorkerAt(w, "ack") /\ k \in Elements(log)
        BY Zenon, <2>1, <2>3, <3>1
      <4>2. Turns(w) /\ worker'[w].at = "ack" /\ worker'[w].msg = worker[w].msg
        BY Zenon, <1>t, <4>1, WorkerMoves
      <4> QED BY Zenon, <4>1, <4>2
    <3>2. CASE ~IsLogged(k)
      <4>1. /\ worker' = [worker EXCEPT ![w].at = "commit", ![w].context = c]
            /\ k \notin Elements(log)
        BY Zenon, <2>1, <2>3, <3>2
      <4>2. /\ Turns(w) /\ worker'[w].at = "commit"
            /\ worker'[w].msg = worker[w].msg /\ worker'[w].context = c
        BY Zenon, <1>t, <2>4, <4>1, WorkerMoves
      <4> QED BY Zenon, <4>1, <4>2
    <3> QED BY Zenon, <3>1, <3>2
  <2>6. Holds(w)'
    <3>1. MsgOK(worker[w].msg)'
      BY Zenon, <1>4, <2>2, <2>5 DEF MsgOK, Erasable
    <3> QED BY Zenon, <1>9, <2>2, <2>5, <3>1
  <2>7. LogInv'
    BY ZenonT(30), <1>0, <1>2, <1>4, <2>1, <2>5, LogMoves
  <2>8. worker'[w].at # "commit" \/ PlanInv'
    <3>1. PlanInv
      BY Zenon DEF BillingInv
    <3>2. QuotaLimit' = QuotaLimit
      BY Zenon, <1>4 DEF QuotaLimit
    <3>3. \A v \in Workers \ {w} : worker'[v] = worker[v]
      BY Zenon, <2>5 DEF Turns
    <3>4. ASSUME LoneWorker', tenant.state # "gone", NEW v \in Workers,
                 worker'[v].at = "commit", worker'[v].context.found
          PROVE  worker'[v].context.plan = account.plan /\ worker'[v].context.ends = account.ends
      <4>1. LoneWorker
        BY Zenon, <1>4, <3>4 DEF LoneWorker
      <4>2. CASE v = w
        BY Zenon, <2>4, <2>5, <3>4, <4>2
      <4>3. CASE v # w
        BY Zenon, <3>1, <3>3, <3>4, <4>1, <4>3 DEF PlanInv
      <4> QED BY Zenon, <4>2, <4>3
    <3> QED BY Zenon, <1>4, <3>1, <3>2, <3>4 DEF PlanInv, LoneWorker, Fits
  <2>9. \A j \in DOMAIN events : worker[w].msg.id = j => Kept(j)'
    BY Zenon, <2>5 DEF Kept
  <2> QED BY Zenon, <1>0, <1>5, <1>7, <2>1, <2>5, <2>6, <2>7, <2>8, <2>9
<1>17. CASE QueueOwnerEmail(w)
  <2> DEFINE k == worker[w].msg.id
  <2>1. /\ worker[w].at = "email" /\ told' = [told EXCEPT ![k] = @ + 1]
        /\ worker' = WorkerAt(w, "ack") /\ UNCHANGED <<queue, declared, dead>>
    BY Zenon, <1>17 DEF QueueOwnerEmail
  <2>2. Turns(w) /\ worker'[w].at = "ack" /\ worker'[w].msg = worker[w].msg
    BY Zenon, <1>t, <2>1, WorkerMoves
  <2>3. MsgOK(worker[w].msg) /\ w \in budget.workers
    BY Zenon, <1>0, <2>1 DEF Holds, Has
  <2>4. Holds(w)'
    <3>1. MsgOK(worker[w].msg)'
      BY Zenon, <1>4, <2>2, <2>3 DEF MsgOK, Erasable
    <3> QED BY Zenon, <1>9, <2>2, <2>3, <3>1
  <2>5. k \in Elements(log) /\ told[k] = 0 /\ told \in Seq(Nat) /\ Len(told) = Len(events)
    BY Zenon, <1>0, <2>1 DEF LogInv
  <2>e. DOMAIN told = DOMAIN events
    <3>1. told \in Seq(Nat) /\ events \in Seq(EventRec) /\ Len(told) = Len(events)
      BY Zenon, <2>5 DEF BillingInv, StripeInv
    <3> QED BY Zenon, <3>1, SameLength
  <2>6. k \in DOMAIN told
    BY Zenon, <2>3, <2>e DEF MsgOK
  <2>7. /\ told' \in Seq(Nat) /\ Len(told') = Len(told) /\ DOMAIN told' = DOMAIN told
        /\ told'[k] = 1 /\ \A j \in DOMAIN told \ {k} : told'[j] = told[j]
    <3> HIDE DEF k
    <3> QED BY Zenon, <2>1, <2>5, <2>6, FirstEmail
  <2>8. \A v \in Workers \ {w} : worker'[v] = worker[v]
    BY Zenon, <2>2 DEF Turns
  <2>9. LogInv'
    <3>1. \A j \in DOMAIN told' : told'[j] <= 1 /\ (told'[j] # 0 => j \in Elements(log))
      <4>1. 1 <= 1
        OBVIOUS
      <4> QED BY Zenon, <1>0, <2>5, <2>7, <4>1 DEF LogInv
    <3>2. ASSUME NEW v \in Workers
          PROVE  /\ worker'[v].at = "commit" => worker'[v].msg.id \notin Elements(log)
                 /\ worker'[v].at \in {"email", "ack"} => worker'[v].msg.id \in Elements(log)
      BY Zenon, <1>0, <2>2, <2>5, <2>8 DEF LogInv
    <3>3. ASSUME NEW v \in Workers, worker'[v].at = "email"
          PROVE  told'[worker'[v].msg.id] = 0
      <4>1. v # w /\ worker'[v] = worker[v] /\ worker[v].at = "email"
        BY Zenon, <2>2, <2>8, <3>3
      <4>2. told[worker[v].msg.id] = 0 /\ worker[v].msg.id # k
        BY Zenon, <1>0, <2>1, <4>1 DEF LogInv
      <4>3. MsgOK(worker[v].msg)
        BY Zenon, <1>0, <4>1 DEF QueueInv, Holds, Has
      <4>4. worker[v].msg.id \in DOMAIN told
        BY Zenon, <2>e, <4>3 DEF MsgOK
      <4>5. told'[worker[v].msg.id] = told[worker[v].msg.id]
        BY Zenon, <2>7, <4>2, <4>4
      <4> QED BY Zenon, <4>1, <4>2, <4>5
    <3>4. ASSUME NEW u \in Workers, NEW v \in Workers,
                 worker'[u].at \in {"commit", "email"}, worker'[v].at \in {"commit", "email"},
                 worker'[u].msg.id = worker'[v].msg.id
          PROVE  u = v
      BY Zenon, <1>0, <2>2, <2>8, <3>4 DEF LogInv
    <3>5. Len(told') = Len(events')
      BY Zenon, <1>4, <2>5, <2>7
    <3> QED BY Zenon, <1>0, <1>2, <2>7, <3>1, <3>2, <3>3, <3>4, <3>5 DEF LogInv
  <2>10. \A j \in DOMAIN events : worker[w].msg.id = j => Kept(j)'
    BY Zenon, <2>2 DEF Kept
  <2> QED BY Zenon, <1>0, <1>5, <1>7, <2>1, <2>2, <2>4, <2>9, <2>10
<1> QED BY Zenon, <1>10, <1>11, <1>12, <1>13, <1>14, <1>15, <1>16, <1>17

-----------------------------------------------------------------------------
(* The commit of a worker. *)

\* A lone worker is the only one that runs.
Lone == LoneWorker => \A v, w \in budget.workers : v = w

\* The transaction of an event: rows, devices and log in one step, from what the
\* worker read before it.
LEMMA CommitInv ==
    ASSUME BillingInv, Lone, NEW w \in Workers, CommitStripeEvent(w)
    PROVE  BillingInv'
<1> DEFINE k == worker[w].msg.id
           e == EventOf(w)
           c == worker[w].context
           x == Effect(e, c)
<1>0. /\ ReqShapes /\ used \in [Bounds -> Nat] /\ queue \in Seq(MsgRec) /\ QueueInv /\ LogInv
      /\ worker \in [Workers -> WorkerRec] /\ dead \subseteq DOMAIN events
      /\ Holds(w) /\ \A m \in Elements(queue) : MsgOK(m)
      /\ declared \in {"none", "plain", "dlx"} /\ queued \subseteq DOMAIN events
  BY Zenon DEF BillingInv, TenancyInv, ReqShapes, QueueInv
<1>t. worker \in [Workers -> WorkerRec]
  BY Zenon, <1>0
<1>1. /\ UNCHANGED <<rowVars, authVars, req, overlap, used, clock, allowed, stripeVars>>
      /\ UNCHANGED <<queue, declared, dead, queued, told>>
      /\ worker[w].at = "commit" /\ log' = Append(log, k)
      /\ \E at \in {"email", "ack"} : worker' = WorkerAt(w, at)
  BY Zenon DEF CommitStripeEvent
<1>2. UNCHANGED <<events, customers, subs, budget>>
  BY Zenon, <1>1 DEF stripeVars, authVars
<1>3. /\ MsgOK(worker[w].msg) /\ k \in DOMAIN events /\ w \in budget.workers /\ k \in Nat
      /\ e \in EventRec /\ e.customer <= customers /\ subs[e.sub].state # "none"
      /\ c \in ContextRec
  <2>1. MsgOK(worker[w].msg) /\ w \in budget.workers /\ k \in DOMAIN events
    BY Zenon, <1>0, <1>1 DEF Holds, Has, MsgOK
  <2>2. k \in Nat
    BY Zenon, <2>1 DEF MsgOK, MsgRec
  <2>3. worker[w] \in WorkerRec
    BY Zenon, <1>t
  <2>4. c \in ContextRec
    BY Zenon, <2>3 DEF WorkerRec
  <2>5. StripeInv /\ e = events[k]
    BY Zenon DEF BillingInv, EventOf
  <2>6. e \in EventRec /\ e.customer <= customers /\ subs[e.sub].state # "none"
    BY <2>1, <2>5 DEF StripeInv
  <2> QED BY Zenon, <2>1, <2>2, <2>4, <2>6
<1>4. Grows
  BY Zenon, <1>0, <1>1, <1>2, BoundsGrow
<1>5. TenancyInv' /\ Quiet /\ ShopReq' /\ UNCHANGED tenant
  BY Zenon, <1>1, <1>2, <1>4, QuietHolds
<1>6. /\ \A j \in DOMAIN events : Erasable(j) => Erasable(j)'
      /\ \A j \in DOMAIN events : Buried(j) => Buried(j)'
      /\ \A m : MsgOK(m) => MsgOK(m)'
  BY Zenon, <1>0, <1>2, <1>4, <1>5, MsgKept
<1>7. Turns(w) /\ worker'[w].at \in {"email", "ack"} /\ worker'[w].msg = worker[w].msg
  BY Zenon, <1>t, <1>1, WorkerMoves
<1>8. \A v \in Workers \ {w} : worker'[v] = worker[v]
  BY Zenon, <1>7 DEF Turns
<1>9. log' \in Seq(Nat) /\ Elements(log') = Elements(log) \cup {k}
  <2>1. log \in Seq(Nat) /\ k \in Nat
    BY Zenon, <1>0, <1>3 DEF LogInv
  <2>2. Append(log, k) \in Seq(Nat) /\ Elements(Append(log, k)) = Elements(log) \cup {k}
    <3> HIDE DEF k
    <3> QED BY Zenon, <2>1, Appended
  <2> QED BY Zenon, <1>1, <2>2
<1>10. QueueInv'
  <2>1. MsgOK(worker[w].msg)'
    BY Zenon, <1>2, <1>3, <1>5, <1>6, <1>7 DEF MsgOK, Erasable
  <2>2. Holds(w)'
    BY Zenon, <1>2, <1>3, <1>7, <2>1 DEF Holds, Has
  <2>3. ASSUME NEW j \in DOMAIN events, Kept(j) PROVE Kept(j)'
    <3>1. CASE \E v \in Workers : worker[v].msg.id = j
      <4> PICK v \in Workers : worker[v].msg.id = j
        BY Zenon, <3>1
      <4>1. worker'[v].msg.id = j
        BY Zenon, <1>7, <1>8
      <4> QED BY Zenon, <4>1 DEF Kept
    <3>2. CASE (\E m \in Elements(queue) : m.id = j) \/ j \in Elements(log) \/ j \in dead
      BY Zenon, <1>1, <1>9, <3>2 DEF Kept
    <3> QED BY Zenon, <2>3, <3>1, <3>2 DEF Kept
  <2> QED BY Zenon, <1>0, <1>1, <1>2, <1>4, <1>6, <1>7, <1>8, <2>2, <2>3, QueueMoves DEF Turns
<1>11. LogInv'
  <2>1. k \notin Elements(log)
    BY Zenon, <1>0, <1>1 DEF LogInv
  <2>2. \A i, j \in DOMAIN log' : log'[i] = log'[j] => i = j
    <3>1. /\ Len(log) \in Nat /\ DOMAIN log = 1 .. Len(log)
          /\ DOMAIN log' = DOMAIN log \cup {Len(log) + 1}
          /\ \A i \in DOMAIN log : log'[i] = log[i]
          /\ log'[Len(log) + 1] = k
      <4>1. log \in Seq(Nat) /\ k \in Nat /\ log' = Append(log, k)
        BY Zenon, <1>0, <1>1, <1>3 DEF LogInv
      <4> HIDE DEF k
      <4> QED BY <4>1
    <3>2. \A i \in DOMAIN log : log[i] # k
      BY Zenon, <2>1 DEF Elements
    <3>3. \A i, j \in DOMAIN log : log[i] = log[j] => i = j
      BY Zenon, <1>0 DEF LogInv
    <3> QED BY Zenon, <3>1, <3>2, <3>3
  <2>3. /\ told' \in Seq(Nat) /\ Len(told') = Len(events')
        /\ \A j \in DOMAIN told' : told'[j] <= 1 /\ (told'[j] # 0 => j \in Elements(log'))
    BY Zenon, <1>0, <1>1, <1>2, <1>9 DEF LogInv
  <2>4. ASSUME NEW v \in Workers
        PROVE  /\ worker'[v].at = "commit" => worker'[v].msg.id \notin Elements(log')
               /\ worker'[v].at \in {"email", "ack"} => worker'[v].msg.id \in Elements(log')
               /\ worker'[v].at = "email" => told'[worker'[v].msg.id] = 0
    <3>1. CASE v = w
      <4>1. MsgOK(worker[w].msg) /\ told \in Seq(Nat) /\ Len(told) = Len(events)
        BY Zenon, <1>0, <1>3 DEF LogInv
      <4>2. k \in DOMAIN told
        <5>1. events \in Seq(EventRec)
          BY Zenon DEF BillingInv, StripeInv
        <5>2. DOMAIN told = DOMAIN events
          BY Zenon, <4>1, <5>1, SameLength
        <5> QED BY Zenon, <1>3, <5>2
      <4>3. told[k] = 0
        BY Zenon, <1>0, <2>1, <4>2 DEF LogInv
      <4> QED BY Zenon, <1>1, <1>7, <1>9, <3>1, <4>3
    <3>2. CASE v # w
      <4>1. worker'[v] = worker[v] /\ (worker[v].at = "commit" => worker[v].msg.id # k)
        BY Zenon, <1>0, <1>1, <1>8, <3>2 DEF LogInv
      <4> QED BY Zenon, <1>0, <1>1, <1>9, <4>1 DEF LogInv
    <3> QED BY Zenon, <3>1, <3>2
  <2>5. ASSUME NEW u \in Workers, NEW v \in Workers,
               worker'[u].at \in {"commit", "email"}, worker'[v].at \in {"commit", "email"},
               worker'[u].msg.id = worker'[v].msg.id
        PROVE  u = v
    <3>1. \A z \in Workers : worker'[z].msg = worker[z].msg
      BY Zenon, <1>7, <1>8
    <3>2. \A z \in Workers :
             worker'[z].at \in {"commit", "email"} => worker[z].at \in {"commit", "email"}
      BY Zenon, <1>1, <1>8
    <3> QED BY Zenon, <1>0, <2>5, <3>1, <3>2 DEF LogInv
  <2> QED BY Zenon, <1>9, <2>2, <2>3, <2>4, <2>5 DEF LogInv
<1>12. StripeInv'
  BY Zenon, <1>1, <1>5, StripeFrame DEF BillingInv
<1>13. ASSUME LoneWorker, NEW v \in Workers PROVE worker'[v].at # "commit"
  <2>1. CASE v = w
    BY Zenon, <1>7, <2>1
  <2>2. CASE v # w
    <3>1. worker[v].at # "down" => v \in budget.workers
      BY Zenon, <1>0 DEF QueueInv, Holds
    <3>2. worker[v].at = "down"
      BY Zenon, <1>3, <1>13, <2>2, <3>1 DEF Lone
    <3> QED BY Zenon, <1>8, <2>2, <3>2
  <2> QED BY Zenon, <2>1, <2>2
<1>14. LoneWorker' = LoneWorker
  BY Zenon, <1>2 DEF LoneWorker
<1>15. CASE Changes(e, c) /\ tenant.state = "live"
  <2>1. /\ account' = [plan |-> x.plan, status |-> x.status, ends |-> x.ends]
        /\ billing' = [exists |-> TRUE,
              customer |-> IF IsCheckout(e) \/ e.type = "customer.subscription.updated"
                           THEN e.customer ELSE billing.customer,
              sub |-> x.sub,
              plan |-> IF IsInvoice(e) THEN billing.plan ELSE x.plan,
              status |-> x.status]
        /\ devices' = Reconciled(x.limit) /\ settled' = TRUE
    BY Zenon, <1>15 DEF CommitStripeEvent
  <2> HIDE DEF x
  <2>2. x = Effect(e, c)
    BY Zenon DEF x
  <2> HIDE DEF e, c
  <2>3. /\ RowsInv' /\ devices' \in Seq(BOOLEAN) /\ Len(devices') = Len(devices)
        /\ (c.found => c.plan = account.plan /\ c.ends = account.ends) => Fits(QuotaLimit)'
    BY Zenon, <1>1, <1>3, <1>5, <1>15, <2>1, <2>2, ChangeInv
  <2>4. LoneWorker => Fits(QuotaLimit)'
    <3>1. LoneWorker => (c.found => c.plan = account.plan /\ c.ends = account.ends)
      BY Zenon, <1>1, <1>15 DEF BillingInv, PlanInv, c
    <3> QED BY Zenon, <2>3, <3>1
  <2>5. PlanInv'
    BY Zenon, <1>13, <1>14, <2>1, <2>3, <2>4 DEF PlanInv
  <2>6. DeviceInv'
    <3>1. devices \in Seq(BOOLEAN)
      BY Zenon DEF BillingInv, PlanInv
    <3>2. devices = <<>> => devices' = <<>>
      BY <2>3, <3>1
    <3> QED BY Zenon, <1>0, <1>5, <2>3, <3>2, DeviceFrame DEF BillingInv
  <2> QED BY Zenon, <1>5, <1>10, <1>11, <1>12, <2>3, <2>5, <2>6 DEF BillingInv
<1>16. CASE ~(Changes(e, c) /\ tenant.state = "live")
  <2>1. UNCHANGED <<account, billing, devices, settled>>
    BY Zenon, <1>16 DEF CommitStripeEvent
  <2>2. RowsInv'
    BY <1>0, <1>2, <1>5, <2>1, RowsFrame DEF BillingInv, ShopReq
  <2>3. PlanInv'
    <3>1. QuotaLimit' = QuotaLimit
      BY Zenon, <1>1, <2>1 DEF QuotaLimit
    <3> QED BY Zenon, <1>5, <1>13, <1>14, <2>1, <3>1 DEF BillingInv, PlanInv, Fits
  <2>4. DeviceInv'
    BY Zenon, <1>0, <1>5, <2>1, DeviceFrame DEF BillingInv
  <2> QED BY Zenon, <1>5, <1>10, <1>11, <1>12, <2>2, <2>3, <2>4 DEF BillingInv
<1> QED BY Zenon, <1>15, <1>16

-----------------------------------------------------------------------------
(* What the invariant says of types and of events. *)

\* Naturals below a natural.
LEMMA Ranges ==
    /\ \A m, n \in Nat : m <= n => m \in 0 .. n
    /\ \A r \in Nat : r <= MaxRetries - 1 => r \in 0 .. MaxRetries - 1
BY LimitsAssumption

\* TypeOK follows.
LEMMA InvTypes == BillingInv => TypeOK
<1> SUFFICES ASSUME BillingInv PROVE TypeOK
  OBVIOUS
<1>1. TenancyTypeOK
  BY Zenon DEF BillingInv, TenancyInv, RowShapes, ReqShapes, SsoInv, IsRequest, InviteRec,
         TenancyTypeOK
<1>2. /\ account.plan \in Plans /\ account.status \in Statuses
      /\ billing.plan \in Plans /\ billing.status \in Statuses
      /\ billing.customer \in 0 .. customers
      /\ billing.sub \in {s \in Subs : subs[s].state # "none"} \cup {NoSub}
  BY Zenon, Ranges DEF BillingInv, RowsInv, ShopReq
<1>3. devices \in Seq(BOOLEAN) /\ declared \in {"none", "plain", "dlx"}
      /\ dead \subseteq DOMAIN events
  BY Zenon DEF BillingInv, PlanInv, QueueInv
<1>4. ASSUME NEW i \in DOMAIN queue
      PROVE  queue[i].id \in DOMAIN events /\ queue[i].retry \in 0 .. MaxRetries - 1
  <2>1. MsgOK(queue[i])
    BY Zenon DEF BillingInv, QueueInv, Elements
  <2>2. queue[i].retry \in Nat
    BY Zenon, <2>1 DEF MsgOK, MsgRec
  <2> QED BY Zenon, <2>1, <2>2, Ranges DEF MsgOK
<1>5. ASSUME NEW w \in Workers
      PROVE  worker[w].at \in {"down", "idle", "begin", "commit", "email", "ack", "wait"}
  <2>1. worker[w] \in WorkerRec
    BY Zenon DEF BillingInv, QueueInv
  <2> QED BY Zenon, <2>1 DEF WorkerRec
<1> QED BY Zenon, <1>1, <1>2, <1>3, <1>4, <1>5 DEF TypeOK, BillingTypeOK

\* So does EventsHandledOnce.
LEMMA InvHandled == BillingInv => EventsHandledOnce
<1> SUFFICES ASSUME BillingInv PROVE EventsHandledOnce
  OBVIOUS
<1>1. LogInv /\ QueueInv
  BY Zenon DEF BillingInv
<1>2. \A k : IsLogged(k) <=> k \in Elements(log)
  BY Zenon DEF IsLogged, Elements
<1>3. ASSUME NEW k \in DOMAIN told PROVE told[k] <= (IF IsLogged(k) THEN 1 ELSE 0)
  <2>1. told[k] <= 1 /\ (told[k] # 0 => k \in Elements(log))
    BY Zenon, <1>1 DEF LogInv
  <2>2. CASE IsLogged(k)
    BY Zenon, <2>1, <2>2
  <2>3. CASE ~IsLogged(k)
    <3>1. told[k] = 0
      BY Zenon, <1>2, <2>1, <2>3
    <3>2. 0 <= 0
      OBVIOUS
    <3> QED BY Zenon, <2>3, <3>1, <3>2
  <2> QED BY Zenon, <2>2, <2>3
<1>4. ASSUME NEW k \in queued
      PROVE  \/ \E i \in DOMAIN queue : queue[i].id = k
             \/ \E w \in Workers : worker[w].msg.id = k
             \/ IsLogged(k) \/ k \in dead
  <2>1. Kept(k)
    BY Zenon, <1>1 DEF QueueInv
  <2> QED BY Zenon, <1>2, <2>1 DEF Kept, Elements
<1>5. ASSUME NEW k \in dead
      PROVE  \/ used["faults"] >= MaxRetries \/ used["periods"] > 0
             \/ IsCheckout(events[k]) /\ tenant.state = "gone"
  BY Zenon, <1>1 DEF QueueInv, Buried, Erasable
<1> QED BY Zenon, <1>1, <1>3, <1>4, <1>5 DEF EventsHandledOnce, LogInv
====
