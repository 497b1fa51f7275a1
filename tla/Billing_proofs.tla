--------------------------- MODULE Billing_proofs ---------------------------
(***************************************************************************)
(* The steps of the requests keep BillingInv as well, so that it is an     *)
(* invariant of Billing; and what follows from it.                         *)
(***************************************************************************)
EXTENDS BillingSteps_proofs, Tenancy_proofs

-----------------------------------------------------------------------------
(* Requests of the two routes. *)

\* They are requests.
LEMMA ShopIs ==
    ASSUME NEW x, x \in Buying \/ x \in Adding
    PROVE  IsRequest(x) /\ x # NoRequest /\ x.op \in ShopOps
BY DEF Buying, Adding, IsRequest, NoRequest, ShopOps

\* A request that moves, with what it brings or has in hand.
LEMMA ShopStep ==
    ASSUME BillingInv, NEW u \in Users, UNCHANGED <<rowVars, authVars>>, Grows,
           \/ Arrives(u) /\ InTenant(u)
           \/ Proceeds(u) /\ req[u].op \in ShopOps,
           customers' \in Nat, customers <= customers',
           req'[u] \in Buying => req'[u].seen <= customers',
           \/ req'[u] = NoRequest \/ req'[u] \in Buying \/ req'[u] \in Adding
    PROVE  /\ TenancyInv' /\ ShopReq'
           /\ /\ UNCHANGED devices
              /\ ~overlap' /\ used'["faults"] = 0 /\ At(u, "devices", "create")'
                    => tenant.state # "gone"
              => DeviceInv'
<1> USE DEF BillingInv
<1>1. req'[u] = NoRequest \/ req'[u].op \in ShopOps
  BY Zenon, ShopIs
<1>2. Others(u) /\ (~overlap' => ~overlap) /\ UNCHANGED tenant
  <2>1. CASE Arrives(u)
    BY Zenon, <2>1 DEF Arrives, Crowded, rowVars
  <2>2. CASE Proceeds(u)
    BY Zenon, <2>2 DEF Proceeds, rowVars
  <2> QED BY Zenon, <2>1, <2>2
<1>3. TenancyInv'
  <2>1. Arrives(u) => req'[u].op \in ShopOps
    BY Zenon, <1>1 DEF Arrives
  <2>2. ShopMoves
    BY Zenon, <2>1 DEF ShopMoves
  <2> QED BY Zenon, <2>2, ShopStepInv
<1>4. ShopReq'
  <2>1. ASSUME NEW v \in Users
        PROVE  /\ req'[v].op = "checkout" => req'[v] \in Buying /\ req'[v].seen <= customers'
               /\ req'[v].op = "devices" => req'[v] \in Adding
    <3>1. CASE v = u
      <4>1. /\ req'[u] \in Buying => req'[u].op = "checkout"
            /\ req'[u] \in Adding => req'[u].op = "devices"
            /\ req'[u] = NoRequest => req'[u].op = "none"
        BY Zenon, NoRequestIs DEF Buying, Adding
      <4> QED BY Zenon, <3>1, <4>1
    <3>2. CASE v # u
      <4>1. req'[v] = req[v] /\ (req[v] \in Buying => req[v].seen \in Nat)
        BY Zenon, <1>2, <3>2 DEF Others, Buying
      <4> QED BY <4>1 DEF ShopReq
    <3> QED BY Zenon, <3>1, <3>2
  <2> QED BY Zenon, <2>1 DEF ShopReq
<1>5. ASSUME UNCHANGED devices,
             ~overlap' /\ used'["faults"] = 0 /\ At(u, "devices", "create")'
                => tenant.state # "gone"
      PROVE  DeviceInv'
  <2>1. /\ used["faults"] \in Nat /\ used'["faults"] \in Nat
        /\ used["faults"] <= used'["faults"]
    BY Zenon DEF TenancyInv, ReqShapes, Grows, Bounds
  <2>2. ~At(u, "leave", "commit")'
    BY Zenon, <1>1, NoRequestIs DEF At, ShopOps
  <2>3. ASSUME NEW v \in Users
        PROVE  /\ At(v, "leave", "commit")' => At(v, "leave", "commit") /\ req'[v] = req[v]
               /\ At(v, "devices", "create")' => v = u \/ At(v, "devices", "create")
    BY Zenon, <1>2, <2>2 DEF Others, At
  <2> QED BY <1>2, <1>5, <2>1, <2>3 DEF DeviceInv
<1> QED BY Zenon, <1>3, <1>4, <1>5

\* A checkout that has created its customer.
LEMMA NewCustomer ==
    ASSUME NEW x \in Buying, NEW k \in Nat
    PROVE  LET n == [x EXCEPT !.at = "upsert", !.seen = k]
           IN n \in Buying /\ n.op = x.op /\ n.seen = k
BY Zenon DEF Buying

\* POST /billing/checkout, and its awaits.
LEMMA CheckoutInv ==
    ASSUME BillingInv, NEW u \in Users,
           \/ \E plan \in Priced : Checkout(u, plan)
           \/ CreateCustomer(u) \/ UpsertCustomer(u) \/ CreateSession(u)
    PROVE  BillingInv'
<1> USE DEF BillingInv
<1>0. /\ ReqShapes /\ RowShapes /\ customers \in Nat /\ DOMAIN req = Users
  BY Zenon DEF TenancyInv, ReqShapes, ShopReq
<1>1. ASSUME NEW at \in {"customer", "upsert", "session"}, At(u, "checkout", at)
      PROVE  /\ req[u] \in Buying /\ req[u] # NoRequest /\ req[u].op \in ShopOps
             /\ req[u].seen <= customers
  BY Zenon, <1>1, ShopIs DEF ShopReq, At
<1>2. /\ UNCHANGED <<rowVars, authVars, account, clock, subs, events, workVars, deviceVars>>
      /\ UNCHANGED <<tenant, budget, devices, settled, worker>>
  BY Zenon DEF Checkout, CreateCustomer, UpsertCustomer, CreateSession, billingVars, stripeVars,
         workVars, deviceVars, rowVars, authVars
<1>3. Grows
  <2>1. (\E b \in Bounds : Spend(b)) \/ UNCHANGED used
    BY Zenon DEF Checkout, CreateCustomer, UpsertCustomer, CreateSession, Begin, Bounds
  <2> QED BY Zenon, <1>0, <1>2, <2>1, SpendGrows
<1>4. QueueInv' /\ LogInv' /\ PlanInv'
  BY Zenon, <1>0, <1>2, <1>3, WorkFrame, PlanFrame
<1>5. ASSUME NEW plan \in Priced, Checkout(u, plan)
      PROVE  BillingInv'
  <2> DEFINE at == IF billing.customer = 0 THEN "customer" ELSE "session"
             n == [op |-> "checkout", at |-> at, arg |-> plan, seen |-> billing.customer]
  <2>1. billing.customer \in Nat /\ billing.customer <= customers
    BY Zenon DEF RowsInv
  <2>2. n \in Buying /\ n.seen = billing.customer
    BY Zenon, <2>1 DEF Buying
  <2>3. Begin(u, "checkout", at, plan, billing.customer) /\ InTenant(u) /\ IsRequest(n)
    BY Zenon, <1>5, <2>2, ShopIs DEF Checkout
  <2>4. Arrives(u) /\ req'[u] = n
    BY <1>0, <2>3, BeginArrives
  <2>5. UNCHANGED <<billing, stripeVars, customers, devices>>
    BY Zenon, <1>5 DEF Checkout, billingVars, stripeVars
  <2>6. ~At(u, "devices", "create")'
    BY <2>4 DEF At
  <2> HIDE DEF n
  <2>7. TenancyInv' /\ ShopReq' /\ DeviceInv'
    BY <1>0, <1>2, <1>3, <2>1, <2>2, <2>3, <2>4, <2>5, <2>6, ShopStep
  <2> QED BY <1>0, <1>2, <1>4, <2>5, <2>7, StripeFrame, RowsFrame
<1>6. CASE CreateCustomer(u)
  <2> DEFINE n == [req[u] EXCEPT !.at = "upsert", !.seen = customers + 1]
  <2>1. At(u, "checkout", "customer") /\ customers' = customers + 1 /\ overlap' = overlap
        /\ UNCHANGED <<billing, sessions>>
    BY Zenon, <1>6 DEF CreateCustomer
  <2>2. req[u] \in Buying /\ req[u] # NoRequest /\ req[u].op \in ShopOps
    BY Zenon, <1>1, <2>1
  <2>3. n \in Buying /\ n.op = req[u].op /\ n.seen = customers + 1
    <3>1. customers + 1 \in Nat
      BY <1>0
    <3> QED BY Zenon, <2>2, <3>1, NewCustomer
  <2>4. req' = [req EXCEPT ![u] = n]
    BY Zenon, <1>6 DEF CreateCustomer
  <2> HIDE DEF n
  <2>5. Proceeds(u) /\ req'[u] = n
    BY Zenon, <1>0, <2>1, <2>2, <2>3, <2>4, ShopIs, MoveProceeds
  <2>6. ~At(u, "devices", "create")'
    BY Zenon, <2>3, <2>5 DEF At, Buying
  <2>7. TenancyInv' /\ ShopReq' /\ DeviceInv'
    BY <1>0, <1>2, <1>3, <2>1, <2>2, <2>3, <2>5, <2>6, ShopStep
  <2>8. RowsInv'
    BY <1>0, <1>2, <2>1, RowsFrame
  <2>9. StripeInv'
    <3>1. \A x \in sessions : x.customer \in Nat
      BY Zenon DEF StripeInv
    <3>2. \A s \in Subs : subs[s].customer \in Nat
      BY Zenon DEF StripeInv, SubRec
    <3>3. \A k \in DOMAIN events : events[k].customer \in Nat
      <4>1. \A k \in DOMAIN events : events[k] \in EventRec
        BY DEF StripeInv
      <4> QED BY Zenon, <4>1 DEF EventRec
    <3> QED BY <1>0, <1>2, <2>1, <3>1, <3>2, <3>3 DEF StripeInv
  <2> QED BY Zenon, <1>4, <2>7, <2>8, <2>9
<1>7. CASE UpsertCustomer(u)
  <2> DEFINE n == [req[u] EXCEPT !.at = "session"]
  <2>1. /\ At(u, "checkout", "upsert") /\ UNCHANGED <<stripeVars, customers>>
        /\ GoOr(u, tenant.state = "live", "session") /\ overlap' = overlap
    BY Zenon, <1>7 DEF UpsertCustomer, stripeVars
  <2>2. /\ req[u] \in Buying /\ req[u] # NoRequest /\ req[u].op \in ShopOps
        /\ req[u].seen <= customers
    BY Zenon, <1>1, <2>1
  <2>3. n \in Buying /\ n.op = req[u].op /\ n.seen = req[u].seen
    BY Zenon, <2>2 DEF Buying
  <2>4. IsRequest(n)
    BY Zenon, <2>3, ShopIs
  <2>5. Proceeds(u) /\ (req'[u] = n \/ req'[u] = NoRequest)
    BY Zenon, <1>0, <2>1, <2>2, <2>3, <2>4, GoOrProceeds
  <2> HIDE DEF n
  <2>6. ~At(u, "devices", "create")'
    BY Zenon, <2>3, <2>5, NoRequestIs DEF At, Buying
  <2>7. TenancyInv' /\ ShopReq' /\ DeviceInv'
    <3>1. req'[u] \in Buying => req'[u].seen <= customers
      BY Zenon, <2>2, <2>3, <2>5, NoRequestIs DEF Buying
    <3> QED BY <1>0, <1>2, <1>3, <2>1, <2>2, <2>3, <2>5, <2>6, <3>1, ShopStep
  <2>8. StripeInv'
    BY Zenon, <1>2, <2>1, StripeFrame
  <2>9. RowsInv'
    <3>1. CASE tenant.state # "live"
      BY <1>0, <1>2, <1>7, <2>1, <3>1, RowsFrame DEF UpsertCustomer
    <3>2. CASE tenant.state = "live"
      <4>1. billing' = [billing EXCEPT !.exists = TRUE, !.customer = req[u].seen]
        BY Zenon, <1>7, <3>2 DEF UpsertCustomer
      <4>2. /\ billing' \in [exists : BOOLEAN, customer : Nat, sub : Subs \cup {NoSub},
                             plan : Plans, status : Statuses]
            /\ billing'.customer = req[u].seen /\ billing'.sub = billing.sub
            /\ billing'.plan = billing.plan
        BY Zenon, <2>2, <4>1 DEF RowsInv, Buying
      <4> QED BY Zenon, <1>2, <2>1, <2>2, <3>2, <4>2 DEF RowsInv
    <3> QED BY Zenon, <3>1, <3>2
  <2> QED BY Zenon, <1>4, <2>7, <2>8, <2>9
<1>8. CASE CreateSession(u)
  <2>1. /\ At(u, "checkout", "session") /\ UNCHANGED <<billing, customers>>
        /\ Answer(u) /\ overlap' = overlap
        /\ sessions' = sessions \cup {[customer |-> req[u].seen, plan |-> req[u].arg]}
    BY Zenon, <1>8 DEF CreateSession
  <2>2. /\ req[u] \in Buying /\ req[u] # NoRequest /\ req[u].op \in ShopOps
        /\ req[u].seen <= customers
    BY Zenon, <1>1, <2>1
  <2>3. Proceeds(u) /\ req'[u] = NoRequest
    BY Zenon, <1>0, <2>1, <2>2, AnswerProceeds
  <2>4. NoRequest \notin Buying /\ ~At(u, "devices", "create")'
    BY Zenon, <2>3, NoRequestIs DEF At, Buying
  <2>5. TenancyInv' /\ ShopReq' /\ DeviceInv'
    <3>1. customers' \in Nat /\ customers <= customers'
      BY <1>0, <2>1
    <3> QED BY Zenon, <1>0, <1>2, <1>3, <2>1, <2>2, <2>3, <2>4, <3>1, ShopStep
  <2>6. RowsInv'
    BY Zenon, <1>0, <1>2, <2>1, RowsSame
  <2>7. tenant.state # "none"
    BY Zenon, <2>2 DEF TenancyInv, Unregistered
  <2>8. StripeInv'
    <3>1. req[u].seen \in Nat /\ req[u].arg \in Priced
      BY Zenon, <2>2 DEF Buying
    <3> QED BY <1>2, <2>1, <2>2, <2>7, <3>1 DEF StripeInv
  <2> QED BY <1>4, <2>5, <2>6, <2>8
<1> QED BY Zenon, <1>5, <1>6, <1>7, <1>8

-----------------------------------------------------------------------------
(* Devices. *)

\* What a device request leaves alone.
LEMMA OnlyDevicesFrame ==
    ASSUME BillingInv, OnlyDevices, Grows
    PROVE  /\ StripeInv' /\ RowsInv' /\ QueueInv' /\ LogInv'
           /\ UNCHANGED <<devices, settled>> => PlanInv'
<1> USE DEF BillingInv
<1>1. /\ UNCHANGED <<tenant, account, billing, clock, stripeVars, workVars, budget>>
      /\ UNCHANGED <<customers, subs, events, worker>>
  BY Zenon DEF OnlyDevices, rowVars, authVars, stripeVars, workVars
<1>2. ReqShapes /\ customers \in Nat
  BY Zenon DEF TenancyInv, ShopReq
<1>3. StripeInv' /\ QueueInv' /\ LogInv'
  BY Zenon, <1>1, <1>2, StripeFrame, WorkFrame
<1>4. RowsInv'
  BY <1>1, <1>2, RowsFrame
<1>5. UNCHANGED <<devices, settled>> => PlanInv'
  BY Zenon, <1>1, PlanFrame
<1> QED BY Zenon, <1>3, <1>4, <1>5

\* A device request that arrives, or goes on.
LEMMA AddingIs ==
    ASSUME NEW x \in Adding
    PROVE  /\ x.op = "devices" /\ x.seen \in Nat \ {0}
           /\ \A at \in {"job", "create"} :
                 LET n == [x EXCEPT !.at = at]
                 IN n \in Adding /\ n.op = x.op /\ n.at = at
           /\ \A k \in Nat \ {0} :
                 LET n == [x EXCEPT !.seen = k] IN n \in Adding /\ n.op = x.op
<1>1. x.op = "devices" /\ x.seen \in Nat \ {0}
  BY Zenon DEF Adding
<1>2. ASSUME NEW at \in {"job", "create"}
      PROVE  LET n == [x EXCEPT !.at = at] IN n \in Adding /\ n.op = x.op /\ n.at = at
  BY Zenon DEF Adding
<1>3. ASSUME NEW k \in Nat \ {0}
      PROVE  LET n == [x EXCEPT !.seen = k] IN n \in Adding /\ n.op = x.op
  BY Zenon DEF Adding
<1> QED BY Zenon, <1>1, <1>2, <1>3

\* POST /devices and the import, up to the first row.
LEMMA QuotaInv ==
    ASSUME BillingInv, NEW u \in Users,
           \/ RequestDevices(u, "single", 1)
           \/ \E n \in 1 .. MaxRows : RequestDevices(u, "import", n)
           \/ CheckQuota(u) \/ InsertImportJob(u)
    PROVE  BillingInv'
<1>0. /\ ReqShapes /\ customers \in Nat /\ DOMAIN req = Users /\ used \in [Bounds -> Nat]
      /\ "faults" \in Bounds /\ "requests" \in Bounds
  BY Zenon DEF BillingInv, TenancyInv, ReqShapes, ShopReq, Bounds
<1>1. /\ OnlyDevices /\ UNCHANGED <<devices, settled>>
      /\ UNCHANGED <<rowVars, authVars, customers, budget>>
  BY Zenon DEF RequestDevices, CheckQuota, InsertImportJob, OnlyDevices, deviceVars, stripeVars,
         authVars
<1>2. ASSUME NEW at, At(u, "devices", at)
      PROVE  req[u] \in Adding /\ req[u] # NoRequest /\ req[u].op \in ShopOps
  <2>1. req[u] \in Adding
    BY Zenon, <1>2 DEF BillingInv, ShopReq, At
  <2> QED BY Zenon, <2>1, ShopIs
<1>3. ASSUME Grows, req'[u] = NoRequest \/ req'[u] \in Adding,
             \/ Arrives(u) /\ InTenant(u)
             \/ Proceeds(u) /\ req[u].op \in ShopOps,
             At(u, "devices", "create")' /\ used'["faults"] = 0 => tenant.state # "gone"
      PROVE  BillingInv'
  <2>1. req'[u] \notin Buying
    BY Zenon, <1>3, NoRequestIs DEF Buying, Adding
  <2>2. TenancyInv' /\ ShopReq' /\ DeviceInv'
    <3>1. customers' \in Nat /\ customers <= customers'
      BY <1>0, <1>1
    <3> QED BY Zenon, <1>0, <1>1, <1>3, <2>1, <3>1, ShopStep
  <2> QED BY Zenon, <1>1, <1>3, <2>2, OnlyDevicesFrame DEF BillingInv
<1>4. ASSUME NEW how \in {"single", "import"}, NEW rows \in Nat \ {0},
             RequestDevices(u, how, rows)
      PROVE  BillingInv'
  <2> DEFINE n == [op |-> "devices", at |-> "quota", arg |-> how, seen |-> rows]
  <2>1. n \in Adding
    BY Zenon DEF Adding
  <2>2. Begin(u, "devices", "quota", how, rows) /\ InTenant(u) /\ IsRequest(n)
    BY Zenon, <1>4, <2>1, ShopIs DEF RequestDevices
  <2>3. Arrives(u) /\ req'[u] = n
    BY <1>0, <2>2, BeginArrives
  <2>4. ~At(u, "devices", "create")'
    BY <2>3 DEF At
  <2>5. Grows
    BY Zenon, <1>0, <1>1, <2>2, SpendGrows DEF Begin
  <2> HIDE DEF n
  <2> QED BY Zenon, <1>3, <2>1, <2>2, <2>3, <2>4, <2>5
<1>5. ASSUME NEW ok \in BOOLEAN, NEW at \in {"job", "create"}, NEW from,
             At(u, "devices", from), GoOr(u, ok, at), overlap' = overlap, Grows,
             ok /\ used'["faults"] = 0 => tenant.state # "gone"
      PROVE  BillingInv'
  <2> DEFINE n == [req[u] EXCEPT !.at = at]
  <2>1. n \in Adding /\ n.op = req[u].op /\ IsRequest(n) /\ n # NoRequest
    BY Zenon, <1>2, <1>5, AddingIs, ShopIs
  <2>2. Proceeds(u) /\ (ok => req'[u] = n) /\ (~ok => req'[u] = NoRequest)
    BY <1>0, <1>2, <1>5, <2>1, GoOrProceeds
  <2> HIDE DEF n
  <2>3. At(u, "devices", "create")' => ok
    BY Zenon, <2>2, NoRequestIs DEF At
  <2> QED BY Zenon, <1>2, <1>3, <1>5, <2>1, <2>2, <2>3
<1>6. CASE CheckQuota(u)
  <2>1. PICK checked \in BOOLEAN :
           /\ MayFail(checked)
           /\ GoOr(u, checked => QuotaAllows, IF req[u].arg = "import" THEN "job" ELSE "create")
    BY Zenon, <1>6 DEF CheckQuota
  <2>2. Grows /\ (~checked => used'["faults"] > 0)
    BY Zenon, <1>0, <1>1, <2>1, SpendGrows DEF MayFail
  <2>3. ~checked => used'["faults"] # 0
    BY <2>2
  <2>4. (checked => QuotaAllows) /\ used'["faults"] = 0 => tenant.state # "gone"
    BY Zenon, <2>3 DEF QuotaAllows
  <2>5. At(u, "devices", "quota") /\ overlap' = overlap
    BY Zenon, <1>6 DEF CheckQuota
  <2> QED BY Zenon, <1>5, <2>1, <2>2, <2>4, <2>5
<1>7. CASE InsertImportJob(u)
  <2>1. /\ At(u, "devices", "job") /\ UNCHANGED <<overlap, used>>
        /\ GoOr(u, tenant.state = "live", "create")
    BY Zenon, <1>7 DEF InsertImportJob
  <2>2. Grows
    BY Zenon, <1>0, <1>1, <2>1, SpendGrows
  <2> QED BY Zenon, <1>5, <2>1, <2>2
<1> QED BY <1>4, <1>6, <1>7, LimitsAssumption

\* One row of a request.
LEMMA CreateRowInv ==
    ASSUME BillingInv, NEW u \in Users, CreateRow(u)
    PROVE  BillingInv'
<1>0. /\ ReqShapes /\ customers \in Nat /\ DOMAIN req = Users
      /\ devices \in Seq(BOOLEAN) /\ settled \in BOOLEAN
  BY Zenon DEF BillingInv, TenancyInv, ReqShapes, ShopReq, PlanInv
<1>1. /\ OnlyDevices /\ overlap' = overlap /\ UNCHANGED <<rowVars, authVars, customers, budget>>
      /\ At(u, "devices", "create")
      /\ IF req[u].seen = 1 THEN Answer(u) ELSE req' = [req EXCEPT ![u].seen = @ - 1]
  BY Zenon DEF CreateRow, OnlyDevices, stripeVars, authVars
<1>2. PICK added \in BOOLEAN : CreateDevice(added)
  BY Zenon DEF CreateRow
<1>3. Grows
  BY Zenon, <1>0, <1>1, <1>2, SpendGrows DEF CreateDevice
<1>4. req[u] \in Adding /\ req[u] # NoRequest /\ req[u].op \in ShopOps
  BY Zenon, <1>1, ShopIs DEF BillingInv, ShopReq, At
<1>5. Proceeds(u) /\ (req'[u] = NoRequest \/ req'[u] \in Adding)
  <2>1. CASE req[u].seen = 1
    BY Zenon, <1>0, <1>1, <1>4, <2>1, AnswerProceeds
  <2>2. CASE req[u].seen # 1
    <3> DEFINE n == [req[u] EXCEPT !.seen = req[u].seen - 1]
    <3>1. req' = [req EXCEPT ![u] = n]
      BY Zenon, <1>1, <2>2
    <3>2. PICK k \in Nat \ {0} : k = req[u].seen - 1
      <4>1. req[u].seen \in Nat \ {0}
        BY Zenon, <1>4 DEF Adding
      <4> QED BY <2>2, <4>1
    <3>3. n = [req[u] EXCEPT !.seen = k]
      BY Zenon, <3>2
    <3> HIDE DEF n
    <3>4. n \in Adding /\ n.op = req[u].op /\ IsRequest(n)
      BY Zenon, <1>4, <3>3, AddingIs, ShopIs
    <3> QED BY Zenon, <1>0, <1>1, <1>4, <3>1, <3>4, MoveProceeds
  <2> QED BY Zenon, <2>1, <2>2
<1>6. TenancyInv' /\ ShopReq'
  <2>1. req'[u] \notin Buying
    BY Zenon, <1>5, NoRequestIs DEF Buying, Adding
  <2>2. customers' \in Nat /\ customers <= customers'
    BY <1>0, <1>1
  <2> QED BY Zenon, <1>0, <1>1, <1>3, <1>4, <1>5, <2>1, <2>2, ShopStep
<1>7. PlanInv'
  <2>1. CASE added
    <3>1. devices' \in Seq(BOOLEAN) /\ ~settled' /\ settled' \in BOOLEAN
      <4>1. devices' = Append(devices, FALSE) /\ settled' = (settled /\ ~added)
        BY Zenon, <1>2, <2>1 DEF CreateDevice
      <4>2. ~settled' /\ settled' \in BOOLEAN
        BY Zenon, <2>1, <4>1
      <4> QED BY <1>0, <4>1, <4>2
    <3>2. UNCHANGED <<tenant, account, worker, budget>>
      BY Zenon, <1>1 DEF OnlyDevices, rowVars, workVars
    <3> QED BY Zenon, <3>1, <3>2 DEF BillingInv, PlanInv, LoneWorker
  <2>2. CASE ~added
    <3>1. devices' = devices
      BY Zenon, <1>2, <2>2 DEF CreateDevice
    <3>2. settled' = (settled /\ ~added) /\ settled \in BOOLEAN
      BY Zenon, <1>0, <1>2 DEF CreateDevice
    <3>3. settled' = settled
      BY Zenon, <2>2, <3>2
    <3> QED BY Zenon, <1>1, <1>3, <3>1, <3>3, OnlyDevicesFrame, OnlyDevicesFrame
  <2> QED BY Zenon, <2>1, <2>2
<1>8. DeviceInv'
  <2>1. ~overlap' => \A v \in Users \ {u} : req'[v] = NoRequest
    BY Zenon, <1>0, <1>5, Alone
  <2>2. ~At(u, "leave", "commit")'
    BY Zenon, <1>5, NoRequestIs DEF At, Adding
  <2>3. ~overlap' => \A v \in Users : ~At(v, "leave", "commit")'
    BY Zenon, <2>1, <2>2, NoRequestIs DEF At
  <2>4. used'["faults"] = 0 => used["faults"] = 0
    BY <1>0, <1>3 DEF ReqShapes, Grows, Bounds
  <2>5. UNCHANGED tenant
    BY Zenon, <1>1 DEF rowVars
  <2> QED BY Zenon, <1>1, <2>3, <2>4, <2>5 DEF BillingInv, DeviceInv
<1> QED BY Zenon, <1>1, <1>3, <1>6, <1>7, <1>8, OnlyDevicesFrame DEF BillingInv

\* DELETE /devices/:id.
LEMMA DeleteDeviceInv ==
    ASSUME BillingInv, NEW u \in Users, NEW i \in DOMAIN devices, DeleteDevice(u, i)
    PROVE  BillingInv'
<1>0. /\ ReqShapes /\ customers \in Nat /\ DOMAIN req = Users /\ devices \in Seq(BOOLEAN)
  BY Zenon DEF BillingInv, TenancyInv, ReqShapes, ShopReq, PlanInv
<1>1. /\ OnlyDevices /\ UNCHANGED <<rowVars, authVars, customers, budget>>
      /\ AtOnce(u, "delete")
  BY Zenon DEF DeleteDevice, OnlyDevices, stripeVars, authVars
<1>2. Passes /\ Grows
  <2>1. Spend("requests") /\ "requests" \in Bounds
    BY Zenon, <1>1 DEF AtOnce, Bounds
  <2> QED BY Zenon, <1>0, <1>1, <2>1, SpendGrows, AtOncePasses
<1>3. TenancyInv'
  BY Zenon, <1>1, <1>2, ShopStepInv DEF ShopMoves, BillingInv
<1>4. ShopReq'
  BY Zenon, <1>1, <1>2 DEF BillingInv, ShopReq, Passes
<1>5. PlanInv'
  <2>1. i \in 1 .. Len(devices)
    BY <1>0
  <2>2. /\ SubSeq(devices, 1, i - 1) \in Seq(BOOLEAN)
        /\ SubSeq(devices, i + 1, Len(devices)) \in Seq(BOOLEAN)
    BY <1>0, <2>1
  <2>3. devices' \in Seq(BOOLEAN) /\ settled' = FALSE
    BY <2>2 DEF DeleteDevice
  <2>4. UNCHANGED <<tenant, account, worker, budget>>
    BY Zenon, <1>1 DEF OnlyDevices, rowVars, workVars
  <2> QED BY Zenon, <2>3, <2>4 DEF BillingInv, PlanInv, LoneWorker
<1>6. DeviceInv'
  <2>1. ~overlap' => ~overlap /\ \A v \in Users : req'[v] = NoRequest
    BY Zenon, <1>2, PassesAlone
  <2>2. used'["faults"] = 0 => used["faults"] = 0
    BY <1>0, <1>2 DEF ReqShapes, Grows, Bounds
  <2>3. UNCHANGED tenant /\ devices # <<>>
    BY <1>0, <1>1 DEF rowVars
  <2> QED BY Zenon, <2>1, <2>2, <2>3, NoRequestIs DEF BillingInv, DeviceInv, At
<1> QED BY Zenon, <1>1, <1>2, <1>3, <1>4, <1>5, <1>6, OnlyDevicesFrame DEF BillingInv

\* An account deletion that erases the tenant: first its devices.
LEMMA EraseDevicesInv ==
    ASSUME BillingInv, NEW u \in Users, EraseDevices(u)
    PROVE  BillingInv'
<1> DEFINE n == [req[u] EXCEPT !.at = "commit", !.seen = Len(devices)]
<1>0. /\ ReqShapes /\ customers \in Nat /\ DOMAIN req = Users /\ used \in [Bounds -> Nat]
      /\ Len(devices) \in Nat
  BY DEF BillingInv, TenancyInv, ReqShapes, ShopReq, PlanInv
<1>1. /\ UNCHANGED <<rowVars, authVars, overlap, used, billingVars, budget, tenant>>
      /\ At(u, "leave", "erase") /\ req' = [req EXCEPT ![u] = n]
  BY Zenon DEF EraseDevices, authVars, rowVars
<1>2. req[u] \in Leaving /\ req[u] # NoRequest
  BY Zenon, <1>0, <1>1, NoRequestIs DEF ReqShapes, IsRequest, At
<1>3. /\ n \in Leaving /\ n.op = req[u].op
      /\ n.op = "leave" /\ n.at = "commit" /\ n.seen = Len(devices)
  BY Zenon, <1>0, <1>2 DEF Leaving
<1> HIDE DEF n
<1>4. Proceeds(u) /\ req'[u] = n
  BY Zenon, <1>0, <1>1, <1>2, <1>3, MoveProceeds, RouteIs
<1>5. Grows
  BY Zenon, <1>0, <1>1, SpendGrows
<1>6. TenancyInv'
  BY Zenon, <1>1, <1>3, <1>4, <1>5, ShopStepInv DEF ShopMoves, BillingInv, At
<1>7. /\ UNCHANGED <<stripeVars, workVars, account, billing, clock, customers, subs, events>>
      /\ UNCHANGED <<devices, settled, worker>>
  BY Zenon, <1>1 DEF billingVars, stripeVars, workVars
<1>8. ShopReq'
  BY Zenon, <1>3, <1>4, <1>7 DEF BillingInv, ShopReq, Proceeds, Others
<1>9. StripeInv' /\ RowsInv' /\ QueueInv' /\ LogInv' /\ PlanInv'
  <2>1. OnlyDevices
    BY Zenon, <1>1, <1>7 DEF OnlyDevices
  <2> QED BY Zenon, <1>5, <1>7, <2>1, OnlyDevicesFrame
<1>10. DeviceInv'
  <2>1. ~overlap' => \A v \in Users \ {u} : req'[v] = NoRequest
    BY Zenon, <1>0, <1>4, Alone
  <2>2. \A v \in Users \ {u} : req'[v] = req[v]
    BY Zenon, <1>4 DEF Proceeds, Others
  <2> QED BY Zenon, <1>1, <1>3, <1>4, <1>7, <2>1, <2>2, NoRequestIs DEF BillingInv, DeviceInv, At
<1> QED BY Zenon, <1>6, <1>8, <1>9, <1>10 DEF BillingInv

\* Then the tenant, with its rows.
LEMMA EraseTenantInv ==
    ASSUME Counted, BillingInv, NEW u \in Users, EraseTenant(u)
    PROVE  BillingInv'
<1>0. /\ ReqShapes /\ customers \in Nat /\ DOMAIN req = Users /\ used \in [Bounds -> Nat]
      /\ devices \in Seq(BOOLEAN)
  BY Zenon DEF BillingInv, TenancyInv, ReqShapes, ShopReq, PlanInv
<1>1. /\ CommitErase(u) /\ tenant'.state = "gone" /\ overlap' = overlap /\ used' = used
      /\ At(u, "leave", "commit") /\ Answer(u) /\ budget' = budget
  BY Zenon DEF EraseTenant, CommitErase, authVars
<1>2. /\ UNCHANGED <<stripeVars, workVars, clock, customers, subs, events, worker>>
      /\ billing' = NoBilling /\ account' = NewAccount /\ settled' = FALSE
      /\ devices' = SubSeq(devices, req[u].seen + 1, Len(devices))
  BY Zenon DEF EraseTenant, stripeVars, workVars
<1>3. TenancyInv' /\ Grows
  BY Zenon, <1>1, TeamStepInv DEF TeamStep, BillingInv
<1>4. req[u] \in Leaving /\ req[u] # NoRequest
  BY Zenon, <1>0, <1>1, NoRequestIs DEF ReqShapes, IsRequest, At
<1>5. Proceeds(u) /\ req'[u] = NoRequest
  BY Zenon, <1>0, <1>1, <1>4, AnswerProceeds
<1>6. ShopReq'
  BY Zenon, <1>2, <1>5, NoRequestIs DEF BillingInv, ShopReq, Proceeds, Others
<1>7. StripeInv' /\ QueueInv' /\ LogInv'
  BY Zenon, <1>0, <1>1, <1>2, <1>3, StripeFrame, WorkFrame DEF BillingInv
<1>8. RowsInv'
  <2>1. /\ NoBilling \in [exists : BOOLEAN, customer : Nat, sub : Subs \cup {NoSub},
                          plan : Plans, status : Statuses]
        /\ NoBilling.customer = 0 /\ NoBilling.sub = NoSub
    BY Zenon DEF NoBilling, Plans, Statuses
  <2>2. NewAccount \in [plan : Plans, status : Statuses, ends : Nat]
    BY Zenon DEF NewAccount, Plans, Statuses
  <2>3. /\ billing' \in [exists : BOOLEAN, customer : Nat, sub : Subs \cup {NoSub},
                         plan : Plans, status : Statuses]
        /\ billing'.customer = 0 /\ billing'.sub = NoSub
        /\ account' \in [plan : Plans, status : Statuses, ends : Nat]
    BY Zenon, <1>2, <2>1, <2>2
  <2>4. 0 <= customers'
    BY <1>0, <1>2
  <2>5. billing'.customer <= customers'
    BY Zenon, <2>3, <2>4
  <2> QED BY Zenon, <1>1, <1>2, <2>3, <2>5 DEF RowsInv
<1>9. devices' \in Seq(BOOLEAN) /\ (req[u].seen = Len(devices) => devices' = <<>>)
  <2>1. req[u].seen \in Nat
    BY Zenon, <1>4 DEF Leaving
  <2> QED BY <1>0, <1>2, <2>1
<1>10. PlanInv'
  BY Zenon, <1>1, <1>2, <1>9 DEF PlanInv
<1>11. DeviceInv'
  <2>1. ~overlap' => \A v \in Users : req'[v] = NoRequest
    BY Zenon, <1>0, <1>5, Alone
  <2>2. ~overlap' => devices' = <<>>
    BY Zenon, <1>1, <1>9 DEF BillingInv, DeviceInv
  <2> QED BY Zenon, <2>1, <2>2, NoRequestIs DEF DeviceInv, At
<1> QED BY Zenon, <1>3, <1>6, <1>7, <1>8, <1>10, <1>11 DEF BillingInv

-----------------------------------------------------------------------------
(* Every step. *)

\* The service before the tenant registers.
LEMMA BillingInvInit == Init => BillingInv
<1> SUFFICES ASSUME Init PROVE BillingInv
  OBVIOUS
<1>1. TenancyInv
  BY Zenon, TenancyInvInit DEF Init
<1>2. \A u \in Users : req[u] = NoRequest /\ \A op, at : op # "none" => ~At(u, op, at)
  BY Zenon, NoRequestIs DEF Init, TenancyInit, At
<1>3. /\ account = NewAccount /\ billing = NoBilling /\ devices = <<>> /\ clock = 0
      /\ customers = 0 /\ sessions = {} /\ events = <<>> /\ queue = <<>> /\ declared = "none"
      /\ dead = {} /\ worker = [w \in Workers |-> NoWork("down")]
      /\ log = <<>> /\ queued = {} /\ told = <<>> /\ settled = TRUE
      /\ subs = [s \in Subs |-> [state |-> "none", plan |-> "free", price |-> "free",
                                 customer |-> 0]]
  BY Zenon DEF Init
<1>4. tenant.state # "gone"
  BY Zenon DEF Init, TenancyInit
<1>5. ShopReq
  BY Zenon, <1>2, <1>3, NoRequestIs DEF ShopReq
<1>6. StripeInv
  BY <1>3 DEF StripeInv, SubRec, Statuses, Plans
<1>7. RowsInv
  BY <1>3, <1>4 DEF RowsInv, NewAccount, NoBilling, Plans, Statuses
<1>8. QueueInv
  <2>1. NoWork("down") \in WorkerRec /\ NoWork("down").at = "down" /\ NoWork("down").msg = NoMessage
    BY Zenon DEF NoWork, WorkerRec, MsgRec, NoMessage, ContextRec, NoContext, Plans
  <2>2. worker \in [Workers -> WorkerRec] /\ \A w \in Workers : Holds(w)
    BY Zenon, <1>3, <2>1 DEF Holds, Has
  <2> QED BY <1>3, <2>2 DEF QueueInv, Elements
<1>9. LogInv
  <2>1. \A w \in Workers : worker[w].at = "down"
    BY Zenon, <1>3 DEF NoWork
  <2> QED BY <1>3, <2>1 DEF LogInv
<1>10. PlanInv
  <2>1. \A w \in Workers : worker[w].at = "down"
    BY <1>3 DEF NoWork
  <2> QED BY <1>3, <2>1 DEF PlanInv, Fits
<1>11. DeviceInv
  BY Zenon, <1>2, <1>4 DEF DeviceInv
<1> QED BY Zenon, <1>1, <1>5, <1>6, <1>7, <1>8, <1>9, <1>10, <1>11 DEF BillingInv

\* A step keeps the invariant, and only the erasure ends the tenant.
LEMMA BillingInvStep ==
    ASSUME Counted, Lone, BillingInv, Next
    PROVE  /\ BillingInv' /\ budget' = budget
           /\ \/ tenant'.state = "gone" => tenant.state = "gone"
              \/ \E u \in Users : CommitErase(u)
<1>0. TenancyInv
  BY Zenon DEF BillingInv
<1>1. CASE /\ UNCHANGED billingVars
           /\ \/ \E u \in Users : Continue(u) \/ Arrive(u) \/ Login(u)
              \/ \E i \in Invites : ExpireInvite(i)
              \/ StopGateway
  <2>1. TenancyInv' /\ Quiet
    BY Zenon, <1>0, <1>1, TeamQuiet
  <2> QED BY Zenon, <1>1, <2>1, QuietStep DEF Quiet, Grows
<1>2. CASE \E u \in Users : EraseTenant(u)
  <2>1. budget' = budget /\ \E u \in Users : CommitErase(u)
    BY Zenon, <1>2 DEF EraseTenant, CommitErase, authVars
  <2> QED BY Zenon, <1>0, <1>2, <2>1, EraseTenantInv
<1>3. CASE \E u \in Users :
             \/ \E plan \in Priced : Checkout(u, plan)
             \/ CreateCustomer(u) \/ UpsertCustomer(u) \/ CreateSession(u)
  <2>1. UNCHANGED <<tenant, budget>>
    BY Zenon, <1>3 DEF Checkout, CreateCustomer, UpsertCustomer, CreateSession, rowVars, authVars
  <2> QED BY Zenon, <1>3, <2>1, CheckoutInv
<1>4. CASE \E u \in Users :
             \/ RequestDevices(u, "single", 1)
             \/ \E n \in 1 .. MaxRows : RequestDevices(u, "import", n)
             \/ CheckQuota(u) \/ InsertImportJob(u)
  <2>1. UNCHANGED <<tenant, budget>>
    BY Zenon, <1>4 DEF RequestDevices, CheckQuota, InsertImportJob, OnlyDevices, rowVars, authVars
  <2> QED BY Zenon, <1>4, <2>1, QuotaInv
<1>5. CASE \E u \in Users :
             CreateRow(u) \/ EraseDevices(u) \/ \E i \in DOMAIN devices : DeleteDevice(u, i)
  <2>1. UNCHANGED <<tenant, budget>>
    BY Zenon, <1>5 DEF CreateRow, EraseDevices, DeleteDevice, OnlyDevices, rowVars, authVars
  <2> QED BY Zenon, <1>5, <2>1, CreateRowInv, EraseDevicesInv, DeleteDeviceInv
<1>6. CASE (\E s \in Subs : StripeStep(s)) \/ PeriodEnds
  <2>1. UNCHANGED <<tenant, budget>>
    BY Zenon, <1>6 DEF StripeStep, CompleteCheckout, ChangeSubscription, SwitchPrice, Emit, PeriodEnds,
                rowVars, authVars
  <2> QED BY Zenon, <1>6, <2>1, StripeStepInv, PeriodEndsInv
<1>7. CASE ExpireEvent \/ \E k \in DOMAIN events : QueueEvent(k)
  <2>1. UNCHANGED <<tenant, budget>>
    BY Zenon, <1>7 DEF ExpireEvent, QueueEvent, StripeWebhook, PublishDirectly, OnlyWork, rowVars,
                authVars
  <2> QED BY Zenon, <1>7, <2>1, QueueEventInv
<1>8. CASE \E w \in Workers : StopWorker(w) \/ WorkerStep(w)
  <2> PICK w \in Workers : StopWorker(w) \/ WorkerStep(w)
    BY Zenon, <1>8
  <2>1. CASE CommitStripeEvent(w)
    <3>1. UNCHANGED <<tenant, budget>>
      BY Zenon, <2>1 DEF CommitStripeEvent, rowVars, authVars
    <3> QED BY Zenon, <1>0, <2>1, <3>1, CommitInv
  <2>2. CASE ~CommitStripeEvent(w)
    <3>1. \/ ConnectWorker(w) \/ StopWorker(w) \/ ConsumeEvent(w) \/ BeginStripeEvent(w)
          \/ QueueOwnerEmail(w) \/ AckEvent(w) \/ FailStripeEvent(w) \/ RetryEvent(w)
      BY Zenon, <2>2 DEF WorkerStep
    <3>2. OnlyWork
      BY Zenon, <3>1 DEF ConnectWorker, StopWorker, ConsumeEvent, BeginStripeEvent, QueueOwnerEmail,
                  AckEvent, FailStripeEvent, RetryEvent
    <3>3. UNCHANGED <<tenant, budget>>
      BY Zenon, <3>2 DEF OnlyWork, rowVars, authVars
    <3> QED BY Zenon, <3>1, <3>3, WorkInv
  <2> QED BY Zenon, <2>1, <2>2
<1>9. \/ /\ UNCHANGED billingVars
         /\ \/ \E u \in Users : Continue(u) \/ Arrive(u) \/ Login(u)
            \/ \E i \in Invites : ExpireInvite(i)
            \/ StopGateway
      \/ \E u \in Users : EraseTenant(u)
      \/ \E u \in Users :
            \/ \E plan \in Priced : Checkout(u, plan)
            \/ CreateCustomer(u) \/ UpsertCustomer(u) \/ CreateSession(u)
      \/ \E u \in Users :
            \/ RequestDevices(u, "single", 1)
            \/ \E n \in 1 .. MaxRows : RequestDevices(u, "import", n)
            \/ CheckQuota(u) \/ InsertImportJob(u)
      \/ \E u \in Users :
            CreateRow(u) \/ EraseDevices(u) \/ \E i \in DOMAIN devices : DeleteDevice(u, i)
      \/ (\E s \in Subs : StripeStep(s)) \/ PeriodEnds
      \/ ExpireEvent \/ \E k \in DOMAIN events : QueueEvent(k)
      \/ \E w \in Workers : StopWorker(w) \/ WorkerStep(w)
  BY Zenon DEF Next, Environment, NewRequest, RequestStep
<1> QED BY Zenon, <1>1, <1>2, <1>3, <1>4, <1>5, <1>6, <1>7, <1>8, <1>9

-----------------------------------------------------------------------------
(* The specification. *)

INSTANCE FiniteSetTheorems

\* What the steps need of cardinalities holds: a team is finite, and one worker is
\* no two.
LEMMA Counting ==
    Counted /\ (budget \in Budgets => Lone)
<1>1. ASSUME NEW S \in SUBSET Users
      PROVE  /\ Cardinality(S) \in Nat
             /\ Cardinality(S) # 1 => \A x \in S : \E y \in S : y # x
  <2>1. IsFiniteSet(S)
    BY Zenon, FS_Subset, TeamAssumption
  <2>2. Cardinality(S) \in Nat
    BY Zenon, <2>1, FS_CardinalityType
  <2>3. ASSUME NEW x \in S, ~\E y \in S : y # x PROVE Cardinality(S) = 1
    <3>1. S = {x}
      BY Zenon, <2>3
    <3> QED BY Zenon, <3>1, FS_Singleton
  <2> QED BY Zenon, <2>2, <2>3
<1>2. ASSUME budget \in Budgets, LoneWorker, NEW v \in budget.workers, NEW w \in budget.workers
      PROVE  v = w
  <2>1. IsFiniteSet(budget.workers)
    BY Zenon, <1>2, LimitsAssumption
  <2>2. \E x : budget.workers = {x}
    BY Zenon, <1>2, <2>1, FS_Singleton DEF LoneWorker
  <2> QED BY <2>2
<1> QED BY Zenon, <1>1, <1>2 DEF Counted, Lone

\* BillingInv holds in every state: for any users, invites, keys, workers,
\* subscriptions and limits, and whatever the budget of requests, faults and events.
THEOREM BillingInvariant == Spec => []BillingInv
<1>1. Init => BillingInv
  BY Zenon, BillingInvInit
<1>2. BillingInv /\ [Next]_vars => BillingInv'
  <2> SUFFICES ASSUME BillingInv, [Next]_vars PROVE BillingInv'
    OBVIOUS
  <2>1. CASE Next
    <3>1. Counted /\ Lone
      BY Zenon, Counting DEF BillingInv, TenancyInv, ReqShapes
    <3> QED BY Zenon, <2>1, <3>1, BillingInvStep
  <2>2. CASE UNCHANGED vars
    <3>1. UNCHANGED billingVars /\ UNCHANGED <<rowVars, authVars, req, overlap, used, budget, customers>>
      BY Zenon, <2>2 DEF vars, tenancyVars, billingVars, authVars
    <3>2. Grows
      BY Zenon, <3>1, SpendGrows DEF BillingInv, TenancyInv
    <3>3. TenancyInv' /\ Quiet
      BY Zenon, <3>1, <3>2, QuietHolds
    <3> QED BY Zenon, <3>1, <3>3, QuietStep
  <2> QED BY Zenon, <2>1, <2>2
<1> QED BY <1>1, <1>2, PTL DEF Spec

\* Every variable has its type: messages are about events that Stripe sent, with
\* fewer retries than MaxRetries, and the billing row names what Stripe has.
THEOREM BillingTypes == Spec => []TypeOK
BY InvTypes, BillingInvariant, PTL

\* Once the last admin's account deletion has erased the tenant, none of the other
\* requests puts back a row of it, however many are under way.
THEOREM NothingOutlivesTenantTheorem == Spec => []NothingOutlivesTenant
<1>1. BillingInv => NothingOutlivesTenant
  BY Zenon DEF BillingInv, TenancyInv, Erased, RowsInv, DeviceInv, NothingOutlivesTenant
<1> QED BY <1>1, BillingInvariant, PTL

\* An invite admits one person and an address has one pending invite, as long as
\* requests do not overlap.
THEOREM InvitesUsedOnceTheorem == Spec => []InvitesUsedOnce
<1>1. BillingInv => InvitesUsedOnce
  <2> SUFFICES ASSUME BillingInv, ~overlap PROVE InvitesUsedOnce
    BY Zenon DEF InvitesUsedOnce
  <2>1. InviteInv
    BY Zenon DEF BillingInv, TenancyInv
  <2>2. ASSUME NEW u \in Users PROVE Cardinality(Pending(u)) <= 1
    <3>1. \A i, j \in Pending(u) : i = j
      BY Zenon, <2>1 DEF InviteInv, Pending
    <3>2. CASE Pending(u) = {}
      <4>1. Cardinality(Pending(u)) = 0
        BY Zenon, <3>2, FS_EmptySet
      <4> QED BY <4>1
    <3>3. CASE Pending(u) # {}
      <4>1. PICK i \in Pending(u) : TRUE
        BY Zenon, <3>3
      <4>2. Pending(u) = {i}
        BY Zenon, <3>1, <4>1
      <4>3. Cardinality(Pending(u)) = 1
        BY Zenon, <4>2, FS_Singleton
      <4> QED BY <4>3
    <3> QED BY Zenon, <3>2, <3>3
  <2> QED BY Zenon, <2>1, <2>2 DEF InviteInv, InvitesUsedOnce
<1> QED BY <1>1, BillingInvariant, PTL

\* Single sign-on is what the tenants row says, between requests that neither
\* overlapped nor failed.
THEOREM SsoRecordMatchesTheorem == Spec => []SsoRecordMatches
<1>1. BillingInv => SsoRecordMatches
  <2> SUFFICES ASSUME BillingInv, NoRequests, Calm
               PROVE  /\ tenant.org = idp.org
                      /\ tenant.conn # "none" => tenant.conn \in idp.enabled
                      /\ Cardinality(idp.conns) <= 1 => idp.enabled = {tenant.conn} \ {"none"}
    BY Zenon DEF SsoRecordMatches, Calm
  <2>1. \A u \in Users : \A op, at : op # "none" => ~At(u, op, at)
    BY Zenon, NoRequestIs DEF NoRequests, At
  <2>2. /\ tenant.org = idp.org
        /\ tenant.conn # "none" => tenant.conn \in idp.enabled
        /\ OneAtMost(idp.conns) => idp.enabled = {tenant.conn} \ {"none"}
    BY Zenon, <2>1 DEF BillingInv, TenancyInv, SsoInv
  <2>3. ASSUME Cardinality(idp.conns) <= 1 PROVE OneAtMost(idp.conns)
    <3>1. IsFiniteSet({"saml"} \cup {"oidc"})
      BY Zenon, FS_Singleton, FS_AddElement
    <3>2. idp.conns \subseteq {"saml"} \cup {"oidc"}
      BY Zenon DEF BillingInv, TenancyInv, RowShapes, Kinds
    <3>3. IsFiniteSet(idp.conns) /\ Cardinality(idp.conns) \in Nat
      BY Zenon, <3>1, <3>2, FS_Subset, FS_CardinalityType
    <3>4. Cardinality(idp.conns) = 0 \/ Cardinality(idp.conns) = 1
      BY <2>3, <3>3
    <3>5. idp.conns = {} \/ \E x : idp.conns = {x}
      BY Zenon, <3>3, <3>4, FS_EmptySet, FS_Singleton
    <3> QED BY Zenon, <3>5 DEF OneAtMost
  <2> QED BY Zenon, <2>2, <2>3
<1> QED BY <1>1, BillingInvariant, PTL

\* The tenant is erased by its last admin and never left without one, in every
\* step of requests that come one at a time and change no roles.
THEOREM LastAdminDecidesTheorem == Spec => LastAdminDecides
<1>1. BillingInv /\ BillingInv' /\ [Next]_vars =>
        [~overlap' /\ budget.ops \cap {"role", "remove"} = {} =>
            /\ tenant.state = "live" /\ tenant'.state = "gone" => Cardinality(Admins) = 1
            /\ tenant'.state = "live" => Admins' # {}]_vars
  <2> SUFFICES ASSUME BillingInv, BillingInv', Next,
                      ~overlap', budget.ops \cap {"role", "remove"} = {}
               PROVE  /\ tenant.state = "live" /\ tenant'.state = "gone" => Cardinality(Admins) = 1
                      /\ tenant'.state = "live" => Admins' # {}
    OBVIOUS
  <2>0. Counted /\ Lone
    BY Zenon, Counting DEF BillingInv, TenancyInv, ReqShapes
  <2>1. Deliberate'
    BY Zenon, <2>0, BillingInvStep DEF Deliberate
  <2>2. tenant'.state = "live" => Admins' # {}
    BY Zenon, <2>1 DEF BillingInv, TenancyInv, LeaveInv
  <2>3. ASSUME tenant.state = "live", tenant'.state = "gone" PROVE Cardinality(Admins) = 1
    <3>1. \E u \in Users : CommitErase(u)
      BY Zenon, <2>0, <2>3, BillingInvStep
    <3> QED BY Zenon, <2>1, <3>1, ErasedByLast DEF BillingInv
  <2> QED BY Zenon, <2>2, <2>3
<1> QED BY <1>1, BillingInvariant, PTL DEF Spec, LastAdminDecides

\* However often an event is sent, redelivered, retried or handed to two workers,
\* it is applied once and its email sent once at most, and none that was queued is
\* lost.
THEOREM EventsHandledOnceTheorem == Spec => []EventsHandledOnce
BY InvHandled, BillingInvariant, PTL

\* With one worker the devices left enabled are those the gateway's quota admits,
\* though worker and gateway each compute the limit on their own.
THEOREM DevicesMatchPlanTheorem == Spec => []DevicesMatchPlan
<1>1. BillingInv => DevicesMatchPlan
  BY Zenon DEF BillingInv, PlanInv, LoneWorker, Fits, DevicesMatchPlan
<1> QED BY <1>1, BillingInvariant, PTL
====
