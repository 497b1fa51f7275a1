-------------------------- MODULE AlertJobs_proofs --------------------------
(***************************************************************************)
(* workflow-alerts keeps its alerts apart, and no job that entered a queue *)
(* of the jobs-worker vanishes, for any topic, recipients, endpoints, jobs *)
(* and number of retries, and whatever closes the channel.                 *)
(***************************************************************************)
EXTENDS AlertJobs, TLAPS

-----------------------------------------------------------------------------
(* Alerts. *)

AlertRec == [key : Keys, device : Devices, at : Nat, start : Nat]

\* The variables of workflow-alerts.
FlowTypes ==
    /\ budget \in Budgets /\ used \in [Bounds -> Nat]
    /\ now \in Nat \ {0}
    /\ pos \in Nat /\ pos <= Len(Topic) /\ committed \in 0 .. pos
    /\ evaluating \in BOOLEAN
    /\ cooldowns \in [Devices -> 0 .. now] /\ processed \in [Keys -> 0 .. now]
    /\ alertLog \in Seq(AlertRec)

\* The two maps have the time of the latest alert of this run, ...
Remembered ==
    \A i \in DOMAIN alertLog :
        LET a == alertLog[i] IN
        /\ a.at \in 1 .. now /\ a.start <= used["restarts"]
        /\ a.start = used["restarts"] =>
              a.at <= cooldowns[a.device] /\ a.at <= processed[a.key]

\* ... and what eachMessage has found in them holds until it publishes: time only
\* helps.
Evaluated ==
    evaluating =>
        /\ pos < Len(Topic)
        /\ ~HasProcessed(EventKey(Topic[pos + 1])) /\ ~IsOnCooldown(Topic[pos + 1].device)

FlowInv == FlowTypes /\ Remembered /\ Evaluated /\ AlertsSpaced

\* What a step outside workflow-alerts may do to what FlowInv is about.
Aside ==
    /\ UNCHANGED flowVars /\ budget' = budget
    /\ used' \in [Bounds -> Nat] /\ used'["restarts"] = used["restarts"]
    /\ used["faults"] <= used'["faults"]

\* A use of a bound is counted for that bound alone.
LEMMA SpendCounts ==
    ASSUME used \in [Bounds -> Nat], NEW b \in Bounds, Spend(b)
    PROVE  /\ used' \in [Bounds -> Nat] /\ used'[b] = used[b] + 1
           /\ \A c \in Bounds \ {b} : used'[c] = used[c]
           /\ used[b] < budget[b]
BY DEF Spend

\* What is spent elsewhere than on restarts leaves the run of workflow-alerts.
LEMMA SpendAside ==
    ASSUME used \in [Bounds -> Nat], UNCHANGED flowVars, budget' = budget,
           \/ UNCHANGED used
           \/ \E b \in Bounds \ {"restarts"} : Spend(b)
    PROVE  Aside
<1>1. {"restarts", "faults"} \subseteq Bounds
  BY DEF Bounds
<1>2. CASE UNCHANGED used
  BY <1>1, <1>2 DEF Aside
<1>3. ASSUME NEW b \in Bounds \ {"restarts"}, Spend(b) PROVE Aside
  <2>1. /\ used' \in [Bounds -> Nat] /\ used'[b] = used[b] + 1
        /\ \A c \in Bounds \ {b} : used'[c] = used[c]
    BY Zenon, <1>3, SpendCounts
  <2>2. used["faults"] <= used'["faults"]
    BY <1>1, <2>1
  <2> QED
    BY Zenon, <1>1, <1>3, <2>1, <2>2 DEF Aside
<1> QED
  BY Zenon, <1>2, <1>3

\* The calls of the jobs-worker, of the gateway and of other publishers.
LEMMA OthersAside ==
    ASSUME used \in [Bounds -> Nat], budget' = budget,
           \/ RunDigestCycle \/ CloseChannel \/ RestartWorker
           \/ \E r \in Range1(Recipients) : PutPreferences(r)
           \/ \E ep \in Endpoints : EditEndpoint(ep)
           \/ \E q \in QUEUES : HandlerStep(q) \/ ExpireJob(q)
           \/ \E p \in Produced : PublishJob(p[1], p[2])
    PROVE  Aside
<1>1. {"digests", "jobs", "edits", "failures", "faults"} \subseteq Bounds \ {"restarts"}
  BY DEF Bounds
<1>2. ASSUME NEW ok, MayFail(ok) PROVE UNCHANGED used \/ Spend("faults")
  BY <1>2 DEF MayFail
<1>3. ASSUME NEW q, NEW got \in BOOLEAN, NEW ok \in BOOLEAN, Call(q, got, ok)
      PROVE  UNCHANGED used \/ Spend("faults") \/ Spend("failures")
  BY Zenon, <1>3 DEF Call
<1>4. CASE RunDigestCycle \/ CloseChannel \/ RestartWorker
  <2>1. UNCHANGED flowVars /\ (UNCHANGED used \/ Spend("digests") \/ Spend("faults"))
    BY Zenon, <1>4 DEF RunDigestCycle, CloseChannel, RestartWorker
  <2> QED
    BY Zenon, <1>1, <2>1, SpendAside
<1>5. ASSUME NEW r, PutPreferences(r) \/ EditEndpoint(r) PROVE Aside
  <2>1. UNCHANGED flowVars /\ Spend("edits")
    BY Zenon, <1>5 DEF PutPreferences, EditEndpoint
  <2> QED
    BY Zenon, <1>1, <2>1, SpendAside
<1>6. ASSUME NEW p, PublishJob(p[1], p[2]) PROVE Aside
  <2>1. UNCHANGED flowVars /\ Spend("jobs")
    BY Zenon, <1>6 DEF PublishJob
  <2> QED
    BY Zenon, <1>1, <2>1, SpendAside
<1>7. ASSUME NEW q \in QUEUES, HandlerStep(q) \/ ExpireJob(q) PROVE Aside
  <2>1. CASE Consume(q) \/ AckJob(q) \/ NackJob(q) \/ RequeueCopy(q) \/ AckThrows
    <3>1. UNCHANGED flowVars /\ UNCHANGED used
      BY Zenon, <2>1 DEF Consume, AckJob, NackJob, RequeueCopy, OnChannel, AckThrows
    <3> QED
      BY Zenon, <3>1, SpendAside
  <2>2. CASE RetryAfterDelay(q) \/ ExpireJob(q)
    <3>1. UNCHANGED flowVars /\ (UNCHANGED used \/ Spend("faults"))
      BY Zenon, <2>2 DEF RetryAfterDelay, ExpireJob
    <3> QED
      BY Zenon, <1>1, <3>1, SpendAside
  <2>3. CASE AlertEmail \/ AlertWebhooks \/ UpdateEndpointStatus
    <3>1. UNCHANGED flowVars /\ \E ok : MayFail(ok)
      BY Zenon, <2>3 DEF AlertEmail, AlertWebhooks, UpdateEndpointStatus
    <3> QED
      BY Zenon, <1>1, <1>2, <3>1, SpendAside
  <2>4. CASE SendEmail \/ PostExport \/ DeliverWebhook
    <3>1. UNCHANGED flowVars /\ \E c : \E got, ok \in BOOLEAN : Call(c, got, ok)
      BY Zenon, <2>4 DEF SendEmail, PostExport, DeliverWebhook
    <3> QED
      BY Zenon, <1>1, <1>3, <3>1, SpendAside
  <2> QED
    BY Zenon, <1>7, <2>1, <2>2, <2>3, <2>4 DEF HandlerStep
<1> QED
  BY Zenon, <1>4, <1>5, <1>6, <1>7

\* Such a step keeps FlowInv.
LEMMA AsideFlow == ASSUME FlowInv, Aside PROVE FlowInv'
<1>1. /\ UNCHANGED <<pos, committed, evaluating, cooldowns, processed, now, alertLog, budget>>
      /\ used' \in [Bounds -> Nat] /\ used'["restarts"] = used["restarts"]
  BY Zenon DEF Aside, flowVars
<1> QED
  BY <1>1 DEF FlowInv, FlowTypes, Remembered, Evaluated, HasProcessed, IsOnCooldown, AlertsSpaced

\* eachMessage up to its await: what it let pass is neither processed nor on
\* cool-down.
LEMMA EachMessageFlow ==
    ASSUME FlowInv, EachMessage, budget' = budget
    PROVE  FlowInv'
<1>1. UNCHANGED <<committed, cooldowns, processed, now, alertLog, used>>
  BY Zenon DEF EachMessage
<1>t. /\ FlowTypes /\ budget \in Budgets /\ pos \in Nat /\ pos <= Len(Topic)
      /\ committed \in 0 .. pos /\ pos < budget.events
  BY Zenon DEF FlowInv, FlowTypes, EachMessage
<1>2. pos < Len(Topic) /\ Len(Topic) \in Nat
  BY <1>t, SettingsAssumption, BudgetsAssumption DEF Bounds
<1>3. \/ evaluating' = FALSE /\ pos' = pos + 1
      \/ /\ evaluating' = TRUE /\ pos' = pos
         /\ ~HasProcessed(EventKey(Topic[pos + 1])) /\ ~IsOnCooldown(Topic[pos + 1].device)
  BY Zenon DEF EachMessage
<1>4. /\ pos' \in Nat /\ pos' <= Len(Topic) /\ committed' \in 0 .. pos'
      /\ evaluating' \in BOOLEAN
  <2>1. (pos' = pos \/ pos' = pos + 1) /\ evaluating' \in BOOLEAN /\ committed' = committed
    BY Zenon, <1>1, <1>3
  <2>2. pos' \in Nat /\ pos' <= Len(Topic) /\ committed' \in 0 .. pos'
    BY <1>t, <1>2, <2>1
  <2> QED
    BY Zenon, <2>1, <2>2
<1>5. Evaluated'
  BY Zenon, <1>1, <1>2, <1>3 DEF Evaluated, HasProcessed, IsOnCooldown
<1>6. AlertsSpaced' /\ Remembered'
  BY Zenon, <1>1 DEF FlowInv, AlertsSpaced, Remembered
<1>7. FlowTypes'
  BY Zenon, <1>t, <1>1, <1>4 DEF FlowTypes
<1> QED
  BY Zenon, <1>5, <1>6, <1>7 DEF FlowInv

\* The clock.  An alert that was far enough from the last one is so later.
LEMMA TickFlow ==
    ASSUME FlowInv, Tick, budget' = budget
    PROVE  FlowInv'
<1>1. /\ UNCHANGED <<pos, committed, evaluating, cooldowns, processed, alertLog>>
      /\ now' = now + 1 /\ Spend("ticks")
  BY Zenon DEF Tick
<1>2. {"ticks", "restarts"} \subseteq Bounds
  BY DEF Bounds
<1>t. /\ FlowTypes /\ used \in [Bounds -> Nat] /\ now \in Nat \ {0} /\ pos \in Nat
      /\ cooldowns \in [Devices -> 0 .. now] /\ processed \in [Keys -> 0 .. now]
  BY Zenon DEF FlowInv, FlowTypes
<1>3. used' \in [Bounds -> Nat] /\ used'["restarts"] = used["restarts"]
  BY <1>1, <1>2, <1>t, SpendCounts
<1>4. /\ now' \in Nat \ {0}
      /\ cooldowns' \in [Devices -> 0 .. now'] /\ processed' \in [Keys -> 0 .. now']
  BY <1>1, <1>t
<1>5. ASSUME NEW i \in DOMAIN alertLog'
      PROVE  LET a == alertLog'[i] IN
             /\ a.at \in 1 .. now' /\ a.start <= used'["restarts"]
             /\ a.start = used'["restarts"] =>
                   a.at <= cooldowns'[a.device] /\ a.at <= processed'[a.key]
  BY <1>1, <1>t, <1>3, <1>5 DEF FlowInv, Remembered
<1>6. ASSUME evaluating'
      PROVE  /\ pos' < Len(Topic)
             /\ ~HasProcessed(EventKey(Topic[pos + 1]))'
             /\ ~IsOnCooldown(Topic[pos + 1].device)'
  <2>1. /\ pos < Len(Topic) /\ Topic[pos + 1] \in Range1(Topic)
        /\ EventKey(Topic[pos + 1]) \in Keys /\ Topic[pos + 1].device \in Devices
    BY <1>t, <1>1, <1>6, SettingsAssumption DEF FlowInv, Evaluated, Range1, Keys, Devices
  <2>2. /\ processed[EventKey(Topic[pos + 1])] \in 0 .. now
        /\ cooldowns[Topic[pos + 1].device] \in 0 .. now
    BY <1>t, <2>1
  <2>3. ~HasProcessed(EventKey(Topic[pos + 1])) /\ ~IsOnCooldown(Topic[pos + 1].device)
    BY Zenon, <1>1, <1>6 DEF FlowInv, Evaluated
  <2>4. ~HasProcessed(EventKey(Topic[pos + 1]))' /\ ~IsOnCooldown(Topic[pos + 1].device)'
    BY <1>1, <1>t, <2>2, <2>3, WindowsAssumption DEF HasProcessed, IsOnCooldown
  <2> QED
    BY Zenon, <1>1, <2>1, <2>4
<1>7. AlertsSpaced'
  BY Zenon, <1>1 DEF FlowInv, AlertsSpaced
<1>8. FlowTypes' /\ Remembered' /\ Evaluated'
  BY Zenon, <1>1, <1>t, <1>3, <1>4, <1>5, <1>6 DEF FlowTypes, Remembered, Evaluated
<1> QED
  BY Zenon, <1>7, <1>8 DEF FlowInv

\* A restart forgets the maps; the alerts so far are of earlier runs.
LEMMA RestartFlow ==
    ASSUME FlowInv, RestartWorkflow, budget' = budget
    PROVE  FlowInv'
<1>1. /\ UNCHANGED <<now, alertLog>> /\ evaluating' = FALSE /\ Spend("restarts")
      /\ cooldowns' = [d \in Devices |-> 0] /\ processed' = [k \in Keys |-> 0]
      /\ committed' \in committed .. pos /\ pos' = committed'
  BY DEF RestartWorkflow
<1>t. /\ FlowTypes /\ used \in [Bounds -> Nat] /\ now \in Nat \ {0} /\ pos \in Nat
      /\ committed \in 0 .. pos /\ pos <= Len(Topic) /\ alertLog \in Seq(AlertRec)
  BY Zenon DEF FlowInv, FlowTypes
<1>2. used' \in [Bounds -> Nat] /\ used'["restarts"] = used["restarts"] + 1
  BY <1>1, <1>t, SpendCounts DEF Bounds
<1>3. ASSUME NEW i \in DOMAIN alertLog
      PROVE  alertLog[i].start < used'["restarts"] /\ alertLog[i].start \in Nat
                 /\ used'["restarts"] \in Nat /\ alertLog[i].at \in 1 .. now
  <2>1. "restarts" \in Bounds /\ alertLog[i] \in AlertRec
    BY <1>t, <1>3 DEF Bounds
  <2> QED
    BY <1>t, <1>2, <1>3, <2>1 DEF FlowInv, Remembered, AlertRec
<1>4. AlertsSpaced'
  BY Zenon, <1>1 DEF FlowInv, AlertsSpaced
<1>5. /\ pos' \in Nat /\ pos' <= Len(Topic) /\ committed' \in 0 .. pos'
      /\ cooldowns' \in [Devices -> 0 .. now'] /\ processed' \in [Keys -> 0 .. now']
  BY <1>1, <1>t, SettingsAssumption
<1>6. Remembered'
  BY <1>1, <1>2, <1>3 DEF Remembered
<1>7. FlowTypes' /\ Evaluated'
  BY Zenon, <1>1, <1>t, <1>2, <1>5 DEF FlowTypes, Evaluated
<1> QED
  BY Zenon, <1>4, <1>6, <1>7 DEF FlowInv

\* The alert that is published comes after the cool-down of every earlier one of
\* its device and run, whose time the map has at least.
LEMMA PublishAlertFlow ==
    ASSUME FlowInv, PublishAlert, budget' = budget
    PROVE  FlowInv'
<1> DEFINE e == Topic[pos + 1]
           k == EventKey(e)
           a == [key |-> k, device |-> e.device, at |-> now, start |-> used["restarts"]]
<1>t. /\ FlowTypes /\ used \in [Bounds -> Nat] /\ now \in Nat \ {0} /\ pos \in Nat
      /\ committed \in 0 .. pos /\ pos <= Len(Topic) /\ alertLog \in Seq(AlertRec)
      /\ cooldowns \in [Devices -> 0 .. now] /\ processed \in [Keys -> 0 .. now]
  BY Zenon DEF FlowInv, FlowTypes
<1>1. /\ evaluating /\ pos < Len(Topic)
      /\ k \in Keys /\ e.device \in Devices
  BY <1>t, SettingsAssumption DEF PublishAlert, FlowInv, Evaluated, Range1, Keys, Devices
<1>2. /\ UNCHANGED <<committed, now>> /\ pos' = pos + 1 /\ evaluating' = FALSE
      /\ UNCHANGED used \/ Spend("faults")
      /\ \/ UNCHANGED <<cooldowns, processed, alertLog>>
         \/ /\ cooldowns' = [cooldowns EXCEPT ![e.device] = now]
            /\ processed' = [processed EXCEPT ![k] = now]
            /\ alertLog' = Append(alertLog, a)
  BY DEF PublishAlert, MayFail
<1>3. {"faults", "restarts"} \subseteq Bounds /\ used["restarts"] \in Nat
  BY <1>t DEF Bounds
<1>4. used' \in [Bounds -> Nat] /\ used'["restarts"] = used["restarts"]
  BY <1>t, <1>2, <1>3, SpendCounts
<1>5. /\ pos' \in Nat /\ pos' <= Len(Topic) /\ committed' \in 0 .. pos'
      /\ now' \in Nat \ {0} /\ evaluating' = FALSE
  BY <1>t, <1>1, <1>2, SettingsAssumption
<1>6. CASE UNCHANGED <<cooldowns, processed, alertLog>>
  <2>1. AlertsSpaced' /\ Remembered' /\ Evaluated'
    BY Zenon, <1>2, <1>4, <1>6 DEF FlowInv, AlertsSpaced, Remembered, Evaluated
  <2>2. FlowTypes'
    BY Zenon, <1>t, <1>2, <1>4, <1>5, <1>6 DEF FlowTypes
  <2> QED
    BY Zenon, <2>1, <2>2 DEF FlowInv
<1>7. CASE /\ cooldowns' = [cooldowns EXCEPT ![e.device] = now]
           /\ processed' = [processed EXCEPT ![k] = now]
           /\ alertLog' = Append(alertLog, a)
  <2>1. /\ processed[k] \in 0 .. now /\ cooldowns[e.device] \in 0 .. now /\ now \in Nat \ {0}
        /\ processed[k] > 0 => now - processed[k] >= ProcessedTtl
        /\ cooldowns[e.device] > 0 => now - cooldowns[e.device] >= Cooldown
    BY <1>t, <1>1, WindowsAssumption DEF FlowInv, Evaluated, HasProcessed, IsOnCooldown
  <2>2. /\ a \in AlertRec /\ a.at = now /\ a.start = used["restarts"] /\ a.key = k
        /\ a.device = e.device
    BY <1>1, <1>3, <2>1 DEF AlertRec
  <2> HIDE DEF a, k, e
  <2>3. /\ alertLog' \in Seq(AlertRec) /\ Len(alertLog') = Len(alertLog) + 1
        /\ alertLog'[Len(alertLog) + 1] = a /\ Len(alertLog) \in Nat
        /\ DOMAIN alertLog = 1 .. Len(alertLog)
        /\ DOMAIN alertLog' = DOMAIN alertLog \cup {Len(alertLog) + 1}
        /\ \A i \in DOMAIN alertLog : alertLog'[i] = alertLog[i] /\ alertLog[i] \in AlertRec
    BY <1>t, <1>7, <2>2
  <2>4. /\ cooldowns' \in [Devices -> 0 .. now'] /\ processed' \in [Keys -> 0 .. now']
        /\ cooldowns'[e.device] = now /\ processed'[k] = now
        /\ \A d \in Devices : cooldowns[d] <= cooldowns'[d]
        /\ \A x \in Keys : processed[x] <= processed'[x]
    BY <1>t, <1>1, <1>2, <1>7, <2>1
  <2>5. ASSUME NEW i \in DOMAIN alertLog
        PROVE  /\ alertLog[i].at \in 1 .. now /\ alertLog[i].start <= used["restarts"]
               /\ alertLog[i].start = used["restarts"] =>
                     /\ alertLog[i].at <= cooldowns[alertLog[i].device]
                     /\ alertLog[i].at <= processed[alertLog[i].key]
               /\ alertLog[i].device \in Devices /\ alertLog[i].key \in Keys
               /\ alertLog[i].at \in Nat
    BY Zenon, <1>t, <2>3, <2>5 DEF FlowInv, Remembered, AlertRec
  <2>6. ASSUME NEW i \in DOMAIN alertLog'
        PROVE  LET b == alertLog'[i] IN
               /\ b.at \in 1 .. now' /\ b.start <= used'["restarts"]
               /\ b.start = used'["restarts"] =>
                     b.at <= cooldowns'[b.device] /\ b.at <= processed'[b.key]
    <3>1. CASE i \in DOMAIN alertLog
      <4>1. /\ cooldowns[alertLog[i].device] \in Nat /\ cooldowns'[alertLog[i].device] \in Nat
            /\ processed[alertLog[i].key] \in Nat /\ processed'[alertLog[i].key] \in Nat
        BY <1>t, <1>2, <2>1, <2>4, <2>5, <3>1
      <4>2. /\ alertLog[i].at \in 1 .. now /\ alertLog[i].start <= used["restarts"]
            /\ alertLog[i].start = used["restarts"] =>
                  /\ alertLog[i].at <= cooldowns[alertLog[i].device]
                  /\ alertLog[i].at <= processed[alertLog[i].key]
            /\ cooldowns[alertLog[i].device] <= cooldowns'[alertLog[i].device]
            /\ processed[alertLog[i].key] <= processed'[alertLog[i].key]
            /\ alertLog[i].at \in Nat
        BY Zenon, <2>4, <2>5, <3>1
      <4>3. alertLog[i].start = used["restarts"] =>
               /\ alertLog[i].at <= cooldowns'[alertLog[i].device]
               /\ alertLog[i].at <= processed'[alertLog[i].key]
        BY <4>1, <4>2
      <4> QED
        BY Zenon, <1>2, <1>4, <2>3, <3>1, <4>2, <4>3
    <3>2. CASE i = Len(alertLog) + 1
      BY <1>2, <1>3, <1>4, <2>1, <2>2, <2>3, <2>4, <3>2
    <3> QED
      BY <2>3, <2>6, <3>1, <3>2
  <2>7. AlertsSpaced'
    <3> SUFFICES ASSUME NEW i \in DOMAIN alertLog', NEW j \in DOMAIN alertLog', i < j,
                        alertLog'[i].start = alertLog'[j].start
                 PROVE  /\ alertLog'[i].device = alertLog'[j].device =>
                              alertLog'[j].at - alertLog'[i].at >= Cooldown
                        /\ alertLog'[i].key = alertLog'[j].key =>
                              alertLog'[j].at - alertLog'[i].at >= ProcessedTtl
      BY DEF AlertsSpaced
    <3>1. i \in DOMAIN alertLog /\ alertLog'[i] = alertLog[i]
      BY <2>3
    <3>2. CASE j \in DOMAIN alertLog
      BY <2>3, <3>1, <3>2 DEF FlowInv, AlertsSpaced
    <3>3. CASE j = Len(alertLog) + 1
      <4>1. alertLog'[j] = a /\ alertLog[i].start = used["restarts"]
        BY <2>2, <2>3, <3>1, <3>3
      <4>2. ASSUME alertLog[i].device = e.device PROVE now - alertLog[i].at >= Cooldown
        BY <2>1, <2>5, <3>1, <4>1, <4>2, WindowsAssumption
      <4>3. ASSUME alertLog[i].key = k PROVE now - alertLog[i].at >= ProcessedTtl
        BY <2>1, <2>5, <3>1, <4>1, <4>3, WindowsAssumption
      <4> QED
        BY <2>2, <3>1, <4>1, <4>2, <4>3
    <3> QED
      BY <2>3, <3>2, <3>3
  <2>8. Remembered' /\ Evaluated'
    BY Zenon, <1>2, <2>6 DEF Remembered, Evaluated
  <2>9. FlowTypes'
    BY Zenon, <1>t, <1>4, <1>5, <2>3, <2>4 DEF FlowTypes
  <2> QED
    BY Zenon, <2>7, <2>8, <2>9 DEF FlowInv
<1> QED
  BY Zenon, <1>2, <1>6, <1>7

\* FlowInv holds in every state.
THEOREM FlowTheorem == Spec => []FlowInv
<1>1. Init => FlowInv
  <2> SUFFICES ASSUME Init PROVE FlowInv
    OBVIOUS
  <2>1. /\ pos = 0 /\ committed = 0 /\ evaluating = FALSE /\ now = 1 /\ alertLog = <<>>
        /\ cooldowns = [d \in Devices |-> 0] /\ processed = [k \in Keys |-> 0]
        /\ budget \in Budgets /\ used = [b \in Bounds |-> 0]
    BY DEF Init
  <2>2. alertLog \in Seq(AlertRec) /\ DOMAIN alertLog = {}
    BY <2>1
  <2>3. AlertsSpaced
    BY <2>2 DEF AlertsSpaced
  <2>4. Len(Topic) \in Nat
    BY SettingsAssumption
  <2>5. FlowTypes
    <3>1. now \in Nat \ {0} /\ pos \in Nat /\ pos <= Len(Topic) /\ committed \in 0 .. pos
      BY <2>1, <2>4
    <3>2. 0 \in Nat /\ 0 \in 0 .. now
      BY <2>1
    <3>3. /\ used \in [Bounds -> Nat] /\ cooldowns \in [Devices -> 0 .. now]
          /\ processed \in [Keys -> 0 .. now]
      BY Zenon, <2>1, <3>2
    <3> QED
      BY Zenon, <2>1, <2>2, <3>1, <3>3 DEF FlowTypes
  <2>6. Remembered /\ Evaluated
    BY Zenon, <2>1, <2>2 DEF Remembered, Evaluated
  <2> QED
    BY Zenon, <2>3, <2>5, <2>6 DEF FlowInv
<1>2. FlowInv /\ [Next]_vars => FlowInv'
  <2> SUFFICES ASSUME FlowInv, [Next]_vars PROVE FlowInv'
    OBVIOUS
  <2>1. used \in [Bounds -> Nat]
    BY Zenon DEF FlowInv, FlowTypes
  <2>2. CASE UNCHANGED vars
    <3>1. UNCHANGED flowVars /\ UNCHANGED used /\ budget' = budget
      BY Zenon, <2>2 DEF vars
    <3> QED
      BY Zenon, <2>1, <3>1, SpendAside, AsideFlow
  <2>3. CASE Next
    BY Zenon, <2>1, <2>3, EachMessageFlow, PublishAlertFlow, RestartFlow, TickFlow,
       OthersAside, AsideFlow DEF Next, Step, WorkflowStep
  <2> QED
    BY Zenon, <2>2, <2>3
<1> QED
  BY <1>1, <1>2, PTL DEF Spec

\* Within one run of workflow-alerts the alerts of a device keep the cool-down and
\* those of an event the longer time processedEvents has it, although both maps are
\* read before an await and written after it.
THEOREM AlertsSpacedTheorem == Spec => []AlertsSpaced
<1>1. FlowInv => AlertsSpaced
  BY Zenon DEF FlowInv
<1> QED
  BY <1>1, FlowTheorem, PTL

-----------------------------------------------------------------------------
(* The broker's queues. *)

Ready(Q) == Range1(Q.ready)
Held(Q) == Range1(Q.held)
Buried(Q) == Range1(Q.dead)
All(Q) == Ready(Q) \cup Held(Q) \cup Buried(Q)
JobsIn(Q) == {m.job : m \in All(Q)}

\* A queue of messages of Ms.
QueueOf(Q, Ms) ==
    /\ DOMAIN Q = {"ready", "held", "dead"}
    /\ Q.ready \in Seq(Ms) /\ Q.held \in Seq(Ms) /\ Len(Q.held) <= 1
    /\ Q.dead \in Seq(Ms)

\* What is in a sequence after Append, Tail and \o.
LEMMA AppendRange ==
    ASSUME NEW Ms, NEW s \in Seq(Ms), NEW m \in Ms
    PROVE  Append(s, m) \in Seq(Ms) /\ Range1(Append(s, m)) = Range1(s) \cup {m}
<1>1. /\ Len(s) \in Nat /\ DOMAIN s = 1 .. Len(s) /\ Append(s, m) \in Seq(Ms)
      /\ DOMAIN Append(s, m) = DOMAIN s \cup {Len(s) + 1} /\ Append(s, m)[Len(s) + 1] = m
      /\ \A i \in DOMAIN s : Append(s, m)[i] = s[i]
  OBVIOUS
<1> QED
  BY Zenon, <1>1 DEF Range1

\* The head and the rest.
LEMMA TailRange ==
    ASSUME NEW Ms, NEW s \in Seq(Ms), s # <<>>
    PROVE  Tail(s) \in Seq(Ms) /\ Head(s) \in Ms /\ Range1(s) = Range1(Tail(s)) \cup {Head(s)}
<1>1. Len(s) \in Nat \ {0} /\ DOMAIN s = 1 .. Len(s) /\ Head(s) = s[1] /\ Head(s) \in Ms
  OBVIOUS
<1>2. /\ Tail(s) \in Seq(Ms) /\ DOMAIN Tail(s) = 1 .. Len(s) - 1
      /\ \A i \in 1 .. Len(s) - 1 : Tail(s)[i] = s[i + 1]
  BY <1>1
<1>3. Range1(s) \subseteq Range1(Tail(s)) \cup {Head(s)}
  <2> SUFFICES ASSUME NEW i \in 1 .. Len(s), i # 1 PROVE s[i] \in Range1(Tail(s))
    BY <1>1 DEF Range1
  <2>1. i - 1 \in 1 .. Len(s) - 1 /\ (i - 1) + 1 = i
    BY <1>1
  <2>2. Tail(s)[i - 1] = s[i]
    BY <1>2, <2>1
  <2> QED
    BY Zenon, <1>2, <2>1, <2>2 DEF Range1
<1>4. Range1(Tail(s)) \subseteq Range1(s) /\ Head(s) \in Range1(s)
  BY <1>1, <1>2 DEF Range1
<1> QED
  BY Zenon, <1>1, <1>2, <1>3, <1>4

\* Two sequences in a row.
LEMMA ConcatRange ==
    ASSUME NEW Ms, NEW s \in Seq(Ms), NEW t \in Seq(Ms)
    PROVE  t \o s \in Seq(Ms) /\ Range1(t \o s) = Range1(t) \cup Range1(s)
<1>1. /\ Len(s) \in Nat /\ DOMAIN s = 1 .. Len(s) /\ Len(t) \in Nat /\ DOMAIN t = 1 .. Len(t)
      /\ t \o s \in Seq(Ms) /\ DOMAIN (t \o s) = 1 .. Len(t) + Len(s)
      /\ \A i \in 1 .. Len(t) : (t \o s)[i] = t[i]
      /\ \A i \in 1 .. Len(t) + Len(s) : i > Len(t) => (t \o s)[i] = s[i - Len(t)]
  OBVIOUS
<1>2. ASSUME NEW i \in DOMAIN s
      PROVE  (t \o s)[Len(t) + i] = s[i] /\ Len(t) + i \in DOMAIN (t \o s)
  <2>1. Len(t) + i \in 1 .. Len(t) + Len(s) /\ Len(t) + i > Len(t) /\ (Len(t) + i) - Len(t) = i
    BY <1>1
  <2> QED
    BY Zenon, <1>1, <2>1
<1>3. ASSUME NEW i \in DOMAIN t PROVE (t \o s)[i] = t[i] /\ i \in DOMAIN (t \o s)
  BY <1>1
<1>4. Range1(t) \cup Range1(s) \subseteq Range1(t \o s)
  BY Zenon, <1>2, <1>3 DEF Range1
<1>5. ASSUME NEW i \in DOMAIN (t \o s) PROVE (t \o s)[i] \in Range1(t) \cup Range1(s)
  <2>1. CASE i <= Len(t)
    BY <1>1, <1>5, <2>1 DEF Range1
  <2>2. CASE i > Len(t)
    <3>1. (t \o s)[i] = s[i - Len(t)] /\ i - Len(t) \in DOMAIN s
      BY <1>1, <1>5, <2>2
    <3> QED
      BY <3>1 DEF Range1
  <2> QED
    BY <1>1, <1>5, <2>1, <2>2
<1>6. Range1(t \o s) \subseteq Range1(t) \cup Range1(s)
  BY Zenon, <1>5 DEF Range1
<1> QED
  BY Zenon, <1>1, <1>4, <1>6

\* A message of its own in the one place of a channel that prefetches one.
LEMMA OneHeld ==
    ASSUME NEW m
    PROVE  /\ Range1(<<m>>) = {m} /\ Range1(<<>>) = {} /\ <<m>>[1] = m
           /\ \A Ms : m \in Ms => <<m>> \in Seq(Ms) /\ Len(<<m>>) <= 1
           /\ \A Ms : <<>> \in Seq(Ms) /\ Len(<<>>) <= 1
<1>1. \A Ms : m \in Ms => <<m>> \in Seq(Ms) /\ Len(<<m>>) <= 1
  OBVIOUS
<1>2. \A Ms : <<>> \in Seq(Ms) /\ Len(<<>>) <= 1
  OBVIOUS
<1>3. Range1(<<m>>) = {m} /\ Range1(<<>>) = {} /\ <<m>>[1] = m
  BY DEF Range1
<1> QED
  BY Zenon, <1>1, <1>2, <1>3

\* What each operation of the channel does to a queue: a message at its end, ...
LEMMA SendIs ==
    ASSUME NEW Ms, NEW Q, QueueOf(Q, Ms), NEW m \in Ms
    PROVE  LET R == SendToQueue(Q, m) IN
           /\ QueueOf(R, Ms) /\ Ready(R) = Ready(Q) \cup {m} /\ R.held = Q.held
           /\ Buried(R) = Buried(Q)
<1> DEFINE R == SendToQueue(Q, m)
<1>0. /\ DOMAIN Q = {"ready", "held", "dead"} /\ Q.ready \in Seq(Ms) /\ Q.held \in Seq(Ms)
      /\ Len(Q.held) <= 1 /\ Q.dead \in Seq(Ms)
  BY Zenon DEF QueueOf
<1>1. /\ DOMAIN R = {"ready", "held", "dead"} /\ R.ready = Append(Q.ready, m)
      /\ R.held = Q.held /\ R.dead = Q.dead
  BY <1>0 DEF SendToQueue
<1> HIDE DEF R
<1>2. R.ready \in Seq(Ms) /\ Range1(R.ready) = Range1(Q.ready) \cup {m}
  <2>1. Append(Q.ready, m) \in Seq(Ms) /\ Range1(Append(Q.ready, m)) = Range1(Q.ready) \cup {m}
    BY <1>0, AppendRange
  <2> QED
    BY Zenon, <1>1, <2>1
<1>3. QueueOf(R, Ms) /\ Ready(R) = Ready(Q) \cup {m} /\ R.held = Q.held /\ Buried(R) = Buried(Q)
  BY Zenon, <1>0, <1>1, <1>2 DEF QueueOf, Ready, Buried
<1> QED
  BY Zenon, <1>3 DEF R

\* The next message goes to the handler.
LEMMA DeliverIs ==
    ASSUME NEW Ms, NEW Q, QueueOf(Q, Ms), Q.ready # <<>>
    PROVE  LET R == Deliver(Q)
               m == Head(Q.ready)
           IN
           /\ QueueOf(R, Ms) /\ m \in Ms /\ Ready(Q) = Ready(R) \cup {m} /\ R.held = <<m>>
           /\ Buried(R) = Buried(Q)
<1> DEFINE R == Deliver(Q)
           m == Head(Q.ready)
<1>0. /\ DOMAIN Q = {"ready", "held", "dead"} /\ Q.ready \in Seq(Ms) /\ Q.held \in Seq(Ms)
      /\ Len(Q.held) <= 1 /\ Q.dead \in Seq(Ms)
  BY Zenon DEF QueueOf
<1>1. /\ DOMAIN R = {"ready", "held", "dead"} /\ R.ready = Tail(Q.ready)
      /\ R.held = <<m>> /\ R.dead = Q.dead
  BY <1>0 DEF Deliver
<1>2. Tail(Q.ready) \in Seq(Ms) /\ m \in Ms /\ Range1(Q.ready) = Range1(Tail(Q.ready)) \cup {m}
  BY Zenon, <1>0, TailRange
<1> HIDE DEF R, m
<1>h. <<m>> \in Seq(Ms) /\ Len(<<m>>) <= 1
  BY Zenon, <1>2, OneHeld
<1>3. /\ QueueOf(R, Ms) /\ m \in Ms /\ Ready(Q) = Ready(R) \cup {m} /\ R.held = <<m>>
      /\ Buried(R) = Buried(Q)
  BY Zenon, <1>0, <1>1, <1>2, <1>h DEF QueueOf, Ready, Buried
<1> QED
  BY Zenon, <1>3 DEF R, m

\* It is done with,
LEMMA AckIs ==
    ASSUME NEW Ms, NEW Q, QueueOf(Q, Ms)
    PROVE  LET R == Ack(Q) IN
           /\ QueueOf(R, Ms) /\ Ready(R) = Ready(Q) /\ R.held = <<>> /\ Buried(R) = Buried(Q)
<1> DEFINE R == Ack(Q)
<1>0. /\ DOMAIN Q = {"ready", "held", "dead"} /\ Q.ready \in Seq(Ms) /\ Q.held \in Seq(Ms)
      /\ Len(Q.held) <= 1 /\ Q.dead \in Seq(Ms)
  BY Zenon DEF QueueOf
<1>1. /\ DOMAIN R = {"ready", "held", "dead"} /\ R.ready = Q.ready
      /\ R.held = <<>> /\ R.dead = Q.dead
  BY <1>0 DEF Ack
<1> HIDE DEF R
<1>2. QueueOf(R, Ms) /\ Ready(R) = Ready(Q) /\ R.held = <<>> /\ Buried(R) = Buried(Q)
  BY Zenon, <1>0, <1>1, OneHeld DEF QueueOf, Ready, Buried
<1> QED
  BY Zenon, <1>2 DEF R

\* or is dead-lettered,
LEMMA NackIs ==
    ASSUME NEW Ms, NEW Q, QueueOf(Q, Ms), NEW m \in Ms, Q.held = <<m>>
    PROVE  LET R == Nack(Q) IN
           /\ QueueOf(R, Ms) /\ Ready(R) = Ready(Q) /\ R.held = <<>>
           /\ Buried(R) = Buried(Q) \cup {m}
<1> DEFINE R == Nack(Q)
<1>0. /\ DOMAIN Q = {"ready", "held", "dead"} /\ Q.ready \in Seq(Ms) /\ Q.held \in Seq(Ms)
      /\ Len(Q.held) <= 1 /\ Q.dead \in Seq(Ms)
  BY Zenon DEF QueueOf
<1>1. /\ DOMAIN R = {"ready", "held", "dead"} /\ R.ready = Q.ready
      /\ R.held = <<>> /\ R.dead = Append(Q.dead, Q.held[1])
  BY <1>0 DEF Nack
<1> HIDE DEF R
<1>2. Q.held[1] = m
  BY Zenon, OneHeld
<1>3. R.dead \in Seq(Ms) /\ Range1(R.dead) = Range1(Q.dead) \cup {m}
  <2>1. /\ Append(Q.dead, m) \in Seq(Ms)
        /\ Range1(Append(Q.dead, m)) = Range1(Q.dead) \cup {m}
    BY <1>0, AppendRange
  <2> QED
    BY Zenon, <1>1, <1>2, <2>1
<1>4. /\ QueueOf(R, Ms) /\ Ready(R) = Ready(Q) /\ R.held = <<>>
      /\ Buried(R) = Buried(Q) \cup {m}
  BY Zenon, <1>0, <1>1, <1>3, OneHeld DEF QueueOf, Ready, Buried
<1> QED
  BY Zenon, <1>4 DEF R

\* or comes back because the channel closed.
LEMMA RequeueIs ==
    ASSUME NEW Ms, NEW Q, QueueOf(Q, Ms)
    PROVE  LET R == Requeue(Q) IN
           /\ QueueOf(R, Ms) /\ Ready(R) = Ready(Q) \cup Held(Q) /\ R.held = <<>>
           /\ Buried(R) = Buried(Q)
<1> DEFINE R == Requeue(Q)
<1>0. /\ DOMAIN Q = {"ready", "held", "dead"} /\ Q.ready \in Seq(Ms) /\ Q.held \in Seq(Ms)
      /\ Len(Q.held) <= 1 /\ Q.dead \in Seq(Ms)
  BY Zenon DEF QueueOf
<1>1. /\ DOMAIN R = {"ready", "held", "dead"} /\ R.ready = Q.held \o Q.ready
      /\ R.held = <<>> /\ R.dead = Q.dead
  BY <1>0 DEF Requeue
<1> HIDE DEF R
<1>2. R.ready \in Seq(Ms) /\ Range1(R.ready) = Range1(Q.held) \cup Range1(Q.ready)
  <2>1. /\ Q.held \o Q.ready \in Seq(Ms)
        /\ Range1(Q.held \o Q.ready) = Range1(Q.held) \cup Range1(Q.ready)
    BY Zenon, <1>0, ConcatRange
  <2> QED
    BY Zenon, <1>1, <2>1
<1>3. /\ QueueOf(R, Ms) /\ Ready(R) = Ready(Q) \cup Held(Q) /\ R.held = <<>>
      /\ Buried(R) = Buried(Q)
  BY Zenon, <1>0, <1>1, <1>2, OneHeld DEF QueueOf, Ready, Held, Buried
<1> QED
  BY Zenon, <1>3 DEF R

\* A message that waited too long.
LEMMA ExpireIs ==
    ASSUME NEW Ms, NEW Q, QueueOf(Q, Ms), Q.ready # <<>>
    PROVE  LET R == Expire(Q)
               m == Head(Q.ready)
           IN
           /\ QueueOf(R, Ms) /\ Ready(Q) = Ready(R) \cup {m} /\ R.held = Q.held
           /\ Buried(R) = Buried(Q) \cup {m}
<1> DEFINE R == Expire(Q)
           m == Head(Q.ready)
<1>0. /\ DOMAIN Q = {"ready", "held", "dead"} /\ Q.ready \in Seq(Ms) /\ Q.held \in Seq(Ms)
      /\ Len(Q.held) <= 1 /\ Q.dead \in Seq(Ms)
  BY Zenon DEF QueueOf
<1>1. /\ DOMAIN R = {"ready", "held", "dead"} /\ R.ready = Tail(Q.ready)
      /\ R.held = Q.held /\ R.dead = Append(Q.dead, m)
  BY <1>0 DEF Expire
<1>2. Tail(Q.ready) \in Seq(Ms) /\ m \in Ms /\ Range1(Q.ready) = Range1(Tail(Q.ready)) \cup {m}
  BY Zenon, <1>0, TailRange
<1> HIDE DEF R, m
<1>3. R.dead \in Seq(Ms) /\ Range1(R.dead) = Range1(Q.dead) \cup {m}
  <2>1. /\ Append(Q.dead, m) \in Seq(Ms)
        /\ Range1(Append(Q.dead, m)) = Range1(Q.dead) \cup {m}
    BY <1>0, <1>2, AppendRange
  <2> QED
    BY Zenon, <1>1, <2>1
<1>4. /\ QueueOf(R, Ms) /\ Ready(Q) = Ready(R) \cup {m} /\ R.held = Q.held
      /\ Buried(R) = Buried(Q) \cup {m}
  BY Zenon, <1>0, <1>1, <1>2, <1>3 DEF QueueOf, Ready, Buried
<1> QED
  BY Zenon, <1>4 DEF R, m

-----------------------------------------------------------------------------
(* Jobs and the handlers that hold them. *)

\* The first component of a job tells its queue.
Tag == [alerts |-> "alert", emails |-> "email", webhooks |-> "webhook",
        exports |-> "export"]

\* The queues and their jobs, one by one.
LEMMA QueuesAre ==
    /\ QUEUES = {"alerts", "emails", "webhooks", "exports"}
    /\ Jobs["alerts"] = {AlertJob(k) : k \in Keys}
    /\ Jobs["emails"] = {EmailJob(k, r) : k \in Keys \cup DigestKeys, r \in Range1(Recipients)}
    /\ Jobs["webhooks"] = {WebhookJob(k, ep) : k \in Keys, ep \in Endpoints}
    /\ Jobs["exports"] = {j[2] : j \in {p \in Produced : p[1] = "exports"}}
BY DEF QUEUES, Jobs

\* The jobs of the four queues, and what their components are.
LEMMA JobsAre ==
    /\ \A k \in Keys : AlertJob(k) \in Jobs["alerts"] /\ AlertJob(k)[2] = k
    /\ \A k \in Keys \cup DigestKeys, r \in Range1(Recipients) : EmailJob(k, r) \in Jobs["emails"]
    /\ \A k \in Keys, ep \in Endpoints : /\ WebhookJob(k, ep) \in Jobs["webhooks"]
                                         /\ WebhookJob(k, ep)[3] = ep
    /\ \A j \in Jobs["alerts"] : j[2] \in Keys
    /\ \A j \in Jobs["webhooks"] : j[3] \in Endpoints
    /\ \A p \in QUEUES : Jobs[p] \subseteq AllJobs
    /\ Malformed \in AllJobs
<1>1. \A k \in Keys : AlertJob(k) \in Jobs["alerts"] /\ AlertJob(k)[2] = k
  BY QueuesAre DEF AlertJob
<1>2. \A k \in Keys \cup DigestKeys, r \in Range1(Recipients) : EmailJob(k, r) \in Jobs["emails"]
  BY QueuesAre
<1>3. \A k \in Keys, ep \in Endpoints : /\ WebhookJob(k, ep) \in Jobs["webhooks"]
                                        /\ WebhookJob(k, ep)[3] = ep
  <2>1. \A k, ep : WebhookJob(k, ep)[3] = ep
    BY DEF WebhookJob
  <2> QED
    BY <2>1, QueuesAre
<1>4. \A j \in Jobs["alerts"] : j[2] \in Keys
  BY Zenon, <1>1, QueuesAre
<1>5. ASSUME NEW j \in Jobs["webhooks"] PROVE j[3] \in Endpoints
  <2>1. PICK k \in Keys, ep \in Endpoints : j = WebhookJob(k, ep)
    BY QueuesAre
  <2> QED
    BY <2>1 DEF WebhookJob
<1>6. ASSUME NEW p \in QUEUES PROVE Jobs[p] \subseteq AllJobs
  <2>1. Jobs[p] \in {Jobs[q] : q \in QUEUES}
    BY Zenon
  <2> QED
    BY Zenon, <2>1 DEF AllJobs
<1>7. Malformed \in AllJobs
  BY DEF AllJobs
<1> QED
  BY Zenon, <1>1, <1>2, <1>3, <1>4, <1>5, <1>6, <1>7

\* A job other than the unreadable one is of one queue, and none is empty.
LEMMA JobTags ==
    ASSUME NEW q \in QUEUES, NEW j \in Jobs[q]
    PROVE  /\ j # Malformed => j[1] = Tag[q]
           /\ j # <<>>
<1>1. CASE q = "alerts"
  <2>1. PICK k \in Keys : j = AlertJob(k)
    BY Zenon, <1>1, QueuesAre
  <2> QED
    BY <1>1, <2>1 DEF AlertJob, Tag
<1>2. CASE q = "emails"
  <2>1. PICK k, r : j = EmailJob(k, r)
    BY <1>2, QueuesAre
  <2> QED
    BY <1>2, <2>1 DEF EmailJob, Tag
<1>3. CASE q = "webhooks"
  <2>1. PICK k, ep : j = WebhookJob(k, ep)
    BY <1>3, QueuesAre
  <2> QED
    BY <1>3, <2>1 DEF WebhookJob, Tag
<1>4. CASE q = "exports"
  <2>1. PICK p \in Produced : p[1] = "exports" /\ j = p[2]
    BY Zenon, <1>4, QueuesAre
  <2>2. j = Malformed \/ (DOMAIN j = 1 .. 2 /\ j[1] = "export")
    BY Zenon, <2>1, JobsAssumption
  <2> QED
    BY <1>4, <2>2 DEF Malformed, Tag
<1> QED
  BY Zenon, <1>1, <1>2, <1>3, <1>4, QueuesAre

\* A job of another queue is no alert.
LEMMA NotAlert ==
    ASSUME NEW q \in QUEUES \ {"alerts"}, NEW j \in Jobs[q], j # Malformed
    PROVE  j \notin Jobs["alerts"]
<1>1. "alerts" \in QUEUES /\ Tag[q] # Tag["alerts"]
  BY QueuesAre DEF Tag
<1>2. Malformed \notin Jobs["alerts"]
  <2>1. \A k : AlertJob(k) # Malformed
    BY DEF AlertJob, Malformed
  <2> QED
    BY Zenon, <2>1, QueuesAre
<1> QED
  BY Zenon, <1>1, <1>2, JobTags

Retries(q) == 0 .. MaxRetries[q] - 1
Msgs(q) == [job : Jobs[q] \cup {Malformed}, retry : Retries(q)]
Work(q) == [job : Jobs[q], retry : Retries(q)]

LabelsOf == [alerts |-> {"idle", "emails", "ack"},
             emails |-> {"idle", "send", "requeue", "ack", "nack"},
             webhooks |-> {"idle", "deliver", "statusOk", "statusFail", "wait", "ack",
                           "nack"},
             exports |-> {"idle", "post", "wait", "ack", "nack"}]

\* While the channel is open the broker holds for a handler the message it is at
\* work on; once it is closed, none.
WorkInv(q) ==
    /\ pc[q] \in LabelsOf[q]
    /\ IF pc[q] = "idle" THEN msg[q] = NoMsg ELSE msg[q] \in Work(q) /\ msg[q].job # Malformed
    /\ queues[q].held = IF pc[q] = "idle" \/ chan = "closed" THEN <<>> ELSE <<msg[q]>>
    /\ pc[q] \in {"requeue", "wait"} => msg[q].retry + 1 \in Retries(q)

QueueInv ==
    /\ DOMAIN queues = QUEUES /\ DOMAIN pc = QUEUES /\ DOMAIN msg = QUEUES
    /\ chan \in {"open", "closed"}
    /\ \A q \in QUEUES : QueueOf(queues[q], Msgs(q)) /\ WorkInv(q)

DataInv ==
    /\ pc \in [QUEUES -> Labels]
    /\ prefs \in [Range1(Recipients) -> Row]
    /\ endpoints \in [Endpoints -> {"absent", "off", "on", "deleted"}]
    /\ lastError \subseteq Endpoints
    /\ accepted \subseteq AllJobs
    /\ sent \in [AllJobs -> Nat]

\* What a step of one queue leaves alone.
Local(q) ==
    /\ DOMAIN queues' = QUEUES /\ DOMAIN pc' = QUEUES /\ DOMAIN msg' = QUEUES /\ chan' = chan
    /\ \A p \in QUEUES \ {q} : queues'[p] = queues[p] /\ pc'[p] = pc[p] /\ msg'[p] = msg[p]

\* It is enough to see that queue.
LEMMA LocalInv ==
    ASSUME QueueInv, NEW q \in QUEUES, Local(q), QueueOf(queues'[q], Msgs(q)), WorkInv(q)'
    PROVE  QueueInv'
BY Zenon DEF QueueInv, Local, WorkInv

\* A message for any queue changes no handler.
LEMMA SendInv ==
    ASSUME QueueInv, NEW q \in QUEUES, NEW R, QueueOf(R, Msgs(q)), R.held = queues[q].held,
           queues' = [queues EXCEPT ![q] = R], UNCHANGED <<pc, msg, chan>>
    PROVE  QueueInv' /\ Local(q) /\ queues'[q] = R
<1>1. /\ DOMAIN queues' = QUEUES /\ queues'[q] = R
      /\ \A p \in QUEUES \ {q} : queues'[p] = queues[p]
  BY Zenon DEF QueueInv
<1>2. Local(q)
  BY Zenon, <1>1 DEF QueueInv, Local
<1>3. WorkInv(q)'
  BY Zenon, <1>1 DEF QueueInv, WorkInv
<1> QED
  BY Zenon, <1>1, <1>2, <1>3, LocalInv

\* A handler at work on an open channel.
LEMMA HandlerIs ==
    ASSUME QueueInv, NEW q \in QUEUES, pc[q] # "idle"
    PROVE  /\ msg[q] \in Work(q) /\ msg[q] \in Msgs(q) /\ msg[q].job \in Jobs[q]
           /\ msg[q].job # Malformed /\ msg[q].retry \in Retries(q)
           /\ QueueOf(queues[q], Msgs(q)) /\ pc[q] \in LabelsOf[q]
           /\ chan = "open" => queues[q].held = <<msg[q]>> /\ Held(queues[q]) = {msg[q]}
<1>1. /\ msg[q] \in Work(q) /\ msg[q].job # Malformed /\ QueueOf(queues[q], Msgs(q))
      /\ pc[q] \in LabelsOf[q] /\ (chan = "open" => queues[q].held = <<msg[q]>>)
  BY Zenon DEF QueueInv, WorkInv
<1>2. msg[q] \in Msgs(q) /\ msg[q].job \in Jobs[q] /\ msg[q].retry \in Retries(q)
  BY <1>1 DEF Work, Msgs
<1> QED
  BY Zenon, <1>1, <1>2, OneHeld DEF Held

\* Goto, of a handler that goes on.
LEMMA GotoInv ==
    ASSUME QueueInv, NEW q \in QUEUES, pc[q] # "idle", NEW l \in LabelsOf[q] \ {"idle"},
           Goto(q, l), UNCHANGED <<queues, chan>>,
           l \in {"requeue", "wait"} => msg[q].retry + 1 \in Retries(q)
    PROVE  QueueInv' /\ Local(q) /\ pc'[q] = l /\ UNCHANGED <<msg, queues>>
<1>1. msg' = msg /\ pc' = [pc EXCEPT ![q] = l]
  BY Zenon DEF Goto
<1>2. /\ pc'[q] = l /\ DOMAIN pc' = QUEUES /\ \A p \in QUEUES \ {q} : pc'[p] = pc[p]
  BY Zenon, <1>1 DEF QueueInv
<1>3. Local(q)
  BY Zenon, <1>1, <1>2 DEF QueueInv, Local
<1>4. WorkInv(q)'
  <2>1. /\ msg[q] \in Work(q) /\ msg[q].job # Malformed
        /\ queues[q].held = IF chan = "closed" THEN <<>> ELSE <<msg[q]>>
    BY DEF QueueInv, WorkInv
  <2> QED
    BY Zenon, <1>1, <1>2, <2>1 DEF WorkInv
<1> QED
  BY Zenon, <1>1, <1>2, <1>3, <1>4, LocalInv DEF QueueInv

\* A call on the channel: the queue gets another value, and the handler is done or
\* keeps its message.
LEMMA OnChannelInv ==
    ASSUME QueueInv, NEW q \in QUEUES, NEW from, from # "idle", NEW R,
           NEW to \in LabelsOf[q] \ {"requeue", "wait"},
           OnChannel(q, from, R, to), QueueOf(R, Msgs(q)),
           R.held = IF to = "idle" THEN <<>> ELSE queues[q].held
    PROVE  /\ QueueInv' /\ Local(q) /\ queues'[q] = R /\ pc[q] = from /\ pc'[q] = to
           /\ chan = "open" /\ to # "idle" => msg'[q] = msg[q]
<1>1. /\ pc[q] = from /\ chan = "open" /\ chan' = chan /\ Goto(q, to)
      /\ queues' = [queues EXCEPT ![q] = R]
  BY Zenon DEF OnChannel
<1>2. /\ pc' = [pc EXCEPT ![q] = to]
      /\ msg' = IF to = "idle" THEN [msg EXCEPT ![q] = NoMsg] ELSE msg
  BY Zenon, <1>1 DEF Goto
<1>3. /\ DOMAIN queues = QUEUES /\ DOMAIN pc = QUEUES /\ DOMAIN msg = QUEUES
  BY Zenon DEF QueueInv
<1>4. /\ DOMAIN queues' = QUEUES /\ DOMAIN pc' = QUEUES /\ DOMAIN msg' = QUEUES
      /\ queues'[q] = R /\ pc'[q] = to /\ msg'[q] = IF to = "idle" THEN NoMsg ELSE msg[q]
      /\ \A p \in QUEUES \ {q} : queues'[p] = queues[p] /\ pc'[p] = pc[p] /\ msg'[p] = msg[p]
  BY <1>1, <1>2, <1>3
<1>5. Local(q)
  BY Zenon, <1>1, <1>4 DEF Local
<1>6. WorkInv(q)'
  <2>1. /\ msg[q] \in Work(q) /\ msg[q].job # Malformed /\ queues[q].held = <<msg[q]>>
    BY Zenon, <1>1, HandlerIs
  <2>2. CASE to = "idle"
    BY Zenon, <1>4, <2>2 DEF WorkInv
  <2>3. CASE to # "idle"
    BY Zenon, <1>1, <1>4, <2>1, <2>3 DEF WorkInv
  <2> QED
    BY Zenon, <2>2, <2>3
<1> QED
  BY Zenon, <1>1, <1>4, <1>5, <1>6, LocalInv

\* The copy of a message that is to be tried again.
LEMMA CopyIs ==
    ASSUME QueueInv, NEW q \in QUEUES, pc[q] \in {"requeue", "wait"}
    PROVE  Copy(q) \in Msgs(q) /\ Copy(q).job = msg[q].job /\ Copy(q).retry = msg[q].retry + 1
<1>1. pc[q] # "idle" /\ msg[q].retry + 1 \in Retries(q)
  BY Zenon DEF QueueInv, WorkInv
<1>2. msg[q].job \in Jobs[q]
  BY Zenon, <1>1, HandlerIs
<1> QED
  BY <1>1, <1>2 DEF Copy, Msg, Msgs

\* The four ways a handler ends or repeats its job.
LEMMA AckJobIs ==
    ASSUME QueueInv, NEW q \in QUEUES, AckJob(q)
    PROVE  /\ QueueInv' /\ Local(q) /\ pc[q] = "ack" /\ pc'[q] = "idle" /\ chan = "open"
           /\ Ready(queues'[q]) = Ready(queues[q]) /\ Held(queues[q]) = {msg[q]}
           /\ Held(queues'[q]) = {} /\ Buried(queues'[q]) = Buried(queues[q])
<1>1. pc[q] = "ack" /\ pc[q] # "idle" /\ chan = "open" /\ "ack" # "idle"
  <2>1. pc[q] = "ack" /\ chan = "open"
    BY Zenon DEF AckJob, OnChannel
  <2> QED
    BY <2>1
<1>2. QueueOf(queues[q], Msgs(q)) /\ Held(queues[q]) = {msg[q]} /\ pc[q] \in LabelsOf[q]
  BY Zenon, <1>1, HandlerIs
<1> DEFINE R == Ack(queues[q])
<1>3. /\ QueueOf(R, Msgs(q)) /\ Ready(R) = Ready(queues[q]) /\ R.held = <<>>
      /\ Buried(R) = Buried(queues[q])
  BY Zenon, <1>2, AckIs
<1>4. OnChannel(q, "ack", R, "idle")
  BY Zenon DEF AckJob
<1> HIDE DEF R
<1>5. "idle" \in LabelsOf[q] \ {"requeue", "wait"}
  BY QueuesAre DEF LabelsOf
<1>6. QueueInv' /\ Local(q) /\ queues'[q] = R /\ pc'[q] = "idle"
  BY <1>1, <1>3, <1>4, <1>5, OnChannelInv
<1> QED
  BY Zenon, <1>1, <1>2, <1>3, <1>6, OneHeld DEF Held

\* A nack buries the held message.
LEMMA NackJobIs ==
    ASSUME QueueInv, NEW q \in QUEUES, NackJob(q)
    PROVE  /\ QueueInv' /\ Local(q) /\ pc[q] = "nack" /\ pc'[q] = "idle" /\ chan = "open"
           /\ Ready(queues'[q]) = Ready(queues[q]) /\ Held(queues[q]) = {msg[q]}
           /\ Held(queues'[q]) = {} /\ Buried(queues'[q]) = Buried(queues[q]) \cup {msg[q]}
<1>1. pc[q] = "nack" /\ pc[q] # "idle" /\ chan = "open" /\ "nack" # "idle"
  <2>1. pc[q] = "nack" /\ chan = "open"
    BY Zenon DEF NackJob, OnChannel
  <2> QED
    BY <2>1
<1>2. /\ QueueOf(queues[q], Msgs(q)) /\ Held(queues[q]) = {msg[q]}
      /\ queues[q].held = <<msg[q]>> /\ msg[q] \in Msgs(q)
  BY Zenon, <1>1, HandlerIs
<1> DEFINE R == Nack(queues[q])
<1>3. /\ QueueOf(R, Msgs(q)) /\ Ready(R) = Ready(queues[q]) /\ R.held = <<>>
      /\ Buried(R) = Buried(queues[q]) \cup {msg[q]}
  BY <1>2, NackIs
<1>4. OnChannel(q, "nack", R, "idle")
  BY Zenon DEF NackJob
<1> HIDE DEF R
<1>5. "idle" \in LabelsOf[q] \ {"requeue", "wait"}
  BY QueuesAre DEF LabelsOf
<1>6. QueueInv' /\ Local(q) /\ queues'[q] = R /\ pc'[q] = "idle"
  BY <1>1, <1>3, <1>4, <1>5, OnChannelInv
<1> QED
  BY Zenon, <1>1, <1>2, <1>3, <1>6, OneHeld DEF Held

\* An email to be retried gets its copy queued before the original is acked.
LEMMA RequeueCopyIs ==
    ASSUME QueueInv, NEW q \in QUEUES, RequeueCopy(q)
    PROVE  /\ QueueInv' /\ Local(q) /\ q = "emails" /\ pc'[q] = "ack" /\ msg'[q] = msg[q]
           /\ Ready(queues'[q]) = Ready(queues[q]) \cup {Copy(q)} /\ Copy(q).job = msg[q].job
           /\ Held(queues'[q]) = Held(queues[q]) /\ Buried(queues'[q]) = Buried(queues[q])
<1>1. pc[q] = "requeue" /\ pc[q] # "idle" /\ chan = "open" /\ "requeue" # "idle"
  <2>1. pc[q] = "requeue" /\ chan = "open"
    BY Zenon DEF RequeueCopy, OnChannel
  <2> QED
    BY <2>1
<1>2. QueueOf(queues[q], Msgs(q)) /\ pc[q] \in LabelsOf[q]
  BY Zenon, <1>1, HandlerIs
<1>3. q = "emails"
  BY <1>1, <1>2, QueuesAre DEF LabelsOf
<1>4. Copy(q) \in Msgs(q) /\ Copy(q).job = msg[q].job
  BY Zenon, <1>1, CopyIs
<1> DEFINE R == SendToQueue(queues[q], Copy(q))
<1>5. /\ QueueOf(R, Msgs(q)) /\ Ready(R) = Ready(queues[q]) \cup {Copy(q)}
      /\ R.held = queues[q].held /\ Buried(R) = Buried(queues[q])
  <2>1. QueueOf(queues[q], Msgs(q))
    BY Zenon, <1>2
  <2>2. Copy(q) \in Msgs(q)
    BY Zenon, <1>4
  <2> QED
    BY ZenonT(30), <2>1, <2>2, SendIs
<1>6. OnChannel(q, "requeue", R, "ack")
  BY Zenon DEF RequeueCopy
<1> HIDE DEF R
<1>7. "ack" \in LabelsOf[q] \ {"requeue", "wait"} /\ "ack" # "idle"
  BY <1>3 DEF LabelsOf
<1>8. QueueInv' /\ Local(q) /\ queues'[q] = R /\ pc'[q] = "ack" /\ msg'[q] = msg[q]
  BY <1>1, <1>5, <1>6, <1>7, OnChannelInv
<1> QED
  BY Zenon, <1>3, <1>4, <1>5, <1>8 DEF Held

\* The broker takes back everything it delivered on a channel that closed.
LEMMA CloseIs ==
    ASSUME NEW qs, DOMAIN qs = QUEUES, \A p \in QUEUES : QueueOf(qs[p], Msgs(p)), Close(qs)
    PROVE  /\ chan' = "closed" /\ DOMAIN queues' = QUEUES
           /\ \A p \in QUEUES :
                 /\ QueueOf(queues'[p], Msgs(p)) /\ queues'[p].held = <<>>
                 /\ Ready(queues'[p]) = Ready(qs[p]) \cup Held(qs[p])
                 /\ Held(queues'[p]) = {} /\ Buried(queues'[p]) = Buried(qs[p])
<1>1. chan' = "closed" /\ queues' = [p \in QUEUES |-> Requeue(qs[p])]
  BY Zenon DEF Close
<1>2. DOMAIN queues' = QUEUES /\ \A p \in QUEUES : queues'[p] = Requeue(qs[p])
  BY Zenon, <1>1
<1>3. ASSUME NEW p \in QUEUES
      PROVE  /\ QueueOf(queues'[p], Msgs(p)) /\ queues'[p].held = <<>>
             /\ Ready(queues'[p]) = Ready(qs[p]) \cup Held(qs[p])
             /\ Held(queues'[p]) = {} /\ Buried(queues'[p]) = Buried(qs[p])
  <2>1. LET R == Requeue(qs[p]) IN
        /\ QueueOf(R, Msgs(p)) /\ Ready(R) = Ready(qs[p]) \cup Held(qs[p]) /\ R.held = <<>>
        /\ Buried(R) = Buried(qs[p])
    BY Zenon, RequeueIs
  <2>2. Held(queues'[p]) = Range1(<<>>)
    BY Zenon, <1>2, <2>1 DEF Held
  <2> QED
    BY Zenon, <1>2, <2>1, <2>2, OneHeld
<1> QED
  BY Zenon, <1>1, <1>2, <1>3

\* A handler's message does not depend on the channel, except that it is held.
LEMMA ClosedInv ==
    ASSUME QueueInv, chan' = "closed", DOMAIN queues' = QUEUES, DOMAIN pc' = QUEUES,
           DOMAIN msg' = QUEUES,
           \A p \in QUEUES : QueueOf(queues'[p], Msgs(p)) /\ queues'[p].held = <<>>,
           \A p \in QUEUES : \/ pc'[p] = pc[p] /\ msg'[p] = msg[p]
                             \/ pc'[p] = "idle" /\ msg'[p] = NoMsg
    PROVE  QueueInv'
<1>1. ASSUME NEW p \in QUEUES PROVE WorkInv(p)'
  <2>1. WorkInv(p) /\ "idle" \in LabelsOf[p]
    BY QueuesAre DEF QueueInv, LabelsOf
  <2>2. CASE pc'[p] = pc[p] /\ msg'[p] = msg[p]
    BY Zenon, <2>1, <2>2 DEF WorkInv
  <2>3. CASE pc'[p] = "idle" /\ msg'[p] = NoMsg
    <3>1. ~("idle" \in {"requeue", "wait"})
      OBVIOUS
    <3> QED
      BY Zenon, <2>1, <2>3, <3>1 DEF WorkInv
  <2> QED
    BY Zenon, <2>2, <2>3
<1> QED
  BY Zenon, <1>1 DEF QueueInv

\* Closing the channel makes every held message ready again.
LEMMA CloseChannelIs ==
    ASSUME QueueInv, CloseChannel
    PROVE  /\ QueueInv' /\ UNCHANGED <<pc, msg, todo>>
           /\ \A p \in QUEUES : /\ Ready(queues'[p]) = Ready(queues[p]) \cup Held(queues[p])
                                /\ Held(queues'[p]) = {} /\ Buried(queues'[p]) = Buried(queues[p])
<1>1. Close(queues) /\ UNCHANGED <<pc, msg, todo>>
  BY Zenon DEF CloseChannel
<1>2. DOMAIN queues = QUEUES /\ \A p \in QUEUES : QueueOf(queues[p], Msgs(p))
  BY Zenon DEF QueueInv
<1>3. /\ chan' = "closed" /\ DOMAIN queues' = QUEUES
      /\ \A p \in QUEUES :
            /\ QueueOf(queues'[p], Msgs(p)) /\ queues'[p].held = <<>>
            /\ Ready(queues'[p]) = Ready(queues[p]) \cup Held(queues[p])
            /\ Held(queues'[p]) = {} /\ Buried(queues'[p]) = Buried(queues[p])
  BY Zenon, <1>1, <1>2, CloseIs
<1>4. QueueInv'
  BY Zenon, <1>1, <1>3, ClosedInv DEF QueueInv
<1> QED
  BY Zenon, <1>1, <1>3, <1>4

\* A retry after a delay buries the held message and queues its copy, or, when
\* the channel is gone by then, leaves the dead letter alone.
LEMMA RetryIs ==
    ASSUME QueueInv, NEW q \in QUEUES, RetryAfterDelay(q)
    PROVE  /\ QueueInv' /\ pc[q] = "wait" /\ pc'[q] = "idle" /\ Held(queues[q]) = {msg[q]}
           /\ Copy(q).job = msg[q].job /\ Copy(q).retry = msg[q].retry + 1
           /\ Held(queues'[q]) = {} /\ Buried(queues'[q]) = Buried(queues[q]) \cup {msg[q]}
           /\ \A p \in QUEUES \ {q} : pc'[p] = pc[p] /\ msg'[p] = msg[p]
           /\ \/ Local(q) /\ Ready(queues'[q]) = Ready(queues[q]) \cup {Copy(q)}
              \/ /\ Spend("faults") /\ Ready(queues'[q]) = Ready(queues[q])
                 /\ \A p \in QUEUES \ {q} :
                       /\ Ready(queues'[p]) = Ready(queues[p]) \cup Held(queues[p])
                       /\ Held(queues'[p]) = {} /\ Buried(queues'[p]) = Buried(queues[p])
<1>1. /\ pc[q] = "wait" /\ chan = "open" /\ Goto(q, "idle")
      /\ \/ /\ queues' = [queues EXCEPT ![q] = SendToQueue(Nack(queues[q]), Copy(q))]
            /\ UNCHANGED <<chan, used>>
         \/ /\ Spend("faults")
            /\ Close([queues EXCEPT ![q] = Nack(queues[q])])
  BY Zenon DEF RetryAfterDelay
<1>2. pc[q] # "idle" /\ pc[q] \in {"requeue", "wait"}
  BY <1>1
<1>3. /\ DOMAIN queues = QUEUES /\ DOMAIN pc = QUEUES /\ DOMAIN msg = QUEUES
      /\ \A p \in QUEUES : QueueOf(queues[p], Msgs(p))
  BY Zenon DEF QueueInv
<1>4. /\ QueueOf(queues[q], Msgs(q)) /\ Held(queues[q]) = {msg[q]}
      /\ queues[q].held = <<msg[q]>> /\ msg[q] \in Msgs(q)
  BY Zenon, <1>1, <1>2, HandlerIs
<1>5. Copy(q) \in Msgs(q) /\ Copy(q).job = msg[q].job /\ Copy(q).retry = msg[q].retry + 1
  BY Zenon, <1>2, CopyIs
<1>6. /\ DOMAIN pc' = QUEUES /\ DOMAIN msg' = QUEUES /\ pc'[q] = "idle" /\ msg'[q] = NoMsg
      /\ \A p \in QUEUES \ {q} : pc'[p] = pc[p] /\ msg'[p] = msg[p]
  BY Zenon, <1>1, <1>3 DEF Goto
<1> DEFINE N == Nack(queues[q])
<1>7. /\ QueueOf(N, Msgs(q)) /\ Ready(N) = Ready(queues[q]) /\ N.held = <<>>
      /\ Buried(N) = Buried(queues[q]) \cup {msg[q]}
  BY <1>4, NackIs
<1> HIDE DEF N
<1>8. Held(N) = {}
  BY Zenon, <1>7, OneHeld DEF Held
<1>9. CASE queues' = [queues EXCEPT ![q] = SendToQueue(N, Copy(q))] /\ UNCHANGED <<chan, used>>
  <2> DEFINE R == SendToQueue(N, Copy(q))
  <2>1. /\ QueueOf(R, Msgs(q)) /\ Ready(R) = Ready(N) \cup {Copy(q)}
        /\ R.held = N.held /\ Buried(R) = Buried(N)
    BY <1>5, <1>7, SendIs
  <2>2. queues' = [queues EXCEPT ![q] = R] /\ chan' = chan
    BY Zenon, <1>9
  <2> HIDE DEF R
  <2>3. /\ DOMAIN queues' = QUEUES /\ queues'[q] = R
        /\ \A p \in QUEUES \ {q} : queues'[p] = queues[p]
    BY Zenon, <1>3, <2>2
  <2>4. Local(q)
    BY Zenon, <1>6, <2>2, <2>3 DEF Local
  <2>5. WorkInv(q)'
    <3>1. "idle" \in LabelsOf[q] /\ ~("idle" \in {"requeue", "wait"})
      BY QueuesAre DEF LabelsOf
    <3> QED
      BY Zenon, <1>6, <1>7, <2>1, <2>3, <3>1 DEF WorkInv
  <2>6. QueueInv'
    BY Zenon, <2>1, <2>3, <2>4, <2>5, LocalInv
  <2>7. /\ Held(queues'[q]) = {} /\ Buried(queues'[q]) = Buried(queues[q]) \cup {msg[q]}
        /\ Ready(queues'[q]) = Ready(queues[q]) \cup {Copy(q)}
    BY Zenon, <1>7, <1>8, <2>1, <2>3 DEF Held
  <2> QED
    BY Zenon, <1>1, <1>4, <1>5, <1>6, <2>4, <2>6, <2>7
<1>10. CASE Spend("faults") /\ Close([queues EXCEPT ![q] = N])
  <2> DEFINE qs == [queues EXCEPT ![q] = N]
  <2>1. DOMAIN qs = QUEUES /\ qs[q] = N /\ \A p \in QUEUES \ {q} : qs[p] = queues[p]
    BY Zenon, <1>3
  <2>2. Close(qs)
    BY Zenon, <1>10
  <2> HIDE DEF qs
  <2>3. \A p \in QUEUES : QueueOf(qs[p], Msgs(p))
    BY Zenon, <1>3, <1>7, <2>1
  <2>4. /\ chan' = "closed" /\ DOMAIN queues' = QUEUES
        /\ \A p \in QUEUES :
              /\ QueueOf(queues'[p], Msgs(p)) /\ queues'[p].held = <<>>
              /\ Ready(queues'[p]) = Ready(qs[p]) \cup Held(qs[p])
              /\ Held(queues'[p]) = {} /\ Buried(queues'[p]) = Buried(qs[p])
    BY Zenon, <2>1, <2>2, <2>3, CloseIs
  <2>5. QueueInv'
    BY Zenon, <1>6, <2>4, ClosedInv
  <2>6. /\ Ready(queues'[q]) = Ready(queues[q]) /\ Held(queues'[q]) = {}
        /\ Buried(queues'[q]) = Buried(queues[q]) \cup {msg[q]}
    <3>1. Ready(queues'[q]) = Ready(N) \cup Held(N) /\ Buried(queues'[q]) = Buried(N)
      BY Zenon, <2>1, <2>4
    <3> QED
      BY Zenon, <1>7, <1>8, <2>4, <3>1
  <2>7. \A p \in QUEUES \ {q} :
           /\ Ready(queues'[p]) = Ready(queues[p]) \cup Held(queues[p])
           /\ Held(queues'[p]) = {} /\ Buried(queues'[p]) = Buried(queues[p])
    BY Zenon, <2>1, <2>4
  <2> QED
    BY Zenon, <1>1, <1>4, <1>5, <1>6, <1>10, <2>5, <2>6, <2>7
<1> QED
  BY Zenon, <1>1, <1>9, <1>10 DEF N

\* A delivery: a malformed message is buried, any other is held and worked on.
LEMMA ConsumeIs ==
    ASSUME QueueInv, NEW q \in QUEUES, Consume(q)
    PROVE  LET m == Head(queues[q].ready) IN
           /\ QueueInv' /\ Local(q) /\ pc[q] = "idle" /\ m \in Msgs(q)
           /\ Ready(queues[q]) = Ready(queues'[q]) \cup {m} /\ Held(queues[q]) = {}
           /\ \/ /\ m.job = Malformed /\ pc'[q] = "idle" /\ todo' = todo
                 /\ Held(queues'[q]) = {} /\ Buried(queues'[q]) = Buried(queues[q]) \cup {m}
              \/ /\ m.job # Malformed /\ pc'[q] = Start[q] /\ msg'[q] = m
                 /\ Held(queues'[q]) = {m} /\ Buried(queues'[q]) = Buried(queues[q])
                 /\ todo' = IF q = "alerts" THEN Recipients ELSE todo
<1> DEFINE m == Head(queues[q].ready)
           D == Deliver(queues[q])
<1>1. /\ pc[q] = "idle" /\ chan = "open" /\ chan' = chan /\ queues[q].ready # <<>>
      /\ \/ /\ m.job = Malformed
            /\ queues' = [queues EXCEPT ![q] = Nack(D)] /\ UNCHANGED <<pc, msg, todo>>
         \/ /\ m.job # Malformed
            /\ queues' = [queues EXCEPT ![q] = D]
            /\ pc' = [pc EXCEPT ![q] = Start[q]] /\ msg' = [msg EXCEPT ![q] = m]
            /\ todo' = IF q = "alerts" THEN Recipients ELSE todo
  BY Zenon DEF Consume
<1>2. /\ DOMAIN queues = QUEUES /\ DOMAIN pc = QUEUES /\ DOMAIN msg = QUEUES
      /\ QueueOf(queues[q], Msgs(q)) /\ WorkInv(q)
  BY Zenon DEF QueueInv
<1>3. /\ QueueOf(D, Msgs(q)) /\ m \in Msgs(q) /\ Ready(queues[q]) = Ready(D) \cup {m}
      /\ D.held = <<m>> /\ Buried(D) = Buried(queues[q])
  BY Zenon, <1>1, <1>2, DeliverIs
<1>4. Held(queues[q]) = {} /\ msg[q] = NoMsg /\ Held(D) = {m}
  BY Zenon, <1>1, <1>2, <1>3, OneHeld DEF WorkInv, Held
<1> HIDE DEF m, D
<1>5. CASE m.job = Malformed /\ queues' = [queues EXCEPT ![q] = Nack(D)] /\ UNCHANGED <<pc, msg, todo>>
  <2> DEFINE R == Nack(D)
  <2>1. /\ QueueOf(R, Msgs(q)) /\ Ready(R) = Ready(D) /\ R.held = <<>>
        /\ Buried(R) = Buried(D) \cup {m}
    BY Zenon, <1>3, NackIs
  <2>2. queues' = [queues EXCEPT ![q] = R]
    BY Zenon, <1>5
  <2> HIDE DEF R
  <2>3. /\ DOMAIN queues' = QUEUES /\ queues'[q] = R
        /\ \A p \in QUEUES \ {q} : queues'[p] = queues[p]
    BY Zenon, <1>2, <2>2
  <2>4. Local(q)
    BY Zenon, <1>1, <1>2, <1>5, <2>3 DEF Local
  <2>5. WorkInv(q)'
    BY Zenon, <1>1, <1>2, <1>5, <2>1, <2>3 DEF WorkInv
  <2>6. QueueInv'
    BY Zenon, <2>1, <2>3, <2>4, <2>5, LocalInv
  <2>7. /\ Ready(queues[q]) = Ready(queues'[q]) \cup {m} /\ Held(queues'[q]) = {}
        /\ Buried(queues'[q]) = Buried(queues[q]) \cup {m}
    BY Zenon, <1>3, <2>1, <2>3, OneHeld DEF Held
  <2> QED
    BY Zenon, <1>1, <1>3, <1>4, <1>5, <2>4, <2>6, <2>7 DEF m
<1>6. CASE /\ m.job # Malformed
           /\ queues' = [queues EXCEPT ![q] = D]
           /\ pc' = [pc EXCEPT ![q] = Start[q]] /\ msg' = [msg EXCEPT ![q] = m]
           /\ todo' = IF q = "alerts" THEN Recipients ELSE todo
  <2>1. /\ DOMAIN queues' = QUEUES /\ DOMAIN pc' = QUEUES /\ DOMAIN msg' = QUEUES
        /\ queues'[q] = D /\ pc'[q] = Start[q] /\ msg'[q] = m
        /\ \A p \in QUEUES \ {q} : queues'[p] = queues[p] /\ pc'[p] = pc[p] /\ msg'[p] = msg[p]
    BY Zenon, <1>2, <1>6
  <2>2. Local(q)
    BY Zenon, <1>1, <2>1 DEF Local
  <2>3. Start[q] \in LabelsOf[q] /\ Start[q] # "idle" /\ ~(Start[q] \in {"requeue", "wait"})
    BY QueuesAre DEF LabelsOf, Start
  <2>4. m \in Work(q)
    BY <1>3, <1>6 DEF Msgs, Work
  <2>5. WorkInv(q)'
    <3>1. chan' # "closed"
      BY <1>1
    <3> QED
      BY Zenon, <1>3, <1>6, <2>1, <2>3, <2>4, <3>1 DEF WorkInv
  <2>6. QueueInv'
    BY Zenon, <1>3, <2>1, <2>2, <2>5, LocalInv
  <2> QED
    BY Zenon, <1>1, <1>3, <1>4, <1>6, <2>1, <2>2, <2>6 DEF m
<1> QED
  BY Zenon, <1>1, <1>5, <1>6

\* A restarted worker is at work on nothing.
LEMMA RestartWorkerInv ==
    ASSUME QueueInv, RestartWorker
    PROVE  QueueInv' /\ UNCHANGED queues /\ \A p \in QUEUES : pc'[p] = "idle"
<1>1. /\ chan = "closed" /\ chan' = "open" /\ UNCHANGED queues
      /\ pc' = [q \in QUEUES |-> "idle"] /\ msg' = [q \in QUEUES |-> NoMsg]
  BY Zenon DEF RestartWorker
<1>2. \A p \in QUEUES : pc'[p] = "idle" /\ msg'[p] = NoMsg
  BY Zenon, <1>1
<1>3. ASSUME NEW p \in QUEUES PROVE WorkInv(p)'
  <2>1. "idle" \in LabelsOf[p] /\ ~("idle" \in {"requeue", "wait"})
    BY QueuesAre DEF LabelsOf
  <2>2. queues'[p].held = <<>>
    BY Zenon, <1>1 DEF QueueInv, WorkInv
  <2> QED
    BY Zenon, <1>2, <2>1, <2>2 DEF WorkInv
<1> QED
  BY Zenon, <1>1, <1>2, <1>3 DEF QueueInv

\* An expired message moves from the ready ones to the dead letters.
LEMMA ExpireJobIs ==
    ASSUME QueueInv, NEW q \in QUEUES, ExpireJob(q)
    PROVE  /\ QueueInv' /\ Local(q) /\ UNCHANGED <<pc, msg, todo>>
           /\ \E m : /\ Ready(queues[q]) = Ready(queues'[q]) \cup {m}
                     /\ Held(queues'[q]) = Held(queues[q])
                     /\ Buried(queues'[q]) = Buried(queues[q]) \cup {m}
<1> DEFINE R == Expire(queues[q])
           m == Head(queues[q].ready)
<1>1. /\ queues[q].ready # <<>> /\ queues' = [queues EXCEPT ![q] = R]
      /\ UNCHANGED <<pc, msg, todo, chan>>
  BY Zenon DEF ExpireJob, workVars
<1>2. QueueOf(queues[q], Msgs(q))
  BY Zenon DEF QueueInv
<1>3. /\ QueueOf(R, Msgs(q)) /\ Ready(queues[q]) = Ready(R) \cup {m} /\ R.held = queues[q].held
      /\ Buried(R) = Buried(queues[q]) \cup {m}
  BY Zenon, <1>1, <1>2, ExpireIs
<1> HIDE DEF R, m
<1>4. QueueInv' /\ Local(q) /\ queues'[q] = R
  BY Zenon, <1>1, <1>3, SendInv
<1> QED
  BY Zenon, <1>1, <1>3, <1>4 DEF Held

-----------------------------------------------------------------------------
(* Publishing. *)

\* A job as its publisher sends it.
LEMMA NewMsg ==
    ASSUME NEW q \in QUEUES, NEW j \in Jobs[q] \cup {Malformed}
    PROVE  Msg(j, 0) \in Msgs(q) /\ Msg(j, 0).job = j /\ Msg(j, 0).retry = 0
<1>1. 0 \in Retries(q)
  BY JobsAssumption DEF Retries
<1> QED
  BY <1>1 DEF Msg, Msgs

\* What publishers of q add to it, and what that leaves alone.
Gains(q, M) ==
    /\ DOMAIN queues' = QUEUES /\ \A p \in QUEUES \ {q} : queues'[p] = queues[p]
    /\ QueueOf(queues'[q], Msgs(q)) /\ queues'[q].held = queues[q].held
    /\ Ready(queues'[q]) = Ready(queues[q]) \cup M
    /\ Held(queues'[q]) = Held(queues[q]) /\ Buried(queues'[q]) = Buried(queues[q])

\* A publish adds one message to one queue, ...
LEMMA PublishIs ==
    ASSUME QueueInv, NEW q \in QUEUES, NEW j \in Jobs[q] \cup {Malformed},
           queues' = [queues EXCEPT ![q] = SendToQueue(queues[q], Msg(j, 0))]
    PROVE  Gains(q, {Msg(j, 0)})
<1> DEFINE R == SendToQueue(queues[q], Msg(j, 0))
<1>1. DOMAIN queues = QUEUES /\ QueueOf(queues[q], Msgs(q))
  BY Zenon DEF QueueInv
<1>2. Msg(j, 0) \in Msgs(q)
  BY Zenon, NewMsg
<1>3. /\ QueueOf(R, Msgs(q)) /\ Ready(R) = Ready(queues[q]) \cup {Msg(j, 0)}
      /\ R.held = queues[q].held /\ Buried(R) = Buried(queues[q])
  BY <1>1, <1>2, SendIs
<1>4. queues' = [queues EXCEPT ![q] = R]
  OBVIOUS
<1> HIDE DEF R
<1>5. /\ DOMAIN queues' = QUEUES /\ queues'[q] = R
      /\ \A p \in QUEUES \ {q} : queues'[p] = queues[p]
  BY Zenon, <1>1, <1>4
<1> QED
  BY Zenon, <1>3, <1>5 DEF Gains, Held

\* ... and a loop of publishes one for each job.
LEMMA SendAllIs ==
    ASSUME QueueInv, NEW q \in QUEUES, NEW js \in Seq(Jobs[q]), SendAll(q, js)
    PROVE  /\ Gains(q, {Msg(j, 0) : j \in Range1(js)})
           /\ accepted' = accepted \cup Range1(js)
<1> DEFINE ms == [i \in DOMAIN js |-> Msg(js[i], 0)]
           R == [queues[q] EXCEPT !.ready = queues[q].ready \o ms]
<1>1. /\ DOMAIN queues = QUEUES /\ QueueOf(queues[q], Msgs(q))
      /\ DOMAIN queues[q] = {"ready", "held", "dead"} /\ queues[q].ready \in Seq(Msgs(q))
  BY Zenon DEF QueueInv, QueueOf
<1>2. Len(js) \in Nat /\ DOMAIN js = 1 .. Len(js) /\ \A i \in DOMAIN js : js[i] \in Jobs[q]
  OBVIOUS
<1>3. \A i \in DOMAIN js : Msg(js[i], 0) \in Msgs(q)
  BY Zenon, <1>2, NewMsg
<1>4. ms \in Seq(Msgs(q)) /\ DOMAIN ms = DOMAIN js /\ \A i \in DOMAIN js : ms[i] = Msg(js[i], 0)
  <2> HIDE DEF Msg
  <2> QED
    BY <1>2, <1>3
<1>5. Range1(ms) = {Msg(j, 0) : j \in Range1(js)}
  BY <1>4 DEF Range1
<1>6. queues' = [queues EXCEPT ![q] = R]
  BY <1>1 DEF SendAll
<1>7. accepted' = accepted \cup Range1(js)
  BY Zenon DEF SendAll
<1>8. /\ DOMAIN R = {"ready", "held", "dead"} /\ R.ready = queues[q].ready \o ms
      /\ R.held = queues[q].held /\ R.dead = queues[q].dead
  BY Zenon, <1>1
<1> HIDE DEF ms, R
<1>9. R.ready \in Seq(Msgs(q)) /\ Range1(R.ready) = Range1(queues[q].ready) \cup Range1(ms)
  <2>1. /\ queues[q].ready \o ms \in Seq(Msgs(q))
        /\ Range1(queues[q].ready \o ms) = Range1(queues[q].ready) \cup Range1(ms)
    BY Zenon, <1>1, <1>4, ConcatRange
  <2> QED
    BY Zenon, <1>8, <2>1
<1>10. QueueOf(R, Msgs(q))
  BY Zenon, <1>1, <1>8, <1>9 DEF QueueOf
<1>11. /\ DOMAIN queues' = QUEUES /\ queues'[q] = R
       /\ \A p \in QUEUES \ {q} : queues'[p] = queues[p]
  BY Zenon, <1>1, <1>6
<1> QED
  BY Zenon, <1>5, <1>7, <1>8, <1>9, <1>10, <1>11 DEF Gains, Held, Ready, Buried

\* New messages disturb no handler, and the alert handler may go on to its end.
LEMMA GainsInv ==
    ASSUME QueueInv, NEW q \in QUEUES, NEW M, Gains(q, M), UNCHANGED <<msg, chan>>,
           \/ UNCHANGED pc
           \/ pc["alerts"] # "idle" /\ pc' = [pc EXCEPT !["alerts"] = "ack"]
    PROVE  QueueInv'
<1>1. \A p \in QUEUES : QueueOf(queues'[p], Msgs(p)) /\ queues'[p].held = queues[p].held
  BY Zenon DEF Gains, QueueInv
<1>2. DOMAIN queues' = QUEUES /\ DOMAIN pc' = QUEUES /\ DOMAIN msg' = QUEUES
      /\ "alerts" \in QUEUES
  BY Zenon, QueuesAre DEF Gains, QueueInv
<1>3. ASSUME NEW p \in QUEUES PROVE WorkInv(p)'
  <2>0. WorkInv(p)
    BY Zenon DEF QueueInv
  <2>1. CASE pc'[p] = pc[p]
    BY Zenon, <1>1, <2>0, <2>1 DEF WorkInv
  <2>2. CASE p = "alerts" /\ pc[p] # "idle" /\ pc'[p] = "ack"
    <3>1. "ack" # "idle" /\ ~("ack" \in {"requeue", "wait"}) /\ "ack" \in LabelsOf["alerts"]
      BY DEF LabelsOf
    <3> QED
      BY Zenon, <1>1, <2>0, <2>2, <3>1 DEF WorkInv
  <2>3. pc'[p] = pc[p] \/ (p = "alerts" /\ pc[p] # "idle" /\ pc'[p] = "ack")
    BY Zenon, <1>2 DEF QueueInv
  <2> QED
    BY Zenon, <2>1, <2>2, <2>3
<1> QED
  BY Zenon, <1>1, <1>2, <1>3 DEF QueueInv

\* The rows of a query are finitely many: from the theorems on finite sets, below.
CountsRows ==
    /\ \A S \in SUBSET Range1(Recipients) : Cardinality(S) \in Nat
    /\ \A S \in SUBSET Endpoints : Cardinality(S) \in Nat

\* They make a sequence.
LEMMA OrdersAre ==
    ASSUME NEW S, Cardinality(S) \in Nat, NEW rows \in Orders(S)
    PROVE  rows \in Seq(S) /\ Range1(rows) = S
<1>1. rows \in [1 .. Cardinality(S) -> S] /\ Range1(rows) = S
  BY Zenon DEF Orders
<1> QED
  BY <1>1

-----------------------------------------------------------------------------
(* No job is lost. *)

\* What is to be acknowledged is done, or has a copy elsewhere in its queue.
Waits(Q) == Ready(Q) \cup Buried(Q)
Sure == {"statusOk", "ack"}
Acked(q) ==
    pc[q] \in Sure => Finished(msg[q].job) \/ \E m \in Waits(queues[q]) : m.job = msg[q].job

\* An alert under way has a job for each recipient it has seen.
Seen(k, r) == EmailJob(k, r) \in accepted \cup skipped
TodoInv ==
    pc["alerts"] = "emails" =>
        /\ todo \in Seq(Range1(Recipients))
        /\ \A r \in Range1(Recipients) : r \in Range1(todo) \/ Seen(msg["alerts"].job[2], r)

Kept(j) == Finished(j) \/ \E q \in QUEUES : j \in JobsIn(queues[q])
LossInv ==
    /\ \A j \in accepted : Kept(j)
    /\ \A q \in QUEUES : Acked(q)
    /\ TodoInv

\* What is done stays done.
Grown == /\ accepted \subseteq accepted' /\ skipped \subseteq skipped'
         /\ \A j \in AllJobs : sent[j] > 0 => sent'[j] > 0

\* A job that is done is done after the step.
LEMMA FinishedKept ==
    ASSUME Grown, NEW j \in AllJobs, Finished(j)
    PROVE  Finished(j)'
BY Zenon DEF Grown, Finished

\* What a step has to show of the queues for LossInv.
LEMMA LossStep ==
    ASSUME QueueInv, DataInv, LossInv, Grown, TodoInv',
           \A j \in accepted' \ accepted : \E p \in QUEUES : j \in JobsIn(queues'[p]),
           \A p \in QUEUES : \A m \in All(queues[p]) :
              \/ m \in All(queues'[p]) \/ Finished(m.job)
              \/ \E n \in All(queues'[p]) : n.job = m.job,
           \A p \in QUEUES :
              \/ pc'[p] = pc[p] /\ msg'[p] = msg[p] /\ Waits(queues[p]) \subseteq Waits(queues'[p])
              \/ Acked(p)'
    PROVE  LossInv'
<1>1. ASSUME NEW j \in accepted' PROVE Kept(j)'
  <2>1. CASE j \notin accepted
    BY Zenon, <2>1 DEF Kept
  <2>2. CASE j \in accepted /\ Finished(j)
    BY Zenon, <2>2, FinishedKept DEF Kept, DataInv
  <2>3. ASSUME NEW p \in QUEUES, j \in JobsIn(queues[p]), j \in accepted PROVE Kept(j)'
    <3>1. PICK m \in All(queues[p]) : j = m.job
      BY Zenon, <2>3 DEF JobsIn
    <3>2. CASE Finished(m.job)
      BY Zenon, <2>3, <3>1, <3>2, FinishedKept DEF Kept, DataInv
    <3>3. CASE m \in All(queues'[p]) \/ \E n \in All(queues'[p]) : n.job = m.job
      BY Zenon, <3>1, <3>3 DEF Kept, JobsIn
    <3> QED
      BY Zenon, <3>1, <3>2, <3>3
  <2> QED
    BY Zenon, <2>1, <2>2, <2>3 DEF LossInv, Kept
<1>2. ASSUME NEW p \in QUEUES PROVE Acked(p)'
  <2> SUFFICES ASSUME pc'[p] = pc[p], msg'[p] = msg[p],
                      Waits(queues[p]) \subseteq Waits(queues'[p]), pc[p] \in Sure
               PROVE  Acked(p)'
    BY Zenon DEF Acked
  <2>1. pc[p] # "idle"
    BY DEF Sure
  <2>2. msg[p].job \in AllJobs
    BY Zenon, <2>1, HandlerIs, JobsAre
  <2>3. CASE Finished(msg[p].job)
    BY Zenon, <2>2, <2>3, FinishedKept DEF Acked
  <2>4. CASE \E m \in Waits(queues[p]) : m.job = msg[p].job
    BY Zenon, <2>4 DEF Acked
  <2> QED
    BY Zenon, <2>3, <2>4 DEF LossInv, Acked
<1> QED
  BY Zenon, <1>1, <1>2 DEF LossInv

\* The alert handler is where it was, or not among its recipients.
LEMMA TodoKept ==
    ASSUME LossInv, Grown,
           \/ pc'["alerts"] = pc["alerts"] /\ msg'["alerts"] = msg["alerts"] /\ todo' = todo
           \/ pc'["alerts"] # "emails"
    PROVE  TodoInv'
BY Zenon DEF LossInv, TodoInv, Seen, Grown

\* Nothing of the queues.
LEMMA IdleLoss ==
    ASSUME QueueInv, DataInv, LossInv, UNCHANGED <<queues, workVars, accepted, sent, skipped>>
    PROVE  QueueInv' /\ LossInv'
<1>1. UNCHANGED <<queues, pc, msg, todo, chan, accepted, sent, skipped>>
  BY Zenon DEF workVars
<1>2. QueueInv'
  BY Zenon, <1>1 DEF QueueInv, WorkInv
<1>3. Grown
  BY Zenon, <1>1 DEF Grown
<1>4. TodoInv'
  BY Zenon, <1>1, <1>3, TodoKept
<1> QED
  BY Zenon, <1>1, <1>2, <1>3, <1>4, LossStep

\* What is new in a queue keeps the rest.
LEMMA GainsKeep ==
    ASSUME QueueInv, NEW q \in QUEUES, NEW M, Gains(q, M)
    PROVE  /\ \A p \in QUEUES : /\ All(queues[p]) \subseteq All(queues'[p])
                                /\ Waits(queues[p]) \subseteq Waits(queues'[p])
           /\ \A m \in M : m.job \in JobsIn(queues'[q])
<1>1. ASSUME NEW p \in QUEUES
      PROVE  /\ All(queues[p]) \subseteq All(queues'[p])
             /\ Waits(queues[p]) \subseteq Waits(queues'[p])
  <2>1. CASE p = q
    BY Zenon, <2>1 DEF Gains, All, Waits
  <2>2. CASE p # q
    <3>1. queues'[p] = queues[p]
      BY Zenon, <2>2 DEF Gains
    <3> QED
      BY Zenon, <3>1
  <2> QED
    BY Zenon, <2>1, <2>2
<1>2. ASSUME NEW m \in M PROVE m.job \in JobsIn(queues'[q])
  <2>1. m \in All(queues'[q])
    BY Zenon DEF Gains, All
  <2> QED
    BY Zenon, <2>1 DEF JobsIn
<1> QED
  BY Zenon, <1>1, <1>2

\* What a publisher sends are new jobs of one queue.
Published ==
    \/ UNCHANGED queues
    \/ \E q \in QUEUES : \E J \in SUBSET (Jobs[q] \cup {Malformed}) :
          Gains(q, {Msg(j, 0) : j \in J})

\* The publishers: what entered is counted and is there.
LEMMA PublisherLoss ==
    ASSUME QueueInv, DataInv, LossInv, NEW q \in QUEUES, NEW J \in SUBSET (Jobs[q] \cup {Malformed}),
           Gains(q, {Msg(j, 0) : j \in J}), accepted' = accepted \cup J,
           UNCHANGED <<workVars, sent>>, skipped \subseteq skipped'
    PROVE  QueueInv' /\ LossInv' /\ accepted' \subseteq AllJobs /\ Published
<1>1. UNCHANGED <<pc, msg, todo, chan>>
  BY Zenon DEF workVars
<1>2. QueueInv'
  BY Zenon, <1>1, GainsInv
<1>3. Grown
  BY Zenon DEF Grown
<1>4. TodoInv'
  BY Zenon, <1>1, <1>3, TodoKept
<1>5. /\ \A p \in QUEUES : /\ All(queues[p]) \subseteq All(queues'[p])
                           /\ Waits(queues[p]) \subseteq Waits(queues'[p])
      /\ \A m \in {Msg(j, 0) : j \in J} : m.job \in JobsIn(queues'[q])
  BY Zenon, GainsKeep
<1>6. ASSUME NEW j \in J PROVE j \in JobsIn(queues'[q])
  <2>1. j \in Jobs[q] \cup {Malformed} /\ Msg(j, 0) \in {Msg(i, 0) : i \in J}
    BY Zenon, <1>6
  <2>2. Msg(j, 0).job = j
    BY Zenon, <2>1, NewMsg
  <2> QED
    BY Zenon, <1>5, <2>1, <2>2
<1>7. LossInv'
  BY Zenon, <1>1, <1>3, <1>4, <1>5, <1>6, LossStep
<1>8. accepted' \subseteq AllJobs
  BY Zenon, JobsAre DEF DataInv
<1>9. Published
  BY Zenon DEF Published
<1> QED
  BY Zenon, <1>2, <1>7, <1>8, <1>9

\* Messages that only move within their queues.
LEMMA MoveLoss ==
    ASSUME QueueInv, DataInv, LossInv, UNCHANGED <<accepted, sent, skipped>>,
           \A p \in QUEUES : All(queues[p]) \subseteq All(queues'[p]),
           \A p \in QUEUES : \/ pc'[p] \notin Sure
                             \/ /\ pc'[p] = pc[p] /\ msg'[p] = msg[p]
                                /\ Waits(queues[p]) \subseteq Waits(queues'[p]),
           \/ pc'["alerts"] = pc["alerts"] /\ msg'["alerts"] = msg["alerts"] /\ todo' = todo
           \/ pc'["alerts"] # "emails"
    PROVE  LossInv'
<1>1. Grown
  BY Zenon DEF Grown
<1>2. TodoInv'
  BY Zenon, <1>1, TodoKept
<1>3. \A p \in QUEUES :
         \/ pc'[p] = pc[p] /\ msg'[p] = msg[p] /\ Waits(queues[p]) \subseteq Waits(queues'[p])
         \/ Acked(p)'
  BY Zenon DEF Acked
<1>4. \A p \in QUEUES : \A m \in All(queues[p]) : m \in All(queues'[p])
  BY Zenon
<1> QED
  BY Zenon, <1>1, <1>2, <1>3, <1>4, LossStep

\* PublishAlert, PublishJob and RunDigestCycle.
LEMMA PublishAlertLoss ==
    ASSUME FlowInv, QueueInv, DataInv, LossInv, PublishAlert
    PROVE  QueueInv' /\ LossInv' /\ accepted' \subseteq AllJobs /\ Published
<1> DEFINE k == EventKey(Topic[pos + 1])
<1>1. UNCHANGED <<workVars, sent, skipped>>
  BY Zenon DEF PublishAlert
<1>2. \/ UNCHANGED <<queues, accepted>>
      \/ /\ queues' = [queues EXCEPT !["alerts"] = SendToQueue(queues["alerts"], Msg(AlertJob(k), 0))]
         /\ accepted' = accepted \cup {AlertJob(k)}
  BY DEF PublishAlert
<1>3. CASE UNCHANGED <<queues, accepted>>
  BY Zenon, <1>1, <1>3, IdleLoss DEF DataInv, Published
<1>4. k \in Keys
  <2>1. pos \in Nat /\ pos < Len(Topic)
    BY Zenon DEF PublishAlert, FlowInv, FlowTypes, Evaluated
  <2>2. pos + 1 \in DOMAIN Topic
    BY <2>1, SettingsAssumption
  <2> QED
    BY Zenon, <2>2 DEF Keys, Range1
<1>5. AlertJob(k) \in Jobs["alerts"] /\ "alerts" \in QUEUES
  BY Zenon, <1>4, JobsAre, QueuesAre
<1> DEFINE j == AlertJob(k)
<1> HIDE DEF k, j
<1>6. ASSUME queues' = [queues EXCEPT !["alerts"] = SendToQueue(queues["alerts"], Msg(j, 0))],
             accepted' = accepted \cup {j}
      PROVE  QueueInv' /\ LossInv' /\ accepted' \subseteq AllJobs /\ Published
  <2>1. j \in Jobs["alerts"]
    BY Zenon, <1>5 DEF j
  <2>2. Gains("alerts", {Msg(j, 0)})
    BY Zenon, <1>5, <1>6, <2>1, PublishIs
  <2>3. {Msg(i, 0) : i \in {j}} = {Msg(j, 0)}
    BY Zenon
  <2> QED
    BY Zenon, <1>1, <1>5, <1>6, <2>1, <2>2, <2>3, PublisherLoss
<1> QED
  BY Zenon, <1>2, <1>3, <1>6 DEF j

\* A producer's job is accepted as it enters its queue.
LEMMA PublishJobLoss ==
    ASSUME QueueInv, DataInv, LossInv, NEW q, NEW j, PublishJob(q, j)
    PROVE  QueueInv' /\ LossInv' /\ accepted' \subseteq AllJobs /\ Published
<1>1. /\ <<q, j>> \in Produced /\ accepted' = accepted \cup {j}
      /\ queues' = [queues EXCEPT ![q] = SendToQueue(queues[q], Msg(j, 0))]
      /\ UNCHANGED <<workVars, sent, skipped>>
  BY DEF PublishJob
<1>2. <<q, j>>[1] = q /\ <<q, j>>[2] = j
  OBVIOUS
<1>3. q \in QUEUES /\ (j = Malformed \/ q = "exports")
  BY <1>1, <1>2, JobsAssumption
<1>4. q = "exports" => j \in Jobs["exports"]
  <2> SUFFICES ASSUME q = "exports" PROVE j \in Jobs["exports"]
    OBVIOUS
  <2>1. <<q, j>> \in {p \in Produced : p[1] = "exports"}
    BY <1>1
  <2>2. <<q, j>>[2] \in {p[2] : p \in {i \in Produced : i[1] = "exports"}}
    BY Zenon, <2>1
  <2> QED
    BY <1>2, <2>2, QueuesAre
<1>5. j \in Jobs[q] \cup {Malformed}
  BY Zenon, <1>3, <1>4
<1>6. Gains(q, {Msg(j, 0)})
  BY Zenon, <1>1, <1>3, <1>5, PublishIs
<1>7. {Msg(i, 0) : i \in {j}} = {Msg(j, 0)}
  BY Zenon
<1> QED
  BY Zenon, <1>1, <1>3, <1>5, <1>6, <1>7, PublisherLoss

\* A digest cycle queues an email for each of its users.
LEMMA RunDigestCycleLoss ==
    ASSUME CountsRows, FlowInv, QueueInv, DataInv, LossInv, RunDigestCycle
    PROVE  QueueInv' /\ LossInv' /\ accepted' \subseteq AllJobs /\ Published
<1> DEFINE S == {r \in Range1(Recipients) : prefs[r].digest}
           n == used.digests + 1
<1>1. PICK users \in Orders(S) :
         SendAll("emails", [i \in DOMAIN users |-> EmailJob(<<"digest", n>>, users[i])])
  BY Zenon DEF RunDigestCycle
<1>s. Spend("digests") /\ UNCHANGED <<workVars, sent, skipped>>
  BY Zenon DEF RunDigestCycle
<1> DEFINE js == [i \in DOMAIN users |-> EmailJob(<<"digest", n>>, users[i])]
<1>2. users \in Seq(Range1(Recipients))
  <2>1. S \in SUBSET Range1(Recipients)
    BY Zenon
  <2>2. users \in Seq(S)
    BY Zenon, <2>1, OrdersAre DEF CountsRows
  <2> QED
    BY <2>1, <2>2
<1>3. <<"digest", n>> \in DigestKeys
  <2>1. /\ used.digests \in Nat /\ used.digests < budget.digests
        /\ budget.digests \in Nat /\ budget.digests <= Most("digests")
    BY <1>s, BudgetsAssumption DEF Spend, FlowInv, FlowTypes, Bounds
  <2>2. Most("digests") \in Nat
    BY Zenon, BudgetsAssumption
  <2>3. n \in 1 .. Most("digests")
    BY <2>1, <2>2
  <2> QED
    BY <2>3 DEF DigestKeys
<1> HIDE DEF n
<1>4. js \in Seq(Jobs["emails"])
  <2>1. \A r \in Range1(Recipients) : EmailJob(<<"digest", n>>, r) \in Jobs["emails"]
    BY Zenon, <1>3, JobsAre
  <2>2. /\ Len(users) \in Nat /\ DOMAIN users = 1 .. Len(users)
        /\ \A i \in DOMAIN users : users[i] \in Range1(Recipients)
    BY <1>2
  <2>3. js \in [1 .. Len(users) -> Jobs["emails"]]
    BY Zenon, <2>1, <2>2
  <2> HIDE DEF js
  <2> QED
    BY <2>2, <2>3
<1>5. "emails" \in QUEUES
  BY Zenon, QueuesAre
<1>6. Gains("emails", {Msg(j, 0) : j \in Range1(js)}) /\ accepted' = accepted \cup Range1(js)
  <2>1. SendAll("emails", js)
    BY Zenon, <1>1
  <2> HIDE DEF js
  <2> QED
    BY Zenon, <1>4, <1>5, <2>1, SendAllIs
<1> HIDE DEF js
<1>7. Range1(js) \in SUBSET (Jobs["emails"] \cup {Malformed})
  BY <1>4 DEF Range1
<1> QED
  BY Zenon, <1>s, <1>5, <1>6, <1>7, PublisherLoss

\* What is acknowledged is in the queue no more, but a copy of it is, or it is done.
LEMMA AckJobLoss ==
    ASSUME QueueInv, DataInv, LossInv, NEW q \in QUEUES, AckJob(q)
    PROVE  QueueInv' /\ LossInv'
<1>1. /\ QueueInv' /\ Local(q) /\ pc[q] = "ack" /\ pc'[q] = "idle"
      /\ Ready(queues'[q]) = Ready(queues[q]) /\ Held(queues[q]) = {msg[q]}
      /\ Held(queues'[q]) = {} /\ Buried(queues'[q]) = Buried(queues[q])
  BY Zenon, AckJobIs
<1>2. UNCHANGED <<todo, accepted, sent, skipped>>
  BY Zenon DEF AckJob, OnChannel
<1>3. Grown
  BY Zenon, <1>2 DEF Grown
<1>4. "idle" \notin Sure /\ "ack" \in Sure /\ "idle" # "emails"
  BY DEF Sure
<1>5. TodoInv'
  <2>1. \/ pc'["alerts"] = pc["alerts"] /\ msg'["alerts"] = msg["alerts"]
        \/ pc'["alerts"] # "emails"
    BY Zenon, <1>1, <1>4, QueuesAre DEF Local
  <2> QED
    BY Zenon, <1>2, <1>3, <2>1, TodoKept
<1>6. ASSUME NEW p \in QUEUES, NEW m \in All(queues[p])
      PROVE  \/ m \in All(queues'[p]) \/ Finished(m.job)
             \/ \E n \in All(queues'[p]) : n.job = m.job
  <2>1. CASE p # q
    BY Zenon, <1>1, <2>1 DEF Local
  <2>2. CASE p = q /\ m \notin Held(queues[q])
    BY Zenon, <1>1, <2>2 DEF All
  <2>3. CASE p = q /\ m \in Held(queues[q])
    <3>1. m = msg[q]
      BY Zenon, <1>1, <2>3
    <3>2. Finished(msg[q].job) \/ \E n \in Waits(queues[q]) : n.job = msg[q].job
      BY Zenon, <1>1, <1>4 DEF LossInv, Acked
    <3>3. Waits(queues[q]) \subseteq All(queues'[q])
      BY Zenon, <1>1 DEF Waits, All
    <3> QED
      BY Zenon, <2>3, <3>1, <3>2, <3>3
  <2> QED
    BY Zenon, <2>1, <2>2, <2>3
<1>7. \A p \in QUEUES :
         \/ pc'[p] = pc[p] /\ msg'[p] = msg[p] /\ Waits(queues[p]) \subseteq Waits(queues'[p])
         \/ Acked(p)'
  BY Zenon, <1>1, <1>4 DEF Local, Acked
<1>8. \A j \in accepted' \ accepted : \E p \in QUEUES : j \in JobsIn(queues'[p])
  BY Zenon, <1>2
<1>9. LossInv'
  BY Zenon, <1>3, <1>5, <1>6, <1>7, <1>8, LossStep
<1> QED
  BY Zenon, <1>1, <1>9

\* What is dead-lettered, put back or delivered is in its queue still.
LEMMA NackJobLoss ==
    ASSUME QueueInv, DataInv, LossInv, NEW q \in QUEUES, NackJob(q)
    PROVE  QueueInv' /\ LossInv'
<1>1. /\ QueueInv' /\ Local(q) /\ pc'[q] = "idle"
      /\ Ready(queues'[q]) = Ready(queues[q]) /\ Held(queues[q]) = {msg[q]}
      /\ Held(queues'[q]) = {} /\ Buried(queues'[q]) = Buried(queues[q]) \cup {msg[q]}
  BY Zenon, NackJobIs
<1>2. UNCHANGED <<todo, accepted, sent, skipped>>
  BY Zenon DEF NackJob, OnChannel
<1>3. "idle" \notin Sure /\ "idle" # "emails"
  BY DEF Sure
<1>4. \/ pc'["alerts"] = pc["alerts"] /\ msg'["alerts"] = msg["alerts"] /\ todo' = todo
      \/ pc'["alerts"] # "emails"
  BY Zenon, <1>1, <1>2, <1>3, QueuesAre DEF Local
<1>5. ASSUME NEW p \in QUEUES PROVE All(queues[p]) \subseteq All(queues'[p])
  BY Zenon, <1>1 DEF Local, All
<1>6. \A p \in QUEUES : \/ pc'[p] \notin Sure
                        \/ /\ pc'[p] = pc[p] /\ msg'[p] = msg[p]
                           /\ Waits(queues[p]) \subseteq Waits(queues'[p])
  BY Zenon, <1>1, <1>3 DEF Local
<1> QED
  BY Zenon, <1>1, <1>2, <1>4, <1>5, <1>6, MoveLoss

\* The copy of a requeued email keeps it.
LEMMA RequeueCopyLoss ==
    ASSUME QueueInv, DataInv, LossInv, NEW q \in QUEUES, RequeueCopy(q)
    PROVE  QueueInv' /\ LossInv'
<1>1. /\ QueueInv' /\ Local(q) /\ q = "emails" /\ msg'[q] = msg[q]
      /\ Ready(queues'[q]) = Ready(queues[q]) \cup {Copy(q)} /\ Copy(q).job = msg[q].job
      /\ Held(queues'[q]) = Held(queues[q]) /\ Buried(queues'[q]) = Buried(queues[q])
  BY Zenon, RequeueCopyIs
<1>2. UNCHANGED <<todo, accepted, sent, skipped>>
  BY Zenon DEF RequeueCopy, OnChannel
<1>3. Grown
  BY Zenon, <1>2 DEF Grown
<1>4. pc'["alerts"] = pc["alerts"] /\ msg'["alerts"] = msg["alerts"]
  <2>1. "alerts" \in QUEUES /\ "alerts" # "emails"
    BY QueuesAre
  <2> QED
    BY Zenon, <1>1, <2>1 DEF Local
<1>5. TodoInv'
  BY Zenon, <1>2, <1>3, <1>4, TodoKept
<1>6. \A p \in QUEUES : \A m \in All(queues[p]) : m \in All(queues'[p])
  BY Zenon, <1>1 DEF Local, All
<1>7. Acked(q)'
  <2>1. Copy(q) \in Waits(queues'[q])
    BY Zenon, <1>1 DEF Waits
  <2>2. \E m \in Waits(queues'[q]) : m.job = msg'[q].job
    BY Zenon, <1>1, <2>1
  <2> QED
    BY Zenon, <2>2 DEF Acked
<1>8. \A p \in QUEUES :
         \/ pc'[p] = pc[p] /\ msg'[p] = msg[p] /\ Waits(queues[p]) \subseteq Waits(queues'[p])
         \/ Acked(p)'
  BY Zenon, <1>1, <1>7 DEF Local
<1>9. \A j \in accepted' \ accepted : \E p \in QUEUES : j \in JobsIn(queues'[p])
  BY Zenon, <1>2
<1>10. LossInv'
  BY Zenon, <1>3, <1>5, <1>6, <1>8, <1>9, LossStep
<1> QED
  BY Zenon, <1>1, <1>10

\* The copy, or the dead letter, of a retried job keeps it.
LEMMA RetryLoss ==
    ASSUME QueueInv, DataInv, LossInv, NEW q \in QUEUES, RetryAfterDelay(q)
    PROVE  QueueInv' /\ LossInv'
<1>1. /\ QueueInv' /\ pc'[q] = "idle" /\ Held(queues[q]) = {msg[q]}
      /\ Buried(queues'[q]) = Buried(queues[q]) \cup {msg[q]}
      /\ \A p \in QUEUES \ {q} : pc'[p] = pc[p] /\ msg'[p] = msg[p]
      /\ \/ Local(q) /\ Ready(queues'[q]) = Ready(queues[q]) \cup {Copy(q)}
         \/ /\ Ready(queues'[q]) = Ready(queues[q])
            /\ \A p \in QUEUES \ {q} :
                  /\ Ready(queues'[p]) = Ready(queues[p]) \cup Held(queues[p])
                  /\ Held(queues'[p]) = {} /\ Buried(queues'[p]) = Buried(queues[p])
  BY Zenon, RetryIs
<1>2. UNCHANGED <<todo, accepted, sent, skipped>>
  BY Zenon DEF RetryAfterDelay
<1>3. "idle" \notin Sure /\ "idle" # "emails"
  BY DEF Sure
<1>4. \/ pc'["alerts"] = pc["alerts"] /\ msg'["alerts"] = msg["alerts"] /\ todo' = todo
      \/ pc'["alerts"] # "emails"
  BY Zenon, <1>1, <1>2, <1>3, QueuesAre
<1>5. ASSUME NEW p \in QUEUES
      PROVE  /\ All(queues[p]) \subseteq All(queues'[p])
             /\ p # q => Waits(queues[p]) \subseteq Waits(queues'[p])
  <2>1. CASE p = q
    BY Zenon, <1>1, <2>1 DEF All
  <2>2. CASE p # q /\ queues'[p] = queues[p]
    BY Zenon, <2>2
  <2>3. CASE /\ Ready(queues'[p]) = Ready(queues[p]) \cup Held(queues[p])
             /\ Held(queues'[p]) = {} /\ Buried(queues'[p]) = Buried(queues[p])
    BY Zenon, <2>3 DEF All, Waits
  <2> QED
    BY Zenon, <1>1, <2>1, <2>2, <2>3 DEF Local
<1>6. \A p \in QUEUES : \/ pc'[p] \notin Sure
                        \/ /\ pc'[p] = pc[p] /\ msg'[p] = msg[p]
                           /\ Waits(queues[p]) \subseteq Waits(queues'[p])
  BY Zenon, <1>1, <1>3, <1>5
<1> QED
  BY Zenon, <1>1, <1>2, <1>4, <1>5, <1>6, MoveLoss

\* A delivered message is held, a malformed one buried; a delivered alert starts
\* with every recipient to do.
LEMMA ConsumeLoss ==
    ASSUME QueueInv, DataInv, LossInv, NEW q \in QUEUES, Consume(q)
    PROVE  QueueInv' /\ LossInv'
<1>1. PICK m : /\ QueueInv' /\ Local(q) /\ pc[q] = "idle"
               /\ Ready(queues[q]) = Ready(queues'[q]) \cup {m} /\ Held(queues[q]) = {}
               /\ \/ /\ pc'[q] = "idle" /\ todo' = todo
                     /\ Buried(queues'[q]) = Buried(queues[q]) \cup {m}
                  \/ /\ pc'[q] = Start[q] /\ Held(queues'[q]) = {m}
                     /\ Buried(queues'[q]) = Buried(queues[q])
                     /\ todo' = IF q = "alerts" THEN Recipients ELSE todo
  BY Zenon, ConsumeIs
<1>2. UNCHANGED <<accepted, sent, skipped>>
  BY Zenon DEF Consume
<1>3. Grown
  BY Zenon, <1>2 DEF Grown
<1>4. "idle" \notin Sure /\ "idle" # "emails" /\ Start[q] \notin Sure /\ Start["alerts"] = "emails"
  BY QueuesAre DEF Sure, Start
<1>5. "alerts" \in QUEUES
  BY Zenon, QueuesAre
<1>6. TodoInv'
  <2>1. CASE q # "alerts"
    <3>1. pc'["alerts"] = pc["alerts"] /\ msg'["alerts"] = msg["alerts"] /\ todo' = todo
      BY Zenon, <1>1, <1>5, <2>1 DEF Local
    <3> QED
      BY Zenon, <1>3, <3>1, TodoKept
  <2>2. CASE pc'["alerts"] # "emails"
    BY Zenon, <1>3, <2>2, TodoKept
  <2>3. CASE todo' = Recipients
    BY Zenon, <2>3, SettingsAssumption DEF TodoInv
  <2> QED
    BY Zenon, <1>1, <1>4, <2>1, <2>2, <2>3
<1>7. \A p \in QUEUES : \A x \in All(queues[p]) : x \in All(queues'[p])
  BY Zenon, <1>1 DEF Local, All
<1>8. \A p \in QUEUES :
         \/ pc'[p] = pc[p] /\ msg'[p] = msg[p] /\ Waits(queues[p]) \subseteq Waits(queues'[p])
         \/ Acked(p)'
  BY Zenon, <1>1, <1>4 DEF Local, Acked
<1>9. \A j \in accepted' \ accepted : \E p \in QUEUES : j \in JobsIn(queues'[p])
  BY Zenon, <1>2
<1>10. LossInv'
  BY Zenon, <1>3, <1>6, <1>7, <1>8, <1>9, LossStep
<1> QED
  BY Zenon, <1>1, <1>10

\* The channel closes, the next process starts, a message expires.
LEMMA CloseChannelLoss ==
    ASSUME QueueInv, DataInv, LossInv, CloseChannel
    PROVE  QueueInv' /\ LossInv'
<1>1. /\ QueueInv' /\ UNCHANGED <<pc, msg, todo>>
      /\ \A p \in QUEUES : /\ Ready(queues'[p]) = Ready(queues[p]) \cup Held(queues[p])
                           /\ Held(queues'[p]) = {} /\ Buried(queues'[p]) = Buried(queues[p])
  BY Zenon, CloseChannelIs
<1>2. UNCHANGED <<accepted, sent, skipped>>
  BY Zenon DEF CloseChannel
<1>3. \A p \in QUEUES : /\ All(queues[p]) \subseteq All(queues'[p])
                        /\ Waits(queues[p]) \subseteq Waits(queues'[p])
  BY Zenon, <1>1 DEF All, Waits
<1> QED
  BY Zenon, <1>1, <1>2, <1>3, MoveLoss

\* A restarted worker has acknowledged nothing.
LEMMA RestartWorkerLoss ==
    ASSUME QueueInv, DataInv, LossInv, RestartWorker
    PROVE  QueueInv' /\ LossInv'
<1>1. QueueInv' /\ UNCHANGED queues /\ \A p \in QUEUES : pc'[p] = "idle"
  BY Zenon, RestartWorkerInv
<1>2. UNCHANGED <<accepted, sent, skipped>>
  BY Zenon DEF RestartWorker
<1>3. "idle" \notin Sure /\ "idle" # "emails" /\ "alerts" \in QUEUES
  BY QueuesAre DEF Sure
<1> QED
  BY Zenon, <1>1, <1>2, <1>3, MoveLoss

\* An expired job is a dead letter.
LEMMA ExpireJobLoss ==
    ASSUME QueueInv, DataInv, LossInv, NEW q \in QUEUES, ExpireJob(q)
    PROVE  QueueInv' /\ LossInv'
<1>1. PICK m : /\ QueueInv' /\ Local(q) /\ UNCHANGED <<pc, msg, todo>>
               /\ Ready(queues[q]) = Ready(queues'[q]) \cup {m}
               /\ Held(queues'[q]) = Held(queues[q])
               /\ Buried(queues'[q]) = Buried(queues[q]) \cup {m}
  BY Zenon, ExpireJobIs
<1>2. UNCHANGED <<accepted, sent, skipped>>
  BY Zenon DEF ExpireJob
<1>3. \A p \in QUEUES : /\ All(queues[p]) \subseteq All(queues'[p])
                        /\ Waits(queues[p]) \subseteq Waits(queues'[p])
  BY Zenon, <1>1 DEF Local, All, Waits
<1> QED
  BY Zenon, <1>1, <1>2, <1>3, MoveLoss

\* A round of the alert handler adds the recipient's email, or the reason there is none.
LEMMA AlertEmailLoss ==
    ASSUME QueueInv, DataInv, LossInv, AlertEmail
    PROVE  QueueInv' /\ LossInv' /\ accepted' \subseteq AllJobs /\ Published
<1> DEFINE k == msg["alerts"].job[2]
           j == EmailJob(k, Head(todo))
<1>1. /\ pc["alerts"] = "emails" /\ todo # <<>> /\ todo' = Tail(todo)
      /\ UNCHANGED <<pc, msg, chan, sent>>
      /\ \/ skipped' = skipped \cup {j} /\ UNCHANGED <<queues, accepted>>
         \/ SendAll("emails", <<j>>) /\ UNCHANGED skipped
  BY Zenon DEF AlertEmail
<1>2. /\ todo \in Seq(Range1(Recipients))
      /\ \A r \in Range1(Recipients) : r \in Range1(todo) \/ Seen(k, r)
  BY Zenon, <1>1 DEF LossInv, TodoInv
<1>3. /\ Head(todo) \in Range1(Recipients) /\ Tail(todo) \in Seq(Range1(Recipients))
      /\ Range1(todo) = {Head(todo)} \cup Range1(Tail(todo))
  BY <1>1, <1>2, TailRange
<1>4. "alerts" \in QUEUES /\ "emails" \in QUEUES /\ "emails" # "idle"
  BY QueuesAre
<1>5. k \in Keys
  BY Zenon, <1>1, <1>4, HandlerIs, JobsAre
<1>6. j \in Jobs["emails"]
  BY Zenon, <1>3, <1>5, JobsAre
<1> HIDE DEF j
<1>7. <<j>> \in Seq(Jobs["emails"]) /\ Range1(<<j>>) = {j}
  BY Zenon, <1>6, OneHeld
<1>8. \/ skipped' = skipped \cup {j} /\ UNCHANGED <<queues, accepted>>
      \/ /\ Gains("emails", {Msg(i, 0) : i \in {j}}) /\ accepted' = accepted \cup {j}
         /\ UNCHANGED skipped
  BY Zenon, <1>1, <1>4, <1>7, SendAllIs
<1>9. Grown
  BY Zenon, <1>1, <1>8 DEF Grown
<1>10. TodoInv'
  <2>1. j \in accepted' \cup skipped'
    BY Zenon, <1>8
  <2>2. ASSUME NEW r \in Range1(Recipients) PROVE r \in Range1(Tail(todo)) \/ Seen(k, r)'
    <3>1. CASE r = Head(todo)
      BY Zenon, <2>1, <3>1, <1>1 DEF Seen, j
    <3>2. CASE r # Head(todo)
      BY Zenon, <1>2, <1>3, <1>9, <3>2, <1>1 DEF Seen, Grown
    <3> QED
      BY Zenon, <3>1, <3>2
  <2> QED
    BY Zenon, <1>1, <1>3, <2>2 DEF TodoInv, Seen
<1>11. CASE UNCHANGED <<queues, accepted>>
  <2>1. QueueInv'
    BY Zenon, <1>1, <1>11 DEF QueueInv, WorkInv
  <2> QED
    BY Zenon, <1>1, <1>9, <1>10, <1>11, <2>1, LossStep DEF DataInv, Published
<1>12. CASE Gains("emails", {Msg(i, 0) : i \in {j}}) /\ accepted' = accepted \cup {j}
  <2>1. QueueInv'
    BY Zenon, <1>1, <1>4, <1>12, GainsInv
  <2>2. /\ \A p \in QUEUES : /\ All(queues[p]) \subseteq All(queues'[p])
                             /\ Waits(queues[p]) \subseteq Waits(queues'[p])
        /\ \A m \in {Msg(i, 0) : i \in {j}} : m.job \in JobsIn(queues'["emails"])
    BY Zenon, <1>4, <1>12, GainsKeep
  <2>3. j \in JobsIn(queues'["emails"])
    BY Zenon, <1>4, <1>6, <2>2, NewMsg
  <2>4. LossInv'
    BY Zenon, <1>1, <1>4, <1>9, <1>10, <1>12, <2>2, <2>3, LossStep
  <2>5. Published
    <3>1. {j} \in SUBSET (Jobs["emails"] \cup {Malformed})
      BY Zenon, <1>6
    <3> QED
      BY Zenon, <1>4, <1>12, <3>1 DEF Published
  <2> QED
    BY Zenon, <1>4, <1>6, <1>12, <2>1, <2>4, <2>5, JobsAre DEF DataInv
<1> QED
  BY Zenon, <1>8, <1>11, <1>12

\* With its webhooks an alert is complete.
LEMMA AlertWebhooksLoss ==
    ASSUME CountsRows, QueueInv, DataInv, LossInv, AlertWebhooks
    PROVE  QueueInv' /\ LossInv' /\ accepted' \subseteq AllJobs /\ Published
<1> DEFINE k == msg["alerts"].job[2]
           on == {ep \in Endpoints : endpoints[ep] = "on"}
           J == {WebhookJob(k, ep) : ep \in on}
           N == {WebhookJob(k, ep) : ep \in Endpoints \ on}
           A == {WebhookJob(k, ep) : ep \in Endpoints}
<1>1. /\ pc["alerts"] = "emails" /\ todo = <<>> /\ Goto("alerts", "ack")
      /\ UNCHANGED <<todo, chan, sent>>
      /\ \/ /\ \E eps \in Orders(on) :
                  SendAll("webhooks", [i \in DOMAIN eps |-> WebhookJob(k, eps[i])])
            /\ skipped' = skipped \cup N
         \/ skipped' = skipped \cup A /\ UNCHANGED <<queues, accepted>>
  BY Zenon DEF AlertWebhooks
<1>2. "alerts" \in QUEUES /\ "webhooks" \in QUEUES /\ "emails" # "idle" /\ "ack" # "idle"
  BY QueuesAre
<1>3. k \in Keys /\ msg["alerts"].job \in Jobs["alerts"] /\ msg["alerts"].job = AlertJob(k)
  <2>1. msg["alerts"].job \in Jobs["alerts"]
    BY Zenon, <1>1, <1>2, HandlerIs
  <2>2. PICK x \in Keys : msg["alerts"].job = AlertJob(x)
    BY Zenon, <2>1, QueuesAre
  <2> QED
    BY Zenon, <2>1, <2>2, JobsAre
<1>4. pc' = [pc EXCEPT !["alerts"] = "ack"] /\ UNCHANGED msg
  BY Zenon, <1>1, <1>2 DEF Goto
<1>5. J \subseteq Jobs["webhooks"] /\ A \subseteq J \cup N
  <2>1. \A ep \in Endpoints : WebhookJob(k, ep) \in Jobs["webhooks"]
    BY Zenon, <1>3, JobsAre
  <2>2. A \subseteq J \cup N
    BY Zenon
  <2>3. J \subseteq Jobs["webhooks"]
    BY Zenon, <2>1
  <2> QED
    BY Zenon, <2>2, <2>3
<1>6. \/ /\ Gains("webhooks", {Msg(i, 0) : i \in J}) /\ accepted' = accepted \cup J
         /\ skipped' = skipped \cup N
      \/ skipped' = skipped \cup A /\ UNCHANGED <<queues, accepted>>
  <2>1. on \in SUBSET Endpoints
    BY Zenon
  <2>2. \A ep \in on : WebhookJob(k, ep) \in Jobs["webhooks"]
    BY Zenon, <1>3, JobsAre
  <2>3. J = {WebhookJob(k, ep) : ep \in on}
    OBVIOUS
  <2> HIDE DEF on, J, k, N
  <2>4. ASSUME NEW eps \in Orders(on),
               SendAll("webhooks", [i \in DOMAIN eps |-> WebhookJob(k, eps[i])])
        PROVE  Gains("webhooks", {Msg(i, 0) : i \in J}) /\ accepted' = accepted \cup J
    <3> DEFINE js == [i \in DOMAIN eps |-> WebhookJob(k, eps[i])]
    <3>1. eps \in Seq(on) /\ Range1(eps) = on
      BY Zenon, <2>1, OrdersAre DEF CountsRows
    <3>2. js \in Seq(Jobs["webhooks"])
      BY <2>2, <3>1
    <3>3. Range1(js) = J
      BY Zenon, <2>3, <3>1 DEF Range1
    <3>4. SendAll("webhooks", js)
      BY Zenon, <2>4
    <3> HIDE DEF js
    <3> QED
      BY Zenon, <1>2, <3>2, <3>3, <3>4, SendAllIs
  <2> QED
    BY Zenon, <1>1, <2>4
<1> HIDE DEF on, J, N, A
<1>7. Grown
  BY Zenon, <1>1, <1>6 DEF Grown
<1>8. pc'["alerts"] = "ack" /\ \A p \in QUEUES \ {"alerts"} : pc'[p] = pc[p]
  BY Zenon, <1>2, <1>4 DEF QueueInv
<1>9. TodoInv'
  BY Zenon, <1>7, <1>8, TodoKept
<1>10. Finished(msg["alerts"].job)'
  <2>1. A \subseteq accepted' \cup skipped'
    BY Zenon, <1>5, <1>6
  <2>2. \A r \in Range1(Recipients) : EmailJob(k, r) \in accepted' \cup skipped'
    <3>1. Range1(todo) = {}
      BY <1>1 DEF Range1
    <3>2. \A r \in Range1(Recipients) : Seen(k, r)
      BY Zenon, <1>1, <3>1 DEF LossInv, TodoInv
    <3> QED
      BY Zenon, <1>7, <3>2 DEF Seen, Grown
  <2>3. FanOut(k) \subseteq accepted' \cup skipped'
    BY Zenon, <2>1, <2>2 DEF FanOut, A
  <2> QED
    BY Zenon, <1>3, <1>4, <2>3 DEF Finished
<1>11. Acked("alerts")'
  BY Zenon, <1>10 DEF Acked
<1>12. CASE UNCHANGED <<queues, accepted>>
  <2>1. "ack" \in LabelsOf["alerts"] \ {"idle"} /\ ~("ack" \in {"requeue", "wait"})
    BY DEF LabelsOf
  <2>2. QueueInv'
    BY Zenon, <1>1, <1>2, <1>12, <2>1, GotoInv
  <2> QED
    BY Zenon, <1>4, <1>7, <1>8, <1>9, <1>11, <1>12, <2>2, LossStep DEF DataInv, Published
<1>13. CASE Gains("webhooks", {Msg(i, 0) : i \in J}) /\ accepted' = accepted \cup J
  <2>1. QueueInv'
    BY Zenon, <1>1, <1>2, <1>4, <1>13, GainsInv
  <2>2. /\ \A p \in QUEUES : /\ All(queues[p]) \subseteq All(queues'[p])
                             /\ Waits(queues[p]) \subseteq Waits(queues'[p])
        /\ \A m \in {Msg(i, 0) : i \in J} : m.job \in JobsIn(queues'["webhooks"])
    BY Zenon, <1>2, <1>13, GainsKeep
  <2>3. ASSUME NEW j \in J PROVE j \in JobsIn(queues'["webhooks"])
    <3>1. j \in Jobs["webhooks"] \cup {Malformed} /\ Msg(j, 0) \in {Msg(i, 0) : i \in J}
      BY Zenon, <1>5, <2>3
    <3> QED
      BY Zenon, <1>2, <2>2, <3>1, NewMsg
  <2>4. LossInv'
    BY Zenon, <1>2, <1>4, <1>7, <1>8, <1>9, <1>11, <1>13, <2>2, <2>3, LossStep
  <2>5. Published
    <3>1. J \in SUBSET (Jobs["webhooks"] \cup {Malformed})
      BY Zenon, <1>5
    <3> QED
      BY Zenon, <1>2, <1>13, <3>1 DEF Published
  <2> QED
    BY Zenon, <1>2, <1>5, <1>13, <2>1, <2>4, <2>5, JobsAre DEF DataInv
<1> QED
  BY Zenon, <1>6, <1>12, <1>13

\* A call is counted when it arrives.
LEMMA CallIs ==
    ASSUME QueueInv, DataInv, NEW q \in QUEUES \ {"alerts"}, pc[q] # "idle", NEW j, j = msg[q].job,
           NEW got \in BOOLEAN, NEW ok \in BOOLEAN, Call(q, got, ok), UNCHANGED <<accepted, skipped>>
    PROVE  Grown /\ sent' \in [AllJobs -> Nat] /\ (ok => Finished(j)')
<1>1. j \in Jobs[q] /\ j # Malformed /\ j \in AllJobs
  BY Zenon, HandlerIs, JobsAre
<1>2. (ok => got) /\ sent' = IF got THEN [sent EXCEPT ![j] = sent[j] + 1] ELSE sent
  BY Zenon DEF Call
<1>3. sent \in [AllJobs -> Nat]
  BY Zenon DEF DataInv
<1>4. /\ sent' \in [AllJobs -> Nat] /\ \A i \in AllJobs : sent[i] > 0 => sent'[i] > 0
      /\ got => sent'[j] > 0
  BY <1>1, <1>2, <1>3
<1>5. Grown
  BY Zenon, <1>4 DEF Grown
<1>6. ok => Finished(j)'
  <2>1. j \notin Jobs["alerts"]
    BY Zenon, <1>1, NotAlert
  <2> QED
    BY Zenon, <1>2, <1>4, <2>1 DEF Finished
<1> QED
  BY Zenon, <1>4, <1>5, <1>6

\* A handler goes on: the queues are as they were.
LEMMA GoOnLoss ==
    ASSUME QueueInv, DataInv, LossInv, NEW q \in QUEUES \ {"alerts"}, pc[q] # "idle",
           NEW l \in LabelsOf[q] \ {"idle"}, Goto(q, l),
           UNCHANGED <<queues, chan, todo, accepted, skipped>>, Grown,
           l \in {"requeue", "wait"} => msg[q].retry + 1 \in Retries(q),
           NEW j, j = msg[q].job,
           l \in Sure => Finished(j)' \/ pc[q] \in Sure
    PROVE  QueueInv' /\ LossInv'
<1>1. QueueInv' /\ Local(q) /\ pc'[q] = l /\ UNCHANGED <<msg, queues>>
  BY Zenon, GotoInv
<1>2. pc'["alerts"] = pc["alerts"] /\ msg'["alerts"] = msg["alerts"]
  BY Zenon, <1>1, QueuesAre DEF Local
<1>3. TodoInv'
  BY Zenon, <1>2, TodoKept
<1>4. Acked(q)'
  <2>1. CASE l \notin Sure
    BY Zenon, <1>1, <2>1 DEF Acked
  <2>2. CASE Finished(j)'
    BY Zenon, <1>1, <2>2 DEF Acked
  <2>3. CASE pc[q] \in Sure
    <3>1. Finished(j) \/ \E m \in Waits(queues[q]) : m.job = j
      BY Zenon, <2>3 DEF LossInv, Acked
    <3>2. j \in AllJobs
      BY Zenon, HandlerIs, JobsAre
    <3>3. Finished(j) => Finished(j)'
      BY Zenon, <3>2, FinishedKept
    <3> QED
      BY Zenon, <1>1, <3>1, <3>3 DEF Acked
  <2> QED
    BY Zenon, <2>1, <2>2, <2>3
<1>5. \A p \in QUEUES :
         \/ pc'[p] = pc[p] /\ msg'[p] = msg[p] /\ Waits(queues[p]) \subseteq Waits(queues'[p])
         \/ Acked(p)'
  BY Zenon, <1>1, <1>4 DEF Local
<1>6. LossInv'
  BY Zenon, <1>1, <1>3, <1>5, LossStep
<1> QED
  BY Zenon, <1>1, <1>6

\* Not exhausted, so there is a retry left.
LEMMA RetryLeft ==
    ASSUME QueueInv, NEW q \in QUEUES, pc[q] # "idle", ~Exhausted(q)
    PROVE  msg[q].retry + 1 \in Retries(q)
<1>1. msg[q].retry \in Retries(q) /\ MaxRetries[q] \in Nat
  BY Zenon, HandlerIs, JobsAssumption
<1> QED
  BY <1>1 DEF Exhausted, Retries

\* The steps of the handlers that deliver.
LEMMA SendEmailLoss ==
    ASSUME QueueInv, DataInv, LossInv, SendEmail
    PROVE  QueueInv' /\ LossInv' /\ sent' \in [AllJobs -> Nat]
<1>1. PICK got \in BOOLEAN, ok \in BOOLEAN, refused \in BOOLEAN :
         /\ Call("emails", got, ok)
         /\ Goto("emails", IF ok THEN "ack"
                           ELSE IF refused \/ Exhausted("emails") THEN "nack" ELSE "requeue")
  BY Zenon DEF SendEmail
<1> DEFINE l == IF ok THEN "ack" ELSE IF refused \/ Exhausted("emails") THEN "nack" ELSE "requeue"
<1>2. pc["emails"] = "send" /\ UNCHANGED <<queues, todo, chan, accepted, skipped>>
  BY Zenon DEF SendEmail
<1>3. "emails" \in QUEUES \ {"alerts"} /\ "send" # "idle"
  BY QueuesAre
<1>4. l \in LabelsOf["emails"] \ {"idle"} /\ (l \in Sure => ok) /\ l # "wait"
  BY DEF LabelsOf, Sure
<1>5. l = "requeue" => ~Exhausted("emails")
  OBVIOUS
<1>6. Goto("emails", l)
  BY Zenon, <1>1
<1> HIDE DEF l
<1>7. PICK j : j = msg["emails"].job
  BY Zenon
<1>8. Grown /\ sent' \in [AllJobs -> Nat] /\ (ok => Finished(j)')
  BY Zenon, <1>1, <1>2, <1>3, <1>7, CallIs
<1>9. l \in {"requeue", "wait"} => msg["emails"].retry + 1 \in Retries("emails")
  BY Zenon, <1>2, <1>3, <1>4, <1>5, RetryLeft
<1> QED
  BY Zenon, <1>2, <1>3, <1>4, <1>6, <1>7, <1>8, <1>9, GoOnLoss

\* An export is done, retried or refused.
LEMMA PostExportLoss ==
    ASSUME QueueInv, DataInv, LossInv, PostExport
    PROVE  QueueInv' /\ LossInv' /\ sent' \in [AllJobs -> Nat]
<1>1. PICK got \in BOOLEAN, ok \in BOOLEAN :
         /\ Call("exports", got, ok)
         /\ Goto("exports", IF ok THEN "ack"
                            ELSE IF Exhausted("exports") THEN "nack" ELSE "wait")
  BY Zenon DEF PostExport
<1> DEFINE l == IF ok THEN "ack" ELSE IF Exhausted("exports") THEN "nack" ELSE "wait"
<1>2. pc["exports"] = "post" /\ UNCHANGED <<queues, todo, chan, accepted, skipped>>
  BY Zenon DEF PostExport
<1>3. "exports" \in QUEUES \ {"alerts"} /\ "post" # "idle"
  BY QueuesAre
<1>4. l \in LabelsOf["exports"] \ {"idle"} /\ (l \in Sure => ok) /\ l # "requeue"
  BY DEF LabelsOf, Sure
<1>5. l = "wait" => ~Exhausted("exports")
  OBVIOUS
<1>6. Goto("exports", l)
  BY Zenon, <1>1
<1> HIDE DEF l
<1>7. PICK j : j = msg["exports"].job
  BY Zenon
<1>8. Grown /\ sent' \in [AllJobs -> Nat] /\ (ok => Finished(j)')
  BY Zenon, <1>1, <1>2, <1>3, <1>7, CallIs
<1>9. l \in {"requeue", "wait"} => msg["exports"].retry + 1 \in Retries("exports")
  BY Zenon, <1>2, <1>3, <1>4, <1>5, RetryLeft
<1> QED
  BY Zenon, <1>2, <1>3, <1>4, <1>6, <1>7, <1>8, <1>9, GoOnLoss

\* A webhook is posted, or the attempt failed.
LEMMA DeliverWebhookLoss ==
    ASSUME QueueInv, DataInv, LossInv, DeliverWebhook
    PROVE  QueueInv' /\ LossInv' /\ sent' \in [AllJobs -> Nat]
<1>1. PICK got \in BOOLEAN, ok \in BOOLEAN :
         /\ Call("webhooks", got, ok)
         /\ Goto("webhooks", IF ok THEN "statusOk" ELSE AfterError)
  BY Zenon DEF DeliverWebhook
<1> DEFINE l == IF ok THEN "statusOk" ELSE AfterError
<1>2. pc["webhooks"] = "deliver" /\ UNCHANGED <<queues, todo, chan, accepted, skipped>>
  BY Zenon DEF DeliverWebhook
<1>3. "webhooks" \in QUEUES \ {"alerts"} /\ "deliver" # "idle"
  BY QueuesAre
<1>4. l \in LabelsOf["webhooks"] \ {"idle"} /\ (l \in Sure => ok) /\ l # "requeue"
  BY DEF LabelsOf, Sure, AfterError
<1>5. l = "wait" => ~Exhausted("webhooks")
  BY DEF AfterError
<1>6. Goto("webhooks", l)
  BY Zenon, <1>1
<1> HIDE DEF l
<1>7. PICK j : j = msg["webhooks"].job
  BY Zenon
<1>8. Grown /\ sent' \in [AllJobs -> Nat] /\ (ok => Finished(j)')
  BY Zenon, <1>1, <1>2, <1>3, <1>7, CallIs
<1>9. l \in {"requeue", "wait"} => msg["webhooks"].retry + 1 \in Retries("webhooks")
  BY Zenon, <1>2, <1>3, <1>4, <1>5, RetryLeft
<1> QED
  BY Zenon, <1>2, <1>3, <1>4, <1>6, <1>7, <1>8, <1>9, GoOnLoss

\* An acknowledgement that throws changes no queue.
LEMMA AckThrowsLoss ==
    ASSUME QueueInv, DataInv, LossInv, AckThrows
    PROVE  QueueInv' /\ LossInv'
<1> DEFINE l == AfterError
<1>1. /\ pc["webhooks"] = "ack" /\ Goto("webhooks", l)
      /\ UNCHANGED <<queues, todo, chan, accepted, sent, skipped>>
  BY Zenon DEF AckThrows
<1>2. "webhooks" \in QUEUES \ {"alerts"} /\ pc["webhooks"] # "idle"
  BY <1>1, QueuesAre
<1>3. l \in LabelsOf["webhooks"] \ {"idle"} /\ l \notin Sure /\ l # "requeue"
  BY DEF LabelsOf, Sure, AfterError
<1>4. l = "wait" => ~Exhausted("webhooks")
  BY DEF AfterError
<1> HIDE DEF l
<1>5. PICK j : j = msg["webhooks"].job
  BY Zenon
<1>6. Grown
  BY Zenon, <1>1 DEF Grown
<1>7. l \in {"requeue", "wait"} => msg["webhooks"].retry + 1 \in Retries("webhooks")
  BY Zenon, <1>2, <1>3, <1>4, RetryLeft
<1> QED
  BY Zenon, <1>1, <1>2, <1>3, <1>5, <1>6, <1>7, GoOnLoss

\* Neither does the endpoint's status.
LEMMA UpdateEndpointStatusLoss ==
    ASSUME QueueInv, DataInv, LossInv, UpdateEndpointStatus
    PROVE  QueueInv' /\ LossInv'
<1> DEFINE l == IF pc["webhooks"] = "statusOk" THEN "ack" ELSE "nack"
<1>1. /\ pc["webhooks"] \in {"statusOk", "statusFail"} /\ Goto("webhooks", l)
      /\ UNCHANGED <<queues, todo, chan, accepted, sent, skipped>>
  BY Zenon DEF UpdateEndpointStatus
<1>2. "webhooks" \in QUEUES \ {"alerts"} /\ pc["webhooks"] # "idle"
  BY <1>1, QueuesAre
<1>3. /\ l \in LabelsOf["webhooks"] \ {"idle"} /\ (l \in Sure => pc["webhooks"] \in Sure)
      /\ l \notin {"requeue", "wait"}
  BY DEF LabelsOf, Sure
<1> HIDE DEF l
<1>4. PICK j : j = msg["webhooks"].job
  BY Zenon
<1>5. Grown
  BY Zenon, <1>1 DEF Grown
<1> QED
  BY Zenon, <1>1, <1>2, <1>3, <1>4, <1>5, GoOnLoss

-----------------------------------------------------------------------------
(* Every step. *)

\* A handler's label is a label.
LEMMA GotoLabel ==
    ASSUME pc \in [QUEUES -> Labels], NEW q \in QUEUES, NEW l \in Labels, Goto(q, l)
    PROVE  pc' \in [QUEUES -> Labels]
BY Zenon DEF Goto

\* The types of what the gateway and the handlers write.
LEMMA DataStep ==
    ASSUME QueueInv, DataInv, Next, accepted' \subseteq AllJobs, sent' \in [AllJobs -> Nat]
    PROVE  DataInv'
<1>t. /\ pc \in [QUEUES -> Labels] /\ prefs \in [Range1(Recipients) -> Row]
      /\ endpoints \in [Endpoints -> {"absent", "off", "on", "deleted"}]
      /\ lastError \subseteq Endpoints
  BY Zenon DEF DataInv
<1>q. {"alerts", "emails", "webhooks", "exports"} \subseteq QUEUES
  BY QueuesAre
<1>l. {"idle", "ack", "send", "requeue", "nack", "wait", "statusOk", "statusFail"} \subseteq Labels
  BY DEF Labels
<1>1. ASSUME UNCHANGED <<prefs, endpoints, lastError>>, pc' \in [QUEUES -> Labels] PROVE DataInv'
  BY Zenon, <1>t, <1>1 DEF DataInv
<1>2. ASSUME UNCHANGED <<workVars, dataVars>> PROVE DataInv'
  BY Zenon, <1>1, <1>2, <1>t DEF workVars, dataVars
<1>3. CASE WorkflowStep \/ RestartWorkflow \/ Tick \/ RunDigestCycle
  BY Zenon, <1>2, <1>3 DEF WorkflowStep, EachMessage, PublishAlert, RestartWorkflow, Tick,
     RunDigestCycle
<1>4. CASE CloseChannel
  BY Zenon, <1>1, <1>4, <1>t DEF CloseChannel, dataVars
<1>5. CASE RestartWorker
  <2>1. pc' = [q \in QUEUES |-> "idle"] /\ UNCHANGED <<prefs, endpoints, lastError>>
    BY Zenon, <1>5 DEF RestartWorker, dataVars
  <2>2. pc' \in [QUEUES -> Labels]
    BY Zenon, <1>l, <2>1
  <2> QED
    BY Zenon, <1>1, <2>1, <2>2
<1>6. ASSUME NEW r \in Range1(Recipients), PutPreferences(r) PROVE DataInv'
  <2>1. PICK row \in Row : prefs' = [prefs EXCEPT ![r] = row]
    <3>1. PICK a \in BOOLEAN, d \in BOOLEAN, ls \in {Levels, {"critical"}} :
             prefs' = [prefs EXCEPT ![r] = [alerts |-> a, digest |-> d, levels |-> ls]]
      BY Zenon, <1>6 DEF PutPreferences
    <3>2. [alerts |-> a, digest |-> d, levels |-> ls] \in Row
      BY DEF Row, Levels
    <3> QED
      BY Zenon, <3>1, <3>2
  <2>2. prefs' \in [Range1(Recipients) -> Row]
    BY Zenon, <1>t, <2>1
  <2>3. UNCHANGED <<pc, endpoints, lastError>>
    BY Zenon, <1>6 DEF PutPreferences, workVars
  <2> QED
    BY Zenon, <1>t, <2>2, <2>3 DEF DataInv
<1>7. ASSUME NEW ep \in Endpoints, EditEndpoint(ep) PROVE DataInv'
  <2>1. PICK s \in {"off", "on", "deleted"} :
           /\ endpoints' = [endpoints EXCEPT ![ep] = s]
           /\ lastError' = lastError \ {ep} \/ lastError' = lastError
    BY Zenon, <1>7 DEF EditEndpoint
  <2>2. s \in {"absent", "off", "on", "deleted"}
    BY Zenon
  <2>3. endpoints' \in [Endpoints -> {"absent", "off", "on", "deleted"}]
    BY Zenon, <1>t, <2>1, <2>2
  <2>4. UNCHANGED <<pc, prefs>>
    BY Zenon, <1>7 DEF EditEndpoint, workVars
  <2>5. lastError' \subseteq Endpoints
    BY Zenon, <1>t, <2>1
  <2> QED
    BY Zenon, <1>t, <2>3, <2>4, <2>5 DEF DataInv
<1>8. ASSUME NEW q \in QUEUES, ExpireJob(q) PROVE DataInv'
  BY Zenon, <1>2, <1>8 DEF ExpireJob
<1>9. ASSUME NEW p \in Produced, PublishJob(p[1], p[2]) PROVE DataInv'
  BY Zenon, <1>2, <1>9 DEF PublishJob
<1>10. ASSUME NEW q \in QUEUES, HandlerStep(q) PROVE DataInv'
  <2>1. CASE Consume(q)
    <3>1. UNCHANGED <<prefs, endpoints, lastError>>
      BY Zenon, <2>1 DEF Consume, dataVars
    <3>2. pc' = pc \/ pc' = [pc EXCEPT ![q] = Start[q]]
      BY Zenon, <2>1 DEF Consume
    <3>3. Start[q] \in Labels
      BY QueuesAre DEF Start, Labels
    <3>4. pc' \in [QUEUES -> Labels]
      BY Zenon, <1>t, <3>2, <3>3
    <3> QED
      BY Zenon, <1>1, <3>1, <3>4
  <2>2. CASE AckJob(q) \/ NackJob(q) \/ RequeueCopy(q)
    <3>1. UNCHANGED <<prefs, endpoints, lastError>> /\ (Goto(q, "idle") \/ Goto(q, "ack"))
      BY Zenon, <2>2 DEF AckJob, NackJob, RequeueCopy, OnChannel, dataVars
    <3>2. pc' \in [QUEUES -> Labels]
      BY Zenon, <1>t, <1>l, <3>1, GotoLabel
    <3> QED
      BY Zenon, <1>1, <3>1, <3>2
  <2>3. CASE RetryAfterDelay(q)
    <3>1. UNCHANGED <<prefs, endpoints, lastError>> /\ Goto(q, "idle")
      BY Zenon, <2>3 DEF RetryAfterDelay, dataVars
    <3>2. pc' \in [QUEUES -> Labels]
      BY Zenon, <1>t, <1>l, <3>1, GotoLabel
    <3> QED
      BY Zenon, <1>1, <3>1, <3>2
  <2>4. CASE AlertEmail
    BY Zenon, <1>1, <1>t, <2>4 DEF AlertEmail, dataVars
  <2>5. CASE AlertWebhooks
    <3>1. UNCHANGED <<prefs, endpoints, lastError>> /\ Goto("alerts", "ack")
      BY Zenon, <2>5 DEF AlertWebhooks, dataVars
    <3>2. pc' \in [QUEUES -> Labels]
      BY Zenon, <1>t, <1>q, <1>l, <3>1, GotoLabel
    <3> QED
      BY Zenon, <1>1, <3>1, <3>2
  <2>6. CASE SendEmail
    <3>1. PICK l \in {"ack", "nack", "requeue"} :
             UNCHANGED <<prefs, endpoints, lastError>> /\ Goto("emails", l)
      BY <2>6 DEF SendEmail, dataVars
    <3>2. pc' \in [QUEUES -> Labels]
      BY Zenon, <1>t, <1>q, <1>l, <3>1, GotoLabel
    <3> QED
      BY Zenon, <1>1, <3>1, <3>2
  <2>7. CASE PostExport
    <3>1. PICK l \in {"ack", "nack", "wait"} :
             UNCHANGED <<prefs, endpoints, lastError>> /\ Goto("exports", l)
      BY <2>7 DEF PostExport, dataVars
    <3>2. pc' \in [QUEUES -> Labels]
      BY Zenon, <1>t, <1>q, <1>l, <3>1, GotoLabel
    <3> QED
      BY Zenon, <1>1, <3>1, <3>2
  <2>8. CASE DeliverWebhook
    <3>1. PICK l \in {"statusOk", "statusFail", "wait"} :
             UNCHANGED <<prefs, endpoints, lastError>> /\ Goto("webhooks", l)
      BY <2>8 DEF DeliverWebhook, AfterError, dataVars
    <3>2. pc' \in [QUEUES -> Labels]
      BY Zenon, <1>t, <1>q, <1>l, <3>1, GotoLabel
    <3> QED
      BY Zenon, <1>1, <3>1, <3>2
  <2>9. CASE AckThrows
    <3>1. PICK l \in {"statusFail", "wait"} :
             UNCHANGED <<prefs, endpoints, lastError>> /\ Goto("webhooks", l)
      BY <2>9 DEF AckThrows, AfterError, dataVars
    <3>2. pc' \in [QUEUES -> Labels]
      BY Zenon, <1>t, <1>q, <1>l, <3>1, GotoLabel
    <3> QED
      BY Zenon, <1>1, <3>1, <3>2
  <2>10. CASE UpdateEndpointStatus
    <3> DEFINE ep == msg["webhooks"].job[3]
    <3>1. pc["webhooks"] # "idle"
      BY <2>10 DEF UpdateEndpointStatus
    <3>2. ep \in Endpoints
      BY Zenon, <1>q, <3>1, HandlerIs, JobsAre
    <3>3. lastError' \in {lastError, lastError \ {ep}, lastError \cup {ep}}
      BY <2>10 DEF UpdateEndpointStatus
    <3>4. lastError' \subseteq Endpoints
      BY Zenon, <1>t, <3>2, <3>3
    <3>5. PICK l \in {"ack", "nack"} : UNCHANGED <<prefs, endpoints>> /\ Goto("webhooks", l)
      BY <2>10 DEF UpdateEndpointStatus
    <3>6. pc' \in [QUEUES -> Labels]
      BY Zenon, <1>t, <1>q, <1>l, <3>5, GotoLabel
    <3> QED
      BY Zenon, <1>t, <3>4, <3>5, <3>6 DEF DataInv
  <2> QED
    BY Zenon, <1>10, <2>1, <2>2, <2>3, <2>4, <2>5, <2>6, <2>7, <2>8, <2>9, <2>10 DEF HandlerStep
<1> QED
  BY Zenon, <1>3, <1>4, <1>5, <1>6, <1>7, <1>8, <1>9, <1>10 DEF Next, Step

JobInv == QueueInv /\ DataInv /\ LossInv

\* What a step has to show.
After == /\ QueueInv' /\ LossInv'
         /\ accepted' \subseteq AllJobs /\ sent' \in [AllJobs -> Nat]

\* Steps outside the jobs-worker.
LEMMA OutsideStep ==
    ASSUME CountsRows, FlowInv, JobInv, Next,
           \/ WorkflowStep \/ RestartWorkflow \/ Tick \/ RunDigestCycle
           \/ \E r \in Range1(Recipients) : PutPreferences(r)
           \/ \E ep \in Endpoints : EditEndpoint(ep)
           \/ \E p \in Produced : PublishJob(p[1], p[2])
    PROVE  After
<1>1. /\ QueueInv /\ DataInv /\ LossInv /\ FlowTypes
      /\ accepted \subseteq AllJobs /\ sent \in [AllJobs -> Nat]
  BY Zenon DEF JobInv, FlowInv, DataInv
<1>2. ASSUME UNCHANGED <<queues, workVars, accepted, sent, skipped>> PROVE QueueInv' /\ LossInv'
  BY Zenon, <1>1, <1>2, IdleLoss
<1>5. CASE EachMessage \/ RestartWorkflow \/ Tick
  <2>1. UNCHANGED <<queues, workVars, accepted, sent, skipped>>
    BY Zenon, <1>5 DEF EachMessage, RestartWorkflow, Tick
  <2> QED
    BY Zenon, <1>1, <1>2, <2>1 DEF After
<1>6. CASE PublishAlert
  <2>1. UNCHANGED sent
    BY Zenon, <1>6 DEF PublishAlert
  <2> QED
    BY Zenon, <1>1, <1>6, <2>1, PublishAlertLoss DEF After
<1>7. CASE RunDigestCycle
  <2>1. UNCHANGED sent
    BY Zenon, <1>7 DEF RunDigestCycle
  <2> QED
    BY Zenon, <1>1, <1>7, <2>1, RunDigestCycleLoss DEF After
<1>8. ASSUME NEW p \in Produced, PublishJob(p[1], p[2]) PROVE After
  <2>1. UNCHANGED sent
    BY Zenon, <1>8 DEF PublishJob
  <2> QED
    BY Zenon, <1>1, <1>8, <2>1, PublishJobLoss DEF After
<1>9. ASSUME NEW r, PutPreferences(r) \/ EditEndpoint(r) PROVE After
  <2>1. UNCHANGED <<queues, workVars, accepted, sent, skipped>>
    BY Zenon, <1>9 DEF PutPreferences, EditEndpoint
  <2> QED
    BY Zenon, <1>1, <1>2, <2>1 DEF After
<1> QED
  BY Zenon, <1>5, <1>6, <1>7, <1>8, <1>9 DEF WorkflowStep

\* Steps of its broker and its process.
LEMMA ProcessStep ==
    ASSUME FlowInv, JobInv, Next,
           CloseChannel \/ RestartWorker \/ \E q \in QUEUES : ExpireJob(q)
    PROVE  After
<1>1. /\ QueueInv /\ DataInv /\ LossInv /\ FlowTypes
      /\ accepted \subseteq AllJobs /\ sent \in [AllJobs -> Nat]
  BY Zenon DEF JobInv, FlowInv, DataInv
<1>2. CASE CloseChannel
  <2>1. UNCHANGED <<accepted, sent>>
    BY Zenon, <1>2 DEF CloseChannel
  <2> QED
    BY Zenon, <1>1, <1>2, <2>1, CloseChannelLoss DEF After
<1>3. CASE RestartWorker
  <2>1. UNCHANGED <<accepted, sent>>
    BY Zenon, <1>3 DEF RestartWorker
  <2> QED
    BY Zenon, <1>1, <1>3, <2>1, RestartWorkerLoss DEF After
<1>4. ASSUME NEW q \in QUEUES, ExpireJob(q) PROVE After
  <2>1. UNCHANGED <<accepted, sent>>
    BY Zenon, <1>4 DEF ExpireJob
  <2> QED
    BY Zenon, <1>1, <1>4, <2>1, ExpireJobLoss DEF After
<1> QED
  BY Zenon, <1>2, <1>3, <1>4

\* Steps of its handlers.
LEMMA WorkerStep ==
    ASSUME CountsRows, FlowInv, JobInv, Next, NEW q \in QUEUES, HandlerStep(q)
    PROVE  After
<1>1. /\ QueueInv /\ DataInv /\ LossInv /\ FlowTypes
      /\ accepted \subseteq AllJobs /\ sent \in [AllJobs -> Nat]
  BY Zenon DEF JobInv, FlowInv, DataInv
<1>2. CASE Consume(q)
  <2>1. UNCHANGED <<accepted, sent>>
    BY Zenon, <1>2 DEF Consume
  <2> QED
    BY Zenon, <1>1, <1>2, <2>1, ConsumeLoss DEF After
<1>3. CASE AckJob(q)
  <2>1. UNCHANGED <<accepted, sent>>
    BY Zenon, <1>3 DEF AckJob, OnChannel
  <2> QED
    BY Zenon, <1>1, <1>3, <2>1, AckJobLoss DEF After
<1>4. CASE NackJob(q)
  <2>1. UNCHANGED <<accepted, sent>>
    BY Zenon, <1>4 DEF NackJob, OnChannel
  <2> QED
    BY Zenon, <1>1, <1>4, <2>1, NackJobLoss DEF After
<1>5. CASE RequeueCopy(q)
  <2>1. UNCHANGED <<accepted, sent>>
    BY Zenon, <1>5 DEF RequeueCopy, OnChannel
  <2> QED
    BY Zenon, <1>1, <1>5, <2>1, RequeueCopyLoss DEF After
<1>6. CASE RetryAfterDelay(q)
  <2>1. UNCHANGED <<accepted, sent>>
    BY Zenon, <1>6 DEF RetryAfterDelay
  <2> QED
    BY Zenon, <1>1, <1>6, <2>1, RetryLoss DEF After
<1>7. CASE AlertEmail
  <2>1. UNCHANGED sent
    BY Zenon, <1>7 DEF AlertEmail
  <2> QED
    BY Zenon, <1>1, <1>7, <2>1, AlertEmailLoss DEF After
<1>8. CASE AlertWebhooks
  <2>1. UNCHANGED sent
    BY Zenon, <1>8 DEF AlertWebhooks
  <2> QED
    BY Zenon, <1>1, <1>8, <2>1, AlertWebhooksLoss DEF After
<1>9. CASE SendEmail
  <2>1. UNCHANGED accepted
    BY Zenon, <1>9 DEF SendEmail
  <2> QED
    BY Zenon, <1>1, <1>9, <2>1, SendEmailLoss DEF After
<1>10. CASE PostExport
  <2>1. UNCHANGED accepted
    BY Zenon, <1>10 DEF PostExport
  <2> QED
    BY Zenon, <1>1, <1>10, <2>1, PostExportLoss DEF After
<1>11. CASE DeliverWebhook
  <2>1. UNCHANGED accepted
    BY Zenon, <1>11 DEF DeliverWebhook
  <2> QED
    BY Zenon, <1>1, <1>11, <2>1, DeliverWebhookLoss DEF After
<1>12. CASE AckThrows
  <2>1. UNCHANGED <<accepted, sent>>
    BY Zenon, <1>12 DEF AckThrows
  <2> QED
    BY Zenon, <1>1, <1>12, <2>1, AckThrowsLoss DEF After
<1>13. CASE UpdateEndpointStatus
  <2>1. UNCHANGED <<accepted, sent>>
    BY Zenon, <1>13 DEF UpdateEndpointStatus
  <2> QED
    BY Zenon, <1>1, <1>13, <2>1, UpdateEndpointStatusLoss DEF After
<1> QED
  BY Zenon, <1>2, <1>3, <1>4, <1>5, <1>6, <1>7, <1>8, <1>9, <1>10, <1>11, <1>12, <1>13
     DEF HandlerStep

\* JobInv is inductive, given FlowInv.
LEMMA JobStep ==
    ASSUME CountsRows, FlowInv, JobInv, [Next]_vars
    PROVE  JobInv'
<1>1. CASE Next
  <2>1. After
    BY Zenon, <1>1, OutsideStep, ProcessStep, WorkerStep DEF Next, Step
  <2>2. DataInv'
    BY Zenon, <1>1, <2>1, DataStep DEF After, JobInv
  <2> QED
    BY Zenon, <2>1, <2>2 DEF After, JobInv
<1>2. CASE UNCHANGED vars
  <2>1. UNCHANGED <<queues, workVars, dataVars, accepted, sent, skipped>>
    BY Zenon, <1>2 DEF vars
  <2>2. QueueInv /\ DataInv /\ LossInv
    BY Zenon DEF JobInv
  <2>3. QueueInv' /\ LossInv'
    BY Zenon, <2>1, <2>2, IdleLoss
  <2>4. UNCHANGED <<pc, msg, chan, prefs, endpoints, lastError>>
    BY Zenon, <2>1 DEF workVars, dataVars
  <2>5. DataInv'
    BY Zenon, <2>1, <2>2, <2>4 DEF DataInv
  <2> QED
    BY Zenon, <2>3, <2>5 DEF JobInv
<1> QED
  BY Zenon, <1>1, <1>2

\* The initial states.
LEMMA JobInit == ASSUME Init PROVE JobInv
<1>1. /\ queues = [q \in QUEUES |-> EmptyQueue] /\ pc = [q \in QUEUES |-> "idle"]
      /\ msg = [q \in QUEUES |-> NoMsg] /\ chan = "open" /\ prefs \in InitPrefs
      /\ endpoints \in [Endpoints -> {"absent", "on"}] /\ lastError = {}
      /\ accepted = {} /\ sent = [j \in AllJobs |-> 0]
  BY Zenon DEF Init
<1>2. \A q \in QUEUES : queues[q] = EmptyQueue /\ pc[q] = "idle" /\ msg[q] = NoMsg
  BY Zenon, <1>1
<1>3. /\ DOMAIN EmptyQueue = {"ready", "held", "dead"} /\ EmptyQueue.ready = <<>>
      /\ EmptyQueue.held = <<>> /\ EmptyQueue.dead = <<>>
  BY DEF EmptyQueue
<1>4. /\ \A Ms : QueueOf(EmptyQueue, Ms)
      /\ Ready(EmptyQueue) = {} /\ Held(EmptyQueue) = {} /\ Buried(EmptyQueue) = {}
  BY Zenon, <1>3, OneHeld DEF QueueOf, Ready, Held, Buried
<1>5. "idle" \notin {"requeue", "wait", "emails"} /\ "idle" \notin Sure
  BY DEF Sure
<1>6. {"alerts", "webhooks"} \subseteq QUEUES /\ \A q \in QUEUES : "idle" \in LabelsOf[q]
  BY QueuesAre DEF LabelsOf
<1>7. QueueInv
  <2>1. DOMAIN queues = QUEUES /\ DOMAIN pc = QUEUES /\ DOMAIN msg = QUEUES
    BY Zenon, <1>1
  <2>2. ASSUME NEW q \in QUEUES PROVE QueueOf(queues[q], Msgs(q)) /\ WorkInv(q)
    BY Zenon, <1>2, <1>3, <1>4, <1>5, <1>6 DEF WorkInv
  <2> QED
    BY Zenon, <1>1, <2>1, <2>2 DEF QueueInv
<1>8. DataInv
  <2>1. pc \in [QUEUES -> Labels]
    <3>1. "idle" \in Labels
      BY DEF Labels
    <3> QED
      BY Zenon, <1>1, <3>1
  <2>2. prefs \in [Range1(Recipients) -> Row]
    BY Zenon, <1>1, SettingsAssumption
  <2>3. endpoints \in [Endpoints -> {"absent", "off", "on", "deleted"}]
    BY <1>1
  <2>4. sent \in [AllJobs -> Nat]
    BY <1>1
  <2> QED
    BY Zenon, <1>1, <2>1, <2>2, <2>3, <2>4 DEF DataInv
<1>9. LossInv
  BY Zenon, <1>1, <1>2, <1>5, <1>6 DEF LossInv, Acked, TodoInv
<1> QED
  BY Zenon, <1>7, <1>8, <1>9 DEF JobInv

\* The two invariants give TypeOK.
LEMMA InvTypes == ASSUME FlowInv, JobInv PROVE TypeOK
<1>1. FlowTypes /\ QueueInv /\ DataInv
  BY Zenon DEF FlowInv, JobInv
<1>2. committed \in 0 .. pos /\ pos \in 0 .. Len(Topic)
  BY <1>1, SettingsAssumption DEF FlowTypes
<1>3. ASSUME NEW q \in QUEUES
      PROVE  IsQueue(queues[q], Jobs[q] \cup {Malformed}, 0 .. MaxRetries[q] - 1)
  <2>1. QueueOf(queues[q], Msgs(q))
    BY Zenon, <1>1 DEF QueueInv
  <2> QED
    BY Zenon, <2>1 DEF QueueOf, IsQueue, Msgs, Retries
<1>4. ASSUME NEW q \in QUEUES PROVE pc[q] = "idle" <=> msg[q] = NoMsg
  <2>1. IF pc[q] = "idle" THEN msg[q] = NoMsg ELSE msg[q] \in Work(q)
    BY Zenon, <1>1 DEF QueueInv, WorkInv
  <2>2. NoMsg.job = <<>>
    BY DEF NoMsg, Msg
  <2>3. ASSUME msg[q] \in Work(q), msg[q] = NoMsg PROVE FALSE
    <3>1. msg[q].job \in Jobs[q]
      BY <2>3 DEF Work
    <3>2. <<>> \in Jobs[q]
      BY Zenon, <2>2, <2>3, <3>1
    <3> QED
      BY Zenon, <3>2, JobTags
  <2> QED
    BY Zenon, <2>1, <2>3
<1> QED
  BY Zenon, <1>1, <1>2, <1>3, <1>4 DEF TypeOK, FlowTypes, QueueInv, DataInv

\* What waits in a queue, or was dead-lettered from it.
LEMMA WhereJobs ==
    ASSUME NEW Q, NEW Ms, QueueOf(Q, Ms)
    PROVE  /\ Waiting(Q) = {m.job : m \in Ready(Q) \cup Held(Q)}
           /\ Dead(Q) = {m.job : m \in Buried(Q)}
BY Zenon DEF Waiting, Dead, Ready, Held, Buried, Range1

\* JobInv gives NothingLost.
LEMMA InvLoss == ASSUME JobInv PROVE NothingLost
<1>1. QueueInv /\ LossInv /\ \A q \in QUEUES : QueueOf(queues[q], Msgs(q))
  BY Zenon DEF JobInv, QueueInv
<1>2. ASSUME NEW q \in QUEUES
      PROVE  /\ Waiting(queues[q]) = {m.job : m \in Ready(queues[q]) \cup Held(queues[q])}
             /\ Dead(queues[q]) = {m.job : m \in Buried(queues[q])}
  BY Zenon, <1>1, WhereJobs
<1>3. ASSUME NEW j \in accepted PROVE IsWaiting(j) \/ IsDead(j) \/ Finished(j)
  <2>1. Kept(j)
    BY Zenon, <1>1 DEF LossInv
  <2>2. ASSUME NEW q \in QUEUES, j \in JobsIn(queues[q]) PROVE IsWaiting(j) \/ IsDead(j)
    <3>1. PICK m \in All(queues[q]) : j = m.job
      BY Zenon, <2>2 DEF JobsIn
    <3>2. j \in Waiting(queues[q]) \/ j \in Dead(queues[q])
      BY Zenon, <1>2, <3>1 DEF All
    <3> QED
      BY Zenon, <3>2 DEF IsWaiting, IsDead
  <2> QED
    BY Zenon, <2>1, <2>2 DEF Kept
<1> QED
  BY Zenon, <1>3 DEF NothingLost

-----------------------------------------------------------------------------
(* The theorems. *)

INSTANCE FiniteSetTheorems

\* The queries of the digest and of the webhooks have finitely many rows.
LEMMA RowsCount == CountsRows
<1>1. IsFiniteSet(Range1(Recipients))
  <2>1. Len(Recipients) \in Nat /\ DOMAIN Recipients = 1 .. Len(Recipients)
    BY SettingsAssumption
  <2>2. IsFiniteSet(1 .. Len(Recipients))
    BY <2>1, FS_Interval
  <2>3. Recipients \in Surjection(1 .. Len(Recipients), Range1(Recipients))
    BY <2>1, SettingsAssumption DEF Surjection, Range1
  <2> QED
    BY <2>2, <2>3, FS_Surjection
<1>2. ASSUME NEW T, IsFiniteSet(T), NEW S \in SUBSET T PROVE Cardinality(S) \in Nat
  BY <1>2, FS_Subset, FS_CardinalityType
<1> QED
  BY Zenon, <1>1, <1>2, SettingsAssumption DEF CountsRows

\* The queues and their handlers are as JobInv says at every moment.
THEOREM JobTheorem == Spec => []JobInv
<1>1. Init => JobInv
  BY JobInit
<1>2. FlowInv /\ JobInv /\ [Next]_vars => JobInv'
  BY JobStep, RowsCount
<1> QED
  BY <1>1, <1>2, FlowTheorem, PTL DEF Spec

\* TypeOK, for every topic, every list of recipients and every finite set of
\* endpoints: among the rest, a handler has a message exactly while it is at
\* work, and a message never carries a retry count past its queue's maximum.
THEOREM AlertTypes == Spec => []TypeOK
<1>1. FlowInv /\ JobInv => TypeOK
  BY InvTypes
<1> QED
  BY <1>1, FlowTheorem, JobTheorem, PTL

\* NothingLost, whatever the faults: what the queues accepted waits, was
\* dead-lettered or was done.
THEOREM NothingLostTheorem == Spec => []NothingLost
<1>1. JobInv => NothingLost
  BY InvLoss
<1> QED
  BY <1>1, JobTheorem, PTL

====
