----------------------------- MODULE ReadStore -----------------------------
(***************************************************************************)
(* What the readers of module BffReads and of module DeviceQuery share: a  *)
(* row of device_telemetry_latest, known by its version, which the         *)
(* read-model-builder advances, and the bounds.                            *)
(***************************************************************************)
EXTENDS Integers, FiniteSets

CONSTANTS
    Pods, PodOf,   \* replicas of the service, and the one each client talks to
    Budgets        \* bounds, the query of each reader, and the callers

VARIABLES
    version,       \* the row's version; there is a row from the start
    unposted,      \* versions committed and not yet written to Redis
    used, budget

Bounds == {"writes", "failures", "faults", "expiries"}

ASSUME BoundsAssumption == \A b \in Budgets : \A x \in Bounds : b[x] \in Nat

StoreInit ==
    /\ version = 1 /\ unposted = {}
    /\ budget \in Budgets
    /\ used = [b \in Bounds |-> 0]

Spend(b) == used[b] < budget[b] /\ used' = [used EXCEPT ![b] = @ + 1]
MayFail(ok) == IF ok THEN UNCHANGED used ELSE Spend("faults")

\* HandleTelemetryBatch of the read-model-builder commits a newer row.
WriteRow ==
    /\ Spend("writes")
    /\ version' = version + 1
    /\ unposted' = unposted \cup {version'}
    /\ UNCHANGED budget
====
