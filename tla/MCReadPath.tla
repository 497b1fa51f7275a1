----------------------------- MODULE MCReadPath -----------------------------
(***************************************************************************)
(* Bounds for module ReadPath: two bff readers on a pod each, or the       *)
(* gateway's callers, with the faults each scenario is about.              *)
(***************************************************************************)
EXTENDS ReadPath

CONSTANTS r1, r2, c1, c2, p1, p2

MCPodOf == [x \in {r1, r2, c1, c2} |-> IF x \in {r1, c1, c2} THEN p1 ELSE p2]

Budget(query, callers, writes, failures, faults, expiries) ==
    [query |-> query, callers |-> callers, writes |-> writes,
     failures |-> failures, faults |-> faults, expiries |-> expiries]

NoQuery == [r \in {} |-> "none"]
Alone(q) == [r \in {r1} |-> q]
Ask(q1, q2) == [r \in {r1, r2} |-> IF r = r1 THEN q1 ELSE q2]

Scenarios ==
    {Budget(Ask("deviceTelemetry", "manyDeviceTelemetry"), {}, 1, 0, 0, 0),
     Budget(Ask("deviceTelemetry", "deviceTelemetry"), {}, 1, 0, 1, 0),
     Budget(Ask("deviceTelemetry", "deviceTelemetry"), {}, 0, 0, 0, 1),
     Budget(Ask("devices", "device"), {}, 1, 0, 0, 0),
     Budget(Ask("devices", "devices"), {}, 0, 1, 0, 0),
     Budget(Ask("devices", "devices"), {}, 0, 0, 1, 0),
     Budget(Ask("devices", "devices"), {}, 0, 0, 0, 1),
     Budget(Ask("allTelemetry", "allTelemetry"), {}, 0, 0, 1, 0),
     Budget(Ask("devicesConnection", "deviceTelemetryHistory"), {}, 0, 2, 1, 0),
     Budget(Ask("devicesConnection", "devicesConnection"), {}, 0, 2, 0, 0),
     Budget(Alone("allTelemetry"), {}, 1, 1, 0, 1),
     Budget(Alone("deviceTelemetry"), {}, 0, 3, 1, 0),
     Budget(NoQuery, {c1}, 2, 0, 0, 0),
     Budget(NoQuery, {c1}, 1, 0, 1, 0),
     Budget(NoQuery, {c1, c2}, 1, 0, 0, 0),
     Budget(NoQuery, {c1, c2}, 0, 0, 0, 1),
     Budget(NoQuery, {c1, c2}, 0, 1, 2, 0)}

OneReader == {Budget(Alone("allTelemetry"), {}, 0, 0, 0, 0)}
====
