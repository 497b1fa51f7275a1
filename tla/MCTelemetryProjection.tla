----------------------- MODULE MCTelemetryProjection -----------------------
(***************************************************************************)
(* Instances of TelemetryProjection for TLC: two readings of one device,   *)
(* the second recorded earlier.                                            *)
(***************************************************************************)
EXTENDS TelemetryProjection

CONSTANTS r1, r2, d1, w1, w2

MCDeviceOf == [r \in {r1, r2} |-> d1]
MCRecordedAt == [r \in {r1, r2} |-> IF r = r2 THEN 1 ELSE 2]

Budget(workers, first, messages, faults, dlqFaults, fetchErrors, shutdowns, crashes) ==
    [workers |-> workers, first |-> first, messages |-> messages, faults |-> faults,
     dlqFaults |-> dlqFaults, fetchErrors |-> fetchErrors, shutdowns |-> shutdowns,
     crashes |-> crashes]

Scenarios ==
    {Budget({w1, w2}, 0, 3, 1, 0, 0, 0, 0),
     Budget({w1, w2}, 0, 3, 0, 1, 0, 0, 0),
     Budget({w1, w2}, -1, 3, 0, 0, 0, 1, 0),
     Budget({w1, w2}, 0, 2, 0, 0, 0, 0, 1),
     Budget({w1}, 0, 3, 2, 0, 0, 0, 1),
     Budget({w1}, 0, 2, 1, 0, 3, 0, 1),
     Budget({w1}, -1, 2, 1, 1, 0, 1, 1)}

\* A crash while two workers hold a batch each.
TwoWorkersCrash == {Budget({w1, w2}, 0, 2, 0, 0, 0, 0, 1)}
====
