-------------------------- MODULE MCProvisionSaga --------------------------
(* Instances of ProvisionSaga for TLC. *)
EXTENDS ProvisionSaga

CONSTANTS d1, d2, p1, p2

NoDevice == {}
OneDevice == {d1}
TwoDevices == {d1, d2}
OnePartition == {p1}
TwoPartitions == {p1, p2}
OneEach == [d \in Devices |-> IF d = d1 THEN p1 ELSE p2]
AllToP1 == [d \in Devices |-> p1]

AnyFailure == {"fault", "crash"}
CrashOnly == {"crash"}
====
