----------------------------- MODULE DeviceQuery -----------------------------
(***************************************************************************)
(* GET /devices/:deviceId/latest of the gateway.  Redis holds a pointer to *)
(* the latest version and a payload per version; the read-model-builder    *)
(* and the request that owns the lock write both.  A breaker in each       *)
(* process keeps requests away from a Redis that fails.                    *)
(***************************************************************************)
EXTENDS ReadStore

CONSTANTS
    Callers,       \* clients of the route
    FailureLimit,  \* FAILURE_THRESHOLD
    MaxWaitLoops

VARIABLES
    call,          \* per caller: where its request is
    pointer,       \* Redis: device:<id>:latest_version, 0 if there is none
    payloads,      \* Redis: the versions v with an entry device:<id>:v<v>
    owner,         \* Redis: the holder of lock:device:<id>
    trip           \* per pod: cacheBreaker

gatewayVars == <<call, pointer, payloads, owner, trip>>

Nobody == "nobody"

ASSUME CallersAssumption ==
    /\ Nobody \notin Callers
    /\ MaxWaitLoops \in Nat
    /\ \A c \in Callers : PodOf[c] \in Pods
    /\ \A b \in Budgets : b.callers \subseteq Callers

NoCall == [at |-> "idle", got |-> 0, loops |-> 0, late |-> FALSE]
Untripped == [failures |-> 0, open |-> FALSE, cooled |-> FALSE]

GatewayTypeOK ==
    /\ \A c \in Callers :
          /\ call[c].at \in {"idle", "pointer", "payload", "lock", "wait", "waitPayload",
                "query", "own", "setPayload", "setPointer", "unlock"}
          /\ call[c].loops \in 0 .. MaxWaitLoops
    /\ pointer \in 0 .. version /\ payloads \subseteq 1 .. version
    /\ owner \in Callers \cup {Nobody}
    /\ \A p \in Pods : trip[p].failures \in 0 .. budget.faults

GatewayInit ==
    /\ call = [c \in Callers |-> NoCall]
    /\ pointer = 0 /\ payloads = {} /\ owner = Nobody
    /\ trip = [p \in Pods |-> Untripped]

-----------------------------------------------------------------------------
(* cacheBreaker. *)

AllowRequest(t) == ~t.open \/ t.cooled
Asked(t) == IF t.open /\ t.cooled THEN Untripped ELSE t
RecordSuccess(t) == [t EXCEPT !.failures = 0]
RecordFailure(t) ==
    [failures |-> t.failures + 1, cooled |-> t.open /\ t.cooled,
     open |-> t.open \/ t.failures + 1 >= FailureLimit]

-----------------------------------------------------------------------------
(* getDeviceLatestTelemetry, one Redis or Postgres call a step. *)

Calling(c, at) == c \in budget.callers /\ call[c].at = at
GoTo(c, at) == call' = [call EXCEPT ![c].at = at, ![c].got = 0]
Return(c) == call' = [call EXCEPT ![c] = NoCall]

\* A call to Redis that is not allowed, or that throws.
Refused(c, at) ==
    ~AllowRequest(trip[PodOf[c]]) /\ GoTo(c, at) /\ UNCHANGED <<trip, used>>
Throws(c, at) ==
    /\ AllowRequest(trip[PodOf[c]]) /\ Spend("faults")
    /\ trip' = [trip EXCEPT ![PodOf[c]] = RecordFailure(Asked(@))]
    /\ GoTo(c, at)
Allowed(c) ==
    /\ AllowRequest(trip[PodOf[c]])
    /\ trip' = [trip EXCEPT ![PodOf[c]] = Asked(@)]
    /\ UNCHANGED used

Request(c) ==
    /\ Calling(c, "idle") /\ GoTo(c, "pointer")
    /\ UNCHANGED <<pointer, payloads, owner, trip, used>>

ReadPointer(c) ==
    /\ Calling(c, "pointer")
    /\ \/ Refused(c, "lock") \/ Throws(c, "lock")
       \/ /\ Allowed(c)
          /\ call' = [call EXCEPT ![c].got = pointer,
                                  ![c].at = IF pointer = 0 THEN "lock" ELSE "payload"]
    /\ UNCHANGED <<pointer, payloads, owner>>

\* The second get is under the first one's allowRequest.
GetPayload(c, missed) ==
    IF call[c].got \in payloads
    THEN Return(c) /\ trip' = [trip EXCEPT ![PodOf[c]] = RecordSuccess(@)]
    ELSE GoTo(c, missed) /\ UNCHANGED trip
PayloadThrows(c, at) ==
    /\ Spend("faults")
    /\ trip' = [trip EXCEPT ![PodOf[c]] = RecordFailure(@)]
    /\ GoTo(c, at)

ReadPayload(c) ==
    /\ Calling(c, "payload")
    /\ \/ GetPayload(c, "lock") /\ UNCHANGED used
       \/ PayloadThrows(c, "lock")
    /\ UNCHANGED <<pointer, payloads, owner>>

TakeLock(c) ==
    /\ Calling(c, "lock")
    /\ \/ (Refused(c, "query") \/ Throws(c, "query")) /\ UNCHANGED owner
       \/ /\ Allowed(c)
          /\ owner' = IF owner = Nobody THEN c ELSE owner
          /\ GoTo(c, IF owner = Nobody THEN "own" ELSE "wait")
    /\ UNCHANGED <<pointer, payloads>>

\* Variant: a round that finds no pointer is not counted.
WaitForOwnerUncounted(c) ==
    /\ Calling(c, "wait")
    /\ \/ /\ call[c].loops = MaxWaitLoops
          /\ GoTo(c, "query") /\ UNCHANGED <<trip, used>>
       \/ /\ call[c].loops < MaxWaitLoops
          /\ \/ Refused(c, "query") \/ Throws(c, "query")
             \/ /\ Allowed(c)
                /\ call' = IF pointer = 0 THEN call
                           ELSE [call EXCEPT ![c].loops = @ + 1, ![c].got = pointer,
                                             ![c].at = "waitPayload"]
    /\ UNCHANGED <<pointer, payloads, owner>>

\* One round of the loop: sleep, then the pointer, then the payload.
WaitForOwner(c) ==
    /\ Calling(c, "wait")
    /\ \/ /\ call[c].loops = MaxWaitLoops
          /\ GoTo(c, "query") /\ UNCHANGED <<trip, used>>
       \/ /\ call[c].loops < MaxWaitLoops
          /\ \/ Refused(c, "query") \/ Throws(c, "query")
             \/ /\ Allowed(c)
                /\ call' = [call EXCEPT ![c].loops = @ + 1, ![c].got = pointer,
                               ![c].at = IF pointer = 0 THEN "wait" ELSE "waitPayload"]
    /\ UNCHANGED <<pointer, payloads, owner>>

WaitPayload(c) ==
    /\ Calling(c, "waitPayload")
    /\ \/ GetPayload(c, "wait") /\ UNCHANGED used
       \/ PayloadThrows(c, "query")
    /\ UNCHANGED <<pointer, payloads, owner>>

\* queryDbAndReturn, without the lock and for its owner.
QueryDbAndReturn(c) ==
    /\ Calling(c, "query")
    /\ Return(c)
    /\ UNCHANGED used \/ Spend("failures")
    /\ UNCHANGED <<pointer, payloads, owner, trip>>

OwnerQuery(c) ==
    /\ Calling(c, "own")
    /\ \/ /\ call' = [call EXCEPT ![c].got = version, ![c].at = "setPayload"]
          /\ UNCHANGED used
       \/ GoTo(c, "unlock") /\ Spend("failures")
    /\ UNCHANGED <<pointer, payloads, owner, trip>>

SetPayload(c) ==
    /\ Calling(c, "setPayload")
    /\ \/ (Refused(c, "unlock") \/ Throws(c, "unlock")) /\ UNCHANGED payloads
       \/ /\ Allowed(c) /\ call' = [call EXCEPT ![c].at = "setPointer"]
          /\ payloads' = payloads \cup {call[c].got}
    /\ UNCHANGED <<pointer, owner>>

SetPointer(c) ==
    /\ Calling(c, "setPointer")
    /\ \/ PayloadThrows(c, "unlock") /\ UNCHANGED pointer
       \/ /\ pointer' = call[c].got
          /\ trip' = [trip EXCEPT ![PodOf[c]] = RecordSuccess(@)]
          /\ GoTo(c, "unlock") /\ UNCHANGED used
    /\ UNCHANGED <<payloads, owner>>

\* The Lua script deletes the lock if it is still the request's; not allowed or
\* failing, the lock is left to its four seconds.
Unlock(c) ==
    /\ Calling(c, "unlock")
    /\ Return(c)
    /\ \/ ~AllowRequest(trip[PodOf[c]]) /\ UNCHANGED <<owner, trip, used>>
       \/ /\ AllowRequest(trip[PodOf[c]]) /\ Spend("faults") /\ UNCHANGED owner
          /\ trip' = [trip EXCEPT ![PodOf[c]] = RecordFailure(Asked(@))]
       \/ /\ Allowed(c)
          /\ owner' = IF owner = c THEN Nobody ELSE owner
    /\ UNCHANGED <<pointer, payloads>>

-----------------------------------------------------------------------------
(* The read-model-builder's write, expiry, and a pod that stops. *)

\* The pipeline of HandleTelemetryBatch; workers may overtake one another.
PostVersion(v) ==
    /\ pointer' = v /\ payloads' = payloads \cup {v}
    /\ unposted' = unposted \ {v}
    /\ UNCHANGED <<call, owner, trip, used>>

\* The pipeline fails, or the worker stops before it.
LosePost(v) ==
    /\ Spend("faults")
    /\ unposted' = unposted \ {v}
    /\ UNCHANGED <<call, pointer, payloads, owner, trip>>

ExpirePointer ==
    /\ pointer # 0 /\ pointer' = 0
    /\ UNCHANGED <<call, payloads, owner, trip, used>>

ExpirePayload(v) ==
    /\ payloads' = payloads \ {v}
    /\ UNCHANGED <<call, pointer, owner, trip, used>>

Owns(c) == call[c].at \in {"own", "setPayload", "setPointer", "unlock"}

\* After four seconds, which the owner may take longer than.
ExpireOwner ==
    /\ owner # Nobody /\ owner' = Nobody
    /\ IF Owns(owner) THEN Spend("expiries") /\ call' = [call EXCEPT ![owner].late = TRUE]
       ELSE UNCHANGED <<call, used>>
    /\ UNCHANGED <<pointer, payloads, trip>>

\* 20 seconds pass.
CoolTrip(p) ==
    /\ trip[p].open /\ ~trip[p].cooled
    /\ trip' = [trip EXCEPT ![p].cooled = TRUE]
    /\ UNCHANGED <<call, pointer, payloads, owner, used>>

StopGatewayPod(p) ==
    /\ \E c \in Callers : PodOf[c] = p /\ call[c] # NoCall
    /\ Spend("faults")
    /\ call' = [c \in Callers |-> IF PodOf[c] = p THEN NoCall ELSE call[c]]
    /\ trip' = [trip EXCEPT ![p] = Untripped]
    /\ UNCHANGED <<pointer, payloads, owner>>

CallStep(c) ==
    \/ ReadPointer(c) \/ ReadPayload(c) \/ TakeLock(c) \/ WaitForOwner(c)
    \/ WaitPayload(c) \/ QueryDbAndReturn(c) \/ OwnerQuery(c)
    \/ SetPayload(c) \/ SetPointer(c) \/ Unlock(c)
====
