------------------------------ MODULE ReadPath ------------------------------
(***************************************************************************)
(* The two ways a dashboard reads a device, the bff's GraphQL queries and  *)
(* the gateway's latest route, over one table that the read-model-builder  *)
(* keeps writing.                                                          *)
(***************************************************************************)
EXTENDS BffReads, DeviceQuery

vars == <<version, unposted, used, budget, bffVars, gatewayVars>>

Init == StoreInit /\ BffInit /\ GatewayInit

BffStays == UNCHANGED bffVars
GatewayStays == UNCHANGED gatewayVars
StoreStays == UNCHANGED <<version, unposted, budget>>

BffStep(r) ==
    /\ Begin(r) \/ ReaderStep(r) \/ QueryFails(r) \/ RedisFails(r)
    /\ GatewayStays /\ StoreStays
BffTime ==
    /\ \/ \E k \in Keys : ExpireEntry(k) \/ ExpireLock(k)
       \/ \E p \in Pods : CoolDown(p) \/ StopPod(p)
       \/ CoolShared \/ ExpireShared
    /\ GatewayStays /\ StoreStays
GatewayStep(c) == (Request(c) \/ CallStep(c)) /\ BffStays /\ StoreStays
GatewayTime ==
    /\ \/ ExpirePointer \/ ExpireOwner
       \/ \E v \in payloads : ExpirePayload(v)
       \/ \E p \in Pods : CoolTrip(p) \/ StopGatewayPod(p)
    /\ BffStays /\ StoreStays
Post ==
    /\ \E v \in unposted : PostVersion(v) \/ LosePost(v)
    /\ BffStays /\ UNCHANGED <<version, budget>>

Next ==
    \/ \E r \in Readers : BffStep(r)
    \/ \E c \in Callers : GatewayStep(c)
    \/ BffTime \/ GatewayTime \/ Post
    \/ WriteRow /\ BffStays /\ GatewayStays

Spec == Init /\ [][Next]_vars

(***************************************************************************)
(* Fairness: clients keep asking and their requests run; what has a time   *)
(* to live expires; a cool-down ends.  Faults, failures, writes, stopping  *)
(* pods and locks that expire early need not happen.                       *)
(***************************************************************************)
FairSpec ==
    /\ Spec
    /\ \A r \in Readers : WF_vars((Begin(r) \/ ReaderStep(r)) /\ GatewayStays /\ StoreStays)
    /\ \A c \in Callers : WF_vars(GatewayStep(c))
    /\ \A k \in Keys : WF_vars(ExpireEntry(k) /\ GatewayStays /\ StoreStays)
    /\ \A p \in Pods : WF_vars(CoolDown(p) /\ GatewayStays /\ StoreStays)
    /\ WF_vars((CoolShared \/ ExpireShared) /\ GatewayStays /\ StoreStays)
    /\ WF_vars(ExpirePointer /\ BffStays /\ StoreStays)
    /\ WF_vars(Post)

-----------------------------------------------------------------------------
(* Properties. *)

\* Type invariant.
TypeOK == version \in Nat /\ unposted \subseteq 1 .. version /\ BffTypeOK /\ GatewayTypeOK

\* The locks of both services.  As long as no request has outlived the five
\* seconds of its lock, a bff request that was given a lock is the one Redis has
\* the lock for; it does not keep a request that was refused from reading too, nor
\* does it hold once a release without a token can meet another's lock.  A
\* request of the gateway loses its lock only by taking longer than four seconds,
\* never by another one's compare-and-delete.  And without a fault every return
\* and error path gives the lock back: one that is held belongs to a request at
\* work.
LocksSound ==
    /\ used["expiries"] = 0 =>
          \A r \in Active : \A level \in reader[r].holds : lock[LockKey(r, level)] = r
    /\ \A c \in Callers : Owns(c) /\ ~call[c].late => owner = c
    /\ used["faults"] = 0 =>
          /\ \A k \in Keys : lock[k] # Free => Holds(lock[k], k)
          /\ owner # Nobody => Owns(owner)

\* An empty answer for a device that has rows: only a devices query that lost
\* the data source's lock to another request, or to one that failed, gives it,
\* and allTelemetry, whose data source waits for its own resolver's lock.
EmptyNeedsRival ==
    \A r \in Active : empty[r] =>
        \/ Query(r) = "allTelemetry"
        \/ /\ Query(r) = "devices"
           /\ \/ \E s \in Active \ {r} : Query(s) = "devices"
              \/ used["faults"] > 0

\* What a data source found, its resolver's key holds afterwards or nothing:
\* the caches of both services end up at the row's last version, or at the empty
\* list that only the list keys can hold, whatever overtook what.
FreshInTheEnd ==
    <>[](/\ \A k \in Keys \ {"devices", "all"} : cache[k] \in {NoEntry, version}
         /\ \A k \in {"devices", "all"} : cache[k] \in {NoEntry, 0, version}
         /\ pointer \in {0, version})

\* Once Postgres answers again, a pod that keeps being asked closes its circuit
\* for good, though the pods overwrite each other's shared state.
CircuitCloses ==
    \A p \in Pods :
        []<>(\E r \in Active : PodOf[r] = p /\ reader[r].at = "run")
            => <>[](breaker[p].state = "CLOSED")

\* Every request is answered: the wait for the owner of a lock ends.
ReadsEnd ==
    /\ \A r \in Readers : (reader[r].at # "idle") ~> (reader[r].at = "idle")
    /\ \A c \in Callers : (call[c].at # "idle") ~> (call[c].at = "idle")

\* cacheGetOrLock re-reads the cache "if the lock is held by another request":
\* no request waits for a lock that it holds itself.
NeverWaitsForItself ==
    \A r \in Active : reader[r].at = "sleep" => "outer" \notin reader[r].holds
====
