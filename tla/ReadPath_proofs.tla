--------------------------- MODULE ReadPath_proofs ---------------------------
(***************************************************************************)
(* The locks of both read paths and the bff's empty answers, for any       *)
(* number of pods, clients, writes, failures, faults and early expiries.   *)
(* The bff first: its inductive invariant has a part about one request     *)
(* (Control, a predicate on its record) and one about the caches and the   *)
(* locks.  Then the gateway's route, and the whole.                        *)
(***************************************************************************)
EXTENDS ReadPath, TLAPS

-----------------------------------------------------------------------------
(* The bff. *)

Ats == {"idle", "get", "lock", "reget", "dbget", "dblock", "sleep", "execute",
        "run", "cassandra", "dbset", "dbrelease", "set", "release"}
Levels == {"outer", "inner"}
ReaderRec == [at : Ats, got : Int, first : BOOLEAN, holds : SUBSET Levels]
BreakerRec == [state : {"CLOSED", "OPEN", "HALF_OPEN"}, failures : Nat,
               successes : 0 .. Successes - 1, cooled : BOOLEAN]
SharedRec == [state : {"CLOSED", "OPEN", "HALF_OPEN"}, failures : Nat,
              cooled : BOOLEAN]

StoreInv ==
    /\ budget \in Budgets
    /\ version \in Nat \ {0} /\ unposted \subseteq 1 .. version
    /\ used \in [Bounds -> Nat]
    /\ \A b \in Bounds : used[b] <= budget[b]

BffTypes ==
    /\ reader \in [Readers -> ReaderRec]
    /\ empty \in [Readers -> BOOLEAN]
    /\ cache \in [Keys -> NoEntry .. version]
    /\ lock \in [Keys -> Readers \cup {Free}]
    /\ breaker \in [Pods -> BreakerRec]
    /\ shared \in SharedRec

\* Where a request x for the query q is says which locks it holds, and whether
\* it has a result.
Control(q, x) ==
    /\ x.first => ChecksFirst(q) /\ x.at \in {"execute", "run"}
    /\ x.at \in {"idle", "get", "lock", "reget", "cassandra"} => x.holds = {}
    /\ "outer" \in x.holds => LocksOuter(q)
    /\ x.at \in {"dbget", "dblock", "sleep", "set"} => "inner" \notin x.holds
    /\ x.at \in {"dbset", "dbrelease"} => "inner" \in x.holds
    /\ x.at \in {"execute", "run"} => ("inner" \in x.holds <=> Inner(q) # NoLock)
    /\ x.at \in {"dbget", "dblock", "sleep", "dbset", "dbrelease"} => Inner(q) # NoLock
    /\ x.at = "lock" => LocksOuter(q)
    /\ x.at = "release" => x.holds = {"outer"}
    /\ x.at = "cassandra" => q = "deviceTelemetryHistory"
    /\ x.at \in {"get", "reget", "set"} => Outer(q) # NoLock
    /\ x.at = "set" => x.got >= 0
    /\ x.at = "dbset" => x.got >= 1
    /\ x.at = "dbrelease" => x.got >= 1 \/ x.got = Error

\* A query may be answered with an empty list.
MayBeEmpty(q) ==
    \/ q = "allTelemetry"
    \/ /\ q = "devices"
       /\ \/ \E s, t \in Active : s # t /\ Query(s) = "devices" /\ Query(t) = "devices"
          \/ used["faults"] > 0

ReadersInv ==
    \A r \in Active :
        /\ Control(Query(r), reader[r])
        /\ reader[r].got \in Error .. version
        /\ reader[r].got = 0 \/ reader[r].at = "sleep" \/ empty[r] => MayBeEmpty(Query(r))

\* An empty list is only cached for the two lists.
CacheInv ==
    \A k \in Keys : cache[k] = 0 =>
        \/ k = "all"
        \/ k = "devices" /\ MayBeEmpty("devices")

\* The bff's half of LocksSound.  Where nothing expired early no request holds
\* two locks: allTelemetry would need the same one twice.
LockInv ==
    /\ used["expiries"] = 0 => \A r \in Active :
          /\ reader[r].holds # Levels
          /\ \A level \in reader[r].holds : lock[LockKey(r, level)] = r
    /\ used["faults"] = 0 => \A k \in Keys : lock[k] # Free => Holds(lock[k], k)

BffInv == StoreInv /\ BffTypes /\ ReadersInv /\ CacheInv /\ LockInv

-----------------------------------------------------------------------------
(* What the steps have in common. *)

\* A request that is not there.
LEMMA IdleIs ==
    /\ Idle \in ReaderRec /\ Idle.got = NoEntry /\ Idle.at = "idle" /\ Idle.holds = {}
    /\ NoEntry # 0 /\ \A v \in Nat : NoEntry \in Error .. v
    /\ \A q : Control(q, Idle)
<1>1. /\ Idle.got = NoEntry /\ Idle.at = "idle" /\ Idle.holds = {} /\ Idle.first = FALSE
      /\ Idle = [at |-> "idle", got |-> NoEntry, first |-> FALSE, holds |-> {}]
  BY DEF Idle
<1>2. NoEntry \in Int /\ NoEntry # 0 /\ \A v \in Nat : NoEntry \in Error .. v
  BY DEF NoEntry, Error
<1>3. "idle" \in Ats /\ {} \in SUBSET Levels
  BY DEF Ats
<1>4. Idle \in ReaderRec
  BY <1>1, <1>2, <1>3 DEF ReaderRec
<1>5. "idle" \notin {"execute", "run", "dbget", "dblock", "sleep", "set", "dbset", "dbrelease",
                     "lock", "release", "cassandra", "get", "reget"}
  OBVIOUS
<1>6. \A q : Control(q, Idle)
  BY Zenon, <1>1, <1>5 DEF Control
<1> QED
  BY Zenon, <1>1, <1>2, <1>4, <1>6

\* The bounds are only used up, and the row stays.
StoreGrows ==
    /\ UNCHANGED <<version, unposted, budget>>
    /\ used' \in [Bounds -> Nat]
    /\ \A b \in Bounds : used[b] <= used'[b] /\ used'[b] <= budget[b]

\* The request of r becomes n, and only its last answer may change.
Becomes(r, n) ==
    /\ n \in ReaderRec /\ reader' = [reader EXCEPT ![r] = n]
    /\ Control(Query(r), n)
    /\ n.got \in Error .. version
    /\ n.got = 0 \/ n.at = "sleep" => MayBeEmpty(Query(r))
    /\ empty' \in [Readers -> BOOLEAN]
    /\ \A s \in Readers \ {r} : empty'[s] = empty[s]
    /\ empty'[r] /\ ~empty[r] => MayBeEmpty(Query(r))

BreakersTyped == breaker' \in [Pods -> BreakerRec] /\ shared' \in SharedRec

\* A reader that has a query is a reader, and its query one of the seven.
LEMMA ActiveReaders ==
    ASSUME StoreInv
    PROVE  /\ \A r \in Active : r \in Readers /\ Query(r) \in Queries
           /\ \A r \in Active : Free # r
BY ReadersAssumption DEF StoreInv, Active, Query

\* Spending is bounded by the budget.
LEMMA SpendGrows ==
    ASSUME StoreInv, UNCHANGED <<version, unposted, budget>>,
           UNCHANGED used \/ \E b \in Bounds : Spend(b)
    PROVE  StoreGrows
<1>1. CASE UNCHANGED used BY <1>1 DEF StoreInv, StoreGrows
<1>2. ASSUME NEW b \in Bounds, Spend(b) PROVE StoreGrows
  <2>1. budget[b] \in Nat BY BoundsAssumption DEF StoreInv
  <2>2. used[b] \in Nat /\ used[b] < budget[b] /\ used' = [used EXCEPT ![b] = @ + 1]
    BY <1>2 DEF StoreInv, Spend
  <2>3. \A x \in Bounds : used'[x] = IF x = b THEN used[b] + 1 ELSE used[x]
    BY <2>2 DEF StoreInv
  <2> QED BY <2>1, <2>2, <2>3 DEF StoreInv, StoreGrows
<1> QED BY <1>1, <1>2

\* A fault is counted.
LEMMA FaultCounted ==
    ASSUME StoreInv, Spend("faults")
    PROVE  used'["faults"] > 0 /\ \A b \in Bounds \ {"faults"} : used'[b] = used[b]
BY DEF StoreInv, Spend, Bounds

\* The invariant of the store, and of what depends on it.
LEMMA StoreKept ==
    ASSUME StoreInv, StoreGrows
    PROVE  /\ StoreInv' /\ Active' = Active
           /\ \A r : Query(r)' = Query(r)
           /\ \A q : MayBeEmpty(q) => MayBeEmpty(q)'
<1>1. StoreInv' BY DEF StoreInv, StoreGrows
<1>2. Active' = Active /\ \A r : Query(r)' = Query(r)
  BY DEF StoreGrows, Active, Query
<1>3. used["faults"] \in Nat /\ used'["faults"] \in Nat /\ used["faults"] <= used'["faults"]
  BY DEF StoreInv, StoreGrows, Bounds
<1>4. used["faults"] > 0 => used'["faults"] > 0 BY <1>3
<1>5. \A q : MayBeEmpty(q) => MayBeEmpty(q)'
  BY <1>2, <1>4 DEF MayBeEmpty
<1> QED BY <1>1, <1>2, <1>5

\* The parts of the invariant together, after a step of one request.
LEMMA ReaderStepKeeps ==
    ASSUME BffInv, StoreGrows, NEW r \in Active, NEW n, Becomes(r, n),
           BreakersTyped, lock' \in [Keys -> Readers \cup {Free}], LockInv',
           cache' \in [Keys -> NoEntry .. version],
           \A k \in Keys : cache'[k] = 0 =>
               cache[k] = 0 \/ k = "all" \/ (k = "devices" /\ MayBeEmpty("devices"))
    PROVE  BffInv'
<1>1. /\ StoreInv' /\ Active' = Active /\ version' = version
      /\ \A s : Query(s)' = Query(s)
      /\ \A q : MayBeEmpty(q) => MayBeEmpty(q)'
  BY StoreKept DEF BffInv, StoreGrows
<1>2. BffTypes'
  BY Zenon, <1>1 DEF BffInv, BffTypes, Becomes, BreakersTyped
<1>3. r \in Readers /\ Active \subseteq Readers BY ActiveReaders DEF BffInv
<1>4. /\ reader'[r] = n
      /\ \A s \in Readers \ {r} : reader'[s] = reader[s] /\ empty'[s] = empty[s]
  BY <1>3 DEF BffInv, BffTypes, Becomes
<1>5. ReadersInv'
  <2> SUFFICES ASSUME NEW s \in Active
               PROVE  /\ Control(Query(s), reader'[s])
                      /\ reader'[s].got \in Error .. version
                      /\ reader'[s].got = 0 \/ reader'[s].at = "sleep" \/ empty'[s]
                            => MayBeEmpty(Query(s))'
    BY <1>1 DEF ReadersInv
  <2>1. CASE s = r
    <3>1. empty[r] => MayBeEmpty(Query(r)) BY DEF BffInv, ReadersInv
    <3> QED BY <2>1, <3>1, <1>1, <1>4 DEF Becomes
  <2>2. CASE s # r
    BY <2>2, <1>1, <1>3, <1>4 DEF BffInv, ReadersInv
  <2> QED BY <2>1, <2>2
<1>6. CacheInv' BY <1>1 DEF BffInv, CacheInv
<1> QED BY <1>1, <1>2, <1>5, <1>6 DEF BffInv

-----------------------------------------------------------------------------
(* What the steps of a request do to the locks. *)

\* Where no lock expired early now, none had before.
LEMMA CountsOnly ==
    ASSUME StoreInv, StoreGrows
    PROVE  /\ used'["expiries"] = 0 => used["expiries"] = 0
           /\ used'["faults"] = 0 => used["faults"] = 0
<1>1. \A b \in {"expiries", "faults"} : /\ used[b] \in Nat /\ used'[b] \in Nat
                                        /\ used[b] <= used'[b]
  BY DEF StoreInv, StoreGrows, Bounds
<1> QED BY <1>1

\* The requests and the locks they hold, after r's became n.
HoldersAre(r, n) ==
    /\ Active' = Active /\ r \in Readers /\ reader[r] \in ReaderRec
    /\ reader'[r] = n
    /\ \A s \in Active \ {r} : reader'[s] = reader[s]
    /\ \A s, l : LockKey(s, l)' = LockKey(s, l)
    /\ \A s \in Active \ {r} : \A k : Holds(s, k)' <=> Holds(s, k)
    /\ \A k : Holds(r, k)' <=> \E l \in n.holds : LockKey(r, l) = k

\* These are the holders after a step of r.
LEMMA HoldersAfter ==
    ASSUME BffInv, StoreGrows, NEW r \in Active, NEW n, Becomes(r, n)
    PROVE  HoldersAre(r, n)
<1>1. Active' = Active /\ \A s : Query(s)' = Query(s) BY StoreKept DEF BffInv
<1>2. r \in Readers /\ Active \subseteq Readers BY ActiveReaders DEF BffInv
<1>3. reader'[r] = n /\ \A s \in Active \ {r} : reader'[s] = reader[s]
  BY <1>2 DEF BffInv, BffTypes, Becomes
<1>4. \A s, l : LockKey(s, l)' = LockKey(s, l)
  BY <1>1 DEF LockKey
<1>5. reader[r] \in ReaderRec BY <1>2 DEF BffInv, BffTypes
<1> QED BY <1>1, <1>2, <1>3, <1>4, <1>5 DEF Holds, HoldersAre

\* A step that neither takes nor gives back a lock.
LEMMA SameLocks ==
    ASSUME BffInv, StoreGrows, NEW r \in Active, NEW n, Becomes(r, n),
           n.holds = reader[r].holds, UNCHANGED lock
    PROVE  LockInv'
<1> HoldersAre(r, n) BY HoldersAfter
<1> USE DEF HoldersAre
<1>1. used'["expiries"] = 0 => \A s \in Active :
          /\ reader'[s].holds # Levels
          /\ \A level \in reader'[s].holds : lock'[LockKey(s, level)'] = s
  BY CountsOnly DEF BffInv, LockInv
<1>2. \A s \in Active : \A k : Holds(s, k) => Holds(s, k)'
  BY DEF Holds
<1>3. ASSUME used'["faults"] = 0, NEW k \in Keys, lock'[k] # Free
      PROVE  Holds(lock[k], k)'
  <2>1. lock[k] \in Active /\ Holds(lock[k], k)
    BY <1>3, CountsOnly DEF BffInv, LockInv, Holds
  <2>2. \E s \in Active : s = lock'[k] /\ Holds(s, k)' BY <2>1, <1>2
  <2> QED BY Zenon, <2>2 DEF Holds
<1> QED BY <1>1, <1>3 DEF LockInv

\* A step after which a fault has been counted, and that keeps the locks.
LEMMA LostLocks ==
    ASSUME BffInv, StoreGrows, NEW r \in Active, NEW n, Becomes(r, n),
           n.holds \subseteq reader[r].holds, UNCHANGED lock, used'["faults"] > 0
    PROVE  LockInv'
<1> HoldersAre(r, n) BY Zenon, HoldersAfter
<1> USE DEF HoldersAre
<1>1. reader[r].holds \subseteq Levels BY DEF ReaderRec
<1>2. ASSUME used'["expiries"] = 0, NEW s \in Active
      PROVE  /\ reader'[s].holds # Levels
             /\ \A level \in reader'[s].holds : lock'[LockKey(s, level)'] = s
  <2>1. /\ reader[s].holds # Levels
        /\ \A level \in reader[s].holds : lock[LockKey(s, level)] = s
    BY Zenon, <1>2, CountsOnly DEF BffInv, LockInv
  <2>2. reader'[s].holds \subseteq reader[s].holds OBVIOUS
  <2>3. reader'[s].holds # Levels
    BY <2>1, <2>2, <1>1 DEF Levels
  <2> QED BY Zenon, <2>1, <2>2, <2>3
<1>3. ~(used'["faults"] = 0) BY DEF StoreGrows, Bounds
<1> QED BY <1>2, <1>3 DEF LockInv

\* acquireLock wins: nobody had the lock, and r had no other.
LEMMA TakenLock ==
    ASSUME BffInv, StoreGrows, NEW r \in Active, NEW n, Becomes(r, n),
           NEW level \in Levels, LockKey(r, level) \in Keys,
           lock[LockKey(r, level)] = Free,
           lock' = [lock EXCEPT ![LockKey(r, level)] = r],
           n.holds = reader[r].holds \cup {level},
           \/ reader[r].holds = {}
           \/ /\ level = "inner" /\ reader[r].holds = {"outer"}
              /\ LockKey(r, "outer") = LockKey(r, "inner")
    PROVE  LockInv'
<1> HoldersAre(r, n) BY Zenon, HoldersAfter
<1> USE DEF HoldersAre
<1> DEFINE key == LockKey(r, level)
<1>1. lock'[key] = r /\ \A k \in Keys \ {key} : lock'[k] = lock[k]
  BY DEF BffInv, BffTypes
<1>2. \A s \in Active : Free # s BY Zenon, ActiveReaders DEF BffInv
<1>3. ASSUME used'["expiries"] = 0
      PROVE  \A s \in Active :
          /\ reader'[s].holds # Levels
          /\ \A l \in reader'[s].holds : lock'[LockKey(s, l)'] = s
  <2>1. \A s \in Active : /\ reader[s].holds # Levels
                          /\ \A l \in reader[s].holds : lock[LockKey(s, l)] = s
    BY Zenon, <1>3, CountsOnly DEF BffInv, LockInv
  <2>2. reader[r].holds = {} BY <2>1, <1>2
  <2>3. n.holds = {level} /\ {level} # Levels BY <2>2 DEF Levels
  <2>4. \A s \in Active \ {r} : \A l \in reader[s].holds :
           LockKey(s, l) # key /\ lock'[LockKey(s, l)] = s
    <3> TAKE s \in Active \ {r}
    <3> TAKE l \in reader[s].holds
    <3>1. lock[LockKey(s, l)] = s BY Zenon, <2>1
    <3>2. LockKey(s, l) # key BY Zenon, <3>1, <1>2
    <3>3. lock' = [lock EXCEPT ![key] = r] OBVIOUS
    <3> QED BY <3>1, <3>2, <3>3 DEF BffInv, BffTypes
  <2> QED BY <2>1, <2>3, <2>4, <1>1
<1>4. \A s \in Active : \A k : Holds(s, k) => Holds(s, k)'
  BY Zenon DEF Holds
<1>5. Holds(r, key)' OBVIOUS
<1>6. ASSUME used'["faults"] = 0, NEW k \in Keys, lock'[k] # Free
      PROVE  Holds(lock[k], k)'
  <2>1. CASE k = key
    <3>1. \E s \in Active : s = lock'[k] /\ Holds(s, k)' BY Zenon, <2>1, <1>1, <1>5
    <3> QED BY Zenon, <3>1 DEF Holds
  <2>2. CASE k # key
    <3>1. lock'[k] = lock[k] BY Zenon, <2>2, <1>1
    <3>2. lock[k] \in Active /\ Holds(lock[k], k)
      BY Zenon, <3>1, <1>6, CountsOnly DEF BffInv, LockInv, Holds
    <3>3. \E s \in Active : s = lock'[k] /\ Holds(s, k)' BY Zenon, <3>1, <3>2, <1>4
    <3> QED BY <3>3 DEF Holds
  <2> QED BY Zenon, <2>1, <2>2
<1> QED BY Zenon, <1>3, <1>6 DEF LockInv

\* releaseLock, without a token: the one lock that r held is free.
LEMMA GivenBackLock ==
    ASSUME BffInv, StoreGrows, NEW r \in Active, NEW n, Becomes(r, n),
           NEW level \in reader[r].holds, LockKey(r, level) \in Keys,
           lock' = [lock EXCEPT ![LockKey(r, level)] = Free],
           n.holds = reader[r].holds \ {level}
    PROVE  LockInv'
<1> HoldersAre(r, n) BY Zenon, HoldersAfter
<1> USE DEF HoldersAre
<1> DEFINE key == LockKey(r, level)
<1>1. lock'[key] = Free /\ \A k \in Keys \ {key} : lock'[k] = lock[k]
  BY Zenon DEF BffInv, BffTypes
<1>2. reader[r].holds \subseteq Levels BY Zenon DEF ReaderRec
<1>3. ASSUME used'["expiries"] = 0
      PROVE  \A s \in Active :
          /\ reader'[s].holds # Levels
          /\ \A l \in reader'[s].holds : lock'[LockKey(s, l)'] = s
  <2>1. \A s \in Active : /\ reader[s].holds # Levels
                          /\ \A l \in reader[s].holds : lock[LockKey(s, l)] = s
    BY Zenon, <1>3, CountsOnly DEF BffInv, LockInv
  <2>2. n.holds = {} BY <2>1, <1>2 DEF Levels
  <2>3. lock[key] = r BY Zenon, <2>1
  <2>4. \A s \in Active \ {r} : \A l \in reader[s].holds : lock'[LockKey(s, l)] = s
    <3> TAKE s \in Active \ {r}
    <3> TAKE l \in reader[s].holds
    <3>1. lock[LockKey(s, l)] = s BY Zenon, <2>1
    <3>2. LockKey(s, l) # key BY Zenon, <3>1, <2>3
    <3>3. lock' = [lock EXCEPT ![key] = Free] OBVIOUS
    <3> QED BY <3>1, <3>2, <3>3 DEF BffInv, BffTypes
  <2> QED BY <2>1, <2>2, <2>4 DEF Levels
<1>4. \A s \in Active : \A k : Holds(s, k) /\ k # key => Holds(s, k)'
  BY Zenon DEF Holds
<1>5. ASSUME used'["faults"] = 0, NEW k \in Keys, lock'[k] # Free
      PROVE  Holds(lock[k], k)'
  <2>1. k # key /\ lock'[k] = lock[k] BY Zenon, <1>1, <1>5
  <2>2. lock[k] \in Active /\ Holds(lock[k], k)
    BY Zenon, <2>1, <1>5, CountsOnly DEF BffInv, LockInv, Holds
  <2>3. \E s \in Active : s = lock'[k] /\ Holds(s, k)' BY <2>1, <2>2, <1>4
  <2> QED BY Zenon, <2>3 DEF Holds
<1> QED BY Zenon, <1>3, <1>5 DEF LockInv

-----------------------------------------------------------------------------
(* The steps of a request of the bff, one by one. *)

\* Which key a query caches and locks where.
LEMMA QueryTable ==
    ASSUME NEW q \in Queries
    PROVE  /\ Outer(q) \in Keys \/ Outer(q) = NoLock
           /\ Outer(q) = NoLock <=> q = "deviceTelemetryHistory"
           /\ Outer(q) = "devices" <=> q = "devices"
           /\ Outer(q) = "all" <=> q = "allTelemetry"
           /\ Inner(q) \in {"list", "all", NoLock}
           /\ Inner(q) = "list" <=> q = "devices"
           /\ Inner(q) = "all" <=> q = "allTelemetry"
           /\ LocksOuter(q) <=> q \in {"deviceTelemetry", "allTelemetry"}
           /\ ChecksFirst(q) <=> q \in {"devicesConnection", "deviceTelemetryHistory"}
BY Zenon DEF Queries, Outer, Inner, LocksOuter, ChecksFirst, Keys, NoLock

\* What holds of a request before a step.
LEMMA RequestFacts ==
    ASSUME BffInv, NEW r \in Active
    PROVE  /\ r \in Readers /\ Query(r) \in Queries
           /\ reader[r] \in ReaderRec /\ reader[r].holds \subseteq Levels
           /\ reader[r].got \in Error .. version
           /\ Control(Query(r), reader[r])
           /\ reader[r].got = 0 \/ reader[r].at = "sleep" => MayBeEmpty(Query(r))
           /\ version \in Nat \ {0}
<1>1. r \in Readers /\ Query(r) \in Queries BY ActiveReaders DEF BffInv
<1>2. reader[r] \in ReaderRec BY <1>1 DEF BffInv, BffTypes
<1> QED BY <1>1, <1>2 DEF BffInv, ReadersInv, ReaderRec, StoreInv

\* A request that goes on as n.
LEMMA GoesOn ==
    ASSUME BffInv, NEW r \in Active, NEW n \in ReaderRec,
           reader' = [reader EXCEPT ![r] = n], Control(Query(r), n),
           n.got \in Error .. version,
           n.got = 0 \/ n.at = "sleep" => MayBeEmpty(Query(r)), UNCHANGED empty
    PROVE  Becomes(r, n)
<1>1. empty' \in [Readers -> BOOLEAN] BY DEF BffInv, BffTypes
<1> QED BY <1>1 DEF Becomes

\* A request that is answered.
LEMMA Answered ==
    ASSUME BffInv, NEW r \in Active, NEW g, Finish(r, g),
           g = 0 => MayBeEmpty(Query(r))
    PROVE  Becomes(r, Idle)
<1>1. r \in Readers /\ version \in Nat \ {0} BY RequestFacts
<1>2. Idle \in ReaderRec /\ Idle.got \in Error .. version
  BY <1>1 DEF Idle, ReaderRec, Ats, NoEntry, Error, Levels
<1>3. Control(Query(r), Idle)
  BY DEF Idle, Control
<1>4. empty' = [empty EXCEPT ![r] = g = 0] /\ reader' = [reader EXCEPT ![r] = Idle]
  BY DEF Finish
<1>5. empty' \in [Readers -> BOOLEAN] /\ empty'[r] = (g = 0)
      /\ \A s \in Readers \ {r} : empty'[s] = empty[s]
  BY <1>1, <1>4 DEF BffInv, BffTypes
<1>6. Idle.got # 0 /\ Idle.at # "sleep" BY DEF Idle, NoEntry
<1> QED BY Zenon, <1>2, <1>3, <1>4, <1>5, <1>6 DEF Becomes

\* An error keeps the locks that are still to be given back.
LEMMA Unwound ==
    ASSUME BffInv, NEW r \in Active, NEW held \in SUBSET Levels, Unwind(r, held),
           "outer" \in held => LocksOuter(Query(r)),
           "inner" \in held => Inner(Query(r)) # NoLock,
           reader[r].first => held = {}
    PROVE  \E n : Becomes(r, n) /\ n.holds = held
<1>1. CASE held = {}
  <2>1. Finish(r, Error) /\ Error # 0 BY <1>1 DEF Unwind, Error
  <2>2. Becomes(r, Idle) BY Zenon, <2>1, Answered
  <2> QED BY <1>1, <2>2 DEF Idle
<1>2. CASE held # {}
  <2> DEFINE a == IF "inner" \in held THEN "dbrelease" ELSE "release"
             n == [reader[r] EXCEPT !.got = Error, !.holds = held, !.at = a]
  <2>1. reader' = [reader EXCEPT ![r] = n] /\ UNCHANGED empty
    BY Zenon, <1>2 DEF Unwind
  <2>2. reader[r] \in ReaderRec /\ ~reader[r].first /\ version \in Nat
    BY <1>2, RequestFacts
  <2>3. a \in Ats /\ a # "sleep" BY DEF Ats
  <2>4. Error \in Error .. version /\ Error # 0 /\ Error \in Int
    BY <2>2 DEF Error
  <2>5. "inner" \notin held => held = {"outer"} BY Zenon, <1>2 DEF Levels
  <2>6. /\ n \in ReaderRec /\ n.at = a /\ n.got = Error /\ n.holds = held
        /\ n.first = reader[r].first
    BY Zenon, <2>2, <2>3, <2>4 DEF ReaderRec
  <2> HIDE DEF n
  <2>7. Control(Query(r), n)
    BY <2>2, <2>5, <2>6 DEF Control, Error
  <2>8. Becomes(r, n)
    BY Zenon, <2>1, <2>3, <2>4, <2>6, <2>7, GoesOn
  <2> QED BY <2>6, <2>8
<1> QED BY Zenon, <1>1, <1>2

\* A step that leaves the caches, the locks and what r holds alone.
LEMMA PlainStep ==
    ASSUME BffInv, StoreGrows, NEW r \in Active, NEW n, Becomes(r, n),
           n.holds = reader[r].holds, UNCHANGED <<cache, lock>>, BreakersTyped
    PROVE  BffInv'
<1>1. LockInv' BY Zenon, SameLocks
<1>2. /\ lock' \in [Keys -> Readers \cup {Free}]
      /\ cache' \in [Keys -> NoEntry .. version]
  BY DEF BffInv, BffTypes
<1> QED BY Zenon, <1>1, <1>2, ReaderStepKeeps

\* What most steps leave alone keeps its type.
LEMMA QuietStore ==
    ASSUME BffInv, UNCHANGED <<version, unposted, budget, used>>
    PROVE  /\ StoreGrows
           /\ UNCHANGED <<breaker, shared>> => BreakersTyped
<1>1. StoreInv BY DEF BffInv
<1> QED BY <1>1, SpendGrows DEF BffInv, BffTypes, BreakersTyped

\* What a request reads in the cache is a version, or empty where it may be.
LEMMA CachedValue ==
    ASSUME BffInv, NEW r \in Active, NEW k \in Keys,
           k = Outer(Query(r)) \/ k = Inner(Query(r)), cache[k] # NoEntry
    PROVE  /\ cache[k] \in 0 .. version
           /\ cache[k] = 0 => MayBeEmpty(Query(r))
<1>1. Query(r) \in Queries BY RequestFacts
<1>2. cache[k] \in NoEntry .. version /\ version \in Nat BY DEF BffInv, BffTypes, StoreInv
<1>3. cache[k] \in 0 .. version BY <1>2 DEF NoEntry
<1>4. cache[k] = 0 => k = "all" \/ (k = "devices" /\ MayBeEmpty("devices"))
  BY DEF BffInv, CacheInv
<1>5. k = "all" => Query(r) = "allTelemetry" BY <1>1, QueryTable
<1>6. k = "devices" => Query(r) = "devices" BY <1>1, QueryTable DEF NoLock
<1> QED BY Zenon, <1>3, <1>4, <1>5, <1>6 DEF MayBeEmpty

\* A request begins: straight at the resolver's cache, or with its first query.
LEMMA BeginInv ==
    ASSUME BffInv, NEW r, Begin(r), UNCHANGED <<version, unposted, budget>>
    PROVE  BffInv'
<1>1. r \in Active /\ reader[r].at = "idle" BY DEF Begin, At
<1> DEFINE q == Query(r)
           a == IF ChecksFirst(q) THEN "execute" ELSE "get"
           n == [reader[r] EXCEPT !.at = a, !.first = ChecksFirst(q)]
<1>2. reader' = [reader EXCEPT ![r] = n] /\ UNCHANGED <<empty, cache, lock, breaker, shared, used>>
  BY Zenon DEF Begin
<1>3. /\ reader[r] \in ReaderRec /\ Control(q, reader[r]) /\ q \in Queries
      /\ reader[r].got \in Error .. version
      /\ reader[r].got = 0 => MayBeEmpty(q)
  BY <1>1, RequestFacts
<1>4. ChecksFirst(q) \in BOOLEAN BY DEF ChecksFirst
<1>5. /\ n \in ReaderRec /\ n.at = a /\ n.got = reader[r].got
      /\ n.holds = reader[r].holds /\ n.first = ChecksFirst(q)
  BY Zenon, <1>3, <1>4 DEF ReaderRec, Ats
<1>6. reader[r].holds = {} BY Zenon, <1>1, <1>3 DEF Control
<1> HIDE DEF n
<1>7. ~ChecksFirst(q) => Outer(q) # NoLock BY Zenon, <1>3, QueryTable
<1>8. ChecksFirst(q) => Inner(q) = NoLock BY Zenon, <1>3, QueryTable
<1>9. Control(q, n) BY <1>5, <1>6, <1>7, <1>8 DEF Control
<1>10. Becomes(r, n) BY Zenon, <1>1, <1>2, <1>3, <1>5, <1>9, GoesOn
<1> QED BY <1>1, <1>2, <1>5, <1>10, QuietStore, PlainStep

\* The resolver's first look, and the one after a lock it did not get.
LEMMA LookInv ==
    ASSUME BffInv, NEW r \in Active, UNCHANGED <<version, unposted, budget>>,
           UNCHANGED <<cache, lock, breaker, shared, used>>,
           reader[r].at \in {"get", "reget"},
           NEW a, a = "lock" \/ a = Source(r), a = "lock" => LocksOuter(Query(r)),
           LET c == cache[Outer(Query(r))] IN
           IF c # NoEntry THEN Finish(r, c) ELSE Go(r, a) /\ UNCHANGED empty
    PROVE  BffInv'
<1> DEFINE q == Query(r)
           k == Outer(q)
           n == [reader[r] EXCEPT !.at = a]
<1>1. /\ reader[r] \in ReaderRec /\ Control(q, reader[r]) /\ q \in Queries
      /\ reader[r].got \in Error .. version
      /\ reader[r].got = 0 => MayBeEmpty(q)
  BY RequestFacts
<1>2. k \in Keys BY Zenon, <1>1, QueryTable DEF Control
<1>3. reader[r].holds = {} /\ ~reader[r].first BY Zenon, <1>1 DEF Control
<1>4. StoreGrows /\ BreakersTyped BY Zenon, QuietStore
<1>5. CASE cache[k] # NoEntry
  <2>1. Finish(r, cache[k]) BY Zenon, <1>5
  <2>2. cache[k] = 0 => MayBeEmpty(q) BY Zenon, <1>2, <1>5, CachedValue
  <2>3. Becomes(r, Idle) BY <2>1, <2>2, Answered
  <2>4. Idle.holds = reader[r].holds BY Zenon, <1>3 DEF Idle
  <2> QED BY Zenon, <2>3, <2>4, <1>4, PlainStep
<1>6. CASE cache[k] = NoEntry
  <2>1. reader' = [reader EXCEPT ![r] = n] /\ UNCHANGED empty
    BY Zenon, <1>6 DEF Go
  <2>2. a \in {"lock", "execute", "dbget"} BY DEF Source
  <2>3. /\ n \in ReaderRec /\ n.at = a /\ n.got = reader[r].got
        /\ n.holds = {} /\ ~n.first
    BY Zenon, <1>1, <1>3, <2>2 DEF ReaderRec, Ats
  <2> HIDE DEF n
  <2>4. a = "execute" => Inner(q) = NoLock BY Zenon DEF Source
  <2>5. a = "dbget" => Inner(q) # NoLock BY Zenon DEF Source
  <2>6. Control(q, n) BY <2>2, <2>3, <2>4, <2>5 DEF Control
  <2>7. Becomes(r, n) BY Zenon, <1>1, <2>1, <2>2, <2>3, <2>6, GoesOn
  <2> QED BY Zenon, <2>3, <2>7, <1>3, <1>4, PlainStep
<1> QED BY Zenon, <1>5, <1>6

\* cache.get of the resolver: an answer, or on to the lock or the data source.
LEMMA GetCachedInv ==
    ASSUME BffInv, NEW r, GetCached(r), UNCHANGED <<version, unposted, budget>>
    PROVE  BffInv'
<1>1. r \in Active /\ reader[r].at = "get" BY Zenon DEF GetCached, At
<1> DEFINE a == IF LocksOuter(Query(r)) THEN "lock" ELSE Source(r)
<1>2. Source(r) # "lock" BY DEF Source
<1>3. (a = "lock" \/ a = Source(r)) /\ (a = "lock" => LocksOuter(Query(r)))
  BY <1>2
<1>4. /\ UNCHANGED <<cache, lock, breaker, shared, used>>
      /\ LET c == cache[Outer(Query(r))] IN
         IF c # NoEntry THEN Finish(r, c) ELSE Go(r, a) /\ UNCHANGED empty
  BY Zenon DEF GetCached
<1> HIDE DEF a
<1> QED BY Zenon, <1>1, <1>3, <1>4, LookInv

\* acquireLock in either place: won with a free lock, or lost.
LEMMA AcquireInv ==
    ASSUME BffInv, NEW r \in Active, UNCHANGED <<version, unposted, budget>>,
           UNCHANGED <<empty, cache, breaker, shared, used>>,
           NEW level \in Levels, NEW won, NEW lost, AcquireLock(r, level, won, lost),
           \/ /\ reader[r].at = "lock" /\ level = "outer"
              /\ won = Source(r) /\ lost = "reget"
           \/ /\ reader[r].at = "dblock" /\ level = "inner"
              /\ won = "execute" /\ lost = "sleep"
    PROVE  BffInv'
<1> DEFINE q == Query(r)
           key == LockKey(r, level)
<1>1. /\ reader[r] \in ReaderRec /\ Control(q, reader[r]) /\ q \in Queries
      /\ reader[r].holds \subseteq Levels
      /\ reader[r].got \in Error .. version
      /\ reader[r].got = 0 => MayBeEmpty(q)
  BY RequestFacts
<1>2. StoreGrows /\ BreakersTyped BY Zenon, QuietStore
<1>3. ~reader[r].first BY Zenon, <1>1 DEF Control
<1>4. level = "outer" => LocksOuter(q) /\ reader[r].holds = {}
  BY Zenon, <1>1 DEF Control
<1>5. level = "inner" => Inner(q) # NoLock /\ "inner" \notin reader[r].holds
  BY Zenon, <1>1 DEF Control
<1>6. key \in Keys
  BY Zenon, <1>1, <1>4, <1>5, QueryTable DEF LockKey, Keys, Levels, NoLock
<1>7. \/ reader[r].holds = {}
      \/ /\ level = "inner" /\ reader[r].holds = {"outer"}
         /\ LockKey(r, "outer") = LockKey(r, "inner")
  <2>1. CASE level = "outer" BY Zenon, <2>1, <1>4
  <2>2. CASE level = "inner" /\ reader[r].holds # {}
    <3>1. reader[r].holds = {"outer"} BY Zenon, <2>2, <1>1, <1>5 DEF Levels
    <3>2. LocksOuter(q) BY Zenon, <3>1, <1>1 DEF Control
    <3>3. q = "allTelemetry"
      <4>1. q # "deviceTelemetry" BY Zenon, <2>2, <1>1, <1>5, QueryTable DEF NoLock
      <4> QED BY Zenon, <4>1, <3>2, <1>1, QueryTable
    <3> QED BY Zenon, <2>2, <3>1, <3>3, <1>1, QueryTable DEF LockKey
  <2> QED BY Zenon, <2>1, <2>2 DEF Levels
<1>8. Source(r) \in {"execute", "dbget"} /\ (Source(r) = "execute" <=> Inner(q) = NoLock)
  BY Zenon DEF Source
<1>9. CASE lock[key] = Free
  <2> DEFINE n == [reader[r] EXCEPT !.at = won, !.holds = @ \cup {level}]
  <2>1. /\ lock' = [lock EXCEPT ![key] = r] /\ reader' = [reader EXCEPT ![r] = n]
    BY Zenon, <1>9 DEF AcquireLock
  <2>2. /\ n \in ReaderRec /\ n.at = won /\ n.got = reader[r].got
        /\ n.holds = reader[r].holds \cup {level} /\ n.first = reader[r].first
    BY Zenon, <1>1, <1>8 DEF ReaderRec, Ats
  <2> HIDE DEF n
  <2>3. "outer" \in reader[r].holds => LocksOuter(q) BY Zenon, <1>1 DEF Control
  <2>4. Control(q, n)
    <3>1. CASE level = "outer"
      BY Zenon, <3>1, <2>2, <1>3, <1>4, <1>8 DEF Control
    <3>2. CASE level = "inner"
      BY Zenon, <3>2, <2>2, <2>3, <1>3, <1>5 DEF Control
    <3> QED BY Zenon, <3>1, <3>2 DEF Levels
  <2>5. won # "sleep" BY <1>8
  <2>6. Becomes(r, n) BY Zenon, <1>1, <2>1, <2>2, <2>4, <2>5, GoesOn
  <2>7. LockInv' BY Zenon, <1>2, <1>6, <1>7, <1>9, <2>1, <2>2, <2>6, TakenLock
  <2>8. /\ lock' \in [Keys -> Readers \cup {Free}]
        /\ cache' \in [Keys -> NoEntry .. version]
    BY Zenon, <2>1, RequestFacts DEF BffInv, BffTypes
  <2> QED BY <1>2, <2>6, <2>7, <2>8, ReaderStepKeeps
<1>10. CASE lock[key] # Free
  <2> DEFINE n == [reader[r] EXCEPT !.at = lost]
  <2>1. UNCHANGED lock /\ reader' = [reader EXCEPT ![r] = n]
    BY <1>10 DEF AcquireLock, Go
  <2>2. /\ n \in ReaderRec /\ n.at = lost /\ n.got = reader[r].got
        /\ n.holds = reader[r].holds /\ n.first = reader[r].first
    BY Zenon, <1>1 DEF ReaderRec, Ats
  <2> HIDE DEF n
  <2>3. "outer" \in reader[r].holds => LocksOuter(q) BY <1>1 DEF Control
  <2>4. LocksOuter(q) => Outer(q) # NoLock BY <1>1, QueryTable
  <2>5. Control(q, n)
    BY Zenon, <2>2, <2>3, <2>4, <1>3, <1>4, <1>5 DEF Control
  <2>6. lost = "sleep" => MayBeEmpty(q)
    <3> SUFFICES ASSUME lost = "sleep", q # "allTelemetry", ~(used["faults"] > 0)
                 PROVE  MayBeEmpty(q)
      <4>1. used["faults"] > 0 /\ q = "devices" => MayBeEmpty(q) BY Zenon DEF MayBeEmpty
      <4>2. q = "allTelemetry" => MayBeEmpty(q) BY Zenon DEF MayBeEmpty
      <4>3. level = "inner" => q \in {"allTelemetry", "devices"}
        BY Zenon, <1>1, <1>5, QueryTable DEF NoLock
      <4> QED BY Zenon, <4>1, <4>2, <4>3
    <3>1. level = "inner" /\ q = "devices" /\ key = "list"
      BY Zenon, <1>1, <1>5, QueryTable DEF LockKey, NoLock
    <3>2. used["faults"] = 0 BY DEF BffInv, StoreInv, Bounds
    <3>3. Holds(lock[key], key) BY Zenon, <3>2, <1>6, <1>10 DEF BffInv, LockInv
    <3>4. PICK s \in Active : \E l \in reader[s].holds : s = lock[key] /\ LockKey(s, l) = "list"
      BY Zenon, <3>1, <3>3 DEF Holds
    <3>5. Query(s) \in Queries /\ reader[s].holds \subseteq Levels BY RequestFacts
    <3>6. Outer(Query(s)) # "list"
      BY Zenon, <3>5 DEF Outer, Queries, NoLock
    <3>7. Query(s) = "devices" /\ "inner" \in reader[s].holds
      BY Zenon, <3>4, <3>5, <3>6, QueryTable DEF LockKey, Levels
    <3>8. s # r BY <3>1, <3>7, <1>5
    <3> QED BY Zenon, <3>1, <3>7, <3>8 DEF MayBeEmpty
  <2>7. Becomes(r, n) BY Zenon, <1>1, <2>1, <2>2, <2>5, <2>6, GoesOn
  <2> QED BY <1>2, <2>1, <2>2, <2>7, PlainStep
<1> QED BY Zenon, <1>9, <1>10

\* cacheGetOrLock: the lock, or one more look without it.
LEMMA CacheGetOrLockInv ==
    ASSUME BffInv, NEW r, CacheGetOrLock(r), UNCHANGED <<version, unposted, budget>>
    PROVE  BffInv'
<1>1. UNCHANGED <<cache, breaker, shared, used>> BY DEF CacheGetOrLock
<1>2. CASE At(r, "lock") /\ AcquireLock(r, "outer", Source(r), "reget") /\ UNCHANGED empty
  BY Zenon, <1>1, <1>2, AcquireInv DEF At, Levels
<1>3. CASE /\ At(r, "reget") /\ UNCHANGED lock
           /\ LET c == cache[Outer(Query(r))] IN
              IF c # NoEntry THEN Finish(r, c) ELSE Go(r, Source(r)) /\ UNCHANGED empty
  <2>1. Source(r) # "lock" BY DEF Source
  <2> QED BY Zenon, <1>1, <1>3, <2>1, LookInv DEF At
<1> QED BY Zenon, <1>2, <1>3 DEF CacheGetOrLock

\* The data source's lock; allTelemetry waits for the one it holds itself.
LEMMA DbLockInv ==
    ASSUME BffInv, NEW r, DbLock(r), UNCHANGED <<version, unposted, budget>>
    PROVE  BffInv'
BY AcquireInv DEF DbLock, At, Levels

\* The data source's result, from the cache at once or after the wait, goes to
\* the resolver; without one, the lock comes next.
LEMMA SourceLookInv ==
    ASSUME BffInv, NEW r, DbGetCached(r) \/ Wake(r),
           UNCHANGED <<version, unposted, budget>>
    PROVE  BffInv'
<1>1. /\ r \in Active /\ reader[r].at \in {"dbget", "sleep"}
      /\ UNCHANGED <<empty, cache, lock, breaker, shared, used>>
  BY Zenon DEF DbGetCached, Wake, At
<1> DEFINE q == Query(r)
           c == cache[Inner(q)]
<1>2. /\ reader[r] \in ReaderRec /\ Control(q, reader[r]) /\ q \in Queries
      /\ reader[r].got \in Error .. version /\ version \in Nat
      /\ reader[r].got = 0 \/ reader[r].at = "sleep" => MayBeEmpty(q)
  BY Zenon, <1>1, RequestFacts
<1>3. StoreGrows /\ BreakersTyped BY <1>1, QuietStore
<1>4. Inner(q) # NoLock /\ "inner" \notin reader[r].holds /\ ~reader[r].first
  BY Zenon, <1>1, <1>2 DEF Control
<1>5. Inner(q) \in Keys /\ Outer(q) # NoLock
  BY <1>2, <1>4, QueryTable DEF Keys, NoLock
<1>6. "outer" \in reader[r].holds => LocksOuter(q) BY Zenon, <1>2 DEF Control
<1>7. c # NoEntry => c \in 0 .. version /\ (c = 0 => MayBeEmpty(q))
  BY Zenon, <1>1, <1>5, CachedValue
<1>8. ASSUME NEW g \in 0 .. version, Have(r, g, "set"), g = 0 => MayBeEmpty(q)
      PROVE  BffInv'
  <2> DEFINE n == [reader[r] EXCEPT !.at = "set", !.got = g]
  <2>1. reader' = [reader EXCEPT ![r] = n] BY Zenon, <1>8 DEF Have
  <2>2. /\ n \in ReaderRec /\ n.at = "set" /\ n.got = g
        /\ n.holds = reader[r].holds /\ n.first = reader[r].first
    <3>1. g \in Int BY <1>2
    <3>2. reader[r] \in ReaderRec BY Zenon, <1>2
    <3> QED BY Zenon, <3>1, <3>2 DEF ReaderRec, Ats
  <2> HIDE DEF n
  <2>3. g \in Error .. version /\ g >= 0 BY <1>2 DEF Error
  <2>4. Control(q, n) BY <2>2, <2>3, <1>4, <1>5, <1>6 DEF Control
  <2>5. Becomes(r, n) BY Zenon, <1>1, <1>8, <2>1, <2>2, <2>3, <2>4, GoesOn
  <2> QED BY <1>1, <1>3, <2>2, <2>5, PlainStep
<1>9. ASSUME Go(r, "dblock") PROVE BffInv'
  <2> DEFINE n == [reader[r] EXCEPT !.at = "dblock"]
  <2>1. reader' = [reader EXCEPT ![r] = n] BY <1>9 DEF Go
  <2>2. /\ n \in ReaderRec /\ n.at = "dblock" /\ n.got = reader[r].got
        /\ n.holds = reader[r].holds /\ n.first = reader[r].first
    BY <1>2 DEF ReaderRec, Ats
  <2> HIDE DEF n
  <2>3. Control(q, n) BY Zenon, <2>2, <1>4, <1>6 DEF Control
  <2>4. Becomes(r, n) BY Zenon, <1>1, <1>2, <2>1, <2>2, <2>3, GoesOn
  <2> QED BY Zenon, <1>1, <1>3, <2>2, <2>4, PlainStep
<1>10. CASE DbGetCached(r)
  <2>1. IF c # NoEntry THEN Have(r, c, "set") ELSE Go(r, "dblock")
    BY <1>10 DEF DbGetCached
  <2> QED BY Zenon, <2>1, <1>7, <1>8, <1>9
<1>11. CASE Wake(r)
  <2>1. reader[r].at = "sleep" /\ Have(r, IF c = NoEntry THEN 0 ELSE c, "set")
    BY Zenon, <1>11 DEF Wake, At
  <2>2. MayBeEmpty(q) BY Zenon, <2>1, <1>2
  <2>3. 0 \in 0 .. version BY <1>2
  <2>4. CASE c = NoEntry
    <3>1. Have(r, 0, "set") BY Zenon, <2>1, <2>4
    <3> QED BY Zenon, <3>1, <2>2, <2>3, <1>8
  <2>5. CASE c # NoEntry
    <3>1. Have(r, c, "set") BY Zenon, <2>1, <2>5
    <3> QED BY Zenon, <3>1, <2>5, <1>7, <1>8
  <2> QED BY Zenon, <2>4, <2>5
<1> QED BY Zenon, <1>10, <1>11

\* The data source caches what Postgres answered, which is never empty.
LEMMA DbSetInv ==
    ASSUME BffInv, NEW r, DbSet(r), UNCHANGED <<version, unposted, budget>>
    PROVE  BffInv'
<1>1. /\ r \in Active /\ reader[r].at = "dbset"
      /\ UNCHANGED <<empty, lock, breaker, shared, used>>
  BY Zenon DEF DbSet, At
<1> DEFINE q == Query(r)
           n == [reader[r] EXCEPT !.at = "dbrelease"]
<1>2. /\ reader[r] \in ReaderRec /\ Control(q, reader[r]) /\ q \in Queries
      /\ reader[r].got \in Error .. version /\ version \in Nat
      /\ reader[r].got = 0 => MayBeEmpty(q)
  BY Zenon, <1>1, RequestFacts
<1>3. StoreGrows /\ BreakersTyped BY <1>1, QuietStore
<1>4. reader' = [reader EXCEPT ![r] = n] BY DEF DbSet, Go
<1>5. /\ n \in ReaderRec /\ n.at = "dbrelease" /\ n.got = reader[r].got
      /\ n.holds = reader[r].holds /\ n.first = reader[r].first
  BY Zenon, <1>2 DEF ReaderRec, Ats
<1> HIDE DEF n
<1>6. reader[r].got >= 1 /\ Inner(q) # NoLock BY Zenon, <1>1, <1>2 DEF Control
<1>7. Control(q, n) BY Zenon, <1>1, <1>2, <1>5, <1>6 DEF Control
<1>8. Becomes(r, n) BY Zenon, <1>1, <1>2, <1>4, <1>5, <1>7, GoesOn
<1>9. LockInv' BY Zenon, <1>1, <1>3, <1>5, <1>8, SameLocks
<1>10. Inner(q) \in Keys BY Zenon, <1>2, <1>6, QueryTable DEF Keys, NoLock
<1>11. cache' = [cache EXCEPT ![Inner(q)] = reader[r].got] BY Zenon DEF DbSet
<1>12. reader[r].got \in NoEntry .. version /\ reader[r].got # 0
  BY <1>2, <1>6 DEF NoEntry
<1>13. /\ cache' \in [Keys -> NoEntry .. version]
       /\ \A k \in Keys : cache'[k] = 0 => cache[k] = 0
  BY Zenon, <1>10, <1>11, <1>12 DEF BffInv, BffTypes
<1>14. lock' \in [Keys -> Readers \cup {Free}] BY Zenon, <1>1 DEF BffInv, BffTypes
<1> QED BY Zenon, <1>1, <1>3, <1>8, <1>9, <1>13, <1>14, ReaderStepKeeps

\* The data source gives its lock back and returns, or goes on failing.
LEMMA DbReleaseInv ==
    ASSUME BffInv, NEW r, DbRelease(r), UNCHANGED <<version, unposted, budget>>
    PROVE  BffInv'
<1>1. /\ r \in Active /\ reader[r].at = "dbrelease"
      /\ UNCHANGED <<cache, breaker, shared, used>>
  BY Zenon DEF DbRelease, At
<1> DEFINE q == Query(r)
           held == reader[r].holds \ {"inner"}
           key == LockKey(r, "inner")
<1>2. /\ reader[r] \in ReaderRec /\ Control(q, reader[r]) /\ q \in Queries
      /\ reader[r].got \in Error .. version /\ version \in Nat
      /\ reader[r].got = 0 => MayBeEmpty(q)
      /\ reader[r].holds \subseteq Levels
  BY Zenon, <1>1, RequestFacts
<1>3. StoreGrows /\ BreakersTyped BY Zenon, <1>1, QuietStore
<1>4. /\ Inner(q) # NoLock /\ "inner" \in reader[r].holds /\ ~reader[r].first
      /\ "outer" \in reader[r].holds => LocksOuter(q)
      /\ reader[r].got = Error \/ reader[r].got >= 1
  BY <1>1, <1>2 DEF Control
<1>5. key \in Keys /\ Outer(q) # NoLock
  BY Zenon, <1>2, <1>4, QueryTable DEF Keys, NoLock, LockKey
<1>6. lock' = [lock EXCEPT ![key] = Free] BY Zenon DEF DbRelease
<1>7. \E n : Becomes(r, n) /\ n.holds = held
  <2>1. CASE reader[r].got = Error
    <3>1. Unwind(r, held) BY Zenon, <2>1 DEF DbRelease
    <3>2. held \in SUBSET Levels /\ "inner" \notin held BY Zenon, <1>2
    <3>3. "outer" \in held => LocksOuter(q) BY Zenon, <1>4
    <3> HIDE DEF held
    <3> QED BY Zenon, <3>1, <3>2, <3>3, <1>1, <1>4, Unwound
  <2>2. CASE reader[r].got # Error
    <3> DEFINE n == [reader[r] EXCEPT !.at = "set", !.holds = held]
    <3>1. reader' = [reader EXCEPT ![r] = n] /\ UNCHANGED empty
      BY Zenon, <2>2 DEF DbRelease
    <3>2. /\ n \in ReaderRec /\ n.at = "set" /\ n.got = reader[r].got
          /\ n.holds = held /\ n.first = reader[r].first
      BY Zenon, <1>2 DEF ReaderRec, Ats
    <3> HIDE DEF n
    <3>3. reader[r].got >= 0 BY <2>2, <1>2, <1>4
    <3>4. Control(q, n) BY Zenon, <3>2, <3>3, <1>4, <1>5 DEF Control
    <3>5. Becomes(r, n) BY Zenon, <1>1, <1>2, <3>1, <3>2, <3>4, GoesOn
    <3> QED BY <3>2, <3>5
  <2> QED BY Zenon, <2>1, <2>2
<1>8. PICK n : Becomes(r, n) /\ n.holds = held BY <1>7
<1>9. LockInv' BY Zenon, <1>1, <1>3, <1>4, <1>5, <1>6, <1>8, GivenBackLock
<1>10. /\ lock' \in [Keys -> Readers \cup {Free}]
       /\ cache' \in [Keys -> NoEntry .. version]
  BY Zenon, <1>1, <1>6 DEF BffInv, BffTypes
<1> QED BY Zenon, <1>1, <1>3, <1>8, <1>9, <1>10, ReaderStepKeeps

\* The resolver caches what it has, and answers if it holds no lock.
LEMMA SetCachedInv ==
    ASSUME BffInv, NEW r, SetCached(r), UNCHANGED <<version, unposted, budget>>
    PROVE  BffInv'
<1>1. /\ r \in Active /\ reader[r].at = "set"
      /\ UNCHANGED <<lock, breaker, shared, used>>
  BY Zenon DEF SetCached, At
<1> DEFINE q == Query(r)
<1>2. /\ reader[r] \in ReaderRec /\ Control(q, reader[r]) /\ q \in Queries
      /\ reader[r].got \in Error .. version /\ version \in Nat
      /\ reader[r].got = 0 => MayBeEmpty(q)
      /\ reader[r].holds \subseteq Levels
  BY Zenon, <1>1, RequestFacts
<1>3. StoreGrows /\ BreakersTyped BY <1>1, QuietStore
<1>4. /\ Outer(q) # NoLock /\ "inner" \notin reader[r].holds /\ ~reader[r].first
      /\ "outer" \in reader[r].holds => LocksOuter(q)
      /\ reader[r].got >= 0
  BY Zenon, <1>1, <1>2 DEF Control
<1>5. \E n : Becomes(r, n) /\ n.holds = reader[r].holds
  <2>1. CASE reader[r].holds = {}
    <3>1. Finish(r, reader[r].got) BY <2>1 DEF SetCached
    <3>2. Becomes(r, Idle) BY Zenon, <3>1, <1>1, <1>2, Answered
    <3> QED BY <2>1, <3>2 DEF Idle
  <2>2. CASE reader[r].holds # {}
    <3> DEFINE n == [reader[r] EXCEPT !.at = "release"]
    <3>1. reader' = [reader EXCEPT ![r] = n] /\ UNCHANGED empty
      BY <2>2 DEF SetCached, Go
    <3>2. /\ n \in ReaderRec /\ n.at = "release" /\ n.got = reader[r].got
          /\ n.holds = reader[r].holds /\ n.first = reader[r].first
      BY <1>2 DEF ReaderRec, Ats
    <3> HIDE DEF n
    <3>3. reader[r].holds = {"outer"} BY Zenon, <2>2, <1>2, <1>4 DEF Levels
    <3>4. Control(q, n) BY Zenon, <3>2, <3>3, <1>4 DEF Control
    <3>5. Becomes(r, n) BY Zenon, <1>1, <1>2, <3>1, <3>2, <3>4, GoesOn
    <3> QED BY <3>2, <3>5
  <2> QED BY Zenon, <2>1, <2>2
<1>6. PICK n : Becomes(r, n) /\ n.holds = reader[r].holds BY Zenon, <1>5
<1>7. LockInv' BY Zenon, <1>1, <1>3, <1>6, SameLocks
<1>8. Outer(q) \in Keys BY Zenon, <1>2, <1>4, QueryTable
<1>9. cache' = [cache EXCEPT ![Outer(q)] = reader[r].got] BY Zenon DEF SetCached
<1>10. reader[r].got \in NoEntry .. version BY <1>2, <1>4 DEF NoEntry
<1>11. cache' \in [Keys -> NoEntry .. version]
  BY Zenon, <1>9, <1>10 DEF BffInv, BffTypes
<1>12. \A k \in Keys : cache'[k] = IF k = Outer(q) THEN reader[r].got ELSE cache[k]
  BY Zenon, <1>9 DEF BffInv, BffTypes
<1>13. ASSUME reader[r].got = 0
       PROVE  \/ Outer(q) = "all"
              \/ Outer(q) = "devices" /\ MayBeEmpty("devices")
  <2>1. MayBeEmpty(q) BY Zenon, <1>2, <1>13
  <2>2. q = "allTelemetry" \/ q = "devices" BY Zenon, <2>1 DEF MayBeEmpty
  <2> QED BY Zenon, <2>1, <2>2, <1>2, QueryTable
<1>14. \A k \in Keys : cache'[k] = 0 =>
          cache[k] = 0 \/ k = "all" \/ (k = "devices" /\ MayBeEmpty("devices"))
  BY Zenon, <1>12, <1>13
<1>15. lock' \in [Keys -> Readers \cup {Free}] BY Zenon, <1>1 DEF BffInv, BffTypes
<1> QED BY Zenon, <1>1, <1>3, <1>6, <1>7, <1>11, <1>14, <1>15, ReaderStepKeeps

\* The resolver gives its lock back and answers.
LEMMA ReleaseInv ==
    ASSUME BffInv, NEW r, Release(r), UNCHANGED <<version, unposted, budget>>
    PROVE  BffInv'
<1>1. /\ r \in Active /\ reader[r].at = "release"
      /\ UNCHANGED <<cache, breaker, shared, used>>
      /\ Finish(r, reader[r].got)
  BY Zenon DEF Release, At
<1> DEFINE q == Query(r)
           key == LockKey(r, "outer")
<1>2. /\ Control(q, reader[r]) /\ q \in Queries
      /\ reader[r].got = 0 => MayBeEmpty(q)
  BY Zenon, <1>1, RequestFacts
<1>3. StoreGrows /\ BreakersTyped BY <1>1, QuietStore
<1>4. reader[r].holds = {"outer"} /\ LocksOuter(q) BY Zenon, <1>1, <1>2 DEF Control
<1>5. key \in Keys BY Zenon, <1>2, <1>4, QueryTable DEF LockKey
<1>6. lock' = [lock EXCEPT ![key] = Free] BY Zenon DEF Release
<1>7. Becomes(r, Idle) BY Zenon, <1>1, <1>2, Answered
<1>8. Idle.holds = reader[r].holds \ {"outer"} BY <1>4 DEF Idle
<1>9. LockInv' BY Zenon, <1>1, <1>3, <1>4, <1>5, <1>6, <1>7, <1>8, GivenBackLock
<1>10. /\ lock' \in [Keys -> Readers \cup {Free}]
       /\ cache' \in [Keys -> NoEntry .. version]
  BY Zenon, <1>1, <1>6 DEF BffInv, BffTypes
<1> QED BY Zenon, <1>1, <1>3, <1>7, <1>9, <1>10, ReaderStepKeeps

\* The circuit breaker's operations keep its record.
LEMMA BreakerOps ==
    ASSUME NEW b \in BreakerRec, shared \in SharedRec
    PROVE  /\ SyncFromRedis(b) \in BreakerRec
           /\ [b EXCEPT !.state = "HALF_OPEN"] \in BreakerRec
           /\ OnSuccess(b) \in BreakerRec /\ OnFailure(b) \in BreakerRec
           /\ SyncToRedis(b) \subseteq SharedRec
<1>1. Successes \in Nat \ {0} BY ReadersAssumption
<1>2. SyncFromRedis(b) \in BreakerRec BY Zenon DEF SyncFromRedis, BreakerRec, SharedRec
<1>3. [b EXCEPT !.state = "HALF_OPEN"] \in BreakerRec BY DEF BreakerRec
<1>4. OnSuccess(b) \in BreakerRec
  <2> DEFINE closes == b.state = "HALF_OPEN" /\ b.successes + 1 >= Successes
             st == IF closes THEN "CLOSED" ELSE b.state
             su == IF closes THEN 0
                   ELSE IF b.state = "HALF_OPEN" THEN b.successes + 1 ELSE b.successes
  <2>1. st \in {"CLOSED", "OPEN", "HALF_OPEN"} BY DEF BreakerRec
  <2>2. su \in 0 .. Successes - 1 BY <1>1 DEF BreakerRec
  <2>3. OnSuccess(b) = [b EXCEPT !.failures = 0, !.state = st, !.successes = su]
    BY DEF OnSuccess
  <2> HIDE DEF closes, st, su
  <2>4. 0 \in Nat OBVIOUS
  <2>5. [b EXCEPT !.failures = 0, !.state = st, !.successes = su] \in BreakerRec
    BY Zenon, <2>1, <2>2, <2>4 DEF BreakerRec
  <2> QED BY <2>3, <2>5
<1>5. OnFailure(b) \in BreakerRec
  <2> DEFINE st == IF b.state = "HALF_OPEN" \/ b.failures + 1 >= Threshold
                   THEN "OPEN" ELSE b.state
             su == IF b.state = "HALF_OPEN" THEN 0 ELSE b.successes
  <2>1. st \in {"CLOSED", "OPEN", "HALF_OPEN"} BY DEF BreakerRec
  <2>2. su \in 0 .. Successes - 1 BY <1>1 DEF BreakerRec
  <2>3. OnFailure(b) = [b EXCEPT !.failures = b.failures + 1, !.cooled = FALSE,
                                 !.state = st, !.successes = su]
    BY DEF OnFailure
  <2>4. b.failures + 1 \in Nat BY DEF BreakerRec
  <2> HIDE DEF st, su
  <2> QED BY Zenon, <2>1, <2>2, <2>3, <2>4 DEF BreakerRec
<1>6. SyncToRedis(b) \subseteq SharedRec BY DEF SyncToRedis, BreakerRec, SharedRec
<1> QED BY Zenon, <1>2, <1>3, <1>4, <1>5, <1>6

\* A request at the breaker, or inside it, may fail with all its locks.
LEMMA UnwindsFrom ==
    ASSUME BffInv, NEW r \in Active, reader[r].at \in {"execute", "run"},
           Unwind(r, reader[r].holds)
    PROVE  \E n : Becomes(r, n) /\ n.holds = reader[r].holds
<1>1. /\ Control(Query(r), reader[r]) /\ Query(r) \in Queries
      /\ reader[r].holds \subseteq Levels
  BY Zenon, RequestFacts
<1>2. /\ "outer" \in reader[r].holds => LocksOuter(Query(r))
      /\ "inner" \in reader[r].holds => Inner(Query(r)) # NoLock
  BY Zenon, <1>1 DEF Control
<1>3. reader[r].first => reader[r].holds = {}
  <2>1. ChecksFirst(Query(r)) => Inner(Query(r)) = NoLock /\ ~LocksOuter(Query(r))
    BY Zenon, <1>1, QueryTable
  <2> QED BY Zenon, <1>1, <1>2, <2>1 DEF Control, Levels
<1> QED BY Zenon, <1>1, <1>2, <1>3, Unwound

\* CircuitBreaker.execute lets the query run, or fails at once.
LEMMA ExecuteInv ==
    ASSUME BffInv, NEW r, Execute(r), UNCHANGED <<version, unposted, budget>>
    PROVE  BffInv'
<1> DEFINE q == Query(r)
           p == PodOf[r]
<1>1. r \in Active /\ reader[r].at = "execute" /\ UNCHANGED <<cache, lock, shared>>
  BY Zenon DEF Execute, At
<1>2. PICK readable \in BOOLEAN :
        LET b == IF readable THEN SyncFromRedis(breaker[p]) ELSE breaker[p] IN
        /\ MayFail(readable)
        /\ IF b.state = "OPEN" /\ ~b.cooled
           THEN Unwind(r, reader[r].holds) /\ breaker' = [breaker EXCEPT ![p] = b]
           ELSE /\ Go(r, "run") /\ UNCHANGED empty
                /\ breaker' = [breaker EXCEPT ![p] =
                      IF b.state = "OPEN" THEN [b EXCEPT !.state = "HALF_OPEN"] ELSE b]
  BY Zenon DEF Execute
<1> DEFINE b == IF readable THEN SyncFromRedis(breaker[p]) ELSE breaker[p]
<1>3. /\ reader[r] \in ReaderRec /\ Control(q, reader[r]) /\ r \in Readers
      /\ reader[r].got \in Error .. version
      /\ reader[r].got = 0 => MayBeEmpty(q)
  BY Zenon, <1>1, RequestFacts
<1>4. p \in Pods /\ breaker \in [Pods -> BreakerRec] /\ shared \in SharedRec
  BY <1>3, ReadersAssumption DEF BffInv, BffTypes
<1>5. b \in BreakerRec BY Zenon, <1>4, BreakerOps
<1>6. StoreGrows
  <2>1. UNCHANGED used \/ Spend("faults") BY Zenon, <1>2 DEF MayFail
  <2> QED BY Zenon, <2>1, SpendGrows DEF BffInv, Bounds
<1> HIDE DEF b
<1>7. BreakersTyped
  <2>1. \E c \in BreakerRec : breaker' = [breaker EXCEPT ![p] = c]
    BY Zenon, <1>2, <1>5, BreakerOps, <1>4 DEF b
  <2> QED BY Zenon, <2>1, <1>1, <1>4 DEF BreakersTyped
<1>8. \E n : Becomes(r, n) /\ n.holds = reader[r].holds
  <2>1. CASE Unwind(r, reader[r].holds) BY Zenon, <2>1, <1>1, UnwindsFrom
  <2>2. CASE Go(r, "run") /\ UNCHANGED empty
    <3> DEFINE n == [reader[r] EXCEPT !.at = "run"]
    <3>1. reader' = [reader EXCEPT ![r] = n] BY <2>2 DEF Go
    <3>2. /\ n \in ReaderRec /\ n.at = "run" /\ n.got = reader[r].got
          /\ n.holds = reader[r].holds /\ n.first = reader[r].first
      BY <1>3 DEF ReaderRec, Ats
    <3> HIDE DEF n
    <3>3. Control(q, n) BY Zenon, <1>1, <1>3, <3>2 DEF Control
    <3>4. Becomes(r, n) BY Zenon, <1>1, <1>3, <2>2, <3>1, <3>2, <3>3, GoesOn
    <3> QED BY <3>2, <3>4
  <2> QED BY Zenon, <2>1, <2>2, <1>2
<1> QED BY Zenon, <1>1, <1>6, <1>7, <1>8, PlainStep

\* Postgres answers: the version it has goes where the query wants it.
LEMMA QuerySucceedsInv ==
    ASSUME BffInv, NEW r, QuerySucceeds(r), UNCHANGED <<version, unposted, budget>>
    PROVE  BffInv'
<1> DEFINE q == Query(r)
           p == PodOf[r]
           x == reader[r]
<1>1. /\ r \in Active /\ x.at = "run" /\ UNCHANGED <<cache, lock, used>>
      /\ Deliver(r, version)
      /\ breaker' = [breaker EXCEPT ![p] = OnSuccess(breaker[p])]
      /\ shared' \in SyncToRedis(OnSuccess(breaker[p])) \cup {shared}
  BY Zenon DEF QuerySucceeds, At
<1>2. /\ x \in ReaderRec /\ Control(q, x) /\ r \in Readers /\ q \in Queries
      /\ x.got \in Error .. version /\ version \in Nat \ {0}
      /\ x.got = 0 => MayBeEmpty(q)
      /\ x.holds \subseteq Levels
  BY Zenon, <1>1, RequestFacts
<1>3. p \in Pods /\ breaker \in [Pods -> BreakerRec] /\ shared \in SharedRec
  BY Zenon, <1>2, ReadersAssumption DEF BffInv, BffTypes
<1>4. BreakersTyped
  <2>1. breaker[p] \in BreakerRec BY <1>3
  <2>2. OnSuccess(breaker[p]) \in BreakerRec BY Zenon, <2>1, <1>3, BreakerOps
  <2>3. SyncToRedis(OnSuccess(breaker[p])) \subseteq SharedRec BY Zenon, <2>2, <1>3, BreakerOps
  <2> QED BY Zenon, <2>2, <2>3, <1>1, <1>3 DEF BreakersTyped
<1>5. StoreGrows BY Zenon, <1>1, QuietStore
<1>6. /\ "outer" \in x.holds => LocksOuter(q)
      /\ "inner" \in x.holds <=> Inner(q) # NoLock
      /\ x.first => ChecksFirst(q)
  BY Zenon, <1>1, <1>2 DEF Control
<1>7. ChecksFirst(q) => x.holds = {}
  <2>1. ChecksFirst(q) => Inner(q) = NoLock /\ ~LocksOuter(q) BY Zenon, <1>2, QueryTable
  <2> QED BY Zenon, <2>1, <1>2, <1>6 DEF Levels
<1>8. \E n : Becomes(r, n) /\ n.holds = x.holds
  <2>1. CASE x.first
    <3> DEFINE a == IF q = "devicesConnection" THEN "get" ELSE "cassandra"
               n == [x EXCEPT !.first = FALSE, !.at = a]
    <3>1. reader' = [reader EXCEPT ![r] = n] /\ UNCHANGED empty
      BY Zenon, <2>1, <1>1 DEF Deliver
    <3>2. /\ n \in ReaderRec /\ n.at = a /\ n.got = x.got
          /\ n.holds = x.holds /\ n.first = FALSE
      BY Zenon, <1>2 DEF ReaderRec, Ats
    <3> HIDE DEF n
    <3>3. /\ q = "devicesConnection" => Outer(q) # NoLock
          /\ q # "devicesConnection" => q = "deviceTelemetryHistory"
      BY Zenon, <2>1, <1>2, <1>6, QueryTable
    <3>4. Control(q, n) BY Zenon, <3>2, <3>3, <2>1, <1>6, <1>7 DEF Control
    <3>5. Becomes(r, n) BY Zenon, <1>1, <1>2, <3>1, <3>2, <3>4, GoesOn
    <3> QED BY <3>2, <3>5
  <2>2. CASE ~x.first /\ q = "deviceTelemetryHistory"
    <3>1. Finish(r, version) BY Zenon, <2>2, <1>1 DEF Deliver
    <3>2. version # 0 BY <1>2
    <3>3. Becomes(r, Idle) BY Zenon, <3>1, <3>2, <1>1, Answered
    <3>4. x.holds = {} BY Zenon, <2>2, <1>2, <1>7, QueryTable
    <3> QED BY <3>3, <3>4 DEF Idle
  <2>3. CASE ~x.first /\ q # "deviceTelemetryHistory"
    <3> DEFINE a == IF Inner(q) = NoLock THEN "set" ELSE "dbset"
               n == [x EXCEPT !.at = a, !.got = version]
    <3>1. reader' = [reader EXCEPT ![r] = n] /\ UNCHANGED empty
      BY Zenon, <2>3, <1>1 DEF Deliver, Have
    <3>2. version \in Int /\ version >= 1 /\ version \in Error .. version
      BY <1>2 DEF Error
    <3>3. /\ n \in ReaderRec /\ n.at = a /\ n.got = version
          /\ n.holds = x.holds /\ n.first = x.first
      BY Zenon, <1>2, <3>2 DEF ReaderRec, Ats
    <3> HIDE DEF n
    <3>4. Outer(q) # NoLock BY Zenon, <2>3, <1>2, QueryTable
    <3>5. Control(q, n)
      <4>1. CASE Inner(q) = NoLock
        <5>1. n.at = "set" /\ n.got >= 0 BY <4>1, <3>2, <3>3
        <5>2. "set" \notin {"execute", "run", "idle", "get", "lock", "reget", "cassandra",
                            "dbget", "dblock", "sleep", "dbset", "dbrelease", "release"}
          OBVIOUS
        <5> QED BY Zenon, <4>1, <5>1, <5>2, <3>3, <3>4, <2>3, <1>2, <1>6 DEF Control
      <4>2. CASE Inner(q) # NoLock
        BY Zenon, <4>2, <3>2, <3>3, <3>4, <2>3, <1>2, <1>6 DEF Control
      <4> QED BY Zenon, <4>1, <4>2
    <3>6. n.got # 0 /\ n.at # "sleep" BY <3>2, <3>3
    <3>7. Becomes(r, n) BY Zenon, <1>1, <3>1, <3>2, <3>3, <3>5, <3>6, GoesOn
    <3> QED BY <3>3, <3>7
  <2> QED BY Zenon, <2>1, <2>2, <2>3
<1> QED BY Zenon, <1>1, <1>4, <1>5, <1>8, PlainStep

\* Postgres fails: the error unwinds, and the breaker may count it.
LEMMA QueryFailsInv ==
    ASSUME BffInv, NEW r, QueryFails(r), UNCHANGED <<version, unposted, budget>>
    PROVE  BffInv'
<1> DEFINE p == PodOf[r]
           b == OnFailure(breaker[p])
<1>1. /\ r \in Active /\ reader[r].at = "run" /\ UNCHANGED <<cache, lock>>
      /\ Spend("failures") /\ Unwind(r, reader[r].holds)
  BY Zenon DEF QueryFails, At
<1>2. \/ UNCHANGED <<breaker, shared>>
      \/ breaker' = [breaker EXCEPT ![p] = b] /\ shared' \in SyncToRedis(b) \cup {shared}
  BY Zenon DEF QueryFails
<1>3. r \in Readers BY Zenon, <1>1, RequestFacts
<1>4. p \in Pods /\ breaker \in [Pods -> BreakerRec] /\ shared \in SharedRec
  BY <1>3, ReadersAssumption DEF BffInv, BffTypes
<1>5. b \in BreakerRec /\ SyncToRedis(b) \subseteq SharedRec
  <2>1. breaker[p] \in BreakerRec BY <1>4
  <2>2. b \in BreakerRec BY Zenon, <2>1, <1>4, BreakerOps
  <2> QED BY Zenon, <2>2, <1>4, BreakerOps
<1> HIDE DEF b
<1>6. BreakersTyped BY Zenon, <1>2, <1>4, <1>5 DEF BreakersTyped
<1>7. StoreGrows BY Zenon, <1>1, SpendGrows DEF BffInv, Bounds
<1>8. \E n : Becomes(r, n) /\ n.holds = reader[r].holds BY <1>1, UnwindsFrom
<1> QED BY Zenon, <1>1, <1>6, <1>7, <1>8, PlainStep

\* Cassandra has rows, or the history comes from Postgres.
LEMMA AskCassandraInv ==
    ASSUME BffInv, NEW r, AskCassandra(r), UNCHANGED <<version, unposted, budget>>
    PROVE  BffInv'
<1> DEFINE q == Query(r)
           n == [reader[r] EXCEPT !.at = "execute"]
<1>1. /\ r \in Active /\ reader[r].at = "cassandra"
      /\ UNCHANGED <<cache, lock, breaker, shared, used>>
      /\ \/ Finish(r, version)
         \/ reader' = [reader EXCEPT ![r] = n] /\ UNCHANGED empty
  BY DEF AskCassandra, At, Go
<1>2. /\ reader[r] \in ReaderRec /\ Control(q, reader[r]) /\ q \in Queries
      /\ reader[r].got \in Error .. version /\ version \in Nat \ {0}
      /\ reader[r].got = 0 => MayBeEmpty(q)
  BY <1>1, RequestFacts
<1>3. StoreGrows /\ BreakersTyped BY <1>1, QuietStore
<1>4. reader[r].holds = {} /\ ~reader[r].first /\ q = "deviceTelemetryHistory"
  BY Zenon, <1>1, <1>2 DEF Control
<1>5. Inner(q) = NoLock BY <1>2, <1>4, QueryTable
<1>6. CASE Finish(r, version)
  <2>1. version # 0 BY <1>2
  <2>2. Becomes(r, Idle) BY Zenon, <1>1, <1>6, <2>1, Answered
  <2>3. Idle.holds = reader[r].holds BY Zenon, <1>4 DEF Idle
  <2> QED BY Zenon, <1>1, <1>3, <2>2, <2>3, PlainStep
<1>7. CASE reader' = [reader EXCEPT ![r] = n] /\ UNCHANGED empty
  <2>1. /\ n \in ReaderRec /\ n.at = "execute" /\ n.got = reader[r].got
        /\ n.holds = reader[r].holds /\ n.first = reader[r].first
    BY Zenon, <1>2 DEF ReaderRec, Ats
  <2> HIDE DEF n
  <2>2. Control(q, n) BY <1>4, <1>5, <2>1 DEF Control
  <2>3. Becomes(r, n) BY Zenon, <1>1, <1>2, <1>7, <2>1, <2>2, GoesOn
  <2> QED BY <1>1, <1>3, <2>1, <2>3, PlainStep
<1> QED BY Zenon, <1>1, <1>6, <1>7

\* A Redis call throws: where it was a release, the lock stays behind.
LEMMA RedisFailsInv ==
    ASSUME BffInv, NEW r, RedisFails(r), UNCHANGED <<version, unposted, budget>>
    PROVE  BffInv'
<1> DEFINE q == Query(r)
           x == reader[r]
           held == x.holds \ CASE x.at = "dbrelease" -> {"inner"}
                               [] x.at = "release" -> {"outer"}
                               [] OTHER -> {}
<1>1. /\ r \in Active /\ x.at \notin {"idle", "execute", "run", "cassandra"}
      /\ Spend("faults") /\ Unwind(r, held)
      /\ UNCHANGED <<cache, lock, breaker, shared>>
  BY DEF RedisFails
<1>2. Control(q, x) /\ q \in Queries /\ x \in ReaderRec /\ x.holds \subseteq Levels
  BY <1>1, RequestFacts
<1>3. StoreGrows /\ used'["faults"] > 0
  BY <1>1, SpendGrows, FaultCounted DEF BffInv, Bounds
<1>4. BreakersTyped BY <1>1 DEF BffInv, BffTypes, BreakersTyped
<1>5. held \subseteq x.holds /\ held \in SUBSET Levels BY Zenon, <1>2
<1>6. ~x.first BY Zenon, <1>1, <1>2 DEF Control
<1>7. "outer" \in held => LocksOuter(q) BY <1>2, <1>5 DEF Control
<1>8. "inner" \in held => Inner(q) # NoLock
  <2>1. x.at \in Ats BY Zenon, <1>2 DEF ReaderRec
  <2>2. "inner" \in x.holds => x.at \in {"dbset", "dbrelease"}
    BY <1>1, <1>2, <2>1 DEF Control, Ats
  <2> QED BY Zenon, <2>2, <1>2, <1>5 DEF Control
<1> HIDE DEF held
<1>9. PICK n : Becomes(r, n) /\ n.holds = held
  BY Zenon, <1>1, <1>5, <1>6, <1>7, <1>8, Unwound
<1>10. LockInv' BY Zenon, <1>1, <1>3, <1>5, <1>9, LostLocks
<1>11. /\ lock' \in [Keys -> Readers \cup {Free}]
       /\ cache' \in [Keys -> NoEntry .. version]
  BY Zenon, <1>1 DEF BffInv, BffTypes
<1> QED BY Zenon, <1>1, <1>3, <1>4, <1>9, <1>10, <1>11, ReaderStepKeeps

-----------------------------------------------------------------------------
(* Time, pods that stop, and the writer. *)

\* The parts of the invariant together, when the requests stay as they are.
LEMMA TimeKeeps ==
    ASSUME BffInv, StoreGrows, UNCHANGED <<reader, empty>>, BreakersTyped,
           lock' \in [Keys -> Readers \cup {Free}], LockInv',
           cache' \in [Keys -> NoEntry .. version],
           \A k \in Keys : cache'[k] = 0 => cache[k] = 0
    PROVE  BffInv'
<1>1. /\ StoreInv' /\ Active' = Active /\ version' = version
      /\ \A s : Query(s)' = Query(s)
      /\ \A q : MayBeEmpty(q) => MayBeEmpty(q)'
  BY Zenon, StoreKept DEF BffInv, StoreGrows
<1>2. BffTypes' BY Zenon, <1>1 DEF BffInv, BffTypes, BreakersTyped
<1>3. ReadersInv' BY Zenon, <1>1 DEF BffInv, ReadersInv
<1>4. CacheInv' BY <1>1 DEF BffInv, CacheInv
<1> QED BY <1>1, <1>2, <1>3, <1>4 DEF BffInv

\* Neither requests nor locks change.
LEMMA IdleLocks ==
    ASSUME BffInv, StoreGrows, UNCHANGED <<reader, lock>>
    PROVE  LockInv'
<1>1. Active' = Active /\ \A s : Query(s)' = Query(s) BY Zenon, StoreKept DEF BffInv
<1>2. \A s, l : LockKey(s, l)' = LockKey(s, l) BY Zenon, <1>1 DEF LockKey
<1>3. \A k : Holds(lock[k], k)' <=> Holds(lock[k], k) BY Zenon, <1>1, <1>2 DEF Holds
<1>4. /\ used'["expiries"] = 0 => used["expiries"] = 0
      /\ used'["faults"] = 0 => used["faults"] = 0
  BY Zenon, CountsOnly DEF BffInv
<1> QED BY Zenon, <1>1, <1>2, <1>3, <1>4 DEF BffInv, LockInv

\* An entry reaches its time to live.
LEMMA ExpireEntryInv ==
    ASSUME BffInv, NEW k \in Keys, ExpireEntry(k), UNCHANGED <<version, unposted, budget>>
    PROVE  BffInv'
<1>1. /\ UNCHANGED <<reader, empty, lock, breaker, shared, used>>
      /\ cache' = [cache EXCEPT ![k] = NoEntry]
  BY Zenon DEF ExpireEntry
<1>2. StoreGrows /\ BreakersTyped BY <1>1, QuietStore
<1>3. NoEntry \in NoEntry .. version /\ NoEntry # 0
  <2>1. version \in Nat BY Zenon DEF BffInv, StoreInv
  <2> QED BY <2>1 DEF NoEntry
<1>4. /\ cache' \in [Keys -> NoEntry .. version]
      /\ \A j \in Keys : cache'[j] = 0 => cache[j] = 0
  BY Zenon, <1>1, <1>3 DEF BffInv, BffTypes
<1>5. lock' \in [Keys -> Readers \cup {Free}] BY Zenon, <1>1 DEF BffInv, BffTypes
<1> QED BY Zenon, <1>1, <1>2, <1>4, <1>5, IdleLocks, TimeKeeps

\* A lock reaches its five seconds: early, which is counted, or left behind.
LEMMA ExpireLockInv ==
    ASSUME BffInv, NEW k \in Keys, ExpireLock(k), UNCHANGED <<version, unposted, budget>>
    PROVE  BffInv'
<1>1. /\ lock[k] # Free /\ UNCHANGED <<reader, empty, cache, breaker, shared>>
      /\ lock' = [lock EXCEPT ![k] = Free]
      /\ IF Holds(lock[k], k) THEN Spend("expiries") ELSE UNCHANGED used
  BY Zenon DEF ExpireLock
<1>2. StoreGrows BY Zenon, <1>1, SpendGrows DEF BffInv, Bounds
<1>3. BreakersTyped BY Zenon, <1>1 DEF BffInv, BffTypes, BreakersTyped
<1>4. /\ Active' = Active /\ \A s : Query(s)' = Query(s)
  BY Zenon, <1>2, StoreKept DEF BffInv
<1>5. \A s, l : LockKey(s, l)' = LockKey(s, l) BY Zenon, <1>4 DEF LockKey
<1>6. /\ lock'[k] = Free /\ lock' \in [Keys -> Readers \cup {Free}]
      /\ \A j \in Keys \ {k} : lock'[j] = lock[j]
  BY <1>1 DEF BffInv, BffTypes
<1>7. LockInv'
  <2>1. ASSUME used'["expiries"] = 0
        PROVE  \A r \in Active :
                 /\ reader[r].holds # Levels
                 /\ \A level \in reader[r].holds : lock'[LockKey(r, level)] = r
    <3>1. used["expiries"] = 0 BY Zenon, <2>1, <1>2, CountsOnly DEF BffInv
    <3>2. \A r \in Active : /\ reader[r].holds # Levels
                            /\ \A level \in reader[r].holds : lock[LockKey(r, level)] = r
      BY Zenon, <3>1 DEF BffInv, LockInv
    <3>3. ~Holds(lock[k], k)
      <4>1. Spend("expiries") => used'["expiries"] = used["expiries"] + 1
        BY Zenon DEF BffInv, StoreInv, Spend, Bounds
      <4> QED BY <4>1, <3>1, <2>1, <1>1
    <3>4. ASSUME NEW r \in Active, NEW level \in reader[r].holds
          PROVE  lock'[LockKey(r, level)] = r
      <4>1. lock[LockKey(r, level)] = r BY Zenon, <3>2
      <4>2. LockKey(r, level) # k BY Zenon, <4>1, <3>3 DEF Holds
      <4> QED BY <4>1, <4>2, <1>1 DEF BffInv, BffTypes
    <3> QED BY Zenon, <3>2, <3>4
  <2>2. ASSUME used'["faults"] = 0, NEW j \in Keys, lock'[j] # Free
        PROVE  Holds(lock[j], j)'
    <3>1. lock'[j] = lock[j] BY Zenon, <2>2, <1>6
    <3>2. used["faults"] = 0 BY <2>2, <1>2, CountsOnly DEF BffInv
    <3>3. Holds(lock[j], j) BY Zenon, <2>2, <3>1, <3>2 DEF BffInv, LockInv
    <3> QED BY <3>1, <3>3, <1>1, <1>4, <1>5 DEF Holds
  <2> QED BY Zenon, <2>1, <2>2, <1>1, <1>4, <1>5 DEF LockInv
<1>8. cache' \in [Keys -> NoEntry .. version] BY Zenon, <1>1 DEF BffInv, BffTypes
<1> QED BY Zenon, <1>1, <1>2, <1>3, <1>6, <1>7, <1>8, TimeKeeps

\* Only the breakers change: they cool down, or the shared state expires.
LEMMA OnlyBreakers ==
    ASSUME BffInv, BreakersTyped, UNCHANGED <<reader, empty, cache, lock, used>>,
           UNCHANGED <<version, unposted, budget>>
    PROVE  BffInv'
<1>1. StoreGrows BY Zenon, QuietStore
<1>2. /\ lock' \in [Keys -> Readers \cup {Free}]
      /\ cache' \in [Keys -> NoEntry .. version]
  BY DEF BffInv, BffTypes
<1> QED BY Zenon, <1>1, <1>2, IdleLocks, TimeKeeps

\* 30 seconds pass for a pod's breaker.
LEMMA CoolInv ==
    ASSUME BffInv, NEW p \in Pods, CoolDown(p), UNCHANGED <<version, unposted, budget>>
    PROVE  BffInv'
<1>1. breaker \in [Pods -> BreakerRec] /\ shared \in SharedRec
  BY DEF BffInv, BffTypes
<1>2. [breaker[p] EXCEPT !.cooled = TRUE] \in BreakerRec BY Zenon, <1>1 DEF BreakerRec
<1>3. breaker' = [breaker EXCEPT ![p] = [breaker[p] EXCEPT !.cooled = TRUE]]
      /\ UNCHANGED <<reader, empty, cache, lock, shared, used>>
  BY DEF CoolDown
<1>4. BreakersTyped BY Zenon, <1>1, <1>2, <1>3 DEF BreakersTyped
<1> QED BY Zenon, <1>3, <1>4, OnlyBreakers

\* 30 or 120 seconds pass for the breaker state in Redis.
LEMMA SharedCoolInv ==
    ASSUME BffInv, CoolShared \/ ExpireShared, UNCHANGED <<version, unposted, budget>>
    PROVE  BffInv'
<1>1. breaker \in [Pods -> BreakerRec] /\ shared \in SharedRec
  BY DEF BffInv, BffTypes
<1>2. UNCHANGED <<reader, empty, cache, lock, breaker, used>>
  BY Zenon DEF CoolShared, ExpireShared
<1>3. CASE CoolShared
  <2>1. [shared EXCEPT !.cooled = TRUE] \in SharedRec BY Zenon, <1>1 DEF SharedRec
  <2>2. BreakersTyped BY Zenon, <1>1, <1>2, <1>3, <2>1 DEF BreakersTyped, CoolShared
  <2> QED BY <1>2, <2>2, OnlyBreakers
<1>4. CASE ExpireShared
  <2>1. NotShared \in SharedRec BY Zenon DEF NotShared, SharedRec
  <2>2. BreakersTyped BY Zenon, <1>1, <1>2, <1>4, <2>1 DEF BreakersTyped, ExpireShared
  <2> QED BY <1>2, <2>2, OnlyBreakers
<1> QED BY Zenon, <1>3, <1>4

\* A pod stops: its requests and its breaker are gone, their locks stay.
LEMMA StopPodInv ==
    ASSUME BffInv, NEW p \in Pods, StopPod(p), UNCHANGED <<version, unposted, budget>>
    PROVE  BffInv'
<1>1. /\ Spend("faults") /\ UNCHANGED <<empty, cache, lock, shared>>
      /\ reader' = [r \in Readers |-> IF PodOf[r] = p THEN Idle ELSE reader[r]]
      /\ breaker' = [breaker EXCEPT ![p] = Closed]
  BY DEF StopPod
<1>2. StoreGrows /\ used'["faults"] > 0
  BY Zenon, <1>1, SpendGrows, FaultCounted DEF BffInv, Bounds
<1>3. /\ StoreInv' /\ Active' = Active /\ version' = version /\ version \in Nat
      /\ \A s : Query(s)' = Query(s)
      /\ \A q : MayBeEmpty(q) => MayBeEmpty(q)'
  BY Zenon, <1>2, StoreKept DEF BffInv, StoreGrows, StoreInv
<1>4. Idle \in ReaderRec /\ Idle.got \in Error .. version /\ Idle.got # 0
      /\ Idle.at # "sleep" /\ Idle.holds = {} /\ \A q : Control(q, Idle)
  <2>1. "idle" # "sleep"
    OBVIOUS
  <2> QED
    BY Zenon, <1>3, <2>1, IdleIs
<1>5. Closed \in BreakerRec
  BY ReadersAssumption DEF Closed, BreakerRec
<1>6. BffTypes'
  <2>1. reader' \in [Readers -> ReaderRec] BY Zenon, <1>1, <1>4 DEF BffInv, BffTypes
  <2>2. breaker' \in [Pods -> BreakerRec] BY <1>1, <1>5 DEF BffInv, BffTypes
  <2> QED BY <2>1, <2>2, <1>1, <1>3 DEF BffInv, BffTypes
<1>7. \A r \in Active : r \in Readers /\ (reader'[r] = Idle \/ reader'[r] = reader[r])
  BY Zenon, <1>1, ActiveReaders DEF BffInv
<1>8. ReadersInv'
  <2> SUFFICES ASSUME NEW s \in Active
               PROVE  /\ Control(Query(s), reader'[s])
                      /\ reader'[s].got \in Error .. version
                      /\ reader'[s].got = 0 \/ reader'[s].at = "sleep" \/ empty'[s]
                            => MayBeEmpty(Query(s))'
    BY Zenon, <1>3 DEF ReadersInv
  <2>1. /\ Control(Query(s), reader[s]) /\ reader[s].got \in Error .. version
        /\ reader[s].got = 0 \/ reader[s].at = "sleep" \/ empty[s] => MayBeEmpty(Query(s))
    BY Zenon DEF BffInv, ReadersInv
  <2>2. CASE reader'[s] = Idle BY Zenon, <2>1, <2>2, <1>1, <1>3, <1>4
  <2>3. CASE reader'[s] = reader[s] BY Zenon, <2>1, <2>3, <1>1, <1>3
  <2> QED BY Zenon, <2>2, <2>3, <1>7
<1>9. CacheInv' BY <1>1, <1>3 DEF BffInv, CacheInv
<1>10. LockInv'
  <2>1. \A s, l : LockKey(s, l)' = LockKey(s, l) BY Zenon, <1>3 DEF LockKey
  <2>2. ASSUME used'["expiries"] = 0, NEW r \in Active
        PROVE  /\ reader'[r].holds # Levels
               /\ \A level \in reader'[r].holds : lock[LockKey(r, level)] = r
    <3>1. /\ reader[r].holds # Levels
          /\ \A level \in reader[r].holds : lock[LockKey(r, level)] = r
      BY Zenon, <2>2, <1>2, CountsOnly DEF BffInv, LockInv
    <3>2. {} # Levels BY Zenon DEF Levels
    <3> QED BY Zenon, <3>1, <3>2, <1>4, <1>7
  <2>3. ~(used'["faults"] = 0) BY <1>2 DEF StoreGrows, Bounds
  <2> QED BY Zenon, <2>1, <2>2, <2>3, <1>1, <1>3 DEF LockInv
<1> QED BY Zenon, <1>3, <1>6, <1>8, <1>9, <1>10 DEF BffInv

-----------------------------------------------------------------------------
(* The gateway's route. *)

CallRec == [at : {"idle", "pointer", "payload", "lock", "wait", "waitPayload", "query",
                  "own", "setPayload", "setPointer", "unlock"},
            got : Nat, loops : 0 .. MaxWaitLoops, late : BOOLEAN]
TripRec == [failures : Nat, open : BOOLEAN, cooled : BOOLEAN]

GatewayInv ==
    /\ call \in [Callers -> CallRec]
    /\ \A c \in Callers : /\ call[c].got <= version
                          /\ call[c].at \in {"setPayload", "setPointer"} => call[c].got >= 1
    /\ pointer \in 0 .. version /\ payloads \subseteq 1 .. version
    /\ owner \in Callers \cup {Nobody}
    /\ trip \in [Pods -> TripRec]
    /\ \A p \in Pods : /\ trip[p].failures <= used["faults"]
                       /\ used["faults"] = 0 => ~trip[p].open
    /\ \A c \in Callers : Owns(c) /\ ~call[c].late => owner = c
    /\ used["faults"] = 0 /\ owner # Nobody => Owns(owner)

\* A request and a breaker at rest.
LEMMA NoCallIs ==
    /\ NoCall \in CallRec /\ NoCall.at = "idle" /\ NoCall.got = 0
    /\ Untripped \in TripRec /\ Untripped.failures = 0
<1>1. NoCall \in CallRec
  BY CallersAssumption DEF NoCall, CallRec
<1>2. NoCall.at = "idle" /\ NoCall.got = 0
  BY DEF NoCall
<1>3. Untripped \in TripRec /\ Untripped.failures = 0
  BY DEF Untripped, TripRec
<1> QED
  BY Zenon, <1>1, <1>2, <1>3

\* Every step of a request of the bff keeps the invariant.
LEMMA BffStepInv ==
    ASSUME BffInv, NEW r \in Readers, BffStep(r) PROVE BffInv'
<1>1. UNCHANGED <<version, unposted, budget>> BY Zenon DEF BffStep, StoreStays
<1> QED
  BY Zenon, <1>1, BeginInv, GetCachedInv, CacheGetOrLockInv, SourceLookInv, DbLockInv,
     ExecuteInv, QuerySucceedsInv, AskCassandraInv, DbSetInv, DbReleaseInv,
     SetCachedInv, ReleaseInv, QueryFailsInv, RedisFailsInv
  DEF BffStep, ReaderStep

\* The row advances or stays, and the bounds are used up.
StoreMoves ==
    /\ UNCHANGED budget
    /\ version' \in Nat \ {0} /\ version <= version' /\ unposted' \subseteq 1 .. version'
    /\ used' \in [Bounds -> Nat]
    /\ \A b \in Bounds : used[b] <= used'[b] /\ used'[b] <= budget[b]

\* A step that leaves the row alone is one of these.
LEMMA GrowsMoves ==
    ASSUME StoreInv, StoreGrows PROVE StoreMoves
BY DEF StoreInv, StoreGrows, StoreMoves

\* The writer, or a step of the gateway, leaves the bff's part alone.
LEMMA BffRests ==
    ASSUME BffInv, StoreMoves, UNCHANGED bffVars PROVE BffInv'
<1>1. StoreInv' BY Zenon DEF BffInv, StoreInv, StoreMoves
<1>2. Active' = Active /\ \A r : Query(r)' = Query(r)
  BY Zenon DEF StoreMoves, Active, Query
<1>3. \A b \in {"expiries", "faults"} : /\ used[b] \in Nat /\ used'[b] \in Nat
                                        /\ used[b] <= used'[b]
  BY Zenon DEF BffInv, StoreInv, StoreMoves, Bounds
<1>4. \A q : MayBeEmpty(q) => MayBeEmpty(q)'
  <2>1. used["faults"] > 0 => used'["faults"] > 0 BY <1>3
  <2> QED BY Zenon, <1>2, <2>1 DEF MayBeEmpty
<1>5. version \in Nat /\ version' \in Nat /\ version <= version'
  BY DEF BffInv, StoreInv, StoreMoves
<1>6. /\ reader' = reader /\ empty' = empty /\ cache' = cache /\ lock' = lock
      /\ breaker' = breaker /\ shared' = shared
  BY Zenon DEF bffVars
<1>7. \A i \in Int : /\ i \in Error .. version => i \in Error .. version'
                     /\ i \in NoEntry .. version => i \in NoEntry .. version'
  BY <1>5 DEF Error, NoEntry
<1>8. BffTypes'
  <2>1. NoEntry .. version \subseteq NoEntry .. version' BY <1>5 DEF NoEntry
  <2>2. cache' \in [Keys -> NoEntry .. version'] BY <2>1, <1>6 DEF BffInv, BffTypes
  <2> QED BY Zenon, <2>2, <1>6 DEF BffInv, BffTypes
<1>9. ReadersInv'
  <2> SUFFICES ASSUME NEW r \in Active
               PROVE  /\ Control(Query(r), reader[r])
                      /\ reader[r].got \in Error .. version'
                      /\ reader[r].got = 0 \/ reader[r].at = "sleep" \/ empty[r]
                            => MayBeEmpty(Query(r))'
    BY Zenon, <1>2, <1>6 DEF ReadersInv
  <2>1. /\ Control(Query(r), reader[r]) /\ reader[r].got \in Error .. version
        /\ reader[r].got = 0 \/ reader[r].at = "sleep" \/ empty[r] => MayBeEmpty(Query(r))
    BY Zenon DEF BffInv, ReadersInv
  <2>2. reader[r].got \in Error .. version' BY <2>1, <1>5 DEF Error
  <2> QED BY Zenon, <2>1, <2>2, <1>2, <1>4
<1>10. CacheInv' BY <1>4, <1>6 DEF BffInv, CacheInv
<1>11. LockInv'
  <2>1. \A s, l : LockKey(s, l)' = LockKey(s, l) BY Zenon, <1>2 DEF LockKey
  <2>2. \A k : Holds(lock[k], k)' <=> Holds(lock[k], k) BY Zenon, <1>2, <1>6, <2>1 DEF Holds
  <2>3. /\ used'["expiries"] = 0 => used["expiries"] = 0
        /\ used'["faults"] = 0 => used["faults"] = 0
    BY <1>3
  <2> QED BY Zenon, <1>2, <1>6, <2>1, <2>2, <2>3 DEF BffInv, LockInv
<1> QED BY Zenon, <1>1, <1>8, <1>9, <1>10, <1>11 DEF BffInv

\* A request in this place owns the lock, unless it expired.
Owning(at) == at \in {"own", "setPayload", "setPointer", "unlock"}

\* The call of c becomes n.
Calls(c, n) ==
    /\ n \in CallRec /\ call' = [call EXCEPT ![c] = n]
    /\ n.got <= version
    /\ n.at \in {"setPayload", "setPointer"} => n.got >= 1

\* The breakers count no more failures than there were faults.
TripsBounded ==
    /\ trip' \in [Pods -> TripRec]
    /\ \A p \in Pods : /\ trip'[p].failures <= used'["faults"]
                       /\ used'["faults"] = 0 => ~trip'[p].open

\* What Redis holds for the device.
EntriesTyped == pointer' \in 0 .. version' /\ payloads' \subseteq 1 .. version'

\* The parts of the invariant together, after a step of one call: it keeps the
\* lock as it was, takes a free one, or gives its own back.
LEMMA CallKeeps ==
    ASSUME StoreInv, GatewayInv, StoreGrows, NEW c \in Callers, NEW n, Calls(c, n),
           TripsBounded, EntriesTyped,
           \/ /\ owner' = owner
              /\ Owning(n.at) => Owning(call[c].at) /\ n.late = call[c].late
              /\ used'["faults"] = 0 /\ Owning(call[c].at) => Owning(n.at)
           \/ owner = Nobody /\ owner' = c /\ Owning(n.at)
           \/ owner' = (IF owner = c THEN Nobody ELSE owner) /\ ~Owning(n.at)
    PROVE  GatewayInv'
<1>1. /\ call \in [Callers -> CallRec] /\ owner \in Callers \cup {Nobody}
      /\ \A d \in Callers : Owns(d) /\ ~call[d].late => owner = d
      /\ used["faults"] = 0 /\ owner # Nobody => Owns(owner)
      /\ Nobody \notin Callers
  BY Zenon, CallersAssumption DEF GatewayInv
<1>2. call'[c] = n /\ \A d \in Callers \ {c} : call'[d] = call[d]
  BY Zenon, <1>1 DEF Calls
<1>3. call' \in [Callers -> CallRec] BY Zenon, <1>1 DEF Calls
<1>4. \A d \in Callers : /\ call'[d].got <= version'
                         /\ call'[d].at \in {"setPayload", "setPointer"} => call'[d].got >= 1
  BY <1>2 DEF GatewayInv, StoreGrows, Calls
<1>5. owner' \in Callers \cup {Nobody} BY Zenon, <1>1
<1>6. ASSUME NEW d \in Callers, Owns(d)', ~call'[d].late PROVE owner' = d
  <2>1. CASE d = c
    <3>1. Owning(n.at) /\ ~n.late BY Zenon, <1>2, <1>6, <2>1 DEF Owns, Owning
    <3>2. Owning(call[c].at) => Owns(c) BY DEF Owns, Owning
    <3> QED BY Zenon, <1>1, <2>1, <3>1, <3>2
  <2>2. CASE d # c
    <3>1. Owns(d) /\ ~call[d].late BY Zenon, <1>2, <1>6, <2>2 DEF Owns
    <3> QED BY Zenon, <3>1, <1>1, <2>2
  <2> QED BY <2>1, <2>2
<1>7. ASSUME used'["faults"] = 0, owner' # Nobody PROVE Owns(owner)'
  <2>1. used["faults"] = 0 BY <1>7, CountsOnly
  <2>2. owner' \in Callers BY Zenon, <1>5, <1>7
  <2>3. CASE owner' = c
    <3>1. Owning(n.at) BY Zenon, <1>1, <1>7, <2>1, <2>3 DEF Owns, Owning
    <3> QED BY <3>1, <1>2, <2>3 DEF Owns, Owning
  <2>4. CASE owner' # c
    <3>1. owner' = owner BY Zenon, <2>2, <2>4, <1>1
    <3>2. Owns(owner) /\ call'[owner] = call[owner] BY Zenon, <3>1, <1>1, <1>2, <1>7, <2>1, <2>2, <2>4
    <3> QED BY Zenon, <3>1, <3>2 DEF Owns
  <2> QED BY Zenon, <2>3, <2>4
<1> QED
  BY Zenon, <1>3, <1>4, <1>5, <1>6, <1>7 DEF GatewayInv, TripsBounded, EntriesTyped

\* The step leaves the pointer and the payloads alone.
LEMMA SameEntries ==
    ASSUME GatewayInv, StoreGrows, UNCHANGED <<pointer, payloads>> PROVE EntriesTyped
BY Zenon DEF GatewayInv, StoreGrows, EntriesTyped

\* What a breaker becomes.
LEMMA TripOps ==
    ASSUME NEW t \in TripRec
    PROVE  /\ Asked(t) \in TripRec /\ Asked(t).failures <= t.failures
           /\ Asked(t).open => t.open
           /\ RecordSuccess(t) \in TripRec /\ RecordSuccess(t).failures <= t.failures
           /\ RecordSuccess(t).open = t.open
           /\ RecordFailure(t) \in TripRec /\ RecordFailure(t).failures = t.failures + 1
<1>1. Untripped \in TripRec /\ Untripped.failures = 0 /\ ~Untripped.open
  BY DEF Untripped, TripRec
<1>2. t.failures \in Nat /\ t.open \in BOOLEAN /\ t.cooled \in BOOLEAN BY Zenon DEF TripRec
<1>3. /\ Asked(t) \in TripRec /\ Asked(t).failures <= t.failures
      /\ Asked(t).open => t.open
  BY <1>1, <1>2 DEF Asked
<1>4. /\ RecordSuccess(t) \in TripRec /\ RecordSuccess(t).failures = 0
      /\ RecordSuccess(t).open = t.open
  BY Zenon DEF RecordSuccess, TripRec
<1>5. RecordFailure(t) \in TripRec /\ RecordFailure(t).failures = t.failures + 1
  <2>1. t.failures + 1 \in Nat BY <1>2
  <2>2. (t.open /\ t.cooled) \in BOOLEAN OBVIOUS
  <2>3. (t.open \/ t.failures + 1 >= FailureLimit) \in BOOLEAN OBVIOUS
  <2> QED BY Zenon, <2>1, <2>2, <2>3 DEF RecordFailure, TripRec
<1> QED BY <1>2, <1>3, <1>4, <1>5

\* One breaker changes: it is asked, it records a success, or a counted failure.
LEMMA TripStep ==
    ASSUME StoreInv, GatewayInv, StoreGrows, NEW p \in Pods,
           \/ UNCHANGED trip
           \/ trip' = [trip EXCEPT ![p] = Asked(@)]
           \/ trip' = [trip EXCEPT ![p] = RecordSuccess(@)]
           \/ Spend("faults") /\ trip' = [trip EXCEPT ![p] = RecordFailure(Asked(@))]
           \/ Spend("faults") /\ trip' = [trip EXCEPT ![p] = RecordFailure(@)]
    PROVE  TripsBounded
<1>1. /\ trip \in [Pods -> TripRec] /\ trip[p] \in TripRec
      /\ used["faults"] \in Nat /\ used'["faults"] \in Nat
      /\ used["faults"] <= used'["faults"]
      /\ \A o \in Pods : /\ trip[o].failures \in Nat
                         /\ trip[o].failures <= used["faults"]
                         /\ used["faults"] = 0 => ~trip[o].open
  BY Zenon DEF StoreInv, GatewayInv, StoreGrows, Bounds, TripRec
<1>2. \A o \in Pods : /\ trip[o].failures <= used'["faults"]
                      /\ used'["faults"] = 0 => ~trip[o].open
  BY <1>1
<1>3. ASSUME NEW t \in TripRec, t.failures <= used'["faults"],
             used'["faults"] = 0 => ~t.open, trip' = [trip EXCEPT ![p] = t]
      PROVE  TripsBounded
  BY Zenon, <1>1, <1>2, <1>3 DEF TripsBounded
<1>4. CASE UNCHANGED trip BY Zenon, <1>1, <1>2, <1>4 DEF TripsBounded
<1>5. CASE trip' = [trip EXCEPT ![p] = Asked(@)]
  <2>1. Asked(trip[p]) \in TripRec /\ Asked(trip[p]).failures <= trip[p].failures
        /\ (Asked(trip[p]).open => trip[p].open)
    BY Zenon, <1>1, TripOps
  <2>2. Asked(trip[p]).failures \in Nat BY Zenon, <2>1 DEF TripRec
  <2>3. Asked(trip[p]).failures <= used'["faults"] BY <1>1, <1>2, <2>1, <2>2
  <2> QED BY Zenon, <1>2, <1>3, <1>5, <2>1, <2>3
<1>6. CASE trip' = [trip EXCEPT ![p] = RecordSuccess(@)]
  <2>1. RecordSuccess(trip[p]) \in TripRec
        /\ RecordSuccess(trip[p]).failures <= trip[p].failures
        /\ RecordSuccess(trip[p]).open = trip[p].open
    BY Zenon, <1>1, TripOps
  <2>2. RecordSuccess(trip[p]).failures \in Nat BY Zenon, <2>1 DEF TripRec
  <2>3. RecordSuccess(trip[p]).failures <= used'["faults"] BY <1>1, <1>2, <2>1, <2>2
  <2> QED BY Zenon, <1>2, <1>3, <1>6, <2>1, <2>3
<1>7. ASSUME Spend("faults") PROVE used'["faults"] = used["faults"] + 1
  BY <1>7 DEF StoreInv, Spend, Bounds
<1>8. CASE Spend("faults") /\ trip' = [trip EXCEPT ![p] = RecordFailure(Asked(@))]
  <2> DEFINE t == Asked(trip[p])
  <2>1. t \in TripRec /\ t.failures <= trip[p].failures /\ t.failures \in Nat
    BY Zenon, <1>1, TripOps DEF TripRec
  <2>2. RecordFailure(t) \in TripRec /\ RecordFailure(t).failures = t.failures + 1
    BY Zenon, <2>1, TripOps
  <2> HIDE DEF t
  <2>3. RecordFailure(t).failures <= used'["faults"] /\ used'["faults"] # 0
    BY <1>1, <1>7, <1>8, <2>1, <2>2
  <2> QED BY Zenon, <1>3, <1>8, <2>2, <2>3 DEF t
<1>9. CASE Spend("faults") /\ trip' = [trip EXCEPT ![p] = RecordFailure(@)]
  <2>1. RecordFailure(trip[p]) \in TripRec
        /\ RecordFailure(trip[p]).failures = trip[p].failures + 1
    BY Zenon, <1>1, TripOps
  <2>2. RecordFailure(trip[p]).failures <= used'["faults"] /\ used'["faults"] # 0
    BY <1>1, <1>7, <1>9, <2>1
  <2> QED BY Zenon, <1>3, <1>9, <2>1, <2>2
<1> QED BY Zenon, <1>4, <1>5, <1>6, <1>8, <1>9

\* The fields of a call, and its pod.
LEMMA CallFacts ==
    ASSUME StoreInv, GatewayInv, NEW c \in budget.callers
    PROVE  /\ c \in Callers /\ PodOf[c] \in Pods /\ call[c] \in CallRec
           /\ call[c].got <= version /\ version \in Nat \ {0}
           /\ call[c].at \in {"setPayload", "setPointer"} => call[c].got >= 1
<1>1. c \in Callers BY Zenon, CallersAssumption DEF StoreInv
<1> QED BY Zenon, <1>1, CallersAssumption DEF GatewayInv, StoreInv

\* GoTo and Return, as a new record for the call.
LEMMA MovesTo ==
    ASSUME StoreInv, GatewayInv, NEW c \in budget.callers, NEW at, GoTo(c, at),
           at \in {"pointer", "lock", "wait", "query", "own", "unlock"}
    PROVE  \E n : Calls(c, n) /\ n.at = at /\ n.late = call[c].late
<1> DEFINE n == [call[c] EXCEPT !.at = at, !.got = 0]
<1>1. call[c] \in CallRec /\ c \in Callers /\ version \in Nat BY CallFacts
<1>2. n \in CallRec /\ n.at = at /\ n.got = 0 /\ n.late = call[c].late BY Zenon, <1>1 DEF CallRec
<1>3. call' = [call EXCEPT ![c] = n] BY Zenon DEF GoTo
<1> HIDE DEF n
<1>4. Calls(c, n) BY <1>1, <1>2, <1>3 DEF Calls
<1> QED BY Zenon, <1>2, <1>4

\* The call ends.
LEMMA Returns ==
    ASSUME StoreInv, GatewayInv, NEW c \in budget.callers, Return(c)
    PROVE  \E n : Calls(c, n) /\ n.at = "idle" /\ n.late = FALSE
<1>1. version \in Nat /\ MaxWaitLoops \in Nat BY Zenon, CallersAssumption, CallFacts
<1>2. NoCall \in CallRec /\ NoCall.at = "idle" /\ NoCall.got = 0 /\ NoCall.late = FALSE
  BY <1>1 DEF NoCall, CallRec
<1>3. Calls(c, NoCall) BY <1>1, <1>2 DEF Calls, Return
<1> QED BY Zenon, <1>2, <1>3

\* Redis is read, or waited for, by a call that has no lock and takes none.
LEMMA LooksInv ==
    ASSUME StoreInv, GatewayInv, NEW c \in budget.callers,
           Request(c) \/ ReadPointer(c) \/ ReadPayload(c) \/ WaitForOwner(c)
             \/ WaitPayload(c) \/ QueryDbAndReturn(c),
           UNCHANGED <<version, unposted, budget>>
    PROVE  GatewayInv'
<1> DEFINE p == PodOf[c]
<1>1. /\ c \in Callers /\ p \in Pods /\ call[c] \in CallRec
      /\ call[c].got <= version /\ version \in Nat \ {0}
  BY Zenon, CallFacts
<1>2. UNCHANGED <<pointer, payloads, owner>>
  BY Zenon DEF Request, ReadPointer, ReadPayload, WaitForOwner, WaitPayload, QueryDbAndReturn
<1>3. ~Owning(call[c].at)
  BY Zenon DEF Request, ReadPointer, ReadPayload, WaitForOwner, WaitPayload, QueryDbAndReturn,
         Calling, Owning
<1>4. UNCHANGED used \/ \E b \in Bounds : Spend(b)
  BY Zenon DEF Request, ReadPointer, ReadPayload, WaitForOwner, WaitPayload, QueryDbAndReturn,
         Refused, Throws, Allowed, PayloadThrows, Bounds
<1>5. StoreGrows BY Zenon, <1>4, SpendGrows
<1>6. \/ UNCHANGED trip
      \/ trip' = [trip EXCEPT ![p] = Asked(@)]
      \/ trip' = [trip EXCEPT ![p] = RecordSuccess(@)]
      \/ Spend("faults") /\ trip' = [trip EXCEPT ![p] = RecordFailure(Asked(@))]
      \/ Spend("faults") /\ trip' = [trip EXCEPT ![p] = RecordFailure(@)]
  BY DEF Request, ReadPointer, ReadPayload, WaitForOwner, WaitPayload, QueryDbAndReturn,
         Refused, Throws, Allowed, PayloadThrows, GetPayload
<1>7. TripsBounded BY Zenon, <1>1, <1>5, <1>6, TripStep
<1>8. EntriesTyped BY Zenon, <1>2, <1>5, SameEntries
<1>9. \E n : Calls(c, n) /\ ~Owning(n.at)
  <2>1. \/ Return(c)
        \/ \E at \in {"pointer", "lock", "wait", "query"} : GoTo(c, at)
        \/ ReadPointer(c)
              /\ call' = [call EXCEPT ![c].got = pointer,
                                      ![c].at = IF pointer = 0 THEN "lock" ELSE "payload"]
        \/ WaitForOwner(c) /\ call[c].loops < MaxWaitLoops
              /\ call' = [call EXCEPT ![c].loops = @ + 1, ![c].got = pointer,
                               ![c].at = IF pointer = 0 THEN "wait" ELSE "waitPayload"]
    BY Zenon DEF Request, ReadPointer, ReadPayload, WaitForOwner, WaitPayload, QueryDbAndReturn,
           Refused, Throws, PayloadThrows, GetPayload
  <2>2. CASE Return(c) BY Zenon, <2>2, Returns DEF Owning
  <2>3. ASSUME NEW at \in {"pointer", "lock", "wait", "query"}, GoTo(c, at)
        PROVE  \E n : Calls(c, n) /\ ~Owning(n.at)
    BY Zenon, <2>3, MovesTo DEF Owning
  <2>4. pointer \in Nat /\ pointer <= version
    <3>1. pointer \in 0 .. version BY Zenon DEF GatewayInv
    <3> QED BY <1>1, <3>1
  <2>5. CASE call' = [call EXCEPT ![c].got = pointer,
                                  ![c].at = IF pointer = 0 THEN "lock" ELSE "payload"]
    <3> DEFINE a == IF pointer = 0 THEN "lock" ELSE "payload"
               n == [call[c] EXCEPT !.got = pointer, !.at = a]
    <3>1. a \in {"lock", "payload"} BY Zenon
    <3>2. call' = [call EXCEPT ![c] = n] BY Zenon, <2>5
    <3> HIDE DEF a
    <3>3. n \in CallRec /\ n.at = a /\ n.got = pointer BY Zenon, <1>1, <2>4, <3>1 DEF CallRec
    <3> HIDE DEF n
    <3>4. Calls(c, n) /\ ~Owning(n.at) BY Zenon, <2>4, <3>1, <3>2, <3>3 DEF Calls, Owning
    <3> QED BY Zenon, <3>4
  <2>6. CASE /\ call[c].loops < MaxWaitLoops
             /\ call' = [call EXCEPT ![c].loops = @ + 1, ![c].got = pointer,
                               ![c].at = IF pointer = 0 THEN "wait" ELSE "waitPayload"]
    <3> DEFINE a == IF pointer = 0 THEN "wait" ELSE "waitPayload"
               l == call[c].loops + 1
               n == [call[c] EXCEPT !.loops = l, !.got = pointer, !.at = a]
    <3>1. a \in {"wait", "waitPayload"} BY Zenon
    <3>2. l \in 0 .. MaxWaitLoops BY <1>1, <2>6, CallersAssumption DEF CallRec
    <3>3. call' = [call EXCEPT ![c] = n] BY Zenon, <2>6
    <3> HIDE DEF a, l
    <3>4. n \in CallRec /\ n.at = a /\ n.got = pointer BY Zenon, <1>1, <2>4, <3>1, <3>2 DEF CallRec
    <3> HIDE DEF n
    <3>5. Calls(c, n) /\ ~Owning(n.at) BY Zenon, <2>4, <3>1, <3>3, <3>4 DEF Calls, Owning
    <3> QED BY Zenon, <3>5
  <2> QED BY Zenon, <2>1, <2>2, <2>3, <2>5, <2>6
<1>10. PICK n : Calls(c, n) /\ ~Owning(n.at) BY Zenon, <1>9
<1> QED BY Zenon, <1>1, <1>2, <1>3, <1>5, <1>7, <1>8, <1>10, CallKeeps

\* SET NX of the lock: taken, held by another request, or not asked for.
LEMMA TakeLockInv ==
    ASSUME StoreInv, GatewayInv, NEW c \in budget.callers, TakeLock(c),
           UNCHANGED <<version, unposted, budget>>
    PROVE  GatewayInv'
<1> DEFINE p == PodOf[c]
<1>1. c \in Callers /\ p \in Pods BY Zenon, CallFacts
<1>2. /\ ~Owning(call[c].at) /\ UNCHANGED <<pointer, payloads>>
      /\ UNCHANGED used \/ \E b \in Bounds : Spend(b)
  BY Zenon DEF TakeLock, Calling, Owning, Refused, Throws, Allowed, Bounds
<1>3. StoreGrows BY Zenon, <1>2, SpendGrows
<1>4. \/ UNCHANGED trip
      \/ trip' = [trip EXCEPT ![p] = Asked(@)]
      \/ Spend("faults") /\ trip' = [trip EXCEPT ![p] = RecordFailure(Asked(@))]
  BY Zenon DEF TakeLock, Refused, Throws, Allowed
<1>5. TripsBounded BY Zenon, <1>1, <1>3, <1>4, TripStep
<1>6. EntriesTyped BY Zenon, <1>2, <1>3, SameEntries
<1>7. CASE GoTo(c, "query") /\ UNCHANGED owner
  <2>1. PICK n : Calls(c, n) /\ n.at = "query" BY Zenon, <1>7, MovesTo
  <2> QED BY Zenon, <1>1, <1>2, <1>3, <1>5, <1>6, <1>7, <2>1, CallKeeps DEF Owning
<1>8. CASE owner = Nobody /\ owner' = c /\ GoTo(c, "own")
  <2>1. PICK n : Calls(c, n) /\ n.at = "own" BY Zenon, <1>8, MovesTo
  <2> QED BY Zenon, <1>1, <1>3, <1>5, <1>6, <1>8, <2>1, CallKeeps DEF Owning
<1>9. CASE owner' = owner /\ GoTo(c, "wait")
  <2>1. PICK n : Calls(c, n) /\ n.at = "wait" BY Zenon, <1>9, MovesTo
  <2> QED BY Zenon, <1>1, <1>2, <1>3, <1>5, <1>6, <1>9, <2>1, CallKeeps DEF Owning
<1> QED BY Zenon, <1>7, <1>8, <1>9 DEF TakeLock, Refused, Throws

\* The owner asks Postgres and fills Redis, or fails, and still has the lock.
LEMMA OwnerStepInv ==
    ASSUME StoreInv, GatewayInv, NEW c \in budget.callers,
           OwnerQuery(c) \/ SetPayload(c) \/ SetPointer(c),
           UNCHANGED <<version, unposted, budget>>
    PROVE  GatewayInv'
<1> DEFINE p == PodOf[c]
           got == call[c].got
<1>1. /\ c \in Callers /\ p \in Pods /\ call[c] \in CallRec
      /\ got <= version /\ version \in Nat \ {0} /\ got \in Nat
      /\ call[c].at \in {"setPayload", "setPointer"} => got >= 1
  BY Zenon, CallFacts DEF CallRec
<1>2. /\ Owning(call[c].at) /\ UNCHANGED owner
      /\ UNCHANGED used \/ \E b \in Bounds : Spend(b)
  BY DEF OwnerQuery, SetPayload, SetPointer, Calling, Owning, Refused, Throws, Allowed,
         PayloadThrows, Bounds
<1>3. StoreGrows BY Zenon, <1>2, SpendGrows
<1>4. \/ UNCHANGED trip
      \/ trip' = [trip EXCEPT ![p] = Asked(@)]
      \/ trip' = [trip EXCEPT ![p] = RecordSuccess(@)]
      \/ Spend("faults") /\ trip' = [trip EXCEPT ![p] = RecordFailure(Asked(@))]
      \/ Spend("faults") /\ trip' = [trip EXCEPT ![p] = RecordFailure(@)]
  BY DEF OwnerQuery, SetPayload, SetPointer, Refused, Throws, Allowed, PayloadThrows
<1>5. TripsBounded BY Zenon, <1>1, <1>3, <1>4, TripStep
<1>6. EntriesTyped
  <2>1. pointer \in 0 .. version /\ payloads \subseteq 1 .. version /\ version' = version
    BY Zenon DEF GatewayInv
  <2>2. \/ UNCHANGED <<pointer, payloads>>
        \/ call[c].at = "setPayload" /\ payloads' = payloads \cup {got} /\ UNCHANGED pointer
        \/ call[c].at = "setPointer" /\ pointer' = got /\ UNCHANGED payloads
    BY Zenon DEF OwnerQuery, SetPayload, SetPointer, Calling
  <2>3. call[c].at \in {"setPayload", "setPointer"} => got \in 1 .. version BY <1>1
  <2> HIDE DEF got
  <2>4. got \in 1 .. version => got \in 0 .. version BY <1>1
  <2> QED BY Zenon, <2>1, <2>2, <2>3, <2>4 DEF EntriesTyped
<1>7. \E n : Calls(c, n) /\ Owning(n.at) /\ n.late = call[c].late
  <2>1. \/ GoTo(c, "unlock")
        \/ call' = [call EXCEPT ![c].got = version, ![c].at = "setPayload"]
        \/ call[c].at = "setPayload" /\ call' = [call EXCEPT ![c].at = "setPointer"]
    BY Zenon DEF OwnerQuery, SetPayload, SetPointer, Calling, Refused, Throws, PayloadThrows
  <2>2. CASE GoTo(c, "unlock") BY <2>2, MovesTo DEF Owning
  <2>3. CASE call' = [call EXCEPT ![c].got = version, ![c].at = "setPayload"]
    <3> DEFINE n == [call[c] EXCEPT !.got = version, !.at = "setPayload"]
    <3>1. call' = [call EXCEPT ![c] = n] BY Zenon, <2>3
    <3>2. n \in CallRec /\ n.at = "setPayload" /\ n.got = version /\ n.late = call[c].late
      BY Zenon, <1>1 DEF CallRec
    <3> HIDE DEF n
    <3>3. Calls(c, n) BY <1>1, <3>1, <3>2 DEF Calls
    <3> QED BY <3>2, <3>3 DEF Owning
  <2>4. CASE call[c].at = "setPayload" /\ call' = [call EXCEPT ![c].at = "setPointer"]
    <3> DEFINE n == [call[c] EXCEPT !.at = "setPointer"]
    <3>1. call' = [call EXCEPT ![c] = n] BY <2>4
    <3>2. n \in CallRec /\ n.at = "setPointer" /\ n.got = got /\ n.late = call[c].late
      BY <1>1 DEF CallRec
    <3> HIDE DEF n
    <3>3. Calls(c, n) BY Zenon, <1>1, <2>4, <3>1, <3>2 DEF Calls
    <3> QED BY Zenon, <3>2, <3>3 DEF Owning
  <2> QED BY Zenon, <2>1, <2>2, <2>3, <2>4
<1>8. PICK n : Calls(c, n) /\ Owning(n.at) /\ n.late = call[c].late BY <1>7
<1> QED BY Zenon, <1>1, <1>2, <1>3, <1>5, <1>6, <1>8, CallKeeps

\* The Lua script deletes the request's own lock; where it is not run, there has
\* been a fault.
LEMMA UnlockInv ==
    ASSUME StoreInv, GatewayInv, NEW c \in budget.callers, Unlock(c),
           UNCHANGED <<version, unposted, budget>>
    PROVE  GatewayInv'
<1> DEFINE p == PodOf[c]
<1>1. c \in Callers /\ p \in Pods BY CallFacts
<1>2. /\ UNCHANGED <<pointer, payloads>>
      /\ UNCHANGED used \/ \E b \in Bounds : Spend(b)
  BY Zenon DEF Unlock, Allowed, Bounds
<1>3. StoreGrows BY <1>2, SpendGrows
<1>4. \/ UNCHANGED trip
      \/ trip' = [trip EXCEPT ![p] = Asked(@)]
      \/ Spend("faults") /\ trip' = [trip EXCEPT ![p] = RecordFailure(Asked(@))]
  BY Zenon DEF Unlock, Allowed
<1>5. TripsBounded BY <1>1, <1>3, <1>4, TripStep
<1>6. EntriesTyped BY <1>2, <1>3, SameEntries
<1>7. PICK n : Calls(c, n) /\ n.at = "idle" BY Zenon, Returns DEF Unlock
<1>8. \/ UNCHANGED owner /\ used'["faults"] # 0
      \/ owner' = IF owner = c THEN Nobody ELSE owner
  <2>1. used["faults"] = 0 => AllowRequest(trip[p])
    BY Zenon, <1>1 DEF GatewayInv, AllowRequest
  <2>2. Spend("faults") => used'["faults"] # 0
    <3>1. Spend("faults") => used'["faults"] > 0 BY FaultCounted
    <3> QED BY <3>1
  <2> QED BY Zenon, <2>1, <2>2 DEF Unlock, Allowed
<1> QED BY Zenon, <1>1, <1>3, <1>5, <1>6, <1>7, <1>8, CallKeeps DEF Owning

\* Every step of a call keeps the invariant.
LEMMA GatewayStepInv ==
    ASSUME BffInv, GatewayInv, NEW c \in Callers, GatewayStep(c)
    PROVE  GatewayInv'
<1>1. c \in budget.callers /\ UNCHANGED <<version, unposted, budget>>
  BY DEF GatewayStep, StoreStays, Request, CallStep, ReadPointer, ReadPayload, TakeLock,
         WaitForOwner, WaitPayload, QueryDbAndReturn, OwnerQuery, SetPayload, SetPointer,
         Unlock, Calling
<1> QED
  BY Zenon, <1>1, LooksInv, TakeLockInv, OwnerStepInv, UnlockInv
  DEF GatewayStep, CallStep, BffInv

\* A step of the bff, or a new row, leaves the gateway's part alone.
LEMMA GatewayRests ==
    ASSUME StoreInv, GatewayInv, StoreMoves, UNCHANGED gatewayVars PROVE GatewayInv'
<1>1. /\ version \in Nat /\ version' \in Nat /\ version <= version'
      /\ used["faults"] \in Nat /\ used'["faults"] \in Nat
      /\ used["faults"] <= used'["faults"]
  BY DEF StoreInv, StoreMoves, Bounds
<1>2. /\ call' = call /\ pointer' = pointer /\ payloads' = payloads /\ owner' = owner
      /\ trip' = trip
  BY Zenon DEF gatewayVars
<1>3. \A c \in Callers : /\ call[c].got <= version'
                         /\ call[c].at \in {"setPayload", "setPointer"} => call[c].got >= 1
  <2> TAKE c \in Callers
  <2>1. /\ call[c].got \in Nat /\ call[c].got <= version
        /\ call[c].at \in {"setPayload", "setPointer"} => call[c].got >= 1
    BY Zenon DEF GatewayInv, CallRec
  <2> QED BY <1>1, <2>1
<1>4. pointer \in 0 .. version' /\ payloads \subseteq 1 .. version' BY <1>1 DEF GatewayInv
<1>5. \A p \in Pods : /\ trip[p].failures <= used'["faults"]
                      /\ used'["faults"] = 0 => ~trip[p].open
  <2> TAKE p \in Pods
  <2>1. /\ trip[p].failures \in Nat /\ trip[p].failures <= used["faults"]
        /\ used["faults"] = 0 => ~trip[p].open
    BY DEF GatewayInv, TripRec
  <2> QED BY <1>1, <2>1
<1>6. used'["faults"] = 0 => used["faults"] = 0 BY <1>1
<1>7. \A c : Owns(c)' <=> Owns(c) BY Zenon, <1>2 DEF Owns
<1>8. Owns(owner)' <=> Owns(owner) BY <1>2 DEF Owns
<1> QED BY Zenon, <1>2, <1>3, <1>4, <1>5, <1>6, <1>7, <1>8 DEF GatewayInv

\* The read-model-builder's pipeline, which may fail.
LEMMA PostInv ==
    ASSUME StoreInv, GatewayInv, NEW v \in unposted, PostVersion(v) \/ LosePost(v),
           UNCHANGED <<version, budget>>
    PROVE  StoreMoves /\ GatewayInv'
<1>1. v \in 1 .. version /\ version \in Nat \ {0} BY DEF StoreInv
<1>2. CASE PostVersion(v)
  <2>1. StoreMoves BY <1>2 DEF PostVersion, StoreInv, StoreMoves
  <2>2. pointer' \in 0 .. version' /\ payloads' \subseteq 1 .. version'
    BY <1>1, <1>2 DEF PostVersion, GatewayInv
  <2>3. /\ call' = call /\ owner' = owner /\ trip' = trip /\ used' = used
    BY Zenon, <1>2 DEF PostVersion
  <2>4. /\ \A c : Owns(c)' <=> Owns(c)
        /\ Owns(owner)' <=> Owns(owner)
    BY Zenon, <2>3 DEF Owns
  <2> QED BY Zenon, <2>1, <2>2, <2>3, <2>4 DEF GatewayInv
<1>3. CASE LosePost(v)
  <2>1. UNCHANGED gatewayVars /\ unposted' = unposted \ {v} /\ Spend("faults")
    BY Zenon, <1>3 DEF LosePost, gatewayVars
  <2>2. budget["faults"] \in Nat BY Zenon, BoundsAssumption DEF StoreInv, Bounds
  <2>3. StoreMoves BY <2>1, <2>2 DEF StoreInv, StoreMoves, Spend, Bounds
  <2> QED BY Zenon, <2>1, <2>3, GatewayRests
<1> QED BY Zenon, <1>2, <1>3

\* Entries expire, the lock after four seconds and a breaker after twenty; a pod
\* of the gateway stops.
LEMMA GatewayTimeInv ==
    ASSUME StoreInv, GatewayInv, UNCHANGED <<version, unposted, budget>>,
           \/ ExpirePointer \/ ExpireOwner
           \/ \E v \in payloads : ExpirePayload(v)
           \/ \E p \in Pods : CoolTrip(p) \/ StopGatewayPod(p)
    PROVE  GatewayInv'
<1>1. /\ call \in [Callers -> CallRec] /\ owner \in Callers \cup {Nobody}
      /\ trip \in [Pods -> TripRec]
      /\ pointer \in 0 .. version /\ payloads \subseteq 1 .. version
      /\ version \in Nat \ {0} /\ used["faults"] \in Nat
      /\ Nobody \notin Callers
  BY Zenon, CallersAssumption DEF StoreInv, GatewayInv, Bounds
<1>2. UNCHANGED used \/ \E b \in Bounds : Spend(b)
  BY Zenon DEF ExpirePointer, ExpireOwner, ExpirePayload, CoolTrip, StopGatewayPod, Bounds
<1>3. StoreGrows BY <1>2, SpendGrows
<1>4. CASE ExpirePointer \/ \E v \in payloads : ExpirePayload(v)
  <2>1. /\ call' = call /\ owner' = owner /\ trip' = trip /\ used' = used
    BY Zenon, <1>4 DEF ExpirePointer, ExpirePayload
  <2>2. pointer' \in 0 .. version' /\ payloads' \subseteq 1 .. version'
    <3>1. 0 \in 0 .. version BY <1>1
    <3>2. version' = version OBVIOUS
    <3>3. CASE ExpirePointer BY Zenon, <1>1, <3>1, <3>2, <3>3 DEF ExpirePointer
    <3>4. ASSUME NEW v \in payloads, ExpirePayload(v)
          PROVE  pointer' \in 0 .. version' /\ payloads' \subseteq 1 .. version'
      BY Zenon, <1>1, <3>2, <3>4 DEF ExpirePayload
    <3> QED BY Zenon, <1>4, <3>3, <3>4
  <2>3. /\ \A c : Owns(c)' <=> Owns(c)
        /\ Owns(owner)' <=> Owns(owner)
    BY Zenon, <2>1 DEF Owns
  <2> QED BY Zenon, <2>1, <2>2, <2>3 DEF GatewayInv
<1>5. CASE ExpireOwner
  <2>1. owner \in Callers /\ owner' = Nobody /\ UNCHANGED <<pointer, payloads, trip>>
    BY <1>1, <1>5 DEF ExpireOwner
  <2>2. used'["faults"] = used["faults"]
    BY Zenon, <1>5 DEF ExpireOwner, StoreInv, Spend, Bounds
  <2>3. \A d \in Callers : d # owner => ~(Owns(d) /\ ~call[d].late)
    BY DEF GatewayInv
  <2>4. CASE Owns(owner)
    <3> DEFINE n == [call[owner] EXCEPT !.late = TRUE]
    <3>1. call' = [call EXCEPT ![owner] = n] BY Zenon, <1>5, <2>4 DEF ExpireOwner
    <3>2. call[owner] \in CallRec BY <1>1, <2>1
    <3>3. /\ n \in CallRec /\ n.at = call[owner].at /\ n.got = call[owner].got
          /\ n.late = TRUE
      BY Zenon, <3>2 DEF CallRec
    <3> HIDE DEF n
    <3>4. /\ call' \in [Callers -> CallRec] /\ call'[owner] = n
          /\ \A d \in Callers : d # owner => call'[d] = call[d]
      BY Zenon, <1>1, <2>1, <3>1, <3>3
    <3>5. \A d \in Callers : ~(Owns(d)' /\ ~call'[d].late)
      BY Zenon, <2>3, <3>3, <3>4 DEF Owns
    <3>6. \A d \in Callers : /\ call'[d].got <= version
                             /\ call'[d].at \in {"setPayload", "setPointer"} => call'[d].got >= 1
      BY Zenon, <2>1, <3>3, <3>4 DEF GatewayInv
    <3> QED BY Zenon, <2>1, <2>2, <3>4, <3>5, <3>6 DEF GatewayInv
  <2>5. CASE ~Owns(owner)
    <3>1. call' = call /\ used' = used BY <1>5, <2>5 DEF ExpireOwner
    <3>2. \A d \in Callers : ~(Owns(d)' /\ ~call'[d].late)
      BY Zenon, <2>3, <2>5, <3>1 DEF Owns
    <3> QED BY Zenon, <2>1, <3>1, <3>2 DEF GatewayInv
  <2> QED BY <2>4, <2>5
<1>6. ASSUME NEW p \in Pods, CoolTrip(p) PROVE GatewayInv'
  <2> DEFINE t == [trip[p] EXCEPT !.cooled = TRUE]
  <2>1. /\ trip[p].open /\ trip' = [trip EXCEPT ![p] = t]
        /\ call' = call /\ pointer' = pointer /\ payloads' = payloads /\ owner' = owner
        /\ used' = used
    BY <1>6 DEF CoolTrip
  <2>2. t \in TripRec /\ t.failures = trip[p].failures /\ t.open = trip[p].open
    BY Zenon, <1>1 DEF TripRec
  <2> HIDE DEF t
  <2>3. trip' \in [Pods -> TripRec] /\ \A o \in Pods : /\ trip'[o].failures = trip[o].failures
                                                      /\ trip'[o].open = trip[o].open
    BY Zenon, <1>1, <2>1, <2>2
  <2>4. /\ \A c : Owns(c)' <=> Owns(c)
        /\ Owns(owner)' <=> Owns(owner)
    BY Zenon, <2>1 DEF Owns
  <2> QED BY Zenon, <2>1, <2>3, <2>4 DEF GatewayInv
<1>7. ASSUME NEW p \in Pods, StopGatewayPod(p) PROVE GatewayInv'
  <2>1. /\ call' = [c \in Callers |-> IF PodOf[c] = p THEN NoCall ELSE call[c]]
        /\ trip' = [trip EXCEPT ![p] = Untripped]
        /\ pointer' = pointer /\ payloads' = payloads /\ owner' = owner
        /\ Spend("faults")
    BY Zenon, <1>7 DEF StopGatewayPod
  <2>2. used'["faults"] > 0 /\ used'["faults"] \in Nat /\ used["faults"] <= used'["faults"]
    BY Zenon, <1>3, <2>1, FaultCounted DEF StoreGrows, Bounds
  <2>3. /\ NoCall \in CallRec /\ NoCall.at = "idle" /\ NoCall.got = 0
        /\ Untripped \in TripRec /\ Untripped.failures = 0
    BY Zenon, NoCallIs
  <2>4. call' \in [Callers -> CallRec] BY Zenon, <1>1, <2>1, <2>3
  <2>5. \A d \in Callers : call'[d] = NoCall \/ call'[d] = call[d] BY Zenon, <2>1
  <2>6. \A d \in Callers : /\ call'[d].got <= version
                           /\ call'[d].at \in {"setPayload", "setPointer"} => call'[d].got >= 1
    BY <1>1, <2>3, <2>5 DEF GatewayInv
  <2>7. \A d \in Callers : Owns(d)' /\ ~call'[d].late => owner = d
    BY Zenon, <2>3, <2>5 DEF GatewayInv, Owns
  <2>8. trip' \in [Pods -> TripRec] BY Zenon, <1>1, <2>1, <2>3
  <2>9. \A o \in Pods : trip'[o].failures <= used'["faults"]
    <3> TAKE o \in Pods
    <3>1. trip[o].failures \in Nat /\ trip[o].failures <= used["faults"]
      BY DEF GatewayInv, TripRec
    <3>2. trip'[o] = Untripped \/ trip'[o] = trip[o] BY Zenon, <1>1, <2>1
    <3> QED BY <3>1, <3>2, <1>1, <2>2, <2>3
  <2>10. used'["faults"] # 0 BY <2>2
  <2> QED BY Zenon, <1>1, <2>1, <2>4, <2>6, <2>7, <2>8, <2>9, <2>10 DEF GatewayInv
<1> QED BY Zenon, <1>4, <1>5, <1>6, <1>7

-----------------------------------------------------------------------------
(* The whole. *)

\* A new row.
LEMMA WriteMoves ==
    ASSUME StoreInv, WriteRow PROVE StoreMoves
<1>1. /\ version' = version + 1 /\ unposted' = unposted \cup {version'}
      /\ Spend("writes") /\ budget' = budget
  BY Zenon DEF WriteRow
<1>2. budget["writes"] \in Nat BY Zenon, BoundsAssumption DEF StoreInv, Bounds
<1>3. /\ used' \in [Bounds -> Nat]
      /\ \A b \in Bounds : used[b] <= used'[b] /\ used'[b] <= budget[b]
  BY <1>1, <1>2 DEF StoreInv, Spend, Bounds
<1>4. /\ version' \in Nat \ {0} /\ version <= version' /\ unposted' \subseteq 1 .. version'
  BY <1>1 DEF StoreInv
<1> QED BY Zenon, <1>1, <1>3, <1>4 DEF StoreMoves

\* What the bff's and the gateway's steps spend.
LEMMA StepsSpend ==
    ASSUME (\E r \in Readers : BffStep(r)) \/ BffTime
             \/ (\E c \in Callers : GatewayStep(c)) \/ GatewayTime
    PROVE  UNCHANGED used \/ \E b \in Bounds : Spend(b)
<1>1. ASSUME NEW r \in Readers, BffStep(r)
      PROVE  UNCHANGED used \/ \E b \in Bounds : Spend(b)
  BY Zenon, <1>1 DEF BffStep, Begin, ReaderStep, GetCached, CacheGetOrLock, DbGetCached, DbLock,
              Wake, Execute, MayFail, QuerySucceeds, AskCassandra, DbSet, DbRelease,
              SetCached, Release, QueryFails, RedisFails, Bounds
<1>2. CASE BffTime
  BY Zenon, <1>2 DEF BffTime, ExpireEntry, ExpireLock, CoolDown, StopPod, CoolShared,
              ExpireShared, Bounds
<1>3. ASSUME NEW c \in Callers, GatewayStep(c)
      PROVE  UNCHANGED used \/ \E b \in Bounds : Spend(b)
  BY Zenon, <1>3 DEF GatewayStep, Request, CallStep, ReadPointer, ReadPayload, TakeLock,
              WaitForOwner, WaitPayload, QueryDbAndReturn, OwnerQuery, SetPayload,
              SetPointer, Unlock, Refused, Throws, Allowed, PayloadThrows, Bounds
<1>4. CASE GatewayTime
  BY <1>4 DEF GatewayTime, ExpirePointer, ExpireOwner, ExpirePayload, CoolTrip,
              StopGatewayPod, Bounds
<1> QED BY Zenon, <1>1, <1>2, <1>3, <1>4

\* The invariant holds at the start.
LEMMA ReadPathInit == Init => BffInv /\ GatewayInv
<1> SUFFICES ASSUME Init PROVE BffInv /\ GatewayInv
  OBVIOUS
<1>1. StoreInv
  <2>1. budget \in Budgets /\ version = 1 /\ unposted = {} /\ used = [b \in Bounds |-> 0]
    BY Zenon DEF Init, StoreInit
  <2>2. \A b \in Bounds : budget[b] \in Nat BY Zenon, <2>1, BoundsAssumption
  <2> QED BY <2>1, <2>2 DEF StoreInv
<1>2. /\ reader = [r \in Readers |-> Idle] /\ empty = [r \in Readers |-> FALSE]
      /\ cache = [k \in Keys |-> NoEntry] /\ lock = [k \in Keys |-> Free]
      /\ breaker = [p \in Pods |-> Closed] /\ shared = NotShared
  BY Zenon DEF Init, BffInit
<1>3. /\ Idle \in ReaderRec /\ Idle.got = NoEntry /\ Idle.at = "idle" /\ Idle.holds = {}
      /\ \A q : Control(q, Idle)
  BY Zenon, IdleIs
<1>4. version \in Nat \ {0} BY <1>1 DEF StoreInv
<1>5. NoEntry \in NoEntry .. version /\ NoEntry \in Error .. version /\ NoEntry # 0
  BY <1>4 DEF NoEntry, Error
<1>6. BffTypes
  <2>1. Closed \in BreakerRec /\ NotShared \in SharedRec
    BY ReadersAssumption DEF Closed, BreakerRec, NotShared, SharedRec
  <2> QED BY Zenon, <1>2, <1>3, <1>5, <2>1 DEF BffTypes
<1>7. Active \subseteq Readers BY <1>1, ActiveReaders
<1>8. ReadersInv BY Zenon, <1>2, <1>3, <1>5, <1>7 DEF ReadersInv
<1>9. CacheInv BY <1>2, <1>5 DEF CacheInv
<1>10. LockInv
  <2>1. {} # Levels BY Zenon DEF Levels
  <2> QED BY Zenon, <1>2, <1>3, <1>7, <2>1 DEF LockInv
<1>11. GatewayInv
  <2>1. /\ call = [c \in Callers |-> NoCall] /\ pointer = 0 /\ payloads = {}
        /\ owner = Nobody /\ trip = [p \in Pods |-> Untripped]
    BY Zenon DEF Init, GatewayInit
  <2>2. /\ NoCall \in CallRec /\ NoCall.at = "idle" /\ NoCall.got = 0
        /\ Untripped \in TripRec /\ Untripped.failures = 0 /\ ~Untripped.open
    BY CallersAssumption DEF NoCall, CallRec, Untripped, TripRec
  <2>3. used["faults"] = 0 BY Zenon DEF Init, StoreInit, Bounds
  <2> QED BY <1>4, <2>1, <2>2, <2>3 DEF GatewayInv, Owns
<1> QED BY Zenon, <1>1, <1>6, <1>8, <1>9, <1>10, <1>11 DEF BffInv

\* Every step keeps it.
LEMMA ReadPathNext ==
    BffInv /\ GatewayInv /\ [Next]_vars => BffInv' /\ GatewayInv'
<1> SUFFICES ASSUME BffInv, GatewayInv, [Next]_vars PROVE BffInv' /\ GatewayInv'
  OBVIOUS
<1> StoreInv BY Zenon DEF BffInv
<1>1. ASSUME (\E r \in Readers : BffStep(r)) \/ BffTime PROVE GatewayInv'
  <2>1. UNCHANGED gatewayVars /\ UNCHANGED <<version, unposted, budget>>
    BY Zenon, <1>1 DEF BffStep, BffTime, GatewayStays, StoreStays
  <2>2. StoreGrows BY Zenon, <1>1, <2>1, StepsSpend, SpendGrows
  <2> QED BY Zenon, <2>1, <2>2, GrowsMoves, GatewayRests
<1>2. ASSUME NEW r \in Readers, BffStep(r) PROVE BffInv' /\ GatewayInv'
  BY Zenon, <1>1, <1>2, BffStepInv
<1>3. CASE BffTime
  <2>1. UNCHANGED <<version, unposted, budget>> BY Zenon, <1>3 DEF BffTime, StoreStays
  <2>2. ASSUME NEW k \in Keys, ExpireEntry(k) \/ ExpireLock(k) PROVE BffInv'
    BY Zenon, <2>1, <2>2, ExpireEntryInv, ExpireLockInv
  <2>3. ASSUME NEW p \in Pods, CoolDown(p) \/ StopPod(p) PROVE BffInv'
    BY Zenon, <2>1, <2>3, CoolInv, StopPodInv
  <2>4. ASSUME CoolShared \/ ExpireShared PROVE BffInv'
    BY Zenon, <2>1, <2>4, SharedCoolInv
  <2> QED BY Zenon, <1>1, <1>3, <2>2, <2>3, <2>4 DEF BffTime
<1>4. ASSUME (\E c \in Callers : GatewayStep(c)) \/ GatewayTime PROVE BffInv'
  <2>1. UNCHANGED bffVars /\ UNCHANGED <<version, unposted, budget>>
    BY Zenon, <1>4 DEF GatewayStep, GatewayTime, BffStays, StoreStays
  <2>2. StoreGrows BY Zenon, <1>4, <2>1, StepsSpend, SpendGrows
  <2> QED BY Zenon, <2>1, <2>2, GrowsMoves, BffRests
<1>5. ASSUME NEW c \in Callers, GatewayStep(c) PROVE BffInv' /\ GatewayInv'
  BY Zenon, <1>4, <1>5, GatewayStepInv
<1>6. CASE GatewayTime
  <2>1. UNCHANGED <<version, unposted, budget>> BY Zenon, <1>6 DEF GatewayTime, StoreStays
  <2>2. GatewayInv' BY Zenon, <1>6, <2>1, GatewayTimeInv DEF GatewayTime
  <2> QED BY Zenon, <1>4, <1>6, <2>2
<1>7. CASE Post
  <2>1. PICK v \in unposted : PostVersion(v) \/ LosePost(v) BY Zenon, <1>7 DEF Post
  <2>2. UNCHANGED bffVars /\ UNCHANGED <<version, budget>> BY Zenon, <1>7 DEF Post, BffStays
  <2>3. StoreMoves /\ GatewayInv' BY Zenon, <2>1, <2>2, PostInv
  <2> QED BY Zenon, <2>2, <2>3, BffRests
<1>8. CASE WriteRow /\ BffStays /\ GatewayStays
  BY Zenon, <1>8, WriteMoves, BffRests, GatewayRests DEF BffStays, GatewayStays
<1>9. CASE UNCHANGED vars
  <2>1. /\ UNCHANGED <<version, unposted, used, budget>>
        /\ UNCHANGED bffVars /\ UNCHANGED gatewayVars
    BY Zenon, <1>9 DEF vars
  <2>2. StoreGrows BY <2>1, SpendGrows
  <2> QED BY Zenon, <2>1, <2>2, GrowsMoves, BffRests, GatewayRests
<1> QED BY Zenon, <1>2, <1>3, <1>5, <1>6, <1>7, <1>8, <1>9 DEF Next

\* The inductive invariant holds in every state.
THEOREM ReadPathInvariant == Spec => [](BffInv /\ GatewayInv)
BY ReadPathInit, ReadPathNext, PTL DEF Spec

\* LocksSound of the bff's locks and of the gateway's: a request inside the
\* protection of acquireLock has the lock unless one expired early, the
\* gateway's compare-and-delete never takes another request's lock, and without
\* a fault every path gives its locks back.
THEOREM LocksSoundTheorem == Spec => []LocksSound
<1>1. BffInv /\ GatewayInv => LocksSound
  BY Zenon DEF BffInv, LockInv, GatewayInv, LocksSound
<1> QED BY <1>1, ReadPathInvariant, PTL

\* EmptyNeedsRival: the bff answers with an empty list only where the resolver
\* of allTelemetry locked its own data source out, or another devices query or
\* a fault kept the data source's lock from this one.
THEOREM EmptyNeedsRivalTheorem == Spec => []EmptyNeedsRival
<1>1. ASSUME BffInv PROVE EmptyNeedsRival
  <2> SUFFICES ASSUME NEW r \in Active, empty[r], Query(r) # "allTelemetry"
               PROVE  /\ Query(r) = "devices"
                      /\ \/ \E s \in Active \ {r} : Query(s) = "devices"
                         \/ used["faults"] > 0
    BY Zenon DEF EmptyNeedsRival
  <2>1. MayBeEmpty(Query(r)) BY <1>1 DEF BffInv, ReadersInv
  <2> QED BY Zenon, <2>1 DEF MayBeEmpty
<1> QED BY <1>1, ReadPathInvariant, PTL

\* TypeOK of the read path; a breaker of the gateway counts no more failures
\* than there were faults.
THEOREM ReadPathTypes == Spec => []TypeOK
<1>1. ASSUME BffInv, GatewayInv PROVE TypeOK
  <2>1. version \in Nat /\ unposted \subseteq 1 .. version BY <1>1 DEF BffInv, StoreInv
  <2>2. BffTypeOK
    <3>1. Active \subseteq Readers BY Zenon, <1>1, ActiveReaders DEF BffInv
    <3>2. ASSUME NEW r \in Active
          PROVE  /\ reader[r] \in ReaderRec /\ reader[r].got \in Error .. version
      BY Zenon, <1>1, <3>1 DEF BffInv, BffTypes, ReadersInv
    <3>3. \A p \in Pods : breaker[p] \in BreakerRec BY Zenon, <1>1 DEF BffInv, BffTypes
    <3>4. \A p \in Pods : /\ breaker[p].state \in {"CLOSED", "OPEN", "HALF_OPEN"}
                          /\ breaker[p].successes \in 0 .. Successes - 1
      BY Zenon, <3>3 DEF BreakerRec
    <3>5. \A r \in Active : reader[r].at \in Ats /\ reader[r].holds \subseteq Levels
      BY Zenon, <3>2 DEF ReaderRec
    <3> QED BY Zenon, <1>1, <3>2, <3>4, <3>5 DEF BffTypeOK, BffInv, BffTypes, Ats, Levels
  <2>3. GatewayTypeOK
    <3>1. \A c \in Callers : call[c] \in CallRec BY Zenon, <1>1 DEF GatewayInv
    <3>2. \A c \in Callers :
            /\ call[c].at \in {"idle", "pointer", "payload", "lock", "wait", "waitPayload",
                  "query", "own", "setPayload", "setPointer", "unlock"}
            /\ call[c].loops \in 0 .. MaxWaitLoops
      BY Zenon, <3>1 DEF CallRec
    <3>3. \A p \in Pods : trip[p].failures \in 0 .. budget["faults"]
      <4> TAKE p \in Pods
      <4>1. trip[p].failures \in Nat /\ trip[p].failures <= used["faults"]
        BY Zenon, <1>1 DEF GatewayInv, TripRec
      <4>2. used["faults"] \in Nat /\ used["faults"] <= budget["faults"]
            /\ budget["faults"] \in Nat
        BY <1>1, BoundsAssumption DEF BffInv, StoreInv, Bounds
      <4> QED BY <4>1, <4>2
    <3> QED BY Zenon, <1>1, <3>2, <3>3 DEF GatewayTypeOK, GatewayInv
  <2> QED BY Zenon, <2>1, <2>2, <2>3 DEF TypeOK
<1> QED BY <1>1, ReadPathInvariant, PTL
====
