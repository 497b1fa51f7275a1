---------------------------- MODULE Outbox_proofs ----------------------------
(***************************************************************************)
(* The outbox's safety properties for any number of rows and workers, any  *)
(* batch size and any number of failures, and its refinement of            *)
(* AtLeastOnce, whatever writes are lost.                                  *)
(***************************************************************************)
EXTENDS Outbox, TLAPS

\* The counters stay within their bounds.
LEMMA FaultType ==
    ASSUME faults \in 0 .. MaxFaults, Fault
    PROVE  faults' \in 0 .. MaxFaults /\ faults' = faults + 1 /\ faults \in Nat
BY BoundsAssumption DEF Fault

\* The initial state satisfies the inductive invariant.
LEMMA InitOutboxInv == Init => OutboxInv
BY BoundsAssumption DEF Init, OutboxInv, TypeOK, Recorded, RowInOneTransaction,
   MarkedWasSent, Locked

\* Recording a row disturbs nothing but the set of recorded rows.
LEMMA RecordInv == ASSUME OutboxInv, NEW e \in Events, Record(e) PROVE OutboxInv'
<1>1. createdAt' \in [Events -> Nat] /\ Recorded \subseteq Recorded'
  BY DEF OutboxInv, TypeOK, Record, Recorded
<1>2. TypeOK' BY <1>1 DEF OutboxInv, TypeOK, Record
<1> QED
  BY <1>2 DEF OutboxInv, Record, RowInOneTransaction, MarkedWasSent, Locked

\* Selecting a batch locks rows that nobody holds and that are not published.
LEMMA SelectBatchInv ==
    ASSUME OutboxInv, NEW w \in Workers, SelectBatch(w) PROVE OutboxInv'
<1>1. PICK B \in SUBSET Available : batch' = [batch EXCEPT ![w] = B]
  BY DEF SelectBatch
<1>2. UNCHANGED <<createdAt, published, topic, marked, faults, lost>>
  BY DEF SelectBatch
<1>3. Available \subseteq Recorded BY DEF Available
<1>4. TypeOK' BY <1>1, <1>2, <1>3 DEF OutboxInv, TypeOK, Recorded
<1>5. \A v \in Workers : batch'[v] = IF v = w THEN B ELSE batch[v]
  BY <1>1 DEF OutboxInv, TypeOK
<1>6. \A v \in Workers : Locked(v) \cap B = {}
  BY DEF Available
<1>7. B \cap published = {} BY DEF Available
<1>8. marked[w] = {} BY DEF SelectBatch, Locked
<1>9. RowInOneTransaction'
  BY <1>2, <1>5, <1>6, <1>7, <1>8 DEF OutboxInv, RowInOneTransaction, Locked
<1> QED BY <1>2, <1>4, <1>5, <1>8, <1>9 DEF OutboxInv, MarkedWasSent

\* Giving up a transaction unlocks its rows.
LEMMA RollbackLocks ==
    ASSUME OutboxInv, NEW w \in Workers, Rollback(w),
           UNCHANGED <<createdAt, published>>
    PROVE  /\ batch' \in [Workers -> SUBSET Recorded']
           /\ marked' \in [Workers -> SUBSET Recorded']
           /\ published' \subseteq Recorded'
           /\ RowInOneTransaction'
           /\ \A v \in Workers : batch'[v] \cap marked'[v] = {}
           /\ \A v \in Workers : marked'[v] \subseteq marked[v]
<1>1. Recorded' = Recorded BY DEF Recorded
<1>2. \A v \in Workers : /\ batch'[v] = IF v = w THEN {} ELSE batch[v]
                         /\ marked'[v] = IF v = w THEN {} ELSE marked[v]
  BY DEF OutboxInv, TypeOK, Rollback
<1>3. /\ batch' \in [Workers -> SUBSET Recorded']
      /\ marked' \in [Workers -> SUBSET Recorded']
  BY <1>1 DEF OutboxInv, TypeOK, Rollback
<1>4. RowInOneTransaction' BY <1>2 DEF OutboxInv, RowInOneTransaction, Locked
<1> QED BY <1>1, <1>2, <1>3, <1>4 DEF OutboxInv, TypeOK

\* A row that is sent moves from the batch to the marked rows.
LEMMA PublishRowInv ==
    ASSUME OutboxInv, NEW w \in Workers, NEW e \in Events, PublishRow(w, e)
    PROVE  OutboxInv'
<1>1. UNCHANGED <<createdAt, published, faults>> BY DEF PublishRow
<1>2. Recorded' = Recorded BY <1>1 DEF Recorded
<1>3. \A v \in Workers :
        /\ batch'[v] = IF v = w THEN batch[w] \ {e} ELSE batch[v]
        /\ marked'[v] = IF v = w THEN marked[w] \cup {e} ELSE marked[v]
  BY DEF OutboxInv, TypeOK, PublishRow
<1>4. e \in batch[w] /\ e \in Recorded BY DEF PublishRow, OutboxInv, TypeOK
<1>5. /\ batch' \in [Workers -> SUBSET Recorded']
      /\ marked' \in [Workers -> SUBSET Recorded']
  BY <1>2, <1>4 DEF OutboxInv, TypeOK, PublishRow
<1>6. \A v \in Workers : Locked(v)' = Locked(v) BY <1>3, <1>4 DEF Locked
<1>7. RowInOneTransaction' BY <1>1, <1>6 DEF OutboxInv, RowInOneTransaction
<1>8. \A v \in Workers : batch'[v] \cap marked'[v] = {}
  BY <1>3 DEF OutboxInv
<1>9. ~(e \in published \/ \E v \in Workers : e \in marked[v])
  BY <1>4 DEF OutboxInv, RowInOneTransaction, Locked
<1>10. topic[e] <= faults BY <1>9 DEF OutboxInv
<1>11. topic \in [Events -> Nat] /\ faults \in Nat /\ lost \subseteq Recorded
  BY BoundsAssumption DEF OutboxInv, TypeOK
<1>12. /\ topic' \in [Events -> Nat]
       /\ \A f \in Events \ {e} : topic'[f] = topic[f]
       /\ topic'[e] <= 1 + faults
       /\ lost' \subseteq Recorded /\ lost \subseteq lost'
       /\ topic'[e] > 0 \/ e \in lost'
  <2>1. PICK stored \in BOOLEAN :
          /\ topic' = [topic EXCEPT ![e] = IF stored THEN @ + 1 ELSE @]
          /\ lost' = IF stored THEN lost ELSE lost \cup {e}
    BY DEF PublishRow
  <2>2. CASE stored
    <3>1. topic' = [topic EXCEPT ![e] = @ + 1] /\ lost' = lost
      BY <2>1, <2>2
    <3> QED BY <3>1, <1>10, <1>11
  <2>3. CASE ~stored
    <3>1. topic' = [topic EXCEPT ![e] = @] /\ lost' = lost \cup {e}
      BY <2>1, <2>3
    <3> QED BY <3>1, <1>4, <1>10, <1>11
  <2> QED BY <2>2, <2>3
<1>13. TypeOK' BY <1>1, <1>2, <1>5, <1>12 DEF OutboxInv, TypeOK
<1>14. e \in marked'[w] BY <1>3
<1>15. \A f \in Events \ {e} :
         (\E v \in Workers : f \in marked'[v]) <=> \E v \in Workers : f \in marked[v]
  BY <1>3
<1>16. MarkedWasSent'
  <2> SUFFICES ASSUME NEW f \in published' \cup UNION {marked'[v] : v \in Workers}
               PROVE  topic'[f] > 0 \/ f \in lost'
    BY DEF MarkedWasSent
  <2>1. f \in Events
    BY <1>13 DEF TypeOK, Recorded
  <2>2. CASE f = e BY <2>2, <1>12
  <2>3. CASE f # e
    <3>1. f \in published \cup UNION {marked[v] : v \in Workers}
      BY <2>1, <2>3, <1>1, <1>15
    <3>2. topic[f] > 0 \/ f \in lost BY <3>1 DEF OutboxInv, MarkedWasSent
    <3> QED BY <3>2, <2>1, <2>3, <1>12
  <2> QED BY <2>2, <2>3
<1>17. \A f \in Events :
         topic'[f] <= IF f \in published' \/ \E v \in Workers : f \in marked'[v]
                      THEN 1 + faults' ELSE faults'
  <2> TAKE f \in Events
  <2>1. CASE f = e BY <2>1, <1>1, <1>12, <1>14
  <2>2. CASE f # e BY <2>2, <1>1, <1>12, <1>15 DEF OutboxInv
  <2> QED BY <2>1, <2>2
<1> QED BY <1>7, <1>8, <1>13, <1>16, <1>17 DEF OutboxInv

\* A failed write leaves one more copy of one event at most, and one more
\* failure to account for it.
LEMMA PublishFailsInv ==
    ASSUME OutboxInv, NEW w \in Workers, NEW e \in Events, PublishFails(w, e)
    PROVE  OutboxInv'
<1>1. UNCHANGED <<createdAt, published, lost>> /\ Rollback(w) /\ Fault
  BY DEF PublishFails
<1>2. faults' \in 0 .. MaxFaults /\ faults' = faults + 1 /\ faults \in Nat
  BY <1>1, FaultType DEF OutboxInv, TypeOK
<1>3. topic \in [Events -> Nat] /\ e \in batch[w]
  BY DEF OutboxInv, TypeOK, PublishFails
<1>4. /\ topic' \in [Events -> Nat]
      /\ \A f \in Events : topic'[f] >= topic[f]
      /\ \A f \in Events \ {e} : topic'[f] = topic[f]
      /\ topic'[e] <= topic[e] + 1
  BY <1>3 DEF PublishFails
<1>5. topic[e] <= faults
  BY <1>3 DEF OutboxInv, RowInOneTransaction, Locked
<1>6. /\ batch' \in [Workers -> SUBSET Recorded']
      /\ marked' \in [Workers -> SUBSET Recorded']
      /\ published' \subseteq Recorded'
      /\ RowInOneTransaction'
      /\ \A v \in Workers : batch'[v] \cap marked'[v] = {}
      /\ \A v \in Workers : marked'[v] \subseteq marked[v]
  BY <1>1, RollbackLocks
<1>7. TypeOK' BY <1>1, <1>2, <1>4, <1>6 DEF OutboxInv, TypeOK, Recorded
<1>8. MarkedWasSent'
  <2> SUFFICES ASSUME NEW f \in published' \cup UNION {marked'[v] : v \in Workers}
               PROVE  topic'[f] > 0 \/ f \in lost'
    BY DEF MarkedWasSent
  <2>1. f \in Events /\ f \in published \cup UNION {marked[v] : v \in Workers}
    BY <1>1, <1>6, <1>7 DEF TypeOK, Recorded
  <2>2. topic[f] > 0 \/ f \in lost BY <2>1 DEF OutboxInv, MarkedWasSent
  <2> QED BY <2>1, <2>2, <1>1, <1>3, <1>4
<1>9. \A f \in Events : topic'[f] <= faults'
  <2> TAKE f \in Events
  <2>1. CASE f = e BY <2>1, <1>2, <1>3, <1>4, <1>5
  <2>2. CASE f # e BY <2>2, <1>2, <1>3, <1>4 DEF OutboxInv
  <2> QED BY <2>1, <2>2
<1>10. \A f \in Events :
         topic'[f] <= IF f \in published' \/ \E v \in Workers : f \in marked'[v]
                      THEN 1 + faults' ELSE faults'
  BY <1>2, <1>4, <1>9
<1> QED BY <1>6, <1>7, <1>8, <1>10 DEF OutboxInv

\* Committing turns marked rows into published ones.
LEMMA CommitBatchInv ==
    ASSUME OutboxInv, NEW w \in Workers, CommitBatch(w) PROVE OutboxInv'
<1>1. /\ UNCHANGED <<createdAt, topic, batch, faults, lost>>
      /\ published' = published \cup marked[w]
      /\ batch[w] = {}
  BY DEF CommitBatch
<1>2. Recorded' = Recorded BY <1>1 DEF Recorded
<1>3. \A v \in Workers : marked'[v] = IF v = w THEN {} ELSE marked[v]
  BY DEF OutboxInv, TypeOK, CommitBatch
<1>4. TypeOK' BY <1>1, <1>2 DEF OutboxInv, TypeOK, CommitBatch
<1>5. RowInOneTransaction'
  BY <1>1, <1>3 DEF OutboxInv, RowInOneTransaction, Locked
<1>6. \A f : (f \in published' \/ \E v \in Workers : f \in marked'[v])
             <=> (f \in published \/ \E v \in Workers : f \in marked[v])
  BY <1>1, <1>3
<1>7. MarkedWasSent' BY <1>1, <1>6 DEF OutboxInv, MarkedWasSent
<1> QED BY <1>1, <1>3, <1>4, <1>5, <1>6, <1>7 DEF OutboxInv

\* A crash forgets marks, and is itself a failure that pays for the copies.
LEMMA CrashInv == ASSUME OutboxInv, NEW w \in Workers, Crash(w) PROVE OutboxInv'
<1>1. UNCHANGED <<createdAt, published, topic, lost>> /\ Rollback(w) /\ Fault
  BY DEF Crash
<1>2. faults' \in 0 .. MaxFaults /\ faults' = faults + 1 /\ faults \in Nat
  BY <1>1, FaultType DEF OutboxInv, TypeOK
<1>3. /\ batch' \in [Workers -> SUBSET Recorded']
      /\ marked' \in [Workers -> SUBSET Recorded']
      /\ published' \subseteq Recorded'
      /\ RowInOneTransaction'
      /\ \A v \in Workers : batch'[v] \cap marked'[v] = {}
      /\ \A v \in Workers : marked'[v] \subseteq marked[v]
  BY <1>1, RollbackLocks
<1>4. TypeOK' BY <1>1, <1>2, <1>3 DEF OutboxInv, TypeOK, Recorded
<1>5. MarkedWasSent' BY <1>1, <1>3 DEF OutboxInv, MarkedWasSent
<1>6. topic \in [Events -> Nat] BY DEF OutboxInv, TypeOK
<1>7. \A f \in Events : topic'[f] <= faults'
  BY <1>1, <1>2, <1>6 DEF OutboxInv
<1>8. \A f \in Events :
         topic'[f] <= IF f \in published' \/ \E v \in Workers : f \in marked'[v]
                      THEN 1 + faults' ELSE faults'
  BY <1>1, <1>2, <1>6, <1>7
<1> QED BY <1>3, <1>4, <1>5, <1>8 DEF OutboxInv

\* Every step preserves the invariant.
LEMMA NextOutboxInv == OutboxInv /\ [Next]_vars => OutboxInv'
<1> SUFFICES ASSUME OutboxInv, [Next]_vars PROVE OutboxInv'
  OBVIOUS
<1>1. CASE UNCHANGED vars
  BY <1>1 DEF vars, OutboxInv, TypeOK, Recorded, RowInOneTransaction,
     MarkedWasSent, Locked
<1>2. CASE Next
  BY <1>2, RecordInv, SelectBatchInv, PublishRowInv, PublishFailsInv,
     CommitBatchInv, CrashInv DEF Next, WorkerStep
<1> QED BY <1>1, <1>2

\* OutboxInv is an invariant of the outbox.
THEOREM OutboxInvariance == Spec => []OutboxInv
BY InitOutboxInv, NextOutboxInv, PTL DEF Spec

\* No row is ever in two open transactions of the workers, nor locked again
\* after its publication was committed.
THEOREM RowInOneTransactionTheorem == Spec => []RowInOneTransaction
<1>1. OutboxInv => RowInOneTransaction BY DEF OutboxInv
<1> QED BY <1>1, OutboxInvariance, PTL

\* An event has at most one copy in Kafka for each failure, and one more.
THEOREM DuplicatesNeedFailureTheorem == Spec => []DuplicatesNeedFailure
<1>1. OutboxInv => DuplicatesNeedFailure
  <2> SUFFICES ASSUME OutboxInv, NEW e \in Events PROVE topic[e] <= 1 + faults
    BY DEF DuplicatesNeedFailure
  <2>1. topic[e] \in Nat /\ faults \in Nat BY DEF OutboxInv, TypeOK
  <2>2. topic[e] <= faults \/ topic[e] <= 1 + faults BY DEF OutboxInv
  <2> QED BY <2>1, <2>2
<1> QED BY <1>1, OutboxInvariance, PTL

\* A row is marked only when its event is in Kafka or a write of it was lost.
THEOREM MarkedWasSentTheorem == Spec => []MarkedWasSent
<1>1. OutboxInv => MarkedWasSent BY DEF OutboxInv
<1> QED BY <1>1, OutboxInvariance, PTL

\* Whatever Kafka loses of the writes it does not acknowledge, the outbox
\* implements the at-least-once specification: each step is an abstract step or
\* a stutter.
THEOREM OutboxImplementsAtLeastOnce == Spec => ImplementsAtLeastOnce
<1>1. Init => A!Init BY DEF Init, A!Init, Recorded
<1>2. OutboxInv /\ [Next]_vars => [A!Next]_(A!vars)
  <2> SUFFICES ASSUME OutboxInv, [Next]_vars PROVE [A!Next]_(A!vars)
    OBVIOUS
  <2>1. CASE UNCHANGED vars BY <2>1 DEF vars, A!vars, Recorded
  <2>2. ASSUME NEW e \in Events, Record(e) PROVE A!Record(e)
    <3>1. /\ createdAt \in [Events -> Nat] /\ createdAt[e] = 0
          /\ \E t \in 1 .. MaxTime : createdAt' = [createdAt EXCEPT ![e] = t]
      BY <2>2 DEF OutboxInv, TypeOK, Record
    <3>2. Recorded' = Recorded \cup {e} BY <3>1, BoundsAssumption DEF Recorded
    <3>3. e \notin Recorded BY <3>1 DEF Recorded
    <3> QED BY <2>2, <3>2, <3>3 DEF A!Record, Record
  <2>3. ASSUME NEW w \in Workers, SelectBatch(w) \/ Crash(w)
        PROVE  UNCHANGED A!vars
    BY <2>3 DEF SelectBatch, Crash, A!vars, Recorded
  <2>4. ASSUME NEW w \in Workers, NEW e \in batch[w], UNCHANGED createdAt,
               UNCHANGED published, topic' = [topic EXCEPT ![e] = @ + 1],
               UNCHANGED lost
        PROVE  A!Send(e)
    <3>1. e \in Recorded \ published
      BY <2>4 DEF OutboxInv, TypeOK, RowInOneTransaction, Locked
    <3> QED BY <2>4, <3>1 DEF A!Send, Recorded
  <2>5. ASSUME NEW w \in Workers, NEW e \in Events, PublishRow(w, e)
        PROVE  A!Send(e) \/ A!Drop(e)
    <3>1. PICK stored \in BOOLEAN :
            /\ topic' = [topic EXCEPT ![e] = IF stored THEN @ + 1 ELSE @]
            /\ lost' = IF stored THEN lost ELSE lost \cup {e}
      BY <2>5 DEF PublishRow
    <3>2. e \in batch[w] /\ UNCHANGED <<createdAt, published>>
      BY <2>5 DEF PublishRow
    <3>3. CASE stored
      <4>1. topic' = [topic EXCEPT ![e] = @ + 1] /\ UNCHANGED lost
        BY <3>1, <3>3
      <4> QED BY <2>4, <3>2, <4>1
    <3>4. CASE ~stored
      <4>1. topic' = topic /\ lost' = lost \cup {e}
        BY <3>1, <3>4 DEF OutboxInv, TypeOK
      <4>2. e \in Recorded \ published
        BY <3>2 DEF OutboxInv, TypeOK, RowInOneTransaction, Locked
      <4> QED BY <3>2, <4>1, <4>2 DEF A!Drop, Recorded
    <3> QED BY <3>3, <3>4
  <2>6. ASSUME NEW w \in Workers, NEW e \in Events, PublishFails(w, e)
        PROVE  A!Send(e) \/ UNCHANGED A!vars
    <3>1. PICK written \in BOOLEAN :
            topic' = [topic EXCEPT ![e] = IF written THEN @ + 1 ELSE @]
      BY <2>6 DEF PublishFails
    <3>2. CASE written
      BY <2>4, <2>6, <3>1, <3>2 DEF PublishFails
    <3>3. CASE ~written
      BY <2>6, <3>1, <3>3 DEF PublishFails, A!vars, Recorded, OutboxInv, TypeOK
    <3> QED BY <3>2, <3>3
  <2>7. ASSUME NEW w \in Workers, CommitBatch(w)
        PROVE  \E S \in SUBSET Events : A!Forget(S)
    <3>1. marked[w] \in SUBSET Events BY DEF OutboxInv, TypeOK, Recorded
    <3>3. \A e \in marked[w] : topic[e] > 0 \/ e \in lost
      BY DEF OutboxInv, MarkedWasSent
    <3>4. A!Forget(marked[w])
      BY <2>7, <3>3 DEF CommitBatch, A!Forget, Recorded
    <3> QED BY <3>1, <3>4
  <2> QED BY <2>1, <2>2, <2>3, <2>5, <2>6, <2>7 DEF Next, WorkerStep, A!Next
<1> QED BY <1>1, <1>2, OutboxInvariance, PTL DEF Spec, ImplementsAtLeastOnce, A!Spec
====
