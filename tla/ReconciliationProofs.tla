---------------------- MODULE ReconciliationProofs ------------------------
(***************************************************************************)
(* Theorems about Reconciliation, for every set of messages, every finite  *)
(* set of processes and every bound.                                       *)
(***************************************************************************)
EXTENDS Reconciliation, FiniteSetTheorems, TLAPS

\* The steps at which a process has a message in hand, and those at which it also
\* holds a copy of its work item.
Working == Steps \ {"idle", "visit"}
Holding == Working \ {"lease", "purge"}

\* A process that works has a message to work on, and counts an attempt only while
\* attempts are left.
HandInv ==
    \A j \in Jobs :
        /\ pc[j] \in Working => cur[j] \in Msgs
        /\ pc[j] = "attempt" => item[j].attempt < MaxRetries

LEMMA ItemTypes ==
    /\ NoItem \in WorkItems
    /\ NewItem \in WorkItems
    /\ NoEntry \in Envelopes
    /\ \A w \in WorkItems : w.attempt \in Nat
  BY ReconciliationAssumption DEF NoItem, NewItem, NoEntry, WorkItems, Envelopes

LEMMA CountedType ==
    ASSUME NEW j \in Jobs, item[j] \in WorkItems, item[j].attempt < MaxRetries
    PROVE  Counted(j) \in WorkItems
  BY ReconciliationAssumption DEF Counted, WorkItems

LEMMA CountUpType ==
    ASSUME NEW f \in [Msgs -> Nat], NEW m \in Msgs
    PROVE  [f EXCEPT ![m] = @ + 1] \in [Msgs -> Nat]
  OBVIOUS

LEMMA EnvelopeType ==
    ASSUME NEW j \in Jobs, item[j] \in WorkItems, original[j] \in WorkItems
    PROVE  DeadLetter(j) \in Envelopes
  BY DEF DeadLetter, Envelopes

\* A process that goes on to its next message, or ends its cycle, has none in hand.
LEMMA NextMessageEffect ==
    ASSUME TypeOK, NEW j \in Jobs, NEW rest, NextMessage(j, rest)
    PROVE  /\ pc' \in [Jobs -> Steps]
           /\ cur' \in [Jobs -> Msgs \cup {NoMsg}]
           /\ item' \in [Jobs -> WorkItems]
           /\ original' \in [Jobs -> WorkItems]
           /\ pc'[j] \in {"idle", "visit"}
           /\ \A i \in Jobs \ {j} : pc'[i] = pc[i] /\ cur'[i] = cur[i] /\ item'[i] = item[i]
  BY ItemTypes DEF TypeOK, NextMessage, Forget, Goto, Steps

LEMMA TypeInit == Init => TypeOK /\ HandInv
  BY ItemTypes, ReconciliationAssumption
  DEF Init, TypeOK, HandInv, Working, Steps

LEMMA TypeStep == TypeOK /\ HandInv /\ [Next]_vars => TypeOK' /\ HandInv'
<1> SUFFICES ASSUME TypeOK, HandInv, [Next]_vars PROVE TypeOK' /\ HandInv'
  OBVIOUS
<1> USE ItemTypes, ReconciliationAssumption
<1> USE DEF HandInv, TypeOK, Working, Steps, Goto, blobs, world, locals
<1>1. ASSUME NEW m \in Msgs, Enqueue(m) PROVE TypeOK' /\ HandInv'
  BY <1>1 DEF Enqueue
<1>2. ASSUME NEW m \in Msgs, GrowOld(m) PROVE TypeOK' /\ HandInv'
  BY <1>2 DEF GrowOld
<1>3. ASSUME NEW j \in Jobs, NEW m \in Msgs, LeaseExpires(j, m)
      PROVE  TypeOK' /\ HandInv'
  BY <1>3 DEF LeaseExpires
<1>4. ASSUME NEW j \in Jobs, StartCycle(j) PROVE TypeOK' /\ HandInv'
  BY <1>4 DEF StartCycle, ScanInbox, Available
<1>5. ASSUME NEW j \in Jobs, NEW m \in Msgs, Visit(j, m)
      PROVE  TypeOK' /\ HandInv'
  <2>1. todo' \in [Jobs -> SUBSET Msgs]
    BY <1>5 DEF Visit
  <2>2. CASE NextMessage(j, todo[j] \ {m})
    BY <1>5, <2>1, <2>2, NextMessageEffect DEF Visit
  <2>3. CASE /\ Goto(j, "lease")
             /\ cur' = [cur EXCEPT ![j] = m]
             /\ UNCHANGED <<item, original>>
    BY <1>5, <2>1, <2>3 DEF Visit
  <2>4. QED
    BY <1>5, <2>2, <2>3 DEF Visit
<1>6. ASSUME NEW j \in Jobs, LeaseWorkItem(j) PROVE TypeOK' /\ HandInv'
  <2>1. cur[j] \in Msgs /\ inbox[cur[j]] \in WorkItems
    BY <1>6 DEF LeaseWorkItem
  <2>2. CASE CanLease(j, cur[j])
    <3>1. /\ leases' = [leases EXCEPT ![j] = @ \cup {cur[j]}]
          /\ item' = [item EXCEPT ![j] = inbox[cur[j]]]
          /\ Goto(j, "envelope")
          /\ UNCHANGED <<cur, original>>
      BY <1>6, <2>2 DEF LeaseWorkItem
    <3>2. QED
      BY <1>6, <2>1, <3>1 DEF LeaseWorkItem
  <2>3. CASE ~CanLease(j, cur[j])
    BY <1>6, <2>3, NextMessageEffect DEF LeaseWorkItem
  <2>4. QED
    BY <2>2, <2>3
<1>7. ASSUME NEW j \in Jobs, SaveActive(j) PROVE TypeOK' /\ HandInv'
  <2>1. cur[j] \in Msgs /\ item[j].attempt \in Nat
    BY <1>7 DEF SaveActive
  <2>2. CASE item[j].attempt >= MaxRetries
    BY <1>7, <2>1, <2>2 DEF SaveActive
  <2>3. CASE item[j].attempt < MaxRetries
    BY <1>7, <2>1, <2>3 DEF SaveActive
  <2>4. QED
    BY <2>1, <2>2, <2>3
<1>8. ASSUME NEW j \in Jobs, SaveAttempt(j) PROVE TypeOK' /\ HandInv'
  BY <1>8, CountedType DEF SaveAttempt
<1>9. ASSUME NEW j \in Jobs, RunPipeline(j) PROVE TypeOK' /\ HandInv'
  <2>1. cur[j] \in Msgs /\ answered' \subseteq Msgs
    BY <1>9, ZenonT(30) DEF RunPipeline, Sent
  <2>2. PICK s \in {"complete", "dl_load", "purge"} : Goto(j, s)
    BY <1>9 DEF RunPipeline
  <2>3. executions' \in [Msgs -> Nat]
    <3>1. executions' = [executions EXCEPT ![cur[j]] = @ + 1]
      BY <1>9 DEF RunPipeline
    <3>2. QED
      BY <2>1, <3>1, CountUpType
  <2>4. UNCHANGED <<blobs, accepted, fresh, todo, cur, item, original, leases, faults, crashes>>
    BY <1>9 DEF RunPipeline
  <2>5. TypeOK'
    BY <2>1, <2>2, <2>3, <2>4
  <2>6. HandInv'
    BY <2>1, <2>2, <2>4
  <2>7. QED
    BY <2>5, <2>6
<1>10. ASSUME NEW j \in Jobs, Complete(j) PROVE TypeOK' /\ HandInv'
  BY <1>10 DEF Complete, DeleteInbox, Fault
<1>11. ASSUME NEW j \in Jobs, DeadLetterLoad(j) PROVE TypeOK' /\ HandInv'
  BY <1>11 DEF DeadLetterLoad
<1>12. ASSUME NEW j \in Jobs, DeadLetterSave(j) PROVE TypeOK' /\ HandInv'
  BY <1>12, EnvelopeType DEF DeadLetterSave
<1>13. ASSUME NEW j \in Jobs, DeadLetterDelete(j) PROVE TypeOK' /\ HandInv'
  BY <1>13 DEF DeadLetterDelete, DeleteInbox, Fault
<1>14. ASSUME NEW j \in Jobs, Purge(j) PROVE TypeOK' /\ HandInv'
  <2>1. active' \subseteq Msgs
    BY <1>14 DEF Purge
  <2>2. faults' \in 0..MaxFaults
    BY <1>14 DEF Purge, Fault
  <2>3. /\ NextMessage(j, todo[j])
        /\ leases' = [leases EXCEPT ![j] = @ \ {cur[j]}]
        /\ UNCHANGED <<inbox, dlq, world, todo, crashes>>
    BY <1>14 DEF Purge
  <2>4. QED
    BY <2>1, <2>2, <2>3, NextMessageEffect
<1>15. ASSUME NEW j \in Jobs, SaveActiveFails(j) PROVE TypeOK' /\ HandInv'
  BY <1>15, NextMessageEffect DEF SaveActiveFails, SavedOrNot, Fault
<1>16. ASSUME NEW j \in Jobs, LoadFails(j) PROVE TypeOK' /\ HandInv'
  BY <1>16 DEF LoadFails, Abort, Forget, Fault
<1>17. ASSUME NEW j \in Jobs, SaveAttemptFails(j) PROVE TypeOK' /\ HandInv'
  <2>1. inbox' \in [Msgs -> WorkItems]
    BY <1>17, CountedType DEF SaveAttemptFails, SavedOrNot
  <2>2. QED
    BY <1>17, <2>1 DEF SaveAttemptFails, Abort, Forget, Fault
<1>18. ASSUME NEW j \in Jobs, DeadLetterSaveFails(j) PROVE TypeOK' /\ HandInv'
  <2>1. dlq' \in [Msgs -> Envelopes]
    BY <1>18, EnvelopeType DEF DeadLetterSaveFails, SavedOrNot
  <2>2. QED
    BY <1>18, <2>1 DEF DeadLetterSaveFails, Abort, Forget, Fault
<1>19. ASSUME NEW j \in Jobs, Crash(j) PROVE TypeOK' /\ HandInv'
  BY <1>19 DEF Crash, Forget
<1>20. CASE UNCHANGED vars
  BY <1>20 DEF vars
<1>21. QED
  BY <1>1, <1>2, <1>3, <1>4, <1>5, <1>6, <1>7, <1>8, <1>9, <1>10, <1>11, <1>12,
     <1>13, <1>14, <1>15, <1>16, <1>17, <1>18, <1>19, <1>20
  DEF Next, JobStep, JobFailure

\* Every variable keeps its type: attempts never pass MaxRetries, and a process
\* that stopped half-way leaves nothing but work items and envelopes in the store.
THEOREM TypeCorrect == Spec => []TypeOK
  BY TypeInit, TypeStep, PTL DEF Spec

---------------------------------------------------------------------------
\* What the store and the processes hold is the message itself: no step of the
\* jobs puts a hollow item into the inbox.
WholeInv ==
    /\ \A m \in Msgs : inbox[m] = NoItem \/ inbox[m].whole
    /\ \A j \in Jobs : pc[j] \in Holding => item[j].whole

\* Why a process may delete the inbox blob: the reply is out, or the envelope is
\* in the dead-letter queue.
DeleteInv ==
    \A j \in Jobs :
        /\ pc[j] = "complete" => cur[j] \in answered
        /\ pc[j] = "dl_delete" => HoldsMessage(dlq[cur[j]])

\* The inductive invariant behind NoLoss.
LossInv == TypeOK /\ HandInv /\ WholeInv /\ DeleteInv /\ NoLoss

LEMMA WholeStep == TypeOK /\ HandInv /\ WholeInv /\ [Next]_vars => WholeInv'
<1> SUFFICES ASSUME TypeOK, HandInv, WholeInv, [Next]_vars PROVE WholeInv'
  OBVIOUS
<1> USE DEF WholeInv, Holding, Working, Steps, Goto
<1>1. ASSUME NEW m \in Msgs, Enqueue(m) PROVE WholeInv'
  BY <1>1 DEF Enqueue, NewItem, TypeOK, locals
<1>2. ASSUME NEW m \in Msgs, GrowOld(m) PROVE WholeInv'
  BY <1>2 DEF GrowOld, blobs, locals
<1>3. ASSUME NEW j \in Jobs, NEW m \in Msgs, LeaseExpires(j, m) PROVE WholeInv'
  BY <1>3 DEF LeaseExpires, blobs
<1>4. ASSUME NEW j \in Jobs, StartCycle(j) PROVE WholeInv'
  BY <1>4 DEF StartCycle, blobs, TypeOK
<1>5. ASSUME NEW j \in Jobs, NEW m \in Msgs, Visit(j, m) PROVE WholeInv'
  BY <1>5, NextMessageEffect DEF Visit, blobs, TypeOK
<1>6. ASSUME NEW j \in Jobs, LeaseWorkItem(j) PROVE WholeInv'
  BY <1>6, NextMessageEffect DEF LeaseWorkItem, CanLease, blobs, TypeOK, HandInv
<1>7. ASSUME NEW j \in Jobs, SaveActive(j) PROVE WholeInv'
  BY <1>7 DEF SaveActive, TypeOK
<1>8. ASSUME NEW j \in Jobs, SaveAttempt(j) PROVE WholeInv'
  BY <1>8 DEF SaveAttempt, Counted, TypeOK
<1>9. ASSUME NEW j \in Jobs, RunPipeline(j) PROVE WholeInv'
  BY <1>9 DEF RunPipeline, blobs, TypeOK
<1>10. ASSUME NEW j \in Jobs, Complete(j) PROVE WholeInv'
  BY <1>10 DEF Complete, DeleteInbox, TypeOK
<1>11. ASSUME NEW j \in Jobs, DeadLetterLoad(j) PROVE WholeInv'
  BY <1>11 DEF DeadLetterLoad, blobs, TypeOK
<1>12. ASSUME NEW j \in Jobs, DeadLetterSave(j) PROVE WholeInv'
  BY <1>12 DEF DeadLetterSave, TypeOK
<1>13. ASSUME NEW j \in Jobs, DeadLetterDelete(j) PROVE WholeInv'
  BY <1>13 DEF DeadLetterDelete, DeleteInbox, TypeOK
<1>14. ASSUME NEW j \in Jobs, Purge(j) PROVE WholeInv'
  BY <1>14, NextMessageEffect DEF Purge
<1>15. ASSUME NEW j \in Jobs, SaveActiveFails(j) PROVE WholeInv'
  BY <1>15, NextMessageEffect DEF SaveActiveFails
<1>16. ASSUME NEW j \in Jobs, LoadFails(j) PROVE WholeInv'
  BY <1>16 DEF LoadFails, Abort, Forget, blobs, TypeOK
<1>17. ASSUME NEW j \in Jobs, SaveAttemptFails(j) PROVE WholeInv'
  BY <1>17 DEF SaveAttemptFails, SavedOrNot, Counted, Abort, Forget, TypeOK
<1>18. ASSUME NEW j \in Jobs, DeadLetterSaveFails(j) PROVE WholeInv'
  BY <1>18 DEF DeadLetterSaveFails, Abort, Forget, TypeOK
<1>19. ASSUME NEW j \in Jobs, Crash(j) PROVE WholeInv'
  BY <1>19 DEF Crash, Forget, blobs, TypeOK
<1>20. CASE UNCHANGED vars
  BY <1>20 DEF vars
<1>21. QED
  BY <1>1, <1>2, <1>3, <1>4, <1>5, <1>6, <1>7, <1>8, <1>9, <1>10, <1>11, <1>12,
     <1>13, <1>14, <1>15, <1>16, <1>17, <1>18, <1>19, <1>20
  DEF Next, JobStep, JobFailure

\* A reply sent stays sent, and an envelope in the dead-letter queue keeps its
\* message, also when it is written again.
LEMMA Kept ==
    ASSUME TypeOK, HandInv, WholeInv, [Next]_vars
    PROVE  /\ accepted \subseteq accepted' /\ answered \subseteq answered'
           /\ \A m \in Msgs : HoldsMessage(dlq[m]) => HoldsMessage(dlq'[m])
<1> DEFINE Goal == /\ accepted \subseteq accepted' /\ answered \subseteq answered'
                   /\ \A m \in Msgs : HoldsMessage(dlq[m]) => HoldsMessage(dlq'[m])
<1>1. CASE UNCHANGED <<accepted, answered, dlq>>
  BY <1>1
<1>2. ASSUME NEW m \in Msgs, Enqueue(m) PROVE Goal
  BY <1>2 DEF Enqueue
<1>3. ASSUME NEW j \in Jobs, RunPipeline(j) PROVE Goal
  BY <1>3 DEF RunPipeline, Sent, blobs
<1>4. ASSUME NEW j \in Jobs, pc[j] = "dl_save",
             dlq' = [dlq EXCEPT ![cur[j]] = DeadLetter(j)], UNCHANGED <<accepted, answered>>
      PROVE  Goal
  <2>1. item[j].whole
    BY <1>4 DEF WholeInv, Holding, Working, Steps
  <2>2. QED
    BY <1>4, <2>1 DEF TypeOK, DeadLetter, HoldsMessage
<1>5. ASSUME NEW j \in Jobs, DeadLetterSave(j) PROVE Goal
  BY <1>4, <1>5 DEF DeadLetterSave, world
<1>6. ASSUME NEW j \in Jobs, DeadLetterSaveFails(j) PROVE Goal
  BY <1>1, <1>4, <1>6 DEF DeadLetterSaveFails, SavedOrNot, world
<1>7. QED
  BY <1>1, <1>2, <1>3, <1>5, <1>6
  DEF Next, JobStep, JobFailure, vars, blobs, world, GrowOld, LeaseExpires, StartCycle,
      Visit, LeaseWorkItem, SaveActive, SaveAttempt, Complete, DeadLetterLoad,
      DeadLetterDelete, Purge, SaveActiveFails, LoadFails, SaveAttemptFails, Crash

LEMMA DeleteStep ==
    TypeOK /\ HandInv /\ WholeInv /\ DeleteInv /\ [Next]_vars => DeleteInv'
<1> SUFFICES ASSUME TypeOK, HandInv, WholeInv, DeleteInv, [Next]_vars PROVE DeleteInv'
  OBVIOUS
<1>1. answered \subseteq answered' /\ \A m \in Msgs : HoldsMessage(dlq[m]) => HoldsMessage(dlq'[m])
  BY Kept
<1> USE <1>1 DEF DeleteInv, Goto
<1>2. CASE UNCHANGED <<pc, cur>>
  BY <1>2 DEF HandInv, Working, Steps
<1>3. ASSUME NEW j \in Jobs, pc'[j] \notin {"complete", "dl_delete"},
             \A i \in Jobs \ {j} : pc'[i] = pc[i] /\ cur'[i] = cur[i]
      PROVE  DeleteInv'
  BY <1>3 DEF HandInv, Working, Steps
<1>4. ASSUME NEW j \in Jobs, NEW rest, NextMessage(j, rest) PROVE DeleteInv'
  BY <1>3, <1>4, NextMessageEffect
<1>5. ASSUME NEW j \in Jobs, NEW m \in Msgs, Visit(j, m) PROVE DeleteInv'
  BY <1>3, <1>4, <1>5 DEF Visit, TypeOK
<1>6. ASSUME NEW j \in Jobs, LeaseWorkItem(j) PROVE DeleteInv'
  BY <1>3, <1>4, <1>6 DEF LeaseWorkItem, TypeOK
<1>7. ASSUME NEW j \in Jobs, SaveActive(j) PROVE DeleteInv'
  BY <1>3, <1>7 DEF SaveActive, TypeOK
<1>8. ASSUME NEW j \in Jobs, RunPipeline(j) PROVE DeleteInv'
  <2>1. item[j].whole
    BY <1>8 DEF RunPipeline, WholeInv, Holding, Working, Steps
  <2>2. CASE answered' = Sent(j) /\ Goto(j, "complete")
    BY <1>8, <2>1, <2>2 DEF RunPipeline, Sent, blobs, TypeOK, HandInv, Working, Steps
  <2>3. CASE Goto(j, IF item[j].attempt >= MaxRetries THEN "dl_load" ELSE "purge")
    BY <1>3, <1>8, <2>3 DEF RunPipeline, TypeOK
  <2>4. QED
    BY <1>8, <2>2, <2>3 DEF RunPipeline
<1>9. ASSUME NEW j \in Jobs, DeadLetterSave(j) PROVE DeleteInv'
  <2>1. item[j].whole /\ cur[j] \in Msgs
    BY <1>9 DEF DeadLetterSave, WholeInv, Holding, HandInv, Working, Steps
  <2>2. HoldsMessage(dlq'[cur[j]])
    BY <1>9, <2>1 DEF DeadLetterSave, DeadLetter, HoldsMessage, TypeOK
  <2>3. \A i \in Jobs \ {j} : pc'[i] = pc[i] /\ cur'[i] = cur[i]
    BY <1>9 DEF DeadLetterSave, TypeOK
  <2>4. QED
    BY <1>9, <2>2, <2>3 DEF DeadLetterSave, TypeOK, HandInv, Working, Steps
<1>10. ASSUME NEW j \in Jobs, Abort(j) PROVE DeleteInv'
  BY <1>3, <1>10 DEF Abort, Forget, TypeOK
<1>11. ASSUME NEW j \in Jobs, Crash(j) PROVE DeleteInv'
  BY <1>3, <1>11 DEF Crash, Forget, TypeOK
<1>12. ASSUME NEW j \in Jobs,
              \/ StartCycle(j) \/ SaveAttempt(j) \/ Complete(j)
              \/ DeadLetterLoad(j) \/ DeadLetterDelete(j)
       PROVE  DeleteInv'
  BY <1>3, <1>12 DEF StartCycle, SaveAttempt, Complete, DeadLetterLoad, DeadLetterDelete, TypeOK
<1>13. ASSUME NEW j \in Jobs, Purge(j) \/ SaveActiveFails(j) PROVE DeleteInv'
  BY <1>4, <1>13 DEF Purge, SaveActiveFails
<1>14. ASSUME NEW j \in Jobs,
              LoadFails(j) \/ SaveAttemptFails(j) \/ DeadLetterSaveFails(j)
       PROVE  DeleteInv'
  BY <1>10, <1>14 DEF LoadFails, SaveAttemptFails, DeadLetterSaveFails
<1>15. QED
  BY <1>2, <1>5, <1>6, <1>7, <1>8, <1>9, <1>11, <1>12, <1>13, <1>14
  DEF Next, JobStep, JobFailure, vars, locals, Enqueue, GrowOld, LeaseExpires

\* A step that empties an inbox blob has a reply or an envelope to show for it.
LEMMA NoLossStep == LossInv /\ [Next]_vars => NoLoss'
<1> SUFFICES ASSUME LossInv, [Next]_vars PROVE NoLoss'
  OBVIOUS
<1>1. /\ accepted \subseteq accepted' /\ answered \subseteq answered'
      /\ \A m \in Msgs : HoldsMessage(dlq[m]) => HoldsMessage(dlq'[m])
  BY Kept DEF LossInv
<1> USE <1>1 DEF LossInv, NoLoss
<1>2. ASSUME accepted' = accepted,
             \A m \in accepted : inbox[m].whole => inbox'[m].whole
      PROVE  NoLoss'
  BY <1>2 DEF TypeOK
<1>3. ASSUME NEW m \in Msgs, Enqueue(m) PROVE NoLoss'
  BY <1>3 DEF Enqueue, NewItem, TypeOK
<1>4. ASSUME NEW j \in Jobs, inbox' = [inbox EXCEPT ![cur[j]] = Counted(j)],
             pc[j] = "attempt", accepted' = accepted
      PROVE  NoLoss'
  BY <1>2, <1>4 DEF Counted, WholeInv, Holding, Working, Steps, TypeOK
<1>5. ASSUME NEW j \in Jobs, inbox' = [inbox EXCEPT ![cur[j]] = NoItem],
             pc[j] \in {"complete", "dl_delete"}, accepted' = accepted
      PROVE  NoLoss'
  <2>1. cur[j] \in answered' \/ HoldsMessage(dlq'[cur[j]])
    BY <1>5 DEF DeleteInv, HandInv, Working, Steps
  <2>2. \A m \in Msgs \ {cur[j]} : inbox'[m] = inbox[m]
    BY <1>5 DEF TypeOK
  <2>3. QED
    BY <1>5, <2>1, <2>2 DEF TypeOK
<1>6. ASSUME NEW j \in Jobs, Complete(j) \/ DeadLetterDelete(j) PROVE NoLoss'
  BY <1>2, <1>5, <1>6 DEF Complete, DeadLetterDelete, DeleteInbox, world
<1>7. ASSUME NEW j \in Jobs, SaveAttempt(j) \/ SaveAttemptFails(j) PROVE NoLoss'
  BY <1>2, <1>4, <1>7 DEF SaveAttempt, SaveAttemptFails, SavedOrNot, world
<1>8. CASE UNCHANGED <<accepted, inbox>>
  BY <1>2, <1>8
<1>9. QED
  BY <1>3, <1>6, <1>7, <1>8
  DEF Next, JobStep, JobFailure, vars, blobs, world, GrowOld, LeaseExpires, StartCycle,
      Visit, LeaseWorkItem, SaveActive, RunPipeline, DeadLetterLoad, DeadLetterSave,
      Purge, SaveActiveFails, LoadFails, DeadLetterSaveFails, Crash

\* No message is lost, however many processes, crashes and failed operations.
THEOREM MessagesAreNotLost == Spec => []NoLoss
<1>1. Init => LossInv
  BY TypeInit
  DEF Init, LossInv, WholeInv, DeleteInv, NoLoss, Holding, Working, Steps
<1>2. LossInv /\ [Next]_vars => LossInv'
  BY TypeStep, WholeStep, DeleteStep, NoLossStep DEF LossInv
<1>3. LossInv => NoLoss
  BY DEF LossInv
<1>4. QED
  BY <1>1, <1>2, <1>3, PTL DEF Spec

---------------------------------------------------------------------------
(* With a single process, which is how the schedule runs the job, its copy of a work item *)
(* is never out of date, so the attempt counter bounds the work and dead-lettering is     *)
(* final.                                                                                 *)


\* One process, or none.
OneJob == \A i, j \in Jobs : i = j

\* A message has a past only after it was accepted.
PastInv ==
    /\ \A m \in Msgs \ accepted :
          inbox[m] = NoItem /\ dlq[m] = NoEntry /\ executions[m] = 0
    /\ \A j \in Jobs : pc[j] \in Working => cur[j] \in accepted

\* The copy a process holds is what the inbox holds.
CopyInv ==
    \A j \in Jobs : pc[j] \in Holding =>
        item[j] = inbox[cur[j]] /\ inbox[cur[j]] # NoItem

\* The attempt counter of the inbox is ahead of the executions.
CountInv ==
    /\ \A m \in Msgs : inbox[m] # NoItem => executions[m] < inbox[m].attempt
    /\ \A j \in Jobs : pc[j] = "pipeline" => executions[cur[j]] + 1 < item[j].attempt

\* An item that is dead-lettered, or on its way there, has no attempts left.
SpentInv ==
    /\ \A m \in Msgs : dlq[m] # NoEntry =>
          inbox[m] = NoItem \/ inbox[m].attempt >= MaxRetries
    /\ \A j \in Jobs :
          /\ pc[j] \in {"dl_load", "dl_save", "dl_delete"} => item[j].attempt >= MaxRetries
          /\ pc[j] \in {"attempt", "pipeline"} => dlq[cur[j]] = NoEntry
          /\ pc[j] = "dl_save" => original[j].whole

CoreInv == TypeOK /\ HandInv /\ WholeInv

PartsInv ==
    PastInv /\ CopyInv /\ CountInv /\ SpentInv /\ WorkBudget /\ DeadLetterKeepsOriginal

SingleInv == CoreInv /\ PartsInv

CountsAttempt(j) == inbox' = [inbox EXCEPT ![cur[j]] = Counted(j)]

LEMMA CountedIsAhead ==
    ASSUME SingleInv, NEW j \in Jobs, pc[j] = "attempt"
    PROVE  /\ executions[cur[j]] + 1 < Counted(j).attempt /\ Counted(j) # NoItem
           /\ cur[j] \in Msgs /\ cur[j] \in accepted /\ dlq[cur[j]] = NoEntry
<1>1. /\ cur[j] \in Msgs /\ cur[j] \in accepted /\ dlq[cur[j]] = NoEntry
      /\ item[j] = inbox[cur[j]] /\ inbox[cur[j]] # NoItem
  BY DEF SingleInv, CoreInv, PartsInv, HandInv, PastInv, CopyInv, SpentInv, Holding,
         Working, Steps
<1>2. item[j].attempt \in Nat /\ executions[cur[j]] \in Nat
  BY <1>1, ItemTypes DEF SingleInv, CoreInv, TypeOK
<1>3. executions[cur[j]] < item[j].attempt
  BY <1>1 DEF SingleInv, PartsInv, CountInv
<1>4. QED
  BY <1>1, <1>2, <1>3 DEF Counted, NoItem

LEMMA PartsStep ==
    ASSUME OneJob, SingleInv, CoreInv', [Next]_vars
    PROVE  PartsInv'
<1> USE ReconciliationAssumption
<1> USE DEF SingleInv, CoreInv, PartsInv, PastInv, CopyInv, CountInv, SpentInv, WorkBudget,
            DeadLetterKeepsOriginal, Holding, Working, Steps, Goto
<1>1. ASSUME NEW m \in Msgs, Enqueue(m) PROVE PartsInv'
  <2>1. /\ inbox'[m].attempt = 1 /\ inbox'[m] # NoItem
        /\ \A n \in Msgs \ {m} : inbox'[n] = inbox[n]
    BY <1>1 DEF Enqueue, NewItem, NoItem, TypeOK
  <2>2. /\ m \notin accepted /\ accepted' = accepted \cup {m}
        /\ UNCHANGED <<dlq, executions, pc, cur, item, original>>
    BY <1>1 DEF Enqueue, locals
  <2>3. PastInv'
    BY <2>1, <2>2
  <2>4. CopyInv'
    BY <2>1, <2>2, ZenonT(30) DEF HandInv
  <2>5. CountInv'
    <3>1. \A n \in Msgs : inbox'[n] # NoItem => executions'[n] < inbox'[n].attempt
      BY <2>1, <2>2
    <3>2. QED
      BY <2>2, <3>1
  <2>6. WorkBudget'
    BY <2>2
  <2>7. SpentInv' /\ DeadLetterKeepsOriginal'
    BY <2>1, <2>2
  <2>8. QED
    BY <2>3, <2>4, <2>5, <2>6, <2>7
<1>2. CASE UNCHANGED <<inbox, dlq, accepted, executions, pc, cur, item, original>>
  BY <1>2
\* The process ends up without a work item, and the store is as before.
<1>3. ASSUME NEW j \in Jobs, pc'[j] \in {"idle", "visit"},
             UNCHANGED <<inbox, dlq, accepted, executions>>
      PROVE  PartsInv'
  BY <1>3 DEF OneJob
<1>4. ASSUME NEW j \in Jobs, NEW rest, NextMessage(j, rest),
             UNCHANGED <<inbox, dlq, accepted, executions>>
      PROVE  PartsInv'
  BY <1>3, <1>4, NextMessageEffect
<1>5. ASSUME NEW j \in Jobs, StartCycle(j) PROVE PartsInv'
  BY <1>3, <1>5 DEF StartCycle, TypeOK, blobs, world
<1>6. ASSUME NEW j \in Jobs, NEW m \in Msgs, Visit(j, m) PROVE PartsInv'
  <2>1. CASE NextMessage(j, todo[j] \ {m})
    BY <1>4, <1>6, <2>1 DEF Visit, blobs, world
  <2>2. CASE inbox[m] # NoItem /\ Goto(j, "lease") /\ cur' = [cur EXCEPT ![j] = m]
    BY <1>6, <2>2 DEF Visit, blobs, world, TypeOK, OneJob
  <2>3. QED
    BY <1>6, <2>1, <2>2 DEF Visit
<1>7. ASSUME NEW j \in Jobs, LeaseWorkItem(j) PROVE PartsInv'
  <2>1. CASE NextMessage(j, todo[j])
    BY <1>4, <1>7, <2>1 DEF LeaseWorkItem, blobs, world
  <2>2. CASE /\ CanLease(j, cur[j])
             /\ item' = [item EXCEPT ![j] = inbox[cur[j]]]
             /\ Goto(j, "envelope")
             /\ UNCHANGED <<cur, original>>
    BY <1>7, <2>2 DEF LeaseWorkItem, CanLease, blobs, world, TypeOK, OneJob
  <2>3. QED
    BY <1>7, <2>1, <2>2 DEF LeaseWorkItem
<1>8. ASSUME NEW j \in Jobs, SaveActive(j) PROVE PartsInv'
  <2>1. /\ UNCHANGED <<inbox, dlq, accepted, executions, cur, item, original>>
        /\ pc[j] = "envelope" /\ cur[j] \in Msgs
        /\ inbox[cur[j]].attempt \in Nat
    BY <1>8, ItemTypes DEF SaveActive, world, TypeOK, HandInv
  <2>2. CASE item[j].attempt >= MaxRetries
    <3>1. pc' = [pc EXCEPT ![j] = "dl_load"]
      BY <1>8, <2>2 DEF SaveActive
    <3>2. QED
      BY <2>1, <2>2, <3>1 DEF OneJob, TypeOK
  <2>3. CASE ~(item[j].attempt >= MaxRetries)
    <3>1. pc' = [pc EXCEPT ![j] = "attempt"]
      BY <1>8, <2>3 DEF SaveActive
    <3>2. dlq[cur[j]] = NoEntry
      BY <2>1, <2>3
    <3>3. PastInv' /\ CopyInv' /\ CountInv'
      BY <2>1, <3>1 DEF OneJob, TypeOK
    <3>4. SpentInv' /\ WorkBudget' /\ DeadLetterKeepsOriginal'
      BY <2>1, <3>1, <3>2 DEF OneJob, TypeOK
    <3>5. QED
      BY <3>3, <3>4
  <2>4. QED
    BY <2>2, <2>3
<1>9. ASSUME NEW j \in Jobs, SaveAttempt(j) PROVE PartsInv'
  <2>1. /\ UNCHANGED <<dlq, accepted, executions, cur, original>>
        /\ pc[j] = "attempt" /\ pc' = [pc EXCEPT ![j] = "pipeline"]
    BY <1>9 DEF SaveAttempt, world
  <2>2. CountsAttempt(j) /\ item'[j] = Counted(j)
    BY <1>9 DEF SaveAttempt, CountsAttempt, TypeOK
  <2>3. /\ executions[cur[j]] + 1 < item'[j].attempt /\ item'[j] # NoItem
        /\ cur[j] \in Msgs /\ cur[j] \in accepted /\ dlq[cur[j]] = NoEntry
    BY <2>1, <2>2, CountedIsAhead
  <2>4. inbox'[cur[j]] = item'[j] /\ \A n \in Msgs \ {cur[j]} : inbox'[n] = inbox[n]
    BY <2>2, <2>3 DEF CountsAttempt, TypeOK
  <2>5. PastInv' /\ CopyInv'
    BY <2>1, <2>3, <2>4 DEF OneJob, TypeOK
  <2>6. CountInv' /\ WorkBudget'
    <3>1. executions[cur[j]] \in Nat /\ item'[j].attempt \in Nat
      BY <2>1, <2>2, <2>3, CountedType, ItemTypes DEF TypeOK, HandInv
    <3>2. CountInv'
      BY <2>1, <2>3, <2>4, <3>1 DEF OneJob
    <3>3. WorkBudget'
      BY <2>1
    <3>4. QED
      BY <3>2, <3>3
  <2>7. SpentInv' /\ DeadLetterKeepsOriginal'
    BY <2>1, <2>3, <2>4 DEF OneJob, TypeOK
  <2>8. QED
    BY <2>5, <2>6, <2>7
<1>10. ASSUME NEW j \in Jobs, RunPipeline(j) PROVE PartsInv'
  <2>1. /\ UNCHANGED <<inbox, dlq, accepted, cur, item, original>>
        /\ pc[j] = "pipeline" /\ cur[j] \in Msgs /\ cur[j] \in accepted
        /\ item[j] = inbox[cur[j]] /\ item[j].attempt \in 0..MaxRetries
    BY <1>10, ItemTypes DEF RunPipeline, blobs, TypeOK, HandInv, WorkItems
  <2>2. executions' = [executions EXCEPT ![cur[j]] = @ + 1]
    BY <1>10 DEF RunPipeline
  <2>3. PICK s \in {"complete", "dl_load", "purge"} :
          pc' = [pc EXCEPT ![j] = s] /\ (s = "dl_load" => item[j].attempt >= MaxRetries)
    BY <1>10 DEF RunPipeline
  <2>4. /\ executions'[cur[j]] < inbox[cur[j]].attempt
        /\ executions'[cur[j]] <= MaxRetries - 1
        /\ \A n \in Msgs \ {cur[j]} : executions'[n] = executions[n]
    BY <2>1, <2>2 DEF TypeOK
  <2>5. PastInv' /\ CopyInv'
    BY <2>1, <2>3, <2>4 DEF OneJob, TypeOK
  <2>6. CountInv' /\ WorkBudget'
    <3>1. \A i \in Jobs : i = j /\ pc'[i] # "pipeline"
      BY <2>3 DEF OneJob, TypeOK
    <3>2. CountInv'
      BY <2>1, <2>4, <3>1
    <3>3. WorkBudget'
      BY <2>4
    <3>4. QED
      BY <3>2, <3>3
  <2>7. SpentInv' /\ DeadLetterKeepsOriginal'
    BY <2>1, <2>3 DEF OneJob, TypeOK
  <2>8. QED
    BY <2>5, <2>6, <2>7
<1>11. ASSUME NEW j \in Jobs, Complete(j) \/ DeadLetterDelete(j) PROVE PartsInv'
  BY <1>11 DEF Complete, DeadLetterDelete, DeleteInbox, world, TypeOK, OneJob, HandInv
<1>12. ASSUME NEW j \in Jobs, DeadLetterLoad(j) PROVE PartsInv'
  BY <1>12 DEF DeadLetterLoad, blobs, world, TypeOK, OneJob, HandInv, WholeInv
<1>13. ASSUME NEW j \in Jobs, DeadLetterSave(j) PROVE PartsInv'
  BY <1>13 DEF DeadLetterSave, DeadLetter, world, TypeOK, OneJob, HandInv
<1>14. ASSUME NEW j \in Jobs, Purge(j) \/ SaveActiveFails(j) PROVE PartsInv'
  BY <1>4, <1>14 DEF Purge, SaveActiveFails, world
<1>15. ASSUME NEW j \in Jobs, LoadFails(j) \/ Crash(j) PROVE PartsInv'
  BY <1>3, <1>15 DEF LoadFails, Abort, Crash, Forget, blobs, world, TypeOK
<1>16. ASSUME NEW j \in Jobs, SaveAttemptFails(j) PROVE PartsInv'
  <2>1. /\ UNCHANGED <<dlq, accepted, executions>>
        /\ pc[j] = "attempt" /\ pc' = [pc EXCEPT ![j] = "idle"]
    BY <1>16 DEF SaveAttemptFails, Abort, world
  <2>2. CASE inbox' = inbox
    BY <1>3, <2>1, <2>2 DEF TypeOK
  <2>3. CASE CountsAttempt(j)
    <3>1. /\ executions[cur[j]] + 1 < Counted(j).attempt /\ Counted(j) # NoItem
          /\ cur[j] \in Msgs /\ cur[j] \in accepted /\ dlq[cur[j]] = NoEntry
      BY <2>1, CountedIsAhead
    <3>2. inbox'[cur[j]] = Counted(j) /\ \A n \in Msgs \ {cur[j]} : inbox'[n] = inbox[n]
      BY <2>3, <3>1 DEF CountsAttempt, TypeOK
    <3>3. PastInv' /\ CopyInv'
      BY <2>1, <3>1, <3>2 DEF OneJob, TypeOK
    <3>4. CountInv' /\ WorkBudget'
      <4>1. \A i \in Jobs : i = j /\ pc'[i] # "pipeline"
        BY <2>1 DEF OneJob, TypeOK
      <4>2. executions[cur[j]] \in Nat /\ Counted(j).attempt \in Nat
        BY <3>1, CountedType, ItemTypes, <2>1 DEF TypeOK, HandInv
      <4>3. CountInv'
        BY <2>1, <3>1, <3>2, <4>1, <4>2
      <4>4. WorkBudget'
        BY <2>1
      <4>5. QED
        BY <4>3, <4>4
    <3>5. SpentInv' /\ DeadLetterKeepsOriginal'
      BY <2>1, <3>1, <3>2 DEF OneJob, TypeOK
    <3>6. QED
      BY <3>3, <3>4, <3>5
  <2>4. QED
    BY <1>16, <2>2, <2>3 DEF SaveAttemptFails, SavedOrNot, CountsAttempt
<1>17. ASSUME NEW j \in Jobs, DeadLetterSaveFails(j) PROVE PartsInv'
  BY <1>17 DEF DeadLetterSaveFails, SavedOrNot, Abort, Forget, DeadLetter, world, TypeOK, OneJob, HandInv
<1>18. QED
  BY <1>1, <1>2, <1>5, <1>6, <1>7, <1>8, <1>9, <1>10, <1>11, <1>12, <1>13, <1>14,
     <1>15, <1>16, <1>17
  DEF Next, JobStep, JobFailure, GrowOld, LeaseExpires, vars, blobs, world, locals

LEMMA SingleInvariant == OneJob => (Spec => []SingleInv)
<1> SUFFICES ASSUME OneJob PROVE Spec => []SingleInv
  OBVIOUS
<1>1. Init => SingleInv
  BY TypeInit, ReconciliationAssumption
  DEF Init, SingleInv, CoreInv, PartsInv, WholeInv, PastInv, CopyInv, CountInv, SpentInv,
      WorkBudget, DeadLetterKeepsOriginal, Holding, Working, Steps
<1>2. SingleInv /\ [Next]_vars => SingleInv'
  BY TypeStep, WholeStep, PartsStep DEF SingleInv, CoreInv
<1>3. QED
  BY <1>1, <1>2, PTL DEF Spec

\* A single process runs the pipeline for a message at most MaxRetries - 1 times,
\* through crashes and failed storage operations.
THEOREM SingleJobKeepsBudget == OneJob => (Spec => []WorkBudget)
<1> SUFFICES ASSUME OneJob PROVE Spec => []WorkBudget
  OBVIOUS
<1>1. SingleInv => WorkBudget
  BY DEF SingleInv, PartsInv
<1>2. QED
  BY <1>1, SingleInvariant, PTL

\* A single process never writes an envelope that has lost its work item.
THEOREM SingleJobKeepsOriginal == OneJob => (Spec => []DeadLetterKeepsOriginal)
<1> SUFFICES ASSUME OneJob PROVE Spec => []DeadLetterKeepsOriginal
  OBVIOUS
<1>1. SingleInv => DeadLetterKeepsOriginal
  BY DEF SingleInv, PartsInv
<1>2. QED
  BY <1>1, SingleInvariant, PTL

\* Only RunPipeline executes the pipeline, and of a message with no envelope.
LEMMA NoWorkAfterDeadLetter ==
    ASSUME SingleInv, [Next]_vars, NEW m \in Msgs, dlq[m] # NoEntry
    PROVE  executions'[m] = executions[m]
<1>1. ASSUME NEW j \in Jobs, RunPipeline(j) PROVE executions'[m] = executions[m]
  BY <1>1 DEF RunPipeline, SingleInv, CoreInv, PartsInv, SpentInv, TypeOK
<1>2. CASE UNCHANGED executions
  BY <1>2
<1>3. QED
  BY <1>1, <1>2
  DEF Next, JobStep, JobFailure, vars, world, Enqueue, GrowOld, LeaseExpires, StartCycle,
      Visit, LeaseWorkItem, SaveActive, SaveAttempt, Complete, DeadLetterLoad,
      DeadLetterSave, DeadLetterDelete, Purge, SaveActiveFails, LoadFails,
      SaveAttemptFails, DeadLetterSaveFails, Crash

\* What a single process dead-lettered it does not process again.
THEOREM SingleJobDeadLetterIsFinal == OneJob => (Spec => DeadLetterIsFinal)
<1> SUFFICES ASSUME OneJob PROVE Spec => DeadLetterIsFinal
  OBVIOUS
<1>1. SingleInv /\ [Next]_vars =>
        [\A m \in Msgs : dlq[m] # NoEntry => executions'[m] = executions[m]]_vars
  BY NoWorkAfterDeadLetter
<1>2. QED
  BY <1>1, SingleInvariant, PTL DEF Spec, DeadLetterIsFinal

---------------------------------------------------------------------------
(* The jobs follow MessageLifecycle: every step of Reconciliation is a     *)
(* step of the lifecycle or changes no status. A late answer needs a       *)
(* second process, so the proof for one process rests on SingleInv.        *)

\* A message that was not accepted has left no trace, and no process has it in hand.
TraceInv ==
    /\ \A m \in Msgs \ accepted :
          m \notin answered /\ ~HoldsMessage(dlq[m]) /\ ~inbox[m].whole
    /\ \A j \in Jobs : pc[j] \in Working => cur[j] \in accepted

LEMMA TraceStep == TypeOK /\ HandInv /\ WholeInv /\ TraceInv /\ [Next]_vars => TraceInv'
<1> SUFFICES ASSUME TypeOK, HandInv, WholeInv, TraceInv, [Next]_vars PROVE TraceInv'
  OBVIOUS
<1> USE DEF TraceInv, Working, Steps, Goto
<1>1. ASSUME NEW m \in Msgs, Enqueue(m) PROVE TraceInv'
  BY <1>1 DEF Enqueue, TypeOK, locals
<1>2. CASE UNCHANGED <<inbox, dlq, accepted, answered, pc, cur>>
  BY <1>2
<1>3. ASSUME NEW j \in Jobs, NEW rest, NextMessage(j, rest),
             UNCHANGED <<inbox, dlq, accepted, answered>>
      PROVE  TraceInv'
  BY <1>3, NextMessageEffect
<1>4. ASSUME NEW j \in Jobs, StartCycle(j) PROVE TraceInv'
  BY <1>4 DEF StartCycle, TypeOK, blobs, world
<1>5. ASSUME NEW j \in Jobs, NEW m \in Msgs, Visit(j, m) PROVE TraceInv'
  <2>1. CASE NextMessage(j, todo[j] \ {m})
    BY <1>3, <1>5, <2>1 DEF Visit, blobs, world
  <2>2. CASE inbox[m] # NoItem /\ Goto(j, "lease") /\ cur' = [cur EXCEPT ![j] = m]
    BY <1>5, <2>2 DEF Visit, blobs, world, TypeOK, WholeInv
  <2>3. QED
    BY <1>5, <2>1, <2>2 DEF Visit
<1>6. ASSUME NEW j \in Jobs, LeaseWorkItem(j) PROVE TraceInv'
  BY <1>3, <1>6 DEF LeaseWorkItem, blobs, world, TypeOK
<1>7. ASSUME NEW j \in Jobs, SaveActive(j) \/ DeadLetterLoad(j) PROVE TraceInv'
  BY <1>7 DEF SaveActive, DeadLetterLoad, blobs, world, TypeOK
<1>8. ASSUME NEW j \in Jobs, SaveAttempt(j) PROVE TraceInv'
  BY <1>8 DEF SaveAttempt, world, TypeOK, HandInv
<1>9. ASSUME NEW j \in Jobs, RunPipeline(j) PROVE TraceInv'
  BY <1>9 DEF RunPipeline, Sent, blobs, TypeOK, HandInv
<1>10. ASSUME NEW j \in Jobs, Complete(j) \/ DeadLetterDelete(j) PROVE TraceInv'
  BY <1>10 DEF Complete, DeadLetterDelete, DeleteInbox, NoItem, world, TypeOK, HandInv
<1>11. ASSUME NEW j \in Jobs, DeadLetterSave(j) PROVE TraceInv'
  BY <1>11 DEF DeadLetterSave, world, TypeOK, HandInv
<1>12. ASSUME NEW j \in Jobs, Purge(j) \/ SaveActiveFails(j) PROVE TraceInv'
  BY <1>3, <1>12 DEF Purge, SaveActiveFails, world
<1>13. ASSUME NEW j \in Jobs, LoadFails(j) \/ Crash(j) PROVE TraceInv'
  BY <1>13 DEF LoadFails, Abort, Crash, Forget, blobs, world, TypeOK
<1>14. ASSUME NEW j \in Jobs, SaveAttemptFails(j) PROVE TraceInv'
  BY <1>14 DEF SaveAttemptFails, SavedOrNot, Abort, Forget, world, TypeOK, HandInv
<1>15. ASSUME NEW j \in Jobs, DeadLetterSaveFails(j) PROVE TraceInv'
  BY <1>15 DEF DeadLetterSaveFails, SavedOrNot, Abort, Forget, world, TypeOK, HandInv
<1>16. QED
  BY <1>1, <1>2, <1>4, <1>5, <1>6, <1>7, <1>8, <1>9, <1>10, <1>11, <1>12, <1>13,
     <1>14, <1>15
  DEF Next, JobStep, JobFailure, GrowOld, LeaseExpires, vars, blobs, world, locals

---------------------------------------------------------------------------
\* With one process the single-process invariant holds as well.
StepInv == LossInv /\ TraceInv /\ (OneJob => PartsInv)

LEMMA StepInvStep ==
    ASSUME StepInv, [Next]_vars
    PROVE  StepInv'
<1>1. LossInv' /\ TraceInv'
  BY TypeStep, WholeStep, DeleteStep, NoLossStep, TraceStep DEF StepInv, LossInv
<1>2. ASSUME OneJob PROVE PartsInv'
  BY <1>1, <1>2, PartsStep DEF StepInv, LossInv, SingleInv, CoreInv
<1>3. QED
  BY <1>1, <1>2 DEF StepInv, OneJob

LEMMA StepInvInit == Init => StepInv
  BY TypeInit, ReconciliationAssumption
  DEF Init, StepInv, LossInv, WholeInv, DeleteInv, NoLoss, TraceInv, PartsInv, PastInv,
      CopyInv, CountInv, SpentInv, WorkBudget, DeadLetterKeepsOriginal, HoldsMessage,
      NoEntry, NoItem, Holding, Working, Steps

Same(m) == Status(m)' = Status(m)

\* What a step may do to the status of the message it is about.
Moves(m) ==
    \/ Same(m)
    \/ Status(m) = "unknown" /\ Status(m)' = "waiting"
    \/ Status(m) = "waiting" /\ Status(m)' \in {"answered", "set_aside"}
    \/ Status(m) = "set_aside" /\ Status(m)' = "answered" /\ Cardinality(Jobs) # 1

StatusMap == [m \in Msgs |-> Status(m)]

LEMMA OneMove ==
    ASSUME NEW n \in Msgs, Moves(n), \A m \in Msgs \ {n} : Same(m)
    PROVE  [Lifecycle!Next]_StatusMap
<1> DEFINE Becomes(s) == StatusMap' = [StatusMap EXCEPT ![n] = s]
<1>1. Becomes(Status(n)')
  BY DEF StatusMap, Same
<1>2. CASE Same(n)
  BY <1>2 DEF StatusMap, Same
<1>3. CASE Status(n) = "unknown" /\ Status(n)' = "waiting"
  BY <1>1, <1>3 DEF Lifecycle!Next, Lifecycle!Accept, Lifecycle!Become, StatusMap
<1>4. CASE Status(n) = "waiting" /\ Status(n)' \in {"answered", "set_aside"}
  BY <1>1, <1>4
  DEF Lifecycle!Next, Lifecycle!Answer, Lifecycle!SetAside, Lifecycle!Become, StatusMap
<1>5. CASE Status(n) = "set_aside" /\ Status(n)' = "answered" /\ Cardinality(Jobs) # 1
  BY <1>1, <1>5 DEF Lifecycle!Next, Lifecycle!Answer, Lifecycle!Become, StatusMap
<1>6. QED
  BY <1>2, <1>3, <1>4, <1>5 DEF Moves

LEMMA NoMove ==
    ASSUME \A m \in Msgs : Same(m)
    PROVE  [Lifecycle!Next]_StatusMap
  BY DEF StatusMap, Same

LEMMA Alone == Cardinality(Jobs) = 1 => OneJob
  BY FS_Singleton, ReconciliationAssumption DEF OneJob

\* An accepted message has one of three statuses.
LEMMA StatusOfAccepted ==
    ASSUME NoLoss, NEW m \in accepted
    PROVE  /\ m \in answered => Status(m) = "answered"
           /\ m \notin answered /\ HoldsMessage(dlq[m]) => Status(m) = "set_aside"
           /\ m \notin answered /\ ~HoldsMessage(dlq[m]) => Status(m) = "waiting"
  BY DEF NoLoss, Status

LEMMA LifecycleStep ==
    ASSUME StepInv, NoLoss', [Next]_vars
    PROVE  [Lifecycle!Next]_StatusMap
<1> USE DEF StepInv, LossInv
<1>1. CASE UNCHANGED <<inbox, dlq, accepted, answered>>
  BY <1>1, NoMove DEF Same, Status, HoldsMessage
\* The inbox alone changes: an accepted message has the status it had.
<1>2. ASSUME UNCHANGED <<dlq, accepted, answered>>, NEW n \in accepted,
             \A m \in Msgs \ {n} : inbox'[m] = inbox[m]
      PROVE  [Lifecycle!Next]_StatusMap
  <2>1. Same(n)
    BY <1>2, StatusOfAccepted DEF Same, NoLoss, Status, HoldsMessage
  <2>2. \A m \in Msgs \ {n} : Same(m)
    BY <1>2 DEF Same, Status, HoldsMessage
  <2>3. QED
    BY <2>1, <2>2, NoMove
<1>3. ASSUME NEW m \in Msgs, Enqueue(m) PROVE [Lifecycle!Next]_StatusMap
  <2>1. Status(m) = "unknown"
    BY <1>3 DEF Enqueue, Status, TraceInv
  <2>2. Status(m)' = "waiting"
    BY <1>3 DEF Enqueue, Status, TraceInv, HoldsMessage, NewItem, TypeOK
  <2>3. \A n \in Msgs \ {m} : Same(n)
    BY <1>3 DEF Enqueue, Same, Status, HoldsMessage, TypeOK
  <2>4. QED
    BY <2>1, <2>2, <2>3, OneMove DEF Moves
<1>4. ASSUME NEW j \in Jobs, RunPipeline(j) PROVE [Lifecycle!Next]_StatusMap
  <2>1. PICK n \in accepted : n = cur[j]
    BY <1>4 DEF RunPipeline, TraceInv, HandInv, Working, Steps
  <2>2. UNCHANGED <<inbox, dlq, accepted>>
    BY <1>4 DEF RunPipeline, blobs
  <2>3. answered' = answered \/ answered' = answered \cup {n}
    BY <1>4, <2>1 DEF RunPipeline, Sent
  <2>4. HoldsMessage(dlq[n]) => Cardinality(Jobs) # 1
    BY <1>4, <2>1, Alone DEF RunPipeline, PartsInv, SpentInv, HoldsMessage, NoEntry, NoItem
  <2>5. \A m \in Msgs \ {n} : Same(m)
    BY <2>2, <2>3 DEF Same, Status, HoldsMessage
  <2>6. CASE answered' = answered
    BY <1>1, <2>2, <2>6
  <2>7. CASE answered' = answered \cup {n}
    <3>1. Status(n)' = "answered"
      BY <2>7 DEF Status
    <3>2. n \in Msgs
      BY <2>1 DEF TypeOK
    <3>3. Moves(n)
      BY <2>1, <2>4, <3>1, StatusOfAccepted DEF Moves, Same
    <3>4. QED
      BY <2>5, <3>2, <3>3, OneMove
  <2>8. QED
    BY <2>3, <2>6, <2>7
<1>5. ASSUME NEW j \in Jobs, pc[j] = "dl_save",
             dlq' = [dlq EXCEPT ![cur[j]] = DeadLetter(j)],
             UNCHANGED <<inbox, accepted, answered>>
      PROVE  [Lifecycle!Next]_StatusMap
  <2>1. PICK n \in accepted : n = cur[j]
    BY <1>5 DEF TraceInv, Working, Steps
  <2>2. n \in Msgs /\ item[j].whole
    BY <1>5, <2>1 DEF TypeOK, WholeInv, Holding, Working, Steps
  <2>3. HoldsMessage(dlq'[n])
    BY <1>5, <2>1, <2>2 DEF DeadLetter, HoldsMessage, TypeOK
  <2>4. \A m \in Msgs \ {n} : Same(m)
    BY <1>5, <2>1 DEF Same, Status, HoldsMessage, TypeOK
  <2>5. Moves(n)
    <3>1. CASE n \in answered
      BY <1>5, <3>1 DEF Moves, Same, Status
    <3>2. CASE n \notin answered
      <4>1. Status(n)' = "set_aside"
        BY <1>5, <2>3, <3>2 DEF Status
      <4>2. QED
        BY <2>1, <3>2, <4>1, StatusOfAccepted DEF Moves, Same
    <3>3. QED
      BY <3>1, <3>2
  <2>6. QED
    BY <2>2, <2>4, <2>5, OneMove
<1>6. ASSUME NEW j \in Jobs, DeadLetterSave(j) \/ DeadLetterSaveFails(j)
      PROVE  [Lifecycle!Next]_StatusMap
  BY <1>1, <1>5, <1>6 DEF DeadLetterSave, DeadLetterSaveFails, SavedOrNot, world
<1>7. ASSUME NEW j \in Jobs,
             \/ SaveAttempt(j) \/ SaveAttemptFails(j)
             \/ Complete(j) \/ DeadLetterDelete(j)
      PROVE  [Lifecycle!Next]_StatusMap
  <2>1. cur[j] \in accepted
    BY <1>7 DEF SaveAttempt, SaveAttemptFails, Complete, DeadLetterDelete, TraceInv,
                Working, Steps
  <2>2. UNCHANGED <<dlq, accepted, answered>> /\ \A m \in Msgs \ {cur[j]} : inbox'[m] = inbox[m]
    BY <1>7 DEF SaveAttempt, SaveAttemptFails, SavedOrNot, Complete, DeadLetterDelete,
                DeleteInbox, world, TypeOK
  <2>3. QED
    BY <1>2, <2>1, <2>2
<1>8. QED
  BY <1>1, <1>3, <1>4, <1>6, <1>7
  DEF Next, JobStep, JobFailure, vars, blobs, world, GrowOld, LeaseExpires, StartCycle,
      Visit, LeaseWorkItem, SaveActive, DeadLetterLoad, Purge, SaveActiveFails, LoadFails,
      Crash

\* Every behaviour of the jobs is, message by message, one of the lifecycle; with
\* one process an answer never comes late.
THEOREM JobsFollowLifecycle == Spec => FollowsLifecycle
<1>1. Init => Lifecycle!Init
  BY DEF Init, Lifecycle!Init, Status, HoldsMessage, NoEntry, NoItem
<1>2. StepInv /\ StepInv' /\ [Next]_vars => [Lifecycle!Next]_StatusMap
  BY LifecycleStep DEF StepInv, LossInv
<1>3. QED
  BY <1>1, <1>2, StepInvInit, StepInvStep, PTL
  DEF Spec, FollowsLifecycle, Lifecycle!SafeSpec, StatusMap

---------------------------------------------------------------------------
(* The work of any number of processes, with the default of 3 retries. A   *)
(* process that loaded a count of 1 saves a 2, over whatever is there; the *)
(* processes that load this 2 execute the pipeline once more, each.        *)

\* The processes that have leased m at a count of k and not yet counted the attempt,
\* and those that have counted one and not yet made it.
Loaded(m, k) ==
    {j \in Jobs : pc[j] \in {"envelope", "attempt"} /\ cur[j] = m /\ item[j].attempt = k}
Running(m) == {j \in Jobs : pc[j] = "pipeline" /\ cur[j] = m}

Triangle(x) == (x * (x + 1)) \div 2

\* With n processes, a count of a in the inbox, e executions made and p about to be,
\* h1 processes that loaded a 1 and h2 that loaded a 2. Nothing happened to a message
\* that still counts 1. Otherwise each of the h1 processes can make one attempt itself
\* and bring a 2 back, for the processes that do not hold a 1 any more: n - h1 of them
\* now, one more after each such save.
Balance(n, a, e, p, h1, h2) ==
    IF a = 1 THEN e = 0 /\ p = 0 /\ h2 = 0
    ELSE IF a = 2 THEN e + p + h1 <= n + Triangle((n - h1) - 1)
    ELSE e + p + h1 + h2 <= n + Triangle(n - h1)

LEMMA TriangleStep ==
    ASSUME NEW x \in Nat
    PROVE  /\ Triangle(x) \in Nat /\ Triangle(x - 1) \in Nat
           /\ Triangle(x) = Triangle(x - 1) + x
<1>1. x * (x + 1) = (x - 1) * ((x - 1) + 1) + 2 * x
  OBVIOUS
<1>2. (x - 1) * ((x - 1) + 1) \in Nat
  <2>1. CASE x = 0
    BY <2>1
  <2>2. CASE x # 0
    BY <2>2
  <2>3. QED
    BY <2>1, <2>2
<1>3. ASSUME NEW u \in Nat PROVE u \div 2 \in Nat /\ (u + 2 * x) \div 2 = (u \div 2) + x
  OBVIOUS
<1>4. QED
  BY <1>1, <1>2, <1>3 DEF Triangle

LEMMA TriangleGrows ==
    ASSUME NEW x \in Int, -1 <= x, NEW y \in Int, x <= y
    PROVE  Triangle(x) \in Nat /\ Triangle(y) \in Nat /\ Triangle(x) <= Triangle(y)
<1>1. Triangle(x) \in Nat /\ Triangle(y) \in Nat
  <2>1. \A z \in Nat : Triangle(z - 1) \in Nat
    BY TriangleStep
  <2>2. x + 1 \in Nat /\ y + 1 \in Nat /\ x = (x + 1) - 1 /\ y = (y + 1) - 1
    OBVIOUS
  <2>3. QED
    BY <2>1, <2>2
<1>2. y * (y + 1) - x * (x + 1) = (y - x) * (y + x + 1)
  OBVIOUS
<1>3. CASE x = y
  BY <1>1, <1>3
<1>4. CASE x < y
  <2>1. y - x \in Nat /\ y + x + 1 \in Nat
    BY <1>4
  <2>2. (y - x) * (y + x + 1) \in Nat
    BY <2>1
  <2>3. x * (x + 1) \in Int /\ y * (y + 1) \in Int /\ x * (x + 1) <= y * (y + 1)
    BY <1>2, <2>2
  <2>4. \A u, v \in Int : u <= v => u \div 2 <= v \div 2
    OBVIOUS
  <2>5. QED
    BY <1>1, <2>3, <2>4 DEF Triangle
<1>5. QED
  BY <1>3, <1>4

\* What the terms of a balance are, and how they change with h1.
LEMMA Triangles ==
    ASSUME NEW n \in Nat, NEW h \in Nat, h <= n
    PROVE  /\ Triangle((n - h) - 1) \in Nat /\ Triangle(n - h) \in Nat /\ Triangle(n) \in Nat
           /\ Triangle(n - h) = Triangle((n - h) - 1) + (n - h)
           /\ Triangle((n - h) - 1) <= Triangle(n) /\ Triangle(n - h) <= Triangle(n)
<1>1. /\ n - h \in Nat /\ (n - h) - 1 \in Int /\ n - h \in Int /\ n \in Int
      /\ -1 <= (n - h) - 1 /\ (n - h) - 1 <= n /\ -1 <= n - h /\ n - h <= n
  OBVIOUS
<1>2. QED
  BY <1>1, TriangleStep, TriangleGrows

LEMMA FewerHolders ==
    ASSUME NEW n \in Nat, NEW h \in Nat, h <= n, NEW g \in Nat, g <= h
    PROVE  /\ Triangle((n - h) - 1) <= Triangle((n - g) - 1)
           /\ Triangle(n - h) <= Triangle(n - g)
<1>1. /\ (n - h) - 1 \in Int /\ (n - g) - 1 \in Int /\ n - h \in Int /\ n - g \in Int
      /\ -1 <= (n - h) - 1 /\ (n - h) - 1 <= (n - g) - 1 /\ -1 <= n - h /\ n - h <= n - g
  OBVIOUS
<1>2. QED
  BY <1>1, TriangleGrows

Rounds(m) ==
    Balance(Cardinality(Jobs), inbox[m].attempt, executions[m], Cardinality(Running(m)),
            Cardinality(Loaded(m, 1)), Cardinality(Loaded(m, 2)))

RoundsInv == \A m \in Msgs : Rounds(m)

\* Every count is at least 1, and what was not accepted was not executed.
AttemptInv ==
    /\ \A m \in Msgs : inbox[m] # NoItem => inbox[m].attempt # 0
    /\ \A j \in Jobs : pc[j] \in {"envelope", "attempt"} => item[j].attempt # 0
    /\ \A m \in Msgs \ accepted : executions[m] = 0

FleetInv == TypeOK /\ HandInv /\ WholeInv /\ TraceInv /\ AttemptInv /\ RoundsInv

\* Two groups of processes that have none in common.
LEMMA JobGroups ==
    ASSUME NEW S \in SUBSET Jobs, NEW T \in SUBSET Jobs, S \cap T = {}
    PROVE  /\ IsFiniteSet(S) /\ IsFiniteSet(T)
           /\ Cardinality(S) \in Nat /\ Cardinality(T) \in Nat /\ Cardinality(Jobs) \in Nat
           /\ Cardinality(S) + Cardinality(T) <= Cardinality(Jobs)
<1>1. IsFiniteSet(S) /\ IsFiniteSet(T)
  BY FS_Subset, ReconciliationAssumption
<1>2. Cardinality(S \cup T) <= Cardinality(Jobs)
  BY FS_Subset, ReconciliationAssumption
<1>3. Cardinality(S \cup T) = Cardinality(S) + Cardinality(T) - Cardinality(S \cap T)
  BY <1>1, FS_Union
<1>4. Cardinality(S \cap T) = 0
  BY FS_EmptySet
<1>5. Cardinality(S) \in Nat /\ Cardinality(T) \in Nat /\ Cardinality(Jobs) \in Nat
  BY <1>1, FS_CardinalityType, ReconciliationAssumption
<1> QED
  BY <1>1, <1>2, <1>3, <1>4, <1>5

LEMMA OneJoins ==
    ASSUME NEW S, IsFiniteSet(S), NEW x
    PROVE  /\ Cardinality(S) \in Nat
           /\ x \notin S => Cardinality(S \cup {x}) = Cardinality(S) + 1
           /\ x \in S => Cardinality(S) = Cardinality(S \ {x}) + 1
           /\ Cardinality(S \ {x}) \in Nat /\ Cardinality(S \cup {x}) \in Nat
           /\ Cardinality(S \cup {x}) <= Cardinality(S) + 1
BY FS_CardinalityType, FS_AddElement, FS_RemoveElement

LEMMA CountTypes ==
    ASSUME TypeOK, NEW m \in Msgs
    PROVE  /\ IsFiniteSet(Loaded(m, 1)) /\ IsFiniteSet(Loaded(m, 2)) /\ IsFiniteSet(Running(m))
           /\ Cardinality(Loaded(m, 1)) \in Nat /\ Cardinality(Loaded(m, 2)) \in Nat
           /\ Cardinality(Running(m)) \in Nat /\ Cardinality(Jobs) \in Nat
           /\ Cardinality(Loaded(m, 1)) + Cardinality(Loaded(m, 2)) <= Cardinality(Jobs)
           /\ inbox[m].attempt \in Nat /\ executions[m] \in Nat
<1>1. Loaded(m, 1) \subseteq Jobs /\ Loaded(m, 2) \subseteq Jobs /\ Running(m) \subseteq Jobs
      /\ Loaded(m, 1) \cap Loaded(m, 2) = {} /\ Running(m) \cap {} = {}
  BY DEF Loaded, Running
<1>2. IsFiniteSet(Running(m)) /\ Cardinality(Running(m)) \in Nat
  BY <1>1, JobGroups
<1>3. inbox[m].attempt \in Nat /\ executions[m] \in Nat
  BY ItemTypes DEF TypeOK
<1> QED
  BY <1>1, <1>2, <1>3, JobGroups

\* A step that lets nobody load m and nobody count an attempt on it.
LEMMA RoundsShrink ==
    ASSUME TypeOK, NEW m \in Msgs, Rounds(m), executions'[m] = executions[m],
           inbox'[m].attempt \in {inbox[m].attempt, 0},
           Running(m)' \subseteq Running(m), \A k \in {1, 2} : Loaded(m, k)' \subseteq Loaded(m, k)
    PROVE  Rounds(m)'
<1>1. /\ IsFiniteSet(Running(m)') /\ Cardinality(Running(m)') <= Cardinality(Running(m))
      /\ IsFiniteSet(Loaded(m, 1)') /\ Cardinality(Loaded(m, 1)') <= Cardinality(Loaded(m, 1))
      /\ IsFiniteSet(Loaded(m, 2)') /\ Cardinality(Loaded(m, 2)') <= Cardinality(Loaded(m, 2))
  BY CountTypes, FS_Subset
<1>2. /\ Cardinality(Running(m)') \in Nat /\ Cardinality(Loaded(m, 1)') \in Nat
      /\ Cardinality(Loaded(m, 2)') \in Nat
  BY <1>1, FS_CardinalityType
<1>3. /\ Cardinality(Loaded(m, 1)) \in Nat /\ Cardinality(Loaded(m, 2)) \in Nat
      /\ Cardinality(Running(m)) \in Nat /\ Cardinality(Jobs) \in Nat
      /\ Cardinality(Loaded(m, 1)) + Cardinality(Loaded(m, 2)) <= Cardinality(Jobs)
      /\ inbox[m].attempt \in Nat /\ executions[m] \in Nat
  BY CountTypes
<1>4. Balance(Cardinality(Jobs), inbox[m].attempt, executions[m], Cardinality(Running(m)),
              Cardinality(Loaded(m, 1)), Cardinality(Loaded(m, 2)))
  BY DEF Rounds
<1>5. Balance(Cardinality(Jobs), inbox'[m].attempt, executions[m], Cardinality(Running(m)'),
              Cardinality(Loaded(m, 1)'), Cardinality(Loaded(m, 2)'))
  <2> DEFINE n == Cardinality(Jobs)
             h == Cardinality(Loaded(m, 1))
             g == Cardinality(Loaded(m, 1)')
  <2>1. n \in Nat /\ h \in Nat /\ g \in Nat /\ h <= n /\ g <= n /\ g <= h
    BY <1>1, <1>2, <1>3
  <2>2. /\ Triangle((n - h) - 1) \in Nat /\ Triangle(n - h) \in Nat
        /\ Triangle((n - g) - 1) \in Nat /\ Triangle(n - g) \in Nat
        /\ Triangle(n - g) = Triangle((n - g) - 1) + (n - g)
        /\ Triangle((n - h) - 1) <= Triangle((n - g) - 1)
        /\ Triangle(n - h) <= Triangle(n - g)
    BY <2>1, Triangles, FewerHolders
  <2>3. QED
    BY <1>1, <1>2, <1>3, <1>4, <2>1, <2>2 DEF Balance
<1> QED
  BY <1>5 DEF Rounds

\* One process moves; the others stay in the groups they are in.
LEMMA GroupsMove ==
    ASSUME NEW j \in Jobs, NEW m \in Msgs,
           \A i \in Jobs \ {j} : pc'[i] = pc[i] /\ cur'[i] = cur[i] /\ item'[i] = item[i]
    PROVE  /\ Loaded(m, 1)' =
                IF pc'[j] \in {"envelope", "attempt"} /\ cur'[j] = m /\ item'[j].attempt = 1
                THEN Loaded(m, 1) \cup {j} ELSE Loaded(m, 1) \ {j}
           /\ Loaded(m, 2)' =
                IF pc'[j] \in {"envelope", "attempt"} /\ cur'[j] = m /\ item'[j].attempt = 2
                THEN Loaded(m, 2) \cup {j} ELSE Loaded(m, 2) \ {j}
           /\ Running(m)' = IF pc'[j] = "pipeline" /\ cur'[j] = m
                            THEN Running(m) \cup {j} ELSE Running(m) \ {j}
BY DEF Loaded, Running

\* A process loads the count that is in the inbox.
LEMMA RoundsLoad ==
    ASSUME TypeOK, NEW m \in Msgs, NEW j \in Jobs, Rounds(m), inbox[m].attempt # 0,
           UNCHANGED <<inbox, executions>>, pc[j] = "lease", cur'[j] = m,
           pc'[j] = "envelope", item'[j] = inbox[m],
           \A i \in Jobs \ {j} : pc'[i] = pc[i] /\ cur'[i] = cur[i] /\ item'[i] = item[i]
    PROVE  Rounds(m)'
<1>1. j \notin Loaded(m, 1) /\ j \notin Loaded(m, 2) /\ j \notin Running(m)
  BY DEF Loaded, Running
<1>2. Running(m)' = Running(m)
  BY <1>1, GroupsMove
<1>3. Loaded(m, 1)' = IF inbox[m].attempt = 1 THEN Loaded(m, 1) \cup {j} ELSE Loaded(m, 1)
  BY <1>1, GroupsMove
<1>4. Loaded(m, 2)' = IF inbox[m].attempt = 2 THEN Loaded(m, 2) \cup {j} ELSE Loaded(m, 2)
  <2>1. Loaded(m, 2)' = IF item'[j].attempt = 2 THEN Loaded(m, 2) \cup {j}
                        ELSE Loaded(m, 2) \ {j}
    BY GroupsMove
  <2>2. QED
    BY <1>1, <2>1
<1>5. /\ inbox[m].attempt # 1 => Cardinality(Loaded(m, 1)') = Cardinality(Loaded(m, 1))
      /\ inbox[m].attempt # 2 => Cardinality(Loaded(m, 2)') = Cardinality(Loaded(m, 2))
  BY <1>3, <1>4
<1>6. Balance(Cardinality(Jobs), inbox[m].attempt, executions[m], Cardinality(Running(m)),
              Cardinality(Loaded(m, 1)'), Cardinality(Loaded(m, 2)'))
  BY <1>5 DEF Rounds, Balance
<1>7. QED
  BY <1>2, <1>6 DEF Rounds

\* A process that loaded k saves k + 1, and goes on to the pipeline, or dies of it.
LEMMA RoundsSave ==
    ASSUME TypeOK, NEW m \in Msgs, NEW j \in Jobs, Rounds(m), UNCHANGED executions,
           pc[j] = "attempt", cur[j] = m, pc'[j] \in {"pipeline", "idle"},
           item[j].attempt \in {1, 2}, inbox'[m].attempt = item[j].attempt + 1,
           \A i \in Jobs \ {j} : pc'[i] = pc[i] /\ cur'[i] = cur[i] /\ item'[i] = item[i]
    PROVE  Rounds(m)'
<1> DEFINE n == Cardinality(Jobs)
           p == Cardinality(Running(m))
           h1 == Cardinality(Loaded(m, 1))
           h2 == Cardinality(Loaded(m, 2))
           q == Cardinality(Running(m)')
           g1 == Cardinality(Loaded(m, 1)')
           g2 == Cardinality(Loaded(m, 2)')
<1>1. Loaded(m, 1)' = Loaded(m, 1) \ {j} /\ Loaded(m, 2)' = Loaded(m, 2) \ {j}
  BY GroupsMove
<1>2. Running(m)' = Running(m) \cup {j} \/ Running(m)' = Running(m) \ {j}
  BY GroupsMove
<1>3. /\ n \in Nat /\ p \in Nat /\ h1 \in Nat /\ h2 \in Nat /\ h1 + h2 <= n /\ h1 <= n
      /\ executions[m] \in Nat /\ inbox[m].attempt \in Nat
      /\ IsFiniteSet(Running(m)) /\ IsFiniteSet(Loaded(m, 1)) /\ IsFiniteSet(Loaded(m, 2))
  BY CountTypes
<1>4. q \in Nat /\ q <= p + 1
  <2>1. CASE Running(m)' = Running(m) \cup {j}
    BY <1>3, <2>1, OneJoins
  <2>2. CASE Running(m)' = Running(m) \ {j}
    BY <1>3, <2>2, FS_Subset, FS_CardinalityType
  <2>3. QED
    BY <1>2, <2>1, <2>2
<1>5. Balance(n, inbox[m].attempt, executions[m], p, h1, h2)
  BY DEF Rounds
<1>6. /\ Triangle((n - h1) - 1) \in Nat /\ Triangle(n - h1) \in Nat
      /\ Triangle(n - h1) = Triangle((n - h1) - 1) + (n - h1)
  BY <1>3, Triangles, SMTT(30)
<1>7. CASE item[j].attempt = 1
  <2>1. j \in Loaded(m, 1) /\ j \notin Loaded(m, 2)
    BY <1>7 DEF Loaded
  <2>2. g1 \in Nat /\ h1 = g1 + 1 /\ Loaded(m, 2)' = Loaded(m, 2)
    <3>1. Loaded(m, 2)' = Loaded(m, 2) /\ Loaded(m, 1)' = Loaded(m, 1) \ {j}
      BY <1>1, <2>1
    <3>2. QED
      BY <1>3, <2>1, <3>1, OneJoins
  <2>3. (n - g1) - 1 = n - h1
    BY <1>3, <2>2
  <2>4. executions[m] + q + g1 <= n + Triangle((n - g1) - 1)
    BY <1>3, <1>4, <1>5, <1>6, <2>2, <2>3 DEF Balance
  <2>5. Balance(n, 2, executions[m], q, g1, g2)
    BY <2>4 DEF Balance
  <2>6. QED
    BY <1>7, <2>5 DEF Rounds
<1>8. CASE item[j].attempt = 2
  <2>1. j \in Loaded(m, 2) /\ j \notin Loaded(m, 1)
    BY <1>8 DEF Loaded
  <2>2. g2 \in Nat /\ h2 = g2 + 1 /\ Loaded(m, 1)' = Loaded(m, 1)
    <3>1. Loaded(m, 1)' = Loaded(m, 1) /\ Loaded(m, 2)' = Loaded(m, 2) \ {j}
      BY <1>1, <2>1, SMTT(30)
    <3>2. QED
      BY <1>3, <2>1, <3>1, OneJoins
  <2>3. g1 = h1
    BY <2>2
  <2>4. executions[m] + q + h1 + g2 <= n + Triangle(n - h1)
    BY <1>3, <1>4, <1>5, <1>6, <2>2 DEF Balance
  <2>5. Balance(n, 3, executions[m], q, g1, g2)
    BY <2>3, <2>4 DEF Balance
  <2>6. QED
    BY <1>8, <2>5 DEF Rounds
<1>9. QED
  BY <1>7, <1>8

\* An attempt that was counted is made.
LEMMA RoundsRun ==
    ASSUME TypeOK, NEW m \in Msgs, NEW j \in Jobs, Rounds(m), UNCHANGED inbox,
           executions'[m] = executions[m] + 1, pc[j] = "pipeline", cur[j] = m,
           pc'[j] \notin {"envelope", "attempt", "pipeline"},
           \A i \in Jobs \ {j} : pc'[i] = pc[i] /\ cur'[i] = cur[i] /\ item'[i] = item[i]
    PROVE  Rounds(m)'
<1> DEFINE n == Cardinality(Jobs)
           p == Cardinality(Running(m))
           h1 == Cardinality(Loaded(m, 1))
           h2 == Cardinality(Loaded(m, 2))
           q == Cardinality(Running(m)')
<1>1. Loaded(m, 1)' = Loaded(m, 1) /\ Loaded(m, 2)' = Loaded(m, 2)
  BY GroupsMove DEF Loaded
<1>2. Running(m)' = Running(m) \ {j} /\ j \in Running(m)
  BY GroupsMove DEF Running
<1>3. /\ n \in Nat /\ p \in Nat /\ h1 \in Nat /\ h2 \in Nat /\ h1 + h2 <= n /\ h1 <= n
      /\ executions[m] \in Nat /\ IsFiniteSet(Running(m))
  BY CountTypes
<1>4. q \in Nat /\ p = q + 1
  BY <1>2, <1>3, OneJoins
<1>5. Balance(n, inbox[m].attempt, executions[m], p, h1, h2)
  BY DEF Rounds
<1>6. Triangle((n - h1) - 1) \in Nat /\ Triangle(n - h1) \in Nat
  BY <1>3, Triangles
<1>7. Balance(n, inbox[m].attempt, executions[m] + 1, q, h1, h2)
  BY <1>3, <1>4, <1>5, <1>6 DEF Balance
<1>8. QED
  BY <1>1, <1>7 DEF Rounds

LEMMA AttemptStep ==
    ASSUME TypeOK, HandInv, TraceInv, AttemptInv, [Next]_vars
    PROVE  AttemptInv'
<1> USE DEF AttemptInv, Goto
<1>1. CASE UNCHANGED <<inbox, accepted, executions, pc, item>>
  BY <1>1
<1>2. ASSUME NEW m \in Msgs, Enqueue(m) PROVE AttemptInv'
  BY <1>2 DEF Enqueue, NewItem, TypeOK, locals
<1>3. ASSUME NEW j \in Jobs, pc'[j] \notin {"envelope", "attempt"},
             \A i \in Jobs \ {j} : pc'[i] = pc[i] /\ item'[i] = item[i],
             UNCHANGED <<accepted, executions>>,
             \A m \in Msgs : inbox'[m] = inbox[m] \/ inbox'[m] = NoItem \/ inbox'[m].attempt # 0
      PROVE  AttemptInv'
  BY <1>3
<1>4. ASSUME NEW j \in Jobs, NEW rest, NextMessage(j, rest),
             UNCHANGED <<inbox, accepted, executions>>
      PROVE  AttemptInv'
  BY <1>3, <1>4, NextMessageEffect
<1>5. ASSUME NEW j \in Jobs, NEW m \in Msgs, Visit(j, m) PROVE AttemptInv'
  BY <1>3, <1>4, <1>5 DEF Visit, blobs, world, TypeOK
<1>6. ASSUME NEW j \in Jobs, LeaseWorkItem(j) PROVE AttemptInv'
  <2>1. CASE NextMessage(j, todo[j])
    BY <1>4, <1>6, <2>1 DEF LeaseWorkItem, blobs, world
  <2>2. CASE CanLease(j, cur[j]) /\ item' = [item EXCEPT ![j] = inbox[cur[j]]]
             /\ Goto(j, "envelope")
    <3>1. cur[j] \in Msgs
      BY <1>6 DEF LeaseWorkItem, HandInv, Working, Steps
    <3>2. QED
      BY <1>6, <2>2, <3>1 DEF LeaseWorkItem, CanLease, blobs, world, TypeOK
  <2>3. QED
    BY <1>6, <2>1, <2>2 DEF LeaseWorkItem
<1>7. ASSUME NEW j \in Jobs, SaveActive(j) PROVE AttemptInv'
  BY <1>7 DEF SaveActive, world, TypeOK
<1>8. ASSUME NEW j \in Jobs, SaveAttempt(j) \/ SaveAttemptFails(j) PROVE AttemptInv'
  <2>1. Counted(j).attempt # 0
    BY ItemTypes DEF Counted, TypeOK
  <2>2. inbox' = inbox \/ inbox' = [inbox EXCEPT ![cur[j]] = Counted(j)]
    BY <1>8 DEF SaveAttempt, SaveAttemptFails, SavedOrNot
  <2>3. \A m \in Msgs : inbox'[m] = inbox[m] \/ inbox'[m].attempt # 0
    BY <2>1, <2>2 DEF TypeOK
  <2>4. /\ pc'[j] \notin {"envelope", "attempt"} /\ UNCHANGED <<accepted, executions>>
        /\ \A i \in Jobs \ {j} : pc'[i] = pc[i] /\ item'[i] = item[i]
    BY <1>8 DEF SaveAttempt, SaveAttemptFails, Abort, Forget, world, TypeOK
  <2>5. QED
    BY <1>3, <2>3, <2>4
<1>9. ASSUME NEW j \in Jobs, RunPipeline(j) PROVE AttemptInv'
  BY <1>9 DEF RunPipeline, blobs, TypeOK, TraceInv, Working, Steps
<1>10. ASSUME NEW j \in Jobs, Complete(j) \/ DeadLetterDelete(j) PROVE AttemptInv'
  BY <1>3, <1>10 DEF Complete, DeadLetterDelete, DeleteInbox, world, TypeOK
<1>11. ASSUME NEW j \in Jobs,
              \/ StartCycle(j) \/ DeadLetterLoad(j) \/ DeadLetterSave(j)
              \/ LoadFails(j) \/ DeadLetterSaveFails(j) \/ Crash(j)
       PROVE  AttemptInv'
  BY <1>3, <1>11 DEF StartCycle, DeadLetterLoad, DeadLetterSave, LoadFails,
       DeadLetterSaveFails, Abort, Crash, Forget, blobs, world, TypeOK
<1>12. ASSUME NEW j \in Jobs, Purge(j) \/ SaveActiveFails(j) PROVE AttemptInv'
  BY <1>4, <1>12 DEF Purge, SaveActiveFails, world
<1>13. QED
  BY <1>1, <1>2, <1>5, <1>6, <1>7, <1>8, <1>9, <1>10, <1>11, <1>12
  DEF Next, JobStep, JobFailure, GrowOld, LeaseExpires, vars, blobs, world, locals

LEMMA RoundsStep ==
    ASSUME MaxRetries = 3, FleetInv, [Next]_vars, NEW m \in Msgs
    PROVE  Rounds(m)'
<1> USE DEF FleetInv, Goto
<1>1. Rounds(m)
  BY DEF RoundsInv
\* Nothing happens to m: whoever is in one of the groups afterwards was there before.
<1>2. ASSUME executions'[m] = executions[m], inbox'[m].attempt \in {inbox[m].attempt, 0},
             \A i \in Jobs : pc'[i] \in {"envelope", "attempt", "pipeline"} /\ cur'[i] = m =>
                /\ pc[i] = pc'[i] \/ (pc[i] = "envelope" /\ pc'[i] = "attempt")
                /\ cur[i] = m /\ item[i] = item'[i]
      PROVE  Rounds(m)'
  <2>1. Running(m)' \subseteq Running(m) /\ \A k \in {1, 2} : Loaded(m, k)' \subseteq Loaded(m, k)
    BY <1>2 DEF Running, Loaded
  <2>2. QED
    BY <1>1, <1>2, <2>1, RoundsShrink
<1>3. CASE UNCHANGED <<inbox, executions, pc, cur, item>>
  BY <1>2, <1>3
<1>4. ASSUME NEW j \in Jobs, pc'[j] \notin {"envelope", "attempt", "pipeline"} \/ cur'[j] # m,
             \A i \in Jobs \ {j} : pc'[i] = pc[i] /\ cur'[i] = cur[i] /\ item'[i] = item[i],
             executions'[m] = executions[m], inbox'[m].attempt \in {inbox[m].attempt, 0}
      PROVE  Rounds(m)'
  BY <1>2, <1>4
<1>5. ASSUME NEW j \in Jobs, NEW rest, NextMessage(j, rest), UNCHANGED <<inbox, executions>>
      PROVE  Rounds(m)'
  BY <1>4, <1>5, NextMessageEffect
<1>6. ASSUME NEW n \in Msgs, Enqueue(n) PROVE Rounds(m)'
  <2>1. CASE n # m
    BY <1>2, <1>6, <2>1 DEF Enqueue, TypeOK, locals
  <2>2. CASE n = m
    <3>1. executions[m] = 0 /\ Running(m) = {} /\ Loaded(m, 2) = {}
      BY <1>6, <2>2 DEF Enqueue, TraceInv, AttemptInv, Running, Loaded, Working, Steps
    <3>2. executions'[m] = 0 /\ Running(m)' = {} /\ Loaded(m, 2)' = {} /\ inbox'[m].attempt = 1
      BY <1>6, <2>2, <3>1 DEF Enqueue, NewItem, TypeOK, Running, Loaded, locals
    <3>3. Cardinality({}) = 0
      BY FS_EmptySet
    <3>4. QED
      BY <3>2, <3>3 DEF Rounds, Balance
  <2>3. QED
    BY <2>1, <2>2
<1>7. ASSUME NEW j \in Jobs, NEW n \in Msgs, Visit(j, n) PROVE Rounds(m)'
  BY <1>4, <1>5, <1>7 DEF Visit, blobs, world, TypeOK
<1>8. ASSUME NEW j \in Jobs, LeaseWorkItem(j) PROVE Rounds(m)'
  <2>1. CASE NextMessage(j, todo[j])
    BY <1>5, <1>8, <2>1 DEF LeaseWorkItem, blobs, world
  <2>2. CASE CanLease(j, cur[j]) /\ item' = [item EXCEPT ![j] = inbox[cur[j]]]
             /\ Goto(j, "envelope") /\ UNCHANGED cur
    <3>1. /\ UNCHANGED <<inbox, executions>> /\ pc[j] = "lease" /\ pc'[j] = "envelope"
          /\ cur'[j] = cur[j] /\ item'[j] = inbox[cur[j]] /\ inbox[cur[j]] # NoItem
          /\ \A i \in Jobs \ {j} : pc'[i] = pc[i] /\ cur'[i] = cur[i] /\ item'[i] = item[i]
      BY <1>8, <2>2 DEF LeaseWorkItem, CanLease, blobs, world, TypeOK
    <3>2. CASE cur[j] = m
      <4>1. inbox[m].attempt # 0
        BY <3>1, <3>2 DEF AttemptInv
      <4>2. QED
        BY <1>1, <3>1, <3>2, <4>1, RoundsLoad
    <3>3. CASE cur[j] # m
      BY <1>4, <3>1, <3>3
    <3>4. QED
      BY <3>2, <3>3
  <2>3. QED
    BY <1>8, <2>1, <2>2 DEF LeaseWorkItem
<1>9. ASSUME NEW j \in Jobs, SaveActive(j) PROVE Rounds(m)'
  BY <1>2, <1>9 DEF SaveActive, world, TypeOK
<1>10. ASSUME NEW j \in Jobs, SaveAttempt(j) \/ SaveAttemptFails(j) PROVE Rounds(m)'
  <2>1. /\ pc[j] = "attempt" /\ pc'[j] \in {"pipeline", "idle"} /\ UNCHANGED executions
        /\ \A i \in Jobs \ {j} : pc'[i] = pc[i] /\ cur'[i] = cur[i] /\ item'[i] = item[i]
    BY <1>10 DEF SaveAttempt, SaveAttemptFails, Abort, Forget, world, TypeOK
  <2>2. \/ inbox' = inbox /\ pc'[j] = "idle"
        \/ inbox' = [inbox EXCEPT ![cur[j]] = Counted(j)]
    BY <1>10 DEF SaveAttempt, SaveAttemptFails, SavedOrNot, Abort, TypeOK
  <2>3. pc'[j] = "pipeline" => cur'[j] = cur[j]
    BY <1>10 DEF SaveAttempt, SaveAttemptFails, Abort, TypeOK
  <2>4. CASE inbox' = inbox /\ pc'[j] = "idle"
    BY <1>4, <2>1, <2>4
  <2>5. CASE inbox' = [inbox EXCEPT ![cur[j]] = Counted(j)] /\ cur[j] # m
    BY <1>4, <2>1, <2>3, <2>5 DEF TypeOK
  <2>6. CASE inbox' = [inbox EXCEPT ![cur[j]] = Counted(j)] /\ cur[j] = m
    <3>1. item[j].attempt \in {1, 2}
      <4>1. item[j].attempt \in Nat /\ item[j].attempt # 0 /\ item[j].attempt < MaxRetries
        BY <2>1, ItemTypes DEF AttemptInv, HandInv, TypeOK
      <4>2. QED
        BY <4>1
    <3>2. inbox'[m].attempt = item[j].attempt + 1
      BY <2>6 DEF Counted, TypeOK
    <3>3. QED
      BY <1>1, <2>1, <2>6, <3>1, <3>2, RoundsSave
  <2>7. QED
    BY <2>2, <2>4, <2>5, <2>6
<1>11. ASSUME NEW j \in Jobs, RunPipeline(j) PROVE Rounds(m)'
  <2>1. /\ pc[j] = "pipeline" /\ pc'[j] \notin {"envelope", "attempt", "pipeline"}
        /\ UNCHANGED <<inbox, cur>> /\ executions' = [executions EXCEPT ![cur[j]] = @ + 1]
        /\ \A i \in Jobs \ {j} : pc'[i] = pc[i] /\ cur'[i] = cur[i] /\ item'[i] = item[i]
    BY <1>11 DEF RunPipeline, blobs, TypeOK
  <2>2. CASE cur[j] = m
    <3>1. executions'[m] = executions[m] + 1
      BY <2>1, <2>2 DEF TypeOK
    <3>2. QED
      BY <1>1, <2>1, <2>2, <3>1, RoundsRun
  <2>3. CASE cur[j] # m
    BY <1>4, <2>1, <2>3 DEF TypeOK
  <2>4. QED
    BY <2>2, <2>3
<1>12. ASSUME NEW j \in Jobs, Complete(j) \/ DeadLetterDelete(j) PROVE Rounds(m)'
  <2>1. inbox'[m].attempt \in {inbox[m].attempt, 0}
    BY <1>12 DEF Complete, DeadLetterDelete, DeleteInbox, NoItem, TypeOK
  <2>2. QED
    BY <1>4, <1>12, <2>1 DEF Complete, DeadLetterDelete, world, TypeOK
<1>13. ASSUME NEW j \in Jobs,
              \/ StartCycle(j) \/ DeadLetterLoad(j) \/ DeadLetterSave(j)
              \/ LoadFails(j) \/ DeadLetterSaveFails(j) \/ Crash(j)
       PROVE  Rounds(m)'
  BY <1>4, <1>13 DEF StartCycle, DeadLetterLoad, DeadLetterSave, LoadFails,
       DeadLetterSaveFails, Abort, Crash, Forget, blobs, world, TypeOK
<1>14. ASSUME NEW j \in Jobs, Purge(j) \/ SaveActiveFails(j) PROVE Rounds(m)'
  BY <1>5, <1>14 DEF Purge, SaveActiveFails, world
<1>15. QED
  BY <1>3, <1>6, <1>7, <1>8, <1>9, <1>10, <1>11, <1>12, <1>13, <1>14
  DEF Next, JobStep, JobFailure, GrowOld, LeaseExpires, vars, blobs, world, locals

LEMMA FleetInit == Init => FleetInv
<1> SUFFICES ASSUME Init PROVE FleetInv
  OBVIOUS
<1>1. TypeOK /\ HandInv /\ WholeInv /\ TraceInv
  BY StepInvInit DEF StepInv, LossInv
<1>2. AttemptInv
  BY DEF Init, AttemptInv
<1>3. ASSUME NEW m \in Msgs PROVE Rounds(m)
  <2>1. Running(m) = {} /\ Loaded(m, 1) = {} /\ Loaded(m, 2) = {} /\ Cardinality({}) = 0
    BY FS_EmptySet DEF Init, Running, Loaded
  <2>2. Cardinality(Jobs) \in Nat
    BY FS_CardinalityType, ReconciliationAssumption
  <2>3. Triangle(Cardinality(Jobs) - 0) \in Nat
    BY <2>2, Triangles
  <2>4. Balance(Cardinality(Jobs), 0, 0, 0, 0, 0)
    BY <2>2, <2>3 DEF Balance
  <2>5. inbox[m].attempt = 0 /\ executions[m] = 0
    BY DEF Init, NoItem
  <2>6. QED
    BY <2>1, <2>4, <2>5 DEF Rounds
<1>4. QED
  BY <1>1, <1>2, <1>3 DEF FleetInv, RoundsInv

LEMMA FleetStep == MaxRetries = 3 /\ FleetInv /\ [Next]_vars => FleetInv'
  BY TypeStep, WholeStep, TraceStep, AttemptStep, RoundsStep DEF FleetInv, RoundsInv

LEMMA FleetBound == FleetInv => FleetWorkBound
<1> SUFFICES ASSUME FleetInv, NEW m \in Msgs
             PROVE  LET n == Cardinality(Jobs)
                    IN  executions[m] <= n + (n * (n + 1)) \div 2
  BY DEF FleetWorkBound
<1> DEFINE n == Cardinality(Jobs)
           p == Cardinality(Running(m))
           h1 == Cardinality(Loaded(m, 1))
           h2 == Cardinality(Loaded(m, 2))
<1>1. /\ n \in Nat /\ p \in Nat /\ h1 \in Nat /\ h2 \in Nat /\ h1 <= n
      /\ executions[m] \in Nat
  BY CountTypes DEF FleetInv
<1>2. Balance(n, inbox[m].attempt, executions[m], p, h1, h2)
  BY DEF FleetInv, RoundsInv, Rounds
<1>3. /\ Triangle((n - h1) - 1) \in Nat /\ Triangle(n - h1) \in Nat /\ Triangle(n) \in Nat
      /\ Triangle((n - h1) - 1) <= Triangle(n) /\ Triangle(n - h1) <= Triangle(n)
  BY <1>1, Triangles
<1>4. executions[m] <= n + Triangle(n)
  BY <1>1, <1>2, <1>3 DEF Balance
<1>5. QED
  BY <1>4 DEF Triangle

\* Any number of processes may hold the same message at once and save their counts over
\* each other's; with the default of 3 retries the pipeline runs for it at most
\* n + n(n+1)/2 times all the same, whatever crashes and fails.
THEOREM FleetKeepsBound == Spec => []FleetWorkBound
<1>1. CASE MaxRetries = 3
  BY <1>1, FleetInit, FleetStep, FleetBound, PTL DEF Spec
<1>2. CASE MaxRetries # 3
  <2>1. FleetWorkBound
    BY <1>2 DEF FleetWorkBound
  <2>2. QED
    BY <2>1, PTL
<1>3. QED
  BY <1>1, <1>2
===========================================================================
