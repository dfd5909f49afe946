--------------------------- MODULE ReplayProofs ---------------------------
(***************************************************************************)
(* Theorems about DeadLetterReplay, for every set of messages and every    *)
(* bound on retries, replays, faults and crashes: what a command of the    *)
(* operator may interleave with is one job, as the schedule runs it.       *)
(***************************************************************************)
EXTENDS DeadLetterReplay, ReconciliationProofs

LEMMA ReplayTypeInit == ReplayInit => TypeOK /\ HandInv /\ ReplayTypeOK
  BY TypeInit, ItemTypes, ReplayAssumption DEF ReplayInit, ReplayTypeOK

LEMMA ReplayTypeStep ==
    ASSUME TypeOK, HandInv, ReplayTypeOK, [ReplayNext]_allVars
    PROVE  TypeOK' /\ HandInv' /\ ReplayTypeOK'
<1> USE DEF ReplayTypeOK, HandInv
<1> USE ItemTypes, ReconciliationAssumption, ReplayAssumption
<1>1. CASE [Next]_vars /\ UNCHANGED replayVars
  BY <1>1, TypeStep DEF replayVars
<1>2. ASSUME NEW m \in Msgs, LoadDeadLetter(m) PROVE TypeOK' /\ HandInv' /\ ReplayTypeOK'
  <2>1. Replayed(dlq[m]) \in WorkItems
    BY DEF Replayed, WorkItems, TypeOK, Envelopes
  <2>2. QED
    BY <1>2, <2>1 DEF LoadDeadLetter, GiveCommand, vars, TypeOK
<1>3. ASSUME NEW m \in Msgs, ReplayFromEvent(m) PROVE TypeOK' /\ HandInv' /\ ReplayTypeOK'
  BY <1>3 DEF ReplayFromEvent, GiveCommand, TypeOK, locals
<1>4. CASE EnqueueReplayed
  BY <1>4 DEF EnqueueReplayed, TypeOK, world, locals
<1>5. CASE EnqueueReplayedFails
  BY <1>5 DEF EnqueueReplayedFails, SavedOrNot, Fault, CommandEnds, TypeOK, world, locals
<1>6. CASE DiscardDeadLetter
  BY <1>6 DEF DiscardDeadLetter, Fault, CommandEnds, TypeOK, world, locals
<1>7. CASE Interrupt
  BY <1>7 DEF Interrupt, CommandEnds, TypeOK, vars
<1>8. QED
  BY <1>1, <1>2, <1>3, <1>4, <1>5, <1>6, <1>7 DEF ReplayNext, ReplayStep, allVars

\* Whatever the operator replays, and when, every variable keeps its type: a replay
\* puts nothing but a work item into the inbox.
THEOREM ReplayTypeCorrect == ReplaySpec => [](TypeOK /\ ReplayTypeOK)
<1>1. TypeOK /\ HandInv /\ ReplayTypeOK /\ [ReplayNext]_allVars
        => TypeOK' /\ HandInv' /\ ReplayTypeOK'
  BY ReplayTypeStep
<1>2. QED
  BY <1>1, ReplayTypeInit, PTL DEF ReplaySpec

---------------------------------------------------------------------------
(* One job beside the operator. The job is still the only one that deletes *)
(* from the inbox, so the item it leased is there until it deletes it,     *)
(* under whatever count the operator's command may have saved over it.     *)

\* What was not accepted has no past, and is in nobody's hands.
KnownInv ==
    /\ PastInv
    /\ command # "none" => target \in accepted

\* The message is whole wherever it is: in the inbox and in the job's copy, in the
\* envelope and in the command's copy of it.
SafeCopyInv ==
    /\ WholeInv
    /\ DeadLetterKeepsOriginal
    /\ command = "enqueue" => copy = NewItem
    /\ \A j \in Jobs :
          /\ pc[j] \in {"envelope", "attempt", "pipeline", "dl_load"} => inbox[cur[j]] # NoItem
          /\ pc[j] = "dl_save" => original[j].whole

\* The attempts the blob in the inbox has left, and those a command is about to add.
Left(m) == IF inbox[m] = NoItem THEN 0 ELSE MaxRetries - inbox[m].attempt
Ordered(m) == IF command = "enqueue" /\ target = m THEN MaxRetries - 1 ELSE 0
Granted(m) == (MaxRetries - 1) * (1 + replays[m])

\* The executions that were, that a command has paid for, and that the inbox or the
\* job's copy of the item still allows come to no more than the budgets granted.
\* Before it counts the attempt the job's copy counts instead of the inbox, for its
\* count replaces the one in the inbox; afterwards the execution it counted is added.
Accounts(m) ==
    /\ executions[m] + Ordered(m) + Left(m) <= Granted(m)
    /\ \A j \in Jobs : cur[j] = m =>
          /\ pc[j] \in {"envelope", "attempt"} =>
                executions[m] + Ordered(m) + (MaxRetries - item[j].attempt) <= Granted(m)
          /\ pc[j] = "pipeline" =>
                executions[m] + Ordered(m) + Left(m) + 1 <= Granted(m)

AccountsInv == \A m \in Msgs : Accounts(m)

OperatorInv ==
    /\ TypeOK /\ HandInv /\ ReplayTypeOK
    /\ KnownInv /\ SafeCopyInv /\ AccountsInv

LEMMA KnownStep ==
    ASSUME TypeOK, HandInv, KnownInv, [ReplayNext]_allVars
    PROVE  KnownInv'
<1> USE DEF KnownInv, PastInv, Working, Steps, Goto
<1>1. CASE UNCHANGED <<inbox, dlq, accepted, executions, pc, cur, command, target>>
  BY <1>1
<1>2. ASSUME NEW j \in Jobs, pc'[j] \in {"idle", "visit"},
             \A i \in Jobs \ {j} : pc'[i] = pc[i] /\ cur'[i] = cur[i],
             UNCHANGED <<inbox, dlq, accepted, executions, command, target>>
      PROVE  KnownInv'
  BY <1>2
<1>3. ASSUME NEW j \in Jobs, NEW rest, NextMessage(j, rest),
             UNCHANGED <<inbox, dlq, accepted, executions, command, target>>
      PROVE  KnownInv'
  BY <1>2, <1>3, NextMessageEffect
<1>4. ASSUME NEW m \in Msgs, Enqueue(m), UNCHANGED replayVars PROVE KnownInv'
  BY <1>4 DEF Enqueue, TypeOK, locals, replayVars
<1>5. ASSUME NEW j \in Jobs, StartCycle(j), UNCHANGED replayVars PROVE KnownInv'
  BY <1>5 DEF StartCycle, TypeOK, blobs, world, replayVars
<1>6. ASSUME NEW j \in Jobs, NEW m \in Msgs, Visit(j, m), UNCHANGED replayVars PROVE KnownInv'
  <2>1. CASE NextMessage(j, todo[j] \ {m})
    BY <1>3, <1>6, <2>1 DEF Visit, blobs, world, replayVars
  <2>2. CASE inbox[m] # NoItem /\ Goto(j, "lease") /\ cur' = [cur EXCEPT ![j] = m]
    BY <1>6, <2>2 DEF Visit, blobs, world, TypeOK, replayVars
  <2>3. QED
    BY <1>6, <2>1, <2>2 DEF Visit
<1>7. ASSUME NEW j \in Jobs, LeaseWorkItem(j), UNCHANGED replayVars PROVE KnownInv'
  BY <1>3, <1>7 DEF LeaseWorkItem, blobs, world, TypeOK, replayVars
<1>8. ASSUME NEW j \in Jobs, SaveActive(j) \/ DeadLetterLoad(j), UNCHANGED replayVars
      PROVE  KnownInv'
  BY <1>8 DEF SaveActive, DeadLetterLoad, blobs, world, TypeOK, replayVars
<1>9. ASSUME NEW j \in Jobs, pc[j] \in Working, UNCHANGED <<accepted, cur, command, target>>,
             pc' = pc \/ \E s \in Steps : pc' = [pc EXCEPT ![j] = s],
             \A m \in Msgs \ {cur[j]} :
                inbox'[m] = inbox[m] /\ dlq'[m] = dlq[m] /\ executions'[m] = executions[m]
      PROVE  KnownInv'
  BY <1>9 DEF TypeOK
<1>10. ASSUME NEW j \in Jobs, SaveAttempt(j), UNCHANGED replayVars PROVE KnownInv'
  BY <1>9, <1>10 DEF SaveAttempt, world, TypeOK, replayVars
<1>11. ASSUME NEW j \in Jobs, RunPipeline(j), UNCHANGED replayVars PROVE KnownInv'
  BY <1>9, <1>11 DEF RunPipeline, blobs, TypeOK, replayVars
<1>12. ASSUME NEW j \in Jobs, Complete(j) \/ DeadLetterDelete(j), UNCHANGED replayVars
       PROVE  KnownInv'
  BY <1>9, <1>12 DEF Complete, DeadLetterDelete, DeleteInbox, world, TypeOK, replayVars
<1>13. ASSUME NEW j \in Jobs, DeadLetterSave(j), UNCHANGED replayVars PROVE KnownInv'
  BY <1>9, <1>13 DEF DeadLetterSave, world, TypeOK, replayVars
<1>14. ASSUME NEW j \in Jobs, Purge(j) \/ SaveActiveFails(j), UNCHANGED replayVars
       PROVE  KnownInv'
  BY <1>3, <1>14 DEF Purge, SaveActiveFails, world, replayVars
<1>15. ASSUME NEW j \in Jobs, LoadFails(j) \/ Crash(j), UNCHANGED replayVars PROVE KnownInv'
  BY <1>2, <1>15 DEF LoadFails, Abort, Crash, Forget, blobs, world, TypeOK, replayVars
<1>16. ASSUME NEW j \in Jobs, SaveAttemptFails(j) \/ DeadLetterSaveFails(j),
              UNCHANGED replayVars
       PROVE  KnownInv'
  BY <1>16 DEF SaveAttemptFails, DeadLetterSaveFails, SavedOrNot, Abort, Forget, world, TypeOK,
               replayVars
<1>17. CASE [Next]_vars /\ UNCHANGED replayVars
  BY <1>1, <1>4, <1>5, <1>6, <1>7, <1>8, <1>10, <1>11, <1>12, <1>13, <1>14, <1>15, <1>16, <1>17
  DEF Next, JobStep, JobFailure, GrowOld, LeaseExpires, vars, blobs, world, locals, replayVars
<1>18. ASSUME NEW m \in Msgs, LoadDeadLetter(m) \/ ReplayFromEvent(m) PROVE KnownInv'
  BY <1>18 DEF LoadDeadLetter, ReplayFromEvent, vars, locals, TypeOK
<1>19. CASE EnqueueReplayed \/ EnqueueReplayedFails
  BY <1>19 DEF EnqueueReplayed, EnqueueReplayedFails, SavedOrNot, CommandEnds, world, locals, TypeOK
<1>20. CASE DiscardDeadLetter \/ Interrupt
  BY <1>20 DEF DiscardDeadLetter, Interrupt, CommandEnds, vars, world, locals, TypeOK
<1>21. QED
  BY <1>17, <1>18, <1>19, <1>20 DEF ReplayNext, ReplayStep, allVars

LEMMA SafeCopyStep ==
    ASSUME OneJob, TypeOK, HandInv, ReplayTypeOK, KnownInv, SafeCopyInv, [ReplayNext]_allVars
    PROVE  SafeCopyInv'
<1> USE DEF SafeCopyInv, DeadLetterKeepsOriginal
<1>1. CASE [Next]_vars /\ UNCHANGED replayVars
  <2> USE <1>1 DEF Working, Steps, Goto, replayVars
  <2>1. WholeInv'
    BY WholeStep
  <2>2. CASE UNCHANGED <<inbox, dlq, pc, cur, original>>
    BY <2>1, <2>2
  <2>3. ASSUME NEW m \in Msgs, Enqueue(m) PROVE SafeCopyInv'
    BY <2>1, <2>3 DEF Enqueue, NewItem, NoItem, HandInv, TypeOK, locals
  \* The process ends up without a work item.
  <2>4. ASSUME NEW j \in Jobs, pc'[j] \in Steps \ (Holding \ {"complete", "dl_delete"}),
               UNCHANGED dlq
        PROVE  SafeCopyInv'
    BY <2>1, <2>4 DEF OneJob, Holding
  <2>5. ASSUME NEW j \in Jobs, NEW rest, NextMessage(j, rest), UNCHANGED dlq
        PROVE  SafeCopyInv'
    BY <2>4, <2>5, NextMessageEffect DEF Holding
  <2>6. ASSUME NEW j \in Jobs, NEW m \in Msgs, Visit(j, m) PROVE SafeCopyInv'
    BY <2>4, <2>5, <2>6 DEF Visit, blobs, TypeOK, Holding
  <2>7. ASSUME NEW j \in Jobs, LeaseWorkItem(j) PROVE SafeCopyInv'
    <3>1. CASE NextMessage(j, todo[j])
      BY <2>5, <2>7, <3>1 DEF LeaseWorkItem, blobs
    <3>2. CASE CanLease(j, cur[j]) /\ Goto(j, "envelope") /\ UNCHANGED cur
      BY <2>1, <2>7, <3>2 DEF LeaseWorkItem, CanLease, blobs, TypeOK, OneJob
    <3>3. QED
      BY <2>7, <3>1, <3>2 DEF LeaseWorkItem
  <2>8. ASSUME NEW j \in Jobs, SaveActive(j) PROVE SafeCopyInv'
    BY <2>1, <2>8 DEF SaveActive, TypeOK, OneJob
  <2>9. ASSUME NEW j \in Jobs, SaveAttempt(j) PROVE SafeCopyInv'
    <3>1. Counted(j) # NoItem /\ cur[j] \in Msgs
      BY <2>9, ItemTypes, SMTT(30) DEF SaveAttempt, Counted, NoItem, TypeOK, HandInv
    <3>2. QED
      BY <2>1, <2>9, <3>1 DEF SaveAttempt, TypeOK, OneJob
  <2>10. ASSUME NEW j \in Jobs, RunPipeline(j) PROVE SafeCopyInv'
    BY <2>1, <2>10 DEF RunPipeline, blobs, TypeOK, OneJob
  <2>11. ASSUME NEW j \in Jobs, DeadLetterLoad(j) PROVE SafeCopyInv'
    BY <2>1, <2>11 DEF DeadLetterLoad, blobs, TypeOK, OneJob, WholeInv, HandInv
  <2>12. ASSUME NEW j \in Jobs, DeadLetterSave(j) \/ DeadLetterSaveFails(j) PROVE SafeCopyInv'
    <3>1. pc'[j] \in {"dl_delete", "idle"} /\ \A i \in Jobs : i = j
      BY <2>12 DEF DeadLetterSave, DeadLetterSaveFails, Abort, TypeOK, OneJob
    <3>2. dlq' = dlq \/ dlq' = [dlq EXCEPT ![cur[j]] = DeadLetter(j)]
      BY <2>12 DEF DeadLetterSave, DeadLetterSaveFails, SavedOrNot
    <3>3. DeadLetter(j).original.whole
      BY <2>12 DEF DeadLetterSave, DeadLetterSaveFails, DeadLetter
    <3>4. \A m \in Msgs : dlq'[m] # NoEntry => dlq'[m].original.whole
      BY <3>2, <3>3 DEF TypeOK
    <3>5. QED
      BY <2>1, <3>1, <3>4
  <2>13. ASSUME NEW j \in Jobs,
                \/ StartCycle(j) \/ Complete(j) \/ DeadLetterDelete(j)
                \/ LoadFails(j) \/ SaveAttemptFails(j) \/ Crash(j)
         PROVE  SafeCopyInv'
    BY <2>4, <2>13 DEF StartCycle, Complete, DeadLetterDelete, LoadFails, SaveAttemptFails,
                       Abort, Crash, blobs, TypeOK, Holding
  <2>14. ASSUME NEW j \in Jobs, Purge(j) \/ SaveActiveFails(j) PROVE SafeCopyInv'
    BY <2>5, <2>14 DEF Purge, SaveActiveFails
  <2>15. QED
    BY <2>2, <2>3, <2>6, <2>7, <2>8, <2>9, <2>10, <2>11, <2>12, <2>13, <2>14
    DEF Next, JobStep, JobFailure, GrowOld, LeaseExpires, vars, blobs, world, locals
<1>2. ASSUME NEW m \in Msgs, LoadDeadLetter(m) PROVE SafeCopyInv'
  BY <1>2 DEF LoadDeadLetter, Replayed, NewItem, vars, WholeInv
<1>3. ASSUME NEW n \in Msgs, inbox' = [inbox EXCEPT ![n] = NewItem],
             UNCHANGED <<dlq, pc, cur, item, original>>,
             UNCHANGED <<command, copy>> \/ command' # "enqueue"
      PROVE  SafeCopyInv'
  <2>1. NewItem # NoItem /\ NewItem.whole
    BY DEF NewItem, NoItem
  <2>2. \A m \in Msgs : inbox'[m] = IF m = n THEN NewItem ELSE inbox[m]
    BY <1>3 DEF TypeOK
  <2>3. WholeInv'
    BY <1>3, <2>1, <2>2 DEF WholeInv
  <2>4. \A j \in Jobs : pc[j] \in Holding => cur[j] \in Msgs
    BY DEF HandInv, Holding
  <2>5. QED
    BY <1>3, <2>1, <2>2, <2>3, <2>4 DEF Holding, Working, Steps
<1>4. ASSUME NEW m \in Msgs, ReplayFromEvent(m) PROVE SafeCopyInv'
  BY <1>3, <1>4 DEF ReplayFromEvent, locals
<1>5. CASE UNCHANGED <<inbox, pc, cur, item, original>> /\ command' # "enqueue"
           /\ (dlq' = dlq \/ \E m \in Msgs : dlq' = [dlq EXCEPT ![m] = NoEntry])
  BY <1>5 DEF NoEntry, WholeInv, TypeOK
<1>6. CASE EnqueueReplayed \/ EnqueueReplayedFails
  <2>1. target \in Msgs /\ copy = NewItem
    BY <1>6 DEF EnqueueReplayed, EnqueueReplayedFails, KnownInv, TypeOK
  <2>2. CASE EnqueueReplayed
    BY <1>3, <2>1, <2>2 DEF EnqueueReplayed, locals
  <2>3. CASE EnqueueReplayedFails
    BY <1>3, <1>5, <2>1, <2>3 DEF EnqueueReplayedFails, SavedOrNot, CommandEnds, locals
  <2>4. QED
    BY <1>6, <2>2, <2>3
<1>7. CASE DiscardDeadLetter \/ Interrupt
  BY <1>5, <1>7 DEF DiscardDeadLetter, Interrupt, CommandEnds, KnownInv, TypeOK, vars, locals
<1>8. QED
  BY <1>1, <1>2, <1>4, <1>6, <1>7 DEF ReplayNext, ReplayStep, allVars

\* One more command grants one budget more.
LEMMA Grants ==
    ASSUME NEW k \in Nat, NEW r \in Nat
    PROVE  /\ k * (1 + r) \in Nat /\ k <= k * (1 + r)
           /\ k * (1 + (r + 1)) = k * (1 + r) + k
  OBVIOUS

LEMMA AccountTypes ==
    ASSUME TypeOK, ReplayTypeOK, NEW m \in Msgs
    PROVE  /\ executions[m] \in Nat /\ Ordered(m) \in Nat /\ Left(m) \in Nat
           /\ Granted(m) \in Nat /\ MaxRetries - 1 \in Nat /\ MaxRetries - 1 <= Granted(m)
           /\ \A j \in Jobs : item[j].attempt \in 0..MaxRetries
<1>1. inbox[m].attempt \in 0..MaxRetries /\ replays[m] \in Nat /\ MaxRetries - 1 \in Nat
  BY ReconciliationAssumption, ReplayAssumption DEF TypeOK, ReplayTypeOK, WorkItems
<1>2. Granted(m) \in Nat /\ MaxRetries - 1 <= Granted(m)
  BY <1>1, Grants DEF Granted
<1>3. Left(m) \in Nat
  BY <1>1, ReconciliationAssumption DEF Left
<1>4. QED
  BY <1>1, <1>2, <1>3 DEF TypeOK, Ordered, WorkItems

\* A step that takes from the accounts of m, and starts nothing for it.
LEMMA AccountsShrink ==
    ASSUME TypeOK, ReplayTypeOK, TypeOK', ReplayTypeOK', NEW m \in Msgs, Accounts(m),
           executions'[m] = executions[m], Ordered(m)' <= Ordered(m), Left(m)' <= Left(m),
           replays'[m] = replays[m],
           \A j \in Jobs :
              pc'[j] \in {"envelope", "attempt", "pipeline"} =>
                 /\ cur'[j] = cur[j] /\ item'[j] = item[j]
                 /\ pc[j] = pc'[j] \/ (pc[j] = "envelope" /\ pc'[j] = "attempt")
    PROVE  Accounts(m)'
<1>1. Granted(m)' = Granted(m)
  BY DEF Granted
<1>2. /\ executions[m] \in Nat /\ Ordered(m) \in Nat /\ Left(m) \in Nat /\ Granted(m) \in Nat
      /\ MaxRetries - 1 \in Nat /\ \A j \in Jobs : item[j].attempt \in 0..MaxRetries
  BY AccountTypes
<1>3. inbox'[m].attempt \in 0..MaxRetries
  BY DEF TypeOK, WorkItems
<1>4. Ordered(m)' \in Nat /\ Left(m)' \in Nat
  BY <1>2, <1>3, ReconciliationAssumption DEF Ordered, Left
<1>5. (executions[m] + Ordered(m) + Left(m) <= Granted(m))'
  BY <1>1, <1>2, <1>4 DEF Accounts
<1>6. ASSUME NEW j \in Jobs, cur'[j] = m, pc'[j] \in {"envelope", "attempt"}
      PROVE  (executions[m] + Ordered(m) + (MaxRetries - item[j].attempt) <= Granted(m))'
  BY <1>1, <1>2, <1>6, <1>4, ReconciliationAssumption DEF Accounts
<1>7. ASSUME NEW j \in Jobs, cur'[j] = m, pc'[j] = "pipeline"
      PROVE  (executions[m] + Ordered(m) + Left(m) + 1 <= Granted(m))'
  BY <1>1, <1>2, <1>7, <1>4 DEF Accounts
<1>8. QED
  BY <1>5, <1>6, <1>7 DEF Accounts

\* A command puts a new item into the inbox, and has one budget for it.
LEMMA AccountsRenew ==
    ASSUME TypeOK, ReplayTypeOK, NEW m \in Msgs, Accounts(m),
           inbox'[m] = NewItem, executions'[m] = executions[m], UNCHANGED <<pc, cur, item>>,
           Ordered(m)' + (MaxRetries - 1) + Granted(m) <= Ordered(m) + Granted(m)',
           Ordered(m)' \in Nat, Granted(m)' \in Nat, Granted(m) <= Granted(m)'
    PROVE  Accounts(m)'
<1>1. Left(m)' = MaxRetries - 1
  BY DEF Left, NewItem, NoItem
<1>2. /\ executions[m] \in Nat /\ Ordered(m) \in Nat /\ Left(m) \in Nat /\ Granted(m) \in Nat
      /\ MaxRetries - 1 \in Nat /\ \A j \in Jobs : item[j].attempt \in 0..MaxRetries
  BY AccountTypes
<1>3. (executions[m] + Ordered(m) + Left(m) <= Granted(m))'
  BY <1>1, <1>2 DEF Accounts
<1>4. ASSUME NEW j \in Jobs, cur'[j] = m, pc'[j] \in {"envelope", "attempt"}
      PROVE  (executions[m] + Ordered(m) + (MaxRetries - item[j].attempt) <= Granted(m))'
  BY <1>2, <1>4, ReconciliationAssumption DEF Accounts
<1>5. ASSUME NEW j \in Jobs, cur'[j] = m, pc'[j] = "pipeline"
      PROVE  (executions[m] + Ordered(m) + Left(m) + 1 <= Granted(m))'
  BY <1>1, <1>2, <1>5 DEF Accounts
<1>6. QED
  BY <1>3, <1>4, <1>5 DEF Accounts

LEMMA AccountsStep ==
    ASSUME OneJob, OperatorInv, TypeOK', ReplayTypeOK', [ReplayNext]_allVars
    PROVE  AccountsInv'
<1> SUFFICES ASSUME NEW m \in Msgs PROVE Accounts(m)'
  BY DEF AccountsInv
<1> USE DEF OperatorInv
<1>1. Accounts(m)
  BY DEF AccountsInv
<1>2. /\ executions[m] \in Nat /\ Ordered(m) \in Nat /\ Left(m) \in Nat /\ Granted(m) \in Nat
      /\ MaxRetries - 1 \in Nat /\ MaxRetries - 1 <= Granted(m)
      /\ \A j \in Jobs : item[j].attempt \in 0..MaxRetries
  BY AccountTypes
<1>3. CASE [Next]_vars /\ UNCHANGED replayVars
  <2> USE <1>3 DEF Working, Steps, Goto
  <2>1. /\ Ordered(m)' = Ordered(m) /\ Granted(m)' = Granted(m) /\ replays'[m] = replays[m]
        /\ inbox'[m] = inbox[m] => Left(m)' = Left(m)
    BY DEF replayVars, Ordered, Granted, Left
  <2>2. ASSUME executions'[m] = executions[m], inbox'[m] \in {inbox[m], NoItem},
               \A j \in Jobs :
                  pc'[j] \in {"envelope", "attempt", "pipeline"} =>
                     /\ cur'[j] = cur[j] /\ item'[j] = item[j]
                     /\ pc[j] = pc'[j] \/ (pc[j] = "envelope" /\ pc'[j] = "attempt")
        PROVE  Accounts(m)'
    <3>1. Left(m)' <= Left(m)
      BY <1>2, <2>1, <2>2 DEF Left
    <3>2. QED
      BY <1>1, <1>2, <2>1, <2>2, <3>1, AccountsShrink
  <2>3. ASSUME NEW n \in Msgs, Enqueue(n) PROVE Accounts(m)'
    <3>1. CASE n # m
      BY <2>2, <2>3, <3>1 DEF Enqueue, TypeOK, locals
    <3>2. CASE n = m
      <4>1. executions[m] = 0 /\ Ordered(m) = 0 /\ \A j \in Jobs : pc[j] \in Working => cur[j] # m
        BY <2>3, <3>2 DEF Enqueue, KnownInv, PastInv, Ordered
      <4>2. inbox'[m] = NewItem /\ UNCHANGED <<executions, pc, cur>>
        BY <2>3, <3>2 DEF Enqueue, TypeOK, locals
      <4>3. Left(m)' = MaxRetries - 1
        BY <4>2 DEF Left, NewItem, NoItem
      <4>4. (executions[m] + Ordered(m) + Left(m) <= Granted(m))'
        BY <1>2, <2>1, <4>1, <4>2, <4>3
      <4>5. QED
        BY <4>1, <4>2, <4>4 DEF Accounts
    <3>3. QED
      BY <3>1, <3>2
  <2>4. CASE UNCHANGED <<inbox, executions, pc, cur, item>>
    BY <2>2, <2>4
  <2>5. ASSUME NEW j \in Jobs, pc'[j] \notin {"envelope", "attempt", "pipeline"},
               executions'[m] = executions[m], inbox'[m] \in {inbox[m], NoItem}
        PROVE  Accounts(m)'
    BY <2>2, <2>5 DEF OneJob
  <2>6. ASSUME NEW j \in Jobs, NEW rest, NextMessage(j, rest), UNCHANGED <<inbox, executions>>
        PROVE  Accounts(m)'
    BY <2>5, <2>6, NextMessageEffect
  <2>7. ASSUME NEW j \in Jobs, NEW n \in Msgs, Visit(j, n) PROVE Accounts(m)'
    BY <2>5, <2>6, <2>7 DEF Visit, blobs, world, TypeOK
  <2>8. ASSUME NEW j \in Jobs, LeaseWorkItem(j) PROVE Accounts(m)'
    <3>1. CASE NextMessage(j, todo[j])
      BY <2>6, <2>8, <3>1 DEF LeaseWorkItem, blobs, world
    <3>2. CASE CanLease(j, cur[j]) /\ item' = [item EXCEPT ![j] = inbox[cur[j]]]
               /\ Goto(j, "envelope") /\ UNCHANGED cur
      <4>1. /\ UNCHANGED <<inbox, executions, cur>>
            /\ \A i \in Jobs : pc'[i] = "envelope" /\ item'[i] = inbox[cur[i]]
            /\ inbox[cur[j]] # NoItem /\ \A i \in Jobs : i = j
        BY <2>8, <3>2 DEF LeaseWorkItem, CanLease, blobs, world, TypeOK, OneJob
      <4>2. (executions[m] + Ordered(m) + Left(m) <= Granted(m))'
        BY <1>1, <2>1, <4>1 DEF Accounts
      <4>3. cur[j] = m => MaxRetries - inbox[m].attempt = Left(m)
        BY <4>1 DEF Left
      <4>4. \A i \in Jobs : cur'[i] = m =>
              (executions[m] + Ordered(m) + (MaxRetries - item[i].attempt) <= Granted(m))'
        BY <1>1, <2>1, <4>1, <4>3 DEF Accounts
      <4>5. QED
        BY <4>1, <4>2, <4>4 DEF Accounts
    <3>3. QED
      BY <2>8, <3>1, <3>2 DEF LeaseWorkItem
  <2>9. ASSUME NEW j \in Jobs, SaveActive(j) PROVE Accounts(m)'
    BY <2>2, <2>9 DEF SaveActive, world, TypeOK, OneJob
  <2>10. ASSUME NEW j \in Jobs, SaveAttempt(j) \/ SaveAttemptFails(j) PROVE Accounts(m)'
    <3>1. /\ pc[j] = "attempt" /\ cur[j] \in Msgs /\ item[j].attempt < MaxRetries
          /\ UNCHANGED executions /\ \A i \in Jobs : i = j
      BY <2>10 DEF SaveAttempt, SaveAttemptFails, world, HandInv, OneJob
    <3>2. \/ inbox' = inbox /\ pc'[j] = "idle"
          \/ inbox' = [inbox EXCEPT ![cur[j]] = Counted(j)] /\ pc'[j] = "idle"
          \/ inbox' = [inbox EXCEPT ![cur[j]] = Counted(j)] /\ pc'[j] = "pipeline"
                /\ UNCHANGED cur
      BY <2>10 DEF SaveAttempt, SaveAttemptFails, SavedOrNot, Abort, TypeOK
    <3>3. CASE inbox'[m] = inbox[m] /\ (pc'[j] = "pipeline" => cur'[j] # m)
      BY <1>1, <2>1, <3>1, <3>2, <3>3 DEF Accounts
    <3>4. CASE cur[j] = m /\ inbox'[m] = Counted(j)
      <4>1. executions[m] + Ordered(m) + (MaxRetries - item[j].attempt) <= Granted(m)
        BY <1>1, <3>1, <3>4 DEF Accounts
      <4>2. Left(m)' = MaxRetries - (item[j].attempt + 1)
        BY <1>2, <3>1, <3>4, ReconciliationAssumption DEF Left, Counted, NoItem
      <4>3. (executions[m] + Ordered(m) + Left(m) + 1 <= Granted(m))'
        BY <1>2, <2>1, <3>1, <4>1, <4>2, ReconciliationAssumption
      <4>4. (executions[m] + Ordered(m) + Left(m) <= Granted(m))'
        BY <1>2, <2>1, <3>1, <4>1, <4>2, ReconciliationAssumption
      <4>5. QED
        BY <3>1, <3>2, <4>3, <4>4 DEF Accounts
    <3>5. QED
      BY <3>1, <3>2, <3>3, <3>4 DEF TypeOK
  <2>11. ASSUME NEW j \in Jobs, RunPipeline(j) PROVE Accounts(m)'
    <3>1. /\ pc[j] = "pipeline" /\ cur[j] \in Msgs /\ UNCHANGED inbox
          /\ executions' = [executions EXCEPT ![cur[j]] = @ + 1]
          /\ \A i \in Jobs : i = j /\ pc'[i] \notin {"envelope", "attempt", "pipeline"}
      BY <2>11 DEF RunPipeline, blobs, HandInv, OneJob, TypeOK
    <3>2. executions'[m] = IF cur[j] = m THEN executions[m] + 1 ELSE executions[m]
      BY <3>1 DEF TypeOK
    <3>3. (executions[m] + Ordered(m) + Left(m) <= Granted(m))'
      <4>1. CASE cur[j] = m
        BY <1>1, <1>2, <2>1, <3>1, <3>2, <4>1 DEF Accounts
      <4>2. CASE cur[j] # m
        BY <1>1, <2>1, <3>1, <3>2, <4>2 DEF Accounts
      <4>3. QED
        BY <4>1, <4>2
    <3>4. QED
      BY <3>1, <3>3 DEF Accounts
  <2>12. ASSUME NEW j \in Jobs,
                \/ StartCycle(j) \/ Complete(j) \/ DeadLetterDelete(j) \/ DeadLetterLoad(j)
                \/ DeadLetterSave(j) \/ DeadLetterSaveFails(j) \/ LoadFails(j) \/ Crash(j)
         PROVE  Accounts(m)'
    BY <2>5, <2>12 DEF StartCycle, Complete, DeadLetterDelete, DeleteInbox, DeadLetterLoad,
         DeadLetterSave, DeadLetterSaveFails, LoadFails, Abort, Crash, blobs, world, TypeOK
  <2>13. ASSUME NEW j \in Jobs, Purge(j) \/ SaveActiveFails(j) PROVE Accounts(m)'
    BY <2>6, <2>13 DEF Purge, SaveActiveFails, world
  <2>14. QED
    BY <2>3, <2>4, <2>7, <2>8, <2>9, <2>10, <2>11, <2>12, <2>13
    DEF Next, JobStep, JobFailure, GrowOld, LeaseExpires, vars, blobs, world, locals
<1>4. ASSUME UNCHANGED <<inbox, executions, pc, cur, item, replays>>, command' # "enqueue"
      PROVE  Accounts(m)'
  <2>1. Ordered(m)' <= Ordered(m) /\ Left(m)' <= Left(m)
    BY <1>2, <1>4 DEF Ordered, Left
  <2>2. QED
    BY <1>1, <1>4, <2>1, AccountsShrink
<1>5. ASSUME command = "enqueue", inbox' = [inbox EXCEPT ![target] = copy],
             command' # "enqueue", UNCHANGED <<executions, pc, cur, item, replays>>
      PROVE  Accounts(m)'
  <2>1. Granted(m)' = Granted(m) /\ Ordered(m)' = 0
    BY <1>5 DEF Granted, Ordered
  <2>2. CASE target = m
    <3>1. inbox'[m] = NewItem /\ Ordered(m) = MaxRetries - 1
      BY <1>5, <2>2 DEF SafeCopyInv, TypeOK, Ordered
    <3>2. QED
      BY <1>1, <1>2, <1>5, <2>1, <3>1, AccountsRenew
  <2>3. CASE target # m
    <3>1. Left(m)' = Left(m)
      BY <1>5, <2>3 DEF Left, TypeOK
    <3>2. QED
      BY <1>1, <1>2, <1>5, <2>1, <3>1, AccountsShrink
  <2>4. QED
    BY <2>2, <2>3
\* A command that begins raises what is granted before anything is claimed of it.
<1>6. ASSUME GiveCommand(m) PROVE Ordered(m) = 0 /\ Granted(m)' = Granted(m) + (MaxRetries - 1)
  <2>1. replays[m] \in Nat /\ replays'[m] = replays[m] + 1
    BY <1>6, ReplayAssumption DEF GiveCommand, ReplayTypeOK
  <2>2. QED
    BY <1>2, <1>6, <2>1, Grants DEF GiveCommand, Ordered, Granted
<1>7. ASSUME NEW n \in Msgs, LoadDeadLetter(n) \/ ReplayFromEvent(n) PROVE Accounts(m)'
  <2>1. UNCHANGED <<executions, pc, cur, item>> /\ GiveCommand(n)
    BY <1>7 DEF LoadDeadLetter, ReplayFromEvent, vars, locals
  <2>2. CASE n # m
    <3>1. inbox'[m] = inbox[m] /\ replays'[m] = replays[m] /\ Ordered(m)' = 0
      BY <1>7, <2>1, <2>2
      DEF LoadDeadLetter, ReplayFromEvent, GiveCommand, vars, TypeOK, ReplayTypeOK, Ordered
    <3>2. Left(m)' = Left(m)
      BY <3>1 DEF Left
    <3>3. QED
      BY <1>1, <1>2, <2>1, <3>1, <3>2, AccountsShrink
  <2>3. CASE n = m /\ ReplayFromEvent(n)
    <3>1. inbox'[m] = NewItem /\ Ordered(m)' = 0
      BY <2>3 DEF ReplayFromEvent, GiveCommand, TypeOK, Ordered
    <3>2. QED
      BY <1>1, <1>2, <1>6, <2>1, <2>3, <3>1, AccountsRenew
  <2>4. CASE n = m /\ LoadDeadLetter(n)
    <3>1. Ordered(m)' = MaxRetries - 1 /\ inbox' = inbox
      BY <2>4 DEF LoadDeadLetter, vars, Ordered
    <3>2. Left(m)' = Left(m)
      BY <3>1 DEF Left
    <3>3. (executions[m] + Ordered(m) + Left(m) <= Granted(m))'
      BY <1>1, <1>2, <1>6, <2>1, <2>4, <3>1, <3>2 DEF Accounts
    <3>4. ASSUME NEW j \in Jobs, cur'[j] = m, pc'[j] \in {"envelope", "attempt"}
          PROVE  (executions[m] + Ordered(m) + (MaxRetries - item[j].attempt) <= Granted(m))'
      BY <1>1, <1>2, <1>6, <2>1, <2>4, <3>1, <3>4, ReconciliationAssumption DEF Accounts
    <3>5. ASSUME NEW j \in Jobs, cur'[j] = m, pc'[j] = "pipeline"
          PROVE  (executions[m] + Ordered(m) + Left(m) + 1 <= Granted(m))'
      BY <1>1, <1>2, <1>6, <2>1, <2>4, <3>1, <3>2, <3>5 DEF Accounts
    <3>6. QED
      BY <3>3, <3>4, <3>5 DEF Accounts
  <2>5. QED
    BY <1>7, <2>2, <2>3, <2>4
<1>8. CASE EnqueueReplayed \/ EnqueueReplayedFails
  BY <1>4, <1>5, <1>8 DEF EnqueueReplayed, EnqueueReplayedFails, SavedOrNot, CommandEnds,
                          world, locals
<1>9. CASE DiscardDeadLetter \/ Interrupt
  BY <1>4, <1>9 DEF DiscardDeadLetter, Interrupt, CommandEnds, vars, world, locals
<1>10. QED
  BY <1>3, <1>7, <1>8, <1>9 DEF ReplayNext, ReplayStep, allVars

LEMMA OperatorInvariant == OneJob => (ReplaySpec => []OperatorInv)
<1> SUFFICES ASSUME OneJob PROVE ReplaySpec => []OperatorInv
  OBVIOUS
<1>1. ReplayInit => OperatorInv
  <2> SUFFICES ASSUME ReplayInit PROVE OperatorInv
    OBVIOUS
  <2>1. TypeOK /\ HandInv /\ ReplayTypeOK
    BY ReplayTypeInit
  <2>2. KnownInv /\ SafeCopyInv
    BY DEF ReplayInit, Init, KnownInv, SafeCopyInv, PastInv, WholeInv, DeadLetterKeepsOriginal,
           Holding, Working, Steps
  <2>3. ASSUME NEW m \in Msgs PROVE Accounts(m)
    <3>1. executions[m] = 0 /\ Ordered(m) = 0 /\ Left(m) = 0 /\ 0 <= Granted(m)
      BY <2>1, AccountTypes, ReconciliationAssumption DEF ReplayInit, Init, Ordered, Left
    <3>2. QED
      BY <3>1 DEF Accounts, ReplayInit, Init
  <2>4. QED
    BY <2>1, <2>2, <2>3 DEF OperatorInv, AccountsInv
<1>2. OperatorInv /\ [ReplayNext]_allVars => OperatorInv'
  BY ReplayTypeStep, KnownStep, SafeCopyStep, AccountsStep DEF OperatorInv
<1>3. QED
  BY <1>1, <1>2, PTL DEF ReplaySpec

\* Whatever an operator replays, and however the commands interleave with the job's own
\* saves of its count, a message is processed at most once a budget of attempts for
\* each command given and one for its arrival.
THEOREM ReplaysKeepBudget == OneJob => (ReplaySpec => []ReplayBudget)
<1> SUFFICES ASSUME OneJob PROVE ReplaySpec => []ReplayBudget
  OBVIOUS
<1>1. OperatorInv => ReplayBudget
  <2> SUFFICES ASSUME OperatorInv, NEW m \in Msgs
               PROVE  executions[m] <= (MaxRetries - 1) * (1 + replays[m])
    BY DEF ReplayBudget
  <2>1. /\ executions[m] \in Nat /\ Ordered(m) \in Nat /\ Left(m) \in Nat /\ Granted(m) \in Nat
        /\ executions[m] + Ordered(m) + Left(m) <= Granted(m)
    BY AccountTypes DEF OperatorInv, AccountsInv, Accounts
  <2>2. executions[m] <= Granted(m)
    BY <2>1
  <2>3. QED
    BY <2>2 DEF Granted
<1>2. QED
  BY <1>1, OperatorInvariant, PTL

\* Under replays as well an envelope carries the work item to replay: the job finds
\* the inbox blob there when it loads it for the envelope, whoever wrote it last.
THEOREM ReplaysKeepOriginal == OneJob => (ReplaySpec => []DeadLetterKeepsOriginal)
<1> SUFFICES ASSUME OneJob PROVE ReplaySpec => []DeadLetterKeepsOriginal
  OBVIOUS
<1>1. OperatorInv => DeadLetterKeepsOriginal
  BY DEF OperatorInv, SafeCopyInv
<1>2. QED
  BY <1>1, OperatorInvariant, PTL
===========================================================================
