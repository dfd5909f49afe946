------------------------- MODULE DeadLetterReplay -------------------------
(***************************************************************************)
(* An operator replays messages with src/src/tools/replay.py while the     *)
(* jobs of Reconciliation run: out of the dead-letter queue, or out of the *)
(* event log. A command is a process of its own; it takes no lease, and    *)
(* the jobs do not know of it.                                             *)
(***************************************************************************)
EXTENDS Reconciliation

CONSTANT MaxReplays   \* bound: commands given for one message

ASSUME ReplayAssumption == MaxReplays \in Nat

VARIABLES
    command,   \* what the running command does next
    target,    \* its message
    copy,      \* its replayed_work_item
    replays    \* commands given so far, by message

replayVars == <<command, target, copy, replays>>
allVars == <<vars, replayVars>>

ReplayTypeOK ==
    /\ command \in {"none", "enqueue", "discard"}
    /\ target \in Msgs \cup {NoMsg}
    /\ copy \in WorkItems
    /\ replays \in [Msgs -> 0..MaxReplays]

ReplayInit ==
    /\ Init
    /\ command = "none" /\ target = NoMsg /\ copy = NoItem
    /\ replays = [m \in Msgs |-> 0]

GiveCommand(m) ==
    /\ command = "none"
    /\ replays[m] < MaxReplays
    /\ replays' = [replays EXCEPT ![m] = @ + 1]

CommandEnds == command' = "none" /\ target' = NoMsg /\ copy' = NoItem

---------------------------------------------------------------------------
\* original_payload, or the envelope itself when that is empty, with attempt 1.
Replayed(entry) == [attempt |-> 1, whole |-> entry.original.whole]

\* replay_dead_letter loads the envelope, ...
LoadDeadLetter(m) ==
    /\ dlq[m] # NoEntry
    /\ GiveCommand(m)
    /\ command' = "enqueue" /\ target' = m /\ copy' = Replayed(dlq[m])
    /\ UNCHANGED vars

\* ... puts the work item back into the inbox, ...
EnqueueReplayed ==
    /\ command = "enqueue"
    /\ inbox' = [inbox EXCEPT ![target] = copy]
    /\ command' = "discard"
    /\ UNCHANGED <<dlq, active, world, locals, faults, crashes, target, copy, replays>>

EnqueueReplayedFails ==
    /\ command = "enqueue"
    /\ Fault
    /\ inbox' \in SavedOrNot(inbox, [inbox EXCEPT ![target] = copy])
    /\ CommandEnds
    /\ UNCHANGED <<dlq, active, world, locals, crashes, replays>>

\* ... and deletes the envelope at that path, which may be another one by now.
DiscardDeadLetter ==
    /\ command = "discard"
    /\ \/ dlq' = [dlq EXCEPT ![target] = NoEntry] /\ UNCHANGED faults
       \/ Fault /\ UNCHANGED dlq
    /\ CommandEnds
    /\ UNCHANGED <<inbox, active, world, locals, crashes, replays>>

\* replay_from_event rebuilds the work item from the event, which never changes,
\* under a new enqueued_at.
ReplayFromEvent(m) ==
    /\ m \in accepted
    /\ GiveCommand(m)
    /\ inbox' = [inbox EXCEPT ![m] = NewItem]
    /\ fresh' = fresh \cup {m}
    /\ UNCHANGED <<dlq, active, accepted, answered, executions, locals, faults, crashes>>
    /\ UNCHANGED <<command, target, copy>>

\* The operator interrupts the command.
Interrupt ==
    /\ command # "none"
    /\ CommandEnds
    /\ UNCHANGED <<vars, replays>>

ReplayStep ==
    \/ \E m \in Msgs : LoadDeadLetter(m) \/ ReplayFromEvent(m)
    \/ EnqueueReplayed \/ EnqueueReplayedFails
    \/ DiscardDeadLetter
    \/ Interrupt

ReplayNext == (Next /\ UNCHANGED replayVars) \/ ReplayStep

ReplaySpec == ReplayInit /\ [][ReplayNext]_allVars

JobsWithOperator(j) == JobStep(j) /\ UNCHANGED replayVars

\* The jobs and the clock go on; an operator need not finish a command.
ReplayFairness ==
    /\ \A m \in Msgs : WF_allVars(GrowOld(m) /\ UNCHANGED replayVars)
    /\ \A j \in Jobs, m \in Msgs : WF_allVars(LeaseExpires(j, m) /\ UNCHANGED replayVars)
    /\ \A j \in Jobs : WF_allVars(JobsWithOperator(j))

ReplayFairSpec == ReplaySpec /\ ReplayFairness

---------------------------------------------------------------------------
\* A replay gives a message one budget of attempts more, and no interleaving of a
\* command with the job's own count of attempts gives it a further one.
ReplayBudget ==
    \A m \in Msgs : executions[m] <= (MaxRetries - 1) * (1 + replays[m])

\* No message stays in the inbox for ever, whatever is replayed and when.
InboxDrains == \A m \in Msgs : m \in accepted ~> [](inbox[m] = NoItem)
===========================================================================
