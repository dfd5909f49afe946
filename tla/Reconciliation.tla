-------------------------- MODULE Reconciliation --------------------------
(***************************************************************************)
(* The recovery of WhatsApp messages from the inbox: the reconciliation    *)
(* job (src/src/worker/jobs/reconciliation.py) and the lease manager it    *)
(* drives (src/src/worker/lease_manager.py), over the blob store           *)
(* (src/src/data/storage/blob_repo.py).                                    *)
(*                                                                         *)
(* The blob store is shared by every process and offers no transaction     *)
(* and no condition on a write: each load, save and delete is one step.    *)
(* Everything else a job knows (its list of candidates, the work item it   *)
(* loaded, the lease registry) is memory of its own process, gone when     *)
(* the process dies.                                                       *)
(***************************************************************************)
EXTENDS Naturals, FiniteSets

CONSTANTS
    Msgs,        \* message ids; their order is the order the store lists them in
    Jobs,        \* processes that run reconciliation cycles
    NoMsg,       \* the message in hand of a process that has none
    MaxRetries,  \* ReconciliationJob.max_retries
    ScanLimit,   \* the limit of scan_inbox (100 in the code)
    MaxFaults,   \* bound: storage operations that fail
    MaxCrashes   \* bound: processes that die in the middle of a cycle

ASSUME ReconciliationAssumption ==
    /\ Msgs \subseteq Nat
    /\ NoMsg \notin Msgs
    /\ IsFiniteSet(Jobs)
    /\ MaxRetries \in Nat \ {0}
    /\ ScanLimit \in Nat \ {0}
    /\ MaxFaults \in Nat
    /\ MaxCrashes \in Nat

VARIABLES
    \* The blob store.
    inbox,       \* inbox/{m}.json
    dlq,         \* work/dead-letter/{m}.json
    active,      \* the m that have a work/active/{m}.json
    \* The world outside the job.
    accepted,    \* messages the gateway has enqueued
    fresh,       \* messages whose enqueued_at is younger than the orphan threshold
    answered,    \* messages whose sender was sent a reply
    executions,  \* how often the pipeline ran for each message
    \* Each job process.
    pc,          \* what it does next
    todo,        \* message ids of the scan it has not come to yet
    cur,         \* the message in hand
    item,        \* leased_work_item: its copy of the inbox blob
    original,    \* inbox_data: what dead_letter_work_item loaded
    leases,      \* the unexpired entries of its _active_leases
    \* Bounds.
    faults, crashes

blobs == <<inbox, dlq, active>>
world == <<accepted, fresh, answered, executions>>
locals == <<pc, todo, cur, item, original, leases>>
vars == <<inbox, dlq, active, accepted, fresh, answered, executions,
          pc, todo, cur, item, original, leases, faults, crashes>>

---------------------------------------------------------------------------
\* A work item. `whole` says that it carries what the gateway put in it, the
\* input and enqueued_at; an item without them is a dead-letter envelope that
\* was put into the inbox in the item's place (see DeadLetterReplay).
WorkItems == [attempt : 0..MaxRetries, whole : BOOLEAN]
NoItem == [attempt |-> 0, whole |-> FALSE]
NewItem == [attempt |-> 1, whole |-> TRUE]

\* A dead-letter envelope: original_payload and error_details.
Envelopes == [original : WorkItems, details : WorkItems]
NoEntry == [original |-> NoItem, details |-> NoItem]

Steps == {"idle", "visit", "lease", "envelope", "attempt", "pipeline", "complete",
          "dl_load", "dl_save", "dl_delete", "purge"}

TypeOK ==
    /\ inbox \in [Msgs -> WorkItems]
    /\ dlq \in [Msgs -> Envelopes]
    /\ active \subseteq Msgs
    /\ accepted \subseteq Msgs
    /\ fresh \subseteq Msgs
    /\ answered \subseteq Msgs
    /\ executions \in [Msgs -> Nat]
    /\ pc \in [Jobs -> Steps]
    /\ todo \in [Jobs -> SUBSET Msgs]
    /\ cur \in [Jobs -> Msgs \cup {NoMsg}]
    /\ item \in [Jobs -> WorkItems]
    /\ original \in [Jobs -> WorkItems]
    /\ leases \in [Jobs -> SUBSET Msgs]
    /\ faults \in 0..MaxFaults
    /\ crashes \in 0..MaxCrashes

Init ==
    /\ inbox = [m \in Msgs |-> NoItem]
    /\ dlq = [m \in Msgs |-> NoEntry]
    /\ active = {}
    /\ accepted = {}
    /\ fresh = {}
    /\ answered = {}
    /\ executions = [m \in Msgs |-> 0]
    /\ pc = [j \in Jobs |-> "idle"]
    /\ todo = [j \in Jobs |-> {}]
    /\ cur = [j \in Jobs |-> NoMsg]
    /\ item = [j \in Jobs |-> NoItem]
    /\ original = [j \in Jobs |-> NoItem]
    /\ leases = [j \in Jobs |-> {}]
    /\ faults = 0
    /\ crashes = 0

---------------------------------------------------------------------------
\* One storage operation fails. A load or a save raises StorageError; a delete
\* only returns False, which no caller looks at.
Fault == faults < MaxFaults /\ faults' = faults + 1

\* A failed save may have reached the store before the error came back.
SavedOrNot(blob, saved) == {blob, saved}

\* delete_blob, on the inbox: swallows its errors.
DeleteInbox(m) ==
    \/ inbox' = [inbox EXCEPT ![m] = NoItem] /\ UNCHANGED faults
    \/ Fault /\ UNCHANGED inbox

\* The process goes to step s.
Goto(j, s) == pc' = [pc EXCEPT ![j] = s]

Forget(j) ==
    /\ cur' = [cur EXCEPT ![j] = NoMsg]
    /\ item' = [item EXCEPT ![j] = NoItem]
    /\ original' = [original EXCEPT ![j] = NoItem]

\* The loop of run_reconciliation comes to its next message, or to its end.
NextMessage(j, rest) ==
    /\ Goto(j, IF rest = {} THEN "idle" ELSE "visit")
    /\ Forget(j)

\* is_orphan: the message is old enough, or carries no timestamp to tell.
IsOrphan(m) == m \notin fresh \/ ~inbox[m].whole

---------------------------------------------------------------------------
\* The gateway enqueues a message under an id it has just generated.
Enqueue(m) ==
    /\ m \notin accepted
    /\ inbox' = [inbox EXCEPT ![m] = NewItem]
    /\ accepted' = accepted \cup {m}
    /\ fresh' = fresh \cup {m}
    /\ UNCHANGED <<dlq, active, answered, executions, locals, faults, crashes>>

\* orphan_threshold_seconds pass after enqueued_at.
GrowOld(m) ==
    /\ m \in fresh
    /\ fresh' = fresh \ {m}
    /\ UNCHANGED <<blobs, accepted, answered, executions, locals, faults, crashes>>

\* duration_seconds pass after a lease was taken: its entry stays, and counts no more.
LeaseExpires(j, m) ==
    /\ m \in leases[j]
    /\ leases' = [leases EXCEPT ![j] = @ \ {m}]
    /\ UNCHANGED <<blobs, world, pc, todo, cur, item, original, faults, crashes>>

\* scan_inbox: what is in the inbox and not leased by this very process, the
\* first ScanLimit of it. A listing that fails returns nothing, as an empty one.
Available(j) == {m \in Msgs : inbox[m] # NoItem /\ m \notin leases[j]}

ScanInbox(j) ==
    LET found == Available(j)
    IN  {m \in found : Cardinality({n \in found : n < m}) < ScanLimit}

StartCycle(j) ==
    /\ pc[j] = "idle"
    /\ ScanInbox(j) # {}
    /\ todo' = [todo EXCEPT ![j] = ScanInbox(j)]
    /\ Goto(j, "visit")
    /\ UNCHANGED <<blobs, world, cur, item, original, leases, faults, crashes>>

\* The loop loads its next message and skips it when it is gone or not an orphan.
Visit(j, m) ==
    /\ pc[j] = "visit"
    /\ m \in todo[j] /\ \A n \in todo[j] : m <= n
    /\ todo' = [todo EXCEPT ![j] = @ \ {m}]
    /\ \/ /\ inbox[m] # NoItem /\ IsOrphan(m)
          /\ Goto(j, "lease")
          /\ cur' = [cur EXCEPT ![j] = m]
          /\ UNCHANGED <<item, original>>
       \/ /\ inbox[m] = NoItem \/ ~IsOrphan(m)
          /\ NextMessage(j, todo[j] \ {m})
    /\ UNCHANGED <<blobs, world, leases, faults, crashes>>

\* lease_work_item up to its save: refused when this process holds the lease or
\* the blob is gone; the registry is asked about this process only.
CanLease(j, m) == m \notin leases[j] /\ inbox[m] # NoItem

LeaseWorkItem(j) ==
    /\ pc[j] = "lease"
    /\ LET m == cur[j] IN
       \/ /\ CanLease(j, m)
          /\ leases' = [leases EXCEPT ![j] = @ \cup {m}]
          /\ item' = [item EXCEPT ![j] = inbox[m]]
          /\ Goto(j, "envelope")
          /\ UNCHANGED <<cur, original>>
       \/ /\ ~CanLease(j, m)
          /\ NextMessage(j, todo[j])
          /\ UNCHANGED leases
    /\ UNCHANGED <<blobs, world, todo, faults, crashes>>

\* Mutant: one attempt too many.
SaveActiveOffByOne(j) ==
    /\ pc[j] = "envelope"
    /\ active' = active \cup {cur[j]}
    /\ Goto(j, IF item[j].attempt > MaxRetries THEN "dl_load" ELSE "attempt")
    /\ UNCHANGED <<inbox, dlq, world, todo, cur, item, original, leases, faults, crashes>>

\* The lease is recorded; the attempt counter decides what the job does with it.
SaveActive(j) ==
    /\ pc[j] = "envelope"
    /\ active' = active \cup {cur[j]}
    /\ Goto(j, IF item[j].attempt >= MaxRetries THEN "dl_load" ELSE "attempt")
    /\ UNCHANGED <<inbox, dlq, world, todo, cur, item, original, leases, faults, crashes>>

\* The lease cannot be recorded: the entry is withdrawn, the message skipped.
SaveActiveFails(j) ==
    /\ pc[j] = "envelope"
    /\ Fault
    /\ active' \in SavedOrNot(active, active \cup {cur[j]})
    /\ leases' = [leases EXCEPT ![j] = @ \ {cur[j]}]
    /\ NextMessage(j, todo[j])
    /\ UNCHANGED <<inbox, dlq, world, todo, crashes>>

\* The attempt is counted in the inbox before it is made.
Counted(j) == [attempt |-> item[j].attempt + 1, whole |-> item[j].whole]

\* Mutant: the attempt is counted in the copy, not in the inbox.
SaveAttemptInMemory(j) ==
    /\ pc[j] = "attempt"
    /\ item' = [item EXCEPT ![j].attempt = @ + 1]
    /\ Goto(j, "pipeline")
    /\ UNCHANGED <<blobs, world, todo, cur, original, leases, faults, crashes>>

SaveAttempt(j) ==
    /\ pc[j] = "attempt"
    /\ inbox' = [inbox EXCEPT ![cur[j]] = Counted(j)]
    /\ item' = [item EXCEPT ![j] = Counted(j)]
    /\ Goto(j, "pipeline")
    /\ UNCHANGED <<dlq, active, world, todo, cur, original, leases, faults, crashes>>

\* process_work_item, as the job sees it: it returns after the reply was sent, or
\* it raises, before or after something was sent. An item that is not whole has
\* no participant_ref either: what is sent for it does not go to the sender.
Sent(j) == IF item[j].whole THEN answered \cup {cur[j]} ELSE answered

\* Mutant: the work item is completed whether or not the pipeline raised.
RunPipelineFinally(j) ==
    /\ pc[j] = "pipeline"
    /\ executions' = [executions EXCEPT ![cur[j]] = @ + 1]
    /\ answered' \in {answered, answered \cup {cur[j]}}
    /\ Goto(j, "complete")
    /\ UNCHANGED <<blobs, accepted, fresh, todo, cur, item, original, leases, faults, crashes>>

RunPipeline(j) ==
    /\ pc[j] = "pipeline"
    /\ executions' = [executions EXCEPT ![cur[j]] = @ + 1]
    /\ \/ answered' = Sent(j) /\ Goto(j, "complete")
       \/ /\ answered' \in {answered, Sent(j)}
          /\ Goto(j, IF item[j].attempt >= MaxRetries THEN "dl_load" ELSE "purge")
    /\ UNCHANGED <<blobs, accepted, fresh, todo, cur, item, original, leases, faults, crashes>>

\* complete_work_item deletes the inbox blob, whoever's it is by now.
Complete(j) ==
    /\ pc[j] = "complete"
    /\ DeleteInbox(cur[j])
    /\ Goto(j, "purge")
    /\ UNCHANGED <<dlq, active, world, todo, cur, item, original, leases, crashes>>

\* Mutant: the inbox blob is deleted as soon as it is loaded.
DeadLetterTake(j) ==
    /\ pc[j] = "dl_load"
    /\ original' = [original EXCEPT ![j] = inbox[cur[j]]]
    /\ inbox' = [inbox EXCEPT ![cur[j]] = NoItem]
    /\ Goto(j, "dl_save")
    /\ UNCHANGED <<dlq, active, world, todo, cur, item, leases, faults, crashes>>

\* dead_letter_work_item loads the inbox blob again, and makes do without it, ...
DeadLetterLoad(j) ==
    /\ pc[j] = "dl_load"
    /\ original' = [original EXCEPT ![j] = inbox[cur[j]]]
    /\ Goto(j, "dl_save")
    /\ UNCHANGED <<blobs, world, todo, cur, item, leases, faults, crashes>>

\* Mutant: the envelope holds the diagnostics only.
DeadLetterBare(j) == [original |-> NoItem, details |-> item[j]]

DeadLetter(j) == [original |-> original[j], details |-> item[j]]

\* ... saves the envelope, over one that may be there already, ...
DeadLetterSave(j) ==
    /\ pc[j] = "dl_save"
    /\ dlq' = [dlq EXCEPT ![cur[j]] = DeadLetter(j)]
    /\ Goto(j, "dl_delete")
    /\ UNCHANGED <<inbox, active, world, todo, cur, item, original, leases, faults, crashes>>

\* Mutant: the inbox blob stays.
DeadLetterCopy(j) ==
    /\ pc[j] = "dl_delete"
    /\ Goto(j, "purge")
    /\ UNCHANGED <<blobs, world, todo, cur, item, original, leases, faults, crashes>>

\* ... and deletes the inbox blob.
DeadLetterDelete(j) ==
    /\ pc[j] = "dl_delete"
    /\ DeleteInbox(cur[j])
    /\ Goto(j, "purge")
    /\ UNCHANGED <<dlq, active, world, todo, cur, item, original, leases, crashes>>

\* Every way out of a lease: the active blob is deleted and the entry dropped.
Purge(j) ==
    /\ pc[j] = "purge"
    /\ \/ active' = active \ {cur[j]} /\ UNCHANGED faults
       \/ Fault /\ UNCHANGED active
    /\ leases' = [leases EXCEPT ![j] = @ \ {cur[j]}]
    /\ NextMessage(j, todo[j])
    /\ UNCHANGED <<inbox, dlq, world, todo, crashes>>

\* A load or a save outside the try block raises: the cycle is over, for the
\* messages it has not come to as well. The registry keeps its entries.
Abort(j) ==
    /\ Fault
    /\ Goto(j, "idle")
    /\ todo' = [todo EXCEPT ![j] = {}]
    /\ Forget(j)

LoadFails(j) ==
    /\ pc[j] \in {"visit", "lease", "dl_load"}
    /\ Abort(j)
    /\ UNCHANGED <<blobs, world, leases, crashes>>

SaveAttemptFails(j) ==
    /\ pc[j] = "attempt"
    /\ Abort(j)
    /\ inbox' \in SavedOrNot(inbox, [inbox EXCEPT ![cur[j]] = Counted(j)])
    /\ UNCHANGED <<dlq, active, world, leases, crashes>>

DeadLetterSaveFails(j) ==
    /\ pc[j] = "dl_save"
    /\ Abort(j)
    /\ dlq' \in SavedOrNot(dlq, [dlq EXCEPT ![cur[j]] = DeadLetter(j)])
    /\ UNCHANGED <<inbox, active, world, leases, crashes>>

\* The process dies, and a new one with an empty registry takes its place.
Crash(j) ==
    /\ pc[j] # "idle"
    /\ crashes < MaxCrashes /\ crashes' = crashes + 1
    /\ Goto(j, "idle")
    /\ todo' = [todo EXCEPT ![j] = {}]
    /\ Forget(j)
    /\ leases' = [leases EXCEPT ![j] = {}]
    /\ UNCHANGED <<blobs, world, faults>>

---------------------------------------------------------------------------
JobStep(j) ==
    \/ StartCycle(j)
    \/ \E m \in Msgs : Visit(j, m)
    \/ LeaseWorkItem(j)
    \/ SaveActive(j)
    \/ SaveAttempt(j)
    \/ RunPipeline(j)
    \/ Complete(j)
    \/ DeadLetterLoad(j)
    \/ DeadLetterSave(j)
    \/ DeadLetterDelete(j)
    \/ Purge(j)

JobFailure(j) ==
    \/ SaveActiveFails(j)
    \/ LoadFails(j)
    \/ SaveAttemptFails(j)
    \/ DeadLetterSaveFails(j)
    \/ Crash(j)

Next ==
    \/ \E m \in Msgs : Enqueue(m) \/ GrowOld(m)
    \/ \E j \in Jobs, m \in Msgs : LeaseExpires(j, m)
    \/ \E j \in Jobs : JobStep(j) \/ JobFailure(j)

Spec == Init /\ [][Next]_vars

\* Time passes, and a process that can take a step takes it: the schedule starts a cycle
\* every 15 minutes. A pipeline that waits for ever is killed with its job after five, which
\* is a Crash; as its attempt was counted before, no message can do that more often than it
\* has attempts.
Fairness ==
    /\ \A m \in Msgs : WF_vars(GrowOld(m))
    /\ \A j \in Jobs, m \in Msgs : WF_vars(LeaseExpires(j, m))
    /\ \A j \in Jobs : WF_vars(JobStep(j))

FairSpec == Spec /\ Fairness

---------------------------------------------------------------------------
(* Properties of any number of processes.                                  *)

\* The blob holds what the gateway enqueued.
HoldsMessage(envelope) == envelope.original.whole \/ envelope.details.whole

\* No message is lost: one that the gateway enqueued was answered, or is still in
\* the inbox, or is in the dead-letter queue, whatever processes crash, whatever
\* storage operations fail and however the processes interleave (the order of the
\* writes in complete_work_item and dead_letter_work_item).
NoLoss ==
    \A m \in accepted :
        m \in answered \/ inbox[m].whole \/ HoldsMessage(dlq[m])

\* Processes that lease the same message at once undo each other's count of the
\* attempts (run_reconciliation saves back a copy it loaded earlier), yet the
\* pipeline does not run without end. With the default of 3 retries, a count of 2
\* is saved by a process that loaded 1, at most n times; after the k-th such save
\* at most k processes can have loaded 2, and each of them runs once more.
FleetWorkBound ==
    LET n == Cardinality(Jobs)
    IN  MaxRetries = 3 =>
          \A m \in Msgs : executions[m] <= n + (n * (n + 1)) \div 2

\* Every accepted message comes to rest: its inbox blob is gone for good, with an
\* answer sent or a dead-letter envelope left behind.
AtRest(m) == inbox[m] = NoItem /\ (m \in answered \/ dlq[m] # NoEntry)

EventuallyAtRest == \A m \in Msgs : m \in accepted ~> []AtRest(m)

\* What the blobs say of a message; "lost" is no state of the lifecycle.
Status(m) ==
    IF m \in answered THEN "answered"
    ELSE IF HoldsMessage(dlq[m]) THEN "set_aside"
    ELSE IF inbox[m].whole THEN "waiting"
    ELSE IF m \in accepted THEN "lost" ELSE "unknown"

Lifecycle == INSTANCE MessageLifecycle WITH
    status <- [m \in Msgs |-> Status(m)],
    LateAnswers <- Cardinality(Jobs) # 1

\* Every step changes the status of one message at most, and as the lifecycle allows.
FollowsLifecycle == Lifecycle!SafeSpec

\* The jobs implement the lifecycle: moreover no message waits for ever.
ImplementsLifecycle == Lifecycle!Spec

---------------------------------------------------------------------------
(* Properties of a single process, which is how the schedule runs the job. *)

\* The attempts are a budget: they are counted before they are made, so neither a
\* crash nor a failed delete makes the pipeline run, and the reply go out, more
\* often than max_retries - 1 times.
WorkBudget == \A m \in Msgs : executions[m] <= MaxRetries - 1

\* A message that was dead-lettered is not processed again, even when the process
\* died between saving the envelope and deleting the inbox blob.
DeadLetterIsFinal ==
    [][\A m \in Msgs : dlq[m] # NoEntry => executions'[m] = executions[m]]_vars

\* An envelope carries the work item to replay, also when it is written twice.
DeadLetterKeepsOriginal == \A m \in Msgs : dlq[m] # NoEntry => dlq[m].original.whole
===========================================================================
