# Ermozhi in TLA+

Ermozhi answers turmeric farmers on WhatsApp: a farmer sends an offer as a text or a
voice note, and gets back whether to sell, to negotiate, to hold or to wait, judged
against public market data. This directory holds a TLA+ model of the program, the TLC
configurations that check it on small instances, and theorems that TLAPS checks for
every size.

## 1. The system

    Meta webhook -> rate limiter -> gateway -> events/ inbox/ index/      (blob store)
    Meta status  -> gateway -> events/{day}/{wamid}_status.json
                                  |
       every 15 minutes:  reconciliation job -> lease -> pipeline -> WhatsApp client -> Meta
                                  |                         |
                          work/dead-letter/        market/snapshots/latest.json
                                  |                         ^
             operator: tools/replay.py          hourly: ingestion run <- data.gov.in
             nightly: cleanup of work/active/ and media/

Every process shares one blob store and nothing else. The store has no transactions and
no conditions on writes: a load, a save and a delete are the units of interleaving. A
save or a load that fails raises; a delete that fails only returns `False`.

| Component | State it keeps | Operations | Hard behaviour | What makes it correct |
|---|---|---|---|---|
| Gateway webhook, event store | `events/`, `inbox/`, `index/providers/` | `receive_meta_webhook`, `check_duplicate`, `persist_inbound_message` | redelivery, several replicas, three separate writes, crashes between them | what is acknowledged is durable; duplicates have a cause |
| Rate limiter | windows per sender, in the memory of each process | `is_allowed` | a budget per process, renewed by a restart | admissions in any window are bounded; a refused message gets in later |
| Delivery status log | `events/{day}/{wamid}_status.json` | `_append_status_transition` | load, append, save by concurrent callbacks; midnight within a callback | an acknowledged report is in a log, once per delivery |
| Lease manager | `work/active/`, registry in memory | `scan_inbox`, `lease_work_item`, `complete_work_item`, `dead_letter_work_item` | the registry knows its own process only | no message is lost, whoever else works on it |
| Reconciliation job | attempt count in the inbox blob | `run_reconciliation`, `is_orphan` | crash between any two writes, silent failures of deletes, stale copies | bounded work, a final dead letter, all messages come to rest |
| Replay tool | none | `replay_dead_letter`, `replay_from_event` | runs at any moment of a job's cycle | a replay gives one more budget and loses nothing |
| Intelligence adapter, validator, contract | none (what a model answers is not known) | `process_input`, `validate`, `IntelligenceOutput` | any answer, or none, of the language model | the engine never hears a value that stands in for a missing one |
| Worker pipeline, WhatsApp client, language engine | none that outlives an execution | `process_work_item`, `send_message`, `_post_with_retry`, `synthesize_to_storage` | lost responses, retries within retries, a part sent and the next failing | a return means that Meta has accepted all parts |
| Decision engine | none (a pure function) | `evaluate` | thresholds written down several times | gradings that agree, monotone in offer and evidence |
| Ingestion runner, publisher | `market/raw`, `quarantine`, `curated`, `snapshots` | `run_ingestion`, `build_snapshot`, `publish` | failed fetches, runs that die half-way, wrong records | snapshots rest on curated records |
| Snapshot reader | cache in memory | `get_latest_snapshot` | stale cache | the market is seen in the end |
| Cleanup job | none (deletes in `work/active/`, `media/`) | `run_cleanup` | lists and loads that are stale when it deletes, failed deletes | no envelope and no voice note stays for good |

The schedule (`deploy/azure/jobs/`) starts the reconciliation job every 15 minutes with a
time limit of 5, and the ingestion hourly with the same limit, so by schedule there is one
of each at a time. The worker and the gateway may have two replicas; the runbook describes
workers that lease messages from the inbox, and the lease manager is written for them.
That is why Reconciliation has a set of processes, and its properties come in two groups.

## 2. Modules

| Module | Models | Composes |
|---|---|---|
| `MessageLifecycle` | abstract: a message waits, is answered, or is set aside | |
| `Reconciliation` | `worker/jobs/reconciliation.py`, `worker/lease_manager.py` over `data/storage/blob_repo.py` | implements `MessageLifecycle` |
| `DeadLetterReplay` | `tools/replay.py` | extends `Reconciliation`: an operator beside running jobs |
| `Cleanup` | `worker/jobs/cleanup.py` | extends `Reconciliation`: a cleanup beside running jobs |
| `Ingress` | `gateway/routes/meta.py`, `platform/storage/event_store.py` | |
| `Gateway` | `gateway/middleware/rate_limit.py`, webhooks of several messages | extends and implements `Ingress` |
| `StatusLog` | `gateway/routes/status.py` | |
| `Extraction` | `intelligence/adapter.py`, `intelligence/validator.py`, `contracts/v1/intelligence.py` | operators only |
| `Delivery` | `worker/pipeline.py`, `channels/meta/client.py`, `language/engine.py` | over `Extraction`; refines `RunPipeline` of `Reconciliation` (by its comment, not by a mapping) |
| `DecisionEngine` | `decision_engine/engine.py` | its `Raised` is an outcome of `Lookup` in `Delivery` |
| `MarketData` | `data/ingestion/`, `data/snapshots/`, `data/reader.py` | publishes what `DecisionEngine` calls `Published` and `NoData` |
| `ReconciliationProofs` | theorems of `Reconciliation`, and its refinement of `MessageLifecycle` | |
| `ReplayProofs`, `CleanupProofs` | theorems of `DeadLetterReplay` and `Cleanup` | use `ReconciliationProofs` |
| `GatewayProofs` | theorems of `Ingress` and `Gateway` | |
| `StatusLogProofs`, `DeliveryProofs`, `EngineProofs`, `MarketProofs` | theorems of the module they name | |
| `MC*` | constants for TLC | |

### Reconciliation

State: `inbox`, `dlq` and `active` are the three blob directories by message id; `pc`,
`todo`, `cur`, `item`, `original` and `leases` are the local variables of
`run_reconciliation` and `dead_letter_work_item` and the registry of a process;
`accepted`, `fresh`, `answered` and `executions` are the world outside. A work item is
reduced to its attempt count and to whether it is *whole*, that is, carries what the
gateway put in it: a replay of an envelope with an empty `original_payload` enqueues the
envelope itself, and then it does not.

Each storage operation is an action, in the order of the code: `Visit` (load), `LeaseWorkItem`
(load), `SaveActive`, `SaveAttempt`, `RunPipeline`, `Complete`, `Purge`, and for the dead
letter `DeadLetterLoad`, `DeadLetterSave`, `DeadLetterDelete`, `Purge`. Failures are
actions of their own (`LoadFails`, `SaveActiveFails`, `SaveAttemptFails`,
`DeadLetterSaveFails`, `Crash`) except for deletes, whose failure the code does not
notice. A save that raises may have landed. An exception outside the `try` block ends the
whole cycle (`Abort`), and the registry keeps its entries. Time is `GrowOld` (600 seconds
pass after `enqueued_at`) and `LeaseExpires` (60 seconds); the clock may do either at any
moment, so every ratio of the two periods to the speed of a process is covered.

### DeadLetterReplay

A command of the operator is a process without a lease: it loads the envelope, saves the
inbox blob, deletes the envelope, each a step between the steps of the jobs. It may be
interrupted between any two.

### Cleanup

The run lists `media/`, deletes by the date in each path, lists `work/active/`, and loads
and deletes envelope by envelope: `StartSweep`, `SweepMedia`, `ListEnvelopes`,
`LoadEnvelope`, `DeleteEnvelope`, `FinishSweep`, each between two steps of a job. `stale`
are the envelopes that expired an hour ago or more. A job that is at work on a message
never sees its envelope become stale, for its time limit is five minutes. It does find it
deleted when the cleanup had loaded the envelope of an earlier lease. A listing that
fails is empty, a delete that fails is not noticed, a load that fails ends the run.

### Ingress

One request per replica at a time: the handler does not await between its look at the
index and its last write. A request makes up a message id, so the n-th delivery of `p`
has the id `<<p, n>>`. `enqueued` remembers every blob ever written to the inbox, for
whether a job has since taken it is not the gateway's concern. A refusal by the rate
limiter is here a bounded failure that may happen at any moment (`RateLimited`).

### Gateway

`Gateway` puts the limiter itself in front of `Ingress`, for one sender: `windows` is what
a replica has in its list of time stamps, by the message id of the request that left each,
and `age` how many ticks of a clock ago that was, up to the length of the window. The list
is pruned when the limiter is asked (`Admit`, `Refuse`) and dies with its process (`Die`);
the order of the stamps matters to Retry-After only. The requests whose `age` is below
`Window` are what an observer would count. A webhook may carry several messages; the handler stores the first
and its 200 covers all (`told`); those behind another are in `rode`. Every other action is
one of `Ingress`, and `ImplementsIngress`, a theorem, says that nothing else happens to
the store. A refusal is a stutter there.

### StatusLog

The log of one message, a blob per day. `LoadLog` and `SaveLog` are the two halves of
`_append_status_transition`; the day is taken at the load, anew for each report of a
callback. `overlap` is a history variable: two callbacks have held a copy of the same log
at once. That is the case in which the code loses transitions, and the properties say it
is the only one. A replica has one callback under way, as the handler does not await
between load and save.

### Extraction

What becomes of the model's answer, as operators: the raw answer is a member of a set
(a variety field, a price, whether its confidence can be read as a number, whether it
names a crop or district without snapshots), and `Validate`, `Contracted` and `Heuristic`
are the code's. A variety field is known by the varieties it has an alias of (`alias`) and
those of whose aliases it is a part (`part`); the validator takes both for read. A price is
a model value, and the constant `Kept` gives the number that its digits and points make
once all else is dropped, which need not be the price that was meant ("Rs. 14200" keeps
.14200). A price below half a paisa is positive and becomes 0, which is not missing: the
contract refuses it (`Raises`), and nothing behind it would. `ProcessInput` is the set of
all that the validator may get for a text, a voice note or another kind of message.

### Delivery

One message, a text, a voice note or something else, and its executions. `said` is the
model's answer in this execution and `extraction` its validated form, kept until the
engine has judged it. `window` is Meta's 24 hours after the farmer's message; `stamp` is
what the pipeline can tell of it from `enqueued_at`, which is not the time of the message
but of the gateway when it accepted it. It is `later` when the webhook got through only
when it was delivered again, after a 429, a failure or a lost 200, and when an operator
replayed the event: then the stamp outlives the window. `open` remembers whether the
window was open when `send_message` looked. `accepted` is what Meta has accepted in this
execution, `received` what the farmer got in all of them. A post may be accepted and its
response lost, or be answered with a 5xx all the same. `hung` is an execution that waits
without a limit of its own: for the language model (`ModelHangs`) or for as long as a
Retry-After says (`PostRefused`); the platform's time limit for the job ends it (`Kill`).

### DecisionEngine

`evaluate` in integers fine enough for all constants of the code: ratios in 1/10000 as
the code rounds them, scores in thousandths of a point. Where Python rounds a decimal
fraction half to even, or a float falls a hair below a tie, the model rounds up; no
property depends on a tenth of a point. The engine is a function; to compare its verdicts
the module has a farmer who asks again, with one input changed per step.

### MarketData

A record is a day and whether it is valid; both varieties trade on the same days. `latest`
and `versioned` are the two blobs of `publish`. The failure of a fetch and the failure of
a blob operation differ as in the code: the first publishes an empty snapshot, the second
ends the run.

## 3. Runs

| Run | Configuration | States | Question |
|---|---|---|---|
| `recon_single` | 2 messages, 1 process, 3 retries, scan limit 1, 2 faults, 1 crash | 55 000 | the job as it is scheduled |
| `recon_fleet` | 1 message, 2 processes, 1 fault, 1 crash | 104 000 | what survives when the lease keeps nobody out |
| `replay` | 1 message, 1 process, 2 replays, 2 faults, 1 crash | 44 000 | an operator at the wrong moment |
| `cleanup` | 1 message, 1 process, 1 voice note, 2 faults, 1 crash | 31 000 | does anything stay for good |
| `ingress` | 1 provider message, 2 replicas, 4 deliveries, 2 faults, 1 crash | 17 000 | what a 200 is worth |
| `gateway` | 2 messages, 1 replica, 3 deliveries, limit 2 in 2 ticks, 1 fault, 1 crash | 424 000 | the same for whole webhooks behind the rate limit |
| `status` | 2 reports, 2 replicas, 2 days, 2 deliveries, 1 fault | 40 000 | what is lost of the status log, and when |
| `engine` | 11 prices, 5 extractions, 5 date counts, 10 volatilities | 20 000 | do the thresholds agree |
| `delivery` | 3 kinds of message, 4 prices, 2 executions, 3 posts per part, 3 lost responses, 1 crash | 128 000 | what a return value, a retry and the model's answer mean |
| `market` | 3 days, 2 varieties, 2 faults | 427 000 | what the engine is fed |
| `replay_loss`, `engine_no_data` | smaller | | disagreements, section 5 |

Why the bounds are enough:

- *Messages.* Messages meet only in `ScanLimit`, in the order of the loop and in `Abort`.
  Two messages and a limit of one show all three. The fleet needs one: two processes
  interfere on the same message only. `NoLoss` and the budget are proved for any number.
- *Retries.* 3, the default. All the paths of the attempt count are there: fresh, one
  failure, the last failure, and found at the limit.
- *Faults and crashes.* The deepest known scenarios take two (a save that landed although
  it raised, then a delete that fails silently; a failed run after a good one). One crash
  at every step, on top. The theorems have no such bound.
- *Deliveries.* Four, so that after two failed attempts and a duplicate one is left. In
  `gateway` three of each message: two messages share the limit of two, so a third request
  in the window is refused, and one message can ride behind the other and be redelivered
  alone. One replica, for replicas meet in the store only, which `ingress` and the
  theorems cover, and in the sum of their budgets.
- *Status.* Two reports give callbacks of one and of two in either order; two days a
  midnight between any two steps; two replicas the overlap.
- *Cleanup.* One message: envelopes do not touch each other but in the load that ends a
  run, for which two faults and the next night suffice.
- *Prices.* None, one that keeps its value, one that loses it ("Rs. 14200") and one so
  small that it is positive and becomes 0: what the validator and the contract tell apart.
- *Engine.* Each threshold appears with a value on it and one beyond it: ratios around
  0.70, 0.80, 0.90, 1.00 and the ceiling at 1.10, confidences around 0.60 and 0.85,
  1, 2, 3, 5 and 7 dates, volatilities around 4, 7, 10 and 15 percent.
- *Market.* Three days, an SLA of one day and a minimum of two dates give all four
  freshness states and the changes between them; a fetch limit of two makes old records
  drop out of the fetch. Days stand for the 72 hours, which the code rounds to days too.

`CHECK_DEADLOCK FALSE` is set where the bounded system ends: all messages at rest and
all deliveries made. It is not set for the engine and the market, which go on.

### Properties

Of any number of reconciliation processes: `FleetWorkBound` (with 3 retries at most
n + n(n+1)/2 executions: a save of a stale copy can undo a count, but only as often as
there are processes holding one); `EventuallyAtRest`; `FollowsLifecycle`. Of one process,
as scheduled: `NoLoss` (proved for any number), `WorkBudget`, `DeadLetterIsFinal`,
`DeadLetterKeepsOriginal`, `EventuallyAtRest`, `ImplementsLifecycle`. Under replays:
`ReplayBudget`, `InboxDrains`, `DeadLetterKeepsOriginal`. Of the cleanup: `EnvelopesGo`,
`MediaGoes`. Of the storage protocol: `AckedIsDurable`, `WriteOrder`,
`DuplicatesAccounted`, `EventuallyAcked`. Of the gateway: `ToldIsStored`,
`AdmissionsBounded`, `EventuallyTold`. Of the status log: `AckedIsLogged`,
`OneCopyPerDelivery`, `SettledStays`, `EventuallyLogged`. Of the engine: `GradesAgree`,
`ScoreMatchesAction`, `BetterOfferNeverWorse`, `WeakerEvidenceNeverBolder`. Of delivery:
`EngineGetsWhatWasRead`, `ReturnedMeansAccepted`, `AudioFollowsText`, `CopiesAccounted`,
`FailureHasCause`, `FreeFormWasInWindow`, `ExecutionEnds`. Of the market:
`PublishedIsCurated`, `CuratedStays`, `CleanRunPublishesAll`, `WorkersSeeTheMarket`. Each
is stated in words above its definition.

The type invariants are in no run, for they are theorems: `TypeOK`, `ReplayTypeOK`,
`CleanupTypeOK`, `IngressTypeOK`, `GatewayTypeOK`, `StatusTypeOK`, `DeliveryTypeOK`,
`EngineTypeOK` and `MarketTypeOK`.

Definitions commented "Mutant" are variants of an action with a plausible bug, and each
property fails for one of them; no specification uses them.

### Fairness

- *Jobs* (`WF` of `JobStep`): the schedule starts a cycle every 15 minutes. A cycle may
  wait without a limit of its own, as `generate_content` has no timeout and a Retry-After
  any length; then the platform kills the job after five minutes (`replicaTimeout`), and
  the attempt was counted before it began. In `Reconciliation` that is a `Crash`; a message
  can bring about no more of them than it has attempts. Failures and
  crashes are never fair; their number is bounded, as liveness after infinitely many
  failures cannot be expected.
- *Time* (`WF` of `GrowOld`, `LeaseExpires`, `CacheExpires`, `NextDay`, of `Tick` in
  `Gateway`, of `EnvelopeAges` and `MediaAges` in `Cleanup`): clocks run. Midnight in
  `StatusLog` is not fair; it may come or not.
- *Requests* (`WF` of `RequestStep`, `HandlerStep`, `CallbackStep`): a handler that has
  begun goes on. *Executions* (`WF` of `PipelineStep` unless
  `hung`): calls to Meta, to the store and for the synthesis have timeouts or are answered.
  Where an execution hangs, for the model or in a long sleep, only the platform's limit
  ends it (`WF` of `Kill`); it is no fault of the bounded kind.
- *Provider* (`WF` of `Redeliver`, of `ReceiveAgain` in `Gateway`): Meta delivers again
  what was not answered with 200, at the latest in a webhook of its own. Only as many
  deliveries as the bound allows; it exceeds faults and crashes together.
- *Cleanup* (`WF` of `SweepStep`): it runs every night, and goes on once it runs.
- *Operator*: none. A command may stop half-way for good.
- *Workers and market*: runs are started again and again, and a worker reads on.

### The refinement

`MessageLifecycle` has one variable, the status of each message. `Reconciliation` maps to
it by `Status`: answered if an answer was sent, else set aside if an envelope holds the
message, else waiting if the inbox holds it. A dead letter after an answer (the pipeline
sent and then raised) maps to a stutter, as does a dead letter that a second process
writes again. The constant `LateAnswers` says that with several processes a message that
one of them set aside may still be answered by another; with one it may not.

## 4. Theorems

From the assumptions of the constants alone (`ReconciliationAssumption`,
`IngressAssumption`, `GatewayAssumption`, `StatusLogAssumption`, `ExtractionAssumption`,
`DeliveryAssumption`, `EngineAssumption`, `MarketAssumption`), for all values and with no
bound on faults, crashes or deliveries but that they are numbers. The sets of jobs and of
replicas are finite, because the counting arguments count them; the sets of messages,
reports and media need not be.

| Theorem | States |
|---|---|
| `TypeCorrect` | `Spec => []TypeOK` |
| `MessagesAreNotLost` | `Spec => []NoLoss`, any number of processes |
| `SingleJobKeepsBudget` | `OneJob => (Spec => []WorkBudget)` |
| `SingleJobKeepsOriginal` | `OneJob => (Spec => []DeadLetterKeepsOriginal)` |
| `SingleJobDeadLetterIsFinal` | `OneJob => (Spec => DeadLetterIsFinal)` |
| `JobsFollowLifecycle` | `Spec => FollowsLifecycle`, any number of processes |
| `FleetKeepsBound` | `Spec => []FleetWorkBound`, any number of processes |
| `ReplayTypeCorrect` | `ReplaySpec => [](TypeOK /\ ReplayTypeOK)` |
| `ReplaysKeepBudget` | `OneJob => (ReplaySpec => []ReplayBudget)`, any number of replays |
| `ReplaysKeepOriginal` | `OneJob => (ReplaySpec => []DeadLetterKeepsOriginal)` |
| `CleanupTypeCorrect` | `CleanupSpec => []CleanupTypeOK` |
| `CleanupLosesNothing`, `CleanupKeepsFleetBound` | `CleanupSpec => [](NoLoss /\ FleetWorkBound)`, any number of processes |
| `CleanupKeepsBudget` | `OneJob => (CleanupSpec => [](WorkBudget /\ DeadLetterKeepsOriginal))` |
| `CleanupDeadLetterIsFinal` | `OneJob => (CleanupSpec => DeadLetterIsFinal)` |
| `CleanupFollowsLifecycle` | `CleanupSpec => FollowsLifecycle`, any number of processes |
| `IngressTypes` | `Spec => []IngressTypeOK` |
| `AcknowledgedIsDurable`, `WritesKeepTheirOrder` | `Spec => [](AckedIsDurable /\ WriteOrder)`, any number of replicas |
| `DuplicatesHaveCauses` | `Spec => []DuplicatesAccounted` |
| `GatewayImplementsIngress` | `GatewaySpec => ImplementsIngress` |
| `GatewayAcksAreDurable`, `GatewayDuplicatesHaveCauses` | `GatewaySpec => [](AckedIsDurable /\ WriteOrder /\ DuplicatesAccounted)` |
| `TheToldAreStored` | `GatewaySpec => []ToldIsStored` |
| `GatewayTypes` | `GatewaySpec => [](IngressTypeOK /\ GatewayTypeOK)` |
| `AdmissionsAreBounded` | `GatewaySpec => []AdmissionsBounded`, any number of replicas, limit and window |
| `StatusTypes` | `Spec => []StatusTypeOK` |
| `TheSettledStay` | `Spec => SettledStays` |
| `TheAckedAreLogged` | `Spec => []AckedIsLogged`, any number of replicas and days |
| `OneCopyEach` | `Spec => []OneCopyPerDelivery`, any number of replicas and days |
| `DeliveryTypes` | `Spec => []DeliveryTypeOK` |
| `NoStandInIsJudged` | `Spec => []EngineGetsWhatWasRead`, any prices and any `Kept` |
| `ReturnIsAcceptance`, `TextComesFirst` | `Spec => [](ReturnedMeansAccepted /\ AudioFollowsText)` |
| `CopiesHaveCauses` | `Spec => []CopiesAccounted` |
| `FailuresHaveCauses` | `Spec => FailureHasCause` |
| `WindowIsKept` | `Spec => FreeFormWasInWindow` |
| `ScoresInRange` | `Spec => []EngineTypeOK` |
| `ScoreFollowsAction` | `Spec => []ScoreMatchesAction` |
| `GradingsAgree` | `Spec => []GradesAgree` |
| `BetterOffer` | `Spec => BetterOfferNeverWorse` |
| `WeakerEvidence` | `Spec => WeakerEvidenceNeverBolder` |
| `MarketTypes` | `Spec => []MarketTypeOK` |
| `SnapshotsAreCurated` | `Spec => []PublishedIsCurated`, any number of days |
| `TheCuratedStay` | `Spec => CuratedStays` |
| `ACleanRunIsComplete` | `Spec => []CleanRunPublishesAll` |

*TypeCorrect* needs `HandInv`: a process that works has a message in hand, and one that
counts an attempt has attempts left; without it `cur[j]` may be `NoMsg` and the count may
leave its range.

*MessagesAreNotLost.* `NoLoss` alone is not inductive: a process about to delete an inbox
blob would be free to delete the only copy. The invariant adds what the order of the
writes gives: a process that is to complete a message has answered it (or holds an item
that is not whole), and one that is to delete after a dead letter finds the message in
the envelope. Other processes may write the envelope in between, but never an emptier one
while the message is nowhere else. `WholeInv` says that without an operator all items
are whole.

*The single-job theorems* rest on `CopyInv`: the copy a process holds equals the inbox
blob, which is what fails with two processes. From it, `CountInv` (the count in the blob
is ahead of the executions) gives the budget, and `SpentInv` (what has an envelope has no
attempts left) gives the other two.

*JobsFollowLifecycle* maps every action by hand: `Enqueue` to `Accept`, `RunPipeline` to
`Answer` or a stutter, `DeadLetterSave` to `SetAside` or a stutter, the rest to stutters.
With one process the step from set aside to answered is excluded by `SingleInv`.

*FleetKeepsBound* counts stale copies. `Loaded(m, k)` are the processes that leased a
message at a count of k and have not yet counted the attempt, `Running(m)` those that have
counted one and not yet made it. What bounds them is `Balance`: an item that counts 1 has no
past; otherwise the executions made, those about to be made and the processes that hold a 1
come to at most n + Triangle(n - h), where h of the n processes hold a 1. Each of those can
bring a 2 back once, and after the k-th such save k processes at most can load it, so a save
gives up one term of the triangle. `AttemptInv` (no count is 0, what was not accepted was
not executed) covers the rest. The bound is stated for the default of 3 retries: with more,
a count can be undone from several values and the triangle becomes a larger sum.

*The replay theorems* cannot use `CopyInv`: an operator's save changes the inbox under the
job. `AccountsInv` is a balance of attempts instead. For each message, the executions so far,
those a command under way is about to grant (`Ordered`) and those the blob in the inbox still
allows (`Left`) come to no more than the budgets granted (`Granted`). While the job holds a
copy whose count will replace the one in the inbox, its copy is what counts; once it has
saved, the execution it is about to make is added. `SafeCopyInv` says that every copy is
whole, and that under one job a leased item stays in the inbox until the job deletes it.

*The cleanup theorems* follow from one lemma, `CleanupStepIsBeside`: a step of `Cleanup` is
a step of the jobs or leaves all but `work/active/` alone. No invariant of the jobs speaks of
`work/active/`, for no job reads it, so all of them carry over. That the cleanup is harmless
to the jobs is thus a fact about what it writes, not about when it runs.

*AcknowledgedIsDurable* needs `RequestInv`, what a request knows at each step: past the
first write its event is stored, past the second its work item too, before a 200 the index
has an entry. That stays true under the steps of the other replicas because no step
removes anything (`StoreGrows`); an index entry may be overwritten by a later delivery,
whose event and work item are then stored as well (`WriteOrder`).

*DuplicatesHaveCauses* counts. `ExcessInv` says, for each message, that as long as the
index does not know it, its work items are those of requests about to write the entry
(`After`) or paid for by a failure; and that its work items and the requests that may still
write one (`Before`) together do not exceed replicas, failures and crashes. The first part
is what lets a further request see no entry without breaking the second. It needs a finite
set of replicas, which `IngressAssumption` says.

*The gateway* maps to `Ingress` with the same variables: each action is one of `Ingress` or
leaves them alone. `TheToldAreStored` adds `ToldInv`: a message covered by a 200 that was
the first of its webhook is among the acknowledged ones.

*AdmissionsAreBounded* rests on `WindowInv`: no window holds more than the limit, and the
requests less than a window old that are in no window (`Orphans`) are at most the limit for
each crash, since only a process that dies loses a window before its time. Pruning makes no
orphan because what it drops is too old to count. `UnionBound` sums over the replicas by
an injection into pairs of a replica and a number, where an induction would be needed
otherwise.

*TheAckedAreLogged* rests on `LogInv`: while no two callbacks have overlapped, whoever is
about to save holds the log as it is, and what a callback under way has behind it is in a
log. *TheSettledStay* needs no such condition, only that a save writes back the copy the
callback loaded and one report more. *OneCopyEach* has no condition either: a callback may
bring back a copy of a log that others have replaced in the meantime, so the places a report
has in the logs are counted together with those in the copies held (`Places`), and with the
callbacks that have it still to record (`ToRecord`). A load adds no place, a save one, for the
callback that had it to record.

*Delivery.* `NoStandInIsJudged` rests on `OfferWasRead`, about the operators of
`Extraction`: an evaluation has no missing field, a field is there only if the validator
read it, and a price of 0, for which the pipeline would put 1 rupee, does not get past the
contract; it needs `DeliveryTypeOK`, which says that `extraction` is always the validated
form of `said`. `ReturnIsAcceptance` and `TextComesFirst` need `PartsInv` (an execution has
no outcome until it ends; at the voice note Meta accepted the text of this execution),
`CopiesHaveCauses` needs `CopiesInv` (each execution has one copy of a part to give that no
lost response accounts for), `WindowIsKept` needs `WindowInv` (a stamp that is not later
than the message is as old as the window; and an execution at its text or voice note found
the stamp good when it looked, so the window was open, or the stamp is a later one).

*The market.* `RunInv`: no run has another beside it, so what it merged contains what is
curated, and what it is about to publish is curated already; what a worker reads or caches it
took from the store (`ReadersFollow`). `PublishInv`: the varieties behind the one in hand have
the snapshot of what this run fetched, and a copy of it; at the end, all of them.

*The engine's theorems* rest on `EngineInv` (the state is an input and its evaluation) and
on arithmetic: the offer score is monotone and in range (`OfferScoreMonotone`,
`OfferScoreRange`), a quotient is monotone in its dividend (`DivMonotone`, for the price
ratio, whose divisor is a variable), the confidence is the least of raw confidence and
caps (`ConfidenceIsLeast`), and weaker evidence keeps every failed check and meets every
cap with one as low (`GateMonotone`, `CapsMonotone`). The run checks a grid of inputs
around the thresholds, the theorems all of them, in the units of the module.

Every safety property of a passing run is the subject of a theorem. Those that a run checks
with an operator and the budgets of a single job assume `OneJob`, as the runs do. Model-checked
only is all liveness (`EventuallyAtRest`, `InboxDrains`, `EventuallyAcked`, `EventuallyTold`,
`EventuallyLogged`, `ExecutionEnds`, `WorkersSeeTheMarket`, `EnvelopesGo`, `MediaGoes` and the
fairness part of `ImplementsLifecycle`), for the prover does not reason about `ENABLED`. The
two disagreements of section 5 are violations and have no theorem.

## 5. Disagreements

Two have a run that TLC finds violated.

1. `replay_loss`: a replay between the job's save of the envelope and its delete of the
   inbox blob ends with neither.
2. `engine_no_data`: "INSUFFICIENT or UNAVAILABLE freshness must trigger WAIT" fails for
   the UNAVAILABLE snapshots the program makes, whose median is 0: the engine raises.

Met on the way and not a run of their own:

- The lease is documented as exclusive (`lease_manager.py:67`); it is a dictionary in the
  memory of a process (`lease_manager.py:76`). `recon_fleet` shows what remains.
- `persist_inbound_message` writes three blobs in three saves (`event_store.py:157`); a
  failure between them and a redelivery make two work items, within the bound that
  `DuplicatesAccounted` gives.
- The client judges Meta's 24-hour window by `enqueued_at`, the clock of the gateway when it
  accepted the message (`event_store.py:136`); the time stamp Meta sends with the message is
  never read. A webhook delivered again after a 429, a failure, a crash or a lost 200 is
  stamped later than its message, and a replay from the event stamps it anew
  (`replay.py:96`): then a free-form reply can go out after the window.
  `FreeFormWasInWindow` says that otherwise only the time that one execution takes after it
  looked can stretch the window.
- `generate_content` is called without a timeout (`adapter.py:111`, `:150`), and the sleep
  after a 429 is as long as its Retry-After (`client.py:114-118`). Only the kill of the job
  ends such an execution.
- Of a webhook with several messages all but the first are lost, and acknowledged
  (`meta.py:113`). `ToldIsStored` is about the others.
- Two status callbacks that overlap lose a transition (`status.py:37`); `AckedIsLogged`
  holds without an overlap only. `current_status` is that of the report appended last, not
  that of the latest time stamp.
- The limiter's budget is one per process and is renewed by a restart.
- The validator drops all but digits and points of a price (`validator.py:57`): a range
  becomes one number of all its digits, and "Rs. 14500" becomes 0.14.
- A variety field counts if an alias is in it or it is in an alias (`validator.py:47`): from
  "Erode", "sort" or the word for turmeric alone the engine hears Finger, and the farmer is
  not asked. `EngineGetsWhatWasRead` does not exclude it: it says what was read, not what
  was meant.
- A text that names both varieties is taken for Finger, the first in the map.
- An offer for a crop or a district without a snapshot always raises in the engine, and so
  ends as a dead letter.
- `cleanup-job.yaml:28` sets `RETENTION_DAYS`, which `main()` of the cleanup does not read.
- Two processes that dead-letter a message one after the other leave an envelope with an
  empty `original_payload`. The message is still in `error_details`, but a replay does not
  look there and enqueues the envelope itself (`tools/replay.py:57`). `recon_fleet` reaches
  this, and no property excludes it: `DeadLetterKeepsOriginal` is about one process, and the
  lifecycle does not look into an envelope. `NoLoss` counts the copy in `error_details`.
- `participant_ref` is a hash of the sender's number (`meta.py:124`) and is used as the
  number to answer to (`pipeline.py:59`).
- `reconciliation.py` and `runner.py` have no `main`, though the deployed jobs run them as
  modules; the adapter reads `DATA_GOV_API_KEY` where the deployment sets
  `DATA_GOV_IN_API_KEY`. The model is of the jobs as they are meant to be started.
- The README's thresholds (78 % and 70 %) are not those of the engine (0.90 and 0.80).
- The offer's unit is not looked at when it is compared with a price per quintal.
- A snapshot with few dates is INSUFFICIENT (WAIT) while it is new and STALE (advice, with
  a cap) once it is old.
- Voice notes of Meta (`meta://media/...`) are never downloaded: the adapter returns dummy
  bytes for them (`adapter.py:78`).

## 6. Not modelled

Signature check, telemetry, health routes and application wiring, the wording of the
templates: no state that another part decides on. The sanitizer, `renew_lease`,
`invalidate_cache`, `evaluate_legacy`, `get_inbox_item`: no caller on the program's paths.
The identity of the recipient, the contents of voice notes, quantity and unit of an offer,
prices of an offer with more than three digits after the point or that end in half a
paisa, which Python rounds by their binary value, prices and aggregates of snapshots in
`MarketData`, blobs that can never be parsed, the client without an access token, the
Retry-After header of the gateway's limiter, other senders and other messages of `Gateway`
and `StatusLog` (they have windows and blobs of their own).

## 7. Plan

Done: the modules and theorems above, in this order: `Reconciliation` and its lifecycle,
`DeadLetterReplay`, `Ingress`, `DecisionEngine`, `Delivery`, `MarketData`, `StatusLog`,
`Gateway`, `Cleanup`, `Extraction`, and the proofs of all of them.

What would come next:

1. `Ingress` and `Reconciliation` composed: how many answers a provider message can get,
   which today is the product of `DuplicatesAccounted` and `WorkBudget`.
2. `Delivery` as a refinement of `RunPipeline`, by a mapping.
3. `FleetWorkBound` for any number of retries.
