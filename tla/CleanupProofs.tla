--------------------------- MODULE CleanupProofs ---------------------------
(***************************************************************************)
(* Theorems about Cleanup: what was proved of the jobs alone holds beside  *)
(* the nightly cleanup, which writes to nothing a job acts upon.           *)
(***************************************************************************)
EXTENDS Cleanup, ReconciliationProofs

\* A step of the cleanup, or of time: it may take from work/active/, fail or die, and
\* leaves the rest of the store and the memory of the jobs as they are.
Beside ==
    /\ UNCHANGED <<inbox, dlq, accepted, fresh, answered, executions,
                   pc, todo, cur, item, original, leases>>
    /\ active' \subseteq active
    /\ faults' = faults \/ Fault
    /\ crashes' = crashes \/ (crashes < MaxCrashes /\ crashes' = crashes + 1)

LEMMA CleanupStepIsBeside ==
    ASSUME [CleanupNext]_cleanupVars
    PROVE  [Next]_vars \/ Beside
<1>1. CASE JobsGoOn
  BY <1>1 DEF JobsGoOn, RecordLease, RecordLeaseFails, DoElse, FailElse, Next, JobFailure, JobStep
<1>2. CASE \/ \E m \in Msgs : EnvelopeAges(m) \/ LoadEnvelope(m)
           \/ \E b \in Media : StoreMedia(b) \/ MediaAges(b) \/ SweepMedia(b)
           \/ StartSweep \/ ListEnvelopes \/ FinishSweep \/ LoadEnvelopeFails \/ SweepDies
  BY <1>2 DEF EnvelopeAges, LoadEnvelope, StoreMedia, MediaAges, SweepMedia, StartSweep,
              ListEnvelopes, FinishSweep, LoadEnvelopeFails, SweepDies,
              Beside, vars, blobs, world, locals
<1>3. CASE DeleteEnvelope
  BY <1>3 DEF DeleteEnvelope, Beside, world, locals
<1>4. QED
  BY <1>1, <1>2, <1>3 DEF CleanupNext, SweepStep, cleanupVars, vars

LEMMA BesideType == TypeOK /\ HandInv /\ Beside => TypeOK' /\ HandInv'
  BY ReconciliationAssumption DEF Beside, Fault, TypeOK, HandInv

\* Nothing a job step does to work/active/ leaves a stale envelope that is not there.
LEMMA CleanupTypeStep ==
    ASSUME CleanupTypeOK, HandInv, [CleanupNext]_cleanupVars
    PROVE  CleanupTypeOK' /\ HandInv'
<1> USE DEF CleanupTypeOK
<1>1. TypeOK' /\ HandInv'
  BY CleanupStepIsBeside, TypeStep, BesideType
<1>2. CASE JobsGoOn
  <2>1. UNCHANGED <<media, aged, cleaner>>
    BY <1>2 DEF JobsGoOn
  <2>2. stale' \subseteq active'
    <3>1. ASSUME NEW j \in Jobs, RecordLease(j) \/ RecordLeaseFails(j) PROVE stale' \subseteq active'
      BY <3>1 DEF RecordLease, RecordLeaseFails, SaveActive, SaveActiveFails, SavedOrNot
    <3>2. ASSUME NEW j \in Jobs, DoElse(j) PROVE stale' \subseteq active'
      BY <3>2 DEF DoElse
    <3>3. ASSUME NEW j \in Jobs, FailElse(j) PROVE stale' \subseteq active'
      BY <3>3 DEF FailElse, LoadFails, SaveAttemptFails, DeadLetterSaveFails, Crash, blobs
    <3>4. ASSUME NEW m \in Msgs, Enqueue(m) \/ GrowOld(m), UNCHANGED stale
          PROVE  stale' \subseteq active'
      BY <3>4 DEF Enqueue, GrowOld, blobs
    <3>5. ASSUME NEW j \in Jobs, NEW m \in Msgs, LeaseExpires(j, m), UNCHANGED stale
          PROVE  stale' \subseteq active'
      BY <3>5 DEF LeaseExpires, blobs
    <3>6. QED
      BY <1>2, <3>1, <3>2, <3>3, <3>4, <3>5 DEF JobsGoOn
  <2>3. QED
    BY <1>1, <2>1, <2>2 DEF cleaner
<1>3. ASSUME NEW m \in Msgs, EnvelopeAges(m) PROVE CleanupTypeOK'
  BY <1>1, <1>3 DEF EnvelopeAges, vars, cleaner
<1>4. ASSUME NEW b \in Media, StoreMedia(b) \/ MediaAges(b) PROVE CleanupTypeOK'
  BY <1>1, <1>4 DEF StoreMedia, MediaAges, vars, cleaner
<1>5. CASE StartSweep \/ ListEnvelopes
  BY <1>1, <1>5 DEF StartSweep, ListEnvelopes, blobs, TypeOK
<1>6. ASSUME NEW b \in Media, SweepMedia(b) PROVE CleanupTypeOK'
  BY <1>1, <1>6 DEF SweepMedia, blobs
<1>7. ASSUME NEW m \in Msgs, LoadEnvelope(m) PROVE CleanupTypeOK'
  BY <1>1, <1>7 DEF LoadEnvelope, blobs
<1>8. CASE DeleteEnvelope
  BY <1>1, <1>8 DEF DeleteEnvelope
<1>9. CASE FinishSweep \/ LoadEnvelopeFails \/ SweepDies
  BY <1>1, <1>9 DEF FinishSweep, LoadEnvelopeFails, SweepDies, vars, blobs
<1>10. CASE UNCHANGED cleanupVars
  BY <1>1, <1>10 DEF cleanupVars
<1>11. QED
  BY <1>1, <1>2, <1>3, <1>4, <1>5, <1>6, <1>7, <1>8, <1>9, <1>10 DEF CleanupNext, SweepStep

LEMMA CleanupTypeInit == CleanupInit => CleanupTypeOK /\ HandInv
  BY TypeInit DEF CleanupInit, CleanupTypeOK, Init

\* Every variable keeps its type beside the cleanup, and the envelopes known to be stale
\* are envelopes that exist, whoever deletes them first.
THEOREM CleanupTypeCorrect == CleanupSpec => []CleanupTypeOK
<1>1. CleanupTypeOK /\ HandInv /\ [CleanupNext]_cleanupVars => CleanupTypeOK' /\ HandInv'
  BY CleanupTypeStep
<1>2. QED
  BY <1>1, CleanupTypeInit, PTL DEF CleanupSpec

---------------------------------------------------------------------------
\* The invariants of the jobs say nothing of work/active/: no job reads it.
LEMMA BesideKeepsInvariants ==
    ASSUME StepInv, Beside
    PROVE  StepInv'
<1> USE DEF StepInv, LossInv
<1>1. TypeOK' /\ HandInv'
  BY BesideType
<1>2. WholeInv' /\ DeleteInv' /\ NoLoss' /\ TraceInv'
  BY DEF Beside, WholeInv, DeleteInv, NoLoss, TraceInv, HoldsMessage
<1>3. ASSUME OneJob PROVE PartsInv'
  BY <1>3 DEF Beside, PartsInv, PastInv, CopyInv, CountInv, SpentInv, WorkBudget,
              DeadLetterKeepsOriginal
<1>4. QED
  BY <1>1, <1>2, <1>3 DEF OneJob

LEMMA CleanupInvariant == CleanupSpec => []StepInv
<1>1. CleanupInit => StepInv
  BY StepInvInit DEF CleanupInit
<1>2. StepInv /\ [CleanupNext]_cleanupVars => StepInv'
  BY CleanupStepIsBeside, BesideKeepsInvariants, StepInvStep
<1>3. QED
  BY <1>1, <1>2, PTL DEF CleanupSpec

\* No message is lost beside the cleanup, though it deletes an envelope that a job may
\* have written anew since it was found to be stale.
THEOREM CleanupLosesNothing == CleanupSpec => []NoLoss
<1>1. StepInv => NoLoss
  BY DEF StepInv, LossInv
<1>2. QED
  BY <1>1, CleanupInvariant, PTL

\* A single job keeps its budget of attempts and its dead-letter queue: an envelope
\* that the cleanup deletes under it gives no message a further attempt.
THEOREM CleanupKeepsBudget == OneJob => (CleanupSpec => [](WorkBudget /\ DeadLetterKeepsOriginal))
<1> SUFFICES ASSUME OneJob PROVE CleanupSpec => [](WorkBudget /\ DeadLetterKeepsOriginal)
  OBVIOUS
<1>1. StepInv => WorkBudget /\ DeadLetterKeepsOriginal
  BY DEF StepInv, PartsInv
<1>2. QED
  BY <1>1, CleanupInvariant, PTL

\* Neither does it bring back what a single job dead-lettered.
THEOREM CleanupDeadLetterIsFinal == OneJob => (CleanupSpec => DeadLetterIsFinal)
<1> SUFFICES ASSUME OneJob PROVE CleanupSpec => DeadLetterIsFinal
  OBVIOUS
<1>1. StepInv /\ [CleanupNext]_cleanupVars =>
        [\A m \in Msgs : dlq[m] # NoEntry => executions'[m] = executions[m]]_vars
  BY CleanupStepIsBeside, NoWorkAfterDeadLetter
  DEF StepInv, LossInv, SingleInv, CoreInv, Beside
<1>2. QED
  BY <1>1, CleanupInvariant, PTL DEF CleanupSpec, DeadLetterIsFinal

\* The lifecycle of the messages is that of the jobs alone.
THEOREM CleanupFollowsLifecycle == CleanupSpec => FollowsLifecycle
<1>1. CleanupInit => Lifecycle!Init
  BY DEF CleanupInit, Init, Lifecycle!Init, Status, HoldsMessage, NoEntry, NoItem
<1>2. ASSUME StepInv, StepInv', [CleanupNext]_cleanupVars
      PROVE  [Lifecycle!Next]_StatusMap
  <2>1. CASE [Next]_vars
    BY <1>2, <2>1, LifecycleStep DEF StepInv, LossInv
  <2>2. CASE Beside
    BY <2>2, NoMove DEF Beside, Same, Status, HoldsMessage
  <2>3. QED
    BY <1>2, <2>1, <2>2, CleanupStepIsBeside
<1>3. StepInv /\ StepInv' /\ [CleanupNext]_cleanupVars => [Lifecycle!Next]_StatusMap
  BY <1>2
<1>4. QED
  BY <1>1, <1>3, CleanupInvariant, PTL
  DEF CleanupSpec, FollowsLifecycle, Lifecycle!SafeSpec, StatusMap

---------------------------------------------------------------------------
\* Several jobs: the counts their bound rests on are of the inbox and of what they hold.
LEMMA BesideKeepsFleet ==
    ASSUME FleetInv, Beside
    PROVE  FleetInv'
<1> USE DEF FleetInv
<1>1. TypeOK' /\ HandInv'
  BY BesideType
<1>2. WholeInv' /\ TraceInv' /\ AttemptInv'
  BY DEF Beside, WholeInv, TraceInv, AttemptInv
<1>3. RoundsInv'
  <2>1. ASSUME NEW m \in Msgs PROVE Rounds(m)'
    <3>1. /\ Running(m)' = Running(m)
          /\ Loaded(m, 1)' = Loaded(m, 1) /\ Loaded(m, 2)' = Loaded(m, 2)
      BY DEF Beside, Running, Loaded
    <3>2. UNCHANGED <<inbox, executions>> /\ Rounds(m)
      BY DEF Beside, RoundsInv
    <3>3. QED
      BY <3>1, <3>2 DEF Rounds
  <2>2. QED
    BY <2>1 DEF RoundsInv
<1>4. QED
  BY <1>1, <1>2, <1>3

\* However many jobs run, and whatever the cleanup deletes under them, a message is worked
\* on no more often than the jobs alone would.
THEOREM CleanupKeepsFleetBound == CleanupSpec => []FleetWorkBound
<1>1. CASE MaxRetries = 3
  <2>1. CleanupInit => FleetInv
    BY FleetInit DEF CleanupInit
  <2>2. FleetInv /\ [CleanupNext]_cleanupVars => FleetInv'
    BY <1>1, CleanupStepIsBeside, BesideKeepsFleet, FleetStep
  <2>3. QED
    BY <2>1, <2>2, FleetBound, PTL DEF CleanupSpec
<1>2. CASE MaxRetries # 3
  <2>1. FleetWorkBound
    BY <1>2 DEF FleetWorkBound
  <2>2. QED
    BY <2>1, PTL
<1>3. QED
  BY <1>1, <1>2
===========================================================================
