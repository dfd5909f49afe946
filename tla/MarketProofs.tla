--------------------------- MODULE MarketProofs ----------------------------
(***************************************************************************)
(* What ingestion runs keep, for any varieties, workers, days, limits and  *)
(* failures.                                                               *)
(***************************************************************************)
EXTENDS MarketData, TLAPS

\* What the run publishes for every variety.
Result == BuildSnapshot(Observations(batch), now)

LEMMA ResultType ==
    ASSUME now \in Days, batch \in Batches
    PROVE  Result \in Snapshots /\ Result.dates = Observations(batch) /\ Observations(batch) \subseteq Days
<1>1. Observations(batch) \subseteq Days
  BY DEF Observations
<1>2. Result.dates = Observations(batch)
  BY DEF Result, BuildSnapshot
<1>3. Result.freshness \in {"FRESH", "STALE", "INSUFFICIENT", "UNAVAILABLE"}
  BY DEF Result, BuildSnapshot
<1>4. Result = [dates |-> Result.dates, freshness |-> Result.freshness]
  BY DEF Result, BuildSnapshot
<1> QED
  BY <1>1, <1>2, <1>3, <1>4 DEF Snapshots

LEMMA EachHas == 1 \in Each /\ Len(Varieties) \in Nat
BY MarketAssumption DEF Each

LEMMA FetchedType == ASSUME NEW b \in Batches PROVE Fetched(b) \in Batches
<1>1. b \in [Days -> {<<>>, <<TRUE>>, <<FALSE>>, <<FALSE, TRUE>>}]
  BY DEF Batches
<1>2. \A d \in Days : Fetched(b)[d] \in {<<>>, <<TRUE>>, <<FALSE>>, <<FALSE, TRUE>>}
  BY <1>1 DEF Fetched
<1>3. Fetched(b) = [d \in Days |-> Fetched(b)[d]]
  BY DEF Fetched
<1> QED
  BY <1>2, <1>3 DEF Batches

---------------------------------------------------------------------------
LEMMA TypeInit == Init => MarketTypeOK
<1> SUFFICES ASSUME Init PROVE MarketTypeOK
  OBVIOUS
<1>1. 1 \in Days /\ 1 \in Each /\ 0 \in 0..MaxFaults
  BY EachHas, MarketAssumption DEF Days
<1>2. NoRecords \in Batches
  BY DEF NoRecords, Batches
<1>3. Unavailable \in Snapshots
  BY DEF Unavailable, Snapshots
<1> QED
  BY <1>1, <1>2, <1>3 DEF Init, MarketTypeOK, Stages

\* Which blob a run writes, and what.
PublishLatest == latest' = [latest EXCEPT ![which] = Result]

LEMMA RunTypes ==
    ASSUME MarketTypeOK, RunStep \/ RunFails
    PROVE  /\ curated' \subseteq Days /\ merged' \subseteq Days /\ batch' \in Batches /\ now' \in Days
           /\ latest' \in [Each -> Snapshots \cup {NoSnapshot}] /\ versioned' \in [Each -> BOOLEAN]
           /\ which' \in Each /\ stage' \in Stages /\ clean' \in BOOLEAN /\ faults' \in 0..MaxFaults
           /\ UNCHANGED <<today, records, cache, served>>
<1> USE DEF MarketTypeOK
<1>0. Result \in Snapshots /\ Observations(batch) \subseteq Days
  BY ResultType
<1>1. CASE StartRun
  <2>1. NoRecords \in Batches
    BY DEF NoRecords, Batches
  <2>2. batch' \in Batches /\ faults' \in 0..MaxFaults
    BY <1>1, <2>1, FetchedType, MarketAssumption DEF StartRun, Fault
  <2> QED
    BY <1>1, <2>2, EachHas DEF StartRun, Goto, source, store, readers, Stages
<1>2. CASE SaveRaw \/ SaveQuarantine \/ LoadCurated
  BY <1>2 DEF SaveRaw, SaveQuarantine, LoadCurated, Goto, source, store, run, readers, Stages
<1>3. CASE SaveCurated
  BY <1>0, <1>3 DEF SaveCurated, Goto, source, run, readers, Stages
<1>4. CASE SaveLatest
  BY <1>0, <1>4 DEF SaveLatest, Goto, source, run, readers, Stages, Result
<1>5. CASE SaveVersioned
  <2>1. versioned' \in [Each -> BOOLEAN]
    BY <1>5 DEF SaveVersioned
  <2>2. which' \in Each /\ stage' \in Stages /\ clean' \in BOOLEAN
    <3>1. CASE which < Len(Varieties)
      BY <1>5, <3>1, EachHas DEF SaveVersioned, Goto, Stages, Each
    <3>2. CASE ~(which < Len(Varieties))
      BY <1>5, <3>2 DEF SaveVersioned, Goto, Stages
    <3> QED
      BY <3>1, <3>2
  <2> QED
    BY <1>5, <2>1, <2>2 DEF SaveVersioned, source, readers
<1>6. CASE RunFails
  <2>1. curated' \subseteq Days
    BY <1>0, <1>6 DEF RunFails, store
  <2>2. latest' \in [Each -> Snapshots \cup {NoSnapshot}]
    BY <1>0, <1>6 DEF RunFails, store, Result
  <2>3. versioned' \in [Each -> BOOLEAN]
    BY <1>6 DEF RunFails, store
  <2>4. faults' \in 0..MaxFaults
    BY <1>6, MarketAssumption DEF RunFails, Fault
  <2> QED
    BY <1>6, <2>1, <2>2, <2>3, <2>4 DEF RunFails, Goto, source, run, readers, Stages
<1> QED
  BY <1>1, <1>2, <1>3, <1>4, <1>5, <1>6 DEF RunStep

LEMMA TypeStep == MarketTypeOK /\ [Next]_vars => MarketTypeOK'
<1> SUFFICES ASSUME MarketTypeOK, [Next]_vars PROVE MarketTypeOK'
  OBVIOUS
<1> USE DEF MarketTypeOK
<1>1. CASE UNCHANGED vars
  BY <1>1 DEF vars
<1>2. CASE NextDay
  BY <1>2, MarketAssumption DEF NextDay, store, run, readers, Days
<1>3. CASE Report \/ \E d \in Days : Correct(d)
  <2>1. records' \in Batches
    BY <1>3 DEF Report, Correct, Batches
  <2> QED
    BY <1>3, <2>1 DEF Report, Correct, store, run, readers
<1>4. CASE RunStep \/ RunFails
  BY <1>4, RunTypes
<1>5. ASSUME NEW w \in Workers, ReadCached(w) \/ ReadStore(w) \/ CacheExpires(w)
      PROVE  MarketTypeOK'
  <2>1. Unavailable \in Snapshots
    BY DEF Unavailable, Snapshots
  <2>2. UNCHANGED <<source, store, stage, run, clean, faults>>
    BY <1>5 DEF ReadCached, ReadStore, CacheExpires
  <2>3. cache' \in [Workers -> Snapshots \cup {NoSnapshot}]
    BY <1>5, EachHas DEF ReadCached, ReadStore, CacheExpires
  <2>4. served' \in [Workers -> Snapshots]
    BY <1>5, <2>1, EachHas DEF ReadCached, ReadStore, CacheExpires
  <2> QED
    BY <2>2, <2>3, <2>4 DEF source, store, run
<1> QED
  BY <1>1, <1>2, <1>3, <1>4, <1>5 DEF Next

\* Every variable keeps its type: a snapshot in the store or in a cache is well formed.
THEOREM MarketTypes == Spec => []MarketTypeOK
  BY TypeInit, TypeStep, PTL DEF Spec

---------------------------------------------------------------------------
\* No run has another one beside it: what it merged is what is curated, and what it is
\* about to publish is curated already.
RunInv ==
    /\ stage = "curate" => merged = curated
    /\ stage \in {"latest", "version"} => Observations(batch) \subseteq curated
    /\ PublishedIsCurated

\* What does not belong to the run.
LEMMA Elsewhere ==
    ASSUME [Next]_vars
    PROVE  RunStep \/ RunFails \/ UNCHANGED <<store, stage, run, clean>>
BY DEF Next, vars, NextDay, Report, Correct, ReadCached, ReadStore, CacheExpires, source, store,
       run, readers

\* All that a step can do to the curated records.
LEMMA CuratedGrows ==
    ASSUME MarketTypeOK, RunInv, [Next]_vars
    PROVE  curated \subseteq curated'
<1>1. CASE stage = "curate" /\ curated' = merged \cup Observations(batch)
  BY <1>1 DEF RunInv
<1>2. CASE UNCHANGED curated
  BY <1>2
<1> QED
  BY <1>1, <1>2, Elsewhere
  DEF RunStep, StartRun, SaveRaw, SaveQuarantine, LoadCurated, SaveCurated, SaveLatest,
      SaveVersioned, RunFails, store, run

\* ... and to the published ones.
LEMMA Publishes ==
    ASSUME [Next]_vars
    PROVE  UNCHANGED latest \/ (stage = "latest" /\ PublishLatest)
BY Elsewhere
DEF RunStep, StartRun, SaveRaw, SaveQuarantine, LoadCurated, SaveCurated, SaveLatest,
    SaveVersioned, RunFails, store, run, PublishLatest, Result

\* What a reader has, it had before, or it is the snapshot of the store, or nothing.
LEMMA ReadersFollow ==
    ASSUME MarketTypeOK, RunInv, [Next]_vars, NEW w \in Workers
    PROVE  cache'[w].dates \cup served'[w].dates \subseteq curated
<1>1. /\ cache[w].dates \subseteq curated /\ served[w].dates \subseteq curated
      /\ latest[1].dates \subseteq curated
      /\ NoSnapshot.dates = {} /\ Unavailable.dates = {}
  BY EachHas DEF RunInv, PublishedIsCurated, NoSnapshot, Unavailable
<1>2. cache \in [Workers -> Snapshots \cup {NoSnapshot}] /\ served \in [Workers -> Snapshots]
  BY DEF MarketTypeOK
<1>3. ASSUME NEW v \in Workers, ReadCached(v) \/ ReadStore(v) \/ CacheExpires(v)
      PROVE  /\ cache'[w] \in {cache[w], latest[1], NoSnapshot}
             /\ served'[w] \in {served[w], cache[w], latest[1], Unavailable}
  BY <1>2, <1>3 DEF ReadCached, ReadStore, CacheExpires
<1>4. UNCHANGED readers \/ \E v \in Workers : ReadCached(v) \/ ReadStore(v) \/ CacheExpires(v)
  BY DEF Next, vars, NextDay, Report, Correct, RunStep, StartRun, SaveRaw, SaveQuarantine,
         LoadCurated, SaveCurated, SaveLatest, SaveVersioned, RunFails, readers
<1>5. CASE UNCHANGED readers
  BY <1>1, <1>5 DEF readers
<1>6. CASE \E v \in Workers : ReadCached(v) \/ ReadStore(v) \/ CacheExpires(v)
  BY <1>1, <1>3, <1>6
<1> QED
  BY <1>4, <1>5, <1>6

LEMMA RunInvStep == MarketTypeOK /\ RunInv /\ [Next]_vars => RunInv'
<1> SUFFICES ASSUME MarketTypeOK, RunInv, [Next]_vars PROVE RunInv'
  OBVIOUS
<1>1. curated \subseteq curated'
  BY CuratedGrows
<1>2. PublishedIsCurated'
  <2> SUFFICES \A i \in Each : latest'[i].dates \subseteq curated'
    BY <1>1, ReadersFollow DEF PublishedIsCurated
  <2>1. CASE UNCHANGED latest
    BY <1>1, <2>1 DEF RunInv, PublishedIsCurated
  <2>2. CASE stage = "latest" /\ PublishLatest
    <3>1. Result.dates \subseteq curated'
      BY <1>1, <2>2, ResultType DEF RunInv, MarketTypeOK
    <3>2. latest'[which] = Result /\ \A i \in Each \ {which} : latest'[i] = latest[i]
      BY <2>2 DEF PublishLatest, MarketTypeOK
    <3>3. ASSUME NEW i \in Each PROVE latest'[i].dates \subseteq curated'
      <4>1. CASE i = which
        BY <3>1, <3>2, <4>1
      <4>2. CASE i # which
        BY <1>1, <3>2, <4>2 DEF RunInv, PublishedIsCurated
      <4> QED
        BY <4>1, <4>2
    <3> QED
      BY <3>3
  <2> QED
    BY <2>1, <2>2, Publishes
<1>3. stage' = "curate" => merged' = curated'
  BY Elsewhere
  DEF RunInv, RunStep, StartRun, SaveRaw, SaveQuarantine, LoadCurated, SaveCurated, SaveLatest,
      SaveVersioned, RunFails, Goto, store, run
<1>4. ASSUME stage' \in {"latest", "version"} PROVE Observations(batch') \subseteq curated'
  <2>1. CASE UNCHANGED <<store, stage, run, clean>>
    BY <1>4, <2>1 DEF RunInv, store, run
  <2>2. CASE StartRun \/ LoadCurated \/ RunFails
    BY <1>4, <2>2 DEF StartRun, LoadCurated, RunFails, Goto
  <2>3. CASE SaveRaw \/ SaveQuarantine
    <3>1. UNCHANGED <<batch, curated>> /\ Observations(batch) = {}
      BY <1>4, <2>3 DEF SaveRaw, SaveQuarantine, Goto, store, run
    <3> QED
      BY <3>1
  <2>4. CASE SaveCurated
    BY <2>4 DEF SaveCurated, run
  <2>5. CASE SaveLatest \/ SaveVersioned
    BY <2>5 DEF SaveLatest, SaveVersioned, RunInv, run
  <2> QED
    BY <2>1, <2>2, <2>3, <2>4, <2>5, Elsewhere DEF RunStep
<1> QED
  BY <1>2, <1>3, <1>4 DEF RunInv

LEMMA RunInvHolds == Spec => []RunInv
<1>1. Init => RunInv
  BY DEF Init, RunInv, PublishedIsCurated, NoSnapshot, Unavailable
<1> QED
  BY <1>1, RunInvStep, MarketTypes, PTL DEF Spec

\* A snapshot in the store, in a cache or in use rests on curated records only, whichever run
\* failed where.
THEOREM SnapshotsAreCurated == Spec => []PublishedIsCurated
<1>1. RunInv => PublishedIsCurated
  BY DEF RunInv
<1> QED
  BY <1>1, RunInvHolds, PTL

\* No run takes away what another one curated.
THEOREM TheCuratedStay == Spec => CuratedStays
<1>1. MarketTypeOK /\ RunInv /\ [Next]_vars => curated \subseteq curated'
  BY CuratedGrows
<1>2. UNCHANGED vars => curated \subseteq curated'
  BY DEF vars
<1> QED
  BY <1>1, <1>2, RunInvHolds, MarketTypes, PTL DEF Spec, CuratedStays

---------------------------------------------------------------------------
\* The varieties behind the one in hand have what the run publishes.
Done(i) == latest[i] = Result /\ versioned[i]

PublishInv ==
    /\ stage # "idle" /\ stage \notin {"latest", "version"} => which = 1
    /\ stage \in {"latest", "version"} => \A i \in Each : i < which => Done(i)
    /\ stage = "version" => latest[which] = Result
    /\ stage = "idle" /\ clean => \A i \in Each : Done(i)

LEMMA PublishStep == MarketTypeOK /\ PublishInv /\ [Next]_vars => PublishInv'
<1> SUFFICES ASSUME MarketTypeOK, PublishInv, [Next]_vars PROVE PublishInv'
  OBVIOUS
<1> USE DEF MarketTypeOK
<1>1. CASE UNCHANGED <<store, stage, run, clean>>
  BY <1>1 DEF PublishInv, Done, Result, store, run
<1>2. CASE StartRun
  BY <1>2 DEF StartRun, Goto, PublishInv
<1>3. CASE SaveRaw \/ SaveQuarantine \/ LoadCurated \/ SaveCurated
  <2>1. which = 1 /\ which' = 1 /\ stage' \notin {"idle", "version"}
    BY <1>3 DEF SaveRaw, SaveQuarantine, LoadCurated, SaveCurated, Goto, PublishInv, run
  <2>2. \A i \in Each : ~(i < 1)
    BY DEF Each
  <2> QED
    BY <2>1, <2>2 DEF PublishInv
<1>4. CASE SaveLatest
  <2>1. /\ stage = "latest" /\ stage' = "version" /\ UNCHANGED <<which, batch, now, clean>>
        /\ latest'[which] = Result
        /\ \A i \in Each \ {which} : latest'[i] = latest[i] /\ versioned'[i] = versioned[i]
    BY <1>4 DEF SaveLatest, Goto, run, Result
  <2>2. Result' = Result
    BY <2>1 DEF Result
  <2>3. \A i \in Each : i < which => i \in Each \ {which} /\ Done(i)
    BY <2>1 DEF PublishInv, Each
  <2>4. \A i \in Each : i < which' => Done(i)'
    <3>1. ASSUME NEW i \in Each, i < which' PROVE Done(i)'
      <4>1. i < which
        BY <2>1, <3>1
      <4>2. i \in Each \ {which} /\ Done(i)
        BY <2>3, <4>1
      <4> QED
        BY <2>1, <2>2, <4>2, Zenon DEF Done
    <3> QED
      BY <3>1
  <2> QED
    BY <2>1, <2>2, <2>4 DEF PublishInv
<1>5. CASE SaveVersioned
  <2>1. /\ stage = "version" /\ UNCHANGED <<batch, now, latest>>
        /\ versioned'[which] = TRUE
        /\ \A i \in Each \ {which} : versioned'[i] = versioned[i]
    BY <1>5 DEF SaveVersioned
  <2>2. Result' = Result /\ latest[which] = Result
    BY <2>1 DEF Result, PublishInv
  <2>3. ASSUME NEW i \in Each, i <= which PROVE Done(i)'
    <3>1. CASE i = which
      BY <2>1, <2>2, <3>1 DEF Done
    <3>2. CASE i # which
      <4>1. i < which
        BY <2>3, <3>2 DEF Each
      <4>2. Done(i)
        BY <2>1, <4>1 DEF PublishInv
      <4> QED
        BY <2>1, <2>2, <3>2, <4>2, Zenon DEF Done
    <3> QED
      BY <3>1, <3>2
  <2>4. CASE which < Len(Varieties)
    <3>1. stage' = "latest" /\ which' = which + 1
      BY <1>5, <2>4 DEF SaveVersioned, Goto
    <3>2. \A i \in Each : i < which' => i <= which
      BY <3>1 DEF Each
    <3> QED
      BY <2>3, <3>1, <3>2 DEF PublishInv
  <2>5. CASE ~(which < Len(Varieties))
    <3>1. stage' = "idle"
      BY <1>5, <2>5 DEF SaveVersioned, Goto
    <3>2. \A i \in Each : i <= which
      BY <2>5, EachHas DEF Each
    <3> QED
      BY <2>3, <3>1, <3>2 DEF PublishInv
  <2> QED
    BY <2>4, <2>5
<1>6. CASE RunFails
  BY <1>6 DEF RunFails, Goto, PublishInv
<1> QED
  BY <1>1, <1>2, <1>3, <1>4, <1>5, <1>6, Elsewhere DEF RunStep

\* A run that reached its end left the snapshot of all that it fetched for every variety, each
\* with its copy, and curated what it rests on.
THEOREM ACleanRunIsComplete == Spec => []CleanRunPublishesAll
<1>1. Init => PublishInv
  BY DEF Init, PublishInv
<1>2. MarketTypeOK /\ RunInv /\ PublishInv => CleanRunPublishesAll
  <2> SUFFICES ASSUME MarketTypeOK, RunInv, PublishInv, stage = "idle", clean
               PROVE  /\ \A i \in Each : latest[i] = Result /\ versioned[i]
                      /\ Observations(batch) \subseteq curated
    BY DEF CleanRunPublishesAll, Result
  <2>1. \A i \in Each : latest[i] = Result /\ versioned[i]
    BY DEF PublishInv, Done
  <2>2. latest[1].dates = Observations(batch)
    BY <2>1, EachHas, ResultType DEF MarketTypeOK
  <2> QED
    BY <2>1, <2>2, EachHas DEF RunInv, PublishedIsCurated
<1> QED
  BY <1>1, <1>2, PublishStep, RunInvHolds, MarketTypes, PTL DEF Spec
===========================================================================
