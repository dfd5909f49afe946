---------------------------- MODULE MarketData ----------------------------
(***************************************************************************)
(* Market data on its way to the decision engine: the hourly ingestion     *)
(* run (src/src/data/ingestion/runner.py) fetches the records of the       *)
(* government source, keeps them in the blob store and publishes a         *)
(* snapshot per variety (src/src/data/snapshots/publisher.py), which the   *)
(* workers read through a cache (src/src/data/reader.py).                  *)
(*                                                                         *)
(* The schedule leaves no two runs at a time. A run is a sequence of blob  *)
(* operations; where one fails, or the process dies, the run is over and   *)
(* what it wrote so far stays. The calendar is a handful of days of one    *)
(* month, and both varieties trade on the same days.                       *)
(***************************************************************************)
EXTENDS Naturals, FiniteSets, Sequences

CONSTANTS
    Varieties,   \* target_varieties, a sequence
    Workers,     \* processes with a MarketSnapshotReader
    MaxDay,      \* bound: the last day
    SlaDays,     \* FRESHNESS_SLA_HOURS in days
    MinDates,    \* MIN_DISTINCT_DATES_FOR_FRESH
    FetchLimit,  \* the limit of fetch_observations, in days with records
    MaxFaults    \* bound: fetches and storage operations that fail, dead processes

ASSUME MarketAssumption ==
    /\ Varieties \in Seq(STRING) /\ Varieties # <<>>
    /\ MaxDay \in Nat \ {0}
    /\ SlaDays \in Nat
    /\ MinDates \in Nat
    /\ FetchLimit \in Nat
    /\ MaxFaults \in Nat

VARIABLES
    today,
    records,    \* what the source has for each day, in its order: valid or not
    curated,    \* the days in market/curated
    latest,     \* latest.json of each variety
    versioned,  \* has the content of latest.json its versioned copy?
    stage,      \* what the run does next
    now,        \* reference_time of the run
    batch,      \* the records it fetched
    merged,     \* curated records as it loaded them
    which,      \* the variety it publishes
    clean,      \* did the last run reach its end?
    cache,      \* cached snapshot of each worker (of the first variety)
    served,     \* the snapshot each worker used last
    faults

source == <<today, records>>
store == <<curated, latest, versioned>>
run == <<now, batch, merged, which>>
readers == <<cache, served>>
vars == <<today, records, curated, latest, versioned, stage, now, batch, merged,
          which, clean, cache, served, faults>>

Days == 1..MaxDay
Batches == [Days -> {<<>>, <<TRUE>>, <<FALSE>>, <<FALSE, TRUE>>}]
NoRecords == [d \in Days |-> <<>>]
Each == 1..Len(Varieties)

\* A snapshot: its observation dates and the freshness_status it was given.
Snapshots == [dates : SUBSET Days,
              freshness : {"FRESH", "STALE", "INSUFFICIENT", "UNAVAILABLE"}]
Unavailable == [dates |-> {}, freshness |-> "UNAVAILABLE"]
\* No blob, and no entry in a cache.
NoSnapshot == [dates |-> {}, freshness |-> "NONE"]

Stages == {"idle", "raw", "quarantine", "load", "curate", "latest", "version"}

MarketTypeOK ==
    /\ today \in Days
    /\ records \in Batches /\ batch \in Batches
    /\ curated \subseteq Days /\ merged \subseteq Days
    /\ latest \in [Each -> Snapshots \cup {NoSnapshot}]
    /\ versioned \in [Each -> BOOLEAN]
    /\ stage \in Stages
    /\ now \in Days
    /\ clean \in BOOLEAN
    /\ which \in Each
    /\ cache \in [Workers -> Snapshots \cup {NoSnapshot}]
    /\ served \in [Workers -> Snapshots]
    /\ faults \in 0..MaxFaults

Init ==
    /\ today = 1
    /\ records = NoRecords /\ batch = NoRecords
    /\ curated = {} /\ merged = {}
    /\ latest = [i \in Each |-> NoSnapshot]
    /\ versioned = [i \in Each |-> FALSE]
    /\ stage = "idle"
    /\ now = 1
    /\ clean = FALSE
    /\ which = 1
    /\ cache = [w \in Workers |-> NoSnapshot]
    /\ served = [w \in Workers |-> Unavailable]
    /\ faults = 0

---------------------------------------------------------------------------
\* The newest of some dates.
Newest(dates) == CHOOSE d \in dates : \A e \in dates : e <= d

\* build_snapshot: the age comes first, so that old data is STALE however little.
BuildSnapshot(dates, day) ==
    [dates |-> dates,
     freshness |->
        IF dates = {} THEN "UNAVAILABLE"
        ELSE IF day > Newest(dates) + SlaDays THEN "STALE"
        ELSE IF Cardinality(dates) < MinDates THEN "INSUFFICIENT"
        ELSE "FRESH"]

\* fetch_observations: the newest records the source has.
Reported(b) == {d \in Days : b[d] # <<>>}

Fetched(b) ==
    [d \in Days |->
        IF Cardinality({e \in Reported(b) : e >= d}) <= FetchLimit THEN b[d] ELSE <<>>]

\* The duplicates of a record are dropped before it is validated: the first record
\* with a fingerprint (market, variety, day) counts, and a valid one that comes
\* after an invalid one is lost.
Observations(b) == {d \in Days : b[d] # <<>> /\ Head(b[d])}
Quarantined(b) == {d \in Days : b[d] # <<>> /\ ~Head(b[d])}

---------------------------------------------------------------------------
NextDay ==
    /\ today < MaxDay
    /\ today' = today + 1
    /\ UNCHANGED <<records, store, stage, run, clean, readers, faults>>

\* The source reports a day, rightly or wrongly, and corrects what was wrong.
Report ==
    /\ records' \in {[records EXCEPT ![today] = <<TRUE>>], [records EXCEPT ![today] = <<FALSE>>]}
    /\ records[today] = <<>>
    /\ UNCHANGED <<today, store, stage, run, clean, readers, faults>>

Correct(d) ==
    /\ records[d] = <<FALSE>>
    /\ records' = [records EXCEPT ![d] = <<FALSE, TRUE>>]
    /\ UNCHANGED <<today, store, stage, run, clean, readers, faults>>

---------------------------------------------------------------------------
Fault == faults < MaxFaults /\ faults' = faults + 1

Goto(s) == stage' = s

\* run_ingestion starts and fetches. A fetch that fails, after its retries, goes on
\* with no records at all.
StartRun ==
    /\ stage = "idle"
    /\ now' = today
    /\ \/ batch' = Fetched(records) /\ UNCHANGED faults
       \/ batch' = NoRecords /\ Fault
    /\ which' = 1
    /\ Goto("raw")
    /\ UNCHANGED <<source, store, merged, clean, readers>>

\* The raw payload is saved; then the quarantine, if there is any.
SaveRaw ==
    /\ stage = "raw"
    /\ Goto(IF Quarantined(batch) # {} THEN "quarantine"
            ELSE IF Observations(batch) # {} THEN "load" ELSE "latest")
    /\ UNCHANGED <<source, store, run, clean, readers, faults>>

SaveQuarantine ==
    /\ stage = "quarantine"
    /\ Goto(IF Observations(batch) # {} THEN "load" ELSE "latest")
    /\ UNCHANGED <<source, store, run, clean, readers, faults>>

\* The curated records of the month are loaded, merged and saved.
LoadCurated ==
    /\ stage = "load"
    /\ merged' = curated
    /\ Goto("curate")
    /\ UNCHANGED <<source, store, now, batch, which, clean, readers, faults>>

\* Mutant: what was loaded is not merged.
SaveCuratedOver ==
    /\ stage = "curate"
    /\ curated' = Observations(batch)
    /\ Goto("latest")
    /\ UNCHANGED <<source, latest, versioned, run, clean, readers, faults>>

SaveCurated ==
    /\ stage = "curate"
    /\ curated' = merged \cup Observations(batch)
    /\ Goto("latest")
    /\ UNCHANGED <<source, latest, versioned, run, clean, readers, faults>>

\* Mutant: the snapshot counts the quarantined records.
SaveLatestUnchecked ==
    /\ stage = "latest"
    /\ latest' = [latest EXCEPT ![which] =
                     BuildSnapshot(Observations(batch) \cup Quarantined(batch), now)]
    /\ versioned' = [versioned EXCEPT ![which] = FALSE]
    /\ Goto("version")
    /\ UNCHANGED <<source, curated, run, clean, readers, faults>>

\* publish overwrites latest.json of a variety, ...
SaveLatest ==
    /\ stage = "latest"
    /\ latest' = [latest EXCEPT ![which] = BuildSnapshot(Observations(batch), now)]
    /\ versioned' = [versioned EXCEPT ![which] = FALSE]
    /\ Goto("version")
    /\ UNCHANGED <<source, curated, run, clean, readers, faults>>

\* Mutant: the run ends after its first variety.
SaveVersionedOnce ==
    /\ stage = "version"
    /\ versioned' = [versioned EXCEPT ![which] = TRUE]
    /\ Goto("idle") /\ clean' = TRUE
    /\ UNCHANGED <<source, curated, latest, run, readers, faults>>

\* ... and writes the same content next to it; then comes the next variety.
SaveVersioned ==
    /\ stage = "version"
    /\ versioned' = [versioned EXCEPT ![which] = TRUE]
    /\ IF which < Len(Varieties)
       THEN Goto("latest") /\ which' = which + 1 /\ UNCHANGED clean
       ELSE Goto("idle") /\ clean' = TRUE /\ UNCHANGED which
    /\ UNCHANGED <<source, curated, latest, now, batch, merged, readers, faults>>

\* A load or a save raises, or the process dies. A failed save may have landed.
RunFails ==
    /\ stage # "idle"
    /\ Fault
    /\ \/ UNCHANGED store
       \/ stage = "curate" /\ curated' = merged \cup Observations(batch)
          /\ UNCHANGED <<latest, versioned>>
       \/ stage = "latest"
          /\ latest' = [latest EXCEPT ![which] = BuildSnapshot(Observations(batch), now)]
          /\ versioned' = [versioned EXCEPT ![which] = FALSE]
          /\ UNCHANGED curated
       \/ stage = "version" /\ versioned' = [versioned EXCEPT ![which] = TRUE]
          /\ UNCHANGED <<curated, latest>>
    /\ Goto("idle") /\ clean' = FALSE
    /\ UNCHANGED <<source, run, readers>>

---------------------------------------------------------------------------
\* get_latest_snapshot, from the cache or from the store; where the store has none,
\* an UNAVAILABLE one takes its place, and is not cached.
ReadCached(w) ==
    /\ cache[w] # NoSnapshot
    /\ served' = [served EXCEPT ![w] = cache[w]]
    /\ UNCHANGED <<source, store, stage, run, clean, cache, faults>>

\* Mutant: what was read once is served for good.
CacheKept(w) == cache[w] # NoSnapshot /\ UNCHANGED vars

ReadStore(w) ==
    /\ cache[w] = NoSnapshot
    /\ cache' = [cache EXCEPT ![w] = latest[1]]
    /\ served' = [served EXCEPT ![w] = IF latest[1] = NoSnapshot THEN Unavailable ELSE latest[1]]
    /\ UNCHANGED <<source, store, stage, run, clean, faults>>

\* cache_ttl_seconds pass.
CacheExpires(w) ==
    /\ cache[w] # NoSnapshot
    /\ cache' = [cache EXCEPT ![w] = NoSnapshot]
    /\ UNCHANGED <<source, store, stage, run, clean, served, faults>>

---------------------------------------------------------------------------
RunStep ==
    \/ StartRun \/ SaveRaw \/ SaveQuarantine \/ LoadCurated \/ SaveCurated
    \/ SaveLatest \/ SaveVersioned

Next ==
    \/ NextDay \/ Report \/ (\E d \in Days : Correct(d))
    \/ RunStep \/ RunFails
    \/ \E w \in Workers : ReadCached(w) \/ ReadStore(w) \/ CacheExpires(w)

Spec == Init /\ [][Next]_vars

\* The schedule starts runs again and again, and workers have messages to answer.
Fairness ==
    /\ WF_vars(NextDay)
    /\ WF_vars(RunStep)
    /\ \A w \in Workers : WF_vars(ReadStore(w)) /\ WF_vars(CacheExpires(w))

FairSpec == Spec /\ Fairness

---------------------------------------------------------------------------
\* Whatever a snapshot rests on, in the store, in a worker's cache or in the advice it gave
\* last, is among the curated records: they are saved first, and no run takes away what
\* another one curated.
PublishedIsCurated ==
    /\ \A i \in Each : latest[i].dates \subseteq curated
    /\ \A w \in Workers : cache[w].dates \cup served[w].dates \subseteq curated

\* Curated records stay.
CuratedStays == [][curated \subseteq curated']_vars

\* After a run that reached its end every variety has the snapshot of all valid records that
\* this run fetched, graded by its own clock, with its versioned copy, and those records are
\* curated. (After a run that did not, the varieties may differ.)
CleanRunPublishesAll ==
    stage = "idle" /\ clean =>
        /\ \A i \in Each : latest[i] = BuildSnapshot(Observations(batch), now) /\ versioned[i]
        /\ Observations(batch) \subseteq curated

\* Once runs stop failing and the source stops changing, every worker works with what
\* the source has, graded as of the last day: a failed run, or a good snapshot that
\* was overwritten, is made up for by a later run, and no cache hides it.
WorkersSeeTheMarket ==
    \A w \in Workers :
        <>[](served[w] = BuildSnapshot(Observations(Fetched(records)), MaxDay))
===========================================================================
