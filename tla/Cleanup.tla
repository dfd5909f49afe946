------------------------------ MODULE Cleanup -------------------------------
(***************************************************************************)
(* The nightly cleanup (src/src/worker/jobs/cleanup.py) beside the         *)
(* reconciliation jobs: it deletes what they leave behind in work/active/  *)
(* when they die or a delete fails, and voice notes past their retention.  *)
(* It lists, loads and deletes without a lease, between the steps of the   *)
(* jobs.                                                                   *)
(***************************************************************************)
EXTENDS Reconciliation

CONSTANTS
    Media   \* blobs under media/inbound/ and media/outbound/

VARIABLES
    stale,   \* messages whose envelope in work/active/ expired an hour ago or more
    media,   \* the blobs under media/ that exist
    aged,    \* those whose path names a day retention_days ago or more
    sweep,   \* what the cleanup does next
    blobsLeft, envsLeft,  \* what is left of its two listings
    target   \* the envelope it has found to be stale

cleaner == <<sweep, blobsLeft, envsLeft, target>>
cleanupVars == <<inbox, dlq, active, accepted, fresh, answered, executions,
                 pc, todo, cur, item, original, leases, faults, crashes,
                 stale, media, aged, sweep, blobsLeft, envsLeft, target>>

CleanupTypeOK ==
    /\ TypeOK
    /\ stale \subseteq active
    /\ aged \subseteq media /\ media \subseteq Media
    /\ sweep \in {"idle", "media", "list", "load", "delete"}
    /\ blobsLeft \subseteq Media
    /\ envsLeft \subseteq Msgs
    /\ target \in Msgs \cup {NoMsg}

CleanupInit ==
    /\ Init
    /\ stale = {}
    /\ media = {} /\ aged = {}
    /\ sweep = "idle"
    /\ blobsLeft = {} /\ envsLeft = {}
    /\ target = NoMsg

---------------------------------------------------------------------------
\* What the jobs do to the envelopes: a lease writes a fresh one, a purge deletes it.
RecordLease(j) == SaveActive(j) /\ stale' = stale \ {cur[j]}

RecordLeaseFails(j) == SaveActiveFails(j) /\ stale' \in {stale, stale \ {cur[j]}}

DoElse(j) ==
    /\ pc[j] # "envelope" /\ JobStep(j)
    /\ stale' = stale \cap active'

FailElse(j) ==
    /\ LoadFails(j) \/ SaveAttemptFails(j) \/ DeadLetterSaveFails(j) \/ Crash(j)
    /\ UNCHANGED stale

JobsGoOn ==
    /\ \/ \E j \in Jobs : RecordLease(j) \/ RecordLeaseFails(j) \/ DoElse(j) \/ FailElse(j)
       \/ (\E m \in Msgs : Enqueue(m) \/ GrowOld(m)) /\ UNCHANGED stale
       \/ (\E j \in Jobs, m \in Msgs : LeaseExpires(j, m)) /\ UNCHANGED stale
    /\ UNCHANGED <<media, aged, cleaner>>

\* stale_lease_seconds pass after expires_at. A job has a time limit of 5 minutes.
EnvelopeAges(m) ==
    /\ m \in active \ stale
    /\ \A j \in Jobs : cur[j] # m
    /\ stale' = stale \cup {m}
    /\ UNCHANGED <<vars, media, aged, cleaner>>

\* A pipeline stores a voice note.
StoreMedia(b) ==
    /\ b \notin media
    /\ media' = media \cup {b}
    /\ UNCHANGED <<vars, stale, aged, cleaner>>

\* retention_days pass after it.
MediaAges(b) ==
    /\ b \in media \ aged
    /\ aged' = aged \cup {b}
    /\ UNCHANGED <<vars, stale, media, cleaner>>

---------------------------------------------------------------------------
\* The run begins with a listing of media/; one that fails is empty.
StartSweep ==
    /\ sweep = "idle"
    /\ sweep' = "media"
    /\ \/ blobsLeft' = media /\ UNCHANGED faults
       \/ Fault /\ blobsLeft' = {}
    /\ UNCHANGED <<blobs, world, locals, crashes, stale, media, aged, envsLeft, target>>

\* Mutant: no date is read from the path, and the error is swallowed.
SweepMediaUnparsed(b) ==
    /\ sweep = "media"
    /\ b \in blobsLeft
    /\ blobsLeft' = blobsLeft \ {b}
    /\ UNCHANGED <<blobs, world, locals, faults, crashes, stale, media, aged, sweep, envsLeft, target>>

\* One blob of it: the age is in its path. delete_blob swallows its errors.
SweepMedia(b) ==
    /\ sweep = "media"
    /\ b \in blobsLeft
    /\ blobsLeft' = blobsLeft \ {b}
    /\ \/ b \in aged /\ media' = media \ {b} /\ aged' = aged \ {b} /\ UNCHANGED faults
       \/ b \in aged /\ Fault /\ UNCHANGED <<media, aged>>
       \/ b \notin aged /\ UNCHANGED <<media, aged, faults>>
    /\ UNCHANGED <<blobs, world, locals, crashes, stale, sweep, envsLeft, target>>

ListEnvelopes ==
    /\ sweep = "media" /\ blobsLeft = {}
    /\ sweep' = "load"
    /\ \/ envsLeft' = active /\ UNCHANGED faults
       \/ Fault /\ envsLeft' = {}
    /\ UNCHANGED <<blobs, world, locals, crashes, stale, media, aged, blobsLeft, target>>

\* Mutant: only envelopes whose message still waits in the inbox are looked at.
LoadEnvelopeOfWaiting(m) ==
    /\ sweep = "load"
    /\ m \in envsLeft
    /\ envsLeft' = envsLeft \ {m}
    /\ IF m \in stale /\ inbox[m] # NoItem
       THEN sweep' = "delete" /\ target' = m
       ELSE UNCHANGED <<sweep, target>>
    /\ UNCHANGED <<blobs, world, locals, faults, crashes, stale, media, aged, blobsLeft>>

\* One envelope: it may be gone, or a new one, since the listing.
LoadEnvelope(m) ==
    /\ sweep = "load"
    /\ m \in envsLeft
    /\ envsLeft' = envsLeft \ {m}
    /\ IF m \in stale
       THEN sweep' = "delete" /\ target' = m
       ELSE UNCHANGED <<sweep, target>>
    /\ UNCHANGED <<blobs, world, locals, faults, crashes, stale, media, aged, blobsLeft>>

\* It is deleted, even when a job has leased the message again since the load.
DeleteEnvelope ==
    /\ sweep = "delete"
    /\ sweep' = "load" /\ target' = NoMsg
    /\ \/ active' = active \ {target} /\ stale' = stale \ {target} /\ UNCHANGED faults
       \/ Fault /\ UNCHANGED <<active, stale>>
    /\ UNCHANGED <<inbox, dlq, world, locals, crashes, media, aged, blobsLeft, envsLeft>>

FinishSweep ==
    /\ sweep = "load" /\ envsLeft = {}
    /\ sweep' = "idle"
    /\ UNCHANGED <<vars, stale, media, aged, blobsLeft, envsLeft, target>>

\* A load raises out of run_cleanup, for the envelopes it has not come to as well.
LoadEnvelopeFails ==
    /\ sweep = "load" /\ envsLeft # {}
    /\ Fault
    /\ sweep' = "idle"
    /\ envsLeft' = {}
    /\ UNCHANGED <<blobs, world, locals, crashes, stale, media, aged, blobsLeft, target>>

\* The process dies.
SweepDies ==
    /\ sweep # "idle"
    /\ crashes < MaxCrashes /\ crashes' = crashes + 1
    /\ sweep' = "idle" /\ blobsLeft' = {} /\ envsLeft' = {} /\ target' = NoMsg
    /\ UNCHANGED <<blobs, world, locals, faults, stale, media, aged>>

---------------------------------------------------------------------------
SweepStep ==
    \/ StartSweep
    \/ \E b \in Media : SweepMedia(b)
    \/ ListEnvelopes
    \/ \E m \in Msgs : LoadEnvelope(m)
    \/ DeleteEnvelope
    \/ FinishSweep

CleanupNext ==
    \/ JobsGoOn
    \/ \E m \in Msgs : EnvelopeAges(m)
    \/ \E b \in Media : StoreMedia(b) \/ MediaAges(b)
    \/ SweepStep \/ LoadEnvelopeFails \/ SweepDies

CleanupSpec == CleanupInit /\ [][CleanupNext]_cleanupVars

\* The fairness of the jobs, time, and a cleanup every night.
CleanupFairSpec ==
    /\ CleanupSpec
    /\ Fairness
    /\ \A m \in Msgs : WF_cleanupVars(EnvelopeAges(m))
    /\ \A b \in Media : WF_cleanupVars(MediaAges(b))
    /\ WF_cleanupVars(SweepStep)

---------------------------------------------------------------------------
\* No message leaves an envelope in work/active/ for good, whichever process died
\* with its lease, whichever delete failed silently and whichever of the lists was
\* out of date: in the end it is gone and stays gone.
EnvelopesGo == \A m \in Msgs : m \in accepted ~> [](m \notin active)

\* Neither is a voice note kept past its retention: a delete that failed is made up
\* for in one of the next nights.
MediaGoes == \A b \in Media : b \in aged ~> b \notin media
===========================================================================
