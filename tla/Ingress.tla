----------------------------- MODULE Ingress ------------------------------
(***************************************************************************)
(* How a WhatsApp message gets into the system: the webhook of the gateway *)
(* (src/src/gateway/routes/meta.py) and the event store behind it          *)
(* (src/src/platform/storage/event_store.py).                              *)
(*                                                                         *)
(* The provider delivers a message until it is told 200, and sometimes     *)
(* again after that. The handler never awaits between its look at the      *)
(* index and its last write, so one replica has one request under way;     *)
(* several replicas share the blob store, one load or save at a time.      *)
(***************************************************************************)
EXTENDS Naturals, FiniteSets

CONSTANTS
    Pmids,          \* provider_message_ids
    Replicas,       \* gateway processes
    NoId,           \* no message id
    MaxDeliveries,  \* bound: deliveries of one provider message
    MaxFaults,      \* bound: storage operations that fail, responses that get lost
    MaxCrashes      \* bound: replicas that die with a request under way

\* A request makes up its message id: the n-th delivery of p is called <<p, n>>.
MsgIds == Pmids \X (1..MaxDeliveries)

ASSUME IngressAssumption ==
    /\ IsFiniteSet(Replicas)
    /\ NoId \notin MsgIds
    /\ MaxDeliveries \in Nat
    /\ MaxFaults \in Nat
    /\ MaxCrashes \in Nat

VARIABLES
    events,      \* message ids with a blob under events/
    enqueued,    \* message ids a blob was written for under inbox/
    index,       \* index/providers/{provider}/{p}.json: the message_id in it
    deliveries,  \* deliveries of each provider message so far
    acked,       \* message ids the provider got with a 200, by provider message
    step,        \* what each replica's request does next
    id,          \* its message id
    found,       \* the message id check_duplicate found
    faults, crashes

store == <<events, enqueued, index>>
vars == <<events, enqueued, index, deliveries, acked, step, id, found, faults, crashes>>

Steps == {"idle", "check", "lookup", "event", "inbox", "index", "accepted", "duplicate"}

IngressTypeOK ==
    /\ events \subseteq MsgIds
    /\ enqueued \subseteq MsgIds
    /\ index \in [Pmids -> MsgIds \cup {NoId}]
    /\ deliveries \in [Pmids -> 0..MaxDeliveries]
    /\ acked \in [Pmids -> SUBSET MsgIds]
    /\ step \in [Replicas -> Steps]
    /\ id \in [Replicas -> MsgIds \cup {NoId}]
    /\ found \in [Replicas -> MsgIds \cup {NoId}]
    /\ faults \in 0..MaxFaults
    /\ crashes \in 0..MaxCrashes

Init ==
    /\ events = {}
    /\ enqueued = {}
    /\ index = [p \in Pmids |-> NoId]
    /\ deliveries = [p \in Pmids |-> 0]
    /\ acked = [p \in Pmids |-> {}]
    /\ step = [r \in Replicas |-> "idle"]
    /\ id = [r \in Replicas |-> NoId]
    /\ found = [r \in Replicas |-> NoId]
    /\ faults = 0
    /\ crashes = 0

---------------------------------------------------------------------------
\* The provider message of the request of r.
Pm(r) == id[r][1]

At(r, s) == step[r] = s
Goto(r, s) == step' = [step EXCEPT ![r] = s]

Close(r) ==
    /\ Goto(r, "idle")
    /\ id' = [id EXCEPT ![r] = NoId]
    /\ found' = [found EXCEPT ![r] = NoId]

Fault == faults < MaxFaults /\ faults' = faults + 1

Sending(p) ==
    /\ deliveries[p] < MaxDeliveries
    /\ deliveries' = [deliveries EXCEPT ![p] = @ + 1]

---------------------------------------------------------------------------
\* A delivery passes signature check, parsing and rate limit.
Deliver(p, r) ==
    /\ At(r, "idle")
    /\ Sending(p)
    /\ id' = [id EXCEPT ![r] = <<p, deliveries[p] + 1>>]
    /\ Goto(r, "check")
    /\ UNCHANGED <<store, acked, found, faults, crashes>>

\* check_rate_limit answers 429; the provider will deliver again.
RateLimited(p) ==
    /\ Fault
    /\ Sending(p)
    /\ UNCHANGED <<store, acked, step, id, found, crashes>>

\* check_duplicate loads the index entry.
CheckDuplicate(r) ==
    /\ At(r, "check")
    /\ \/ /\ index[Pm(r)] # NoId
          /\ found' = [found EXCEPT ![r] = index[Pm(r)]]
          /\ Goto(r, "lookup")
       \/ /\ index[Pm(r)] = NoId
          /\ Goto(r, "event")
          /\ UNCHANGED found
    /\ UNCHANGED <<store, deliveries, acked, id, faults, crashes>>

\* Mutant: a duplicate is refused.
LoadExistingRefused(r) ==
    /\ At(r, "lookup")
    /\ Close(r)
    /\ UNCHANGED <<store, deliveries, acked, faults, crashes>>

\* The envelope of the first delivery comes from its event, or is made up from the
\* index entry; either way it carries the message id of the index.
LoadExisting(r) ==
    /\ At(r, "lookup")
    /\ Goto(r, "duplicate")
    /\ UNCHANGED <<store, deliveries, acked, id, found, faults, crashes>>

\* Mutant: the index entry is written before the inbox blob.
SaveEventThenIndex(r) ==
    /\ At(r, "event")
    /\ events' = events \cup {id[r]}
    /\ index' = [index EXCEPT ![Pm(r)] = id[r]]
    /\ Goto(r, "inbox")
    /\ UNCHANGED <<enqueued, deliveries, acked, id, found, faults, crashes>>

\* persist_inbound_message saves the event, ...
SaveEvent(r) ==
    /\ At(r, "event")
    /\ events' = events \cup {id[r]}
    /\ Goto(r, "inbox")
    /\ UNCHANGED <<enqueued, index, deliveries, acked, id, found, faults, crashes>>

\* ... the work item, ...
SaveInbox(r) ==
    /\ At(r, "inbox")
    /\ enqueued' = enqueued \cup {id[r]}
    /\ Goto(r, "index")
    /\ UNCHANGED <<events, index, deliveries, acked, id, found, faults, crashes>>

\* Mutant: the entry is not written.
SaveIndexSkipped(r) ==
    /\ At(r, "index")
    /\ Goto(r, "accepted")
    /\ UNCHANGED <<store, deliveries, acked, id, found, faults, crashes>>

\* ... and the index entry.
SaveIndex(r) ==
    /\ At(r, "index")
    /\ index' = [index EXCEPT ![Pm(r)] = id[r]]
    /\ Goto(r, "accepted")
    /\ UNCHANGED <<events, enqueued, deliveries, acked, id, found, faults, crashes>>

\* The response: 200 ACCEPTED with the request's own id, or DUPLICATE_ACCEPTED with
\* the one found. It may not reach the provider.
Answer(r) == IF At(r, "duplicate") THEN found[r] ELSE id[r]

Respond(r) ==
    /\ step[r] \in {"accepted", "duplicate"}
    /\ \/ acked' = [acked EXCEPT ![Pm(r)] = @ \cup {Answer(r)}] /\ UNCHANGED faults
       \/ Fault /\ UNCHANGED acked
    /\ Close(r)
    /\ UNCHANGED <<store, deliveries, crashes>>

\* Mutant: a failed look at the index is taken for a success.
LoadFailsQuietly(r) ==
    /\ step[r] \in {"check", "lookup"}
    /\ Fault
    /\ Goto(r, "accepted")
    /\ UNCHANGED <<store, deliveries, acked, id, found, crashes>>

\* A load or save raises: the provider is told 500. A save may have landed.
LoadFails(r) ==
    /\ step[r] \in {"check", "lookup"}
    /\ Fault
    /\ Close(r)
    /\ UNCHANGED <<store, deliveries, acked, crashes>>

SaveFails(r) ==
    /\ \/ At(r, "event") /\ events' \in {events, events \cup {id[r]}} /\ UNCHANGED <<enqueued, index>>
       \/ At(r, "inbox") /\ enqueued' \in {enqueued, enqueued \cup {id[r]}} /\ UNCHANGED <<events, index>>
       \/ At(r, "index") /\ index' \in {index, [index EXCEPT ![Pm(r)] = id[r]]} /\ UNCHANGED <<events, enqueued>>
    /\ Fault
    /\ Close(r)
    /\ UNCHANGED <<deliveries, acked, crashes>>

Crash(r) ==
    /\ ~At(r, "idle")
    /\ crashes < MaxCrashes /\ crashes' = crashes + 1
    /\ Close(r)
    /\ UNCHANGED <<store, deliveries, acked, faults>>

---------------------------------------------------------------------------
RequestStep(r) ==
    \/ CheckDuplicate(r) \/ LoadExisting(r)
    \/ SaveEvent(r) \/ SaveInbox(r) \/ SaveIndex(r)
    \/ Respond(r)

RequestFailure(r) == LoadFails(r) \/ SaveFails(r) \/ Crash(r)

Next ==
    \/ \E p \in Pmids, r \in Replicas : Deliver(p, r)
    \/ \E p \in Pmids : RateLimited(p)
    \/ \E r \in Replicas : RequestStep(r) \/ RequestFailure(r)

Spec == Init /\ [][Next]_vars

\* A request under way goes on, and the provider delivers again what was not
\* acknowledged.
Redeliver(p) == acked[p] = {} /\ \E r \in Replicas : Deliver(p, r)

FairSpec ==
    /\ Spec
    /\ \A r \in Replicas : WF_vars(RequestStep(r))
    /\ \A p \in Pmids : WF_vars(Redeliver(p))

---------------------------------------------------------------------------
\* Work items of one provider message.
WorkItems(p) == {m \in enqueued : m[1] = p}

\* What the provider was told 200 for is there for good: the message id of the
\* response, its own or that of an earlier delivery, has its event and its work
\* item, and the index knows the message. Nothing acknowledged can be missing,
\* whichever write failed and whichever replica died.
AckedIsDurable ==
    \A p \in Pmids : acked[p] # {} =>
        /\ index[p] # NoId
        /\ acked[p] \subseteq events \cap enqueued

\* The order of the three writes: a work item has its event (what an operator
\* replays from), and an index entry, which turns later deliveries away, names a
\* message that has both.
WriteOrder ==
    /\ enqueued \subseteq events
    /\ \A p \in Pmids : index[p] # NoId => index[p] \in WorkItems(p)

\* Duplicates are accounted for: beyond one work item per replica, every further
\* one of a provider message took a failed operation or a dead replica.
DuplicatesAccounted ==
    \A p \in Pmids :
        Cardinality(WorkItems(p)) <= Cardinality(Replicas) + faults + crashes

\* A message the provider sends is acknowledged in the end.
EventuallyAcked == \A p \in Pmids : <>(acked[p] # {})
===========================================================================
