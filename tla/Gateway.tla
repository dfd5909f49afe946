------------------------------ MODULE Gateway -------------------------------
(***************************************************************************)
(* Ingress behind its front door: the webhooks of one sender, each with    *)
(* one message or several, and the rate limiter                            *)
(* (src/src/gateway/middleware/rate_limit.py), a sliding window in the     *)
(* memory of each replica. The handler of meta.py runs on an event loop    *)
(* and is_allowed does not await: one step per call.                       *)
(***************************************************************************)
EXTENDS Ingress

CONSTANTS
    MaxRequests,  \* RateLimiter.max_requests
    Window        \* RateLimiter.window_seconds, in ticks of the clock

ASSUME GatewayAssumption ==
    /\ MaxRequests \in Nat \ {0}
    /\ Window \in Nat \ {0}

VARIABLES
    windows,   \* each replica's _windows of the sender: the requests, by message id
    age,       \* how long ago each was admitted; Window: longer ago, or not at all
    others,    \* messages 2, 3, ... of the webhook under way at each replica
    told,      \* messages of a webhook that was answered 200
    rode       \* those of them that were not the first of it

limiter == <<windows, age>>
webhooks == <<others, told, rode>>
gatewayVars == <<events, enqueued, index, deliveries, acked, step, id, found, faults, crashes,
                 windows, age, others, told, rode>>

GatewayTypeOK ==
    /\ windows \in [Replicas -> SUBSET MsgIds]
    /\ age \in [MsgIds -> 0..Window]
    /\ others \in [Replicas -> SUBSET Pmids]
    /\ told \subseteq Pmids
    /\ rode \subseteq told

GatewayInit ==
    /\ Init
    /\ windows = [r \in Replicas |-> {}]
    /\ age = [m \in MsgIds |-> Window]
    /\ others = [r \in Replicas |-> {}]
    /\ told = {}
    /\ rode = {}

---------------------------------------------------------------------------
\* Mutant: the window is a tick too short.
WithinLess(r) == {m \in windows[r] : age[m] + 1 < Window}

\* Mutant: nothing is pruned.
WithinAll(r) == windows[r]

\* The window: requests older than window_seconds are out of it.
Within(r) == {m \in windows[r] : age[m] < Window}

\* Time passes. The limiter prunes its list only when it is asked.
Tick ==
    /\ age' = [m \in MsgIds |-> IF age[m] < Window THEN age[m] + 1 ELSE Window]
    /\ UNCHANGED <<vars, windows, webhooks>>

\* is_allowed: what it keeps, whether it admits, and what it records then.
IsAllowed(r) == Cardinality(Within(r)) < MaxRequests

Admit(m, r) ==
    /\ IsAllowed(r)
    /\ windows' = [windows EXCEPT ![r] = Within(r) \cup {m}]
    /\ age' = [age EXCEPT ![m] = 0]

\* A webhook passes signature check, parsing and rate limit. messages[0] is p.
Receive(p, r) ==
    /\ Admit(<<p, deliveries[p] + 1>>, r)
    /\ Deliver(p, r)
    /\ \E q \in SUBSET (Pmids \ {p}) : others' = [others EXCEPT ![r] = q]
    /\ UNCHANGED <<told, rode>>

\* Mutant: a refusal is answered 200.
RefuseQuietly(r) ==
    /\ At(r, "idle")
    /\ ~IsAllowed(r)
    /\ \E p \in Pmids : told' = told \cup {p}
    /\ UNCHANGED <<vars, limiter, others, rode>>

\* check_rate_limit answers 429, and the provider will deliver again.
Refuse(r) ==
    /\ At(r, "idle")
    /\ ~IsAllowed(r)
    /\ windows' = [windows EXCEPT ![r] = Within(r)]
    /\ UNCHANGED <<vars, age, webhooks>>

\* The steps of persist_inbound_message.
Persist(r) ==
    /\ \/ CheckDuplicate(r) \/ LoadExisting(r)
       \/ SaveEvent(r) \/ SaveInbox(r) \/ SaveIndex(r)
    /\ UNCHANGED <<limiter, webhooks>>

Closed(r) == others' = [others EXCEPT ![r] = {}]

\* 200, for all messages of the webhook, unless it gets lost.
Acknowledge(r) ==
    /\ Respond(r)
    /\ \/ /\ faults' = faults
          /\ told' = told \cup {Pm(r)} \cup others[r]
          /\ rode' = rode \cup others[r]
       \/ faults' # faults /\ UNCHANGED <<told, rode>>
    /\ Closed(r)
    /\ UNCHANGED limiter

\* 500, for all messages of the webhook.
Fail(r) ==
    /\ LoadFails(r) \/ SaveFails(r)
    /\ Closed(r)
    /\ UNCHANGED <<limiter, told, rode>>

\* The process dies, and its window with it.
Die(r) ==
    /\ Crash(r)
    /\ windows' = [windows EXCEPT ![r] = {}]
    /\ Closed(r)
    /\ UNCHANGED <<age, told, rode>>

---------------------------------------------------------------------------
HandlerStep(r) == Persist(r) \/ Acknowledge(r)

GatewayNext ==
    \/ Tick
    \/ \E p \in Pmids, r \in Replicas : Receive(p, r)
    \/ \E r \in Replicas : Refuse(r) \/ HandlerStep(r)
    \/ \E r \in Replicas : Fail(r) \/ Die(r)

GatewaySpec == GatewayInit /\ [][GatewayNext]_gatewayVars

\* The provider delivers again what no 200 covered, at the latest in a webhook of
\* its own.
ReceiveAgain(p) == p \notin told /\ \E r \in Replicas : Receive(p, r)

GatewayFairSpec ==
    /\ GatewaySpec
    /\ WF_gatewayVars(Tick)
    /\ \A r \in Replicas : WF_gatewayVars(HandlerStep(r))
    /\ \A p \in Pmids : WF_gatewayVars(ReceiveAgain(p))

---------------------------------------------------------------------------
\* What a 200 is worth for a whole webhook: a message it covered is stored and will
\* be worked on, unless another came before it in the same webhook. The handler
\* stores messages[0] and acknowledges all.
ToldIsStored == \A p \in told \ rode : index[p] # NoId /\ WorkItems(p) # {}

\* In any stretch of window_seconds a sender gets no more requests through than the
\* limit for each process of the gateway, and once more for each that died: the
\* windows are theirs.
AdmissionsBounded ==
    Cardinality({m \in MsgIds : age[m] < Window})
        <= MaxRequests * (Cardinality(Replicas) + crashes)

\* A refusal is not for ever: every message gets its 200.
EventuallyTold == \A p \in Pmids : <>(p \in told)

\* The gateway does to the store what Ingress says, whatever comes in a webhook and
\* whatever is refused.
ImplementsIngress == Spec
===========================================================================
