----------------------------- MODULE StatusLog ------------------------------
(***************************************************************************)
(* The log of what became of a reply (src/src/gateway/routes/status.py).   *)
(* Meta reports that a message was sent, delivered, read or that it        *)
(* failed; a callback carries one report or several. For each report the   *)
(* handler loads the log of the day, appends and saves it back. It never   *)
(* awaits in between, so a replica has one callback under way; the         *)
(* replicas share the blob store, which has no conditional write.          *)
(*                                                                         *)
(* This is the log of one message; other messages have blobs of their own. *)
(***************************************************************************)
EXTENDS Naturals, Sequences, FiniteSets

CONSTANTS
    Reports,        \* status reports of the message
    Replicas,       \* gateway processes
    MaxDay,         \* bound: days in which reports arrive
    MaxDeliveries,  \* bound: deliveries of one report
    MaxFaults       \* bound: operations that fail, responses lost, replicas that die

ASSUME StatusLogAssumption ==
    /\ IsFiniteSet(Replicas)
    /\ MaxDay \in Nat \ {0}
    /\ MaxDeliveries \in Nat
    /\ MaxFaults \in Nat

VARIABLES
    log,         \* the transitions in events/{day}/{wamid}_status.json; empty: no blob
    day,         \* today
    deliveries,  \* deliveries of each report so far
    acked,       \* reports the provider was told 200 for
    step,        \* what each replica's callback does next
    whole,       \* the reports of its callback
    rest,        \* those it has not recorded yet, in order
    path,        \* the day whose log it loaded
    existing,    \* the log it loaded
    overlap,     \* have two callbacks held a copy of the same log at once?
    faults

locals == <<step, whole, rest, path, existing>>
vars == <<log, day, deliveries, acked, step, whole, rest, path, existing, overlap,
          faults>>

Days == 1..MaxDay
Steps == {"idle", "load", "save", "respond"}

StatusTypeOK ==
    /\ log \in [Days -> Seq(Reports)]
    /\ day \in Days
    /\ deliveries \in [Reports -> 0..MaxDeliveries]
    /\ acked \subseteq Reports
    /\ step \in [Replicas -> Steps]
    /\ whole \in [Replicas -> SUBSET Reports]
    /\ rest \in [Replicas -> Seq(Reports)]
    /\ path \in [Replicas -> Days]
    /\ existing \in [Replicas -> Seq(Reports)]
    /\ overlap \in BOOLEAN
    /\ faults \in 0..MaxFaults

Init ==
    /\ log = [d \in Days |-> <<>>]
    /\ day = 1
    /\ deliveries = [s \in Reports |-> 0]
    /\ acked = {}
    /\ step = [r \in Replicas |-> "idle"]
    /\ whole = [r \in Replicas |-> {}]
    /\ rest = [r \in Replicas |-> <<>>]
    /\ path = [r \in Replicas |-> 1]
    /\ existing = [r \in Replicas |-> <<>>]
    /\ overlap = FALSE
    /\ faults = 0

---------------------------------------------------------------------------
Members(s) == {s[i] : i \in DOMAIN s}

\* The reports of one callback: one, or two in either order.
Batches == {<<s>> : s \in Reports} \cup {<<s, t>> : s, t \in Reports}

At(r, s) == step[r] = s
Goto(r, s) == step' = [step EXCEPT ![r] = s]

Close(r) ==
    /\ Goto(r, "idle")
    /\ whole' = [whole EXCEPT ![r] = {}]
    /\ rest' = [rest EXCEPT ![r] = <<>>]
    /\ path' = [path EXCEPT ![r] = 1]
    /\ existing' = [existing EXCEPT ![r] = <<>>]

Fault == faults < MaxFaults /\ faults' = faults + 1

NextDay ==
    /\ day < MaxDay
    /\ day' = day + 1
    /\ UNCHANGED <<log, deliveries, acked, locals, overlap, faults>>

---------------------------------------------------------------------------
\* A callback arrives; one that was acknowledged may come again.
Callback(r, b) ==
    /\ At(r, "idle")
    /\ Cardinality(Members(b)) = Len(b)
    /\ \A s \in Members(b) : deliveries[s] < MaxDeliveries
    /\ deliveries' = [s \in Reports |-> deliveries[s] + (IF s \in Members(b) THEN 1 ELSE 0)]
    /\ Goto(r, "load")
    /\ whole' = [whole EXCEPT ![r] = Members(b)]
    /\ rest' = [rest EXCEPT ![r] = b]
    /\ UNCHANGED <<log, day, acked, path, existing, overlap, faults>>

\* Another callback that has loaded the log of day d and not yet saved it.
Holds(r, d) == At(r, "save") /\ path[r] = d

\* _append_status_transition, up to its load: of the log of today, which is not the
\* log of the report before when midnight came between them.
LoadLog(r) ==
    /\ At(r, "load")
    /\ path' = [path EXCEPT ![r] = day]
    /\ existing' = [existing EXCEPT ![r] = log[day]]
    /\ overlap' = (overlap \/ \E q \in Replicas \ {r} : Holds(q, day))
    /\ Goto(r, "save")
    /\ UNCHANGED <<log, day, deliveries, acked, whole, rest, faults>>

Appended(r) == [log EXCEPT ![path[r]] = Append(existing[r], Head(rest[r]))]

\* Mutant: the transitions start over with each callback.
SaveLogAfresh(r) ==
    /\ At(r, "save")
    /\ log' = [log EXCEPT ![path[r]] = <<Head(rest[r])>>]
    /\ rest' = [rest EXCEPT ![r] = Tail(@)]
    /\ Goto(r, IF Len(rest[r]) = 1 THEN "respond" ELSE "load")
    /\ UNCHANGED <<day, deliveries, acked, whole, path, existing, overlap, faults>>

\* ... and its save.
SaveLog(r) ==
    /\ At(r, "save")
    /\ log' = Appended(r)
    /\ rest' = [rest EXCEPT ![r] = Tail(@)]
    /\ Goto(r, IF Len(rest[r]) = 1 THEN "respond" ELSE "load")
    /\ UNCHANGED <<day, deliveries, acked, whole, path, existing, overlap, faults>>

\* 200 for the whole callback, which may not reach the provider.
Respond(r) ==
    /\ At(r, "respond")
    /\ \/ acked' = acked \cup whole[r] /\ UNCHANGED faults
       \/ Fault /\ UNCHANGED acked
    /\ Close(r)
    /\ UNCHANGED <<log, day, deliveries, overlap>>

\* Mutant: a log that cannot be loaded is skipped, and the callback acknowledged.
LoadFailsQuietly(r) ==
    /\ At(r, "load")
    /\ Fault
    /\ Goto(r, "respond")
    /\ UNCHANGED <<log, day, deliveries, acked, whole, rest, path, existing, overlap>>

\* A load or a save raises: the provider is told 500 for the whole callback, with
\* the reports before it recorded. The save may have landed.
LoadFails(r) ==
    /\ At(r, "load")
    /\ Fault
    /\ Close(r)
    /\ UNCHANGED <<log, day, deliveries, acked, overlap>>

\* Mutant: the handler tries again by itself.
SaveRetried(r) ==
    /\ At(r, "save")
    /\ Fault
    /\ log' \in {log, Appended(r)}
    /\ Goto(r, "load")
    /\ UNCHANGED <<day, deliveries, acked, whole, rest, path, existing, overlap>>

SaveFails(r) ==
    /\ At(r, "save")
    /\ Fault
    /\ log' \in {log, Appended(r)}
    /\ Close(r)
    /\ UNCHANGED <<day, deliveries, acked, overlap>>

Crash(r) ==
    /\ ~At(r, "idle")
    /\ Fault
    /\ Close(r)
    /\ UNCHANGED <<log, day, deliveries, acked, overlap>>

---------------------------------------------------------------------------
CallbackStep(r) == LoadLog(r) \/ SaveLog(r) \/ Respond(r)

CallbackFailure(r) == LoadFails(r) \/ SaveFails(r) \/ Crash(r)

Next ==
    \/ NextDay
    \/ \E r \in Replicas :
          (\E b \in Batches : Callback(r, b)) \/ CallbackStep(r) \/ CallbackFailure(r)

Spec == Init /\ [][Next]_vars

\* The provider reports again what was not acknowledged.
Redeliver(s) == s \notin acked /\ \E r \in Replicas : Callback(r, <<s>>)

FairSpec ==
    /\ Spec
    /\ \A r \in Replicas : WF_vars(CallbackStep(r))
    /\ \A s \in Reports : WF_vars(Redeliver(s))

---------------------------------------------------------------------------
Logged(s) == \E d \in Days : s \in Members(log[d])

\* An acknowledged report is in a log, of one day or another, unless two callbacks
\* held a copy of one log at the same time: then the later save drops what the
\* earlier appended (the load and the save of _append_status_transition).
AckedIsLogged == ~overlap => \A s \in acked : Logged(s)

\* A report is settled in the log of a day when no callback holds a copy of that
\* log without it. A settled report is never lost again: only a callback that was
\* under way when it was recorded can drop it, none that starts later.
Settled(s, d) ==
    /\ s \in Members(log[d])
    /\ \A r \in Replicas : Holds(r, d) => s \in Members(existing[r])

SettledStays ==
    [][\A s \in Reports, d \in Days : Settled(s, d) => Settled(s, d)']_vars

\* How often a report is in the logs of all days: at most once per delivery. It is
\* there more than once only when the provider was not told, or asked again.
Copies(s) == UNION {{<<d, i>> : i \in {k \in DOMAIN log[d] : log[d][k] = s}} : d \in Days}

OneCopyPerDelivery == \A s \in Reports : Cardinality(Copies(s)) <= deliveries[s]

\* Every report ends up in a log for good, whatever fails and however midnight
\* splits a callback, unless callbacks overlapped.
EventuallyLogged == \A s \in Reports : <>[](overlap \/ Logged(s))
===========================================================================
