-------------------------- MODULE StatusLogProofs --------------------------
(***************************************************************************)
(* What the status log keeps, for any number of reports, replicas, days    *)
(* and failures.                                                           *)
(***************************************************************************)
EXTENDS StatusLog, FiniteSetTheorems, TLAPS

LEMMA MembersOfAppend ==
    ASSUME NEW s \in Seq(Reports), NEW e \in Reports
    PROVE  Members(Append(s, e)) = Members(s) \cup {e}
<1> DEFINE t == Append(s, e)
<1>1. /\ DOMAIN s = 1..Len(s) /\ DOMAIN t = 1..(Len(s) + 1)
      /\ t[Len(s) + 1] = e
      /\ \A i \in 1..Len(s) : t[i] = s[i]
  OBVIOUS
<1>2. Members(s) = {s[i] : i \in 1..Len(s)} /\ Members(t) = {t[i] : i \in 1..(Len(s) + 1)}
  BY <1>1 DEF Members
<1>3. Len(s) \in Nat
  OBVIOUS
<1> HIDE DEF t
<1>4. \A i \in 1..(Len(s) + 1) : i \in 1..Len(s) \/ i = Len(s) + 1
  BY <1>3
<1>5. 1..Len(s) \subseteq 1..(Len(s) + 1) /\ Len(s) + 1 \in 1..(Len(s) + 1)
  BY <1>3
<1>6. Members(t) \subseteq Members(s) \cup {e}
  BY <1>1, <1>2, <1>4, Zenon
<1>7. Members(s) \subseteq Members(t)
  <2>1. \A i \in 1..Len(s) : s[i] \in {t[j] : j \in 1..(Len(s) + 1)}
    BY <1>1, <1>5
  <2> QED
    BY <1>2, <2>1
<1>8. e \in Members(t)
  BY <1>1, <1>2, <1>5
<1>9. Members(t) = Members(s) \cup {e}
  BY <1>6, <1>7, <1>8
<1> QED
  BY <1>9 DEF t

LEMMA MembersOfTail ==
    ASSUME NEW s \in Seq(Reports), Len(s) > 0
    PROVE  /\ Head(s) \in Reports /\ Tail(s) \in Seq(Reports)
           /\ Members(s) \subseteq {Head(s)} \cup Members(Tail(s))
<1>1. Head(s) \in Reports /\ Tail(s) \in Seq(Reports)
  OBVIOUS
<1>2. ASSUME NEW i \in DOMAIN s, i # 1 PROVE s[i] \in Members(Tail(s))
  <2>1. i - 1 \in DOMAIN Tail(s) /\ Tail(s)[i - 1] = s[i]
    BY <1>2
  <2> QED
    BY <2>1 DEF Members
<1>3. ASSUME NEW i \in DOMAIN s, i = 1 PROVE s[i] = Head(s)
  BY <1>3
<1> QED
  BY <1>1, <1>2, <1>3 DEF Members

LEMMA BatchIsSeq ==
    ASSUME NEW b \in Batches
    PROVE  b \in Seq(Reports) /\ Len(b) > 0 /\ Members(b) \subseteq Reports
<1>1. b \in Seq(Reports) /\ Len(b) > 0
  <2>1. ASSUME NEW s \in Reports, b = <<s>> PROVE b \in Seq(Reports) /\ Len(b) > 0
    BY <2>1
  <2>2. ASSUME NEW s \in Reports, NEW t \in Reports, b = <<s, t>>
        PROVE  b \in Seq(Reports) /\ Len(b) > 0
    BY <2>2
  <2>3. \/ \E s \in Reports : b = <<s>>
        \/ \E s, t \in Reports : b = <<s, t>>
    <3>1. CASE b \in {<<s>> : s \in Reports}
      BY <3>1
    <3>2. CASE b \in {<<s, t>> : s, t \in Reports}
      BY <3>2
    <3> QED
      BY <3>1, <3>2 DEF Batches
  <2> QED
    BY <2>1, <2>2, <2>3
<1>2. \A i \in DOMAIN b : b[i] \in Reports
  BY <1>1
<1> QED
  BY <1>1, <1>2 DEF Members

---------------------------------------------------------------------------
\* A callback under way has reports left to record, and one that answers has none.
TypeInv ==
    /\ StatusTypeOK
    /\ \A r \in Replicas :
          /\ step[r] \in {"load", "save"} => Len(rest[r]) > 0
          /\ step[r] = "respond" => Len(rest[r]) = 0

LEMMA TypeStep == TypeInv /\ [Next]_vars => TypeInv'
<1> SUFFICES ASSUME TypeInv, [Next]_vars PROVE TypeInv'
  OBVIOUS
<1> USE StatusLogAssumption DEF TypeInv, StatusTypeOK, Steps, Days, At, Goto
<1>1. CASE UNCHANGED vars
  BY <1>1 DEF vars, locals
<1>2. CASE NextDay
  BY <1>2 DEF NextDay, locals
<1>3. ASSUME NEW r \in Replicas, NEW b \in Batches, Callback(r, b) PROVE TypeInv'
  <2>1. deliveries' \in [Reports -> 0..MaxDeliveries]
    BY <1>3 DEF Callback
  <2>2. b \in Seq(Reports) /\ Len(b) > 0 /\ Members(b) \subseteq Reports
    BY BatchIsSeq
  <2> QED
    BY <1>3, <2>1, <2>2 DEF Callback
<1>4. ASSUME NEW r \in Replicas, LoadLog(r) PROVE TypeInv'
  <2>1. overlap' \in BOOLEAN
    BY <1>4, Zenon DEF LoadLog
  <2> QED
    BY <1>4, <2>1 DEF LoadLog
<1>5. ASSUME NEW r \in Replicas, SaveLog(r) PROVE TypeInv'
  <2>1. /\ rest[r] \in Seq(Reports) /\ Len(rest[r]) > 0
        /\ Head(rest[r]) \in Reports /\ Tail(rest[r]) \in Seq(Reports)
    BY <1>5, MembersOfTail DEF SaveLog
  <2>2. log' \in [1..MaxDay -> Seq(Reports)]
    BY <1>5, <2>1 DEF SaveLog, Appended
  <2>3. Len(Tail(rest[r])) = Len(rest[r]) - 1
    BY <2>1
  <2>4. /\ rest' = [rest EXCEPT ![r] = Tail(rest[r])]
        /\ step' = [step EXCEPT ![r] = IF Len(rest[r]) = 1 THEN "respond" ELSE "load"]
        /\ UNCHANGED <<day, deliveries, acked, whole, path, existing, overlap, faults>>
    BY <1>5 DEF SaveLog
  <2>5. rest' \in [Replicas -> Seq(Reports)] /\ step' \in [Replicas -> Steps]
    BY <2>1, <2>4
  <2>6. Len(rest[r]) \in Nat
    BY <2>1
  <2>7. step'[r] = "respond" => Len(rest'[r]) = 0
    BY <2>3, <2>4
  <2>8. step'[r] # "respond" => step'[r] = "load" /\ Len(rest'[r]) > 0
    BY <2>1, <2>3, <2>4, <2>6, SMTT(30)
  <2>9. \A q \in Replicas \ {r} : step'[q] = step[q] /\ rest'[q] = rest[q]
    BY <2>4
  <2>10. \A q \in Replicas :
            /\ step'[q] \in {"load", "save"} => Len(rest'[q]) > 0
            /\ step'[q] = "respond" => Len(rest'[q]) = 0
    BY <2>7, <2>8, <2>9
  <2> QED
    BY <2>2, <2>4, <2>5, <2>10
<1>6. ASSUME NEW r \in Replicas, Close(r), UNCHANGED <<day, deliveries, overlap>>,
             acked' \subseteq Reports, faults' \in 0..MaxFaults,
             log' \in [1..MaxDay -> Seq(Reports)]
      PROVE  TypeInv'
  <2>1. <<>> \in Seq(Reports)
    OBVIOUS
  <2>2. step' \in [Replicas -> Steps] /\ step'[r] = "idle"
    BY <1>6 DEF Close
  <2>3. whole' \in [Replicas -> SUBSET Reports]
    BY <1>6 DEF Close
  <2>4. rest' \in [Replicas -> Seq(Reports)] /\ existing' \in [Replicas -> Seq(Reports)]
    BY <1>6, <2>1 DEF Close
  <2>5. path' \in [Replicas -> 1..MaxDay]
    BY <1>6 DEF Close
  <2>6. \A q \in Replicas \ {r} : step'[q] = step[q] /\ rest'[q] = rest[q]
    BY <1>6 DEF Close
  <2>7. \A q \in Replicas :
           /\ step'[q] \in {"load", "save"} => Len(rest'[q]) > 0
           /\ step'[q] = "respond" => Len(rest'[q]) = 0
    BY <2>2, <2>6
  <2> QED
    BY <1>6, <2>2, <2>3, <2>4, <2>5, <2>7
<1>7. ASSUME NEW r \in Replicas, Respond(r) PROVE TypeInv'
  <2>1. acked' \subseteq Reports /\ faults' \in 0..MaxFaults
    <3>1. CASE acked' = acked \cup whole[r] /\ UNCHANGED faults
      <4>1. whole[r] \subseteq Reports
        OBVIOUS
      <4>2. QED
        BY <3>1, <4>1
    <3>2. CASE Fault /\ UNCHANGED acked
      BY <3>2 DEF Fault
    <3>3. QED
      BY <1>7, <3>1, <3>2 DEF Respond
  <2> QED
    BY <1>6, <1>7, <2>1 DEF Respond
<1>8. ASSUME NEW r \in Replicas, CallbackFailure(r) PROVE TypeInv'
  <2>1. log' \in [1..MaxDay -> Seq(Reports)]
    <3>1. CASE SaveFails(r)
      <4>1. Head(rest[r]) \in Reports
        BY <3>1, MembersOfTail DEF SaveFails
      <4>2. Appended(r) \in [1..MaxDay -> Seq(Reports)]
        BY <4>1 DEF Appended
      <4> QED
        BY <3>1, <4>2 DEF SaveFails
    <3> QED
      BY <1>8, <3>1 DEF CallbackFailure, LoadFails, Crash
  <2>2. faults' \in 0..MaxFaults
    BY <1>8, SMTT(30) DEF CallbackFailure, LoadFails, SaveFails, Crash, Fault
  <2>3. Close(r) /\ UNCHANGED <<day, deliveries, overlap>> /\ acked' \subseteq Reports
    BY <1>8 DEF CallbackFailure, LoadFails, SaveFails, Crash
  <2> QED
    BY <1>6, <2>1, <2>2, <2>3
<1> QED
  BY <1>1, <1>2, <1>3, <1>4, <1>5, <1>7, <1>8 DEF Next, CallbackStep

LEMMA TypeInit == Init => TypeInv
<1> SUFFICES ASSUME Init PROVE TypeInv
  OBVIOUS
<1>1. <<>> \in Seq(Reports)
  OBVIOUS
<1>2. /\ log \in [Days -> Seq(Reports)]
      /\ path \in [Replicas -> Days] /\ day \in Days
      /\ deliveries \in [Reports -> 0..MaxDeliveries] /\ faults \in 0..MaxFaults
  BY <1>1, StatusLogAssumption DEF Init, Days
<1>3. /\ rest \in [Replicas -> Seq(Reports)] /\ existing \in [Replicas -> Seq(Reports)]
      /\ step \in [Replicas -> Steps] /\ whole \in [Replicas -> SUBSET Reports]
  BY <1>1 DEF Init, Steps
<1>4. \A r \in Replicas : step[r] = "idle"
  BY DEF Init
<1> QED
  BY <1>2, <1>3, <1>4 DEF Init, TypeInv, StatusTypeOK

\* Every variable keeps its type.
THEOREM StatusTypes == Spec => []StatusTypeOK
<1>1. TypeInv => StatusTypeOK
  BY DEF TypeInv
<1> QED
  BY <1>1, TypeInit, TypeStep, PTL DEF Spec

---------------------------------------------------------------------------
\* A save, as it lands: the copy of the callback with its report appended.
Saves(r) == At(r, "save") /\ log' = Appended(r)

LEMMA LogChanges ==
    ASSUME TypeInv, [Next]_vars
    PROVE  UNCHANGED log \/ \E r \in Replicas : Saves(r)
BY DEF Next, vars, NextDay, Callback, CallbackStep, LoadLog, SaveLog, Respond, CallbackFailure,
       LoadFails, SaveFails, Crash, Saves

\* A report that is settled in the log of a day stays in it.
LEMMA SettledStep ==
    ASSUME TypeInv, [Next]_vars, NEW s \in Reports, NEW d \in Days, Settled(s, d)
    PROVE  Settled(s, d)'
<1> USE DEF TypeInv, StatusTypeOK
<1>1. s \in Members(log'[d])
  <2>1. CASE UNCHANGED log
    BY <2>1 DEF Settled
  <2>2. ASSUME NEW r \in Replicas, Saves(r) PROVE s \in Members(log'[d])
    <3>1. CASE path[r] # d
      BY <2>2, <3>1 DEF Saves, Appended, Settled
    <3>2. CASE path[r] = d
      <4>1. s \in Members(existing[r])
        BY <2>2, <3>2 DEF Saves, Settled, Holds
      <4>2. log'[d] = Append(existing[r], Head(rest[r]))
        BY <2>2, <3>2 DEF Saves, Appended
      <4>3. existing[r] \in Seq(Reports) /\ Head(rest[r]) \in Reports
        BY <2>2, MembersOfTail DEF Saves, At
      <4> QED
        BY <4>1, <4>2, <4>3, MembersOfAppend
    <3> QED
      BY <3>1, <3>2
  <2> QED
    BY <2>1, <2>2, LogChanges
<1>2. ASSUME NEW q \in Replicas, Holds(q, d)' PROVE s \in Members(existing'[q])
  <2>1. CASE step[q] = "save" /\ path'[q] = path[q] /\ existing'[q] = existing[q]
    BY <1>2, <2>1 DEF Holds, At, Settled
  <2>2. CASE LoadLog(q)
    BY <1>2, <2>2 DEF LoadLog, Holds, At, Settled
  <2>3. (step[q] = "save" /\ path'[q] = path[q] /\ existing'[q] = existing[q]) \/ LoadLog(q)
    <3>1. step'[q] = "save"
      BY <1>2 DEF Holds, At
    <3>2. ASSUME NEW r \in Replicas, r # q,
                 (\E b \in Batches : Callback(r, b)) \/ CallbackStep(r) \/ CallbackFailure(r)
          PROVE  step'[q] = step[q] /\ path'[q] = path[q] /\ existing'[q] = existing[q]
      BY <3>2 DEF Callback, CallbackStep, LoadLog, SaveLog, Respond, CallbackFailure, LoadFails,
                  SaveFails, Crash, Close, Goto
    <3>3. ASSUME (\E b \in Batches : Callback(q, b)) \/ SaveLog(q) \/ Respond(q) \/ CallbackFailure(q)
          PROVE  step'[q] # "save"
      BY <3>3 DEF Callback, SaveLog, Respond, CallbackFailure, LoadFails, SaveFails, Crash,
                  Close, Goto
    <3> QED
      BY <3>1, <3>2, <3>3 DEF Next, vars, locals, NextDay, CallbackStep
  <2> QED
    BY <2>1, <2>2, <2>3
<1> QED
  BY <1>1, <1>2 DEF Settled

\* A settled report is never lost.
THEOREM TheSettledStay == Spec => SettledStays
<1>1. TypeInv /\ [Next]_vars
      => \A s \in Reports, d \in Days : Settled(s, d) => Settled(s, d)'
  BY SettledStep
<1> QED
  BY <1>1, TypeInit, TypeStep, PTL DEF Spec, SettledStays

---------------------------------------------------------------------------
\* While no two callbacks held a copy of one log at once, a copy is up to date until it is
\* saved, and what a callback has behind it is logged.
LogInv ==
    ~overlap =>
        /\ \A s \in acked : Logged(s)
        /\ \A r \in Replicas : \A s \in whole[r] \ Members(rest[r]) : Logged(s)
        /\ \A r \in Replicas : At(r, "save") => existing[r] = log[path[r]]
        /\ \A q, r \in Replicas :
              q # r /\ At(q, "save") /\ At(r, "save") => path[q] # path[r]

\* Then a save only adds to the log.
LEMMA LogGrows ==
    ASSUME TypeInv, LogInv, ~overlap, NEW r \in Replicas, Saves(r)
    PROVE  /\ \A d \in Days \ {path[r]} : log'[d] = log[d]
           /\ \A s \in Reports : Logged(s) => Logged(s)'
           /\ Head(rest[r]) \in Members(log'[path[r]])
<1> USE DEF TypeInv, StatusTypeOK
<1>1. /\ path[r] \in Days /\ Head(rest[r]) \in Reports
      /\ existing[r] = log[path[r]] /\ log[path[r]] \in Seq(Reports)
  BY MembersOfTail DEF Saves, At, LogInv
<1>2. log'[path[r]] = Append(log[path[r]], Head(rest[r]))
  BY <1>1 DEF Saves, Appended
<1>3. Members(log'[path[r]]) = Members(log[path[r]]) \cup {Head(rest[r])}
  BY <1>1, <1>2, MembersOfAppend
<1>4. \A d \in Days \ {path[r]} : log'[d] = log[d]
  BY DEF Saves, Appended
<1>5. \A d \in Days : Members(log[d]) \subseteq Members(log'[d])
  <2>1. ASSUME NEW d \in Days PROVE Members(log[d]) \subseteq Members(log'[d])
    <3>1. CASE d = path[r]
      BY <1>3, <3>1
    <3>2. CASE d # path[r]
      BY <1>4, <3>2
    <3> QED
      BY <3>1, <3>2
  <2> QED
    BY <2>1
<1>6. \A s \in Reports : Logged(s) => Logged(s)'
  BY <1>5 DEF Logged
<1> QED
  BY <1>1, <1>3, <1>4, <1>6

LEMMA LogStep ==
    ASSUME TypeInv, LogInv, [Next]_vars
    PROVE  LogInv'
<1> SUFFICES ASSUME ~overlap' PROVE LogInv'
  BY DEF LogInv
<1> USE DEF TypeInv, StatusTypeOK
<1>o. ~overlap
  BY DEF Next, vars, NextDay, Callback, CallbackStep, LoadLog, SaveLog, Respond,
         CallbackFailure, LoadFails, SaveFails, Crash
<1>l. \A s \in Reports : Logged(s) => Logged(s)'
  <2>1. CASE UNCHANGED log
    BY <2>1 DEF Logged
  <2> QED
    BY <2>1, <1>o, LogGrows, LogChanges
<1>p. \A p, q \in Replicas : p # q /\ step[p] = "save" /\ step[q] = "save" => path[p] # path[q]
  BY <1>o DEF LogInv, At
<1>e. \A q \in Replicas : step[q] = "save" => existing[q] = log[path[q]]
  BY <1>o DEF LogInv, At
\* Who answers, fails or dies knows nothing afterwards; the others keep what they know.
<1>c. ASSUME NEW r \in Replicas, Close(r), UNCHANGED overlap,
             UNCHANGED log \/ Saves(r), \A s \in acked' : Logged(s)'
      PROVE  LogInv'
  <2>1. \A q \in Replicas \ {r} :
           /\ step'[q] = step[q] /\ whole'[q] = whole[q] /\ rest'[q] = rest[q]
           /\ path'[q] = path[q] /\ existing'[q] = existing[q]
    BY <1>c DEF Close, Goto
  <2>2. step'[r] = "idle" /\ whole'[r] = {}
    BY <1>c DEF Close, Goto
  <2>3. \A q \in Replicas \ {r} : step[q] = "save" => log'[path[q]] = log[path[q]]
    BY <1>c, <1>o, <1>p, LogGrows DEF Saves, At
  <2>4. \A q \in Replicas : \A s \in whole'[q] \ Members(rest'[q]) : Logged(s)'
    BY <2>1, <2>2, <1>o, <1>l DEF LogInv
  <2>5. \A q \in Replicas : step'[q] = "save" => existing'[q] = log'[path'[q]]
    <3>1. ASSUME NEW q \in Replicas, step'[q] = "save" PROVE existing'[q] = log'[path'[q]]
      <4>1. q \in Replicas \ {r}
        BY <2>2, <3>1
      <4>2. step[q] = "save" /\ path'[q] = path[q] /\ existing'[q] = existing[q]
        BY <2>1, <3>1, <4>1
      <4>3. existing[q] = log[path[q]] /\ log'[path[q]] = log[path[q]]
        BY <2>3, <4>1, <4>2, <1>e
      <4> QED
        BY <4>2, <4>3, Zenon
    <3> QED
      BY <3>1
  <2>6. \A p, q \in Replicas :
           p # q /\ step'[p] = "save" /\ step'[q] = "save" => path'[p] # path'[q]
    BY <2>1, <2>2, <1>p, ZenonT(30)
  <2> QED
    BY <1>c, <2>4, <2>5, <2>6 DEF LogInv, At
<1>1. CASE UNCHANGED vars
  BY <1>1, <1>o DEF vars, locals, LogInv, Logged, At
<1>2. CASE NextDay
  BY <1>2, <1>o DEF NextDay, locals, LogInv, Logged, At
<1>3. ASSUME NEW r \in Replicas, NEW b \in Batches, Callback(r, b) PROVE LogInv'
  <2>1. /\ UNCHANGED <<log, acked, path, existing, overlap>>
        /\ step'[r] = "load" /\ whole'[r] = Members(b) /\ rest'[r] = b
        /\ \A q \in Replicas \ {r} :
              step'[q] = step[q] /\ whole'[q] = whole[q] /\ rest'[q] = rest[q]
    BY <1>3 DEF Callback, Goto
  <2>2. \A q \in Replicas : step'[q] = "save" => q # r /\ step[q] = "save"
    BY <2>1
  <2>3. \A q \in Replicas : \A s \in whole'[q] \ Members(rest'[q]) :
           q # r /\ s \in whole[q] \ Members(rest[q])
    BY <2>1
  <2>4. \A q \in Replicas : \A s \in whole'[q] \ Members(rest'[q]) : Logged(s)'
    BY <2>1, <2>3, <1>o DEF LogInv, Logged
  <2>5. \A s \in acked' : Logged(s)'
    BY <2>1, <1>o DEF LogInv, Logged
  <2>6. \A q \in Replicas : step'[q] = "save" => existing'[q] = log'[path'[q]]
    BY <2>1, <2>2, <1>e
  <2>7. \A p, q \in Replicas :
           p # q /\ step'[p] = "save" /\ step'[q] = "save" => path'[p] # path'[q]
    BY <2>1, <2>2, <1>p
  <2> QED
    BY <2>4, <2>5, <2>6, <2>7 DEF LogInv, At
<1>4. ASSUME NEW r \in Replicas, LoadLog(r) PROVE LogInv'
  <2>1. /\ UNCHANGED <<log, acked, whole, rest>>
        /\ step'[r] = "save" /\ path'[r] = day /\ existing'[r] = log[day]
        /\ \A q \in Replicas \ {r} :
              step'[q] = step[q] /\ path'[q] = path[q] /\ existing'[q] = existing[q]
    BY <1>4 DEF LoadLog, Goto
  <2>2. \A q \in Replicas \ {r} : step[q] = "save" => path[q] # day
    BY <1>4 DEF LoadLog, Holds, At
  <2>3. \A s \in acked' : Logged(s)'
    BY <2>1, <1>o DEF LogInv, Logged
  <2>4. \A q \in Replicas : \A s \in whole'[q] \ Members(rest'[q]) : Logged(s)'
    BY <2>1, <1>o DEF LogInv, Logged
  <2>5. \A q \in Replicas : step'[q] = "save" => existing'[q] = log'[path'[q]]
    BY <2>1, <1>e
  <2>6. \A p, q \in Replicas :
           p # q /\ step'[p] = "save" /\ step'[q] = "save" => path'[p] # path'[q]
    <3>1. ASSUME NEW p \in Replicas, NEW q \in Replicas, p # q,
                 step'[p] = "save", step'[q] = "save"
          PROVE  path'[p] # path'[q]
      <4>1. CASE p = r
        BY <2>1, <2>2, <3>1, <4>1
      <4>2. CASE q = r
        BY <2>1, <2>2, <3>1, <4>2
      <4>3. CASE p # r /\ q # r
        BY <2>1, <3>1, <4>3, <1>p, SMTT(30)
      <4> QED
        BY <4>1, <4>2, <4>3
    <3> QED
      BY <3>1
  <2> QED
    BY <2>3, <2>4, <2>5, <2>6 DEF LogInv, At
<1>5. ASSUME NEW r \in Replicas, SaveLog(r) PROVE LogInv'
  <2>1. /\ UNCHANGED <<acked, whole, path, existing>> /\ Saves(r)
        /\ step'[r] # "save" /\ rest'[r] = Tail(rest[r])
        /\ \A q \in Replicas \ {r} : step'[q] = step[q] /\ rest'[q] = rest[q]
    BY <1>5 DEF SaveLog, Goto, Saves
  <2>2. /\ rest[r] \in Seq(Reports) /\ Len(rest[r]) > 0
    BY <1>5 DEF SaveLog, At
  <2>3. Members(rest[r]) \subseteq {Head(rest[r])} \cup Members(rest'[r])
    BY <2>1, <2>2, MembersOfTail
  <2>4. \A s \in whole[r] \ Members(rest'[r]) : Logged(s)'
    <3>1. path[r] \in Days /\ Head(rest[r]) \in Members(log'[path[r]])
      BY <2>1, <1>o, LogGrows
    <3>2. ASSUME NEW s \in whole[r] \ Members(rest'[r]) PROVE Logged(s)'
      <4>1. CASE s = Head(rest[r])
        BY <3>1, <4>1 DEF Logged
      <4>2. CASE s # Head(rest[r])
        <5>1. s \in whole[r] \ Members(rest[r]) /\ s \in Reports
          BY <2>3, <3>2, <4>2
        <5>2. Logged(s)
          BY <5>1, <1>o DEF LogInv
        <5> QED
          BY <5>1, <5>2, <1>l
      <4> QED
        BY <4>1, <4>2
    <3> QED
      BY <3>2
  <2>5. \A q \in Replicas \ {r} : step[q] = "save" => log'[path[q]] = log[path[q]]
    BY <2>1, <1>o, <1>p, LogGrows DEF Saves, At
  <2>6. \A s \in acked' : Logged(s)'
    BY <2>1, <1>o, <1>l DEF LogInv
  <2>7. \A q \in Replicas : \A s \in whole'[q] \ Members(rest'[q]) : Logged(s)'
    BY <2>1, <2>4, <1>o, <1>l DEF LogInv
  <2>8. \A q \in Replicas : step'[q] = "save" => existing'[q] = log'[path'[q]]
    BY <2>1, <2>5, <1>e
  <2>9. \A p, q \in Replicas :
           p # q /\ step'[p] = "save" /\ step'[q] = "save" => path'[p] # path'[q]
    BY <2>1, <1>p
  <2> QED
    BY <2>6, <2>7, <2>8, <2>9 DEF LogInv, At
<1>6. ASSUME NEW r \in Replicas, Respond(r) PROVE LogInv'
  <2>1. Members(rest[r]) = {}
    BY <1>6 DEF Respond, At, Members
  <2>2. \A s \in whole[r] : Logged(s)
    BY <2>1, <1>o DEF LogInv
  <2>3. acked' \subseteq acked \cup whole[r] /\ UNCHANGED log
    BY <1>6 DEF Respond
  <2>4. \A s \in acked' : Logged(s)'
    BY <2>2, <2>3, <1>o DEF LogInv, Logged
  <2> QED
    BY <1>6, <2>4, <1>c DEF Respond
<1>7. ASSUME NEW r \in Replicas, CallbackFailure(r) PROVE LogInv'
  <2>1. /\ Close(r) /\ UNCHANGED <<overlap, acked>>
        /\ UNCHANGED log \/ Saves(r)
    BY <1>7 DEF CallbackFailure, LoadFails, SaveFails, Crash, Saves
  <2>2. \A s \in acked' : Logged(s)'
    BY <2>1, <1>o, <1>l DEF LogInv
  <2> QED
    BY <2>1, <2>2, <1>c
<1> QED
  BY <1>1, <1>2, <1>3, <1>4, <1>5, <1>6, <1>7 DEF Next, CallbackStep

\* Nothing acknowledged is missing unless callbacks overlapped.
THEOREM TheAckedAreLogged == Spec => []AckedIsLogged
<1>1. Init => LogInv
  BY DEF Init, LogInv, At
<1>2. LogInv => AckedIsLogged
  BY DEF LogInv, AckedIsLogged
<1> QED
  BY <1>1, <1>2, TypeInit, TypeStep, LogStep, PTL DEF Spec

---------------------------------------------------------------------------
\* One copy per delivery. A callback may hold a copy of a log that another has already
\* replaced, and its save brings that copy back: what is counted is every place a report has
\* in a log or in a copy held of one, with the callbacks that have it still to record.
Occurs(l, i, s) == i \in DOMAIN l /\ l[i] = s

InCopy(s, d, i) == \E r \in Replicas : Holds(r, d) /\ Occurs(existing[r], i, s)

Places(s) == {x \in Days \X Nat : Occurs(log[x[1]], x[2], s) \/ InCopy(s, x[1], x[2])}

ToRecord(s) == {r \in Replicas : s \in Members(rest[r])}

Distinct(l) == \A i, j \in DOMAIN l : l[i] = l[j] => i = j

CopyInv ==
    /\ \A r \in Replicas : Distinct(rest[r])
    /\ \A s \in Reports :
          /\ IsFiniteSet(Places(s))
          /\ Cardinality(Places(s)) + Cardinality(ToRecord(s)) <= deliveries[s]

LEMMA CopyInit == Init => CopyInv
<1> SUFFICES ASSUME Init PROVE CopyInv
  OBVIOUS
<1>1. /\ \A d \in Days : log[d] = <<>>
      /\ \A r \in Replicas : rest[r] = <<>> /\ step[r] = "idle"
      /\ \A s \in Reports : deliveries[s] = 0
  BY DEF Init
<1>2. DOMAIN <<>> = {}
  OBVIOUS
<1>3. \A r \in Replicas : Distinct(rest[r]) /\ Members(rest[r]) = {}
  BY <1>1, <1>2 DEF Distinct, Members
<1>4. ASSUME NEW s \in Reports
      PROVE  /\ IsFiniteSet(Places(s))
             /\ Cardinality(Places(s)) + Cardinality(ToRecord(s)) <= deliveries[s]
  <2>1. Places(s) = {}
    BY <1>1, <1>2 DEF Places, Occurs, InCopy, Holds, At
  <2>2. ToRecord(s) = {}
    BY <1>3 DEF ToRecord
  <2> QED
    BY <1>1, <2>1, <2>2, FS_EmptySet
<1> QED
  BY <1>3, <1>4 DEF CopyInv

\* A sequence without duplicates does not have its head again.
LEMMA DistinctTail ==
    ASSUME NEW l \in Seq(Reports), Len(l) > 0, Distinct(l)
    PROVE  /\ Distinct(Tail(l)) /\ Head(l) \in Members(l)
           /\ Members(Tail(l)) \subseteq Members(l) \ {Head(l)}
<1> DEFINE t == Tail(l)
<1>1. /\ Len(l) \in Nat /\ DOMAIN l = 1..Len(l) /\ DOMAIN t = 1..(Len(l) - 1)
      /\ \A i \in 1..(Len(l) - 1) : t[i] = l[i + 1]
      /\ Head(l) = l[1]
  OBVIOUS
<1> HIDE DEF t
<1>2. 1 \in DOMAIN l
  BY <1>1
<1>3. \A i \in DOMAIN t : i + 1 \in DOMAIN l /\ i + 1 # 1 /\ t[i] = l[i + 1]
  BY <1>1
<1>4. Distinct(t)
  <2>1. ASSUME NEW i \in DOMAIN t, NEW j \in DOMAIN t, t[i] = t[j] PROVE i = j
    <3>1. i + 1 = j + 1
      BY <2>1, <1>3 DEF Distinct
    <3> QED
      BY <1>1, <3>1
  <2> QED
    BY <2>1 DEF Distinct
<1>5. Head(l) \in Members(l)
  BY <1>1, <1>2 DEF Members
<1>6. ASSUME NEW e \in Members(t) PROVE e \in Members(l) \ {Head(l)}
  <2>1. PICK i \in DOMAIN t : e = t[i]
    BY <1>6 DEF Members
  <2>2. i + 1 \in DOMAIN l /\ e = l[i + 1] /\ i + 1 # 1
    BY <2>1, <1>3
  <2>3. e # l[1]
    BY <2>2, <1>2 DEF Distinct
  <2> QED
    BY <2>2, <2>3, <1>1 DEF Members
<1> QED
  BY <1>4, <1>5, <1>6 DEF t

\* A callback names a report once.
LEMMA BatchIsDistinct ==
    ASSUME NEW b \in Batches, Cardinality(Members(b)) = Len(b)
    PROVE  Distinct(b)
<1>1. ASSUME NEW s \in Reports, b = <<s>> PROVE Distinct(b)
  BY <1>1 DEF Distinct
<1>2. ASSUME NEW s \in Reports, NEW t \in Reports, b = <<s, t>> PROVE Distinct(b)
  <2>1. DOMAIN b = {1, 2} /\ b[1] = s /\ b[2] = t /\ Len(b) = 2
    BY <1>2
  <2>2. s # t
    <3>1. SUFFICES ASSUME s = t PROVE FALSE
      OBVIOUS
    <3>2. Members(b) = {s}
      BY <2>1, <3>1 DEF Members
    <3>3. Cardinality(Members(b)) = 1
      BY <3>2, FS_Singleton
    <3>4. Len(b) = 1
      BY <3>3, Zenon
    <3> QED
      BY <3>4, <2>1
  <2> QED
    BY <2>1, <2>2 DEF Distinct
<1>3. \/ \E s \in Reports : b = <<s>>
      \/ \E s, t \in Reports : b = <<s, t>>
  <2>1. CASE b \in {<<s>> : s \in Reports}
    BY <2>1
  <2>2. CASE b \in {<<s, t>> : s, t \in Reports}
    BY <2>2
  <2> QED
    BY <2>1, <2>2 DEF Batches
<1> QED
  BY <1>1, <1>2, <1>3

\* Who had a report to record, and who has it after a step of one callback.
LEMMA RecordersOf ==
    ASSUME TypeInv, NEW r \in Replicas, NEW s \in Reports,
           \A q \in Replicas \ {r} : rest'[q] = rest[q]
    PROVE  /\ ToRecord(s)' \subseteq ToRecord(s) \cup {r}
           /\ s \notin Members(rest'[r]) => ToRecord(s)' \subseteq ToRecord(s) \ {r}
           /\ Members(rest'[r]) \subseteq Members(rest[r]) => ToRecord(s)' \subseteq ToRecord(s)
BY DEF ToRecord

LEMMA OneMore ==
    ASSUME NEW S, IsFiniteSet(S), NEW x
    PROVE  IsFiniteSet(S \cup {x}) /\ Cardinality(S \cup {x}) <= Cardinality(S) + 1
<1>1. Cardinality(S) \in Nat
  BY FS_CardinalityType
<1>2. IsFiniteSet(S \cup {x})
  BY FS_AddElement
<1>3. CASE x \in S
  <2>1. S \cup {x} = S
    BY <1>3
  <2>2. Cardinality(S \cup {x}) = Cardinality(S)
    BY <2>1, Zenon
  <2> QED
    BY <1>1, <1>2, <2>2
<1>4. CASE x \notin S
  <2>1. Cardinality(S \cup {x}) = Cardinality(S) + 1
    BY <1>4, FS_AddElement
  <2> QED
    BY <1>1, <1>2, <2>1
<1> QED
  BY <1>3, <1>4

\* A step that adds no place, and nobody to record it.
LEMMA NoMore ==
    ASSUME StatusLogAssumption, TypeInv, CopyInv, NEW s \in Reports,
           Places(s)' \subseteq Places(s), ToRecord(s)' \subseteq ToRecord(s),
           deliveries'[s] = deliveries[s]
    PROVE  /\ IsFiniteSet(Places(s)')
           /\ Cardinality(Places(s)') + Cardinality(ToRecord(s)') <= deliveries'[s]
<1>1. IsFiniteSet(ToRecord(s)) /\ IsFiniteSet(Places(s))
  BY FS_Subset DEF StatusLogAssumption, ToRecord, CopyInv
<1>2. /\ IsFiniteSet(Places(s)') /\ Cardinality(Places(s)') <= Cardinality(Places(s))
      /\ IsFiniteSet(ToRecord(s)') /\ Cardinality(ToRecord(s)') <= Cardinality(ToRecord(s))
  BY <1>1, FS_Subset
<1>3. /\ Cardinality(Places(s)) \in Nat /\ Cardinality(Places(s)') \in Nat
      /\ Cardinality(ToRecord(s)) \in Nat /\ Cardinality(ToRecord(s)') \in Nat
      /\ deliveries[s] \in Nat
  BY <1>1, <1>2, FS_CardinalityType DEF TypeInv, StatusTypeOK
<1>4. Cardinality(Places(s)) + Cardinality(ToRecord(s)) <= deliveries[s]
  BY DEF CopyInv
<1> QED
  BY <1>2, <1>3, <1>4

\* A callback that writes a report down has it no longer to record.
LEMMA OneWritten ==
    ASSUME StatusLogAssumption, TypeInv, CopyInv, NEW s \in Reports,
           NEW r \in ToRecord(s), NEW x,
           Places(s)' \subseteq Places(s) \cup {x}, ToRecord(s)' \subseteq ToRecord(s) \ {r},
           deliveries'[s] = deliveries[s]
    PROVE  /\ IsFiniteSet(Places(s)')
           /\ Cardinality(Places(s)') + Cardinality(ToRecord(s)') <= deliveries'[s]
<1>1. IsFiniteSet(ToRecord(s)) /\ IsFiniteSet(Places(s))
  BY FS_Subset DEF StatusLogAssumption, ToRecord, CopyInv
<1>2. /\ IsFiniteSet(Places(s) \cup {x})
      /\ Cardinality(Places(s) \cup {x}) <= Cardinality(Places(s)) + 1
  BY <1>1, OneMore
<1>3. /\ IsFiniteSet(ToRecord(s) \ {r})
      /\ Cardinality(ToRecord(s) \ {r}) = Cardinality(ToRecord(s)) - 1
  BY <1>1, FS_RemoveElement
<1>4. /\ IsFiniteSet(Places(s)') /\ Cardinality(Places(s)') <= Cardinality(Places(s) \cup {x})
      /\ IsFiniteSet(ToRecord(s)') /\ Cardinality(ToRecord(s)') <= Cardinality(ToRecord(s) \ {r})
  BY <1>2, <1>3, FS_Subset
<1>5. /\ Cardinality(Places(s)) \in Nat /\ Cardinality(Places(s)') \in Nat
      /\ Cardinality(Places(s) \cup {x}) \in Nat
      /\ Cardinality(ToRecord(s)) \in Nat /\ Cardinality(ToRecord(s)') \in Nat
      /\ deliveries[s] \in Nat
  BY <1>1, <1>2, <1>4, FS_CardinalityType DEF TypeInv, StatusTypeOK
<1>6. Cardinality(Places(s)) + Cardinality(ToRecord(s)) <= deliveries[s]
  BY DEF CopyInv
<1> QED
  BY <1>2, <1>3, <1>4, <1>5, <1>6

\* A delivery brings one more callback with the report to record.
LEMMA OneDelivered ==
    ASSUME StatusLogAssumption, TypeInv, CopyInv, NEW s \in Reports, NEW r \in Replicas,
           Places(s)' \subseteq Places(s), ToRecord(s)' \subseteq ToRecord(s) \cup {r},
           deliveries'[s] = deliveries[s] + 1
    PROVE  /\ IsFiniteSet(Places(s)')
           /\ Cardinality(Places(s)') + Cardinality(ToRecord(s)') <= deliveries'[s]
<1>1. IsFiniteSet(ToRecord(s)) /\ IsFiniteSet(Places(s))
  BY FS_Subset DEF StatusLogAssumption, ToRecord, CopyInv
<1>2. /\ IsFiniteSet(ToRecord(s) \cup {r})
      /\ Cardinality(ToRecord(s) \cup {r}) <= Cardinality(ToRecord(s)) + 1
  BY <1>1, OneMore
<1>3. /\ IsFiniteSet(Places(s)') /\ Cardinality(Places(s)') <= Cardinality(Places(s))
      /\ IsFiniteSet(ToRecord(s)') /\ Cardinality(ToRecord(s)') <= Cardinality(ToRecord(s) \cup {r})
  BY <1>1, <1>2, FS_Subset
<1>4. /\ Cardinality(Places(s)) \in Nat /\ Cardinality(Places(s)') \in Nat
      /\ Cardinality(ToRecord(s) \cup {r}) \in Nat
      /\ Cardinality(ToRecord(s)) \in Nat /\ Cardinality(ToRecord(s)') \in Nat
      /\ deliveries[s] \in Nat
  BY <1>1, <1>2, <1>3, FS_CardinalityType DEF TypeInv, StatusTypeOK
<1>5. Cardinality(Places(s)) + Cardinality(ToRecord(s)) <= deliveries[s]
  BY DEF CopyInv
<1> QED
  BY <1>2, <1>3, <1>4, <1>5

\* The places of a report when a callback saves: those there were, and one if it is the
\* report that is saved. The copy the callback held is no place of its own any more.
LEMMA PlacesOfSave ==
    ASSUME TypeInv, NEW r \in Replicas, Saves(r), step'[r] # "save",
           \A q \in Replicas \ {r} :
              step'[q] = step[q] /\ path'[q] = path[q] /\ existing'[q] = existing[q],
           NEW s \in Reports
    PROVE  Places(s)' \subseteq
              Places(s) \cup (IF Head(rest[r]) = s THEN {<<path[r], Len(existing[r]) + 1>>} ELSE {})
<1> USE DEF TypeInv, StatusTypeOK
<1> DEFINE e == existing[r]
           h == Head(rest[r])
<1>1. /\ path[r] \in Days /\ e \in Seq(Reports) /\ h \in Reports
      /\ step[r] = "save"
  BY MembersOfTail DEF Saves, At
<1>2. log'[path[r]] = Append(e, h) /\ \A d \in Days \ {path[r]} : log'[d] = log[d]
  BY DEF Saves, Appended
<1>3. \A i \in DOMAIN Append(e, h) :
         \/ i \in DOMAIN e /\ Append(e, h)[i] = e[i]
         \/ i = Len(e) + 1 /\ Append(e, h)[i] = h
  BY <1>1
<1> HIDE DEF e, h
<1>4. ASSUME NEW d \in Days, NEW i \in Nat, Occurs(log'[d], i, s)
      PROVE  \/ Occurs(log[d], i, s) \/ InCopy(s, d, i)
             \/ h = s /\ <<d, i>> = <<path[r], Len(e) + 1>>
  <2>1. CASE d # path[r]
    BY <1>2, <1>4, <2>1
  <2>2. CASE d = path[r]
    <3>1. i \in DOMAIN Append(e, h) /\ Append(e, h)[i] = s
      BY <1>2, <1>4, <2>2 DEF Occurs
    <3>2. CASE i \in DOMAIN e /\ Append(e, h)[i] = e[i]
      <4>1. Holds(r, d) /\ Occurs(existing[r], i, s)
        BY <1>1, <2>2, <3>1, <3>2 DEF Holds, At, Occurs, e
      <4> QED
        BY <4>1 DEF InCopy
    <3>3. CASE i = Len(e) + 1 /\ Append(e, h)[i] = h
      BY <2>2, <3>1, <3>3
    <3> QED
      BY <1>3, <3>1, <3>2, <3>3
  <2> QED
    BY <2>1, <2>2
<1>5. ASSUME NEW d \in Days, NEW i \in Nat, InCopy(s, d, i)' PROVE InCopy(s, d, i)
  <2>1. PICK q \in Replicas : step'[q] = "save" /\ path'[q] = d /\ Occurs(existing'[q], i, s)
    BY <1>5 DEF InCopy, Holds, At
  <2>2. q \in Replicas \ {r}
    BY <2>1
  <2>3. step[q] = "save" /\ path[q] = d /\ Occurs(existing[q], i, s)
    BY <2>1, <2>2
  <2> QED
    BY <2>3 DEF InCopy, Holds, At
<1>6. ASSUME NEW x \in Places(s)'
      PROVE  x \in Places(s) \/ (h = s /\ x = <<path[r], Len(e) + 1>>)
  <2>1. /\ x \in Days \X Nat /\ x[1] \in Days /\ x[2] \in Nat /\ x = <<x[1], x[2]>>
        /\ Occurs(log'[x[1]], x[2], s) \/ InCopy(s, x[1], x[2])'
    BY <1>6 DEF Places
  <2>2. \/ Occurs(log[x[1]], x[2], s) \/ InCopy(s, x[1], x[2])
        \/ h = s /\ <<x[1], x[2]>> = <<path[r], Len(e) + 1>>
    BY <2>1, <1>4, <1>5
  <2> QED
    BY <2>1, <2>2 DEF Places
<1> QED
  BY <1>6 DEF e, h

\* A callback that is loading holds a copy afterwards, of a log that is there.
LEMMA PlacesOfLoad ==
    ASSUME TypeInv, NEW r \in Replicas, LoadLog(r), NEW s \in Reports
    PROVE  Places(s)' \subseteq Places(s)
<1> USE DEF TypeInv, StatusTypeOK
<1>1. /\ UNCHANGED log /\ path'[r] = day /\ existing'[r] = log[day] /\ day \in Days
      /\ \A q \in Replicas \ {r} :
            step'[q] = step[q] /\ path'[q] = path[q] /\ existing'[q] = existing[q]
  BY DEF LoadLog, Goto
<1>2. ASSUME NEW d \in Days, NEW i \in Nat, InCopy(s, d, i)'
      PROVE  Occurs(log[d], i, s) \/ InCopy(s, d, i)
  <2>1. PICK q \in Replicas : step'[q] = "save" /\ path'[q] = d /\ Occurs(existing'[q], i, s)
    BY <1>2 DEF InCopy, Holds, At
  <2>2. CASE q = r
    BY <1>1, <2>1, <2>2
  <2>3. CASE q # r
    BY <1>1, <2>1, <2>3 DEF InCopy, Holds, At
  <2> QED
    BY <2>2, <2>3
<1>3. ASSUME NEW x \in Places(s)' PROVE x \in Places(s)
  <2>1. /\ x \in Days \X Nat /\ x[1] \in Days /\ x[2] \in Nat
        /\ Occurs(log'[x[1]], x[2], s) \/ InCopy(s, x[1], x[2])'
    BY <1>3 DEF Places
  <2>2. Occurs(log[x[1]], x[2], s) \/ InCopy(s, x[1], x[2])
    BY <1>1, <1>2, <2>1
  <2> QED
    BY <2>1, <2>2 DEF Places
<1> QED
  BY <1>3

\* Without a load and without a save there is no new place.
LEMMA PlacesOfOthers ==
    ASSUME UNCHANGED log, NEW s,
           \A q \in Replicas : step'[q] = "save" =>
              step[q] = "save" /\ path'[q] = path[q] /\ existing'[q] = existing[q]
    PROVE  Places(s)' \subseteq Places(s)
<1>1. ASSUME NEW d, NEW i, InCopy(s, d, i)' PROVE InCopy(s, d, i)
  BY <1>1 DEF InCopy, Holds, At
<1>2. ASSUME NEW x \in Places(s)' PROVE x \in Places(s)
  <2>1. x \in Days \X Nat /\ (Occurs(log'[x[1]], x[2], s) \/ InCopy(s, x[1], x[2])')
    BY <1>2 DEF Places
  <2>2. Occurs(log[x[1]], x[2], s) \/ InCopy(s, x[1], x[2])
    BY <1>1, <2>1
  <2> QED
    BY <2>1, <2>2 DEF Places
<1> QED
  BY <1>2

\* Who answers, fails or dies forgets what it had to record and the copy it held, and may
\* have saved it.
LEMMA CopyClose ==
    ASSUME StatusLogAssumption, TypeInv, CopyInv, NEW r \in Replicas, Close(r),
           UNCHANGED deliveries, UNCHANGED log \/ Saves(r)
    PROVE  CopyInv'
<1> USE DEF TypeInv, StatusTypeOK
<1>1. /\ step'[r] = "idle" /\ rest'[r] = <<>>
      /\ \A q \in Replicas \ {r} :
            /\ step'[q] = step[q] /\ rest'[q] = rest[q]
            /\ path'[q] = path[q] /\ existing'[q] = existing[q]
  BY DEF Close, Goto
<1>2. DOMAIN rest'[r] = {} /\ Members(rest'[r]) = {}
  <2>1. DOMAIN <<>> = {}
    OBVIOUS
  <2> QED
    BY <1>1, <2>1 DEF Members
<1>3. \A q \in Replicas : Distinct(rest'[q])
  BY <1>1, <1>2 DEF CopyInv, Distinct
<1>4. ASSUME NEW s \in Reports
      PROVE  /\ IsFiniteSet(Places(s)')
             /\ Cardinality(Places(s)') + Cardinality(ToRecord(s)') <= deliveries'[s]
  <2>1. ToRecord(s)' \subseteq ToRecord(s) \ {r}
    BY <1>1, <1>2, RecordersOf
  <2>2. CASE UNCHANGED log
    <3>1. Places(s)' \subseteq Places(s)
      BY <1>1, <2>2, PlacesOfOthers
    <3> QED
      BY <2>1, <3>1, NoMore
  <2>3. CASE Saves(r)
    <3>1. Places(s)' \subseteq
             Places(s) \cup (IF Head(rest[r]) = s THEN {<<path[r], Len(existing[r]) + 1>>} ELSE {})
      BY <1>1, <2>3, PlacesOfSave
    <3>2. CASE Head(rest[r]) = s
      <4>1. s \in Members(rest[r])
        BY <2>3, <3>2, DistinctTail DEF Saves, At, CopyInv
      <4>2. r \in ToRecord(s)
        BY <4>1 DEF ToRecord
      <4> QED
        BY <2>1, <3>1, <3>2, <4>2, OneWritten
    <3>3. CASE Head(rest[r]) # s
      BY <2>1, <3>1, <3>3, NoMore
    <3> QED
      BY <3>2, <3>3
  <2> QED
    BY <2>2, <2>3
<1> QED
  BY <1>3, <1>4 DEF CopyInv

LEMMA CopyStep ==
    ASSUME TypeInv, CopyInv, [Next]_vars
    PROVE  CopyInv'
<1> USE StatusLogAssumption DEF TypeInv, StatusTypeOK
\* A step that changes nothing of it.
<1>0. ASSUME UNCHANGED <<log, deliveries, step, rest, path, existing>> PROVE CopyInv'
  <2>1. \A r \in Replicas : Distinct(rest'[r])
    BY <1>0 DEF CopyInv
  <2>2. ASSUME NEW s \in Reports PROVE Places(s)' \subseteq Places(s) /\ ToRecord(s)' \subseteq ToRecord(s)
    BY <1>0, PlacesOfOthers DEF ToRecord
  <2> QED
    BY <1>0, <2>1, <2>2, NoMore DEF CopyInv
<1>1. CASE UNCHANGED vars
  BY <1>0, <1>1 DEF vars, locals
<1>2. CASE NextDay
  BY <1>0, <1>2 DEF NextDay, locals
<1>3. ASSUME NEW r \in Replicas, NEW b \in Batches, Callback(r, b) PROVE CopyInv'
  <2>1. /\ UNCHANGED <<log, path, existing>>
        /\ step'[r] = "load" /\ rest'[r] = b
        /\ \A q \in Replicas \ {r} : step'[q] = step[q] /\ rest'[q] = rest[q]
    BY <1>3 DEF Callback, Goto
  <2>2. Distinct(b)
    BY <1>3, BatchIsDistinct DEF Callback
  <2>3. \A q \in Replicas : Distinct(rest'[q])
    BY <2>1, <2>2 DEF CopyInv
  <2>4. ASSUME NEW s \in Reports
        PROVE  /\ IsFiniteSet(Places(s)')
               /\ Cardinality(Places(s)') + Cardinality(ToRecord(s)') <= deliveries'[s]
    <3>1. Places(s)' \subseteq Places(s)
      BY <2>1, PlacesOfOthers
    <3>2. CASE s \in Members(b)
      <4>1. deliveries'[s] = deliveries[s] + 1
        BY <1>3, <3>2 DEF Callback
      <4>2. ToRecord(s)' \subseteq ToRecord(s) \cup {r}
        BY <2>1, RecordersOf
      <4> QED
        BY <3>1, <4>1, <4>2, OneDelivered
    <3>3. CASE s \notin Members(b)
      <4>1. deliveries'[s] = deliveries[s]
        BY <1>3, <3>3 DEF Callback
      <4>2. ToRecord(s)' \subseteq ToRecord(s)
        BY <2>1, <3>3, RecordersOf
      <4> QED
        BY <3>1, <4>1, <4>2, NoMore
    <3> QED
      BY <3>2, <3>3
  <2> QED
    BY <2>3, <2>4 DEF CopyInv
<1>4. ASSUME NEW r \in Replicas, LoadLog(r) PROVE CopyInv'
  <2>1. UNCHANGED <<rest, deliveries>>
    BY <1>4 DEF LoadLog
  <2>2. \A q \in Replicas : Distinct(rest'[q])
    BY <2>1 DEF CopyInv
  <2>3. ASSUME NEW s \in Reports
        PROVE  Places(s)' \subseteq Places(s) /\ ToRecord(s)' \subseteq ToRecord(s)
    BY <1>4, <2>1, PlacesOfLoad DEF ToRecord
  <2> QED
    BY <2>1, <2>2, <2>3, NoMore DEF CopyInv
<1>5. ASSUME NEW r \in Replicas, SaveLog(r) PROVE CopyInv'
  <2>1. /\ UNCHANGED <<deliveries, path, existing>> /\ Saves(r)
        /\ step'[r] # "save" /\ rest'[r] = Tail(rest[r])
        /\ \A q \in Replicas \ {r} : step'[q] = step[q] /\ rest'[q] = rest[q]
    BY <1>5 DEF SaveLog, Goto, Saves
  <2>2. rest[r] \in Seq(Reports) /\ Len(rest[r]) > 0 /\ Distinct(rest[r])
    BY <2>1 DEF Saves, At, CopyInv
  <2>3. /\ Distinct(rest'[r]) /\ Head(rest[r]) \in Members(rest[r])
        /\ Members(rest'[r]) \subseteq Members(rest[r]) \ {Head(rest[r])}
    BY <2>1, <2>2, DistinctTail
  <2>4. \A q \in Replicas : Distinct(rest'[q])
    BY <2>1, <2>3 DEF CopyInv
  <2>5. ASSUME NEW s \in Reports
        PROVE  /\ IsFiniteSet(Places(s)')
               /\ Cardinality(Places(s)') + Cardinality(ToRecord(s)') <= deliveries'[s]
    <3>1. Places(s)' \subseteq
             Places(s) \cup (IF Head(rest[r]) = s THEN {<<path[r], Len(existing[r]) + 1>>} ELSE {})
      BY <2>1, PlacesOfSave
    <3>2. CASE Head(rest[r]) = s
      <4>1. r \in ToRecord(s) /\ s \notin Members(rest'[r])
        BY <2>3, <3>2 DEF ToRecord
      <4>2. ToRecord(s)' \subseteq ToRecord(s) \ {r}
        BY <2>1, <4>1, RecordersOf
      <4> QED
        BY <2>1, <3>1, <3>2, <4>1, <4>2, OneWritten
    <3>3. CASE Head(rest[r]) # s
      <4>1. ToRecord(s)' \subseteq ToRecord(s)
        BY <2>1, <2>3, RecordersOf
      <4> QED
        BY <2>1, <3>1, <3>3, <4>1, NoMore
    <3> QED
      BY <3>2, <3>3
  <2> QED
    BY <2>4, <2>5 DEF CopyInv
<1>6. ASSUME NEW r \in Replicas, Respond(r) \/ CallbackFailure(r) PROVE CopyInv'
  <2>1. Close(r) /\ UNCHANGED deliveries /\ (UNCHANGED log \/ Saves(r))
    BY <1>6 DEF Respond, CallbackFailure, LoadFails, SaveFails, Crash, Saves
  <2> QED
    BY <2>1, CopyClose
<1> QED
  BY <1>1, <1>2, <1>3, <1>4, <1>5, <1>6 DEF Next, CallbackStep

\* A report is in the logs at most once for each time it was delivered, whatever copies of
\* them the callbacks hold, save again or lose.
THEOREM OneCopyEach == Spec => []OneCopyPerDelivery
<1>1. TypeInv /\ CopyInv => OneCopyPerDelivery
  <2> SUFFICES ASSUME TypeInv, CopyInv, NEW s \in Reports
               PROVE  Cardinality(Copies(s)) <= deliveries[s]
    BY DEF OneCopyPerDelivery
  <2> USE DEF TypeInv, StatusTypeOK
  <2>1. ASSUME NEW x \in Copies(s) PROVE x \in Places(s)
    <3>1. PICK d \in Days : x \in {<<d, i>> : i \in {k \in DOMAIN log[d] : log[d][k] = s}}
      BY <2>1 DEF Copies
    <3>2. PICK i \in DOMAIN log[d] : log[d][i] = s /\ x = <<d, i>>
      BY <3>1
    <3>3. log[d] \in Seq(Reports)
      OBVIOUS
    <3>4. i \in Nat
      BY <3>3
    <3> QED
      BY <3>2, <3>4 DEF Places, Occurs
  <2>2. /\ IsFiniteSet(Places(s)) /\ IsFiniteSet(ToRecord(s))
        /\ Cardinality(Places(s)) + Cardinality(ToRecord(s)) <= deliveries[s]
    BY StatusLogAssumption, FS_Subset DEF CopyInv, ToRecord
  <2>3. IsFiniteSet(Copies(s)) /\ Cardinality(Copies(s)) <= Cardinality(Places(s))
    BY <2>1, <2>2, FS_Subset
  <2>4. /\ Cardinality(Places(s)) \in Nat /\ Cardinality(Copies(s)) \in Nat
        /\ Cardinality(ToRecord(s)) \in Nat /\ deliveries[s] \in Nat
    BY <2>2, <2>3, FS_CardinalityType
  <2> QED
    BY <2>2, <2>3, <2>4
<1> QED
  BY <1>1, TypeInit, TypeStep, CopyInit, CopyStep, PTL DEF Spec
===========================================================================
