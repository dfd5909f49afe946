--------------------------- MODULE GatewayProofs ---------------------------
(***************************************************************************)
(* What the gateway promises, for any number of messages, replicas,        *)
(* deliveries, failures and crashes. First the protocol of the store       *)
(* (Ingress): what the provider was told 200 for is durable, because the   *)
(* store never forgets (StoreGrows) and what a request has written, or     *)
(* has found written, stays true whatever the others do. Then the front    *)
(* door (Gateway): rate limits, refusals and batches change nothing of     *)
(* it, since every step of the gateway is a step of Ingress or a stutter,  *)
(* and what the windows of the limiter let through is bounded.             *)
(***************************************************************************)
EXTENDS Gateway, FiniteSetTheorems, TLAPS

\* A request under way has an id, and one that found a duplicate has that one's; the
\* types depend on both.
TypeInv ==
    /\ IngressTypeOK
    /\ \A r \in Replicas : step[r] # "idle" => id[r] \in MsgIds
    /\ \A r \in Replicas : step[r] \in {"lookup", "duplicate"} => found[r] \in MsgIds

\* What the request of a replica knows of the store at each of its steps.
RequestInv(r) ==
    /\ step[r] \in {"inbox", "index", "accepted"} => id[r] \in events
    /\ step[r] \in {"index", "accepted"} => id[r] \in enqueued
    /\ step[r] \in {"accepted", "lookup", "duplicate"} => index[Pm(r)] # NoId
    /\ step[r] \in {"lookup", "duplicate"} => found[r] \in events \cap enqueued

DurableInv == AckedIsDurable /\ WriteOrder /\ \A r \in Replicas : RequestInv(r)

---------------------------------------------------------------------------
LEMMA TypeStep == TypeInv /\ [Next]_vars => TypeInv'
<1> SUFFICES ASSUME TypeInv, [Next]_vars PROVE TypeInv'
  OBVIOUS
<1> USE IngressAssumption DEF TypeInv, IngressTypeOK, Steps, At, Goto, Close, Fault, store
<1>1. CASE UNCHANGED vars
  BY <1>1 DEF vars
<1>2. ASSUME NEW p \in Pmids, NEW r \in Replicas, Deliver(p, r) PROVE TypeInv'
  <2>1. deliveries[p] + 1 \in 1..MaxDeliveries
    BY <1>2 DEF Deliver, Sending
  <2>2. <<p, deliveries[p] + 1>> \in MsgIds
    BY <2>1 DEF MsgIds
  <2>3. deliveries' \in [Pmids -> 0..MaxDeliveries]
    BY <1>2, <2>1 DEF Deliver, Sending
  <2>4. QED
    BY <1>2, <2>2, <2>3 DEF Deliver
<1>3. ASSUME NEW p \in Pmids, RateLimited(p) PROVE TypeInv'
  BY <1>3 DEF RateLimited, Sending
<1>4. ASSUME NEW r \in Replicas, CheckDuplicate(r) \/ LoadExisting(r) PROVE TypeInv'
  <2>1. Pm(r) \in Pmids
    BY <1>4 DEF CheckDuplicate, LoadExisting, Pm, MsgIds
  <2>2. QED
    BY <1>4, <2>1 DEF CheckDuplicate, LoadExisting
<1>5. ASSUME NEW r \in Replicas, SaveEvent(r) \/ SaveInbox(r) PROVE TypeInv'
  BY <1>5 DEF SaveEvent, SaveInbox
<1>6. ASSUME NEW r \in Replicas, SaveIndex(r) PROVE TypeInv'
  BY <1>6 DEF SaveIndex
<1>7. ASSUME NEW r \in Replicas, Respond(r) PROVE TypeInv'
  <2>1. Answer(r) \in MsgIds
    BY <1>7 DEF Respond, Answer
  <2>2. acked' \in [Pmids -> SUBSET MsgIds]
    BY <1>7, <2>1 DEF Respond
  <2>3. QED
    BY <1>7, <2>2 DEF Respond
<1>8. ASSUME NEW r \in Replicas, RequestFailure(r) PROVE TypeInv'
  BY <1>8 DEF RequestFailure, LoadFails, SaveFails, Crash
<1>9. QED
  BY <1>1, <1>2, <1>3, <1>4, <1>5, <1>6, <1>7, <1>8 DEF Next, RequestStep

\* The type invariant holds of the webhook and its store.
THEOREM IngressTypes == Spec => []IngressTypeOK
<1>1. Init => TypeInv
  BY IngressAssumption DEF Init, TypeInv, IngressTypeOK, Steps
<1>2. TypeInv => IngressTypeOK
  BY DEF TypeInv
<1>3. QED
  BY <1>1, <1>2, TypeStep, PTL DEF Spec

---------------------------------------------------------------------------
\* No step removes a blob, and only SaveIndex changes an index entry.
LEMMA StoreGrows ==
    ASSUME TypeInv, [Next]_vars
    PROVE  /\ events \subseteq events'
           /\ enqueued \subseteq enqueued'
           /\ \A p \in Pmids : index[p] # NoId => index'[p] # NoId
<1> USE IngressAssumption DEF TypeInv, IngressTypeOK, At
<1>1. CASE UNCHANGED store
  BY <1>1 DEF store
<1>2. ASSUME NEW r \in Replicas,
             SaveEvent(r) \/ SaveInbox(r) \/ SaveIndex(r) \/ SaveFails(r)
      PROVE  /\ events \subseteq events'
             /\ enqueued \subseteq enqueued'
             /\ \A p \in Pmids : index[p] # NoId => index'[p] # NoId
  BY <1>2 DEF SaveEvent, SaveInbox, SaveIndex, SaveFails
<1>3. UNCHANGED store \/ \E r \in Replicas :
         SaveEvent(r) \/ SaveInbox(r) \/ SaveIndex(r) \/ SaveFails(r)
  BY DEF Next, vars, RequestStep, RequestFailure, Deliver, RateLimited, CheckDuplicate,
         LoadExisting, Respond, LoadFails, Crash, store
<1>4. QED
  BY <1>1, <1>2, <1>3

\* What a request knows survives the steps of the others.
LEMMA OthersKeep ==
    ASSUME TypeInv, [Next]_vars, NEW r \in Replicas, RequestInv(r),
           step'[r] = step[r], id'[r] = id[r], found'[r] = found[r]
    PROVE  RequestInv(r)'
<1>1. step[r] # "idle" => Pm(r) \in Pmids
  BY DEF TypeInv, Pm, MsgIds
<1>2. QED
  BY <1>1, StoreGrows DEF RequestInv, Pm

LEMMA RequestInvStep ==
    ASSUME TypeInv, DurableInv, [Next]_vars, NEW r \in Replicas
    PROVE  RequestInv(r)'
<1> USE DEF DurableInv, At, Goto, Close
<1>1. CASE step'[r] = "idle"
  BY <1>1 DEF RequestInv
<1>2. CASE step'[r] = step[r] /\ id'[r] = id[r] /\ found'[r] = found[r]
  BY <1>2, OthersKeep
<1>3. ASSUME NEW p \in Pmids, Deliver(p, r) PROVE RequestInv(r)'
  BY <1>3 DEF Deliver, RequestInv, TypeInv, IngressTypeOK
<1>4. CASE CheckDuplicate(r)
  <2>1. Pm(r) \in Pmids /\ id'[r] = id[r]
    BY <1>4 DEF CheckDuplicate, TypeInv, Pm, MsgIds
  <2>2. index[Pm(r)] # NoId => index[Pm(r)] \in events \cap enqueued
    BY <2>1 DEF WriteOrder, WorkItems
  <2>3. QED
    BY <1>4, <2>1, <2>2 DEF CheckDuplicate, RequestInv, TypeInv, IngressTypeOK, Pm, store
<1>5. CASE LoadExisting(r) \/ SaveEvent(r) \/ SaveInbox(r)
  BY <1>5 DEF LoadExisting, SaveEvent, SaveInbox, RequestInv, TypeInv, IngressTypeOK, Pm, store
<1>6. CASE SaveIndex(r)
  <2>1. Pm(r) \in Pmids /\ id[r] # NoId
    BY <1>6, IngressAssumption DEF SaveIndex, TypeInv, Pm, MsgIds
  <2>2. QED
    BY <1>6, <2>1 DEF SaveIndex, RequestInv, TypeInv, IngressTypeOK, Pm
<1>7. CASE Respond(r) \/ RequestFailure(r)
  BY <1>1, <1>7
  DEF Respond, RequestFailure, LoadFails, SaveFails, Crash, TypeInv, IngressTypeOK
<1>8. ASSUME NEW q \in Replicas \ {r}, RequestStep(q) \/ RequestFailure(q)
      PROVE  RequestInv(r)'
  BY <1>2, <1>8
  DEF RequestStep, CheckDuplicate, LoadExisting, SaveEvent, SaveInbox, SaveIndex, Respond,
      RequestFailure, LoadFails, SaveFails, Crash, TypeInv, IngressTypeOK
<1>9. ASSUME NEW p \in Pmids, NEW q \in Replicas \ {r}, Deliver(p, q) PROVE RequestInv(r)'
  BY <1>2, <1>9 DEF Deliver, TypeInv, IngressTypeOK
<1>10. ASSUME NEW p \in Pmids, RateLimited(p) PROVE RequestInv(r)'
  BY <1>2, <1>10 DEF RateLimited
<1>11. QED
  BY <1>2, <1>3, <1>4, <1>5, <1>6, <1>7, <1>8, <1>9, <1>10 DEF Next, RequestStep, vars

LEMMA WriteOrderStep ==
    ASSUME TypeInv, DurableInv, [Next]_vars
    PROVE  WriteOrder'
<1> USE DEF DurableInv, WriteOrder, WorkItems, At
<1>1. CASE UNCHANGED store
  BY <1>1 DEF store
<1>2. ASSUME NEW r \in Replicas, At(r, "event"), events \subseteq events',
             UNCHANGED <<enqueued, index>>
      PROVE  WriteOrder'
  BY <1>2
<1>3. ASSUME NEW r \in Replicas, At(r, "inbox"), enqueued' \in {enqueued, enqueued \cup {id[r]}},
             UNCHANGED <<events, index>>
      PROVE  WriteOrder'
  BY <1>3 DEF RequestInv
<1>4. ASSUME NEW r \in Replicas, At(r, "index"),
             index' \in {index, [index EXCEPT ![Pm(r)] = id[r]]},
             UNCHANGED <<events, enqueued>>
      PROVE  WriteOrder'
  BY <1>4 DEF RequestInv, TypeInv, IngressTypeOK, Pm
<1>5. UNCHANGED store \/ \E r \in Replicas :
         SaveEvent(r) \/ SaveInbox(r) \/ SaveIndex(r) \/ SaveFails(r)
  BY DEF Next, vars, RequestStep, RequestFailure, Deliver, RateLimited, CheckDuplicate,
         LoadExisting, Respond, LoadFails, Crash, store
<1>6. QED
  BY <1>1, <1>2, <1>3, <1>4, <1>5 DEF SaveEvent, SaveInbox, SaveIndex, SaveFails

LEMMA AckedStep ==
    ASSUME TypeInv, DurableInv, [Next]_vars
    PROVE  AckedIsDurable'
<1> USE DEF DurableInv, AckedIsDurable
<1>1. CASE UNCHANGED acked
  BY <1>1, StoreGrows
<1>2. ASSUME NEW r \in Replicas, Respond(r), acked' # acked PROVE AckedIsDurable'
  <2>1. /\ acked' = [acked EXCEPT ![Pm(r)] = @ \cup {Answer(r)}]
        /\ UNCHANGED store
        /\ step[r] \in {"accepted", "duplicate"}
    BY <1>2 DEF Respond
  <2>2. Answer(r) \in events \cap enqueued /\ index[Pm(r)] # NoId
    BY <2>1 DEF Answer, At, RequestInv, WriteOrder
  <2>3. QED
    BY <2>1, <2>2 DEF TypeInv, IngressTypeOK, store
<1>3. QED
  BY <1>1, <1>2
  DEF Next, vars, RequestStep, RequestFailure, Deliver, RateLimited, CheckDuplicate,
      LoadExisting, SaveEvent, SaveInbox, SaveIndex, LoadFails, SaveFails, Crash

\* What the provider was told 200 for is there for good, whichever write failed and
\* whichever replica died: AckedIsDurable, and the order of the three writes it rests on.
THEOREM AcknowledgedIsDurable == Spec => [](AckedIsDurable /\ WriteOrder)
<1>1. Init => TypeInv /\ DurableInv
  BY IngressAssumption
  DEF Init, TypeInv, IngressTypeOK, Steps, DurableInv, AckedIsDurable, WriteOrder, RequestInv
<1>2. TypeInv /\ DurableInv /\ [Next]_vars => (TypeInv /\ DurableInv)'
  BY TypeStep, RequestInvStep, WriteOrderStep, AckedStep DEF DurableInv
<1>3. TypeInv /\ DurableInv => AckedIsDurable /\ WriteOrder
  BY DEF DurableInv
<1>4. QED
  BY <1>1, <1>2, <1>3, PTL DEF Spec

\* Whatever failed between the three writes, what is in the inbox has its event, and what
\* is in the index has its work item: WriteOrder.
THEOREM WritesKeepTheirOrder == Spec => []WriteOrder
  BY AcknowledgedIsDurable, PTL

---------------------------------------------------------------------------
\* Requests for p that saw no index entry, before and after they write a work item.
Before(p) == {r \in Replicas : step[r] \in {"event", "inbox"} /\ Pm(r) = p}
After(p) == {r \in Replicas : step[r] = "index" /\ Pm(r) = p}

\* As long as the index does not know p, every work item of it is that of a request that
\* is about to write the entry, or was paid for by a failure. And those that a request
\* may still write are counted in advance.
ExcessInv(p) ==
    /\ IsFiniteSet(WorkItems(p))
    /\ index[p] = NoId => Cardinality(WorkItems(p)) <= Cardinality(After(p)) + (faults + crashes)
    /\ Cardinality(WorkItems(p)) + Cardinality(Before(p))
           <= Cardinality(Replicas) + (faults + crashes)

CausesInv == \A p \in Pmids : ExcessInv(p)

\* Two groups of replicas that have none in common.
LEMMA DisjointGroups ==
    ASSUME NEW S \in SUBSET Replicas, NEW T \in SUBSET Replicas, S \cap T = {}
    PROVE  /\ IsFiniteSet(S) /\ IsFiniteSet(T)
           /\ Cardinality(S) \in Nat /\ Cardinality(T) \in Nat /\ Cardinality(Replicas) \in Nat
           /\ Cardinality(S) + Cardinality(T) <= Cardinality(Replicas)
<1>1. IsFiniteSet(S) /\ IsFiniteSet(T)
  BY FS_Subset, IngressAssumption
<1>2. Cardinality(S \cup T) <= Cardinality(Replicas)
  BY FS_Subset, IngressAssumption
<1>3. Cardinality(S \cup T) = Cardinality(S) + Cardinality(T) - Cardinality(S \cap T)
  BY <1>1, FS_Union
<1>4. Cardinality(S \cap T) = 0
  BY FS_EmptySet
<1>5. Cardinality(S) \in Nat /\ Cardinality(T) \in Nat /\ Cardinality(Replicas) \in Nat
  BY <1>1, FS_CardinalityType, IngressAssumption
<1> QED
  BY <1>1, <1>2, <1>3, <1>4, <1>5

LEMMA RequestsFinite ==
    ASSUME NEW p
    PROVE  /\ IsFiniteSet(Before(p)) /\ IsFiniteSet(After(p))
           /\ Cardinality(Before(p)) \in Nat /\ Cardinality(After(p)) \in Nat
           /\ Cardinality(Replicas) \in Nat
           /\ Cardinality(Before(p)) + Cardinality(After(p)) <= Cardinality(Replicas)
<1>1. Before(p) \subseteq Replicas /\ After(p) \subseteq Replicas /\ Before(p) \cap After(p) = {}
  BY DEF Before, After
<1> QED
  BY <1>1, DisjointGroups

\* The request of r does what it does; those of the others stay where they are.
LEMMA OneMoves ==
    ASSUME TypeInv, NEW r \in Replicas, NEW p \in Pmids,
           \A q \in Replicas \ {r} : step'[q] = step[q] /\ id'[q] = id[q]
    PROVE  /\ Before(p)' = IF step'[r] \in {"event", "inbox"} /\ Pm(r)' = p
                           THEN Before(p) \cup {r} ELSE Before(p) \ {r}
           /\ After(p)' = IF step'[r] = "index" /\ Pm(r)' = p
                          THEN After(p) \cup {r} ELSE After(p) \ {r}
BY DEF Before, After, Pm

\* One element more or less.
LEMMA CardinalityMoves ==
    ASSUME NEW S, IsFiniteSet(S), NEW x
    PROVE  /\ Cardinality(S) \in Nat
           /\ IsFiniteSet(S \cup {x})
           /\ Cardinality(S \cup {x}) = IF x \in S THEN Cardinality(S) ELSE Cardinality(S) + 1
           /\ Cardinality(S \ {x}) = IF x \in S THEN Cardinality(S) - 1 ELSE Cardinality(S)
BY FS_CardinalityType, FS_AddElement, FS_RemoveElement

LEMMA ExcessStep ==
    ASSUME TypeInv, [Next]_vars, NEW p \in Pmids, ExcessInv(p)
    PROVE  ExcessInv(p)'
<1> DEFINE items == Cardinality(WorkItems(p))
           before == Cardinality(Before(p))
           after == Cardinality(After(p))
           all == Cardinality(Replicas)
           paid == faults + crashes
<1>1. /\ items \in Nat /\ before \in Nat /\ after \in Nat /\ all \in Nat /\ before + after <= all
      /\ faults \in Nat /\ crashes \in Nat
      /\ IsFiniteSet(WorkItems(p))
      /\ index[p] = NoId => items <= after + paid
      /\ items + before <= all + paid
  <2>1. before \in Nat /\ after \in Nat /\ all \in Nat /\ before + after <= all
    BY RequestsFinite
  <2>2. IsFiniteSet(WorkItems(p)) /\ items \in Nat
    BY FS_CardinalityType DEF ExcessInv
  <2>3. faults \in Nat /\ crashes \in Nat
    BY IngressAssumption DEF TypeInv, IngressTypeOK
  <2> QED
    BY <2>1, <2>2, <2>3 DEF ExcessInv
<1>2. faults' \in Nat /\ crashes' \in Nat
  BY TypeStep, IngressAssumption DEF TypeInv, IngressTypeOK
<1>3. after' \in Nat /\ before' \in Nat /\ before' + after' <= all
  <2>1. /\ Before(p)' \subseteq Replicas /\ After(p)' \subseteq Replicas
        /\ Before(p)' \cap After(p)' = {}
    BY DEF Before, After
  <2> QED
    BY <2>1, DisjointGroups
\* The request of r moves.
<1>4. ASSUME NEW r \in Replicas,
             \A q \in Replicas \ {r} : step'[q] = step[q] /\ id'[q] = id[q]
      PROVE  /\ before' = IF step'[r] \in {"event", "inbox"} /\ Pm(r)' = p
                     THEN (IF r \in Before(p) THEN before ELSE before + 1)
                     ELSE (IF r \in Before(p) THEN before - 1 ELSE before)
             /\ after' = IF step'[r] = "index" /\ Pm(r)' = p
                     THEN (IF r \in After(p) THEN after ELSE after + 1)
                     ELSE (IF r \in After(p) THEN after - 1 ELSE after)
  <2>1. /\ Before(p)' = IF step'[r] \in {"event", "inbox"} /\ Pm(r)' = p
                        THEN Before(p) \cup {r} ELSE Before(p) \ {r}
        /\ After(p)' = IF step'[r] = "index" /\ Pm(r)' = p
                       THEN After(p) \cup {r} ELSE After(p) \ {r}
    BY <1>4, OneMoves
  <2>2. IsFiniteSet(Before(p)) /\ IsFiniteSet(After(p))
    BY RequestsFinite
  <2>3. /\ Cardinality(Before(p) \cup {r}) = IF r \in Before(p) THEN before ELSE before + 1
        /\ Cardinality(Before(p) \ {r}) = IF r \in Before(p) THEN before - 1 ELSE before
    BY <2>2, CardinalityMoves
  <2>4. /\ Cardinality(After(p) \cup {r}) = IF r \in After(p) THEN after ELSE after + 1
        /\ Cardinality(After(p) \ {r}) = IF r \in After(p) THEN after - 1 ELSE after
    BY <2>2, CardinalityMoves
  <2> QED
    BY <2>1, <2>3, <2>4
<1>5. ASSUME NEW r \in Replicas
      PROVE  /\ r \in Before(p) <=> step[r] \in {"event", "inbox"} /\ Pm(r) = p
             /\ r \in After(p) <=> step[r] = "index" /\ Pm(r) = p
  BY DEF Before, After
\* A work item is written, of this message or another.
<1>6. ASSUME NEW r \in Replicas, step[r] = "inbox", enqueued' = enqueued \cup {id[r]}
      PROVE  /\ IsFiniteSet(WorkItems(p)')
             /\ items' \in Nat /\ items' <= items + 1
             /\ Pm(r) # p => items' = items
  <2>1. WorkItems(p)' = IF Pm(r) = p THEN WorkItems(p) \cup {id[r]} ELSE WorkItems(p)
    BY <1>6 DEF WorkItems, Pm
  <2>2. /\ IsFiniteSet(WorkItems(p) \cup {id[r]})
        /\ Cardinality(WorkItems(p) \cup {id[r]})
               = IF id[r] \in WorkItems(p) THEN items ELSE items + 1
    BY <1>1, CardinalityMoves
  <2> QED
    BY <1>1, <2>1, <2>2
<1>7. UNCHANGED enqueued => WorkItems(p)' = WorkItems(p)
  BY DEF WorkItems
\* What has to be shown of a step: that the failures keep up with the work items.
<1>8. ASSUME IsFiniteSet(WorkItems(p)'),
             index'[p] = NoId => index[p] = NoId /\ items' + after + paid <= items + after' + paid',
             items' + before' + paid <= items + before + paid'
      PROVE  ExcessInv(p)'
  <2>1. items' \in Nat
    BY <1>8, FS_CardinalityType
  <2>2. items' + before' <= all + paid'
    BY <1>1, <1>2, <1>3, <1>8, <2>1
  <2>3. index'[p] = NoId => items' <= after' + paid'
    BY <1>1, <1>2, <1>3, <1>8, <2>1
  <2>4. IsFiniteSet(WorkItems(p)')
    BY <1>8
  <2> QED
    BY <2>2, <2>3, <2>4 DEF ExcessInv
<1>9. ASSUME NEW r \in Replicas, CheckDuplicate(r) PROVE ExcessInv(p)'
  <2>1. /\ step[r] = "check" /\ id' = id /\ index' = index /\ paid' = paid
        /\ WorkItems(p)' = WorkItems(p)
        /\ \A q \in Replicas \ {r} : step'[q] = step[q] /\ id'[q] = id[q]
    BY <1>7, <1>9 DEF CheckDuplicate, At, Goto, TypeInv, IngressTypeOK, store
  <2>2. step'[r] = "lookup" \/ (step'[r] = "event" /\ index[Pm(r)] = NoId)
    BY <1>9 DEF CheckDuplicate, At, Goto, TypeInv, IngressTypeOK
  <2>3. Pm(r)' = Pm(r)
    BY <2>1 DEF Pm
  <2>4. r \notin Before(p) /\ r \notin After(p)
    BY <1>5, <2>1
  <2>5. after' = after
    BY <1>4, <2>1, <2>2, <2>4
  <2>6. before' = before \/ index[p] = NoId
    BY <1>4, <2>1, <2>2, <2>3, <2>4
  <2>7. CASE before' = before
    BY <1>1, <1>8, <2>1, <2>5, <2>7
  <2>8. CASE index[p] = NoId
    <3>1. items <= after + paid
      BY <1>1, <2>8
    <3>2. items' + before' <= all + paid'
      BY <1>1, <1>3, <2>1, <2>5, <3>1
    <3>3. items' <= after' + paid'
      BY <2>1, <2>5, <3>1
    <3> QED
      BY <1>1, <1>2, <1>3, <2>1, <3>2, <3>3 DEF ExcessInv
  <2> QED
    BY <2>6, <2>7, <2>8
\* A request that writes its work item is in advance of it, and behind it afterwards.
<1>10. ASSUME NEW r \in Replicas, SaveInbox(r) PROVE ExcessInv(p)'
  <2>1. /\ step[r] = "inbox" /\ step'[r] = "index" /\ id' = id /\ index' = index /\ paid' = paid
        /\ enqueued' = enqueued \cup {id[r]}
        /\ \A q \in Replicas \ {r} : step'[q] = step[q] /\ id'[q] = id[q]
    BY <1>10 DEF SaveInbox, At, Goto, TypeInv, IngressTypeOK
  <2>2. Pm(r)' = Pm(r)
    BY <2>1 DEF Pm
  <2>3. /\ IsFiniteSet(WorkItems(p)') /\ items' \in Nat /\ items' <= items + 1
        /\ Pm(r) # p => items' = items
    BY <1>6, <2>1
  <2>4. CASE Pm(r) = p
    <3>1. before' = before - 1 /\ after' = after + 1
      BY <1>4, <1>5, <2>1, <2>2, <2>4
    <3> QED
      BY <1>1, <1>8, <2>1, <2>3, <3>1
  <2>5. CASE Pm(r) # p
    <3>1. before' = before /\ after' = after
      BY <1>4, <1>5, <2>1, <2>2, <2>5
    <3> QED
      BY <1>1, <1>8, <2>1, <2>3, <2>5, <3>1
  <2> QED
    BY <2>4, <2>5
<1>11. ASSUME NEW r \in Replicas, SaveIndex(r) PROVE ExcessInv(p)'
  <2>1. /\ step[r] = "index" /\ step'[r] = "accepted" /\ id' = id /\ paid' = paid
        /\ WorkItems(p)' = WorkItems(p)
        /\ index' = [index EXCEPT ![Pm(r)] = id[r]]
        /\ \A q \in Replicas \ {r} : step'[q] = step[q] /\ id'[q] = id[q]
    BY <1>7, <1>11 DEF SaveIndex, At, Goto, TypeInv, IngressTypeOK
  <2>2. before' = before
    BY <1>4, <1>5, <2>1
  <2>3. CASE Pm(r) = p
    <3>1. index'[p] # NoId
      BY <2>1, <2>3, IngressAssumption DEF TypeInv, IngressTypeOK
    <3> QED
      BY <1>1, <1>8, <2>1, <2>2, <3>1
  <2>4. CASE Pm(r) # p
    <3>1. after' = after /\ index'[p] = index[p]
      BY <1>4, <1>5, <2>1, <2>4 DEF TypeInv, IngressTypeOK
    <3> QED
      BY <1>1, <1>8, <2>1, <2>2, <3>1
  <2> QED
    BY <2>3, <2>4
\* A request is given up: one failure for at most one work item that it wrote or that
\* it leaves without an index entry.
<1>12. ASSUME NEW r \in Replicas, SaveFails(r) \/ Crash(r) PROVE ExcessInv(p)'
  <2>1. /\ step'[r] = "idle" /\ paid' = paid + 1
        /\ \A q \in Replicas \ {r} : step'[q] = step[q] /\ id'[q] = id[q]
    BY <1>1, <1>12 DEF SaveFails, Crash, Fault, Close, Goto, TypeInv, IngressTypeOK
  <2>2. index'[p] = NoId => index[p] = NoId
    BY StoreGrows
  <2>3. /\ before' = IF r \in Before(p) THEN before - 1 ELSE before
        /\ after' = IF r \in After(p) THEN after - 1 ELSE after
    BY <1>4, <2>1
  <2>4. CASE UNCHANGED enqueued
    BY <1>1, <1>7, <1>8, <2>1, <2>2, <2>3, <2>4
  <2>5. CASE step[r] = "inbox" /\ enqueued' = enqueued \cup {id[r]}
    <3>1. /\ IsFiniteSet(WorkItems(p)') /\ items' \in Nat /\ items' <= items + 1
          /\ Pm(r) # p => items' = items
      BY <1>6, <2>5
    <3>2. after' = after /\ before' <= before /\ (Pm(r) = p => before' = before - 1)
      BY <1>1, <1>5, <2>3, <2>5
    <3> QED
      BY <1>1, <1>3, <1>8, <2>1, <2>2, <3>1, <3>2
  <2> QED
    BY <1>12, <2>4, <2>5 DEF SaveFails, Crash, At, store
\* Steps that neither come to p nor leave it.
<1>13. ASSUME NEW r \in Replicas, LoadExisting(r) \/ SaveEvent(r) \/ Respond(r) \/ LoadFails(r)
       PROVE  ExcessInv(p)'
  <2>1. /\ UNCHANGED <<enqueued, index>>
        /\ \A q \in Replicas \ {r} : step'[q] = step[q] /\ id'[q] = id[q]
    BY <1>13 DEF LoadExisting, SaveEvent, Respond, LoadFails, Close, Goto, store,
           TypeInv, IngressTypeOK
  <2>2. faults <= faults' /\ crashes' = crashes
    BY <1>1, <1>13 DEF LoadExisting, SaveEvent, Respond, LoadFails, Fault
  <2>3. \/ step[r] = "event" /\ step'[r] = "inbox" /\ id' = id
        \/ step[r] \notin {"event", "inbox", "index"} /\ step'[r] \notin {"event", "inbox", "index"}
    BY <1>13 DEF LoadExisting, SaveEvent, Respond, LoadFails, Close, At, Goto,
           TypeInv, IngressTypeOK
  <2>4. before' = before /\ after' = after
    <3>1. CASE step[r] = "event" /\ step'[r] = "inbox" /\ id' = id
      <4>1. Pm(r)' = Pm(r)
        BY <3>1 DEF Pm
      <4> QED
        BY <1>4, <1>5, <2>1, <3>1, <4>1
    <3>2. CASE /\ step[r] \notin {"event", "inbox", "index"}
               /\ step'[r] \notin {"event", "inbox", "index"}
      BY <1>4, <1>5, <2>1, <3>2
    <3> QED
      BY <2>3, <3>1, <3>2
  <2>5. WorkItems(p)' = WorkItems(p)
    BY <1>7, <2>1
  <2> QED
    BY <1>1, <1>2, <1>8, <2>1, <2>2, <2>4, <2>5
<1>14. ASSUME NEW q \in Pmids, NEW r \in Replicas, Deliver(q, r) PROVE ExcessInv(p)'
  <2>1. /\ UNCHANGED <<enqueued, index, faults, crashes>>
        /\ \A s \in Replicas \ {r} : step'[s] = step[s] /\ id'[s] = id[s]
        /\ step[r] = "idle" /\ step'[r] = "check"
    BY <1>14 DEF Deliver, At, Goto, store, TypeInv, IngressTypeOK
  <2>2. before' = before /\ after' = after
    BY <1>4, <1>5, <2>1
  <2>3. WorkItems(p)' = WorkItems(p)
    BY <1>7, <2>1
  <2> QED
    BY <1>1, <1>8, <2>1, <2>2, <2>3
<1>15. ASSUME UNCHANGED <<enqueued, index, step, id>>, faults <= faults', crashes' = crashes
       PROVE  ExcessInv(p)'
  <2>1. UNCHANGED <<WorkItems(p), Before(p), After(p)>>
    BY <1>15 DEF WorkItems, Before, After, Pm
  <2> QED
    BY <1>1, <1>2, <1>8, <1>15, <2>1
<1>16. UNCHANGED vars \/ (\E q \in Pmids : RateLimited(q))
           => UNCHANGED <<enqueued, index, step, id>> /\ faults <= faults' /\ crashes' = crashes
  BY <1>1 DEF vars, RateLimited, Fault, store
<1> QED
  BY <1>9, <1>10, <1>11, <1>12, <1>13, <1>14, <1>15, <1>16
  DEF Next, RequestStep, RequestFailure

\* However deliveries, failures and crashes interleave, a provider message gets no more
\* work items than one for each replica and one for each failure: DuplicatesAccounted.
THEOREM DuplicatesHaveCauses == Spec => []DuplicatesAccounted
<1>1. Init => TypeInv
  BY IngressAssumption DEF Init, TypeInv, IngressTypeOK, Steps
<1>2. ASSUME Init, NEW p \in Pmids PROVE ExcessInv(p)
  <2>1. WorkItems(p) = {} /\ Before(p) = {} /\ After(p) = {} /\ faults = 0 /\ crashes = 0
    BY <1>2 DEF Init, WorkItems, Before, After
  <2>2. IsFiniteSet({}) /\ Cardinality({}) = 0 /\ Cardinality(Replicas) \in Nat
    BY FS_EmptySet, FS_CardinalityType, IngressAssumption
  <2> QED
    BY <2>1, <2>2 DEF ExcessInv
<1>3. Init => CausesInv
  BY <1>2 DEF CausesInv
<1>4. TypeInv /\ CausesInv /\ [Next]_vars => TypeInv' /\ CausesInv'
  BY TypeStep, ExcessStep DEF CausesInv
<1>5. ASSUME TypeInv, NEW p \in Pmids, ExcessInv(p)
      PROVE  Cardinality(WorkItems(p)) <= Cardinality(Replicas) + faults + crashes
  BY <1>5, RequestsFinite, FS_CardinalityType, IngressAssumption
  DEF ExcessInv, TypeInv, IngressTypeOK
<1>6. TypeInv /\ CausesInv => DuplicatesAccounted
  BY <1>5 DEF DuplicatesAccounted, CausesInv
<1> QED
  BY <1>1, <1>3, <1>4, <1>6, PTL DEF Spec

---------------------------------------------------------------------------
LEMMA GatewayStep == [GatewayNext]_gatewayVars => [Next]_vars
<1> SUFFICES ASSUME [GatewayNext]_gatewayVars PROVE [Next]_vars
  OBVIOUS
<1>1. CASE UNCHANGED gatewayVars
  BY <1>1 DEF gatewayVars, vars
<1>2. CASE Tick
  BY <1>2 DEF Tick
<1>3. ASSUME NEW p \in Pmids, NEW r \in Replicas, Receive(p, r) PROVE Next
  BY <1>3 DEF Receive, Next
<1>4. ASSUME NEW r \in Replicas, Refuse(r) PROVE UNCHANGED vars
  BY <1>4 DEF Refuse
<1>5. ASSUME NEW r \in Replicas, HandlerStep(r) PROVE Next
  BY <1>5 DEF HandlerStep, Persist, Acknowledge, Next, RequestStep
<1>6. ASSUME NEW r \in Replicas, Fail(r) \/ Die(r) PROVE Next
  BY <1>6 DEF Fail, Die, Next, RequestFailure
<1> QED
  BY <1>1, <1>2, <1>3, <1>4, <1>5, <1>6 DEF GatewayNext

\* The gateway does to the store what Ingress says, whatever comes in a webhook and
\* whatever is refused.
THEOREM GatewayImplementsIngress == GatewaySpec => ImplementsIngress
<1>1. GatewayInit => Init
  BY DEF GatewayInit
<1> QED
  BY <1>1, GatewayStep, PTL DEF GatewaySpec, Spec, ImplementsIngress

\* So what it acknowledges with a message id is durable.
THEOREM GatewayAcksAreDurable == GatewaySpec => [](AckedIsDurable /\ WriteOrder)
<1> QED
  BY GatewayImplementsIngress, AcknowledgedIsDurable, PTL DEF ImplementsIngress

\* And a message gets no more work items than Ingress allows it: a refusal, after which the
\* provider delivers again, costs none, and neither does a message that rides along.
THEOREM GatewayDuplicatesHaveCauses == GatewaySpec => []DuplicatesAccounted
<1> QED
  BY GatewayImplementsIngress, DuplicatesHaveCauses, PTL DEF ImplementsIngress

---------------------------------------------------------------------------
\* A message that was told, and not in the wake of another, was acknowledged with a
\* message id of its own.
ToldInv ==
    /\ told \subseteq Pmids
    /\ others \in [Replicas -> SUBSET Pmids]
    /\ \A p \in told \ rode : acked[p] # {}

LEMMA ToldStep ==
    ASSUME TypeInv, ToldInv, [GatewayNext]_gatewayVars
    PROVE  ToldInv'
<1> USE DEF ToldInv
<1>1. CASE UNCHANGED <<told, rode, acked, others>>
  BY <1>1
<1>2. ASSUME NEW p \in Pmids, NEW r \in Replicas, Receive(p, r) PROVE ToldInv'
  BY <1>2 DEF Receive, Deliver
<1>3. ASSUME NEW r \in Replicas, Fail(r) \/ Die(r) PROVE ToldInv'
  BY <1>3 DEF Fail, Die, Closed, LoadFails, SaveFails, Crash
<1>4. ASSUME NEW r \in Replicas, Acknowledge(r) PROVE ToldInv'
  <2>1. others' \in [Replicas -> SUBSET Pmids]
    BY <1>4 DEF Acknowledge, Closed
  <2>2. Pm(r) \in Pmids
    BY <1>4 DEF Acknowledge, Respond, TypeInv, Pm, MsgIds
  <2>3. acked \in [Pmids -> SUBSET MsgIds]
    BY DEF TypeInv, IngressTypeOK
  <2>4. \A p \in Pmids : acked[p] # {} => acked'[p] # {}
    BY <1>4, <2>3 DEF Acknowledge, Respond
  <2>5. CASE UNCHANGED <<told, rode>>
    BY <2>1, <2>4, <2>5
  <2>6. CASE faults' = faults
    <3>1. acked' = [acked EXCEPT ![Pm(r)] = @ \cup {Answer(r)}]
      BY <1>4, <2>6 DEF Acknowledge, Respond, Fault, TypeInv, IngressTypeOK
    <3>2. acked'[Pm(r)] # {}
      BY <2>2, <2>3, <3>1
    <3>3. told' = told \cup {Pm(r)} \cup others[r] /\ rode' = rode \cup others[r]
      BY <1>4, <2>6 DEF Acknowledge
    <3> QED
      BY <2>1, <2>2, <2>4, <3>2, <3>3
  <2> QED
    BY <1>4, <2>5, <2>6 DEF Acknowledge
<1>5. ASSUME NEW r \in Replicas, Persist(r) \/ Refuse(r)
      PROVE  UNCHANGED <<told, rode, acked, others>>
  BY <1>5 DEF Persist, Refuse, CheckDuplicate, LoadExisting, SaveEvent, SaveInbox, SaveIndex,
     vars, webhooks
<1>6. Tick \/ UNCHANGED gatewayVars => UNCHANGED <<told, rode, acked, others>>
  BY DEF Tick, gatewayVars, vars, webhooks
<1> QED
  BY <1>1, <1>2, <1>3, <1>4, <1>5, <1>6 DEF GatewayNext, HandlerStep

\* A 200 stores the message it names: only those that rode along are not accounted for.
THEOREM TheToldAreStored == GatewaySpec => []ToldIsStored
<1>1. GatewayInit => TypeInv /\ ToldInv
  BY IngressAssumption DEF GatewayInit, Init, TypeInv, IngressTypeOK, Steps, ToldInv
<1>2. TypeInv /\ ToldInv /\ [GatewayNext]_gatewayVars => (TypeInv /\ ToldInv)'
  BY GatewayStep, TypeStep, ToldStep
<1>3. ToldInv /\ AckedIsDurable /\ WriteOrder => ToldIsStored
  BY DEF ToldInv, AckedIsDurable, WriteOrder, ToldIsStored
<1> QED
  BY <1>1, <1>2, <1>3, GatewayAcksAreDurable, PTL DEF GatewaySpec

---------------------------------------------------------------------------
\* The windows of the limiter. A replica keeps at most MaxRequests in its own; a request
\* less than Window old that is in no window was in one that died with its replica.
Recent == {m \in MsgIds : age[m] < Window}

Orphans == {m \in Recent : \A r \in Replicas : m \notin windows[r]}

WindowTypes ==
    /\ windows \in [Replicas -> SUBSET MsgIds]
    /\ age \in [MsgIds -> 0..Window]
    /\ rode \subseteq told

WindowInv ==
    /\ \A r \in Replicas :
          IsFiniteSet(windows[r]) /\ Cardinality(windows[r]) <= MaxRequests
    /\ IsFiniteSet(Orphans) /\ Cardinality(Orphans) <= MaxRequests * crashes

\* Sets of at most k elements, one for each index, have together at most k for each: an
\* element is told by an index of a set it is in and its number there.
LEMMA UnionBound ==
    ASSUME NEW I, IsFiniteSet(I), NEW w, NEW k \in Nat,
           \A i \in I : IsFiniteSet(w[i]) /\ Cardinality(w[i]) <= k
    PROVE  LET U == UNION {w[i] : i \in I}
           IN  IsFiniteSet(U) /\ Cardinality(U) <= k * Cardinality(I)
<1> DEFINE U == UNION {w[i] : i \in I}
           Of(x) == CHOOSE i \in I : x \in w[i]
           Numbers(i) == CHOOSE f : f \in Injection(w[i], 1..k)
           g == [x \in U |-> <<Of(x), Numbers(Of(x))[x]>>]
<1>1. ASSUME NEW i \in I PROVE Numbers(i) \in Injection(w[i], 1..k)
  <2>1. PICK h : h \in Bijection(1..Cardinality(w[i]), w[i])
    BY FS_CardinalityType DEF ExistsBijection
  <2>2. Cardinality(w[i]) \in Nat /\ Cardinality(w[i]) <= k
    BY FS_CardinalityType
  <2> DEFINE n == Cardinality(w[i])
             f == [x \in w[i] |-> CHOOSE j \in 1..n : h[j] = x]
  <2>3. h \in [1..n -> w[i]] /\ \A x \in w[i] : \E j \in 1..n : h[j] = x
    BY <2>1 DEF Bijection, Injection, Surjection
  <2> HIDE DEF n
  <2>4. \A x \in w[i] : f[x] \in 1..n /\ h[f[x]] = x
    BY <2>3
  <2>5. 1..n \subseteq 1..k
    BY <2>2 DEF n
  <2>6. f \in [w[i] -> 1..k]
    BY <2>4, <2>5
  <2>7. \A x, y \in w[i] : f[x] = f[y] => x = y
    BY <2>4
  <2>8. f \in Injection(w[i], 1..k)
    BY <2>6, <2>7 DEF Injection, IsInjective
  <2> QED
    BY <2>8, Zenon
<1>2. ASSUME NEW x \in U PROVE Of(x) \in I /\ x \in w[Of(x)]
  BY <1>2
<1> HIDE DEF Of, Numbers
<1>3. \A x \in U : Numbers(Of(x))[x] \in 1..k
  BY <1>1, <1>2 DEF Injection
<1>4. g \in [U -> I \X (1..k)]
  BY <1>2, <1>3
<1>5. ASSUME NEW x \in U, NEW y \in U, g[x] = g[y] PROVE x = y
  <2>1. Of(x) = Of(y) /\ Numbers(Of(x))[x] = Numbers(Of(y))[y]
    BY <1>5
  <2>2. Of(x) \in I /\ x \in w[Of(x)] /\ y \in w[Of(x)]
    BY <1>2, <2>1
  <2> QED
    BY <1>1, <2>1, <2>2 DEF Injection, IsInjective
<1>6. g \in Injection(U, I \X (1..k))
  BY <1>4, <1>5 DEF Injection, IsInjective
<1>7. IsFiniteSet(1..k) /\ Cardinality(1..k) = k
  BY FS_Interval
<1>8. IsFiniteSet(I \X (1..k)) /\ Cardinality(I \X (1..k)) = Cardinality(I) * k
  BY <1>7, FS_Product
<1>9. IsFiniteSet(U) /\ Cardinality(U) <= Cardinality(I) * k
  <2> HIDE DEF U, g
  <2> QED
    BY <1>6, <1>8, FS_Injection
<1>10. Cardinality(I) * k = k * Cardinality(I)
  BY FS_CardinalityType
<1> QED
  BY <1>9, <1>10

LEMMA WindowTypesStep ==
    ASSUME TypeInv, WindowTypes, ToldInv, [GatewayNext]_gatewayVars
    PROVE  WindowTypes'
<1> USE GatewayAssumption DEF WindowTypes
<1>1. CASE UNCHANGED <<windows, age, told, rode>>
  BY <1>1
<1>2. CASE Tick
  BY <1>2 DEF Tick, webhooks
<1>3. ASSUME NEW p \in Pmids, NEW r \in Replicas, Receive(p, r) PROVE WindowTypes'
  <2>1. <<p, deliveries[p] + 1>> \in MsgIds
    BY <1>3, IngressAssumption
       DEF Receive, Deliver, Sending, TypeInv, IngressTypeOK, MsgIds
  <2>2. Within(r) \subseteq MsgIds
    BY DEF Within
  <2> QED
    BY <1>3, <2>1, <2>2 DEF Receive, Admit
<1>4. ASSUME NEW r \in Replicas, Refuse(r) PROVE WindowTypes'
  BY <1>4 DEF Refuse, Within, webhooks
<1>5. ASSUME NEW r \in Replicas, Acknowledge(r) PROVE WindowTypes'
  BY <1>5 DEF Acknowledge, limiter
<1>6. ASSUME NEW r \in Replicas, Die(r) PROVE WindowTypes'
  BY <1>6 DEF Die
<1>7. ASSUME NEW r \in Replicas, Persist(r) \/ Fail(r)
      PROVE  UNCHANGED <<windows, age, told, rode>>
  BY <1>7 DEF Persist, Fail, limiter, webhooks
<1>8. UNCHANGED gatewayVars => UNCHANGED <<windows, age, told, rode>>
  BY DEF gatewayVars
<1> QED
  BY <1>1, <1>2, <1>3, <1>4, <1>5, <1>6, <1>7, <1>8 DEF GatewayNext, HandlerStep

\* Every variable keeps its type.
THEOREM GatewayTypes == GatewaySpec => [](IngressTypeOK /\ GatewayTypeOK)
<1>1. GatewayInit => TypeInv /\ ToldInv /\ WindowTypes
  BY IngressAssumption, GatewayAssumption
     DEF GatewayInit, Init, TypeInv, IngressTypeOK, Steps, ToldInv, WindowTypes
<1>2. TypeInv /\ ToldInv /\ WindowTypes /\ [GatewayNext]_gatewayVars
      => (TypeInv /\ ToldInv /\ WindowTypes)'
  BY GatewayStep, TypeStep, ToldStep, WindowTypesStep
<1>3. TypeInv /\ ToldInv /\ WindowTypes => IngressTypeOK /\ GatewayTypeOK
  BY DEF TypeInv, ToldInv, WindowTypes, GatewayTypeOK
<1> QED
  BY <1>1, <1>2, <1>3, PTL DEF GatewaySpec

\* What is in no window is what was, without those that came in, and what a window that is
\* lost had.
LEMMA WindowStep ==
    ASSUME TypeInv, WindowTypes, WindowInv, [GatewayNext]_gatewayVars
    PROVE  WindowInv'
<1> USE GatewayAssumption DEF WindowTypes
<1> DEFINE bound == MaxRequests * crashes
<1>0. crashes \in Nat /\ bound \in Nat
  BY IngressAssumption DEF TypeInv, IngressTypeOK
\* Windows that stay small, and no new orphans.
<1>a. ASSUME \A r \in Replicas :
                IsFiniteSet(windows'[r]) /\ Cardinality(windows'[r]) <= MaxRequests,
             Orphans' \subseteq Orphans, UNCHANGED crashes
      PROVE  WindowInv'
  <2>1. IsFiniteSet(Orphans') /\ Cardinality(Orphans') <= Cardinality(Orphans)
    BY <1>a, FS_Subset DEF WindowInv
  <2>2. Cardinality(Orphans) \in Nat /\ Cardinality(Orphans') \in Nat
    BY <2>1, FS_CardinalityType DEF WindowInv
  <2>3. Cardinality(Orphans) <= bound
    BY DEF WindowInv
  <2>4. Cardinality(Orphans') <= bound
    BY <1>0, <2>1, <2>2, <2>3
  <2>5. MaxRequests * crashes' = bound
    BY <1>a, Zenon
  <2> QED
    BY <1>a, <2>1, <2>4, <2>5 DEF WindowInv
<1>1. CASE UNCHANGED <<windows, age, crashes>>
  BY <1>1, <1>0, <1>a DEF WindowInv, Orphans, Recent
<1>2. CASE Tick
  <2>1. UNCHANGED <<windows, crashes>>
    BY <1>2 DEF Tick, vars
  <2>2. \A m \in MsgIds : age'[m] < Window => age[m] < Window
    BY <1>2 DEF Tick
  <2>3. Orphans' \subseteq Orphans
    BY <2>1, <2>2 DEF Orphans, Recent
  <2> QED
    BY <1>0, <1>a, <2>1, <2>3 DEF WindowInv
<1>3. ASSUME NEW p \in Pmids, NEW r \in Replicas, Receive(p, r) PROVE WindowInv'
  <2> DEFINE m == <<p, deliveries[p] + 1>>
  <2>1. /\ Cardinality(Within(r)) < MaxRequests
        /\ windows' = [windows EXCEPT ![r] = Within(r) \cup {m}]
        /\ age' = [age EXCEPT ![m] = 0]
        /\ UNCHANGED crashes
    BY <1>3 DEF Receive, Admit, IsAllowed, Deliver
  <2> HIDE DEF m
  <2>2. IsFiniteSet(Within(r)) /\ Cardinality(Within(r)) \in Nat
    <3>1. IsFiniteSet(windows[r]) /\ Within(r) \subseteq windows[r]
      BY DEF WindowInv, Within
    <3> QED
      BY <3>1, FS_Subset, FS_CardinalityType
  <2>3. /\ IsFiniteSet(Within(r) \cup {m})
        /\ Cardinality(Within(r) \cup {m}) <= MaxRequests
    <3>1. Cardinality(Within(r) \cup {m}) \in {Cardinality(Within(r)), Cardinality(Within(r)) + 1}
      <4>1. CASE m \in Within(r)
        <5>1. Within(r) \cup {m} = Within(r)
          BY <4>1
        <5>2. Cardinality(Within(r) \cup {m}) = Cardinality(Within(r))
          BY <5>1, Zenon
        <5> QED
          BY <5>2
      <4>2. CASE m \notin Within(r)
        BY <2>2, <4>2, FS_AddElement
      <4> QED
        BY <4>1, <4>2
    <3>2. IsFiniteSet(Within(r) \cup {m})
      BY <2>2, FS_AddElement
    <3> QED
      BY <2>1, <2>2, <3>1, <3>2
  <2>4. \A q \in Replicas : windows'[q] = IF q = r THEN Within(r) \cup {m} ELSE windows[q]
    BY <2>1
  <2>5. \A q \in Replicas :
           IsFiniteSet(windows'[q]) /\ Cardinality(windows'[q]) <= MaxRequests
    <3>1. ASSUME NEW q \in Replicas, q = r
          PROVE  IsFiniteSet(windows'[q]) /\ Cardinality(windows'[q]) <= MaxRequests
      <4>1. windows'[q] = Within(r) \cup {m}
        BY <2>4, <3>1
      <4> QED
        BY <2>3, <4>1, Zenon
    <3>2. ASSUME NEW q \in Replicas, q # r
          PROVE  IsFiniteSet(windows'[q]) /\ Cardinality(windows'[q]) <= MaxRequests
      <4>1. windows'[q] = windows[q]
        BY <2>4, <3>2
      <4> QED
        BY <4>1, Zenon DEF WindowInv
    <3> QED
      BY <3>1, <3>2
  <2>6. ASSUME NEW n \in Orphans' PROVE n \in Orphans
    <3>1. n \in MsgIds /\ age'[n] < Window /\ \A q \in Replicas : n \notin windows'[q]
      BY <1>3 DEF Orphans, Recent
    <3>2. n # m /\ n \notin Within(r)
      BY <2>4, <3>1
    <3>3. age'[n] = age[n]
      BY <2>1, <3>1, <3>2
    <3>4. n \notin windows[r]
      BY <3>1, <3>2, <3>3 DEF Within
    <3>5. \A q \in Replicas : n \notin windows[q]
      BY <2>4, <3>1, <3>4
    <3> QED
      BY <3>1, <3>3, <3>5 DEF Orphans, Recent
  <2>7. Orphans' \subseteq Orphans
    BY <2>6
  <2> QED
    BY <1>0, <1>a, <2>1, <2>5, <2>7
<1>4. ASSUME NEW r \in Replicas, Refuse(r) PROVE WindowInv'
  <2>1. /\ windows' = [windows EXCEPT ![r] = Within(r)]
        /\ UNCHANGED <<age, crashes>>
    BY <1>4 DEF Refuse, vars
  <2>2. IsFiniteSet(Within(r)) /\ Cardinality(Within(r)) <= MaxRequests
    <3>1. /\ IsFiniteSet(windows[r]) /\ Cardinality(windows[r]) <= MaxRequests
          /\ Within(r) \subseteq windows[r]
      BY DEF WindowInv, Within
    <3>2. IsFiniteSet(Within(r)) /\ Cardinality(Within(r)) <= Cardinality(windows[r])
      BY <3>1, FS_Subset
    <3>3. Cardinality(Within(r)) \in Nat /\ Cardinality(windows[r]) \in Nat
      BY <3>1, <3>2, FS_CardinalityType
    <3> QED
      BY <3>1, <3>2, <3>3
  <2>3. \A q \in Replicas :
           IsFiniteSet(windows'[q]) /\ Cardinality(windows'[q]) <= MaxRequests
    <3>1. windows'[r] = Within(r) /\ \A q \in Replicas \ {r} : windows'[q] = windows[q]
      BY <2>1
    <3> QED
      BY <2>2, <3>1, Zenon DEF WindowInv
  <2>4. ASSUME NEW n \in Orphans' PROVE n \in Orphans
    <3>1. /\ n \in MsgIds /\ age[n] < Window
          /\ \A q \in Replicas \ {r} : n \notin windows[q]
          /\ n \notin Within(r)
      BY <2>1 DEF Orphans, Recent
    <3>2. n \notin windows[r]
      BY <3>1 DEF Within
    <3> QED
      BY <3>1, <3>2 DEF Orphans, Recent
  <2>5. Orphans' \subseteq Orphans
    BY <2>4
  <2> QED
    BY <1>0, <1>a, <2>1, <2>3, <2>5
<1>5. ASSUME NEW r \in Replicas, Die(r) PROVE WindowInv'
  <2>1. /\ windows' = [windows EXCEPT ![r] = {}] /\ UNCHANGED age
        /\ crashes' = crashes + 1
    BY <1>5 DEF Die, Crash
  <2>2. \A q \in Replicas :
           IsFiniteSet(windows'[q]) /\ Cardinality(windows'[q]) <= MaxRequests
    <3>1. windows'[r] = {} /\ \A q \in Replicas \ {r} : windows'[q] = windows[q]
      BY <2>1
    <3>2. IsFiniteSet({}) /\ Cardinality({}) <= MaxRequests
      BY FS_EmptySet
    <3>3. IsFiniteSet(windows'[r]) /\ Cardinality(windows'[r]) <= MaxRequests
      BY <3>1, <3>2, Zenon
    <3> QED
      BY <3>1, <3>3, Zenon DEF WindowInv
  <2>3. Orphans' \subseteq Orphans \cup windows[r]
    BY <2>1 DEF Orphans, Recent
  <2>4. /\ IsFiniteSet(Orphans) /\ IsFiniteSet(windows[r])
        /\ Cardinality(Orphans) <= bound /\ Cardinality(windows[r]) <= MaxRequests
    BY DEF WindowInv
  <2>5. /\ IsFiniteSet(Orphans \cup windows[r])
        /\ Cardinality(Orphans \cup windows[r]) <= Cardinality(Orphans) + Cardinality(windows[r])
    <3>1. /\ IsFiniteSet(Orphans \cup windows[r])
          /\ Cardinality(Orphans \cup windows[r])
             = Cardinality(Orphans) + Cardinality(windows[r]) - Cardinality(Orphans \cap windows[r])
      BY <2>4, FS_Union
    <3>2. Cardinality(Orphans \cap windows[r]) \in Nat
      BY <2>4, FS_Subset, FS_CardinalityType
    <3>3. Cardinality(Orphans) \in Nat /\ Cardinality(windows[r]) \in Nat
      BY <2>4, FS_CardinalityType
    <3> QED
      BY <3>1, <3>2, <3>3
  <2>6. IsFiniteSet(Orphans') /\ Cardinality(Orphans') <= Cardinality(Orphans \cup windows[r])
    BY <2>3, <2>5, FS_Subset
  <2>7. /\ Cardinality(Orphans') \in Nat /\ Cardinality(Orphans \cup windows[r]) \in Nat
        /\ Cardinality(Orphans) \in Nat /\ Cardinality(windows[r]) \in Nat
    BY <2>4, <2>5, <2>6, FS_CardinalityType
  <2>8. MaxRequests * crashes' = bound + MaxRequests
    BY <1>0, <2>1
  <2>9. Cardinality(Orphans') <= MaxRequests * crashes'
    BY <1>0, <2>4, <2>5, <2>6, <2>7, <2>8
  <2> QED
    BY <2>2, <2>6, <2>9 DEF WindowInv
<1>6. ASSUME NEW r \in Replicas, Persist(r) \/ Acknowledge(r) \/ Fail(r)
      PROVE  UNCHANGED <<windows, age, crashes>>
  BY <1>6 DEF Persist, Acknowledge, Fail, limiter, CheckDuplicate, LoadExisting, SaveEvent,
     SaveInbox, SaveIndex, Respond, LoadFails, SaveFails
<1>7. UNCHANGED gatewayVars => UNCHANGED <<windows, age, crashes>>
  BY DEF gatewayVars
<1> QED
  BY <1>1, <1>2, <1>3, <1>4, <1>5, <1>6, <1>7 DEF GatewayNext, HandlerStep

\* In any stretch of window_seconds a sender gets no more requests through than the limit
\* for each process and once more for each that died.
THEOREM AdmissionsAreBounded == GatewaySpec => []AdmissionsBounded
<1>1. GatewayInit => TypeInv /\ ToldInv /\ WindowTypes
  BY IngressAssumption, GatewayAssumption
     DEF GatewayInit, Init, TypeInv, IngressTypeOK, Steps, ToldInv, WindowTypes
<1>2. GatewayInit => WindowInv
  <2> SUFFICES ASSUME GatewayInit PROVE WindowInv
    OBVIOUS
  <2>1. Orphans = {}
    BY GatewayAssumption DEF GatewayInit, Orphans, Recent
  <2>2. \A r \in Replicas : windows[r] = {}
    BY DEF GatewayInit
  <2>3. crashes = 0 /\ IsFiniteSet({}) /\ Cardinality({}) = 0
    BY FS_EmptySet DEF GatewayInit, Init
  <2> QED
    BY <2>1, <2>2, <2>3, GatewayAssumption DEF WindowInv
<1>3. TypeInv /\ ToldInv /\ WindowTypes /\ WindowInv /\ [GatewayNext]_gatewayVars
      => (TypeInv /\ ToldInv /\ WindowTypes /\ WindowInv)'
  BY GatewayStep, TypeStep, ToldStep, WindowTypesStep, WindowStep
<1>4. TypeInv /\ WindowTypes /\ WindowInv => AdmissionsBounded
  <2> SUFFICES ASSUME TypeInv, WindowTypes, WindowInv PROVE AdmissionsBounded
    OBVIOUS
  <2> DEFINE U == UNION {windows[r] : r \in Replicas}
  <2>1. IsFiniteSet(U) /\ Cardinality(U) <= MaxRequests * Cardinality(Replicas)
    BY UnionBound, IngressAssumption, GatewayAssumption DEF WindowInv
  <2>2. IsFiniteSet(Orphans) /\ Cardinality(Orphans) <= MaxRequests * crashes
    BY DEF WindowInv
  <2>3. Recent \subseteq U \cup Orphans
    BY DEF Orphans
  <2> HIDE DEF U
  <2>4. /\ IsFiniteSet(U \cup Orphans)
        /\ Cardinality(U \cup Orphans)
           = Cardinality(U) + Cardinality(Orphans) - Cardinality(U \cap Orphans)
    BY <2>1, <2>2, FS_Union
  <2>5. IsFiniteSet(U \cap Orphans)
    BY <2>1, FS_Subset
  <2>6. IsFiniteSet(Recent) /\ Cardinality(Recent) <= Cardinality(U \cup Orphans)
    BY <2>3, <2>4, FS_Subset
  <2>7. /\ Cardinality(U) \in Nat /\ Cardinality(Orphans) \in Nat
        /\ Cardinality(U \cap Orphans) \in Nat /\ Cardinality(Recent) \in Nat
        /\ Cardinality(U \cup Orphans) \in Nat /\ Cardinality(Replicas) \in Nat
    BY <2>1, <2>2, <2>4, <2>5, <2>6, FS_CardinalityType, IngressAssumption
  <2>8. crashes \in Nat /\ MaxRequests \in Nat
    BY IngressAssumption, GatewayAssumption DEF TypeInv, IngressTypeOK
  <2>9. MaxRequests * (Cardinality(Replicas) + crashes)
        = MaxRequests * Cardinality(Replicas) + MaxRequests * crashes
    BY <2>7, <2>8
  <2>10. /\ MaxRequests * Cardinality(Replicas) \in Nat /\ MaxRequests * crashes \in Nat
    BY <2>7, <2>8
  <2>11. Cardinality(Recent) <= MaxRequests * (Cardinality(Replicas) + crashes)
    BY <2>1, <2>2, <2>4, <2>6, <2>7, <2>9, <2>10
  <2> QED
    BY <2>11 DEF Recent, AdmissionsBounded
<1> QED
  BY <1>1, <1>2, <1>3, <1>4, PTL DEF GatewaySpec
===========================================================================
