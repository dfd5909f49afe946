-------------------------- MODULE DeliveryProofs ---------------------------
(***************************************************************************)
(* What an execution of the pipeline guarantees, for any message, any      *)
(* answers of the model, and any number of executions, posts and losses.   *)
(***************************************************************************)
EXTENDS Delivery, TLAPS

\* A price without a number stands for none; the others become a number of paise.
LEMMA NothingHasNoNumber == Nothing \in Numbers /\ Nothing \in Prices /\ Kept[Nothing] = NoNumber
BY ExtractionAssumption DEF Nothing

LEMMA EmptyIsRaw == Empty \in RawExtractions /\ ~Raises(Empty)
<1>1. Empty \in RawExtractions
  BY NothingHasNoNumber DEF Empty, RawExtractions, VarietyFields, Blank, Varieties
<1>2. NormalizePrice(Nothing) = NoPrice
  BY NothingHasNoNumber DEF NormalizePrice, NoNumber
<1> QED
  BY <1>1, <1>2 DEF Empty, Raises, NoPrice

LEMMA HeuristicIsRaw == ASSUME NEW t \in Texts PROVE Heuristic(t) \in RawExtractions /\ ~Raises(Heuristic(t))
<1> DEFINE field == IF t.variety = {} THEN Blank ELSE Naming(FirstOf(t.variety))
<1>1. t.variety \subseteq Varieties /\ t.number \in Numbers /\ t.number \in Prices
  BY ExtractionAssumption DEF Texts
<1>2. t.variety # {} => FirstOf(t.variety) \in Varieties
  BY <1>1 DEF FirstOf, Varieties
<1>3. field \in VarietyFields
  <2>1. CASE t.variety = {}
    BY <2>1 DEF VarietyFields, Blank
  <2>2. CASE t.variety # {}
    BY <1>2, <2>2 DEF VarietyFields, Naming
  <2> QED
    BY <2>1, <2>2
<1>4. Heuristic(t) \in RawExtractions
  BY <1>1, <1>3 DEF Heuristic, RawExtractions
<1>5. NormalizePrice(t.number) # 0
  <2>1. Kept[t.number] \in {NoNumber, 0} \/ Kept[t.number] >= 1000
    BY <1>1, ExtractionAssumption
  <2>2. Kept[t.number] \in Nat \cup {NoNumber}
    BY <1>1, ExtractionAssumption
  <2> QED
    BY <2>1, <2>2 DEF NormalizePrice, NoPrice, NoNumber
<1> QED
  BY <1>4, <1>5 DEF Heuristic, Raises

LEMMA InputIsRaw ==
    ASSUME NEW k, NEW t \in Texts, NEW raw \in ProcessInput(k, t)
    PROVE  raw \in RawExtractions /\ ~Raises(raw)
BY EmptyIsRaw, HeuristicIsRaw DEF ProcessInput, ExtractFromText, ExtractFromAudio, Answers

\* The engine is only asked about what was read: three layers (Validate, Contracted,
\* NeedsClarification) see to it, and a price of 0 does not get through the second.
LEMMA OfferWasRead ==
    ASSUME NEW raw \in RawExtractions, ~Raises(raw), ~NeedsClarification(IntelligenceOutput(raw))
    PROVE  /\ Offer(IntelligenceOutput(raw)).variety \in raw.variety.alias \cup raw.variety.part
           /\ Offer(IntelligenceOutput(raw)).price = NormalizePrice(raw.offered_price)
<1> DEFINE variety == NormalizeVariety(raw.variety)
           price == NormalizePrice(raw.offered_price)
           out == IntelligenceOutput(raw)
<1>1. /\ out.variety = variety
      /\ out.offered_price = price
      /\ Missing(raw) \subseteq out.missing_fields
  BY DEF IntelligenceOutput, Contracted, Validate
<1>2. "variety" \notin Missing(raw) /\ "offered_price" \notin Missing(raw)
  BY <1>1 DEF NeedsClarification
<1>3. variety # None /\ price # NoPrice
  BY <1>2 DEF Missing, MissingFrom
<1>4. price # 0
  BY DEF Raises
<1>5. variety \in raw.variety.alias \cup raw.variety.part
  BY <1>3 DEF NormalizeVariety, FirstOf
<1>6. Offer(out).variety = variety /\ Offer(out).price = price
  BY <1>1, <1>3, <1>4 DEF Offer
<1> QED
  BY <1>5, <1>6

---------------------------------------------------------------------------
\* Time, an operator and the ingestion leave an execution alone.
LEMMA OutsideSteps ==
    ASSUME WindowCloses \/ StampExpires \/ Restamp \/ MarketChanges
    PROVE  UNCHANGED <<message, execution>>
<1> QED
  BY DEF WindowCloses, StampExpires, Restamp, MarketChanges

LEMMA TypeStep == DeliveryTypeOK /\ [Next]_vars => DeliveryTypeOK'
<1> SUFFICES ASSUME DeliveryTypeOK, [Next]_vars PROVE DeliveryTypeOK'
  OBVIOUS
<1> USE DeliveryAssumption DEF DeliveryTypeOK, Stages, Parts
<1>e. Empty \in RawExtractions
  BY EmptyIsRaw
<1>1. CASE UNCHANGED vars
  BY <1>1 DEF vars
<1>2. CASE WindowCloses \/ StampExpires \/ Restamp \/ MarketChanges
  <2>1. window' \in BOOLEAN /\ stamp' \in BOOLEAN
    BY <1>2, Zenon DEF WindowCloses, StampExpires, Restamp, MarketChanges
  <2>2. later' \in BOOLEAN /\ market' \in BOOLEAN
    BY <1>2, Zenon DEF WindowCloses, StampExpires, Restamp, MarketChanges
  <2>3. UNCHANGED <<message, execution>>
    BY <1>2, OutsideSteps
  <2> QED
    BY <2>1, <2>2, <2>3 DEF message, execution
<1>3. CASE Begin
  <2>1. runs' \in 0..MaxRuns /\ attempt' \in 0..MaxPosts
    BY <1>3 DEF Begin
  <2>2. trouble' \in BOOLEAN /\ media' \in BOOLEAN /\ open' \in BOOLEAN
    BY <1>3 DEF Begin
  <2> QED
    BY <1>3, <2>1, <2>2 DEF Begin, environment, understood
<1>4. CASE Extract
  <2>1. /\ said' \in RawExtractions
        /\ extraction' = IntelligenceOutput(said')
    BY <1>4, InputIsRaw DEF Extract, Understand, understood, environment
  <2>2. /\ stage' \in Stages /\ outcome' \in {"none", "returned", "raised", "died"}
        /\ hung' \in BOOLEAN
    BY <1>4 DEF Extract, Goto, End
  <2>3. trouble' \in BOOLEAN
    BY <1>4 DEF Extract, Fault
  <2>4. UNCHANGED <<environment, media, open, attempt, runs, accepted, received, lost, crashes>>
    BY <1>4, Zenon DEF Extract
  <2> QED
    BY <2>1, <2>2, <2>3, <2>4 DEF environment
<1>5. CASE Lookup
  <2>1. /\ stage' \in Stages /\ outcome' \in {"none", "returned", "raised", "died"}
        /\ hung' \in BOOLEAN
    BY <1>5 DEF Lookup, Goto, End
  <2>2. trouble' \in BOOLEAN
    BY <1>5 DEF Lookup, Fault
  <2>3. /\ said' = Empty /\ extraction' = IntelligenceOutput(Empty)
        /\ UNCHANGED <<environment, media, open, attempt, runs, accepted, received, lost, crashes>>
    BY <1>5, Zenon DEF Lookup, Understand
  <2> QED
    BY <1>e, <2>1, <2>2, <2>3 DEF environment
<1>6. CASE Render \/ Dispatch
  <2>1. stage' \in Stages /\ UNCHANGED outcome /\ hung' \in BOOLEAN
    BY <1>6, Zenon DEF Render, Dispatch, Goto
  <2>2. media' \in BOOLEAN /\ open' \in BOOLEAN
    BY <1>6, Zenon DEF Render, Dispatch
  <2>3. UNCHANGED <<environment, understood, attempt, runs, accepted, received, lost, trouble,
                    crashes>>
    BY <1>6, Zenon DEF Render, Dispatch
  <2> QED
    BY <2>1, <2>2, <2>3 DEF environment, understood
<1>7. ASSUME NEW p \in Parts, PostSomehow(p) PROVE DeliveryTypeOK'
  <2> DEFINE Going == /\ stage' \in Stages /\ hung' \in BOOLEAN
                      /\ outcome' \in {"none", "returned", "raised", "died"}
                      /\ attempt' \in 0..MaxPosts
  <2>0. ASSUME Post(p) \/ PostRejected(p) PROVE Going
    <3>1. attempt' = 0 /\ (Proceed(p) \/ End("raised"))
      BY <2>0, Zenon DEF Post, PostRejected
    <3>2. /\ stage' \in Stages /\ hung' \in BOOLEAN
          /\ outcome' \in {"none", "returned", "raised", "died"}
      BY <3>1 DEF Proceed, Goto, End
    <3> QED
      BY <3>1, <3>2
  <2>1. ASSUME PostRefused(p) \/ PostUnanswered(p) PROVE Going
    <3>1. PICK long \in BOOLEAN : RetryOrRaise(long)
      BY <2>1, Zenon DEF PostRefused, PostUnanswered
    <3>2. hung' \in BOOLEAN
      BY <3>1, Zenon DEF RetryOrRaise, End
    <3>3. \/ attempt + 1 < MaxPosts /\ attempt' = attempt + 1 /\ UNCHANGED <<stage, outcome>>
          \/ attempt' = 0 /\ stage' = "idle" /\ outcome' = "raised"
      BY <3>1, Zenon DEF RetryOrRaise, End
    <3> QED
      BY <3>2, <3>3
  <2>2. received' \in [Parts -> Nat] /\ accepted' \subseteq Parts
    <3>1. CASE Accept(p)
      BY <3>1 DEF Accept
    <3>2. Accept(p) \/ UNCHANGED <<accepted, received>>
      BY <1>7, Zenon DEF PostSomehow, Post, PostRefused, PostUnanswered, PostRejected
    <3> QED
      BY <3>1, <3>2
  <2>3. lost' = lost \/ (lost < MaxLost /\ lost' = lost + 1)
    BY <1>7, Zenon DEF PostSomehow, Post, PostRefused, PostUnanswered, PostRejected
  <2>4. lost' \in 0..MaxLost
    BY <2>3
  <2>5. trouble' \in BOOLEAN
    BY <1>7, Zenon DEF PostSomehow, Post, PostRefused, PostUnanswered, PostRejected, Fault
  <2>6. UNCHANGED <<environment, understood, media, open, runs, crashes>>
    BY <1>7, Zenon DEF PostSomehow, Post, PostRefused, PostUnanswered, PostRejected
  <2>7. Going
    BY <1>7, <2>0, <2>1 DEF PostSomehow
  <2> QED
    BY <2>2, <2>4, <2>5, <2>6, <2>7 DEF environment, understood
<1>8. CASE Crash \/ Kill
  <2>1. Die /\ crashes' \in 0..MaxCrashes
    BY <1>8 DEF Crash, Kill
  <2>2. hung' \in BOOLEAN
    BY <2>1, Zenon DEF Die, End
  <2>3. /\ attempt' = 0 /\ stage' = "idle" /\ outcome' = "died"
        /\ said' = Empty /\ extraction' = IntelligenceOutput(Empty)
        /\ UNCHANGED <<environment, media, open, runs, accepted, received, lost, trouble>>
    BY <2>1, Zenon DEF Die, End, Understand
  <2> QED
    BY <2>1, <2>2, <2>3, <1>e DEF environment
<1>9. CASE ModelHangs
  BY <1>9 DEF ModelHangs, environment, understood
<1> QED
  BY <1>1, <1>2, <1>3, <1>4, <1>5, <1>6, <1>7, <1>8, <1>9 DEF Next, PipelineStep

LEMMA TypeInit == Init => DeliveryTypeOK
<1> SUFFICES ASSUME Init PROVE DeliveryTypeOK
  OBVIOUS
<1>1. Empty \in RawExtractions
  BY EmptyIsRaw
<1>2. received \in [Parts -> Nat]
  BY DEF Init, Parts
<1>3. attempt \in 0..MaxPosts /\ runs \in 0..MaxRuns /\ lost \in 0..MaxLost /\ crashes \in 0..MaxCrashes
  BY DeliveryAssumption DEF Init
<1> QED
  BY <1>1, <1>2, <1>3 DEF Init, DeliveryTypeOK, Stages

\* The type invariant holds of the pipeline, whatever the model answers.
THEOREM DeliveryTypes == Spec => []DeliveryTypeOK
<1> QED
  BY TypeInit, TypeStep, PTL DEF Spec

---------------------------------------------------------------------------
\* No stand-in for a missing field is judged, in any execution and for any answer.
THEOREM NoStandInIsJudged == Spec => []EngineGetsWhatWasRead
<1>1. Init => EngineGetsWhatWasRead
  BY DEF Init, EngineGetsWhatWasRead
<1>2. DeliveryTypeOK /\ EngineGetsWhatWasRead /\ [Next]_vars => EngineGetsWhatWasRead'
  <2> SUFFICES ASSUME DeliveryTypeOK, EngineGetsWhatWasRead, [Next]_vars, stage' = "lookup"
               PROVE  /\ Offer(extraction').variety \in said'.variety.alias \cup said'.variety.part
                      /\ Offer(extraction').price = NormalizePrice(said'.offered_price)
    BY DEF EngineGetsWhatWasRead
  <2>1. CASE Extract
    <3>1. PICK raw \in ProcessInput(kind, text) :
              ~NeedsClarification(IntelligenceOutput(raw)) /\ Understand(raw)
      BY <2>1 DEF Extract, Goto, End
    <3>2. raw \in RawExtractions /\ ~Raises(raw)
      BY InputIsRaw DEF DeliveryTypeOK
    <3> QED
      BY <3>1, <3>2, OfferWasRead DEF Understand
  <2>2. ASSUME ~Extract
        PROVE  stage = "lookup" /\ said' = said /\ extraction' = extraction
    <3>1. ~Begin /\ ~Lookup /\ ~Render /\ ~Dispatch /\ ~Crash /\ ~Kill /\ ~ModelHangs
      BY DEF Begin, Lookup, Render, Dispatch, Crash, Kill, Die, ModelHangs, Goto, End
    <3>2. ASSUME NEW p \in Parts PROVE ~PostSomehow(p)
      BY DEF PostSomehow, Post, PostRefused, PostUnanswered, PostRejected, Proceed,
             RetryOrRaise, Goto, End, Parts
    <3>3. UNCHANGED vars \/ WindowCloses \/ StampExpires \/ Restamp \/ MarketChanges
      BY <2>2, <3>1, <3>2 DEF Next, PipelineStep
    <3> QED
      BY <3>3 DEF vars, WindowCloses, StampExpires, Restamp, MarketChanges, execution
  <2> QED
    BY <2>1, <2>2 DEF EngineGetsWhatWasRead
<1> QED
  BY <1>1, <1>2, DeliveryTypes, PTL DEF Spec

---------------------------------------------------------------------------
\* What an execution knows: until it ends it has no outcome, and when it comes to the
\* voice note Meta has accepted the text.
PartsInv ==
    /\ stage # "idle" => outcome = "none"
    /\ stage = "audio" => media /\ "text" \in accepted
    /\ ReturnedMeansAccepted
    /\ AudioFollowsText

LEMMA PartsStep == DeliveryTypeOK /\ PartsInv /\ [Next]_vars => PartsInv'
<1> SUFFICES ASSUME DeliveryTypeOK, PartsInv, [Next]_vars PROVE PartsInv'
  OBVIOUS
<1> USE DEF DeliveryTypeOK, PartsInv, ReturnedMeansAccepted, AudioFollowsText, Stages, Parts
<1>1. CASE UNCHANGED vars
  BY <1>1 DEF vars
<1>2. CASE WindowCloses \/ StampExpires \/ Restamp \/ MarketChanges
  <2>1. UNCHANGED execution
    BY <1>2, OutsideSteps
  <2> QED
    BY <2>1 DEF execution
<1>3. CASE Begin
  BY <1>3 DEF Begin
<1>4. CASE Extract \/ Lookup \/ Render \/ Dispatch
  BY <1>4 DEF Extract, Lookup, Render, Dispatch, Goto, End
<1>5. CASE Crash \/ Kill \/ ModelHangs
  BY <1>5 DEF Crash, Kill, Die, ModelHangs, End
<1>6. ASSUME NEW p \in Parts, Post(p) PROVE PartsInv'
  BY <1>6 DEF Post, Accept, Proceed, Goto, End
<1>7. ASSUME NEW p \in Parts, PostRefused(p) PROVE PartsInv'
  BY <1>7 DEF PostRefused, RetryOrRaise, End
<1>8. ASSUME NEW p \in Parts, PostUnanswered(p) PROVE PartsInv'
  BY <1>8 DEF PostUnanswered, Accept, RetryOrRaise, End
<1>9. ASSUME NEW p \in Parts, PostRejected(p) PROVE PartsInv'
  <2>1. "audio" \in accepted' => "text" \in accepted'
    <3>1. CASE Accept(p)
      BY <1>9, <3>1 DEF PostRejected, Accept
    <3>2. CASE UNCHANGED <<accepted, received>>
      BY <3>2
    <3> QED
      BY <1>9, <3>1, <3>2 DEF PostRejected
  <2> QED
    BY <1>9, <2>1 DEF PostRejected, End
<1> QED
  BY <1>1, <1>2, <1>3, <1>4, <1>5, <1>6, <1>7, <1>8, <1>9 DEF Next, PipelineStep, PostSomehow

\* A return means that Meta accepted the reply, and no voice note comes without its text.
THEOREM ReturnIsAcceptance == Spec => [](ReturnedMeansAccepted /\ AudioFollowsText)
<1>1. Init => PartsInv
  BY DEF Init, PartsInv, ReturnedMeansAccepted, AudioFollowsText, Parts
<1>2. PartsInv => ReturnedMeansAccepted /\ AudioFollowsText
  BY DEF PartsInv
<1> QED
  BY <1>1, <1>2, PartsStep, DeliveryTypes, PTL DEF Spec

\* No execution has a voice note accepted without its own text, which it reads out:
\* AudioFollowsText.
THEOREM TextComesFirst == Spec => []AudioFollowsText
  BY ReturnIsAcceptance, PTL

---------------------------------------------------------------------------
\* The execution under way may still post part p with an answer that arrives.
Ahead(p) ==
    \/ stage \in {"extract", "lookup", "render", "dispatch", p}
    \/ stage = "text" /\ p = "audio"

\* Each execution has one copy of a part to give that no lost response accounts for.
CopiesInv ==
    \A p \in Parts : received[p] + (IF Ahead(p) THEN 1 ELSE 0) <= runs + lost

LEMMA CopiesStep == DeliveryTypeOK /\ CopiesInv /\ [Next]_vars => CopiesInv'
<1> SUFFICES ASSUME DeliveryTypeOK, CopiesInv, [Next]_vars, NEW q \in Parts
             PROVE  (received[q] + (IF Ahead(q) THEN 1 ELSE 0) <= runs + lost)'
  BY DEF CopiesInv
<1>0. /\ received[q] \in Nat /\ runs \in Nat /\ lost \in Nat
      /\ received[q] + (IF Ahead(q) THEN 1 ELSE 0) <= runs + lost
  BY DeliveryAssumption DEF DeliveryTypeOK, CopiesInv
<1> USE DEF DeliveryTypeOK, Parts
<1>1. CASE UNCHANGED vars
  BY <1>0, <1>1 DEF vars, Ahead
<1>2. CASE WindowCloses \/ StampExpires \/ Restamp \/ MarketChanges
  <2>1. UNCHANGED execution
    BY <1>2, OutsideSteps
  <2> QED
    BY <1>0, <2>1 DEF execution, Ahead
<1>3. CASE Begin
  BY <1>0, <1>3 DEF Begin, Ahead
<1>4. CASE Extract \/ Lookup \/ Render \/ Dispatch
  <2>1. UNCHANGED <<received, runs, lost>>
    BY <1>4 DEF Extract, Lookup, Render, Dispatch
  <2>2. Ahead(q)
    BY <1>4 DEF Extract, Lookup, Render, Dispatch, Ahead
  <2> QED
    BY <1>0, <2>1, <2>2 DEF Ahead
<1>5. CASE Crash \/ Kill \/ ModelHangs
  BY <1>0, <1>5 DEF Crash, Kill, Die, ModelHangs, End, Ahead
<1>6. ASSUME NEW p \in Parts, Post(p) PROVE (received[q] + (IF Ahead(q) THEN 1 ELSE 0) <= runs + lost)'
  BY <1>0, <1>6 DEF Post, Accept, Proceed, Goto, End, Ahead
<1>7. ASSUME NEW p \in Parts, PostRefused(p) PROVE (received[q] + (IF Ahead(q) THEN 1 ELSE 0) <= runs + lost)'
  BY <1>0, <1>7 DEF PostRefused, RetryOrRaise, End, Ahead
<1>8. ASSUME NEW p \in Parts, PostUnanswered(p) PROVE (received[q] + (IF Ahead(q) THEN 1 ELSE 0) <= runs + lost)'
  BY <1>0, <1>8 DEF PostUnanswered, Accept, RetryOrRaise, End, Ahead
<1>9. ASSUME NEW p \in Parts, PostRejected(p) PROVE (received[q] + (IF Ahead(q) THEN 1 ELSE 0) <= runs + lost)'
  BY <1>0, <1>9 DEF PostRejected, Accept, End, Ahead
<1> QED
  BY <1>1, <1>2, <1>3, <1>4, <1>5, <1>6, <1>7, <1>8, <1>9 DEF Next, PipelineStep, PostSomehow

\* Every copy a farmer gets is accounted for by an execution or a lost response.
THEOREM CopiesHaveCauses == Spec => []CopiesAccounted
<1>1. Init => CopiesInv
  BY DEF Init, CopiesInv, Ahead, Parts
<1>2. DeliveryTypeOK /\ CopiesInv => CopiesAccounted
  <2> SUFFICES ASSUME DeliveryTypeOK, CopiesInv, NEW p \in Parts
               PROVE  received[p] <= runs + lost
    BY DEF CopiesAccounted
  <2>1. received[p] \in Nat /\ runs \in Nat /\ lost \in Nat
    BY DeliveryAssumption DEF DeliveryTypeOK
  <2> QED
    BY <2>1 DEF CopiesInv
<1> QED
  BY <1>1, <1>2, CopiesStep, DeliveryTypes, PTL DEF Spec

---------------------------------------------------------------------------
\* An execution only fails for want of a snapshot or by a failed operation.
THEOREM FailuresHaveCauses == Spec => FailureHasCause
<1>1. ASSUME [Next]_vars, outcome' = "raised", outcome # "raised"
      PROVE  ~market \/ extraction.elsewhere \/ trouble'
  <2>1. ~UNCHANGED outcome
    BY <1>1
  <2>2. Extract \/ Lookup \/ \E p \in Parts : PostSomehow(p)
    BY <1>1, <2>1 DEF Next, PipelineStep, vars, WindowCloses, StampExpires, Restamp,
       MarketChanges, execution, Begin, Render, Dispatch, ModelHangs, Crash, Kill, Die, Goto, End
  <2>3. CASE Extract
    BY <1>1, <2>1, <2>3 DEF Extract, Goto, Fault
  <2>4. CASE Lookup
    BY <1>1, <2>1, <2>4 DEF Lookup, Goto, Fault
  <2>5. ASSUME NEW p \in Parts, PostSomehow(p) PROVE trouble'
    BY <1>1, <2>1, <2>5 DEF PostSomehow, Post, PostRefused, PostUnanswered, PostRejected,
       Proceed, Goto, End, Fault
  <2> QED
    BY <2>2, <2>3, <2>4, <2>5
<1> QED
  BY <1>1, PTL DEF Spec, FailureHasCause

---------------------------------------------------------------------------
\* An enqueued_at that is the message's own is as old as the window; so a free-form part is
\* under way only if the window was open when it was looked at.
WindowInv ==
    /\ stamp => window \/ later
    /\ stage \in {"text", "audio"} => open \/ later

LEMMA WindowStep == DeliveryTypeOK /\ WindowInv /\ [Next]_vars => WindowInv'
<1> SUFFICES ASSUME DeliveryTypeOK, WindowInv, [Next]_vars PROVE WindowInv'
  OBVIOUS
<1> USE DEF WindowInv
<1>1. CASE WindowCloses \/ StampExpires \/ MarketChanges
  <2>1. stamp' => window' \/ later'
    BY <1>1, Zenon DEF WindowCloses, StampExpires, MarketChanges
  <2>2. later' = later /\ stage' = stage /\ open' = open
    BY <1>1, Zenon DEF WindowCloses, StampExpires, MarketChanges, execution
  <2> QED
    BY <2>1, <2>2
<1>2. CASE Restamp
  BY <1>2 DEF Restamp, execution
<1>3. CASE UNCHANGED <<environment, stage, open>>
  BY <1>3 DEF environment
<1>4. CASE Dispatch
  BY <1>4 DEF Dispatch, Goto, environment
<1>5. ASSUME UNCHANGED environment, stage' \notin {"text", "audio"}
      PROVE  WindowInv'
  BY <1>5 DEF environment
<1>6. CASE Begin \/ Extract \/ Lookup \/ Render
  <2>1. UNCHANGED environment /\ stage' \notin {"text", "audio"}
    BY <1>6 DEF Begin, Extract, Lookup, Render, Goto, End
  <2> QED
    BY <1>5, <2>1
<1>7. CASE Crash \/ Kill
  <2>1. UNCHANGED environment /\ stage' = "idle"
    BY <1>7 DEF Crash, Kill, Die, End
  <2> QED
    BY <1>5, <2>1
<1>8. CASE ModelHangs
  BY <1>3, <1>8 DEF ModelHangs
<1>9. ASSUME NEW p \in Parts, PostSomehow(p) PROVE WindowInv'
  <2>1. UNCHANGED <<environment, open>> /\ stage = p
    BY <1>9 DEF PostSomehow, Post, PostRefused, PostUnanswered, PostRejected
  <2>2. stage' \in {stage, "idle"} \/ (stage = "text" /\ stage' = "audio")
    BY <1>9 DEF PostSomehow, Post, PostRefused, PostUnanswered, PostRejected, Proceed,
                RetryOrRaise, Goto, End
  <2> QED
    BY <2>1, <2>2 DEF environment
<1> QED
  BY <1>1, <1>2, <1>3, <1>4, <1>6, <1>7, <1>8, <1>9 DEF Next, PipelineStep, vars, environment

\* A free-form part comes from an execution that found the window open, or its enqueued_at
\* is not the message's.
THEOREM WindowIsKept == Spec => FreeFormWasInWindow
<1>1. Init => WindowInv
  BY DEF Init, WindowInv
<1>2. ASSUME DeliveryTypeOK, WindowInv, [Next]_vars, NEW p \in {"text", "audio"},
             received'[p] > received[p]
      PROVE  open \/ later
  <2>1. received[p] \in Nat /\ ~UNCHANGED received
    BY <1>2 DEF DeliveryTypeOK, Parts
  <2>2. PICK q \in Parts : PostSomehow(q)
    BY <2>1, <1>2 DEF Next, PipelineStep, vars, WindowCloses, StampExpires, Restamp, MarketChanges,
       execution, Begin, Extract, Lookup, Render, Dispatch, ModelHangs, Crash, Kill, Die
  <2>3. stage = q /\ received' = [received EXCEPT ![q] = @ + 1]
    BY <2>1, <2>2 DEF PostSomehow, Post, PostRefused, PostUnanswered, PostRejected, Accept
  <2>4. q = p
    BY <1>2, <2>1, <2>3 DEF DeliveryTypeOK, Parts
  <2> QED
    BY <1>2, <2>3, <2>4 DEF WindowInv
<1>3. DeliveryTypeOK /\ WindowInv /\ [Next]_vars
          => \A p \in {"text", "audio"} : received'[p] > received[p] => open \/ later
  BY <1>2
<1> QED
  BY <1>1, <1>3, WindowStep, DeliveryTypes, PTL DEF Spec, FreeFormWasInWindow
===========================================================================
