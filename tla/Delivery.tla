----------------------------- MODULE Delivery -----------------------------
(***************************************************************************)
(* What one message goes through in the worker: process_work_item          *)
(* (src/src/worker/pipeline.py) over Extraction, the language engine, and  *)
(* the WhatsApp client (src/src/channels/meta/client.py), which posts to   *)
(* Meta's Graph API over a network that loses requests and responses. The  *)
(* job runs the pipeline again after a failure (RunPipeline of             *)
(* Reconciliation), from the beginning, with nothing known of what was     *)
(* sent before.                                                            *)
(***************************************************************************)
EXTENDS Extraction

CONSTANTS
    MaxRuns,     \* executions the job grants a message (WorkBudget of Reconciliation)
    MaxPosts,    \* max_retries of the client: posts of one part in one execution
    MaxLost,     \* bound: responses that get lost
    MaxCrashes   \* bound: workers that die while they run the pipeline

ASSUME DeliveryAssumption ==
    /\ MaxRuns \in Nat
    /\ MaxPosts \in Nat \ {0}
    /\ MaxLost \in Nat
    /\ MaxCrashes \in Nat

VARIABLES
    kind,      \* the message is a text, a voice note or something else
    text,      \* what it says, if it is a text
    window,    \* Meta's customer service window, 24 hours from the farmer's message
    stamp,     \* is_within_24h_window of enqueued_at, the gateway's clock at acceptance
    later,     \* is enqueued_at later than the message by more than a moment?
    market,    \* does the store hold a market snapshot?
    stage,     \* what the pipeline does next
    said,      \* the raw extraction of this execution, until the engine has judged it
    extraction, \* and what the intelligence layer made of it
    media,     \* media_ref: there is a voice note to send
    open,      \* was the window open when send_message looked at the stamp?
    attempt,   \* posts of the current part so far
    hung,      \* waits for an answer or in a sleep that may not end
    runs,      \* executions so far
    outcome,   \* how the last execution ended
    accepted,  \* parts Meta accepted in this execution
    received,  \* how often the farmer got each part, in all executions
    lost,      \* responses that were lost after Meta had accepted
    trouble,   \* did a request or a storage operation fail in this execution?
    crashes

message == <<kind, text>>
environment == <<kind, text, window, stamp, later, market>>
understood == <<said, extraction>>
vars == <<kind, text, window, stamp, later, market, stage, said, extraction, media, open,
          attempt, hung, runs, outcome, accepted, received, lost, trouble, crashes>>

Parts == {"text", "audio", "template"}
Stages == {"idle", "extract", "lookup", "render", "dispatch"} \cup Parts

DeliveryTypeOK ==
    /\ kind \in {"text", "audio", "image"}
    /\ text \in Texts
    /\ window \in BOOLEAN /\ stamp \in BOOLEAN
    /\ later \in BOOLEAN /\ market \in BOOLEAN
    /\ said \in RawExtractions
    /\ extraction = IntelligenceOutput(said)
    /\ stage \in Stages
    /\ media \in BOOLEAN /\ open \in BOOLEAN /\ hung \in BOOLEAN
    /\ attempt \in 0..MaxPosts
    /\ runs \in 0..MaxRuns
    /\ outcome \in {"none", "returned", "raised", "died"}
    /\ accepted \subseteq Parts
    /\ received \in [Parts -> Nat]
    /\ lost \in 0..MaxLost
    /\ trouble \in BOOLEAN
    /\ crashes \in 0..MaxCrashes

NoText == [blank |-> TRUE, variety |-> {}, number |-> Nothing]

\* The message was just accepted. A webhook that Meta delivers again, after a refusal, a
\* failure or a lost response, is stamped when it gets through: the message is older then,
\* its window perhaps closed.
Init ==
    /\ kind \in {"text", "audio", "image"}
    /\ text \in Texts
    /\ kind # "text" => text = NoText
    /\ stamp = TRUE
    /\ later \in BOOLEAN
    /\ window \in (IF later THEN BOOLEAN ELSE {TRUE})
    /\ said = Empty /\ extraction = IntelligenceOutput(Empty)
    /\ market \in BOOLEAN
    /\ stage = "idle"
    /\ media = FALSE /\ open = FALSE /\ hung = FALSE
    /\ attempt = 0
    /\ runs = 0
    /\ outcome = "none"
    /\ accepted = {}
    /\ received = [p \in Parts |-> 0]
    /\ lost = 0
    /\ trouble = FALSE
    /\ crashes = 0

---------------------------------------------------------------------------
execution == <<stage, said, extraction, media, open, attempt, hung, runs, outcome, accepted,
               received, lost, trouble, crashes>>

\* 24 hours pass after the farmer's message.
WindowCloses ==
    /\ window
    /\ window' = FALSE
    /\ stamp' = (stamp /\ later)
    /\ UNCHANGED <<message, later, market, execution>>

\* 24 hours pass after an acceptance that was late, or after a replay.
StampExpires ==
    /\ stamp /\ ~window
    /\ stamp' = FALSE
    /\ UNCHANGED <<message, window, later, market, execution>>

\* replay_from_event puts the message back into the inbox, enqueued_at now.
\* (replay_dead_letter keeps the enqueued_at of the original.)
Restamp ==
    /\ stage = "idle"
    /\ stamp' = TRUE /\ later' = TRUE
    /\ UNCHANGED <<message, window, market, execution>>

\* A snapshot is published, or an empty one in its place.
MarketChanges ==
    /\ stage = "idle"
    /\ market' = ~market
    /\ UNCHANGED <<message, window, stamp, later, execution>>

---------------------------------------------------------------------------
Fault == trouble' = TRUE

Goto(s) == stage' = s /\ hung' = FALSE /\ UNCHANGED outcome

\* The execution ends: it returns, or raises to the job.
End(how) == stage' = "idle" /\ hung' = FALSE /\ outcome' = how

Begin ==
    /\ stage = "idle"
    /\ runs < MaxRuns
    /\ runs' = runs + 1
    /\ stage' = "extract" /\ outcome' = "none"
    /\ media' = FALSE /\ open' = FALSE /\ attempt' = 0 /\ accepted' = {} /\ trouble' = FALSE
    /\ UNCHANGED <<environment, understood, hung, received, lost, crashes>>

Understand(raw) == said' = raw /\ extraction' = IntelligenceOutput(raw)

\* The clarification branch: a question goes out in place of advice.
NeedsClarification(output) ==
    output.intent = "CLARIFICATION_NEEDED" \/ output.missing_fields # {}

\* generate_content has no timeout: the model may not answer for as long as it likes.
ModelHangs ==
    /\ stage = "extract"
    /\ kind = "audio" \/ (kind = "text" /\ ~text.blank)
    /\ ~hung /\ hung' = TRUE
    /\ UNCHANGED <<environment, understood, stage, media, open, attempt, runs, outcome, accepted,
                   received, lost, trouble, crashes>>

\* Stages 1 and 2. Only the load of a stored voice note can make the extraction raise.
Extract ==
    /\ stage = "extract"
    /\ \/ /\ \E raw \in ProcessInput(kind, text) :
             IF NeedsClarification(IntelligenceOutput(raw))
             THEN Goto("render") /\ UNCHANGED understood
             ELSE Goto("lookup") /\ Understand(raw)
          /\ UNCHANGED trouble
       \/ kind = "audio" /\ Fault /\ End("raised") /\ UNCHANGED understood
    /\ UNCHANGED <<environment, media, open, attempt, runs, accepted, received, lost, crashes>>

\* The offer as the pipeline puts it to the engine, with a value of its own for a field
\* that is not there: one rupee for a price that is missing or 0.
Offer(output) ==
    [variety |-> IF output.variety = None THEN "Finger" ELSE output.variety,
     price |-> IF output.offered_price \in {NoPrice, 0} THEN 100 ELSE output.offered_price]

\* Stages 3 and 4: the snapshot reader raises when the store does, and the engine
\* raises on the empty snapshot (Raised of DecisionEngine), which is all there is for
\* a crop or a district that is not ingested.
Lookup ==
    /\ stage = "lookup"
    /\ \/ market /\ ~extraction.elsewhere /\ Goto("render") /\ UNCHANGED trouble
       \/ (~market \/ extraction.elsewhere) /\ End("raised") /\ UNCHANGED trouble
       \/ Fault /\ End("raised")
    /\ Understand(Empty)
    /\ UNCHANGED <<environment, media, open, attempt, runs, accepted, received, lost, crashes>>

\* Mutant: a failed synthesis raises.
RenderOrRaise ==
    /\ stage = "render"
    /\ \/ media' = (kind = "audio") /\ Goto("dispatch")
       \/ kind = "audio" /\ End("raised") /\ UNCHANGED media
    /\ UNCHANGED <<environment, understood, open, attempt, runs, accepted, received, lost, trouble,
                   crashes>>

\* Stage 5: a voice note is answered with one, unless its synthesis or its upload
\* fails or times out: then with the text alone.
Render ==
    /\ stage = "render"
    /\ media' \in {FALSE, kind = "audio"}
    /\ Goto("dispatch")
    /\ UNCHANGED <<environment, understood, open, attempt, runs, accepted, received, lost, trouble,
                   crashes>>

\* Mutant: the voice note goes out first.
DispatchAudioFirst ==
    /\ stage = "dispatch"
    /\ Goto(IF ~stamp THEN "template" ELSE IF media THEN "audio" ELSE "text")
    /\ open' = window
    /\ UNCHANGED <<environment, understood, media, attempt, runs, accepted, received, lost, trouble,
                   crashes>>

\* Mutant: without a usable time stamp, or with an old one, the window counts as open.
DispatchFreeForm ==
    /\ stage = "dispatch"
    /\ Goto("text")
    /\ open' = window
    /\ UNCHANGED <<environment, understood, media, attempt, runs, accepted, received, lost, trouble,
                   crashes>>

\* send_message looks at the window once, through enqueued_at.
Dispatch ==
    /\ stage = "dispatch"
    /\ Goto(IF stamp THEN "text" ELSE "template")
    /\ open' = window
    /\ UNCHANGED <<environment, understood, media, attempt, runs, accepted, received, lost, trouble,
                   crashes>>

\* Meta accepts the part, and the farmer gets it.
Accept(p) ==
    /\ accepted' = accepted \cup {p}
    /\ received' = [received EXCEPT ![p] = @ + 1]

\* After the text, the voice note; after that, the end.
Proceed(p) == IF p = "text" /\ media THEN Goto("audio") ELSE End("returned")

\* Mutant: the part is posted again although Meta accepted it.
PostTwice(p) ==
    /\ stage = p
    /\ Accept(p)
    /\ attempt' = attempt + 1
    /\ IF attempt' < MaxPosts THEN Goto(p) ELSE Proceed(p)
    /\ UNCHANGED <<environment, understood, media, open, runs, lost, trouble, crashes>>

\* A post with response 200.
Post(p) ==
    /\ stage = p
    /\ Accept(p)
    /\ attempt' = 0
    /\ Proceed(p)
    /\ UNCHANGED <<environment, understood, media, open, runs, lost, trouble, crashes>>

\* Mutant: the count of the retries starts over.
RetryOrRaiseForever(long) ==
    attempt' = (attempt + 1) % MaxPosts /\ hung' = long /\ UNCHANGED <<stage, outcome>>

\* The loop of _post_with_retry after a failed post: a sleep, long or not, and again.
RetryOrRaise(long) ==
    \/ /\ attempt + 1 < MaxPosts
       /\ attempt' = attempt + 1 /\ hung' = long
       /\ UNCHANGED <<stage, outcome>>
    \/ attempt + 1 = MaxPosts /\ attempt' = 0 /\ End("raised")

\* Mutant: after the last retry the part is given up and the next one sent.
PostRefusedQuietly(p) ==
    /\ stage = p
    /\ Fault
    /\ IF attempt + 1 < MaxPosts
       THEN attempt' = attempt + 1 /\ UNCHANGED <<stage, hung, outcome>>
       ELSE attempt' = 0 /\ Proceed(p)
    /\ UNCHANGED <<environment, understood, media, open, runs, accepted, received, lost, crashes>>

\* Response 429 or 5xx, or the request does not get through. The sleep after a 429 is as
\* long as its Retry-After says, which nothing limits.
PostRefused(p) ==
    /\ stage = p
    /\ Fault
    /\ \E long \in BOOLEAN : RetryOrRaise(long)
    /\ UNCHANGED <<environment, understood, media, open, runs, accepted, received, lost, crashes>>

\* Meta accepts, and the response does not get through, times out, or is a 5xx all the same.
PostUnanswered(p) ==
    /\ stage = p
    /\ lost < MaxLost /\ lost' = lost + 1
    /\ Fault
    /\ Accept(p)
    /\ RetryOrRaise(FALSE)
    /\ UNCHANGED <<environment, understood, media, open, runs, crashes>>

\* Response 4xx, a Retry-After that is no number, or a 200 whose body cannot be read: no retry.
PostRejected(p) ==
    /\ stage = p
    /\ Fault
    /\ Accept(p) \/ UNCHANGED <<accepted, received>>
    /\ attempt' = 0
    /\ End("raised")
    /\ UNCHANGED <<environment, understood, media, open, runs, lost, crashes>>

\* The process is gone, and with it all that it knew.
Die ==
    /\ stage # "idle"
    /\ attempt' = 0
    /\ End("died")
    /\ Understand(Empty)
    /\ UNCHANGED <<environment, media, open, runs, accepted, received, lost, trouble>>

\* The worker dies.
Crash == crashes < MaxCrashes /\ crashes' = crashes + 1 /\ Die

\* The platform kills a job that is at work for five minutes.
Kill == hung /\ Die /\ UNCHANGED crashes

---------------------------------------------------------------------------
PostSomehow(p) == Post(p) \/ PostRefused(p) \/ PostUnanswered(p) \/ PostRejected(p)

PipelineStep ==
    \/ Extract \/ Lookup \/ Render \/ Dispatch
    \/ \E p \in Parts : PostSomehow(p)

Next ==
    \/ WindowCloses \/ StampExpires \/ Restamp \/ MarketChanges
    \/ Begin \/ PipelineStep \/ ModelHangs \/ Crash \/ Kill

Spec == Init /\ [][Next]_vars

\* An execution goes on while it waits for nothing that may not come; where it hangs, the
\* platform's time limit ends it.
FairSpec == Spec /\ WF_vars(~hung /\ PipelineStep) /\ WF_vars(Kill)

---------------------------------------------------------------------------
\* When the pipeline returns, everything of this reply was accepted by Meta: the
\* job may delete the inbox blob (RunPipeline and Complete of Reconciliation).
ReturnedMeansAccepted ==
    outcome = "returned" =>
        \/ "template" \in accepted
        \/ "text" \in accepted /\ (media => "audio" \in accepted)

\* A voice note never comes without the text it reads out: whichever part of a reply fails,
\* an execution whose voice note Meta accepted had its own text accepted before.
AudioFollowsText == "audio" \in accepted => "text" \in accepted

\* A farmer gets a part twice only when the job ran the pipeline again or a response
\* was lost: no other retry posts what Meta had accepted.
CopiesAccounted == \A p \in Parts : received[p] <= runs + lost

\* The trouble of the voice synthesis never costs the reply, nor does an answer of the
\* model that makes no sense: an execution that fails had no snapshot for what was
\* asked, or a request or a storage operation that failed.
FailureHasCause ==
    [][outcome' = "raised" /\ outcome # "raised"
          => ~market \/ extraction.elsewhere \/ trouble']_vars

\* What the engine judges was read in the answer of the model or in the text: neither of the
\* two values the pipeline has for missing fields (a Finger, a price of 1) ever gets to it,
\* whatever the model answers, be it no price, one without digits or one too small to be
\* anything but 0 in paise. Validator, contract and clarification branch together see to
\* it. (What was read need not be what was meant: any part of an alias is a variety, and of
\* "Rs. 14200" the price is .14200.)
EngineGetsWhatWasRead ==
    stage = "lookup" =>
        /\ Offer(extraction).variety \in said.variety.alias \cup said.variety.part
        /\ Offer(extraction).price = NormalizePrice(said.offered_price)

\* Every execution comes to an end: the model may be silent and Meta ask for any delay, and
\* the platform ends that, but an execution that is answered ends by itself, as the
\* retries of the parts are bounded whatever the answers are.
ExecutionEnds == stage # "idle" ~> stage = "idle"

\* A free-form part only gets to the farmer from an execution that found the window open,
\* unless enqueued_at is not the time of the message: it was accepted late, or replayed
\* from its event. However long the message waited and however often it was tried, the
\* window is not stretched by more than what one execution takes after it looked.
FreeFormWasInWindow ==
    [][\A p \in {"text", "audio"} : received'[p] > received[p] => open \/ later]_vars
===========================================================================
