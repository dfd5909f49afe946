---------------------------- MODULE Extraction -----------------------------
(***************************************************************************)
(* What becomes of the answer of the language model: the adapter           *)
(* (src/src/intelligence/adapter.py), the validator behind it              *)
(* (src/src/intelligence/validator.py) and the contract it builds          *)
(* (src/src/contracts/v1/intelligence.py). The model may answer anything,  *)
(* or nothing; what it reads in a text is not for a specification to say.  *)
(***************************************************************************)
EXTENDS Integers

CONSTANTS
    Prices,   \* prices as they are written in answers
    Numbers,  \* those that are nothing but four to six digits, as the heuristic takes
              \* them from a text, and what stands for none
    Kept      \* the number that the digits and points of a price make, in 1/1000 rupee

\* No digits are left, or they are no number, as with two points between them.
NoNumber == -1

\* Prices of half a paisa, which Python rounds by their binary value, are left out.
ASSUME ExtractionAssumption ==
    /\ Kept \in [Prices -> Nat \cup {NoNumber}]
    /\ \A p \in Prices : Kept[p] % 10 # 5
    /\ Numbers \subseteq Prices
    /\ \A p \in Numbers : Kept[p] \in {NoNumber, 0} \/ Kept[p] >= 1000
    /\ \E p \in Numbers : Kept[p] = NoNumber

Varieties == {"Finger", "Bulb"}

None == "None"

Nothing == CHOOSE p \in Numbers : Kept[p] = NoNumber

\* A field "variety": the varieties it has an alias of, and those of whose aliases it is
\* a part ("Erode", "sort" or the Tamil word for turmeric). One that has an alias in it
\* is part of no alias of the other variety.
VarietyFields ==
    {f \in [alias : SUBSET Varieties, part : SUBSET Varieties] : f.alias = {} \/ f.part = {}}

Blank == [alias |-> {}, part |-> {}]

Naming(variety) == [alias |-> {variety}, part |-> {}]

\* A raw extraction: its variety, its price, whether its confidence can be read as a
\* number, and whether it names a crop or a district that no snapshot is published for.
RawExtractions ==
    [variety : VarietyFields, offered_price : Prices, readable : BOOLEAN, elsewhere : BOOLEAN]

\* A dictionary without fields: no JSON, or the request for a clarification.
Empty == [variety |-> Blank, offered_price |-> Nothing, readable |-> TRUE, elsewhere |-> FALSE]

\* A text as the heuristic sees it: the varieties it has a word for, and its first
\* number of four to six digits.
Texts ==
    {t \in [blank : BOOLEAN, variety : SUBSET Varieties, number : Numbers] :
        t.blank => t.variety = {} /\ t.number = Nothing}

---------------------------------------------------------------------------
\* The aliases of Finger come first in the map. To be part of an alias is as good as to
\* have one.
FirstOf(mentioned) ==
    IF "Finger" \in mentioned THEN "Finger"
    ELSE IF "Bulb" \in mentioned THEN "Bulb" ELSE None

NormalizeVariety(field) == FirstOf(field.alias \cup field.part)

\* No price, in an output.
NoPrice == -1

\* What is left of a price but digits and points, to the paisa. A price of less than half
\* a paisa is positive and becomes 0.
NormalizePrice(price) ==
    IF Kept[price] <= 0 THEN NoPrice ELSE (Kept[price] + 5) \div 10

\* The fields that are required and not there.
MissingFrom(variety, price) ==
    {f \in {"variety", "offered_price"} :
        (f = "variety" /\ variety = None) \/ (f = "offered_price" /\ price = NoPrice)}

Missing(raw) == MissingFrom(NormalizeVariety(raw.variety), NormalizePrice(raw.offered_price))

IntentFor(missing) == IF missing = {} THEN "PRICE_EVALUATION" ELSE "CLARIFICATION_NEEDED"

\* DeterministicValidator.validate. The intent the model gave is not looked at.
Validate(raw) ==
    [variety |-> NormalizeVariety(raw.variety),
     offered_price |-> NormalizePrice(raw.offered_price),
     intent |-> IntentFor(Missing(raw)),
     missing_fields |-> Missing(raw),
     elsewhere |-> raw.elsewhere]

\* Mutant: the contract takes a price of 0.
RaisesUnread(raw) == Missing(raw) = {} /\ ~raw.readable

\* validate raises: float() of the confidence does, which it only gets to with nothing
\* missing, or the contract refuses a price of 0, which is not missing.
Raises(raw) ==
    \/ Missing(raw) = {} /\ ~raw.readable
    \/ NormalizePrice(raw.offered_price) = 0

\* The validator of the contract has the last word on the intent.
Contracted(output) ==
    LET missing == output.missing_fields \cup
                       (IF output.intent = "PRICE_EVALUATION"
                        THEN MissingFrom(output.variety, output.offered_price) ELSE {})
    IN  [variety |-> output.variety,
         offered_price |-> output.offered_price,
         intent |-> IF missing = {} THEN output.intent ELSE "CLARIFICATION_NEEDED",
         missing_fields |-> missing,
         elsewhere |-> output.elsewhere]

IntelligenceOutput(raw) == Contracted(Validate(raw))

---------------------------------------------------------------------------
\* _heuristic_extraction: what the text itself says.
Heuristic(text) ==
    [variety |-> IF text.variety = {} THEN Blank ELSE Naming(FirstOf(text.variety)),
     offered_price |-> text.number, readable |-> TRUE, elsewhere |-> FALSE]

Answers == {raw \in RawExtractions : ~Raises(raw)}

\* What extract_from_text hands to the validator: the model's answer, or the text's own
\* words when there is no model, it fails, or its answer raises.
ExtractFromText(text) == IF text.blank THEN {Empty} ELSE Answers \cup {Heuristic(text)}

\* What extract_from_audio does: there is nothing to fall back to, and the voice note may
\* be empty or not to be had.
ExtractFromAudio == Answers \cup {Empty}

\* process_input; a message of another kind is never understood.
ProcessInput(kind, text) ==
    IF kind = "text" THEN ExtractFromText(text)
    ELSE IF kind = "audio" THEN ExtractFromAudio ELSE {Empty}
===========================================================================
