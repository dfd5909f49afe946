-------------------------- MODULE DecisionEngine --------------------------
(***************************************************************************)
(* The decision engine (src/src/decision_engine/engine.py), a pure         *)
(* function from an offer and a market snapshot to a recommendation, and a *)
(* farmer who asks again and again while the offer and the market change.  *)
(* The steps of that session put neighbouring inputs side by side, which   *)
(* is what its properties compare.                                         *)
(*                                                                         *)
(* Units, fine enough for every constant of the code: prices in rupees,    *)
(* ratios in 1/10000, extraction confidence in percent, volatility in      *)
(* tenths of a percent, scores in thousandths of a point until they are    *)
(* rounded to tenths. Ties are rounded up.                                 *)
(***************************************************************************)
EXTENDS Integers, FiniteSets

CONSTANTS
    Prices,        \* offered prices
    Extractions,   \* extraction confidences
    DateCounts,    \* numbers of distinct observation dates
    Volatilities,  \* volatilities of the snapshot
    Reference      \* the median of every snapshot that has observations

ASSUME EngineAssumption ==
    /\ Prices \subseteq Nat \ {0}
    /\ Extractions \subseteq 0..100
    /\ DateCounts \subseteq Nat \ {0}
    /\ Volatilities \subseteq Nat
    /\ Reference \in Nat \ {0}

VARIABLES offer, snapshot, verdict

vars == <<offer, snapshot, verdict>>

Freshness == {"FRESH", "STALE", "INSUFFICIENT", "UNAVAILABLE"}

\* The variety of the offer against that of the snapshot.
Varieties == {"missing", "mismatch", "match"}

Offers == [price : Prices, variety : Varieties, extraction : Extractions]

\* What the data layer publishes, and what evaluate_legacy makes up (FRESH with
\* any number of dates). It holds an observation per date at least.
Published ==
    {s \in [freshness : {"FRESH", "STALE", "INSUFFICIENT"}, dates : DateCounts,
            median : {Reference}, volatility : Volatilities] :
        s.freshness = "INSUFFICIENT" => s.dates < 3}

NoData == [freshness |-> "UNAVAILABLE", dates |-> 0, median |-> 0, volatility |-> 0]

Snapshots == Published \cup {NoData}

Lower(x, y) == IF x < y THEN x ELSE y
Higher(x, y) == IF x > y THEN x ELSE y

\* round(x, 1), from thousandths to tenths.
Tenths(x) == (x + 50) \div 100

---------------------------------------------------------------------------
\* round(offered price / reference price, 4)
Ratio(o, s) == (20000 * o.price + s.median) \div (2 * s.median)

SellThreshold == 9000
NegotiateThreshold == 8000
MinExtraction == 60
HighVolatility == 150
ElevatedVolatility == 100

\* The evidence gate: the checks that fail.
GateFailures(o, s) ==
    {check \in {"variety", "freshness", "dates", "extraction", "volatility"} :
        \/ check = "variety" /\ o.variety # "match"
        \/ check = "freshness" /\ s.freshness \in {"INSUFFICIENT", "UNAVAILABLE"}
        \/ check = "dates" /\ s.dates < 1
        \/ check = "extraction" /\ o.extraction < MinExtraction
        \/ check = "volatility" /\ s.volatility > HighVolatility}

GatePassed(o, s) == GateFailures(o, s) = {}

\* Mutant: no cap on stale data.
CapsWithoutStale(s) ==
    {c \in {500, 600, 700} :
        \/ c = 500 /\ s.dates = 1
        \/ c = 600 /\ s.dates = 2
        \/ c = 700 /\ s.volatility > ElevatedVolatility}

\* Mutant: no cap on a single date.
CapsWithoutSingle(s) ==
    {c \in {600, 650, 700} :
        \/ c = 600 /\ s.dates = 2
        \/ c = 650 /\ s.freshness = "STALE"
        \/ c = 700 /\ s.volatility > ElevatedVolatility}

\* caps_applied, by the confidence they allow: SINGLE_DATE_CAP_50,
\* LIMITED_DATES_CAP_60, STALE_DATA_CAP_65 and HIGH_VOLATILITY_CAP_70.
Caps(s) ==
    {c \in {500, 600, 650, 700} :
        \/ c = 500 /\ s.dates = 1
        \/ c = 600 /\ s.dates = 2
        \/ c = 650 /\ s.freshness = "STALE"
        \/ c = 700 /\ s.volatility > ElevatedVolatility}

Action(o, s) ==
    IF ~GatePassed(o, s) THEN "WAIT"
    ELSE IF Ratio(o, s) >= SellThreshold THEN "SELL"
    ELSE IF Ratio(o, s) >= NegotiateThreshold THEN "NEGOTIATE"
    ELSE "HOLD"

\* Mutant: the slope of the band below it.
OfferScoreSteep(q) ==
    IF q >= 10000 THEN Lower(100000, 90000 + (q - 10000) * 10)
    ELSE IF q >= SellThreshold THEN 75000 + (q - 9000) * 14
    ELSE IF q >= NegotiateThreshold THEN 50000 + (q - 8000) * 28
    ELSE IF q >= 7000 THEN 25000 + (q - 7000) * 24
    ELSE (q * 24) \div 7

\* offer_score, piecewise linear in the ratio.
OfferScore(q) ==
    IF q >= 10000 THEN Lower(100000, 90000 + (q - 10000) * 10)
    ELSE IF q >= SellThreshold THEN 75000 + (q - 9000) * 14
    ELSE IF q >= NegotiateThreshold THEN 50000 + (q - 8000) * 24
    ELSE IF q >= 7000 THEN 25000 + (q - 7000) * 24
    ELSE (q * 24) \div 7

FreshScore(s) ==
    IF s.freshness = "FRESH" THEN 100000 ELSE IF s.freshness = "STALE" THEN 60000 ELSE 0

DateScore(s) ==
    IF s.dates >= 7 THEN 100000
    ELSE IF s.dates >= 5 THEN 85000
    ELSE IF s.dates >= 3 THEN 70000
    ELSE IF s.dates >= 2 THEN 50000
    ELSE 25000

\* stability_score and c_stab: 100 less `weight` points per percent of volatility.
Stability(s, weight) == Higher(0, 100000 - s.volatility * weight * 100)

EvidenceScore(o, s) ==
    Tenths((FreshScore(s) + DateScore(s) + o.extraction * 1000 + Stability(s, 5)) \div 4)

DecisionScore(o, s) ==
    Tenths((6 * OfferScore(Ratio(o, s)) + 400 * EvidenceScore(o, s)) \div 10)

\* The crop and variety match (c_comp) whenever the gate was passed.
RawConfidence(o, s) ==
    (FreshScore(s) + DateScore(s) + 100000 + Stability(s, 4) + o.extraction * 1000) \div 5

\* The least of the raw confidence and the caps.
Confidence(o, s) ==
    IF ~GatePassed(o, s) THEN 0
    ELSE CHOOSE c \in {Tenths(RawConfidence(o, s))} \cup Caps(s) :
            \A d \in {Tenths(RawConfidence(o, s))} \cup Caps(s) : c <= d

Band(confidence) ==
    IF confidence >= 800 THEN "HIGH" ELSE IF confidence >= 600 THEN "MEDIUM" ELSE "LOW"

RiskFactors(o, s) ==
    {f \in {"volatility", "stale", "dates", "extraction"} :
        \/ f = "volatility" /\ s.volatility > 70
        \/ f = "stale" /\ s.freshness = "STALE"
        \/ f = "dates" /\ s.dates < 3
        \/ f = "extraction" /\ o.extraction < 85}

Risk(o, s) ==
    IF Cardinality(RiskFactors(o, s)) >= 2 \/ s.volatility > 100 \/ ~GatePassed(o, s)
    THEN "HIGH"
    ELSE IF RiskFactors(o, s) # {} \/ s.volatility > 40 THEN "MEDIUM" ELSE "LOW"

\* evaluate raises DecisionEngineError, whatever the gate said.
Raised == [action |-> "RAISED", score |-> 0, confidence |-> 0, risk |-> "HIGH", offerScore |-> 0]

Evaluate(o, s) ==
    IF o.price <= 0 \/ s.median <= 0 THEN Raised
    ELSE [action |-> Action(o, s),
          score |-> DecisionScore(o, s),
          confidence |-> Confidence(o, s),
          risk |-> Risk(o, s),
          offerScore |-> Tenths(OfferScore(Ratio(o, s)))]

---------------------------------------------------------------------------
Init ==
    /\ offer \in Offers
    /\ snapshot \in Snapshots
    /\ verdict = Evaluate(offer, snapshot)

Ask(o, s) ==
    /\ offer' = o
    /\ snapshot' = s
    /\ verdict' = Evaluate(o, s)

\* The farmer asks again, with another price, variety or wording, or after another
\* snapshot was published.
Requote == \E p \in Prices : Ask([offer EXCEPT !.price = p], snapshot)

Rename == \E v \in Varieties : Ask([offer EXCEPT !.variety = v], snapshot)

Rephrase == \E e \in Extractions : Ask([offer EXCEPT !.extraction = e], snapshot)

Republish ==
    \E s \in Snapshots :
        /\ \/ s = NoData \/ snapshot = NoData
           \/ s.dates = snapshot.dates /\ s.freshness = snapshot.freshness
           \/ s.dates = snapshot.dates /\ s.volatility = snapshot.volatility
           \/ s.freshness = snapshot.freshness /\ s.volatility = snapshot.volatility
        /\ Ask(offer, s)

Next == Requote \/ Rename \/ Rephrase \/ Republish

Spec == Init /\ [][Next]_vars

---------------------------------------------------------------------------
Actions == {"RAISED", "WAIT", "HOLD", "NEGOTIATE", "SELL"}

EngineTypeOK ==
    /\ offer \in Offers
    /\ snapshot \in Snapshots
    /\ verdict \in [action : Actions, score : 0..1000, confidence : 0..1000,
                    risk : {"LOW", "MEDIUM", "HIGH"}, offerScore : 0..1000]

Rank(action) ==
    CASE action = "HOLD" -> 1 [] action = "NEGOTIATE" -> 2 [] action = "SELL" -> 3 [] OTHER -> 0

\* With everything else the same, a better price never makes the recommendation or
\* the score worse: the bands of the offer score meet without a drop.
BetterOfferNeverWorse ==
    [][(/\ snapshot' = snapshot
        /\ offer'.variety = offer.variety /\ offer'.extraction = offer.extraction
        /\ offer'.price >= offer.price)
       => /\ Rank(verdict'.action) >= Rank(verdict.action)
          /\ verdict'.score >= verdict.score]_vars

RiskRank(risk) == CASE risk = "LOW" -> 1 [] risk = "MEDIUM" -> 2 [] risk = "HIGH" -> 3

\* Evidence (o2, s2) is no better than (o1, s1).
FreshRank(f) == CASE f = "FRESH" -> 2 [] f = "STALE" -> 1 [] OTHER -> 0

NoBetter(o2, s2, o1, s1) ==
    /\ o2.price = o1.price
    /\ o2.variety = o1.variety \/ o1.variety = "match"
    /\ o2.extraction <= o1.extraction
    /\ FreshRank(s2.freshness) <= FreshRank(s1.freshness)
    /\ s2.dates <= s1.dates
    /\ s2.volatility >= s1.volatility

\* With the same offer, weaker evidence never raises the confidence or lowers the
\* risk, and never turns WAIT into advice: thresholds, caps and components pull the
\* same way in every combination. (Both snapshots have observations.)
WeakerEvidenceNeverBolder ==
    [][(/\ NoData \notin {snapshot, snapshot'}
        /\ NoBetter(offer', snapshot', offer, snapshot))
       => /\ verdict'.confidence <= verdict.confidence
          /\ RiskRank(verdict'.risk) >= RiskRank(verdict.risk)
          /\ verdict.action = "WAIT" => verdict'.action = "WAIT"]_vars

\* The three gradings agree, though each has thresholds of its own: a HIGH band
\* takes fresh data of three dates with moderate volatility, and a LOW risk comes
\* with a HIGH band.
GradesAgree ==
    /\ Band(verdict.confidence) = "HIGH" =>
         /\ snapshot.freshness = "FRESH" /\ snapshot.dates >= 3
         /\ snapshot.volatility <= ElevatedVolatility
    /\ verdict.risk = "LOW" => Band(verdict.confidence) = "HIGH"

\* The offer score tells the same story as the action, from its own thresholds.
ScoreMatchesAction ==
    /\ verdict.action = "SELL" => verdict.offerScore >= 750
    /\ verdict.action = "NEGOTIATE" => verdict.offerScore \in 500..749
    /\ verdict.action = "HOLD" => verdict.offerScore < 500

\* Without usable market data the recommendation is WAIT (the docstring of
\* test_evidence_gate_unavailable_or_insufficient_freshness: "INSUFFICIENT or
\* UNAVAILABLE freshness must trigger WAIT").
NoDataMeansWait ==
    snapshot.freshness \in {"INSUFFICIENT", "UNAVAILABLE"} => verdict.action = "WAIT"
===========================================================================
