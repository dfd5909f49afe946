--------------------------- MODULE EngineProofs ---------------------------
(***************************************************************************)
(* The properties of the decision engine for every set of prices,          *)
(* extraction confidences, date counts and volatilities, and every         *)
(* reference price. The state is always an input and its evaluation        *)
(* (EngineInv); the rest is arithmetic about Evaluate.                     *)
(***************************************************************************)
EXTENDS DecisionEngine, FiniteSetTheorems, TLAPS

EngineInv ==
    /\ offer \in Offers
    /\ snapshot \in Snapshots
    /\ verdict = Evaluate(offer, snapshot)

LEMMA EngineInvHolds == Spec => []EngineInv
<1>1. Init => EngineInv
  BY DEF Init, EngineInv
<1>2. EngineInv /\ [Next]_vars => EngineInv'
  <2> SUFFICES ASSUME EngineInv, [Next]_vars PROVE EngineInv'
    OBVIOUS
  <2>1. CASE UNCHANGED vars
    BY <2>1 DEF vars, EngineInv
  <2>2. ASSUME NEW p \in Prices, Ask([offer EXCEPT !.price = p], snapshot) PROVE EngineInv'
    <3>1. [offer EXCEPT !.price = p] \in Offers
      BY Zenon DEF EngineInv, Offers
    <3>2. QED
      BY <2>2, <3>1, Zenon DEF EngineInv, Ask
  <2>3. ASSUME NEW v \in Varieties, Ask([offer EXCEPT !.variety = v], snapshot)
        PROVE  EngineInv'
    <3>1. [offer EXCEPT !.variety = v] \in Offers
      BY Zenon DEF EngineInv, Offers
    <3>2. QED
      BY <2>3, <3>1, Zenon DEF EngineInv, Ask
  <2>4. ASSUME NEW e \in Extractions, Ask([offer EXCEPT !.extraction = e], snapshot)
        PROVE  EngineInv'
    <3>1. [offer EXCEPT !.extraction = e] \in Offers
      BY Zenon DEF EngineInv, Offers
    <3>2. QED
      BY <2>4, <3>1, Zenon DEF EngineInv, Ask
  <2>5. ASSUME NEW s \in Snapshots, Ask(offer, s) PROVE EngineInv'
    BY <2>5 DEF EngineInv, Ask
  <2>6. QED
    BY <2>1, <2>2, <2>3, <2>4, <2>5, Zenon DEF Next, Requote, Rename, Rephrase, Republish
<1>3. QED
  BY <1>1, <1>2, PTL DEF Spec

---------------------------------------------------------------------------
\* The ranges of the inputs.
LEMMA OfferRange ==
    ASSUME NEW o \in Offers
    PROVE  /\ o.price \in Nat /\ o.price > 0
           /\ o.extraction \in Nat /\ o.extraction <= 100
           /\ o.variety \in Varieties
<1>1. o.price \in Prices /\ o.extraction \in Extractions /\ o.variety \in Varieties
  BY DEF Offers
<1>2. o.price \in Nat \ {0}
  BY <1>1, EngineAssumption
<1>3. o.extraction \in 0..100
  BY <1>1, EngineAssumption, Zenon
<1>4. QED
  BY <1>1, <1>2, <1>3

LEMMA SnapshotRange ==
    ASSUME NEW s \in Snapshots
    PROVE  /\ s.dates \in Nat /\ s.median \in Nat /\ s.volatility \in Nat
           /\ s.freshness \in Freshness
           /\ s # NoData => s.dates >= 1 /\ s.median > 0 /\ s.freshness # "UNAVAILABLE"
           /\ s = NoData => s.median = 0
<1>1. CASE s \in Published
  <2>1. /\ s.freshness \in {"FRESH", "STALE", "INSUFFICIENT"}
        /\ s.dates \in DateCounts /\ s.median = Reference /\ s.volatility \in Volatilities
    BY <1>1 DEF Published
  <2>2. DateCounts \subseteq Nat \ {0} /\ Volatilities \subseteq Nat /\ Reference \in Nat \ {0}
    BY EngineAssumption
  <2>3. s # NoData
    BY <2>1 DEF NoData
  <2>4. s.freshness \in Freshness /\ s.freshness # "UNAVAILABLE"
    BY <2>1 DEF Freshness
  <2>5. /\ s.dates \in Nat /\ s.dates >= 1
        /\ s.median \in Nat /\ s.median > 0
        /\ s.volatility \in Nat
    <3>1. s.dates \in Nat \ {0} /\ s.median \in Nat \ {0} /\ s.volatility \in Nat
      BY <2>1, <2>2, Zenon
    <3>2. QED
      BY <3>1
  <2>6. QED
    BY <2>3, <2>4, <2>5, Zenon
<1>2. CASE s = NoData
  BY <1>2 DEF NoData, Freshness
<1>3. QED
  BY <1>1, <1>2 DEF Snapshots

LEMMA DivMonotone ==
    ASSUME NEW x \in Int, NEW y \in Int, NEW d \in Nat \ {0}, x <= y
    PROVE  x \div d <= y \div d
<1> DEFINE q == x \div d
           r == y \div d
<1>1. q \in Int /\ r \in Int /\ d * q <= x /\ y < d * r + d
  BY SMT
<1> HIDE DEF q, r
<1>2. SUFFICES ASSUME r + 1 <= q PROVE FALSE
  BY <1>1 DEF q, r
<1>3. d * (r + 1) <= d * q
  BY <1>1, <1>2
<1>4. QED
  BY <1>1, <1>3

LEMMA DivNat == ASSUME NEW x \in Nat, NEW d \in Nat \ {0} PROVE x \div d \in Nat
<1>1. 0 \div d = 0
  BY SMT
<1>2. 0 \div d <= x \div d /\ x \div d \in Int
  BY DivMonotone, SMT
<1>3. QED
  BY <1>1, <1>2

LEMMA RatioNat ==
    ASSUME NEW o \in Offers, NEW s \in Snapshots, s.median > 0
    PROVE  Ratio(o, s) \in Nat
<1>1. 20000 * o.price + s.median \in Nat /\ 2 * s.median \in Nat \ {0}
  BY OfferRange, SnapshotRange
<1>2. QED
  BY <1>1, DivNat DEF Ratio

\* The bands of the offer score meet without a drop.
LEMMA OfferScoreMonotone ==
    ASSUME NEW p \in Nat, NEW q \in Nat, p <= q
    PROVE  OfferScore(p) <= OfferScore(q)
  BY SMT DEF OfferScore, SellThreshold, NegotiateThreshold, Lower

LEMMA OfferScoreRange ==
    ASSUME NEW q \in Nat
    PROVE  OfferScore(q) \in Int /\ 0 <= OfferScore(q) /\ OfferScore(q) <= 100000
  BY SMT DEF OfferScore, SellThreshold, NegotiateThreshold, Lower

\* What the components of evidence and confidence add up to.
LEMMA ComponentRange ==
    ASSUME NEW o \in Offers, NEW s \in Snapshots
    PROVE  /\ FreshScore(s) \in Int /\ 0 <= FreshScore(s) /\ FreshScore(s) <= 100000
           /\ DateScore(s) \in Int /\ 25000 <= DateScore(s) /\ DateScore(s) <= 100000
           /\ Stability(s, 4) \in Int /\ 0 <= Stability(s, 4) /\ Stability(s, 4) <= 100000
           /\ Stability(s, 5) \in Int /\ 0 <= Stability(s, 5) /\ Stability(s, 5) <= 100000
           /\ o.extraction * 1000 \in Int /\ 0 <= o.extraction * 1000
           /\ o.extraction * 1000 <= 100000
<1>1. /\ s.dates \in Nat /\ s.volatility \in Nat
      /\ o.extraction \in Nat /\ o.extraction <= 100
  BY OfferRange, SnapshotRange
<1>2. QED
  BY <1>1, SMT DEF FreshScore, DateScore, Stability, Higher

LEMMA EvidenceRange ==
    ASSUME NEW o \in Offers, NEW s \in Snapshots
    PROVE  EvidenceScore(o, s) \in Int /\ 0 <= EvidenceScore(o, s) /\ EvidenceScore(o, s) <= 1000
<1> DEFINE F == FreshScore(s)
           D == DateScore(s)
           E == o.extraction * 1000
           V == Stability(s, 5)
<1>1. /\ F \in Int /\ 0 <= F /\ F <= 100000
      /\ D \in Int /\ 0 <= D /\ D <= 100000
      /\ E \in Int /\ 0 <= E /\ E <= 100000
      /\ V \in Int /\ 0 <= V /\ V <= 100000
  BY ComponentRange
<1>2. EvidenceScore(o, s) = ((F + D + E + V) \div 4 + 50) \div 100
  BY DEF EvidenceScore, Tenths
<1> HIDE DEF F, D, E, V
<1>3. QED
  BY <1>1, <1>2, SMT

LEMMA ScoreRange ==
    ASSUME NEW o \in Offers, NEW s \in Snapshots, s.median > 0
    PROVE  DecisionScore(o, s) \in Int /\ 0 <= DecisionScore(o, s) /\ DecisionScore(o, s) <= 1000
<1> DEFINE P == OfferScore(Ratio(o, s))
           E == EvidenceScore(o, s)
<1>1. P \in Int /\ 0 <= P /\ P <= 100000
  BY RatioNat, OfferScoreRange
<1>2. E \in Int /\ 0 <= E /\ E <= 1000
  BY EvidenceRange
<1>3. DecisionScore(o, s) = ((6 * P + 400 * E) \div 10 + 50) \div 100
  BY DEF DecisionScore, Tenths
<1> HIDE DEF P, E
<1>4. QED
  BY <1>1, <1>2, <1>3, SMT

LEMMA RawRange ==
    ASSUME NEW o \in Offers, NEW s \in Snapshots
    PROVE  /\ Tenths(RawConfidence(o, s)) \in Int
           /\ 0 <= Tenths(RawConfidence(o, s)) /\ Tenths(RawConfidence(o, s)) <= 1000
<1> DEFINE F == FreshScore(s)
           D == DateScore(s)
           E == o.extraction * 1000
           V == Stability(s, 4)
<1>1. /\ F \in Int /\ 0 <= F /\ F <= 100000
      /\ D \in Int /\ 0 <= D /\ D <= 100000
      /\ E \in Int /\ 0 <= E /\ E <= 100000
      /\ V \in Int /\ 0 <= V /\ V <= 100000
  BY ComponentRange
<1>2. Tenths(RawConfidence(o, s)) = ((F + D + 100000 + V + E) \div 5 + 50) \div 100
  BY DEF RawConfidence, Tenths
<1> HIDE DEF F, D, E, V
<1>3. QED
  BY <1>1, <1>2, SMT

\* The confidence of an offer that passed the gate is the least of the raw
\* confidence and the caps.
LEMMA ConfidenceIsLeast ==
    ASSUME NEW o \in Offers, NEW s \in Snapshots, GatePassed(o, s)
    PROVE  /\ Confidence(o, s) \in {Tenths(RawConfidence(o, s))} \cup Caps(s)
           /\ \A d \in {Tenths(RawConfidence(o, s))} \cup Caps(s) : Confidence(o, s) <= d
<1> DEFINE T == Tenths(RawConfidence(o, s))
           C == {T} \cup Caps(s)
<1>1. T \in Int
  BY RawRange
<1>2. Caps(s) \subseteq {500, 600, 650, 700}
  BY DEF Caps
<1> HIDE DEF T
<1>3. \E c \in C : \A d \in C : c <= d
  <2>1. CASE 500 \in C /\ 500 <= T
    BY <1>1, <1>2, <2>1
  <2>2. CASE 500 \notin C /\ 600 \in C /\ 600 <= T
    BY <1>1, <1>2, <2>2
  <2>3. CASE 500 \notin C /\ 600 \notin C /\ 650 \in C /\ 650 <= T
    BY <1>1, <1>2, <2>3
  <2>4. CASE 500 \notin C /\ 600 \notin C /\ 650 \notin C /\ 700 \in C /\ 700 <= T
    BY <1>1, <1>2, <2>4
  <2>5. CASE \A d \in C : T <= d
    BY <2>5
  <2>6. QED
    BY <1>1, <1>2, <2>1, <2>2, <2>3, <2>4, <2>5
<1>4. Confidence(o, s) = CHOOSE c \in C : \A d \in C : c <= d
  BY DEF Confidence, T
<1>5. Confidence(o, s) \in C /\ \A d \in C : Confidence(o, s) <= d
  BY <1>3, <1>4, Zenon
<1>6. QED
  BY <1>5 DEF T

LEMMA ConfidenceRange ==
    ASSUME NEW o \in Offers, NEW s \in Snapshots
    PROVE  Confidence(o, s) \in Int /\ 0 <= Confidence(o, s) /\ Confidence(o, s) <= 1000
<1>1. CASE ~GatePassed(o, s)
  BY <1>1 DEF Confidence
<1>2. CASE GatePassed(o, s)
  BY <1>2, ConfidenceIsLeast, RawRange DEF Caps
<1>3. QED
  BY <1>1, <1>2

\* What an evaluation that was not refused consists of.
LEMMA Evaluated ==
    ASSUME NEW o \in Offers, NEW s \in Snapshots, s.median > 0
    PROVE  /\ Evaluate(o, s).action = Action(o, s)
           /\ Evaluate(o, s).score = DecisionScore(o, s)
           /\ Evaluate(o, s).confidence = Confidence(o, s)
           /\ Evaluate(o, s).risk = Risk(o, s)
           /\ Evaluate(o, s).offerScore = Tenths(OfferScore(Ratio(o, s)))
<1>1. ~(o.price <= 0 \/ s.median <= 0)
  BY OfferRange, SnapshotRange
<1>2. Evaluate(o, s) =
        [action |-> Action(o, s),
         score |-> DecisionScore(o, s),
         confidence |-> Confidence(o, s),
         risk |-> Risk(o, s),
         offerScore |-> Tenths(OfferScore(Ratio(o, s)))]
  BY <1>1 DEF Evaluate
<1>3. QED
  BY <1>2

\* One that was.
LEMMA Refused ==
    ASSUME NEW o \in Offers, NEW s \in Snapshots, ~(s.median > 0)
    PROVE  Evaluate(o, s) = Raised
  BY SnapshotRange DEF Evaluate

LEMMA Interval == ASSUME NEW n \in Nat, NEW x \in Int, 0 <= x, x <= n PROVE x \in 0..n
  OBVIOUS

LEMMA OfferTenthsRange ==
    ASSUME NEW q \in Nat
    PROVE  Tenths(OfferScore(q)) \in 0..1000
<1> DEFINE t == Tenths(OfferScore(q))
<1>1. t \in Int /\ 0 <= t /\ t <= 1000
  BY OfferScoreRange, SMT DEF Tenths
<1> HIDE DEF t
<1>2. t \in 0..1000
  BY <1>1, Interval
<1>3. QED
  BY <1>2 DEF t

---------------------------------------------------------------------------
\* The verdict is well formed, its scores between 0 and 100 (in tenths): EngineTypeOK.
THEOREM ScoresInRange == Spec => []EngineTypeOK
<1>1. EngineInv => EngineTypeOK
  <2> SUFFICES ASSUME EngineInv
               PROVE  verdict \in [action : Actions, score : 0..1000, confidence : 0..1000,
                                   risk : {"LOW", "MEDIUM", "HIGH"}, offerScore : 0..1000]
    BY DEF EngineInv, EngineTypeOK
  <2> DEFINE Grades == {"LOW", "MEDIUM", "HIGH"}
             R == 0..1000
  <2>1. CASE ~(snapshot.median > 0)
    <3>1. verdict = Raised
      BY <2>1, Refused DEF EngineInv
    <3>2. 0 \in R
      BY Interval
    <3>3. "RAISED" \in Actions /\ "HIGH" \in Grades
      BY DEF Actions
    <3> HIDE DEF R, Grades
    <3>4. verdict \in [action : Actions, score : R, confidence : R, risk : Grades, offerScore : R]
      BY <3>1, <3>2, <3>3 DEF Raised
    <3>5. QED
      BY <3>4 DEF R, Grades
  <2>2. CASE snapshot.median > 0
    <3>1. Action(offer, snapshot) \in Actions
      BY DEF Action, Actions
    <3>2. DecisionScore(offer, snapshot) \in R
      BY <2>2, ScoreRange, Interval DEF EngineInv
    <3>3. Confidence(offer, snapshot) \in R
      BY ConfidenceRange, Interval DEF EngineInv
    <3>4. Risk(offer, snapshot) \in Grades
      BY DEF Risk
    <3>5. Tenths(OfferScore(Ratio(offer, snapshot))) \in R
      <4>1. Ratio(offer, snapshot) \in Nat
        BY <2>2, RatioNat DEF EngineInv
      <4>2. QED
        BY <4>1, OfferTenthsRange, ZenonT(30)
    <3>6. verdict =
            [action |-> Action(offer, snapshot),
             score |-> DecisionScore(offer, snapshot),
             confidence |-> Confidence(offer, snapshot),
             risk |-> Risk(offer, snapshot),
             offerScore |-> Tenths(OfferScore(Ratio(offer, snapshot)))]
      BY <2>2, OfferRange, SnapshotRange DEF EngineInv, Evaluate
    <3> HIDE DEF R, Grades
    <3>7. verdict \in [action : Actions, score : R, confidence : R, risk : Grades, offerScore : R]
      BY <3>1, <3>2, <3>3, <3>4, <3>5, <3>6
    <3>8. QED
      BY <3>7 DEF R, Grades
  <2>3. QED
    BY <2>1, <2>2
<1>2. QED
  BY <1>1, EngineInvHolds, PTL

\* The offer score tells the same story as the action: ScoreMatchesAction.
THEOREM ScoreFollowsAction == Spec => []ScoreMatchesAction
<1>1. EngineInv => ScoreMatchesAction
  <2> SUFFICES ASSUME EngineInv PROVE ScoreMatchesAction
    OBVIOUS
  <2> DEFINE q == Ratio(offer, snapshot)
             t == Tenths(OfferScore(q))
  <2>1. CASE ~(snapshot.median > 0)
    BY <2>1, Refused DEF EngineInv, Raised, ScoreMatchesAction
  <2>2. CASE snapshot.median > 0
    <3>1. q \in Nat
      BY <2>2, RatioNat DEF EngineInv
    <3>2. verdict.action = Action(offer, snapshot) /\ verdict.offerScore = t
      BY <2>2, Evaluated DEF EngineInv
    <3>3. /\ verdict.action = "SELL" => q >= 9000
          /\ verdict.action = "NEGOTIATE" => q >= 8000 /\ q < 9000
          /\ verdict.action = "HOLD" => q < 8000
      BY <3>1, <3>2 DEF Action, SellThreshold, NegotiateThreshold
    <3> HIDE DEF q
    <3>4. /\ t \in Int
          /\ q >= 9000 => t >= 750
          /\ q >= 8000 /\ q < 9000 => t >= 500 /\ t <= 749
          /\ q < 8000 => t < 500
      BY <3>1, SMT DEF Tenths, OfferScore, SellThreshold, NegotiateThreshold, Lower
    <3> HIDE DEF t
    <3>5. t >= 500 /\ t <= 749 => t \in 500..749
      BY <3>4
    <3>6. verdict.action = "SELL" => verdict.offerScore >= 750
      BY <3>2, <3>3, <3>4
    <3>7. verdict.action = "NEGOTIATE" => verdict.offerScore \in 500..749
      <4>1. verdict.action = "NEGOTIATE" => t \in 500..749
        BY <3>3, <3>4, <3>5
      <4>2. QED
        BY <3>2, <4>1, Zenon
    <3>8. verdict.action = "HOLD" => verdict.offerScore < 500
      BY <3>2, <3>3, <3>4
    <3>9. QED
      BY <3>6, <3>7, <3>8, Zenon DEF ScoreMatchesAction
  <2>3. QED
    BY <2>1, <2>2
<1>2. QED
  BY <1>1, EngineInvHolds, PTL

\* The three gradings agree, though each has thresholds of its own: GradesAgree.
THEOREM GradingsAgree == Spec => []GradesAgree
<1>1. ASSUME NEW o \in Offers, NEW s \in Snapshots, s # NoData,
             Confidence(o, s) >= 800
      PROVE  s.freshness = "FRESH" /\ s.dates >= 3 /\ s.volatility <= 100
  <2>1. GatePassed(o, s)
    BY <1>1 DEF Confidence
  <2>2. Caps(s) = {}
    BY <1>1, <2>1, ConfidenceIsLeast, ConfidenceRange, SMTT(30) DEF Caps
  <2>3. s.dates \notin {1, 2} /\ s.freshness # "STALE" /\ ~(s.volatility > 100)
    BY <2>2 DEF Caps, ElevatedVolatility
  <2>4. s.freshness # "INSUFFICIENT"
    BY <2>1 DEF GatePassed, GateFailures
  <2>5. QED
    BY <1>1, <2>3, <2>4, SnapshotRange DEF Freshness
<1>2. ASSUME NEW o \in Offers, NEW s \in Snapshots, s # NoData, Risk(o, s) = "LOW"
      PROVE  Confidence(o, s) >= 800
  <2>1. GatePassed(o, s) /\ RiskFactors(o, s) = {} /\ s.volatility <= 40
    BY <1>2, SnapshotRange DEF Risk
  <2>2. s.freshness # "STALE" /\ ~(s.dates < 3) /\ ~(o.extraction < 85)
    BY <2>1 DEF RiskFactors
  <2>3. s.freshness = "FRESH" /\ s.dates >= 3 /\ o.extraction >= 85
    BY <1>2, <2>1, <2>2, SnapshotRange, OfferRange DEF Freshness, GatePassed, GateFailures
  <2>4. Caps(s) = {}
    <3>1. s.dates # 1 /\ s.dates # 2 /\ s.freshness # "STALE" /\ ~(s.volatility > 100)
      BY <2>1, <2>3, SnapshotRange
    <3>2. QED
      BY <3>1 DEF Caps, ElevatedVolatility
  <2>5. Tenths(RawConfidence(o, s)) >= 800
    <3> DEFINE D == DateScore(s)
               V == Stability(s, 4)
               E == o.extraction * 1000
    <3>1. D \in Int /\ D >= 70000
      BY <2>3, SnapshotRange DEF DateScore
    <3>2. V \in Int /\ V >= 84000
      BY <2>1, SnapshotRange DEF Stability, Higher
    <3>3. E \in Int /\ E >= 85000
      BY <2>3, OfferRange
    <3>4. Tenths(RawConfidence(o, s)) = ((100000 + D + 100000 + V + E) \div 5 + 50) \div 100
      BY <2>3 DEF Tenths, RawConfidence, FreshScore
    <3> HIDE DEF D, V, E
    <3>5. QED
      BY <3>1, <3>2, <3>3, <3>4, SMT
  <2>6. QED
    BY <2>1, <2>4, <2>5, ConfidenceIsLeast
<1>3. EngineInv => GradesAgree
  <2> SUFFICES ASSUME EngineInv PROVE GradesAgree
    OBVIOUS
  <2>1. CASE ~(snapshot.median > 0)
    BY <2>1, Refused DEF EngineInv, Raised, GradesAgree, Band
  <2>2. CASE snapshot.median > 0
    <3>1. snapshot # NoData
      BY <2>2, SnapshotRange DEF EngineInv
    <3>2. /\ verdict.confidence = Confidence(offer, snapshot)
          /\ verdict.risk = Risk(offer, snapshot)
      BY <2>2, Evaluated DEF EngineInv
    <3>3. Band(verdict.confidence) = "HIGH" <=> verdict.confidence >= 800
      BY DEF Band
    <3>4. QED
      BY <1>1, <1>2, <3>1, <3>2, <3>3 DEF EngineInv, GradesAgree, ElevatedVolatility
  <2>3. QED
    BY <2>1, <2>2
<1>4. QED
  BY <1>3, EngineInvHolds, PTL

\* A better price never makes the recommendation or the score worse:
\* BetterOfferNeverWorse.
THEOREM BetterOffer == Spec => BetterOfferNeverWorse
<1>1. ASSUME NEW o \in Offers, NEW n \in Offers, NEW s \in Snapshots, s.median > 0,
             n.price >= o.price, n.variety = o.variety, n.extraction = o.extraction
      PROVE  /\ Rank(Evaluate(n, s).action) >= Rank(Evaluate(o, s).action)
             /\ Evaluate(n, s).score >= Evaluate(o, s).score
  <2> DEFINE P == Ratio(o, s)
             Q == Ratio(n, s)
  <2>1. P \in Nat /\ Q \in Nat
    BY <1>1, RatioNat
  <2>2. P <= Q
    <3>1. /\ 20000 * o.price + s.median \in Int
          /\ 20000 * n.price + s.median \in Int
          /\ 2 * s.median \in Nat \ {0}
          /\ 20000 * o.price + s.median <= 20000 * n.price + s.median
      BY <1>1, OfferRange, SnapshotRange
    <3>2. QED
      BY <3>1, DivMonotone DEF Ratio
  <2>3. GatePassed(n, s) <=> GatePassed(o, s)
    BY <1>1 DEF GatePassed, GateFailures
  <2>4. EvidenceScore(n, s) = EvidenceScore(o, s)
    BY <1>1 DEF EvidenceScore
  <2> HIDE DEF P, Q
  <2>5. Rank(Action(n, s)) >= Rank(Action(o, s))
    BY <2>1, <2>2, <2>3 DEF P, Q, Action, Rank, SellThreshold, NegotiateThreshold
  <2>6. DecisionScore(n, s) >= DecisionScore(o, s)
    <3> DEFINE A == OfferScore(P)
               B == OfferScore(Q)
               E == EvidenceScore(o, s)
    <3>1. A \in Int /\ B \in Int /\ A <= B
      BY <2>1, <2>2, OfferScoreMonotone, OfferScoreRange
    <3>2. E \in Int
      BY EvidenceRange
    <3>3. /\ DecisionScore(o, s) = ((6 * A + 400 * E) \div 10 + 50) \div 100
          /\ DecisionScore(n, s) = ((6 * B + 400 * E) \div 10 + 50) \div 100
      BY <2>4 DEF DecisionScore, Tenths, P, Q
    <3> HIDE DEF A, B, E
    <3>4. QED
      BY <3>1, <3>2, <3>3, SMT
  <2>7. QED
    BY <1>1, <2>5, <2>6, Evaluated
<1>2. EngineInv /\ EngineInv' /\ [Next]_vars => [(/\ snapshot' = snapshot
        /\ offer'.variety = offer.variety /\ offer'.extraction = offer.extraction
        /\ offer'.price >= offer.price)
       => /\ Rank(verdict'.action) >= Rank(verdict.action)
          /\ verdict'.score >= verdict.score]_vars
  <2> SUFFICES ASSUME EngineInv, EngineInv', snapshot' = snapshot,
                      offer'.variety = offer.variety, offer'.extraction = offer.extraction,
                      offer'.price >= offer.price
               PROVE  /\ Rank(verdict'.action) >= Rank(verdict.action)
                      /\ verdict'.score >= verdict.score
    OBVIOUS
  <2>1. CASE ~(snapshot.median > 0)
    <3>1. verdict = Raised /\ verdict' = Raised
      BY <2>1, Refused DEF EngineInv
    <3>2. QED
      BY <3>1 DEF Raised, Rank
  <2>2. CASE snapshot.median > 0
    BY <1>1, <2>2 DEF EngineInv
  <2>3. QED
    BY <2>1, <2>2
<1>3. QED
  BY <1>2, EngineInvHolds, PTL DEF Spec, BetterOfferNeverWorse

---------------------------------------------------------------------------
\* Two inputs of WeakerEvidenceNeverBolder, the second with the weaker evidence.
Weaker(o, s, n, z) ==
    /\ o \in Offers /\ n \in Offers
    /\ s \in Snapshots \ {NoData} /\ z \in Snapshots \ {NoData}
    /\ NoBetter(n, z, o, s)

LEMMA WeakerMeans ==
    ASSUME NEW o, NEW s, NEW n, NEW z, Weaker(o, s, n, z)
    PROVE  /\ z.dates \in Nat /\ s.dates \in Nat /\ 1 <= z.dates /\ z.dates <= s.dates
           /\ s.volatility \in Nat /\ z.volatility \in Nat /\ s.volatility <= z.volatility
           /\ n.extraction \in Nat /\ o.extraction \in Nat /\ n.extraction <= o.extraction
           /\ s.freshness # "FRESH" => z.freshness # "FRESH"
           /\ s.freshness = "INSUFFICIENT" => z.freshness = "INSUFFICIENT"
           /\ s.freshness \in {"FRESH", "STALE", "INSUFFICIENT"}
           /\ z.freshness \in {"FRESH", "STALE", "INSUFFICIENT"}
           /\ n.variety = "match" => o.variety = "match"
           /\ s.median > 0 /\ z.median > 0
<1> USE DEF Weaker
<1>1. z.dates \in Nat /\ s.dates \in Nat /\ 1 <= z.dates /\ z.dates <= s.dates
  BY SnapshotRange DEF NoBetter
<1>2. s.volatility \in Nat /\ z.volatility \in Nat /\ s.volatility <= z.volatility
  BY SnapshotRange DEF NoBetter
<1>3. n.extraction \in Nat /\ o.extraction \in Nat /\ n.extraction <= o.extraction
  BY OfferRange DEF NoBetter
<1>4. /\ s.freshness \in {"FRESH", "STALE", "INSUFFICIENT"}
      /\ z.freshness \in {"FRESH", "STALE", "INSUFFICIENT"}
  BY SnapshotRange DEF Freshness
<1>5. /\ s.freshness # "FRESH" => z.freshness # "FRESH"
      /\ s.freshness = "INSUFFICIENT" => z.freshness = "INSUFFICIENT"
  BY <1>4 DEF NoBetter, FreshRank
<1>6. n.variety = "match" => o.variety = "match"
  BY DEF NoBetter
<1>7. s.median > 0 /\ z.median > 0
  BY SnapshotRange
<1>8. QED
  BY <1>1, <1>2, <1>3, <1>4, <1>5, <1>6, <1>7, Zenon

\* The gate lets no weaker evidence through.
LEMMA GateMonotone ==
    ASSUME NEW o, NEW s, NEW n, NEW z, Weaker(o, s, n, z), GatePassed(n, z)
    PROVE  GatePassed(o, s)
<1>1. /\ n.variety = "match" /\ z.freshness \notin {"INSUFFICIENT", "UNAVAILABLE"}
      /\ ~(z.dates < 1) /\ ~(n.extraction < MinExtraction) /\ ~(z.volatility > HighVolatility)
  BY DEF GatePassed, GateFailures
<1>2. /\ o.variety = "match" /\ s.freshness \notin {"INSUFFICIENT", "UNAVAILABLE"}
      /\ ~(s.dates < 1) /\ ~(o.extraction < MinExtraction) /\ ~(s.volatility > HighVolatility)
  BY <1>1, WeakerMeans DEF MinExtraction, HighVolatility
<1>3. QED
  BY <1>2 DEF GatePassed, GateFailures

LEMMA RawMonotone ==
    ASSUME NEW o, NEW s, NEW n, NEW z, Weaker(o, s, n, z)
    PROVE  Tenths(RawConfidence(n, z)) <= Tenths(RawConfidence(o, s))
<1> DEFINE F1 == FreshScore(s)
           D1 == DateScore(s)
           V1 == Stability(s, 4)
           E1 == o.extraction * 1000
           F2 == FreshScore(z)
           D2 == DateScore(z)
           V2 == Stability(z, 4)
           E2 == n.extraction * 1000
<1>1. F1 \in Int /\ F2 \in Int /\ F2 <= F1
  BY WeakerMeans DEF FreshScore
<1>2. D1 \in Int /\ D2 \in Int /\ D2 <= D1
  BY WeakerMeans DEF DateScore
<1>3. V1 \in Int /\ V2 \in Int /\ V2 <= V1
  BY WeakerMeans DEF Stability, Higher
<1>4. E1 \in Int /\ E2 \in Int /\ E2 <= E1
  BY WeakerMeans
<1>5. /\ Tenths(RawConfidence(o, s)) = ((F1 + D1 + 100000 + V1 + E1) \div 5 + 50) \div 100
      /\ Tenths(RawConfidence(n, z)) = ((F2 + D2 + 100000 + V2 + E2) \div 5 + 50) \div 100
  BY DEF Tenths, RawConfidence
<1> HIDE DEF F1, D1, V1, E1, F2, D2, V2, E2
<1>6. QED
  BY <1>1, <1>2, <1>3, <1>4, <1>5, SMT

\* Every cap is matched by one that is as low.
LEMMA CapsMonotone ==
    ASSUME NEW o, NEW s, NEW n, NEW z, Weaker(o, s, n, z), GatePassed(n, z), NEW c \in Caps(s)
    PROVE  \E d \in Caps(z) : d <= c
<1>1. CASE c = 500
  BY <1>1, WeakerMeans DEF Caps
<1>2. CASE c = 600
  BY <1>2, WeakerMeans DEF Caps
<1>3. CASE c = 650
  BY <1>3, WeakerMeans DEF Caps, GatePassed, GateFailures
<1>4. CASE c = 700
  BY <1>4, WeakerMeans DEF Caps, ElevatedVolatility
<1>5. QED
  BY <1>1, <1>2, <1>3, <1>4 DEF Caps

LEMMA ConfidenceMonotone ==
    ASSUME NEW o, NEW s, NEW n, NEW z, Weaker(o, s, n, z)
    PROVE  Confidence(n, z) <= Confidence(o, s)
<1> USE DEF Weaker
<1>1. CASE ~GatePassed(n, z)
  BY <1>1, ConfidenceRange DEF Confidence
<1>2. CASE GatePassed(n, z)
  <2>1. GatePassed(o, s)
    BY <1>2, GateMonotone
  <2>2. CASE Confidence(o, s) = Tenths(RawConfidence(o, s))
    <3>1. Confidence(n, z) <= Tenths(RawConfidence(n, z))
      BY <1>2, ConfidenceIsLeast
    <3>2. QED
      BY <2>2, <3>1, RawMonotone, RawRange, ConfidenceRange
  <2>3. CASE Confidence(o, s) \in Caps(s)
    <3>1. PICK d \in Caps(z) : d <= Confidence(o, s)
      BY <1>2, <2>3, CapsMonotone
    <3>2. Confidence(n, z) <= d
      BY <1>2, ConfidenceIsLeast
    <3>3. d \in Int
      BY DEF Caps
    <3>4. QED
      BY <3>1, <3>2, <3>3, ConfidenceRange
  <2>4. QED
    BY <2>1, <2>2, <2>3, ConfidenceIsLeast
<1>3. QED
  BY <1>1, <1>2

LEMMA FactorsFinite == ASSUME NEW o, NEW s PROVE IsFiniteSet(RiskFactors(o, s))
<1>1. IsFiniteSet({} \cup {"volatility"} \cup {"stale"} \cup {"dates"} \cup {"extraction"})
  BY FS_EmptySet, FS_AddElement, Zenon
<1>2. RiskFactors(o, s)
        \subseteq {} \cup {"volatility"} \cup {"stale"} \cup {"dates"} \cup {"extraction"}
  BY DEF RiskFactors
<1>3. QED
  BY <1>1, <1>2, FS_Subset

LEMMA RiskMonotone ==
    ASSUME NEW o, NEW s, NEW n, NEW z, Weaker(o, s, n, z)
    PROVE  RiskRank(Risk(n, z)) >= RiskRank(Risk(o, s))
<1>1. Risk(o, s) \in {"LOW", "MEDIUM", "HIGH"} /\ Risk(n, z) \in {"LOW", "MEDIUM", "HIGH"}
  BY DEF Risk
<1>2. CASE ~GatePassed(n, z)
  BY <1>1, <1>2 DEF Risk, RiskRank
<1>3. CASE GatePassed(n, z)
  <2> DEFINE A == RiskFactors(o, s)
             B == RiskFactors(n, z)
  <2>1. A \subseteq B
    <3>1. /\ s.volatility > 70 => z.volatility > 70
          /\ s.freshness = "STALE" => z.freshness = "STALE"
          /\ s.dates < 3 => z.dates < 3
          /\ o.extraction < 85 => n.extraction < 85
      BY <1>3, WeakerMeans DEF GatePassed, GateFailures
    <3>2. QED
      BY <3>1 DEF RiskFactors
  <2>2. Cardinality(A) \in Nat /\ Cardinality(B) \in Nat /\ Cardinality(A) <= Cardinality(B)
    BY <2>1, FactorsFinite, FS_Subset, FS_CardinalityType
  <2>3. GatePassed(o, s)
    BY <1>3, GateMonotone
  <2>4. /\ s.volatility > 100 => z.volatility > 100
        /\ s.volatility > 40 => z.volatility > 40
    BY WeakerMeans
  <2>5. /\ Risk(o, s) = "HIGH" => Cardinality(A) >= 2 \/ s.volatility > 100
        /\ Risk(o, s) = "MEDIUM" => A # {} \/ s.volatility > 40
    BY <2>3 DEF Risk
  <2>6. /\ Cardinality(B) >= 2 \/ z.volatility > 100 => Risk(n, z) = "HIGH"
        /\ B # {} \/ z.volatility > 40 => Risk(n, z) \in {"MEDIUM", "HIGH"}
    BY DEF Risk
  <2> HIDE DEF A, B
  <2>7. /\ Risk(o, s) = "HIGH" => Risk(n, z) = "HIGH"
        /\ Risk(o, s) = "MEDIUM" => Risk(n, z) \in {"MEDIUM", "HIGH"}
    BY <2>1, <2>2, <2>4, <2>5, <2>6
  <2>8. QED
    BY <1>1, <2>7 DEF RiskRank
<1>4. QED
  BY <1>2, <1>3

\* Weaker evidence for the same offer never raises the confidence, lowers the risk or
\* turns WAIT into advice: WeakerEvidenceNeverBolder.
THEOREM WeakerEvidence == Spec => WeakerEvidenceNeverBolder
<1>1. ASSUME NEW o, NEW s, NEW n, NEW z, Weaker(o, s, n, z)
      PROVE  /\ Evaluate(n, z).confidence <= Evaluate(o, s).confidence
             /\ RiskRank(Evaluate(n, z).risk) >= RiskRank(Evaluate(o, s).risk)
             /\ Evaluate(o, s).action = "WAIT" => Evaluate(n, z).action = "WAIT"
  <2>1. s.median > 0 /\ z.median > 0
    BY <1>1, WeakerMeans
  <2>2. Action(o, s) = "WAIT" => Action(n, z) = "WAIT"
    BY <1>1, GateMonotone DEF Action
  <2>3. QED
    BY <1>1, <2>1, <2>2, Evaluated, ConfidenceMonotone, RiskMonotone DEF Weaker
<1>2. EngineInv /\ EngineInv' /\ [Next]_vars =>
        [(/\ NoData \notin {snapshot, snapshot'}
          /\ NoBetter(offer', snapshot', offer, snapshot))
         => /\ verdict'.confidence <= verdict.confidence
            /\ RiskRank(verdict'.risk) >= RiskRank(verdict.risk)
            /\ verdict.action = "WAIT" => verdict'.action = "WAIT"]_vars
  <2> SUFFICES ASSUME EngineInv, EngineInv', NoData \notin {snapshot, snapshot'},
                      NoBetter(offer', snapshot', offer, snapshot)
               PROVE  /\ verdict'.confidence <= verdict.confidence
                      /\ RiskRank(verdict'.risk) >= RiskRank(verdict.risk)
                      /\ verdict.action = "WAIT" => verdict'.action = "WAIT"
    OBVIOUS
  <2>1. Weaker(offer, snapshot, offer', snapshot')
    BY DEF EngineInv, Weaker
  <2>2. verdict = Evaluate(offer, snapshot) /\ verdict' = Evaluate(offer', snapshot')
    BY DEF EngineInv
  <2>3. /\ Evaluate(offer', snapshot').confidence <= Evaluate(offer, snapshot).confidence
        /\ RiskRank(Evaluate(offer', snapshot').risk) >= RiskRank(Evaluate(offer, snapshot).risk)
        /\ Evaluate(offer, snapshot).action = "WAIT" =>
             Evaluate(offer', snapshot').action = "WAIT"
    BY <1>1, <2>1
  <2>4. QED
    BY <2>2, <2>3
<1>3. QED
  BY <1>2, EngineInvHolds, PTL DEF Spec, WeakerEvidenceNeverBolder
===========================================================================
