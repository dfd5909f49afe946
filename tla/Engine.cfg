SPECIFICATION Spec
CONSTANTS
    Prices = {1, 11199, 11200, 12799, 12800, 14399, 14400, 15999, 16000, 17600, 17700}
    Extractions = {59, 60, 84, 85, 100}
    DateCounts = {1, 2, 3, 5, 7}
    Volatilities = {0, 40, 41, 70, 71, 100, 101, 150, 151, 260}
    Reference = 16000
INVARIANTS GradesAgree ScoreMatchesAction
PROPERTIES BetterOfferNeverWorse WeakerEvidenceNeverBolder
