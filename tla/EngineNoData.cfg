SPECIFICATION Spec
CONSTANTS
    Prices = {16000}
    Extractions = {100}
    DateCounts = {1, 3}
    Volatilities = {0}
    Reference = 16000
INVARIANT NoDataMeansWait
