--------------------------- MODULE MCMarketData ---------------------------
\* MarketData on small instances: two varieties.
EXTENDS MarketData
TwoVarieties == <<"Finger", "Bulb">>
===========================================================================
