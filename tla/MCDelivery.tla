---------------------------- MODULE MCDelivery ----------------------------
\* Delivery on small instances; the bounds are given in the .cfg files.
EXTENDS Delivery, TLC

\* Prices as answers have them, and what is left of each: none, too little, too much dropped,
\* and an offer.
KeptDigits == "null" :> NoNumber @@ "0.001" :> 1 @@ "Rs. 14200" :> 142 @@ "14200" :> 14200000

SomePrices == DOMAIN KeptDigits

\* The numbers of a text: none, and an offer.
SomeNumbers == {"null", "14200"}
===========================================================================
