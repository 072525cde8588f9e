---------------------------- MODULE MCMarketBars ----------------------------
(* MarketBars on small instances: one symbol that splits, one that does not. *)
EXTENDS MarketBars, TLC

CONSTANTS acme, other, w1, w2

Flat == [d \in Dates |-> 0]
Doubled(day) == [d \in Dates |-> IF d < day THEN 0 ELSE 1]

NoSplit == <<>>
TwoForOne(day) == day :> 1
Reverse(day) == day :> -1

Market(splits, level) ==
    [splits |-> [s \in Symbols |-> IF s = acme THEN splits ELSE NoSplit],
     level |-> [s \in Symbols |-> IF s = acme THEN level ELSE Flat]]

(* A reverse split and a split; and a split after the price has doubled.   *)
SomeMarkets ==
    {Market(Reverse(2) @@ TwoForOne(5), Flat), Market(TwoForOne(5), Doubled(2))}
OneMarket == {Market(TwoForOne(3), Flat)}
=============================================================================
