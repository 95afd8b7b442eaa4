----------------------------- MODULE MCScanner -----------------------------
(* Three symbols of which two are held, over a few markets.                *)
EXTENDS Scanner

\* A price of 2 or 3 for all, or one that has fallen; scores that leave a
\* symbol out or change the order; a strategy that wants all or not the first.
Prices == {<<2, 2, 2>>, <<3, 1, 2>>}
Scores == {<<1, 1, 0>>, <<1, 2, 3>>, <<2, 0, 1>>}
Wishes == {<<TRUE, TRUE, TRUE>>, <<FALSE, TRUE, TRUE>>}
MCMarkets ==
  [price : Prices, score : Scores, want : Wishes, active : {TRUE}]
    \cup [price : {<<2, 2, 2>>}, score : {<<1, 2, 3>>}, want : Wishes, active : {FALSE}]

NoTiers == {}
Tiers == {[dd |-> 10, mult |-> 50], [dd |-> 20, mult |-> 0]}
MCGates ==
  {[heat |-> 0, budget |-> 0, corr |-> 70, tiers |-> NoTiers],
   [heat |-> 60, budget |-> 0, corr |-> 70, tiers |-> NoTiers],
   [heat |-> 0, budget |-> 50, corr |-> 70, tiers |-> Tiers]}
MCOthers == <<4>>
MCSymbols == 1..3
Anything == {"data", "refused", "part", "lost", "crash"}
=============================================================================
