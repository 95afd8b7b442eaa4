------------------------------- MODULE Ladder -------------------------------
(***************************************************************************)
(* The life of a position, as the backtest engine and the tests of the     *)
(* runner compute it: a long position that is sold in parts as the price   *)
(* rises and added to as it falls or rises (position/ladder.ts), a short   *)
(* one (position/short.ts), and the net position a list of trades leaves   *)
(* (runner.ts).  A price is an integer, a quantity an integer count of the *)
(* instrument's smallest unit, a percentage an integer whose 0 stands for  *)
(* "not set"; an average price is the exact fraction <<cost, quantity>>.   *)
(***************************************************************************)
EXTENDS Integers, Sequences, FiniteSets, SequencesExt

Gcd[p \in Int \X Nat] == IF p[2] = 0 THEN p[1] ELSE Gcd[<<p[2], p[1] % p[2]>>]
Frac(n, d) == LET g == Gcd[<<n, d>>] IN IF n = 0 THEN <<0, 1>> ELSE <<n \div g, d \div g>>
Leq(f, g) == f[1] * g[2] <= g[1] * f[2]
Higher(f, g) == IF Leq(f, g) THEN g ELSE f
Lower(f, g) == IF Leq(f, g) THEN f ELSE g
Price(p) == <<p, 1>>
\* A stop, a trail or a target that is not positive is not set.
SetPct(pct) == IF pct > 0 THEN pct ELSE 0
\* The price pct percent above (below, for a negative pct) the price f.
Off(f, pct) == Frac(f[1] * (100 + pct), f[2] * 100)

---------------------------------------------------------------------------
(* The long position.  An average of <<price, 1>> when it is opened; tp,   *)
(* si and py hold the levels already used.                                 *)
OpenPosition(price, qty, sl, trail) ==
  [avg |-> Price(price), base |-> qty, left |-> qty, tp |-> {}, si |-> {}, py |-> {},
   sl |-> SetPct(sl), trail |-> SetPct(trail), peak |-> price]

\* No stop is <<0, 1>>: no price is at or below it.  The first profit taken
\* lifts the fixed stop to the entry.
EffectiveStopLoss(pos, peak) ==
  Higher(IF pos.sl = 0 THEN Price(0) ELSE IF pos.tp # {} THEN pos.avg ELSE Off(pos.avg, 0 - pos.sl),
         IF pos.trail = 0 THEN Price(0) ELSE Off(Price(peak), 0 - pos.trail))

\* The trail follows the highest price since the entry.
PeakOf_Last(pos, price) == price
PeakOf(pos, price) == IF price > pos.peak THEN price ELSE pos.peak

Rose(avg, price, pct) == Leq(Off(avg, pct), Price(price))
Fell(avg, price, pct) == Leq(Price(price), Off(avg, 0 - pct))

\* One level of profit taking: a share of what is left, the last level or a
\* share of 100 all of it; a share that rounds to nothing uses the level up.
TakeProfit(ladder, price, acc, k) ==
  LET qty == IF k = Len(ladder) \/ ladder[k].sell >= 100 THEN acc.left ELSE (acc.left * ladder[k].sell) \div 100
  IN  IF k \in acc.used \/ acc.left = 0 \/ ~Rose(acc.avg, price, ladder[k].pct) THEN acc
      ELSE IF qty = 0 THEN [acc EXCEPT !.used = @ \union {k}]
      ELSE [acc EXCEPT !.used = @ \union {k}, !.left = @ - qty, !.out = Append(@, qty)]

\* The average after buying qty at price on top of left.
Averaged(avg, left, price, qty) == Frac(avg[1] * left + price * qty * avg[2], avg[2] * (left + qty))

\* One level of buying more: a share of the first quantity, held to the cap
\* on the whole position.
AddLevel(due, share, cap, paid, acc, k) ==
  LET room == cap - acc.left
      want == (acc.base * share) \div 100
      qty  == IF want > room THEN room ELSE want
  IN  IF k \in acc.used \/ ~due THEN acc
      ELSE IF qty <= 0 THEN [acc EXCEPT !.used = @ \union {k}]
      ELSE [acc EXCEPT !.used = @ \union {k}, !.left = @ + qty, !.out = Append(@, qty),
                       !.avg = Averaged(acc.avg, acc.left, paid, qty)]

\* A scale-in level is due when the price has fallen dropPct below the
\* running average, a pyramid level when it has risen risePct above it.
ScaleInLevel_AtTrigger(si, price, paid, acc, k) ==
  AddLevel(Fell(acc.avg, price, si.ladder[k].pct), si.ladder[k].add, acc.base * si.max, price, acc, k)
ScaleInLevel(si, price, paid, acc, k) ==
  AddLevel(Fell(acc.avg, price, si.ladder[k].pct), si.ladder[k].add, acc.base * si.max, paid, acc, k)
PyramidLevel(py, price, paid, acc, k) ==
  AddLevel(Rose(acc.avg, price, py.ladder[k].pct), py.ladder[k].add, acc.base * py.max, paid, acc, k)

Levels(ladder) == [k \in 1..Len(ladder) |-> k]
Acc(pos, used) == [base |-> pos.base, left |-> pos.left, avg |-> pos.avg, used |-> used, out |-> <<>>]

TakenProfits(pos, price, L) == FoldLeft(LAMBDA a, k : TakeProfit(L.tp, price, a, k), Acc(pos, pos.tp), Levels(L.tp))
ScaledIn(pos, price, L, paid) ==
  FoldLeft(LAMBDA a, k : ScaleInLevel(L.si, price, paid, a, k), Acc(pos, pos.si), Levels(L.si.ladder))
Pyramided(pos, price, L, paid, down) ==
  FoldLeft(LAMBDA a, k : PyramidLevel(L.py, price, paid, a, k), [down EXCEPT !.used = pos.py], Levels(L.py.ladder))

Closed(pos)     == [exits |-> <<pos.left>>, adds |-> <<>>, next |-> [pos EXCEPT !.left = 0]]
Took(pos, sold) == [exits |-> sold.out, adds |-> <<>>, next |-> [pos EXCEPT !.left = sold.left, !.tp = sold.used]]
Added(pos, tp, si, up) ==
  [exits |-> <<>>, adds |-> up.out,
   next  |-> [pos EXCEPT !.avg = up.avg, !.left = up.left, !.tp = tp, !.si = si, !.py = up.used]]
\* Only a bar that sells nothing buys more.
TakeOrAdd(pos, price, L, paid, sold, down) ==
  IF sold.left = 0 \/ sold.out # <<>> THEN Took(pos, sold)
  ELSE Added(pos, sold.used, down.used, Pyramided(pos, price, L, paid, down))

\* One bar: the stop, the strategy's own exit, profit taking, and only when
\* nothing was sold, buying more.  The trades it makes and the position after.
Stopped(price, stop) == stop[1] > 0 /\ Leq(Price(price), stop)
EvaluateLadderTick(pos, price, L, sell, paid) ==
  LET now == [pos EXCEPT !.peak = PeakOf(pos, price)]
  IN  IF Stopped(price, EffectiveStopLoss(now, now.peak)) \/ sell THEN Closed(now)
      ELSE TakeOrAdd(now, price, L, paid, TakenProfits(pos, price, L), ScaledIn(pos, price, L, paid))

---------------------------------------------------------------------------
(* The short position: its stop is above the entry, the tighter is lower.  *)
NoStop == Price(0)

OpenShort(price, qty, sl, tp, trail, leverage) ==
  [avg |-> Price(price), qty |-> qty, sl |-> SetPct(sl), tp |-> SetPct(tp), trail |-> SetPct(trail),
   trough |-> price, lev |-> leverage, funding |-> 0]

EffectiveShortStop(pos, trough) ==
  LET fixed == Off(pos.avg, pos.sl)
      trail == Off(Price(trough), pos.trail)
  IN  CASE pos.sl = 0 /\ pos.trail = 0 -> NoStop
        [] pos.sl # 0 /\ pos.trail = 0 -> fixed
        [] pos.sl = 0 /\ pos.trail # 0 -> trail
        [] pos.sl # 0 /\ pos.trail # 0 -> Lower(fixed, trail)

\* In thousandths, for the half percent of maintenance margin.
ShortLiquidationPrice(pos) == Frac(pos.avg[1] * (1000 * pos.lev + 1000 - 5 * pos.lev), pos.avg[2] * 1000 * pos.lev)

ShortStopped(price, stop) == stop # NoStop /\ Leq(stop, Price(price))
EvaluateShortTick(pos, price, cover, funding) ==
  LET trough == IF price < pos.trough THEN price ELSE pos.trough
      exit   == \/ pos.lev > 1 /\ Leq(ShortLiquidationPrice(pos), Price(price))
                \/ ShortStopped(price, EffectiveShortStop(pos, trough))
                \/ cover
                \/ pos.tp > 0 /\ Leq(Price(price), Off(pos.avg, 0 - pos.tp))
  IN  [exit |-> exit, next |-> [pos EXCEPT !.trough = trough, !.funding = @ + funding]]

---------------------------------------------------------------------------
(* The position a list of trades leaves, from a seed: sells keep the       *)
(* average, buys move it, and a position sold out starts afresh.           *)
DeriveTrade(d, t) ==
  LET sell == IF t.qty < d.qty THEN t.qty ELSE d.qty
  IN  IF t.side = "buy" THEN [qty |-> d.qty + t.qty, avg |-> Averaged(d.avg, d.qty, t.price, t.qty)]
      ELSE [qty |-> d.qty - sell, avg |-> IF sell = d.qty THEN Price(0) ELSE d.avg]
DerivePosition(trades, seed) == FoldLeft(DeriveTrade, seed, trades)
=============================================================================
