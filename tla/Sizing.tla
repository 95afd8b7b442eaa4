------------------------------- MODULE Sizing -------------------------------
(***************************************************************************)
(* How much to buy: the four sizing methods and the leverage on top of     *)
(* them (risk/sizing.ts, risk/order-sizing.ts, position/qty.ts), the share *)
(* of the capital each child of a weighted node gets (engine.ts), and the  *)
(* circuit breakers of the portfolio (risk/portfolio.ts).  Money is an     *)
(* integer; a share is an integer percentage.  What the methods measure -  *)
(* the volatility, the range, the odds - comes with the method.            *)
(***************************************************************************)
EXTENDS Integers, Sequences, FiniteSets, SequencesExt

Clamp(x, low, high) == IF x < low THEN low ELSE IF x > high THEN high ELSE x

\* A flat market (vol = 0) gives no leverage, not an infinite one.
VolTargetLeverage(target, vol, cap) ==
  IF vol <= 0 \/ target <= 0 THEN 0 ELSE Clamp((100 * target) \div vol, 0, cap)

\* The risk per trade over the stop distance; without a range, the risk itself.
AtrNotional(equity, risk, price, atr, mult) ==
  IF atr <= 0 THEN (equity * risk) \div 100 ELSE (((equity * risk) \div 100) * price) \div (atr * mult)

\* win, and the ratio of the average win to the average loss, in percent.
KellyPercent(win, ratio, fraction, sample) ==
  IF sample < 100 \/ ratio <= 0 THEN 1
  ELSE Clamp(((win - (100 * (100 - win)) \div ratio) * fraction) \div 100, 0, 25)

\* Never more than the equity, never less than nothing.
PositionNotional(m, equity, price) ==
  Clamp(CASE m.method = "vol_target" -> (equity * VolTargetLeverage(m.target, m.vol, m.cap)) \div 100
          [] m.method = "atr"        -> AtrNotional(equity, m.risk, price, m.atr, m.mult)
          [] m.method = "kelly"      -> (equity * KellyPercent(m.win, m.ratio, m.fraction, m.sample)) \div 100,
        0, equity)

\* lev > 1 multiplies what the method chose, at most by max and at most to
\* lev times the equity; nothing stays nothing.
FuturesNotional(base, equity, lev, max) ==
  LET l == Clamp(lev, 1, max) IN IF base <= 0 THEN 0 ELSE Clamp(base * l, 0, equity * l)

\* Legacy sizing is a percentage of the equity, which is in hundredths here.
\* The quantity pays its own commission (rate, in percent), and is rounded
\* down to whole units.
OrderQty_NoCommission(m, equity, price, rate, percent, lev, max) ==
  LET base == IF m.method = "legacy" THEN (equity * percent) \div 100 ELSE PositionNotional(m, equity, price)
  IN  IF equity <= 0 \/ price <= 0 THEN 0 ELSE base \div (price * 100)
OrderQty(m, equity, price, rate, percent, lev, max) ==
  LET base == IF m.method = "legacy" THEN (equity * percent) \div 100 ELSE PositionNotional(m, equity, price)
      size == IF lev > 1 THEN FuturesNotional(base, equity, lev, max) ELSE base
  IN  IF equity <= 0 \/ price <= 0 THEN 0 ELSE size \div (price * (100 + rate))

\* A weight that is missing or not positive counts as nothing; when none is
\* positive the children share alike.
SumOf(s) == FoldLeft(LAMBDA a, b : a + b, 0, s)
Weight(weights, k) == IF k <= Len(weights) /\ weights[k] > 0 THEN weights[k] ELSE 0
ChildCapital(capital, weights, n, k) ==
  LET total == SumOf([j \in 1..n |-> Weight(weights, j)])
  IN  IF total = 0 THEN capital \div n ELSE (capital * Weight(weights, k)) \div total

---------------------------------------------------------------------------
(* The portfolio's circuit breakers: the drawdown from the peak of the     *)
(* equity shrinks new entries tier by tier, and the sum of the risks       *)
(* blocks them.  The correlated risk is squared, in hundredths.            *)
SizeMultiplier(equity, peak, tiers) ==
  LET hit     == {t \in tiers : 100 * (peak - equity) >= t.dd * peak}
      deepest == {t \in hit : \A u \in hit : u.dd <= t.dd}
  IN  IF deepest = {} THEN 100 ELSE (CHOOSE t \in deepest : TRUE).mult

\* A risk that is not positive counts as nothing, as a weight does.
Heat(risks) == SumOf([k \in 1..Len(risks) |-> Weight(risks, k)])
EffectiveRiskSquared(risks, corr) ==
  LET r  == SelectSeq(risks, LAMBDA x : x > 0)
      sq == SumOf([k \in 1..Len(r) |-> r[k] * r[k]])
  IN  100 * sq + corr * (SumOf(r) * SumOf(r) - sq)
=============================================================================
