------------------------------- MODULE KrxTick -------------------------------
(* The price grid of the Korean exchange (brokers/krx-tick.ts), in won, and     *)
(* the rounding the Korean adapters send limit prices through.                  *)
EXTENDS Integers

\* krxTick: the grid of a price, by the band it lies in.
KrxTick(p) ==
  CASE p < 2000 -> 1
    [] p >= 2000 /\ p < 5000 -> 5
    [] p >= 5000 /\ p < 20000 -> 10
    [] p >= 20000 /\ p < 50000 -> 50
    [] p >= 50000 /\ p < 200000 -> 100
    [] p >= 200000 /\ p < 500000 -> 500
    [] OTHER -> 1000

\* Math.round(p / t) * t, halves up.
RoundTo(p, t) == ((2 * p + t) \div (2 * t)) * t

\* A price that is not positive is left alone.
RoundToKrxTick(p) == IF p > 0 THEN RoundTo(p, KrxTick(p)) ELSE p
==============================================================================
