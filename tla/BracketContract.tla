-------------------------- MODULE BracketContract --------------------------
(***************************************************************************)
(* What a limit-bracket bot promises, seen from the broker: it buys Qty in *)
(* portions, and then sells in portions what it has bought.  An account    *)
(* shows no difference between its purchases and its owner's: what the     *)
(* owner buys by hand meanwhile may be counted, and sold, as the bot's.    *)
(* Nothing the account held before is.                                     *)
(***************************************************************************)
EXTENDS Integers

CONSTANT Qty

VARIABLES
  bought,  \* executed by the bot's buy orders
  sold,    \* executed by the bot's sell orders
  byHand   \* executed by orders of the account's owner

Buy == /\ sold = 0 \/ byHand > 0
       /\ \E n \in 1..(Qty - bought) : bought' = bought + n
       /\ UNCHANGED <<sold, byHand>>

Sell == /\ bought + byHand >= Qty
        /\ \E n \in 1..(bought + byHand - sold) : sold' = sold + n
        /\ UNCHANGED <<bought, byHand>>

BuyByHand == byHand' > byHand /\ UNCHANGED <<bought, sold>>

Init == bought = 0 /\ sold = 0 /\ byHand = 0
Next == Buy \/ Sell \/ BuyByHand
Spec == Init /\ [][Next]_<<bought, sold, byHand>>
=============================================================================
