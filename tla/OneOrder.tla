------------------------------ MODULE OneOrder ------------------------------
(***************************************************************************)
(* What a bot promises about the account it trades, failures or not: one   *)
(* order at a time, a buy only when its earlier orders have left it next   *)
(* to nothing, a sell only of what they bought.                            *)
(***************************************************************************)
EXTENDS Integers

CONSTANTS
    MaxDust,      \* a base amount that may count as nothing
    Quantities    \* the amounts an order may be for

VARIABLES held,      \* base the bot's orders bought and have not sold
          order      \* the order that can still trade: its side and what is left

orderVars == <<held, order>>

NoOrder == [side |-> "none", left |-> 0]

Start == held = 0 /\ order = NoOrder

Submit(side, qty) ==
    /\ order = NoOrder
    /\ IF side = "buy" THEN held <= MaxDust ELSE qty <= held
    /\ order' = [side |-> side, left |-> qty]
    /\ UNCHANGED held

\* k units trade; the order lives on with the rest, or is over.
Trade(k) ==
    /\ order # NoOrder
    /\ held' = IF order.side = "buy" THEN held + k ELSE held - k
    /\ order' \in {NoOrder, [order EXCEPT !.left = @ - k]}

Run == \/ \E side \in {"buy", "sell"}, qty \in Quantities : Submit(side, qty)
       \/ \E k \in 0 .. order.left : Trade(k)

OneOrderSpec == Start /\ [][Run]_orderVars
=============================================================================
