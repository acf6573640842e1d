---------------------------- MODULE PaperTrading ----------------------------
(***************************************************************************)
(* What paper execution promises, without ledgers, adapters, databases or  *)
(* processes: candles are taken one by one, each exactly once; at most one *)
(* order is outstanding and it stops the candles; the position is flat or  *)
(* holds exactly one trade, entered and left by fills; a rejection stops   *)
(* everything for good.                                                    *)
(***************************************************************************)
EXTENDS Integers

CONSTANTS Candles, None

VARIABLES
    taken,      \* how many candles were accepted
    holding,    \* the candle that opened the trade in position, or None
    order,      \* the outstanding order, or None
    halted      \* an order was rejected

vars == <<taken, holding, order, halted>>

Entry(k) == [opens |-> TRUE, trade |-> k]

Close(k) == [opens |-> FALSE, trade |-> k]

Init == taken = 0 /\ holding = None /\ order = None /\ halted = FALSE

\* What a candle may ask for: to enter when flat, to leave when in position.
Wanted(k) == IF holding = None THEN Entry(k) ELSE Close(holding)

HoldingAfter(o) == IF o.opens THEN o.trade ELSE None

Settle(o) ==
    /\ holding' = HoldingAfter(o)
    /\ order' = None
    /\ UNCHANGED halted

Refuse ==
    /\ halted' = TRUE
    /\ order' = None
    /\ UNCHANGED holding

Take ==
    /\ order = None /\ ~halted
    /\ taken + 1 \in Candles
    /\ taken' = taken + 1
    /\ \/ UNCHANGED <<holding, order, halted>>
       \/ order' = Wanted(taken + 1) /\ UNCHANGED <<holding, halted>>
       \/ Settle(Wanted(taken + 1))
       \/ Refuse

\* The outstanding order is answered later.
Answer ==
    /\ order # None
    /\ UNCHANGED taken
    /\ Settle(order) \/ Refuse

Next == Take \/ Answer

Spec == Init /\ [][Next]_vars
=============================================================================
