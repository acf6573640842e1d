------------------------- MODULE ExitCounterfactual -------------------------
(***************************************************************************)
(* simulate_counterfactual (research/exit_counterfactuals.py): one canonical *)
(* trade and the bars after its entry, replayed under one of the twelve    *)
(* predeclared exit rules.  One action is one bar of post_entry_bars; the  *)
(* alternatives are the branches of the loop, in the order the code tries  *)
(* them: the active stop, the canonical exit on the last bar, then the     *)
(* favourable target.  When the candidate has closed, the remaining bars   *)
(* only belong to the canonical trade.                                     *)
(*                                                                         *)
(* The bars are chosen one by one, so the canonical trade ends when the    *)
(* environment says so.  Prices are integers, execution prices are in      *)
(* 1/Unit of a price and money in 1/Unit^2; a target is counted in half R. *)
(***************************************************************************)
EXTENDS Integers, Sequences, FiniteSetsExt

CONSTANTS
    Quotes,        \* the open, high, low, close a bar may have
    EntryPrice, Risk,
    MaxBars,       \* bound on the bars of a trade
    Unit, FeeRate, SlippageRate

\* CounterfactualTradeInput: the frozen entry and the envelope of its bars.
LegalTrade ==
    /\ EntryPrice \in Int /\ Risk \in Nat \ {0} /\ Risk % 2 = 0
    /\ MaxBars \in Nat \ {0}
    /\ Unit \in Nat \ {0} /\ FeeRate \in Nat /\ SlippageRate \in Nat

LegalQuote(q) ==
    /\ {q.open, q.high, q.low, q.close} \subseteq Int
    /\ q.low <= q.open /\ q.open <= q.high
    /\ q.low <= q.close /\ q.close <= q.high

ASSUME TradeAssumption == LegalTrade

ASSUME QuoteAssumption == \A q \in Quotes : LegalQuote(q)

Quantity == 2   \* in halves of the position: a partial exit takes one

Rule(target, partial, breakEven) ==
    [target |-> target, partial |-> partial, breakEven |-> breakEven]

\* STAGE2_CANDIDATE_SPECS: target_r in half R, 50% partial, move_stop_to_entry.
Rules ==
    {Rule(t, FALSE, FALSE) : t \in {2, 3, 4, 6, 8}}
    \cup {Rule(t, TRUE, FALSE) : t \in {3, 4, 6}}
    \cup {Rule(t, FALSE, TRUE) : t \in {2, 4}}
    \cup {Rule(t, TRUE, TRUE) : t \in {4, 6}}

VARIABLES
    side, rule,
    path,        \* the bars so far
    stop,        \* active_stop
    moved,       \* the bar of the stop transition (0: none)
    remaining,   \* what is still held, in halves
    components,  \* the ExitComponents, in order
    flags,       \* intrabar_ambiguity_flags
    canonical    \* the canonical exit, once its bar has come

vars == <<side, rule, path, stop, moved, remaining, components, flags, canonical>>

Pending == [at |-> 0]

Signed(amount) == IF side = "long" THEN amount ELSE -amount

InitialStop == EntryPrice - Signed(Risk)

Target == EntryPrice + Signed(rule.target * (Risk \div 2))

\* _stop_touch_and_fill.
Touched(q, level) == IF side = "long" THEN q.low <= level ELSE q.high >= level

Filled(q, level) ==
    IF side = "long" THEN IF q.open < level THEN q.open ELSE level
    ELSE IF q.open > level THEN q.open ELSE level

FavorableReached(q) ==
    IF side = "long" THEN q.high >= Target ELSE q.low <= Target

PartialDone == \E i \in DOMAIN components : components[i].kind = "partial_take_profit"

\* Mutation: a partial exit is taken on every bar that reaches the target.
Available_Repeated(q) ==
    /\ FavorableReached(q)
    /\ ~(~rule.partial /\ rule.breakEven /\ moved # 0)

\* favorable_action_available.
Available(q) ==
    /\ FavorableReached(q)
    /\ ~PartialDone
    /\ ~(~rule.partial /\ rule.breakEven /\ moved # 0)

ExecutionEntryPrice ==
    EntryPrice * (IF side = "long" THEN Unit + SlippageRate ELSE Unit - SlippageRate)

ExecutionExitPrice(price) ==
    price * (IF side = "long" THEN Unit - SlippageRate ELSE Unit + SlippageRate)

\* _component: the pro-rata entry fee and the exit fee of its part.
NetOf(quantity, price) ==
    quantity * (Unit * Signed(ExecutionExitPrice(price) - ExecutionEntryPrice)
                - FeeRate * (ExecutionEntryPrice + ExecutionExitPrice(price)))

Component(kind, quantity, price, reason) ==
    [kind |-> kind, quantity |-> quantity, price |-> price, reason |-> reason,
     at |-> Len(path) + 1, net |-> NetOf(quantity, price)]

\* close_remaining, after the components already taken on this bar.
Closing(parts, quantity, price, reason) ==
    Append(parts, Component(IF parts = <<>> THEN "full_position" ELSE "runner",
                            quantity, price, reason))

PartialTaken == Append(components, Component("partial_take_profit", 1, Target, "take_profit"))

-----------------------------------------------------------------------------
Init ==
    /\ side \in {"long", "short"}
    /\ rule \in Rules
    /\ path = <<>>
    /\ stop = InitialStop
    /\ moved = 0
    /\ remaining = Quantity
    /\ components = <<>>
    /\ flags = {}
    /\ canonical = Pending

\* What CounterfactualTradeInput accepts: only the last bar may touch the
\* initial stop; it then closes there, and at its close otherwise.
Canonical(q, last) ==
    /\ ~last => ~Touched(q, InitialStop)
    /\ canonical' =
        IF ~last THEN Pending
        ELSE [at |-> Len(path) + 1,
              price |-> IF Touched(q, InitialStop) THEN Filled(q, InitialStop) ELSE q.close]

\* A bar the simulation still reads.
Reads(q, last) ==
    /\ canonical = Pending
    /\ remaining > 0
    /\ Canonical(q, last)
    /\ path' = Append(path, q)
    /\ UNCHANGED <<side, rule>>

\* The active stop comes first, also before a target or a canonical exit.
StopHit(q, last) ==
    /\ Reads(q, last)
    /\ Touched(q, stop)
    /\ components' = Closing(components, remaining, Filled(q, stop),
                             IF stop = EntryPrice THEN "break_even_stop" ELSE "stop")
    /\ remaining' = 0
    /\ flags' = flags
        \cup (IF Available(q) THEN {"stop_and_target", "against_candidate"} ELSE {})
        \cup (IF moved # 0 THEN {"break_even_stop_hit"} ELSE {})
        \cup (IF last THEN {"stop_and_canonical"} ELSE {})
        \cup (IF last /\ stop = EntryPrice THEN {"break_even_stop_and_canonical"} ELSE {})
    /\ UNCHANGED <<stop, moved>>

\* Mutation: on the last bar the favourable target comes first.
CanonicalExit_TargetFirst(q, last) ==
    /\ Reads(q, last)
    /\ ~Touched(q, stop)
    /\ last
    /\ components' = IF Available(q) THEN Closing(components, remaining, Target, "take_profit")
                     ELSE Closing(components, remaining, canonical'.price, "canonical_exit")
    /\ remaining' = 0
    /\ UNCHANGED <<flags, stop, moved>>

CanonicalExit(q, last) ==
    /\ Reads(q, last)
    /\ ~Touched(q, stop)
    /\ last
    /\ components' = Closing(components, remaining, canonical'.price, "canonical_exit")
    /\ remaining' = 0
    /\ flags' = flags \cup
        (IF Available(q) THEN {"target_and_canonical", "against_candidate"} ELSE {})
    /\ UNCHANGED <<stop, moved>>

\* The bar neither closes nor triggers anything.
Quiet(q) ==
    /\ Reads(q, FALSE)
    /\ ~Touched(q, stop)
    /\ ~Available(q)
    /\ UNCHANGED <<stop, moved, remaining, components, flags>>

\* The favourable level is reached before the last bar.
Triggered(q) ==
    /\ Reads(q, FALSE)
    /\ ~Touched(q, stop)
    /\ Available(q)

TakePartial(q) ==
    /\ Triggered(q)
    /\ rule.partial /\ ~rule.breakEven
    /\ components' = PartialTaken
    /\ remaining' = remaining - 1
    /\ UNCHANGED <<stop, moved, flags>>

TakeProfit(q) ==
    /\ Triggered(q)
    /\ ~rule.partial /\ ~rule.breakEven
    /\ components' = Closing(components, remaining, Target, "take_profit")
    /\ remaining' = 0
    /\ UNCHANGED <<stop, moved, flags>>

\* Mutation: the same-bar stop fills at the bar's open, before it existed.
MoveStop_FillsAtOpen(q) ==
    /\ Triggered(q)
    /\ rule.breakEven
    /\ LET parts == IF rule.partial THEN PartialTaken ELSE components
           rest == IF rule.partial THEN remaining - 1 ELSE remaining
       IN  /\ stop' = EntryPrice
           /\ moved' = Len(path) + 1
           /\ components' = IF Touched(q, EntryPrice)
                            THEN Closing(parts, rest, Filled(q, EntryPrice), "break_even_stop")
                            ELSE parts
           /\ remaining' = IF Touched(q, EntryPrice) THEN 0 ELSE rest
           /\ UNCHANGED flags

\* The stop moves to the entry, after a partial exit if the rule has one; the
\* trigger bar itself may already close the rest at the entry price.
MoveStop(q) ==
    /\ Triggered(q)
    /\ rule.breakEven
    /\ LET parts == IF rule.partial THEN PartialTaken ELSE components
           rest == IF rule.partial THEN remaining - 1 ELSE remaining
       IN  /\ stop' = EntryPrice
           /\ moved' = Len(path) + 1
           /\ components' = IF Touched(q, EntryPrice)
                            THEN Closing(parts, rest, EntryPrice, "break_even_stop")
                            ELSE parts
           /\ remaining' = IF Touched(q, EntryPrice) THEN 0 ELSE rest
           /\ flags' = IF Touched(q, EntryPrice)
                       THEN flags \cup {"trigger_and_new_stop", "against_candidate"}
                       ELSE flags

\* The candidate has closed; the canonical trade goes on to its exit bar.
CanonicalOnly(q, last) ==
    /\ canonical = Pending
    /\ remaining = 0
    /\ Canonical(q, last)
    /\ path' = Append(path, q)
    /\ UNCHANGED <<side, rule, stop, moved, remaining, components, flags>>

Next ==
    \E q \in Quotes :
        \/ \E last \in {b \in BOOLEAN : Len(path) + 1 < MaxBars \/ b} :
            \/ StopHit(q, last)
            \/ CanonicalExit(q, last)
            \/ CanonicalOnly(q, last)
        \/ /\ Len(path) + 1 < MaxBars
           /\ \/ Quiet(q)
              \/ TakePartial(q)
              \/ TakeProfit(q)
              \/ MoveStop(q)

Spec == Init /\ [][Next]_vars
=============================================================================
