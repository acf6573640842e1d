------------------------------ MODULE Backtest ------------------------------
(***************************************************************************)
(* BacktestEngine.run_traces (backtest/engine.py) and calculate_metrics    *)
(* (backtest/metrics.py), composed with the replay that emits the traces.  *)
(* The engine keeps no strategy of its own: it pairs TRADE_OPENED with     *)
(* TRADE_CLOSED and refuses (ValueError, no result at all) a stream that   *)
(* does not pair.  It reads the traces in their order, so its fold is run  *)
(* here beside the replay, one trace at a time.                            *)
(*                                                                         *)
(* ReplayEngine.run may resume from a saved state; the traces of such a    *)
(* replay begin in the middle of the strategy's history.                   *)
(*                                                                         *)
(* Prices are integers, execution prices are in 1/Unit of a price, money   *)
(* in 1/Unit^2: SlippageRate and FeeRate are in 1/Unit.                    *)
(***************************************************************************)
EXTENDS Replay, FiniteSets

CONSTANTS
    Unit, Quantity, FeeRate, SlippageRate

\* BacktestConfig.
LegalCosts ==
    /\ Unit \in Nat \ {0} /\ Quantity \in Nat \ {0}
    /\ FeeRate \in Nat /\ SlippageRate \in Nat

ASSUME CostAssumption == LegalCosts

\* The TRADE_OPENED that open_trade was made of.
OpenEvents == [type: {"trade_opened"}, id: Nat, side: Directions, price: Int, ts: Times]

ASSUME EventAssumption == None \notin OpenEvents

VARIABLES
    account,   \* the locals of run_traces: open_trade, trades, seen_trade_ids
    refused,   \* run_traces has raised
    carried    \* history: sequence number of a trade open before the first trace (0: none)

books == <<account, refused, carried>>

NoAccount == [open |-> None, trades |-> <<>>, seen |-> {}]

\* Slippage always worsens the fill: bought higher, sold lower.
EntryExecutionPrice(price, side) ==
    price * (IF side = "long" THEN Unit + SlippageRate ELSE Unit - SlippageRate)

ExitExecutionPrice(price, side) ==
    price * (IF side = "long" THEN Unit - SlippageRate ELSE Unit + SlippageRate)

FeeOf(execution) == execution * Quantity * FeeRate

\* An accounting event, with the fields _event copies from the trade.
EventOf(e, t) ==
    LET of == IF e.type = "trade_opened" THEN trade' ELSE trade
    IN  IF e.type \in {"trade_opened", "trade_closed"}
        THEN [type |-> e.type, id |-> of.seq, side |-> of.side, price |-> e.price, ts |-> t]
        ELSE [type |-> "other"]

AccountingEvents(t) == [i \in 1..Len(events') |-> EventOf(events'[i], t)]

\* When run_traces and _open take a TRADE_OPENED.
OpenAccepted(book, ev) ==
    /\ book.open = None
    /\ ev.id \notin book.seen
    /\ trade' # None
    /\ <<trade'.seq, trade'.side, trade'.entryTs, trade'.entry>>
        = <<ev.id, ev.side, ev.ts, ev.price>>

\* When run_traces and _close take a TRADE_CLOSED.
CloseAccepted(book, ev) ==
    /\ book.open # None
    /\ <<book.open.id, book.open.side>> = <<ev.id, ev.side>>
    /\ book.open.ts <= ev.ts

Accepted(book, ev) ==
    CASE ev.type = "trade_opened" -> OpenAccepted(book, ev)
      [] ev.type = "trade_closed" -> CloseAccepted(book, ev)
      [] ev.type = "other" -> TRUE

ClosedTrade(open, ev) ==
    LET entry == EntryExecutionPrice(open.price, open.side)
        exit == ExitExecutionPrice(ev.price, open.side)
        gross == (IF open.side = "long" THEN exit - entry ELSE entry - exit)
                    * Quantity * Unit
        fees == FeeOf(entry) + FeeOf(exit)
    IN  [id |-> open.id, side |-> open.side, from |-> open.ts, to |-> ev.ts,
         canonical |-> <<open.price, ev.price>>,
         gross |-> gross, fees |-> fees, net |-> gross - fees]

\* Mutation: a closed trade stays the open one.
Booked_KeepsOpen(book, ev) ==
    IF ev.type = "trade_opened"
    THEN [book EXCEPT !.open = ev, !.seen = @ \cup {ev.id}]
    ELSE IF ev.type = "trade_closed"
    THEN [book EXCEPT !.trades = Append(@, ClosedTrade(book.open, ev))]
    ELSE book

Booked(book, ev) ==
    IF ev.type = "trade_opened"
    THEN [book EXCEPT !.open = ev, !.seen = @ \cup {ev.id}]
    ELSE IF ev.type = "trade_closed"
    THEN [book EXCEPT !.trades = Append(@, ClosedTrade(book.open, ev)), !.open = None]
    ELSE book

\* What run_traces holds after the first events of a trace: it goes on up to the
\* first one that is refused.
Take(acc, ev) ==
    IF acc.ok /\ Accepted(acc.book, ev)
    THEN [acc EXCEPT !.book = Booked(acc.book, ev)]
    ELSE [acc EXCEPT !.ok = FALSE]

Progress(evs) ==
    LET after[i \in 0..Len(evs)] ==
            IF i = 0 THEN [ok |-> ~refused, book |-> account]
            ELSE Take(after[i - 1], evs[i])
    IN  after

TakeTrace(t) ==
    LET evs == AccountingEvents(t)
        end == Progress(evs)[Len(evs)]
    IN  /\ account' = IF end.ok THEN end.book ELSE account
        /\ refused' = ~end.ok

-----------------------------------------------------------------------------
(* calculate_metrics over the trades and the equity curve.                 *)

\* The running sum of a sequence of numbers, from 0.
Running(s) ==
    LET sum[i \in 0..Len(s)] == IF i = 0 THEN 0 ELSE sum[i - 1] + s[i] IN sum

SumOf(s) == Running(s)[Len(s)]

\* realized_equity after each closed trade; it starts at zero.
EquityCurve(trades) == Running([i \in 1..Len(trades) |-> trades[i].net])

Higher(x, y) == IF x > y THEN x ELSE y

\* Mutation: the first point of the curve is the first peak.
Watermarks_FromFirst(curve, n) ==
    LET level[i \in 0..n] ==
            IF i = 0 THEN [peak |-> curve[IF n = 0 THEN 0 ELSE 1], down |-> 0]
            ELSE LET peak == Higher(level[i - 1].peak, curve[i])
                 IN  [peak |-> peak, down |-> Higher(level[i - 1].down, peak - curve[i])]
    IN  level

\* The highest equity so far, from zero, and the deepest fall from it.
Watermarks(curve, n) ==
    LET level[i \in 0..n] ==
            IF i = 0 THEN [peak |-> 0, down |-> 0]
            ELSE LET peak == Higher(level[i - 1].peak, curve[i])
                 IN  [peak |-> peak, down |-> Higher(level[i - 1].down, peak - curve[i])]
    IN  level

MaxDrawdown(trades) == Watermarks(EquityCurve(trades), Len(trades))[Len(trades)].down

Metrics(trades) ==
    LET all == 1..Len(trades)
        gross == [i \in all |-> trades[i].gross]
    IN  [total |-> Len(trades),
         winning |-> Cardinality({i \in all : trades[i].net > 0}),
         losing |-> Cardinality({i \in all : trades[i].net < 0}),
         flat |-> Cardinality({i \in all : trades[i].net = 0}),
         long |-> Cardinality({i \in all : trades[i].side = "long"}),
         grossProfit |-> SumOf([i \in all |-> Higher(0, gross[i])]),
         grossLoss |-> SumOf([i \in all |-> Higher(0, -gross[i])]),
         fees |-> SumOf([i \in all |-> trades[i].fees]),
         netProfit |-> SumOf([i \in all |-> trades[i].net]),
         maxDrawdown |-> MaxDrawdown(trades)]

-----------------------------------------------------------------------------
BacktestInit ==
    /\ ReplayInit
    /\ account = NoAccount /\ refused = FALSE /\ carried = 0

\* A 4h trace carries no event.
HtfTrace(t, rel) == HtfStep(t, rel) /\ UNCHANGED books

LtfTrace(t, rel, b) ==
    /\ LtfStep(t, rel, b)
    /\ TakeTrace(t)
    /\ UNCHANGED carried

\* The accounted replay is one that resumes from the state reached here.
ResumedReplay ==
    /\ trade # None
    /\ carried = 0
    /\ account' = NoAccount /\ refused' = FALSE
    /\ carried' = trade.seq
    /\ UNCHANGED <<vars, feed>>

BacktestNext ==
    \/ \E t \in Times, rel \in Relations :
        \/ HtfTrace(t, rel)
        \/ \E b \in Bars : LtfTrace(t, rel, b)
    \/ ResumedReplay

BacktestSpec == BacktestInit /\ [][BacktestNext]_<<vars, feed, books>>

-----------------------------------------------------------------------------
\* The accounting follows the strategy and never refuses what a replay from
\* the initial state emits: it holds exactly the strategy's open trade.  It
\* refuses a resumed replay, and only when the trade carried into it closes.
AccountFollows ==
    /\ refused <=> carried # 0 /\ (trade = None \/ trade.seq # carried)
    /\ ~refused =>
        IF trade = None \/ trade.seq = carried THEN account.open = None
        ELSE /\ account.open # None
             /\ <<trade.seq, trade.side, trade.entry, trade.entryTs>>
                 = <<account.open.id, account.open.side, account.open.price, account.open.ts>>

\* The report reconciles: equity ends at gross profit minus gross loss minus
\* fees, costs never turn out in the trade's favour, trades do not overlap,
\* and the drawdown is the deepest fall from any earlier equity (or from 0).
ReportReconciles ==
    LET closed == account.trades
        m == Metrics(closed)
        equity == EquityCurve(closed)
    IN  /\ equity[Len(closed)] = m.netProfit
        /\ m.netProfit = m.grossProfit - m.grossLoss - m.fees
        /\ \A i \in DOMAIN closed :
            closed[i].net <= (IF closed[i].side = "long" THEN 1 ELSE -1)
                * (closed[i].canonical[2] - closed[i].canonical[1]) * Quantity * Unit * Unit
        /\ \A i \in 2..Len(closed) : closed[i - 1].to < closed[i].from
        /\ \E i, j \in 0..Len(closed) : i <= j /\ m.maxDrawdown = equity[i] - equity[j]
        /\ \A i, j \in 0..Len(closed) : i <= j => equity[i] - equity[j] <= m.maxDrawdown
=============================================================================
