--------------------------- MODULE ResearchLedgers ---------------------------
(***************************************************************************)
(* The trade ledgers that the cross-market studies derive from the traces  *)
(* on their own, beside the dataset: market_transfer.py, xau_robustness.py *)
(* and xm_gold_historical_validation.py.  They have no setup statuses but  *)
(* paths; the first two call a setup cancelled as soon as it is armed and  *)
(* correct that when it opens, the third one calls it pending.             *)
(* Also how the two later studies measure the drawdown of the trades in    *)
(* the order of their exits.                                               *)
(***************************************************************************)
EXTENDS ResearchReports

ArmedPaths == {"armed_pending", "armed_then_cancelled"}

\* One event of the loop over the traces, that of bar i.  A setup is armed on
\* the bar of its flip, so that pending_flip_timestamp is the bar's own time; a
\* setup that was not recorded raises an error.
LedgerEvent(tape, armed, b, i, e) ==
    LET t == Finalized(tape[i])
    IN CASE e.type = "hema_flip_detected" -> [b EXCEPT !.paths = With(@, t, "rejected")]
         [] e.type = "setup_armed" ->
              IF t \notin DOMAIN b.paths THEN [b EXCEPT !.raised = TRUE]
              ELSE [b EXCEPT !.paths[t] = armed, !.pending[e.side] = t]
         [] e.type = "setup_cancelled" ->
              IF b.pending[e.side] = None THEN b
              ELSE [b EXCEPT !.paths[b.pending[e.side]] = "armed_then_cancelled",
                             !.pending[e.side] = None]
         [] e.type = "trade_opened" ->
              LET origin == e.trade.origin
                  path == IF origin \in DOMAIN b.paths /\ b.paths[origin] = armed
                          THEN "armed_then_opened" ELSE "immediate_open"
              IN [b EXCEPT !.paths = With(@, origin, path),
                           !.entries = Append(@, [trade |-> e.trade, at |-> i, path |-> path])]
         [] OTHER -> b

LedgerBar(tape, armed, b, i) ==
    LET events == tape[i].events
        after[k \in 0 .. Len(events)] ==
            IF k = 0 THEN b ELSE LedgerEvent(tape, armed, after[k - 1], i, events[k])
    IN after[Len(events)]

\* The row of a trade.  The best price of the strict excursion is one of the
\* bars before that of the exit.
LedgerRow(tape, entry) ==
    LET closes == Closes(tape, entry.trade.id)
        close == CHOOSE item \in closes : TRUE
        bars == (entry.at + 1) .. close[1]
        Favorable(ks) ==
            Excursions(entry.trade.side, entry.trade.price, {tape[k].quote : k \in ks}).mfe
        contiguous ==
            /\ Cardinality(bars) = tape[close[1]].open - tape[entry.at].open
            /\ \A k \in bars : tape[k].open = tape[entry.at].open + (k - entry.at)
    IN [id |-> entry.trade.id, origin |-> entry.trade.origin, path |-> entry.path,
        entered |-> Finalized(tape[entry.at])]
       @@ IF closes = {}
          THEN [state |-> "censored", exit |-> None, r |-> None, stopHit |-> None,
                mfe |-> None, strict |-> None]
          ELSE [state |-> "closed", exit |-> Finalized(tape[close[1]]), r |-> close[2].r,
                stopHit |-> "exit_stop" \in Range(close[2].reasons),
                mfe |-> IF contiguous THEN Favorable(bars) ELSE None,
                strict |-> IF contiguous THEN Favorable(bars \ {close[1]}) ELSE None]

\* _ledger
Ledger(tape, armed) ==
    LET after[i \in 0 .. Len(tape)] ==
            IF i = 0 THEN [paths |-> <<>>, pending |-> [side \in Sides |-> None],
                           entries |-> <<>>, raised |-> FALSE]
            ELSE LedgerBar(tape, armed, after[i - 1], i)
        b == after[Len(tape)]
    IN [paths |-> b.paths, raised |-> b.raised,
        rows |-> {LedgerRow(tape, b.entries[k]) : k \in DOMAIN b.entries}]

\* Mutation: a setup that was armed first is forgotten when its trade opens.
LedgerEligible_Immediate(ledger) ==
    {o \in DOMAIN ledger.paths : ledger.paths[o] \in {"immediate_open", "armed_then_cancelled"}}

\* The paths that are counted as eligible setups.
LedgerEligible(ledger) ==
    {o \in DOMAIN ledger.paths :
        ledger.paths[o] \in {"immediate_open", "armed_then_opened", "armed_then_cancelled"}}

\* _distribution: the months in which setups originate and trades are entered,
\* here UTC dates.
Distribution(ledger) ==
    LET period(t) == t \div DayBars
    IN [setups |-> [d \in {period(o) : o \in DOMAIN ledger.paths} |->
                      {o \in DOMAIN ledger.paths : period(o) = d}],
        trades |-> [d \in {period(x.entered) : x \in ledger.rows} |->
                      {x \in ledger.rows : period(x.entered) = d}],
        crossing |-> {x \in ledger.rows : period(x.origin) # period(x.entered)}]

-----------------------------------------------------------------------------
(* The results of the closed trades in the order of their exits.           *)

Results(rows) ==
    LET ordered == SetToSortSeq({x \in rows : x.state = "closed"}, LAMBDA x, y :
                       x.exit < y.exit \/ (x.exit = y.exit /\ x.id < y.id))
    IN [k \in DOMAIN ordered |-> ordered[k].r]

\* One trade in the loops of path_risk and _chronological.
RiskStep(b, r) ==
    LET equity == b.equity + r
        top == equity > b.peak
        peak == IF top THEN equity ELSE b.peak
        peakAt == IF top THEN b.count + 1 ELSE b.peakAt
        loss == IF r < 0 THEN b.loss + 1 ELSE 0
        deeper == peak - equity > b.drawdown
    IN [count |-> b.count + 1, equity |-> equity, peak |-> peak, peakAt |-> peakAt,
        drawdown |-> IF deeper THEN peak - equity ELSE b.drawdown,
        from |-> IF deeper THEN peakAt ELSE b.from,
        trough |-> IF deeper THEN b.count + 1 ELSE b.trough,
        loss |-> loss, longest |-> IF loss > b.longest THEN loss ELSE b.longest]

Cumulative(rs, k) == FoldLeft(+, 0, SubSeq(rs, 1, k))

\* path_risk: recovered is the first trade after the trough that is back at the
\* peak, None without one.
PathRisk(rs) ==
    LET b == FoldLeft(RiskStep,
                      [count |-> 0, equity |-> 0, peak |-> 0, peakAt |-> 0, drawdown |-> 0,
                       from |-> 0, trough |-> 0, loss |-> 0, longest |-> 0], rs)
        back == {k \in (b.trough + 1) .. Len(rs) : Cumulative(rs, k) >= Cumulative(rs, b.from)}
    IN [drawdown |-> b.drawdown, from |-> b.from, trough |-> b.trough, longest |-> b.longest,
        recovered |-> IF back = {} THEN None ELSE Smallest(back)]

\* The worst run of n trades in a row, the earliest of equals; None with fewer.
WorstWindow(rs, n) ==
    LET total(k) == FoldLeft(+, 0, SubSeq(rs, k + 1, k + n))
        starts == 0 .. (Len(rs) - n)
        least == Smallest({total(k) : k \in starts})
    IN IF starts = {} THEN None
       ELSE [total |-> least, start |-> Smallest({k \in starts : total(k) = least})]

\* partitions of _chronological: count slices, the first ones one trade longer.
Slices(rs, count) ==
    LET base == Len(rs) \div count
        rest == Len(rs) % count
        upTo(k) == k * base + (IF k < rest THEN k ELSE rest)
    IN [k \in 1 .. count |-> SubSeq(rs, upTo(k - 1) + 1, upTo(k))]
=============================================================================
