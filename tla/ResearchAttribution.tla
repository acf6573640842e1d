------------------------- MODULE ResearchAttribution -------------------------
(***************************************************************************)
(* The attribution report (research/edge_attribution.py): the eligible     *)
(* setups of the whole history with the trades they led to, divided along  *)
(* one dimension after the other, and reconciled with the windows of the   *)
(* baseline report.  Months are UTC dates here; the HTF bias, the time of  *)
(* day and the ratios to the ATR are left out, means and medians too.      *)
(***************************************************************************)
EXTENDS ResearchRegimes

\* _record, for the eligible setups of all time: the trade of one, if there is one.
Records(data, tape) ==
    {[setup |-> o, trades |-> LinkedTo(data, o),
      feature |-> RegimeRow(tape, data.setups[o])]
        : o \in {s \in DOMAIN data.setups : data.setups[s].eligible}}

OpenedRecords(records) == {r \in records : r.trades # {}}
TradeOf(r) == CHOOSE x \in r.trades : TRUE

ClosedRecords(records) == {r \in OpenedRecords(records) : TradeOf(r).state = "closed"}
TradesOf(records) == UNION {r.trades : r \in records}

\* _population
PopulationOf(records) ==
    LET closed == TradesOf(ClosedRecords(records))
    IN [setups |-> Cardinality(records), opened |-> Cardinality(TradesOf(records)),
        closed |-> Cardinality(closed),
        censored |-> Cardinality({x \in TradesOf(records) : x.state = "censored"}),
        total |-> SumR(closed), positive |-> SumR({x \in closed : x.r > 0}),
        negative |-> 0 - SumR({x \in closed : x.r < 0}),
        stops |-> Cardinality({x \in closed : x.stopHit}),
        giveback |-> Cardinality({x \in closed : x.mfe # None}),
        atLeast2 |-> AtLeast(closed, 2), atLeast3 |-> AtLeast(closed, 3),
        atLeast5 |-> AtLeast(closed, 5)]

-----------------------------------------------------------------------------
(* The labels.                                                             *)

\* _age_bucket
AgeBucket(bars) ==
    CASE bars = None -> "missing_or_invalid"
      [] bars # None ->
           CASE bars < 0 -> "missing_or_invalid"
             [] bars = 0 -> "same_decision"
             [] bars = 1 -> "one_bar"
             [] bars \in 2 .. 4 -> "two_to_four"
             [] bars > 4 -> "five_plus"

\* _duration_bucket
DurationBucket(bars) ==
    CASE bars = 0 -> "zero"
      [] bars = 1 -> "one_bar"
      [] bars \in 2 .. 4 -> "two_to_four"
      [] bars \in 5 .. 8 -> "five_to_eight"
      [] bars \in 9 .. 16 -> "nine_to_sixteen"
      [] bars > 16 -> "seventeen_plus"

\* _exit_bucket
ExitBucket(x) ==
    LET strategy == \E reason \in Range(x.reasons) : reason # "exit_stop"
    IN CASE x.stopHit /\ ~strategy -> "stop_only"
         [] ~x.stopHit /\ strategy -> "strategy_only"
         [] x.stopHit /\ strategy -> "stop_and_strategy_same_bar"
         [] OTHER -> "other_or_missing"

\* The path of _build, by the setup's status.
PathBucket(data, r) ==
    LET s == data.setups[r.setup]
    IN CASE r.trades # {} /\ ~s.armed -> "immediate_opened"
         [] r.trades # {} /\ s.armed -> "armed_opened"
         [] r.trades = {} /\ s.armed /\ s.status = "cancelled" -> "armed_cancelled"
         [] OTHER -> "eligible_no_trade_other"

\* _adr_extension_bucket
ExtensionBucket(v) ==
    IF v = None THEN "missing"
    ELSE IF Less(v, Quarter) THEN "lt_0.25"
    ELSE IF Less(v, Half) THEN "gte_0.25_lt_0.5"
    ELSE IF ~Less(One, v) THEN "gte_0.5_lte_1" ELSE "gt_1"

\* _numeric_bucket: the first edge that is not below the value.
NumericBucket(v, edges) ==
    CASE v = None -> "missing"
      [] v # None /\ edges = <<>> -> "nonmissing"
      [] v # None /\ edges # <<>> ->
           IF 4 * v <= edges[1] THEN "Q1" ELSE IF 4 * v <= edges[2] THEN "Q2"
           ELSE IF 4 * v <= edges[3] THEN "Q3" ELSE "Q4"

QuartileLabels(edges) ==
    IF edges = <<>> THEN {"nonmissing", "missing"} ELSE {"Q1", "Q2", "Q3", "Q4", "missing"}

\* A bucket table: over which records, and the records of each of its labels.
TableOf(universe, labels, label) ==
    LET labelled == {<<label[r], r>> : r \in universe}
    IN [universe |-> universe,
        buckets |-> {[label |-> l, records |-> {x[2] : x \in {y \in labelled : y[1] = l}}]
                        : l \in labels}]

AgeLabels == {"same_decision", "one_bar", "two_to_four", "five_plus", "missing_or_invalid"}

\* The bars since the turn of the trend that a trade has entered on.
TurnAge(x) ==
    IF x.features.kalman.since = None THEN None
    ELSE x.features.decision - x.features.kalman.since

\* The bucket tables of _build.  The buckets of the regime features are those of
\* the quartiles of `development', the population of that window.
Tables(data, records, development) ==
    LET opened == OpenedRecords(records)
        closed == ClosedRecords(records)
        Numeric(edges, name) ==
            TableOf(records, QuartileLabels(edges),
                    [r \in records |-> NumericBucket(r.feature[name], edges)])
    IN {TableOf(records, Sides, [r \in records |-> data.setups[r.setup].features.side]),
        TableOf(records, {"immediate_opened", "armed_opened", "armed_cancelled",
                          "eligible_no_trade_other"}, [r \in records |-> PathBucket(data, r)]),
        TableOf(opened, AgeLabels, [r \in opened |-> AgeBucket(TradeOf(r).age)]),
        TableOf(opened, AgeLabels, [r \in opened |-> AgeBucket(TurnAge(TradeOf(r)))]),
        TableOf(opened, {"lt_0.25", "gte_0.25_lt_0.5", "gte_0.5_lte_1", "gt_1", "missing"},
                [r \in opened |-> ExtensionBucket(TradeOf(r).features.extension)]),
        TableOf(closed, {"zero", "one_bar", "two_to_four", "five_to_eight", "nine_to_sixteen",
                         "seventeen_plus", "missing"},
                [r \in closed |-> DurationBucket(TradeOf(r).observed)]),
        TableOf(closed, {"stop_only", "strategy_only", "stop_and_strategy_same_bar",
                         "other_or_missing"}, [r \in closed |-> ExitBucket(TradeOf(r))]),
        TableOf(records, {"true", "false"},
                [r \in records |-> IF r.feature.aligned THEN "true" ELSE "false"])}
       \cup {Numeric(Edges(development, name), name) : name \in NumericFeatures}

\* _bucket_table: the buckets exhaust the records, or the report stops.
Exhaustive(table) == UNION {b.records : b \in table.buckets} = table.universe

\* _cross_tab_reconciliation: in every period, by the setup's decision, the
\* entries of the buckets of a table have the records, closed trades and result
\* of the period.
CrossTabReconciles(table) ==
    LET period(r) == r.setup \div DayBars
        closed(r) == r.trades # {} /\ TradeOf(r).state = "closed"
    IN \A entries \in {UNION {{<<b.label, r>> : r \in b.records} : b \in table.buckets}} :
       \A d \in {period(r) : r \in table.universe} :
          LET counted == {e \in entries : period(e[2]) = d}
              closing == {e \in counted : closed(e[2])}
              records == {r \in table.universe : period(r) = d}
              trades == {r \in records : closed(r)}
          IN /\ Cardinality(counted) = Cardinality(records)
             /\ Cardinality(closing) = Cardinality(trades)
             /\ SumOver(closing, LAMBDA e : TradeOf(e[2]).r) = SumR(TradesOf(trades))

\* _failure_report and _stopped_report: the failure modes of all closed trades.
FailureReport(records) == FailurePartition(TradesOf(ClosedRecords(records)))

\* _windows: what the records say of a window and what the baseline report
\* says.  A metric that is None, for want of trades or of losing ones, stops
\* the report as a mismatch does.
WindowReconciles(data, records, w) ==
    LET inside == {r \in ClosedRecords(records) :
                      /\ Inside(w, Decision(data, TradeOf(r)))
                      /\ Inside(w, TradeOf(r).features.decision)
                      /\ Inside(w, TradeOf(r).exit)}
        item == PopulationOf(inside)
        frozen == WindowReport(data, w)
        observed == {o \in DOMAIN data.setups : Inside(w, data.setups[o].features.decision)}
    IN /\ observed = frozen.observed
       /\ {o \in observed : data.setups[o].eligible} = frozen.eligible
       /\ {o \in observed : data.setups[o].status = "opened"} = frozen.opened
       /\ item.closed = Cardinality(frozen["included"])
       /\ item.total = SumR(frozen["included"])
       /\ Cardinality({x \in Trades(data) : x.state = "censored"
                                            /\ Inside(w, x.features.decision)})
             = Cardinality(frozen["censored"])
       /\ item.closed > 0 /\ item.negative > 0

\* The contribution bridge of _build, and its setup conversion.
Bridged(data, records) ==
    LET all == PopulationOf(records)
        path(name) == PopulationOf({r \in records : PathBucket(data, r) = name})
        immediate == path("immediate_opened")
        armed == path("armed_opened")
    IN /\ all.positive - all.negative = all.total
       /\ immediate.opened + armed.opened = all.opened
       /\ immediate.closed + armed.closed = all.closed
       /\ immediate.total + armed.total = all.total
=============================================================================
