-------------------------- MODULE ResearchEvidence --------------------------
(***************************************************************************)
(* The evidence drawn from a research dataset (research/splits.py,         *)
(* metrics.py, pipeline.py, experiments.py, candidates.py and the          *)
(* populations of exit_experiments.py and regime_candidates.py): what a    *)
(* chronological window counts, how a candidate filter compares with the   *)
(* baseline there, and what has to be presented before the next window may *)
(* be looked at.                                                           *)
(*                                                                         *)
(* A mean is kept as its sum and count, and a comparison of two ratios is  *)
(* one of cross products.  Artifacts are compared by value, as the code    *)
(* compares dataclasses and their fingerprints.                            *)
(***************************************************************************)
EXTENDS ResearchDataset, FiniteSetsExt

CONSTANTS
    Windows,          \* role -> [start, end], in dates, of SplitConfig
    Parts,            \* the sub-windows regime_candidates.py divides them into
    Delays,           \* ExperimentConfig.delays, in bars
    RetentionFloor,   \* setup_retention_floor, as a pair
    TradeFloor        \* final_oos_closed_trade_floor

Roles == DOMAIN Windows

\* utc_ms: a window ends with the last instant of its end date.
Inside(w, t) == w.start * DayBars <= t /\ t < (w.end + 1) * DayBars

Over(w, now) == now >= (w.end + 1) * DayBars

\* SplitConfig.__post_init__ and validate_windows.
WindowsAssumption ==
    /\ Roles = {"development", "validation", "final_oos"}
    /\ \A role \in Roles :
          {Windows[role].start, Windows[role].end} \subseteq Int
              /\ Windows[role].start <= Windows[role].end
    /\ Windows["development"].end < Windows["validation"].start
    /\ Windows["validation"].end < Windows["final_oos"].start

\* The literal windows of regime_candidates.py: every date of a window lies in
\* exactly one of its parts.
PartsAssumption ==
    \A role \in Roles :
        LET w == Windows[role] IN
        /\ IsFiniteSet(Parts[role])
        /\ \A part \in Parts[role] :
              {part.start, part.end} \subseteq Int
                  /\ w.start <= part.start /\ part.end <= w.end
        /\ \A day \in w.start .. w.end :
              Cardinality({part \in Parts[role] : part.start <= day /\ day <= part.end}) = 1

\* ResearchConfig.__post_init__ and ExperimentConfig.__post_init__.
ConfigAssumption ==
    /\ Delays \subseteq Nat
    /\ TradeFloor \in Nat \ {0}
    /\ {RetentionFloor[1], RetentionFloor[2]} \subseteq Nat
    /\ 0 < RetentionFloor[1] /\ RetentionFloor[1] <= RetentionFloor[2]

ASSUME EvidenceAssumption == WindowsAssumption /\ PartsAssumption /\ ConfigAssumption

Less(x, y) == x[1] * y[2] < y[1] * x[2]

-----------------------------------------------------------------------------
(* Populations.                                                            *)

Trades(data) == Range(data.trades)

Decision(data, trade) == data.setups[trade.origin].features.decision

EligibleSetups(data, w) ==
    {o \in DOMAIN data.setups :
        data.setups[o].eligible /\ Inside(w, data.setups[o].features.decision)}

\* Mutation: the exit of a trade need not lie in the window.
ClosedTrades_AnyExit(data, w) ==
    {x \in Trades(data) :
        /\ x.state = "closed"
        /\ Inside(w, Decision(data, x)) /\ Inside(w, x.features.decision)}

\* candidates._population and experiments._development_population: setup,
\* entry and exit all lie in the window.
ClosedTrades(data, w) ==
    {x \in Trades(data) :
        /\ x.state = "closed"
        /\ Inside(w, Decision(data, x)) /\ Inside(w, x.features.decision)
        /\ Inside(w, x.exit)}

\* exit_experiments._development_population and regime_candidates._population
\* reach the same trades from the window's eligible setups.
LinkedTrades(data, w) ==
    LET eligible == EligibleSetups(data, w)
    IN {x \in Trades(data) :
           /\ x.state = "closed" /\ x.origin \in eligible
           /\ Inside(w, x.features.decision) /\ Inside(w, x.exit)}

\* pipeline._window_report: what becomes of a trade that touches the window.
Treatment(data, w, x) ==
    LET setup == Inside(w, Decision(data, x))
        entry == Inside(w, x.features.decision)
        exit == x.exit # None /\ Inside(w, x.exit)
    IN IF ~(setup \/ entry \/ exit) THEN "outside"
       ELSE IF entry /\ ~setup THEN "purged_setup"
       ELSE IF x.state = "censored" THEN IF entry THEN "censored" ELSE "purged_entry_exit"
       ELSE IF entry /\ exit THEN "included" ELSE "purged_entry_exit"

Treated(data, w, how) == {x \in Trades(data) : Treatment(data, w, x) = how}

\* splits.partition_trades, which does not look at the setup.
Partition(w, x) ==
    LET entry == Inside(w, x.features.decision)
        exit == x.exit # None /\ Inside(w, x.exit)
    IN IF x.exit = None THEN IF entry THEN "censored" ELSE "outside"
       ELSE IF entry /\ exit THEN "included"
       ELSE IF entry \/ exit THEN "purged" ELSE "outside"

\* regime_candidates._setup_origin_partition: a part of a window holds the
\* trades of the setups that decided in it.
OriginPart(data, closed, part) ==
    {x \in closed : Inside(part, Decision(data, x))}

-----------------------------------------------------------------------------
(* Metrics.                                                                *)

\* The result of some closed trades.
SumR(rows) ==
    LET sum[S \in SUBSET rows] ==
            IF S = {} THEN 0 ELSE LET x == CHOOSE y \in S : TRUE IN x.r + sum[S \ {x}]
    IN sum[rows]

\* The sum of f over a set.
SumOver(S, f(_)) == SumR({[of |-> x, r |-> f(x)] : x \in S})

\* metrics.calculate_metrics and OutcomeMetrics over closed rows.
Metrics(rows, setups, baseline) ==
    [count |-> Cardinality(rows), setups |-> Cardinality(setups),
     baseline |-> Cardinality(baseline), total |-> SumR(rows),
     gains |-> SumR({x \in rows : x.r > 0}), losses |-> 0 - SumR({x \in rows : x.r < 0})]

BetterExpectancy(base, candidate) ==
    /\ base.count > 0 /\ candidate.count > 0
    /\ Less(<<base.total, base.count>>, <<candidate.total, candidate.count>>)

\* Both are shares of the same setups.
BetterPerSetup(base, candidate) ==
    base.setups > 0 /\ candidate.total > base.total

\* profit_factor is None without a losing trade.
NoWorseProfitFactor(base, candidate) ==
    /\ base.losses > 0 /\ candidate.losses > 0
    /\ ~Less(<<candidate.gains, candidate.losses>>, <<base.gains, base.losses>>)

Retained(candidate) ==
    candidate.setups > 0 /\ ~Less(<<candidate.count, candidate.setups>>, RetentionFloor)

Improved(base, candidate) ==
    /\ BetterExpectancy(base, candidate)
    /\ BetterPerSetup(base, candidate)
    /\ NoWorseProfitFactor(base, candidate)
    /\ Retained(candidate)

-----------------------------------------------------------------------------
(* The development report.                                                 *)

Quarter == <<1, 4>>
Half == <<1, 2>>
One == <<1, 1>>

\* Mutation: the second bucket takes its upper edge too.
Bucket_InclusiveUpper(n, v) ==
    CASE n = 1 -> Less(v, Quarter)
      [] n = 2 -> ~Less(v, Quarter) /\ ~Less(Half, v)
      [] n = 3 -> ~Less(v, Half) /\ ~Less(One, v)
      [] n = 4 -> Less(One, v)

\* _adr_fixed_buckets: <0.25, [0.25, 0.50), [0.50, 1.00], >1.00.
Bucket(n, v) ==
    CASE n = 1 -> Less(v, Quarter)
      [] n = 2 -> ~Less(v, Quarter) /\ Less(v, Half)
      [] n = 3 -> ~Less(v, Half) /\ ~Less(One, v)
      [] n = 4 -> Less(One, v)

Bucketed(rows, n) ==
    {x \in rows : x.features.extension # None /\ Bucket(n, x.features.extension)}

Missing(rows) == {x \in rows : x.features.extension = None}

\* Where a trade that enters on this bar has its stop.
StopOf(side, quote) ==
    IF side = "long" THEN quote.close - quote.stopDistance ELSE quote.close + quote.stopDistance

\* _stop_fill: whether a bar reaches the stop of the delayed entry.
Stopped(side, stop, quote) ==
    IF side = "long" THEN quote.low <= stop ELSE quote.high >= stop

\* _delay_outcome: the same trade entered n bars later, stopped anew from
\* there and otherwise closed with the original; or why it cannot be.
Delayed(tape, x, n) ==
    LET at(t) == CHOOSE i \in DOMAIN tape : Finalized(tape[i]) = t
        entry == at(x.features.decision) + n
        stop == StopOf(x.features.side, tape[entry].quote)
        stops == {i \in (entry + 1) .. at(x.exit) :
                     Stopped(x.features.side, stop, tape[i].quote)}
    IN IF entry > Len(tape) THEN [skipped |-> "insufficient_subsequent_bars"]
       ELSE IF Finalized(tape[entry]) >= x.exit
            THEN [skipped |-> "baseline_not_open_strictly_after_delayed_decision"]
       ELSE IF stops = {} THEN [skipped |-> None, exit |-> x.exit, mode |-> "baseline_exit"]
       ELSE [skipped |-> None, exit |-> Finalized(tape[Smallest(stops)]),
             mode |-> "delayed_stop"]

\* _delay_experiments: the trades that can be entered n bars later.
DelayedTrades(tape, rows, n) ==
    {<<x.id, Delayed(tape, x, n)>> : x \in {y \in rows : Delayed(tape, y, n).skipped = None}}

\* experiments.development_report.
DevelopmentReport(data) ==
    LET w == Windows["development"]
        setups == EligibleSetups(data, w)
        rows == ClosedTrades(data, w)
    IN [source |-> data.source, baseline |-> Metrics(rows, setups, rows),
        buckets |-> [n \in 1 .. 4 |-> Metrics(Bucketed(rows, n), setups, rows)],
        missing |-> Metrics(Missing(rows), setups, rows)]

-----------------------------------------------------------------------------
(* The candidate ADR_ENTRY_EXTENSION_LT_0_50 and its stages.  What a stage *)
(* refuses is the value Refused.                                           *)

Refused == [refused |-> TRUE]

Kept(rows) == {x \in rows : x.features.extension # None /\ Less(x.features.extension, Half)}

\* register_development_candidate.
Register(data, report) ==
    LET w == Windows["development"]
        setups == EligibleSetups(data, w)
        rows == ClosedTrades(data, w)
        candidate == Metrics(Kept(rows), setups, rows)
    IN IF \/ report # DevelopmentReport(data)
          \/ Cardinality(setups) # report.baseline.setups
          \/ Cardinality(rows) # report.baseline.count
          \/ candidate.count # report.buckets[1].count + report.buckets[2].count
          \/ candidate.total # report.buckets[1].total + report.buckets[2].total
       THEN Refused
       ELSE [source |-> data.source, report |-> report, candidate |-> candidate]

\* _evaluate.
Evaluate(data, registration, role) ==
    LET w == Windows[role]
        setups == EligibleSetups(data, w)
        rows == ClosedTrades(data, w)
        base == Metrics(rows, setups, rows)
        candidate == Metrics(Kept(rows), setups, rows)
    IN IF registration.source # data.source THEN Refused
       ELSE [role |-> role, registration |-> registration, source |-> data.source,
             baseline |-> base, candidate |-> candidate,
             missing |-> Cardinality(Missing(rows)),
             improved |-> Improved(base, candidate)]

\* validation_report.
Validation(data, registration) == Evaluate(data, registration, "validation")

\* register_finalist.
Finalist(data, registration, validation) ==
    IF \/ validation # Validation(data, registration)
       \/ ~validation.improved
    THEN Refused
    ELSE [candidate |-> registration, validation |-> validation]

\* reject_after_validation.
Rejection(data, registration, validation) ==
    IF \/ validation # Validation(data, registration)
       \/ validation.improved
    THEN Refused
    ELSE [candidate |-> registration, validation |-> validation, unlocked |-> FALSE]

\* Mutation: the outcome the finalist brings along is believed.
FinalOos_Believes(data, finalist) ==
    LET rows == ClosedTrades(data, Windows["final_oos"])
    IN IF \/ Cardinality(rows) < TradeFloor
          \/ ~finalist.validation.improved
       THEN Refused
       ELSE Evaluate(data, finalist.candidate, "final_oos")

\* final_oos_report: validation is done again before the last window is read.
FinalOos(data, finalist) ==
    LET canonical == Validation(data, finalist.candidate)
        rows == ClosedTrades(data, Windows["final_oos"])
    IN IF \/ Cardinality(rows) < TradeFloor
          \/ finalist.validation # canonical
          \/ canonical = Refused \/ ~canonical.improved
       THEN Refused
       ELSE Evaluate(data, finalist.candidate, "final_oos")
=============================================================================
