--------------------------- MODULE ResearchRegimes ---------------------------
(***************************************************************************)
(* The regime studies and the population of the exit study: the features   *)
(* of a setup's bar (regime_features.py), the diagnosis that divides a     *)
(* window's setups by them (regime_diagnosis.py), the candidates that keep *)
(* some of those setups (regime_candidates.py), and the trades that may be *)
(* replayed with other exits (exit_experiments.py).                        *)
(*                                                                         *)
(* The code binds these studies to one frozen export by fingerprints; what *)
(* they compute is a function of any dataset and is modelled so.  HEMA     *)
(* slopes, the ATR ratio, correlations, means and medians are left out.    *)
(***************************************************************************)
EXTENDS ResearchReports

CONSTANTS
    EfficiencyBars,   \* lookbacks of directional_efficiency: 8, 16 and 32 in the code
    FlipWindow,       \* bars flip_counts_16 looks at
    PersistenceIqr    \* the quartiles of the frozen diagnosis: <<16, 59>>

ASSUME RegimeAssumption ==
    /\ EfficiencyBars \subseteq Nat \ {0} /\ FlipWindow \in Nat \ {0, 1}
    /\ PersistenceIqr[1] <= PersistenceIqr[2]

-----------------------------------------------------------------------------
(* regime_features.py                                                      *)

\* _has_consecutive_15m: the n bars before bar i are there, none missing.
Consecutive(tape, i, n) ==
    n < i /\ \A k \in (i - n + 1) .. i : tape[k].open = tape[k - 1].open + 1

Distance(x, y) == IF x < y THEN y - x ELSE x - y

\* directional_efficiency: how much of the way the closes went led somewhere.
Efficiency(tape, i, n) ==
    LET close(k) == tape[k].quote.close
        way == SumOver((i - n + 1) .. i, LAMBDA k : Distance(close(k), close(k - 1)))
    IN IF ~Consecutive(tape, i, n) THEN None
       ELSE IF way = 0 THEN <<0, 1>> ELSE <<Distance(close(i), close(i - n)), way>>

Flips(bar) == \E k \in DOMAIN bar.events : bar.events[k].type = "hema_flip_detected"

\* _window_flip_counts
FlipCounts(tape, i) ==
    LET window == (i - FlipWindow + 1) .. i
        hema == Cardinality({k \in window : Flips(tape[k])})
        kalman == Cardinality({k \in window : tape[k].turn # None})
    IN IF Consecutive(tape, i, FlipWindow - 1)
       THEN [hema |-> hema, kalman |-> kalman, combined |-> hema + kalman]
       ELSE [hema |-> None, kalman |-> None, combined |-> None]

\* build_setup_regime_feature_rows: HEMA is on the side of the flip.
RegimeRow(tape, setup) ==
    LET i == CHOOSE k \in DOMAIN tape : Finalized(tape[k]) = setup.features.decision
        flips == FlipCounts(tape, i)
    IN [hema |-> flips.hema, kalman |-> flips.kalman, combined |-> flips.combined,
        efficiency |-> [n \in EfficiencyBars |-> Efficiency(tape, i, n)],
        persistence |-> setup.features.kalman.bars,
        aligned |-> tape[i].trend = setup.features.side]

-----------------------------------------------------------------------------
(* regime_diagnosis.py                                                     *)

\* The boundary audit of _development_population.
Boundary(data, w, x) ==
    LET setup == Inside(w, Decision(data, x))
        entry == Inside(w, x.features.decision)
    IN CASE ~setup /\ ~entry -> "untouched"
         [] ~setup /\ entry -> "setup_out_entry_in"
         [] setup /\ ~entry -> "setup_in_entry_out"
         [] setup /\ entry /\ x.state = "censored" -> "setup_entry_in_censored_unresolved"
         [] setup /\ entry /\ x.state = "closed" ->
              IF Inside(w, x.exit) THEN "setup_entry_exit_included"
              ELSE "setup_entry_in_exit_out"

LinkedTo(data, o) == {x \in Trades(data) : x.origin = o}

\* The category of an eligible setup of the window in _development_population.
Category(data, w, o) ==
    IF LinkedTo(data, o) = {} THEN "non_open_eligible"
    ELSE LET x == CHOOSE y \in LinkedTo(data, o) : TRUE
         IN IF ~Inside(w, x.features.decision) THEN "purged_setup_boundary"
            ELSE IF x.state = "censored" THEN "censored_unresolved"
            ELSE IF Inside(w, x.exit) THEN "included_closed"
            ELSE "purged_entry_exit_boundary"

\* The eligible setups of a window, each with its category, its regime row and
\* the trade that is included with it, if there is one.
Population(data, tape, w) ==
    {LET category == Category(data, w, o)
     IN [setup |-> o, category |-> category, features |-> RegimeRow(tape, data.setups[o]),
         trades |-> IF category = "included_closed" THEN LinkedTo(data, o) ELSE {}]
        : o \in EligibleSetups(data, w)}

Included(rows) == UNION {r.trades : r \in rows}

AtLeast(trades, multiple) == Cardinality({x \in trades : x.r >= multiple * Risk})

\* _metrics over some rows of a population, and the count of trades with little
\* follow-through of _concentrations.
BucketMetrics(rows) ==
    LET trades == Included(rows)
        Count(names) == Cardinality({r \in rows : r.category \in names})
    IN [eligible |-> Cardinality(rows), closed |-> Cardinality(trades),
        opened |-> Count({"included_closed", "censored_unresolved",
                          "purged_entry_exit_boundary"}),
        censored |-> Count({"censored_unresolved"}),
        nonOpen |-> Count({"non_open_eligible"}),
        purgedSetup |-> Count({"purged_setup_boundary"}),
        purgedExit |-> Count({"purged_entry_exit_boundary"}),
        total |-> SumR(trades), positive |-> SumR({x \in trades : x.r > 0}),
        negative |-> SumR({x \in trades : x.r < 0}),
        losing |-> Cardinality({x \in trades : x.r < 0}),
        stopLosses |-> Cardinality({x \in trades : x.stopHit /\ x.r < 0}),
        atLeast2 |-> AtLeast(trades, 2), atLeast3 |-> AtLeast(trades, 3),
        atLeast5 |-> AtLeast(trades, 5),
        lowFollow |-> Cardinality({x \in trades : x.mfe # None /\ x.mfe < Risk})]

\* Four times the three edges of statistics.quantiles(n=4, method="inclusive").
QuartileEdges(values) ==
    [n \in 1 .. 3 |->
        LET j == (n * (Len(values) - 1)) \div 4
            delta == (n * (Len(values) - 1)) % 4
        IN values[j + 1] * (4 - delta) + values[j + 2] * delta]

NumericFeatures == {"hema", "kalman", "combined", "persistence"}

Present(rows, name) == {r \in rows : r.features[name] # None}

\* The frozen edges of a feature, none with fewer than two values.
Edges(rows, name) ==
    LET sorted == SetToSortSeq(Present(rows, name), LAMBDA a, b :
                      \/ a.features[name] < b.features[name]
                      \/ a.features[name] = b.features[name] /\ a.setup < b.setup)
    IN IF Len(sorted) < 2 THEN <<>>
       ELSE QuartileEdges([k \in DOMAIN sorted |-> sorted[k].features[name]])

\* The buckets of a numeric feature, lower edges excluded.
NumericBuckets(rows, name, edges) ==
    IF edges = <<>> THEN {[bucket |-> "all_nonmissing", rows |-> Present(rows, name)]}
    ELSE {[bucket |-> q,
           rows |-> {r \in Present(rows, name) :
                        /\ q = 1 \/ 4 * r.features[name] > edges[q - 1]
                        /\ q = 4 \/ 4 * r.features[name] <= edges[q]}] : q \in 1 .. 4}

\* _feature_diagnosis and build_diagnosis_evidence: a feature's buckets.
FeatureBuckets(rows, name) ==
    (IF name = "aligned"
     THEN {[bucket |-> v, rows |-> {r \in rows : r.features.aligned = v}] : v \in BOOLEAN}
     ELSE UNION {NumericBuckets(rows, name, edges) : edges \in {Edges(rows, name)}})
    \cup {[bucket |-> None, rows |-> rows \ Present(rows, name)]}

\* _validate_metric_algebra
ValidMetrics(m) ==
    /\ m.closed <= m.opened /\ m.opened <= m.eligible
    /\ m.losing <= m.closed /\ m.stopLosses <= m.closed
    /\ m.atLeast5 <= m.atLeast3 /\ m.atLeast3 <= m.atLeast2 /\ m.atLeast2 <= m.closed
    /\ m.closed + m.censored + m.nonOpen + m.purgedSetup + m.purgedExit = m.eligible
    /\ m.positive >= 0 /\ m.negative <= 0 /\ m.total = m.positive + m.negative

\* _validate_bucket_aggregate; _validate_concentrations takes the buckets' sum
\* of lowFollow for that of the baseline.
Additive(buckets, baseline) ==
    FoldSet(LAMBDA b, sum : [field \in DOMAIN sum |-> sum[field] + b.metrics[field]],
            [field \in DOMAIN baseline |-> 0], buckets) = baseline

\* validate_diagnosis_evidence
ValidDiagnosis(rows) ==
    \A baseline \in {BucketMetrics(rows)} :
        /\ ValidMetrics(baseline)
        /\ \A name \in NumericFeatures \cup {"aligned"} :
              \A buckets \in {{[bucket |-> b.bucket, metrics |-> BucketMetrics(b.rows)]
                                  : b \in FeatureBuckets(rows, name)}} :
                 /\ \A b \in buckets : ValidMetrics(b.metrics)
                 /\ Additive(buckets, baseline)

-----------------------------------------------------------------------------
(* regime_candidates.py                                                    *)

Specs == {"KALMAN_PERSISTENCE_OUTSIDE_DEVELOPMENT_IQR", "HEMA_KALMAN_ALIGNED_AT_SETUP"}

\* CandidateSpec.accepts: a setup without the feature is rejected.
Accepts(spec, row) ==
    CASE spec = "HEMA_KALMAN_ALIGNED_AT_SETUP" -> row.aligned
      [] spec = "KALMAN_PERSISTENCE_OUTSIDE_DEVELOPMENT_IQR" ->
           /\ row.persistence # None
           /\ \/ row.persistence <= PersistenceIqr[1]
              \/ row.persistence > PersistenceIqr[2]

\* _metrics: what is kept of some setups and their closed trades.
KeptMetrics(setups, closed, kept) ==
    LET rows == {x \in closed : x.origin \in kept}
    IN [setups |-> Cardinality(setups), retained |-> Cardinality(setups \cap kept),
        baseline |-> Cardinality(closed), closed |-> Cardinality(rows), total |-> SumR(rows),
        positive |-> SumR({x \in rows : x.r > 0})]

\* _evaluate: the candidate on a window and on its parts, by setup.
CandidateResult(data, rows, w, parts, spec) ==
    LET setups == {r.setup : r \in rows}
        closed == LinkedTrades(data, w)
        kept == {r.setup : r \in {q \in rows : Accepts(spec, q.features)}}
        part(v) == {o \in setups : Inside(v, data.setups[o].features.decision)}
    IN [baseline |-> KeptMetrics(setups, closed, setups),
        candidate |-> KeptMetrics(setups, closed, kept),
        windows |-> {[window |-> v,
                      baseline |-> KeptMetrics(part(v), OriginPart(data, closed, v), part(v)),
                      candidate |-> KeptMetrics(part(v), OriginPart(data, closed, v), kept)]
                        : v \in parts}]

\* The four assertions of _evaluate, and that the deltas of the parts add up.
Partitioned(result) ==
    LET Sum(f(_)) == SumOver(result.windows, f)
    IN /\ Sum(LAMBDA v : v.baseline.setups) = result.baseline.setups
       /\ Sum(LAMBDA v : v.baseline.baseline) = result.baseline.baseline
       /\ Sum(LAMBDA v : v.candidate.retained) = result.candidate.retained
       /\ Sum(LAMBDA v : v.candidate.closed) = result.candidate.closed
       /\ Sum(LAMBDA v : v.candidate.total - v.baseline.total)
             = result.candidate.total - result.baseline.total

-----------------------------------------------------------------------------
(* exit_experiments.py                                                     *)

\* _trade_input: whether all bars after the entry are there, up to the exit's.
Replayable(tape, x) ==
    LET opens == (x.features.open + 1) .. (x.features.open + x.expected)
    IN /\ Largest(opens) + 1 = x.exit
       /\ opens \subseteq {tape[i].open : i \in DOMAIN tape}

\* _window_metrics: a sub-window counts a trade that lies in it as a whole.
WholeIn(rows, data, v) ==
    {x \in rows : Inside(v, Decision(data, x)) /\ Inside(v, x.features.decision)
                  /\ Inside(v, x.exit)}
=============================================================================
