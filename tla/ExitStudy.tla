------------------------------ MODULE ExitStudy ------------------------------
(***************************************************************************)
(* What the exit studies read off one trade.  Stage 1                      *)
(* (research/exit_efficiency.py) looks at the canonical trade alone: how   *)
(* far it ran, when, and how much of that its exit kept.  Stage 2          *)
(* (research/exit_experiments.py) compares the candidate of                *)
(* ExitCounterfactual with it and audits the bars whose order of prices is *)
(* unknown.  Both are functions of the finished path; the properties relate *)
(* them to each other and to the simulation.                               *)
(*                                                                         *)
(* Moves are prices; a result is money, with Scale of it in one price unit. *)
(***************************************************************************)
EXTENDS ExitCounterfactual

Done == canonical # Pending

Scale == Quantity * Unit * Unit

Moved(price) == Signed(price - EntryPrice)   \* the gain of an exit at this price

Best(q) == Moved(IF side = "long" THEN q.high ELSE q.low)
Worst(q) == Moved(IF side = "long" THEN q.low ELSE q.high)

\* _diagnostic_excursions over the first n bars: the largest move against and
\* for the trade, both at least 0.
Adverse(n) == Max({0} \cup {-Worst(path[i]) : i \in 1..n})
Favorable(n) == Max({0} \cup {Best(path[i]) : i \in 1..n})

-----------------------------------------------------------------------------
(* Stage 1: exit_efficiency.py                                             *)

\* Mutation: of equal extremes the latest is the peak.
Peak_Latest(n) ==
    LET move(i) == Max({0, Best(path[i])})
        mfe == Max({move(i) : i \in 1..n})
    IN IF n = 0 THEN [mfe |-> 0, bar |-> 0]
       ELSE [mfe |-> mfe, bar |-> Max({i \in 1..n : move(i) = mfe})]

\* reconstruct_favorable_peak: the earliest bar with the largest favourable
\* excursion (0: no bars).
Peak(n) ==
    LET move(i) == Max({0, Best(path[i])})
        mfe == Max({move(i) : i \in 1..n})
    IN IF n = 0 THEN [mfe |-> 0, bar |-> 0]
       ELSE [mfe |-> mfe, bar |-> Min({i \in 1..n : move(i) = mfe})]

\* _record_for_closed_trade, with giveback_metrics.
Diagnosis ==
    LET full == Peak(canonical.at)
        realized == NetOf(Quantity, canonical.price)
    IN [mfe |-> full.mfe, peak |-> full.bar, onExitBar |-> full.bar = canonical.at,
        strict |-> Peak(canonical.at - 1).mfe,
        realized |-> realized, giveback |-> Scale * full.mfe - realized]

\* THRESHOLDS_R and threshold_reached, in half R.
Landmarks == {1, 2, 3, 4, 6, 8, 10}

Reached(move, landmark) == 2 * move >= landmark * Risk

Retained(record, landmark) == 2 * record.realized >= landmark * Risk * Scale

\* giveback_fraction >= 0.5.
GaveHalfBack(record) == record.mfe > 0 /\ 2 * record.giveback >= Scale * record.mfe

\* realized_outcome_bucket: a loss, below 0.25R, below 1R, 1R or more.
OutcomeBuckets(record) ==
    LET quarters == 4 * record.realized
        risk == Risk * Scale
    IN {b \in {"loss", "near_breakeven", "below_1r", "1r_or_more"} :
          CASE b = "loss" -> quarters < 0
            [] b = "near_breakeven" -> 0 <= quarters /\ quarters < risk
            [] b = "below_1r" -> risk <= quarters /\ quarters < 4 * risk
            [] b = "1r_or_more" -> 4 * risk <= quarters}

\* threshold_reports: what a trade that reached a landmark counts as there.
LandmarkCounts(record, landmark) ==
    {c \in {"positive", "loss", "less_than_1r", "at_least_threshold", "giveback_at_least_50pct"} :
        /\ Reached(record.mfe, landmark)
        /\ CASE c = "positive" -> record.realized > 0
             [] c = "loss" -> record.realized < 0
             [] c = "less_than_1r" -> ~Retained(record, 2)
             [] c = "at_least_threshold" -> Retained(record, landmark)
             [] c = "giveback_at_least_50pct" -> GaveHalfBack(record)}

\* The cohorts of exit_efficiency_report.
Cohorts(record) ==
    {c \in {"A", "B", "C", "D"} :
        CASE c = "A" -> Reached(record.mfe, 2) /\ record.realized < 0
          [] c = "B" -> Reached(record.mfe, 4) /\ record.realized < 0
          [] c = "C" -> Reached(record.mfe, 4) /\ ~Retained(record, 2)
          [] c = "D" -> Reached(record.mfe, 6) /\ GaveHalfBack(record)}

-----------------------------------------------------------------------------
(* Stage 2: exit_experiments.py                                            *)

Closer == components[Len(components)]

\* The sum of the first n amounts.
Total(amount, n) ==
    LET upTo[i \in 0..n] == IF i = 0 THEN 0 ELSE upTo[i - 1] + amount[i]
    IN  upTo[n]

\* _candidate_records.
CandidateRecord ==
    [realized |-> Total([i \in DOMAIN components |-> components[i].net], Len(components)),
     mae |-> Adverse(Closer.at), mfe |-> Favorable(Closer.at), duration |-> Closer.at,
     stopHit |-> Closer.reason \in {"stop", "break_even_stop"}]

\* _canonical_records.
CanonicalRecord ==
    [realized |-> NetOf(Quantity, canonical.price),
     mae |-> Adverse(canonical.at), mfe |-> Favorable(canonical.at),
     duration |-> canonical.at,
     stopHit |-> Touched(path[canonical.at], InitialStop)]

\* _ambiguities looks for a marker inside a flag, so one flag may count twice.
Audit ==
    {c \in {"stop_and_tp", "break_even_conflict", "candidate_and_canonical",
            "resolved_conservatively_against_candidate"} :
        flags \cap
            (CASE c = "stop_and_tp" -> {"stop_and_target"}
               [] c = "break_even_conflict" ->
                    {"trigger_and_new_stop", "break_even_stop_and_canonical"}
               [] c = "candidate_and_canonical" ->
                    {"stop_and_canonical", "break_even_stop_and_canonical",
                     "target_and_canonical"}
               [] OTHER -> {"against_candidate"}) # {}}

\* canonical_ge_2r_winners_with_runner_exposure: a canonical winner of 2R or
\* more whose runner outlived its partial.
RunnerExposed ==
    rule.partial /\ Retained(Diagnosis, 4) /\ PartialDone /\ Closer.at > components[1].at

-----------------------------------------------------------------------------
(* What the studies promise of every trade.                                *)

\* The assertions at the end of simulate_counterfactual hold and the candidate
\* is out by the canonical exit: the parts add up to the position, at most one
\* is a partial and it comes first, and only the last one empties the trade.
PositionCloses ==
    /\ remaining >= 0
    /\ Done => remaining = 0
    /\ remaining + Total([i \in DOMAIN components |-> components[i].quantity], Len(components))
         = Quantity
    /\ \A i \in DOMAIN components :
        /\ components[i].quantity > 0
        /\ components[i].kind = "partial_take_profit" <=> rule.partial /\ i = 1
                /\ components[i].reason = "take_profit"
        /\ i > 1 => components[i - 1].at <= components[i].at
        /\ Done => components[i].at <= canonical.at
    /\ Len(components) <= IF rule.partial THEN 2 ELSE 1

\* No exit is better than the bars offered: its gain or loss lies within the
\* excursions reported up to its bar, and once the stop is at the entry, what
\* is left loses nothing unless a later bar opens beyond it.  So the canonical
\* trade never keeps more than its peak, reaches every landmark it retains,
\* falls into one outcome bucket and into a cohort exactly if the landmark row
\* counts it so, and its peak is in doubt exactly if the strict one is lower.
FillsAttainable ==
    /\ \A i \in DOMAIN components :
        LET c == components[i] IN
        /\ -Adverse(c.at) <= Moved(c.price) /\ Moved(c.price) <= Favorable(c.at)
        /\ c.reason = "take_profit" => Moved(c.price) > 0
        /\ moved # 0 /\ Moved(c.price) < 0 => c.at > moved /\ c.price = path[c.at].open
    /\ Done =>
        \A record \in {Diagnosis} :
            /\ record.mfe = CanonicalRecord.mfe
            /\ record.giveback >= 0
            /\ \A l \in Landmarks : Retained(record, l) => Reached(record.mfe, l)
            /\ Cardinality(OutcomeBuckets(record)) = 1
            /\ \A row \in {<<"A", 2, "loss">>, <<"B", 4, "loss">>, <<"C", 4, "less_than_1r">>,
                           <<"D", 6, "giveback_at_least_50pct">>} :
                   row[1] \in Cohorts(record) <=> row[3] \in LandmarkCounts(record, row[2])
            /\ record.onExitBar <=>
                   record.strict < record.mfe \/ (record.mfe = 0 /\ canonical.at = 1)

\* The two stages agree on what a rule can change.  Its trigger acts exactly if
\* the strict peak of Stage 1 reaches its target: then a partial is taken or
\* the stop moved, and a full target is what the trade exits with.  Otherwise
\* the candidate ends with the canonical trade, on its bar, at its price, with
\* its record.  The audit lists a trade as resolved against the candidate
\* exactly if, on the first bar that reaches the target while it is held,
\* another exit was reachable too; its runner is exposed unless it ended there.
DiffersOnlyByTrigger ==
    Done =>
        \A record \in {Diagnosis} :
            LET reaches == Reached(record.strict, rule.target)
                first == {i \in 1..Closer.at : /\ FavorableReached(path[i])
                                               /\ \A j \in 1..(i - 1) : ~FavorableReached(path[j])}
            IN /\ PartialDone = (rule.partial /\ reaches)
               /\ (moved # 0) = (rule.breakEven /\ reaches)
               /\ reaches /\ ~rule.partial /\ ~rule.breakEven =>
                      Closer.reason = "take_profit" /\ Closer.price = Target
               /\ ~reaches =>
                      /\ Len(components) = 1
                      /\ <<Closer.at, Closer.price>> = <<canonical.at, canonical.price>>
                      /\ CandidateRecord = CanonicalRecord
               /\ PartialDone /\ Retained(record, 4) =>
                      RunnerExposed = ("trigger_and_new_stop" \notin flags)
               /\ "resolved_conservatively_against_candidate" \in Audit <=>
                      \E i \in first :
                          \/ i = canonical.at
                          \/ Touched(path[i], InitialStop)
                          \/ rule.breakEven /\ Touched(path[i], EntryPrice)
=============================================================================
