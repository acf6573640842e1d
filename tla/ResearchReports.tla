--------------------------- MODULE ResearchReports ---------------------------
(***************************************************************************)
(* What is checked of the rows of a dataset before anything is drawn from  *)
(* them, and the descriptive reports that count them: dataset.py           *)
(* (_validate_build), metrics.py (the row checks and compare_candidate),   *)
(* failure_modes.py, the window and baseline reports of pipeline.py, and   *)
(* the failure counts of market_transfer.py.                               *)
(***************************************************************************)
EXTENDS ResearchEvidence

\* _validate_build: the bars are in order, and a trade is opened once, closed
\* at most once, and never closed before it is opened.
ValidTraces(tape) ==
    LET opened == EventsOf(tape, "trade_opened")
        closed == EventsOf(tape, "trade_closed")
    IN /\ \A i \in 2 .. Len(tape) : tape[i - 1].open < tape[i].open
       /\ \A x \in opened, y \in opened : x[2].trade.id = y[2].trade.id => x = y
       /\ \A x \in closed, y \in closed : x[2].trade = y[2].trade => x = y
       /\ \A x \in closed : \E y \in opened : y[2].trade.id = x[2].trade /\ y[1] <= x[1]

-----------------------------------------------------------------------------
(* metrics.py                                                              *)

\* _validate_closed.
ValidClosed(x) ==
    /\ x.exit # None /\ x.r # None /\ x.reasons # <<>>
    /\ x.exit >= x.features.decision
    /\ x.stopHit = ("exit_stop" \in Range(x.reasons))
    /\ x.elapsed = x.exit - x.features.decision
    /\ x.expected = x.elapsed /\ x.observed <= x.expected
    /\ IF x.mae = None /\ x.mfe = None
       THEN "post_entry_15m_gap" \in x.flags /\ x.observed < x.expected
       ELSE /\ x.mae # None /\ x.mfe # None
            /\ "post_entry_15m_gap" \notin x.flags /\ x.observed = x.expected
            /\ x.mae >= 0 /\ x.mfe >= 0

\* _validate_censored: no field of the outcome is set.
ValidCensored(x) == \A field \in DOMAIN NoOutcome : x[field] = NoOutcome[field]

\* What calculate_metrics asks of the rows it is given.
ValidRows(rows) ==
    /\ \A x \in rows, y \in rows : x.id = y.id => x = y
    /\ \A x \in rows : IF x.state = "closed" THEN ValidClosed(x) ELSE ValidCensored(x)

\* compare_candidate: most of the baseline's result is kept if there is one.
EconomicallyImproved(base, candidate) ==
    /\ BetterExpectancy(base, candidate)
    /\ BetterPerSetup(base, candidate)
    /\ NoWorseProfitFactor(base, candidate)
    /\ base.total <= 0 \/ 10 * candidate.total >= 8 * base.total

-----------------------------------------------------------------------------
(* failure_modes.py                                                        *)

FailureModes == {"F1", "F2", "F3", "F4"}

Raises == "raises"

ASSUME LabelAssumption == None \notin FailureModes \cup {Raises}

\* failure_mode: None for a trade that did not lose; the label of a stopped
\* one needs its excursion.
FailureMode(x) ==
    CASE x.r >= 0 -> None
      [] x.r < 0 /\ ~x.stopHit -> "F4"
      [] x.r < 0 /\ x.stopHit /\ x.mfe = None -> Raises
      [] OTHER -> IF 4 * x.mfe < Risk THEN "F1" ELSE IF x.mfe < Risk THEN "F2" ELSE "F3"

Losses(rows) == {x \in rows : x.r < 0}

\* validate_failure_partition: the losses of each label, and an error if one of
\* them has none.
FailurePartition(rows) ==
    IF \E x \in rows : FailureMode(x) = Raises THEN Refused
    ELSE [label \in FailureModes |-> {x \in rows : FailureMode(x) = label}]

\* market_transfer.py counts its stopped trades by excursion whether they lost
\* or not, and skips those that have none.
TransferFailures(rows) ==
    LET stopped == {x \in rows : x.stopHit /\ x.mfe # None}
    IN [label \in FailureModes |->
          CASE label = "F1" -> {x \in stopped : 4 * x.mfe < Risk}
            [] label = "F2" -> {x \in stopped : 4 * x.mfe >= Risk /\ x.mfe < Risk}
            [] label = "F3" -> {x \in stopped : x.mfe >= Risk}
            [] label = "F4" -> {x \in rows : ~x.stopHit /\ x.r < 0}]

-----------------------------------------------------------------------------
(* pipeline.py                                                             *)

WithStatus(data, origins, status) == {o \in origins : data.setups[o].status = status}

\* _window_report, as the sets it counts.
WindowReport(data, w) ==
    LET observed == {o \in DOMAIN data.setups : Inside(w, data.setups[o].features.decision)}
        opened == WithStatus(data, observed, "opened")
        included == Treated(data, w, "included")
    IN [observed |-> observed, opened |-> opened,
        eligible |-> {o \in observed : data.setups[o].eligible},
        armed |-> {o \in observed : data.setups[o].armed},
        immediate |-> {o \in opened : ~data.setups[o].armed},
        cancelled |-> WithStatus(data, observed, "cancelled"),
        included |-> included, censored |-> Treated(data, w, "censored"),
        purged_setup |-> Treated(data, w, "purged_setup"),
        purged_entry_exit |-> Treated(data, w, "purged_entry_exit"),
        floor |-> Cardinality(included) >= TradeFloor]

\* The rows among `rows', by their entry features, whose ADR has this status.
AdrCount(rows, status) == {f \in rows : f.context.status = status}

SetupFeatures(data) == {data.setups[o].features : o \in DOMAIN data.setups}
TradeFeatures(data) == {x.features : x \in Trades(data)}

\* baseline_report: where the rows of one kind lie with regard to all windows.
Effective(rows) ==
    LET start == Windows["development"].start * DayBars
        end == (Windows["final_oos"].end + 1) * DayBars
    IN [before |-> {f \in rows : f.decision < start},
        within |-> {f \in rows : start <= f.decision /\ f.decision < end},
        after |-> {f \in rows : f.decision >= end}]

\* baseline_report: the populations of the whole history and its quality.
BaselineReport(data) ==
    LET setups == DOMAIN data.setups
    IN [eligible |-> {o \in setups : data.setups[o].eligible},
        rejected |-> {o \in setups : ~data.setups[o].eligible},
        armed |-> {o \in setups : data.setups[o].armed},
        cancelled |-> WithStatus(data, setups, "cancelled"),
        closed |-> {x \in Trades(data) : x.state = "closed"},
        censored |-> {x \in Trades(data) : x.state = "censored"},
        missingExtension |-> {x \in Trades(data) : x.features.extension = None},
        incompletePrefix |->
            {x \in Trades(data) : "incomplete_utc_session_prefix" \in x.flags},
        adrUnavailable |-> {x \in Trades(data) : "adr_unavailable" \in x.flags},
        gaps |-> {x \in Trades(data) : "post_entry_15m_gap" \in x.flags},
        missingExcursions |-> {x \in Trades(data) : x.mfe = None}]
=============================================================================
