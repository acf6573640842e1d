--------------------------- MODULE ResearchDataset ---------------------------
(***************************************************************************)
(* The research dataset (research/dataset.py, adr.py): the setup and trade *)
(* rows that build_research_dataset derives from the 15m traces of a       *)
(* replay and the trades of its backtest, with the entry-time features the *)
(* later studies select on.                                                *)
(*                                                                         *)
(* Time is counted in 15m bars: a bar that opens at o is final at o + 1,   *)
(* belongs to the UTC date o \div DayBars, and decides at o + 1.  A bar is *)
(* its open time, its quote, the Kalman direction and transition of its    *)
(* StrategyBar and the strategy's other events of its trace; an            *)
(* event that opens a trade holds the OpenTrade of the trace's post state, *)
(* one that closes it its reasons and the result of the account.  A quote  *)
(* holds the stop distance, ATR * atr_multiplier, of a trade that enters   *)
(* there; all trades risk the same, so that prices and results are counted *)
(* in the same unit and R is a result over Risk.  The bias, ATR ratios and *)
(* the identifiers made by hashing are left out; a setup is identified by  *)
(* its origin.  A ratio is a pair <<numerator, denominator>>; the division *)
(* by an ADR of zero raises, see DividesByZero.                            *)
(***************************************************************************)
EXTENDS Integers, Sequences, FiniteSets, SequencesExt

CONSTANTS
    None,
    DayBars,     \* bars of a UTC date: 96 in the code
    Lookback,    \* prior complete dates in an ADR: 14 in the code
    Risk         \* stop distance of every trade

ASSUME NoneAssumption ==
    /\ None \notin Int /\ None \notin Seq(Int)
    /\ None \notin {"long", "short", "rejected", "armed", "cancelled", "opened"}
    /\ None \notin {"insufficient_subsequent_bars",
                    "baseline_not_open_strictly_after_delayed_decision"}

ASSUME DayAssumption ==
    DayBars \in Nat \ {0} /\ Lookback \in Nat \ {0} /\ Risk \in Nat \ {0}

Finalized(bar) == bar.open + 1

Date(bar) == bar.open \div DayBars

Largest(S) == CHOOSE x \in S : \A y \in S : y <= x
Smallest(S) == CHOOSE x \in S : \A y \in S : x <= y

-----------------------------------------------------------------------------
(* adr.py                                                                  *)

BarsOf(tape, date) == {i \in DOMAIN tape : Date(tape[i]) = date}

\* daily_ranges: the range of a date all of whose bars are there.
DailyRange(tape, date) ==
    LET session == BarsOf(tape, date)
    IN IF Cardinality(session) # DayBars THEN None
       ELSE Largest({tape[i].quote.high : i \in session})
            - Smallest({tape[i].quote.low : i \in session})

\* Mutation: the lookback ends with the date itself.
PriorDates_SameDay(date) == (date - Lookback + 1) .. date

PriorDates(date) == (date - Lookback) .. (date - 1)

\* The sum of the ranges of the Lookback dates that end with this one.
Total(ranges, last) ==
    LET sum[n \in 0 .. Lookback] ==
            IF n = 0 THEN 0 ELSE sum[n - 1] + ranges[last - Lookback + n]
    IN sum[Lookback]

\* adr_context_for_date: the mean of the prior ranges, or why there is none.
AdrContext(tape, date) ==
    LET prior == PriorDates(date)
        ranges == [d \in prior |-> DailyRange(tape, d)]
    IN IF \A d \in prior : ranges[d] # None
       THEN [status |-> "available", adr |-> <<Total(ranges, Largest(prior)), Lookback>>]
       ELSE [status |-> IF \E d \in {Date(tape[i]) : i \in DOMAIN tape} : d <= Smallest(prior)
                        THEN "incomplete_prior_session" ELSE "warmup",
             adr |-> None]

-----------------------------------------------------------------------------
(* The entry-time features of the bar at index i.                          *)

\* _session: what was traded on the date so far, if no bar of it is missing.
Session(tape, i) ==
    LET prefix == {j \in BarsOf(tape, Date(tape[i])) : j <= i}
    IN IF Cardinality(prefix) # (tape[i].open % DayBars) + 1 THEN None
       ELSE [high |-> Largest({tape[j].quote.high : j \in prefix}),
             low |-> Smallest({tape[j].quote.low : j \in prefix})]

\* adr_extension: how far price has run from the session's extreme, in ADRs.
Extension(session, adr, side, close) ==
    IF session = None \/ adr = None THEN None
    ELSE <<(IF side = "long" THEN close - session.low ELSE session.high - close) * adr[2],
           adr[1]>>

Sides == {"long", "short"}

\* The `kalman' entry of a side: when its last run began and for how many
\* bars it has been counted.  A run that no transition began is recorded as
\* begun at 0, and the entry of the other side is that of its last run.
KalmanRun(tape, i, side) ==
    LET turns == {j \in 1 .. i : tape[j].turn = side}
        begun == IF turns = {} THEN 1 ELSE Largest(turns)
        bars == {j \in begun .. i : tape[j].trend = side}
    IN IF bars = {} THEN [since |-> None, bars |-> None]
       ELSE [since |-> IF turns = {} THEN 0 ELSE Finalized(tape[begun]),
             bars |-> Cardinality(bars)]

\* What both kinds of rows record of their bar and side.
EntryFeatures(tape, i, side) ==
    LET session == Session(tape, i)
        context == AdrContext(tape, Date(tape[i]))
    IN [open |-> tape[i].open, decision |-> Finalized(tape[i]), side |-> side,
        prefix |-> session # None, context |-> context,
        extension |-> Extension(session, context.adr, side, tape[i].quote.close),
        kalman |-> KalmanRun(tape, i, side)]

-----------------------------------------------------------------------------
(* build_research_dataset                                                  *)

NewSetup(tape, i, side) ==
    [features |-> EntryFeatures(tape, i, side), eligible |-> FALSE, armed |-> FALSE,
     status |-> "rejected", trade |-> None, reason |-> None]

\* The mapping f with v at x.
With(f, x, v) == [y \in DOMAIN f \cup {x} |-> IF y = x THEN v ELSE f[y]]

\* One event of the first pass over the traces, that of bar i.  `setups' is the
\* list of setup rows by origin (setup_rows and by_origin), `arms' the last armed
\* origin of a side, `entries' where each trade was opened, and `raised' whether
\* the build has stopped with an error.
Recorded(tape, b, i, e) ==
    LET t == Finalized(tape[i])
    IN CASE e.type = "hema_flip_detected" ->
              IF t \in DOMAIN b.setups THEN [b EXCEPT !.raised = TRUE]
              ELSE [b EXCEPT !.setups = With(b.setups, t, NewSetup(tape, i, e.side))]
         [] e.type = "setup_armed" ->
              IF t \notin DOMAIN b.setups THEN [b EXCEPT !.raised = TRUE]
              ELSE [b EXCEPT !.setups[t] = [@ EXCEPT !.eligible = TRUE, !.armed = TRUE,
                                                     !.status = "armed", !.reason = "armed"],
                             !.arms[e.side] = t]
         [] e.type = "setup_cancelled" ->
              IF b.arms[e.side] = None THEN [b EXCEPT !.raised = TRUE]
              ELSE [b EXCEPT !.setups[b.arms[e.side]] = [@ EXCEPT !.status = "cancelled",
                                                                  !.reason = "cancelled"],
                             !.arms[e.side] = None]
         [] e.type = "decision_rejected" ->
              IF t \in DOMAIN b.setups /\ ~b.setups[t].eligible
                 /\ e.side \in {None, b.setups[t].features.side}
              THEN [b EXCEPT !.setups[t] = [@ EXCEPT !.reason = "rejected"]]
              ELSE b
         [] e.type = "trade_opened" ->
              LET origin == e.trade.origin
                  opened == [b EXCEPT !.entries = Append(@, [trade |-> e.trade, at |-> i])]
              IN IF \E k \in DOMAIN b.entries : b.entries[k].trade.id = e.trade.id
                 THEN [b EXCEPT !.raised = TRUE]
                 ELSE IF origin \notin DOMAIN b.setups THEN opened
                 ELSE [opened EXCEPT !.setups[origin] =
                          [@ EXCEPT !.eligible = TRUE, !.status = "opened",
                                    !.reason = "opened", !.trade = e.trade.id]]
         [] OTHER -> b

\* The events of the trace of bar i.
Traced(tape, b, i) ==
    LET events == tape[i].events
        after[k \in 0 .. Len(events)] ==
            IF k = 0 THEN b ELSE Recorded(tape, after[k - 1], i, events[k])
    IN after[Len(events)]

NothingYet ==
    [setups |-> <<>>, arms |-> [side \in Sides |-> None], entries |-> <<>>, raised |-> FALSE]

Collected(tape) ==
    LET after[i \in 0 .. Len(tape)] ==
            IF i = 0 THEN NothingYet ELSE Traced(tape, after[i - 1], i)
    IN after[Len(tape)]

\* The events of one type, each with the index of its bar.
EventsOf(tape, type) ==
    {item \in UNION {{i} \X Range(tape[i].events) : i \in DOMAIN tape} : item[2].type = type}

\* The second pass: where a trade was closed, and with what result.
Closes(tape, id) == {item \in EventsOf(tape, "trade_closed") : item[2].trade = id}

\* calculate_excursions: how far price ran against and for the entry on the
\* bars after it, that of the exit included.
Excursions(side, entry, quotes) ==
    LET low == Smallest({q.low : q \in quotes} \cup {entry})
        high == Largest({q.high : q \in quotes} \cup {entry})
    IN IF side = "long" THEN [mae |-> entry - low, mfe |-> high - entry]
       ELSE [mae |-> high - entry, mfe |-> entry - low]

NoOutcome ==
    [state |-> "censored", exit |-> None, reasons |-> <<>>, stopHit |-> None, r |-> None,
     mae |-> None, mfe |-> None, observed |-> None, expected |-> None, elapsed |-> None]

\* The outcome of a trade closed by event `close' of bar `last': its excursions
\* are missing when a bar between its entry and its exit is.
Outcome(tape, entry, last, close) ==
    LET observed == last - entry.at
        expected == tape[last].open - tape[entry.at].open
        run == Excursions(entry.trade.side, entry.trade.price,
                          {tape[i].quote : i \in (entry.at + 1) .. last})
        contiguous == observed = expected
    IN [state |-> "closed", exit |-> Finalized(tape[last]), reasons |-> close.reasons,
        stopHit |-> "exit_stop" \in Range(close.reasons), r |-> close.r,
        mae |-> IF contiguous THEN run.mae ELSE None,
        mfe |-> IF contiguous THEN run.mfe ELSE None,
        observed |-> observed, expected |-> expected,
        elapsed |-> Finalized(tape[last]) - Finalized(tape[entry.at])]

\* A trade's row, with its data_quality_flags; censored while it is open.
TradeRow(tape, entry) ==
    LET features == EntryFeatures(tape, entry.at, entry.trade.side)
        closes == Closes(tape, entry.trade.id)
        outcome == IF closes = {} THEN NoOutcome
                   ELSE LET close == CHOOSE item \in closes : TRUE
                        IN Outcome(tape, entry, close[1], close[2])
        entered ==
            [id |-> entry.trade.id, origin |-> entry.trade.origin, features |-> features,
             age |-> features.decision - entry.trade.origin,
             flags |-> (IF outcome.state = "closed" /\ outcome.mfe = None
                        THEN {"post_entry_15m_gap"} ELSE {})
                       \cup (IF features.prefix THEN {} ELSE {"incomplete_utc_session_prefix"})
                       \cup (IF features.context.adr = None THEN {"adr_unavailable"} ELSE {})]
    IN [field \in DOMAIN entered \cup DOMAIN outcome |->
          IF field \in DOMAIN entered THEN entered[field] ELSE outcome[field]]

\* The build raises ZeroDivisionError on a row whose extension is counted in
\* ADRs of zero, if none of the prior dates has traded at two prices.
DividesByZero(features) == features.extension # None /\ features.extension[2] = 0

\* `source' stands for the artifact hashes of the manifest, which make the
\* fingerprint of a dataset that of its bars; the tape grows, so its length
\* tells them apart.
Build(tape) ==
    LET b == Collected(tape)
        trades == [k \in DOMAIN b.entries |-> TradeRow(tape, b.entries[k])]
    IN [source |-> Len(tape), setups |-> b.setups, trades |-> trades,
        raised |-> \/ b.raised
                   \/ \E row \in Range(b.setups) \cup Range(trades) :
                         DividesByZero(row.features)]
=============================================================================
