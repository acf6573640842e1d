------------------------------ MODULE Research ------------------------------
(***************************************************************************)
(* The research pipeline over a growing history.  One action is one more   *)
(* 15m bar, with the events the strategy can emit on it; after each of     *)
(* them the dataset is built again from the whole history, which is what   *)
(* build_canonical_bundle does with a later export of the same market.     *)
(* Every report is a function of that dataset and is judged as such.       *)
(*                                                                         *)
(* The strategy is reduced to its slot: Strategy.tla shows which events    *)
(* follow each other.  A flip is fresh if the HEMA lines cross, or if they *)
(* separate again after a touch, to either side.  It cancels a setup that  *)
(* waits; an open trade it closes if it is on the other side, and leaves   *)
(* alone if it is on the trade's own, which is then the flip of a setup    *)
(* that no event ever answers.  Between flips the lines may touch and the  *)
(* Kalman direction may turn on any bar.                                   *)
(***************************************************************************)
EXTENDS ResearchAttribution, ResearchLedgers

CONSTANTS
    Quotes,       \* quotes of a bar on which a trade is entered
    ExitQuotes,   \* quotes of a bar on which a trade is closed
    QuietQuotes,  \* quotes of the other bars
    FirstTrend,   \* the Kalman direction before its first transition
    FirstHema,    \* the HEMA direction before the first bar, or None
    MaxTime,      \* bound: bars that may pass
    MaxFlips,     \* bound: fresh HEMA flips
    FlipBars,     \* bound: the bars on which the HEMA lines may cross
    MaxDetours    \* bound: missing bars, touches, Kalman turns outside a flip that
                  \* arms or enters, rejected and armed flips, exits on a crossing

AllQuotes == Quotes \cup ExitQuotes \cup QuietQuotes

\* A bar has a range, so that no ADR is zero: the code divides by it.
ASSUME QuotesAssumption ==
    /\ FirstTrend \in Sides /\ FirstHema \in Sides \cup {None}
    /\ \A q \in AllQuotes :
          /\ {q.low, q.high, q.close, q.stopDistance} \subseteq Int
          /\ q.low <= q.close /\ q.close <= q.high /\ q.low < q.high
          /\ q.stopDistance > 0
    /\ \A q \in Quotes : q.stopDistance = Risk

VARIABLES
    now,            \* bars that have passed
    tape,           \* the bars of the export, with the events of their traces
    slot,           \* the strategy's setup or trade
    hema,           \* the HEMA direction of the last bar, None if the lines touch
    flips, detours, \* what the bounds count
    data            \* the dataset of the tape

vars == <<now, tape, slot, hema, flips, detours, data>>

Empty == [phase |-> "empty"]

-----------------------------------------------------------------------------
Event(type, side) == [type |-> type, side |-> side]

Opened(side, origin, id, price) ==
    [type |-> "trade_opened", side |-> side,
     trade |-> [id |-> id, side |-> side, origin |-> origin, price |-> price]]

\* The open trade leaves on a bar with this quote: at its stop if the bar
\* reaches it, and otherwise at the close, for the reasons given.
Closed(quote, reasons) ==
    LET stopped == Stopped(slot.side, slot.stop, quote)
        exit == IF stopped THEN slot.stop ELSE quote.close
    IN [type |-> "trade_closed", side |-> slot.side, trade |-> slot.id,
        reasons |-> (IF stopped THEN <<"exit_stop">> ELSE <<>>) \o reasons,
        r |-> IF slot.side = "long" THEN exit - slot.price ELSE slot.price - exit]

Flip(side) == Event("hema_flip_detected", side)

\* The Kalman direction of the last bar.
Trend == IF tape = <<>> THEN FirstTrend ELSE Last(tape).trend

Opposite(side) == IF side = "long" THEN "short" ELSE "long"

\* A flip cancels a setup that is still waiting.
Cancelled == IF slot.phase = "armed" THEN <<Event("setup_cancelled", slot.side)>> ELSE <<>>

Init ==
    /\ now = 0 /\ tape = <<>> /\ slot = Empty /\ hema = FirstHema
    /\ flips = 0 /\ detours = 0
    /\ data = Build(<<>>)

\* The next bar is final and is exported with its events.
Bar(trend, quote, events) ==
    /\ now < MaxTime
    /\ now' = now + 1
    /\ tape' = Append(tape, [open |-> now, quote |-> quote, events |-> events, trend |-> trend,
                             turn |-> IF trend = Trend THEN None ELSE trend])
    /\ data' = Build(tape')

Detour(count) == detours + count <= MaxDetours /\ detours' = detours + count

\* The Kalman direction of the bar may be another one.
Turns(trend) == IF trend = Trend THEN 0 ELSE 1

\* A bar without a fresh flip, on which the HEMA lines may touch.
NoFlip(trend) ==
    /\ UNCHANGED flips
    /\ \/ hema' = hema /\ Detour(Turns(trend))
       \/ hema # None /\ hema' = None /\ Detour(1 + Turns(trend))

\* The HEMA lines are apart on this side and were not on the bar before.
FreshFlip(side) ==
    /\ now \in FlipBars
    /\ flips < MaxFlips /\ flips' = flips + 1
    /\ hema # side /\ hema' = side

\* A bar on which nothing happens to the slot: a setup that waits has HEMA on
\* its side and Kalman against it, and an open trade is not stopped.
Quiet ==
    /\ \E q \in QuietQuotes, trend \in Sides :
          /\ slot.phase = "armed" => trend # slot.side
          /\ slot.phase = "open" => ~Stopped(slot.side, slot.stop, q)
          /\ Bar(trend, q, <<>>)
          /\ NoFlip(trend)
    /\ slot.phase = "armed" => hema' = hema
    /\ UNCHANGED slot

\* The export has no row for this bar.
MissingBar ==
    /\ now < MaxTime
    /\ now' = now + 1
    /\ Detour(1)
    /\ UNCHANGED <<tape, slot, hema, flips, data>>

FlipRejected ==
    /\ slot.phase \in {"empty", "armed"}
    /\ \E side, trend \in Sides, q \in QuietQuotes :
          /\ Detour(1 + Turns(trend))
          /\ FreshFlip(side)
          /\ Bar(trend, q, <<Flip(side)>> \o Cancelled \o <<Event("decision_rejected", side)>>)
    /\ slot' = Empty

FlipArms ==
    /\ slot.phase \in {"empty", "armed"}
    /\ Detour(1)
    /\ \E side \in Sides, q \in QuietQuotes :
          /\ FreshFlip(side)
          /\ Bar(Opposite(side), q, <<Flip(side)>> \o Cancelled \o <<Event("setup_armed", side)>>)
          /\ slot' = [phase |-> "armed", side |-> side, origin |-> now + 1]

\* The trade's id is its place among the trades.
Enter(side, origin, before) ==
    \E q \in Quotes :
       LET id == Len(data.trades) + 1
       IN /\ Bar(side, q, before \o <<Opened(side, origin, id, q.close)>>)
          /\ slot' = [phase |-> "open", side |-> side, id |-> id,
                      price |-> q.close, stop |-> StopOf(side, q)]

FlipEnters ==
    /\ slot.phase \in {"empty", "armed"}
    /\ \E side \in Sides :
          FreshFlip(side) /\ Enter(side, now + 1, <<Flip(side)>> \o Cancelled)
    /\ UNCHANGED detours

SetupConfirmed ==
    /\ slot.phase = "armed"
    /\ Enter(slot.side, slot.origin, <<>>)
    /\ UNCHANGED <<hema, flips, detours>>

SetupCancelled ==
    /\ slot.phase = "armed"
    /\ \E q \in QuietQuotes, trend \in Sides : Bar(trend, q, Cancelled) /\ NoFlip(trend)
    /\ slot' = Empty

\* HEMA flips to the side of the trade that is open, and nothing answers it.
FlipHeld ==
    /\ slot.phase = "open"
    /\ FreshFlip(slot.side)
    /\ \E q \in QuietQuotes, trend \in Sides :
          /\ ~Stopped(slot.side, slot.stop, q)
          /\ Bar(trend, q, <<Flip(slot.side)>>)
          /\ Detour(Turns(trend))
    /\ UNCHANGED slot

\* The reasons of an exit besides its stop: the 4H bias has turned, or not, and
\* those of a flip.
Reversals(flip) == {flip, <<"exit_htf_reversal">> \o flip}

\* The trade leaves on this bar, which may bring a flip as well.
Leave(trend, quote, reasons, before, after) ==
    LET close == Closed(quote, reasons)
    IN /\ close.reasons # <<>>
       /\ Bar(trend, quote, before \o <<close>> \o after)
       /\ slot' = Empty

\* At its stop, or because the 4H bias has turned.
TradeExits ==
    /\ slot.phase = "open"
    /\ \E q \in ExitQuotes, trend \in Sides, reasons \in Reversals(<<>>) :
          Leave(trend, q, reasons, <<>>, <<>>) /\ NoFlip(trend)

\* The opposite flip closes the trade and may not reverse it on the same bar;
\* a flip to its own side on the bar on which it leaves is rejected like it.
TradeExitsOnFlip ==
    /\ slot.phase = "open"
    /\ \E side, trend \in Sides, q \in ExitQuotes :
          /\ Detour(Turns(trend) + IF side = slot.side THEN 0 ELSE 1)
          /\ FreshFlip(side)
          /\ \E reasons \in Reversals(IF side = slot.side THEN <<>> ELSE <<"exit_hema_flip">>) :
                Leave(trend, q, reasons, <<Flip(side)>>, <<Event("decision_rejected", None)>>)

Next ==
    \/ Quiet \/ MissingBar
    \/ FlipRejected \/ FlipArms \/ FlipEnters
    \/ SetupConfirmed \/ SetupCancelled
    \/ FlipHeld \/ TradeExits \/ TradeExitsOnFlip

Spec == Init /\ [][Next]_vars
-----------------------------------------------------------------------------
(* What the pipeline promises.                                             *)

\* No look-ahead: what a row says of its entry was known on its bar, so more
\* data changes neither its features nor the R of a trade once it is closed,
\* removes no row, and moves a setup only from armed to what became of it.
RowsFinal ==
    [][/\ \A o \in DOMAIN data.setups :
             /\ o \in DOMAIN data'.setups
             /\ data'.setups[o].features = data.setups[o].features
             /\ data'.setups[o].eligible = data.setups[o].eligible
             /\ data'.setups[o] = data.setups[o] \/ data.setups[o].status = "armed"
       /\ \A x \in Trades(data) :
             \E y \in Trades(data') :
                /\ y.id = x.id /\ y.origin = x.origin /\ y.features = x.features
                /\ x.state = "closed" => y = x]_vars

\* A window that is over is evidence once and for all: later bars change
\* neither the trades and setups it counts, nor its metrics, nor what a
\* delayed entry makes of its trades, and a trade that touches it is only moved
\* from censored to purged.
EvidenceFrozen ==
    [][\A role \in Roles : LET w == Windows[role] IN
          Over(w, now) =>
              /\ ClosedTrades(data', w) = ClosedTrades(data, w)
              /\ EligibleSetups(data', w) = EligibleSetups(data, w)
              /\ \A k \in DOMAIN data.trades :
                    LET was == Treatment(data, w, data.trades[k])
                        is == Treatment(data', w, data'.trades[k])
                    IN is = was \/ (was = "censored" /\ is = "purged_entry_exit")
              /\ \A n \in Delays :
                    DelayedTrades(tape', ClosedTrades(data', w), n)
                        = DelayedTrades(tape, ClosedTrades(data, w), n)]_vars

\* The trade is open before and after the bar that decides at o.
HeldOver(x, o) == x.features.decision < o /\ (x.state = "closed" => o < x.exit)

\* A trade and its setup know each other, a setup's status is that of the slot,
\* every row passes the checks of the metrics, and a setup is without a reason
\* exactly if a trade was held over its bar, which is then on the setup's side.
RowsAgree ==
    /\ ~data.raised /\ ValidTraces(tape) /\ ValidRows(Trades(data))
    /\ \A x \in Trades(data) :
          x.origin \in DOMAIN data.setups /\ data.setups[x.origin].trade = x.id
    /\ \A o \in DOMAIN data.setups :
          LET s == data.setups[o]
          IN /\ (s.status = "opened") = (\E x \in Trades(data) : x.origin = o)
             /\ s.eligible = (s.status # "rejected")
             /\ (s.status = "armed") = (slot.phase = "armed" /\ slot.origin = o)
             /\ (s.reason = None) = (\E x \in Trades(data) : HeldOver(x, o))
             /\ \A x \in Trades(data) : HeldOver(x, o) => x.features.side = s.features.side

\* The four definitions of a window's trades select the same ones, its parts
\* divide what its setups lead to, and the buckets divide its trades.
WindowsAgree ==
    \A role \in Roles :
        LET w == Windows[role]
            rows == ClosedTrades(data, w)
        IN /\ rows = LinkedTrades(data, w)
           /\ rows = Treated(data, w, "included")
           /\ rows = {x \in Trades(data) : Partition(w, x) = "included"
                                           /\ Inside(w, Decision(data, x))}
           /\ \A x \in rows :
                 /\ x.features.extension = None
                    \/ \E n \in 1 .. 4 : x \in Bucketed(rows, n)
                 /\ Cardinality({part \in Parts[role] : x \in OriginPart(data, rows, part)}) = 1
           /\ Kept(rows) = Bucketed(rows, 1) \cup Bucketed(rows, 2)
           /\ \A part \in Parts[role] : WholeIn(rows, data, part) = LinkedTrades(data, part)

\* A stopped loss whose excursion is unknown, the only row no failure mode is
\* defined for.
Unlabelled(x) == x.stopHit /\ x.r < 0 /\ "post_entry_15m_gap" \in x.flags

\* The reports account for every setup and trade they have seen: the failure
\* modes divide the losses, unless a stopped one has a gap, which the transfer
\* study leaves out; a window's opened setups are its trades of every treatment.
ReportsAddUp ==
    LET report == BaselineReport(data)
        labelled == {x \in report.closed : ~Unlabelled(x)}
        modes == FailurePartition(labelled)
    IN /\ (FailurePartition(report.closed) = Refused) = (labelled # report.closed)
       /\ modes = TransferFailures(report.closed)
       /\ UNION {modes[label] : label \in FailureModes} = Losses(labelled)
       /\ \A x \in labelled : Cardinality({l \in FailureModes : x \in modes[l]}) <= 1
       /\ report.missingExcursions = report.censored \cup report.gaps
       /\ report.missingExtension = report.incompletePrefix \cup report.adrUnavailable
       /\ AdrCount(TradeFeatures(data), "available")
             = {x.features : x \in Trades(data) \ report.adrUnavailable}
       /\ report.cancelled \subseteq report.armed /\ report.armed \subseteq report.eligible
       /\ \A role \in Roles :
             LET w == Windows[role]
                 seen == WindowReport(data, w)
                 base == Metrics(seen.included, seen.eligible, seen.included)
                 kept == Metrics(Kept(seen.included), seen.eligible, seen.included)
             IN /\ seen.opened = {x.origin : x \in {y \in seen.included \cup seen.censored
                                                            \cup seen.purged_entry_exit :
                                                   Inside(w, Decision(data, y))}}
                /\ seen.eligible \ seen.opened
                      = seen.cancelled \cup {o \in seen.observed : data.setups[o].status = "armed"}
                /\ {data.setups[o].features : o \in seen.observed}
                      \subseteq Effective(SetupFeatures(data)).within
                /\ Improved(base, kept) => EconomicallyImproved(base, kept)

\* What the boundary audit of the diagnosis calls the treatments of a report.
AuditOf ==
    [setup_out_entry_in |-> "purged_setup", setup_in_entry_out |-> "purged_entry_exit",
     setup_entry_in_exit_out |-> "purged_entry_exit",
     setup_entry_in_censored_unresolved |-> "censored", setup_entry_exit_included |-> "included"]

\* The diagnosis tells the same story of a window's trades as the baseline
\* report, the parts of the window divide what the candidates keep, a directional
\* efficiency is a share, and a trade can be replayed with another exit exactly
\* if no bar of it is missing.
PopulationsAgree ==
    /\ \A role \in {"development", "validation"} :
          LET w == Windows[role] IN
          \A rows \in {Population(data, tape, w)} :
             /\ Included(rows) = Treated(data, w, "included")
             /\ \A spec \in Specs :
                   \A result \in {CandidateResult(data, rows, w, Parts[role], spec)} :
                       Partitioned(result)
             /\ \A x \in Trades(data) :
                   LET audit == Boundary(data, w, x) IN
                   IF audit = "untouched"
                   THEN Treatment(data, w, x) \in {"outside", "purged_entry_exit"}
                   ELSE Treatment(data, w, x) = AuditOf[audit]
    /\ \A o \in DOMAIN data.setups :
          \A n \in EfficiencyBars :
             \A part \in {RegimeRow(tape, data.setups[o]).efficiency[n]} \ {None} :
                 part[1] <= part[2]
    /\ \A x \in Trades(data) :
          x.state = "closed" =>
              Replayable(tape, x) = ("post_entry_15m_gap" \notin x.flags)

\* The diagnosis of the development window passes its own validation.
DiagnosisPasses == ValidDiagnosis(Population(data, tape, Windows["development"]))

\* What path_risk claims of a drawdown: no later fall is deeper, and of equal
\* ones it is the earliest, from the earliest peak.
Drawdown(rs) ==
    LET risk == PathRisk(rs)
        curve == [k \in 0 .. Len(rs) |-> Cumulative(rs, k)]
        falls == {f \in (0 .. Len(rs)) \X (0 .. Len(rs)) : f[1] <= f[2]}
    IN /\ \A fall \in falls : curve[fall[1]] - curve[fall[2]] <= risk.drawdown
       /\ curve[risk.from] - curve[risk.trough] = risk.drawdown
       /\ \A fall \in falls :
             curve[fall[1]] - curve[fall[2]] = risk.drawdown =>
                 risk.trough <= fall[2] /\ (fall[2] = risk.trough => risk.from <= fall[1])
       /\ risk.longest = Largest({f[2] - f[1] : f \in
                                     {g \in falls : \A k \in (g[1] + 1) .. g[2] : rs[k] < 0}})
       /\ \A n \in 1 .. Len(rs) : WorstWindow(rs, n).total >= 0 - risk.drawdown
       /\ \A n \in {2, 4} : FlattenSeq(Slices(rs, n)) = rs

\* The ledgers of the other studies, drawn from the same traces, have the trades
\* and setups of the dataset; only a setup that still waits is not eligible in
\* the one that calls it pending.  The best price before the bar of the exit is
\* never better than that until its end.
LedgersAgree ==
    /\ \A rs \in {Results(Trades(data))} : Drawdown(rs)
    /\ \A armed \in ArmedPaths :
        \A ledger \in {Ledger(tape, armed)} :
            /\ ~ledger.raised
            /\ DOMAIN ledger.paths = DOMAIN data.setups
            /\ \A o \in DOMAIN ledger.paths :
                  LET s == data.setups[o]
                  IN ledger.paths[o] =
                        CASE s.status = "rejected" -> "rejected"
                          [] s.status = "armed" -> armed
                          [] s.status = "cancelled" -> "armed_then_cancelled"
                          [] s.status = "opened" ->
                               IF s.armed THEN "armed_then_opened" ELSE "immediate_open"
            /\ LedgerEligible(ledger)
                  = {o \in DOMAIN data.setups :
                        /\ data.setups[o].eligible
                        /\ armed = "armed_pending" => data.setups[o].status # "armed"}
            /\ {<<x.id, x.origin, x.state, x.exit, x.r, x.stopHit, x.mfe>> : x \in ledger.rows}
                  = {<<x.id, x.origin, x.state, x.exit, x.r, x.stopHit, x.mfe>>
                        : x \in Trades(data)}
            /\ \A x \in ledger.rows : x.mfe # None => x.strict <= x.mfe
            /\ \A x \in Distribution(ledger).crossing : x.path = "armed_then_opened"

\* A trade that is still open and entered the window from a setup outside it.
StrayCensored(w) ==
    \E x \in Trades(data) :
        x.state = "censored" /\ Inside(w, x.features.decision) /\ ~Inside(w, Decision(data, x))

\* The attribution tables exhaust their records and reconcile, and a window
\* reconciles with the baseline report unless it has no losing trade or counts
\* an open one whose setup lies outside.
AttributionReconciles ==
    \A records \in {Records(data, tape)} :
        /\ Bridged(data, records)
        /\ \A r \in ClosedRecords(records) : ExitBucket(TradeOf(r)) # "other_or_missing"
        /\ \A rows \in {Population(data, tape, Windows["development"])} :
              \A table \in Tables(data, records, rows) :
                  Exhaustive(table) /\ CrossTabReconciles(table)
        /\ (FailureReport(records) = Refused)
              = (\E x \in Trades(data) : x.state = "closed" /\ Unlabelled(x))
        /\ \A role \in Roles :
              WindowReconciles(data, records, Windows[role])
                  = (/\ ~StrayCensored(Windows[role])
                     /\ Losses(ClosedTrades(data, Windows[role])) # {})

\* The canonical development report of a dataset always passes the checks of
\* the registration, which counts the candidate's trades on its own.
RegistrationPasses == Register(data, DevelopmentReport(data)) # Refused

\* The tellings of one history agree: the rows and the slot, the populations of
\* a window, the development report and its registration, what the descriptive
\* reports count, the regime studies, and the attribution.
PipelineConsistent ==
    /\ RowsAgree
    /\ WindowsAgree
    /\ RegistrationPasses
    /\ ReportsAddUp
    /\ PopulationsAgree
    /\ AttributionReconciles

\* The studies that sort what they are drawn from agree with the dataset.
StudiesAgree ==
    /\ DiagnosisPasses
    /\ LedgersAgree

\* What the stages before the last window say of a dataset.
Evidence(d) ==
    {[candidate |-> c, validation |-> Validation(d, c)] : c \in {Register(d, DevelopmentReport(d))}}

\* Every finalist somebody could present: made from this data or from that of
\* an earlier export, and also with the outcome of its validation forged.
Presentable(evidence) ==
    {[e EXCEPT !.validation.improved = v] : e \in evidence, v \in BOOLEAN}

\* The last window stays closed to a candidate that the validation window of
\* the same data does not support, whatever is presented; and the validation
\* of a dataset leads to exactly one verdict.
UnlockedByValidation ==
    [][\A e \in Evidence(data') :
          /\ \A finalist \in Presentable({e} \cup Evidence(data)) :
                FinalOos(data', finalist) # Refused =>
                    /\ finalist = Finalist(data', e.candidate, e.validation)
                    /\ e.validation.candidate.total > e.validation.baseline.total
                    /\ FinalOos(data', finalist).baseline.count >= TradeFloor
          /\ (Finalist(data', e.candidate, e.validation) = Refused)
                # (Rejection(data', e.candidate, e.validation) = Refused)]_vars
=============================================================================
