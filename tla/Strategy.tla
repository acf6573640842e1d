------------------------------ MODULE Strategy ------------------------------
(***************************************************************************)
(* StrategyEngine.step (strategy/engine.py): the per-symbol decision state *)
(* machine.  One action is one call of step() on one finalized 15m bar;    *)
(* the alternatives are the branches step() takes.  Every branch assigns   *)
(* the whole StrategyState, so every action is Observe(b, t) (the fields   *)
(* all branches assign alike) plus the slot: `pending' and `trade'.        *)
(*                                                                         *)
(* Prices are integers; ATR * atr_multiplier is the integer b.distance,    *)
(* and 0 stands for an ATR that is None, not finite or not positive.       *)
(***************************************************************************)
EXTENDS Integers, Sequences

CONSTANTS
    None,            \* Python's None, for a direction, a setup or a trade
    Times,           \* finalized-at timestamps a caller may pass
    Bars,            \* the bars a caller may pass
    ExitOnReversal   \* StrategyConfig.bias_reversal_behavior is EXIT

Directions == {"long", "short"}

ASSUME TimesAssumption == Times \subseteq Nat \ {0}

CancelReasons == {"by_readiness", "required_data_unavailable", "by_bias", "by_hema"}

\* Armed setups and OpenTrades.
Setups == [dir: Directions, flipTs: Times, epoch: Nat]

Trades == [seq: Nat, side: Directions, entry: Int, entryTs: Times, stop: Int,
           epoch: Nat, origin: Times]

ASSUME NoneAssumption ==
    None \notin Directions \cup CancelReasons /\ None \notin Setups /\ None \notin Trades

\* What StrategyBar checks of a bar, with an envelope that holds open and close,
\* as to which it only asks that high is not below low: that is up to those who
\* supply bars (LiveRuntime._validate_page, the market data client,
\* validate_canonical_source_bars).  hema_flip and kalman_transition equal the
\* direction on their bar, so a flip is a flag; kalman_transition only labels a
\* diagnostic event and is left out.
LegalBar(b) ==
    /\ b.htf_bias \in Directions \cup {None}
    /\ b.hema_direction \in Directions \cup {None}
    /\ b.kalman_direction \in Directions \cup {None}
    /\ b.hema_flip \in BOOLEAN
    /\ b.hema_flip => b.hema_direction # None
    /\ b.strategy_ready \in BOOLEAN
    /\ b.distance \in Nat
    /\ {b.quote.open, b.quote.high, b.quote.low, b.quote.close} \subseteq Int
    /\ b.quote.low <= b.quote.open /\ b.quote.open <= b.quote.high
    /\ b.quote.low <= b.quote.close /\ b.quote.close <= b.quote.high

ASSUME BarsAssumption == \A b \in Bars : LegalBar(b)

ASSUME ConfigAssumption == ExitOnReversal \in BOOLEAN

VARIABLES
    bias, epoch, activation,   \* current_bias, bias_epoch, bias_activation_timestamp (0: None)
    hema, kalman,              \* current_hema, current_kalman
    pending,                   \* the armed setup: pending_direction, _flip_timestamp, _bias_epoch
    trade,                     \* the OpenTrade
    nextSeq, lastTs,           \* next_trade_sequence, last_timestamp (0: None)
    status,
    events,                    \* the StrategyResult.events of the last call
    mark, lastExit             \* history: the last bar's quote, and when a trade last closed

inputs == <<bias, epoch, activation, hema, kalman>>
vars == <<inputs, pending, trade, nextSeq, lastTs, status, events, mark, lastExit>>

Opposite(d) == IF d = "long" THEN "short" ELSE "long"

-----------------------------------------------------------------------------
(* What step() derives from the state and the bar before it decides.       *)

NewEpoch(b) == IF b.htf_bias # bias /\ b.htf_bias # None THEN epoch + 1 ELSE epoch

\* Mutation: the epoch counts from the bar after the bias change.
NewActivation_NextBar(b, t) ==
    IF b.htf_bias # bias /\ b.htf_bias # None THEN t + 1 ELSE activation

NewActivation(b, t) == IF b.htf_bias # bias /\ b.htf_bias # None THEN t ELSE activation

FreshFlip(b) == b.hema_flip /\ b.hema_direction # hema

Readiness(b) ==
    IF ~b.strategy_ready THEN "data_blocked"
    ELSE IF \/ None \in {b.htf_bias, b.hema_direction, b.kalman_direction}
            \/ b.distance = 0
         THEN "warming_up"
    ELSE "ready"

Ready(b) == Readiness(b) = "ready"

Status(tr, p, r) ==
    CASE tr # None -> <<"open", tr.side>>
      [] tr = None /\ p # None -> <<"pending", p.dir>>
      [] tr = None /\ p = None -> <<IF r = "ready" THEN "flat" ELSE r, None>>

\* _stop_result: whether the bar reaches the stop, and the gap-aware fill.
StopHit(tr, q) ==
    IF tr.side = "long" THEN q.low <= tr.stop ELSE q.high >= tr.stop

\* Mutation: a stop always fills at its own price, gap or not.
StopFill_IgnoresGap(tr, q) == tr.stop

StopFill(tr, q) ==
    IF tr.side = "long"
    THEN IF q.open < tr.stop THEN q.open ELSE tr.stop
    ELSE IF q.open > tr.stop THEN q.open ELSE tr.stop

\* Mutation: stops are evaluated only on bars that are ready for decisions.
CloseReasons_StopNeedsReady(b) ==
    (IF Ready(b) /\ StopHit(trade, b.quote) THEN <<"exit_stop">> ELSE <<>>)
    \o (IF ExitOnReversal /\ b.htf_bias = Opposite(trade.side)
        THEN <<"exit_htf_reversal">> ELSE <<>>)
    \o (IF FreshFlip(b) /\ b.hema_direction = Opposite(trade.side)
        THEN <<"exit_hema_flip">> ELSE <<>>)

\* Mutation: a reversed bias closes a trade only together with a HEMA flip.
CloseReasons_ReversalNeedsFlip(b) ==
    (IF StopHit(trade, b.quote) THEN <<"exit_stop">> ELSE <<>>)
    \o (IF FreshFlip(b) /\ b.hema_direction = Opposite(trade.side)
        THEN <<"exit_hema_flip">> ELSE <<>>)

CloseReasons(b) ==
    (IF StopHit(trade, b.quote) THEN <<"exit_stop">> ELSE <<>>)
    \o (IF ExitOnReversal /\ b.htf_bias = Opposite(trade.side)
        THEN <<"exit_htf_reversal">> ELSE <<>>)
    \o (IF FreshFlip(b) /\ b.hema_direction = Opposite(trade.side)
        THEN <<"exit_hema_flip">> ELSE <<>>)

\* Mutation: the setup does not need HEMA to stay on its side.
CancelReason_IgnoresHema(b) ==
    IF ~b.strategy_ready THEN "by_readiness"
    ELSE IF ~Ready(b) THEN "required_data_unavailable"
    ELSE IF pending.epoch # NewEpoch(b) \/ b.htf_bias # pending.dir THEN "by_bias"
    ELSE None

\* Why the bar cancels the armed setup; None when the setup survives it.
CancelReason(b) ==
    IF ~b.strategy_ready THEN "by_readiness"
    ELSE IF ~Ready(b) THEN "required_data_unavailable"
    ELSE IF pending.epoch # NewEpoch(b) \/ b.htf_bias # pending.dir THEN "by_bias"
    ELSE IF b.hema_direction # pending.dir THEN "by_hema"
    ELSE None

Surviving(b) == IF pending # None /\ CancelReason(b) = None THEN pending ELSE None

\* Whether a fresh flip starts a setup: the current bias, in its epoch.
FlipAccepted(b, t) ==
    /\ FreshFlip(b)
    /\ Ready(b)
    /\ b.hema_direction = b.htf_bias
    /\ NewActivation(b, t) # 0 /\ t >= NewActivation(b, t)

RejectReason(b) ==
    IF ~b.strategy_ready THEN "strategy_not_ready"
    ELSE IF b.htf_bias = None THEN "no_htf_bias"
    ELSE IF b.distance = 0 THEN "invalid_atr"
    ELSE IF ~Ready(b) THEN "required_data_unavailable"
    ELSE IF b.hema_direction # b.htf_bias THEN "hema_flip_wrong_direction"
    ELSE "hema_flip_before_bias_epoch"

\* _open_trade.
NewTrade(b, t, side, flipTs) ==
    [seq |-> nextSeq, side |-> side, entry |-> b.quote.close, entryTs |-> t,
     stop |-> IF side = "long" THEN b.quote.close - b.distance
                               ELSE b.quote.close + b.distance,
     epoch |-> NewEpoch(b), origin |-> flipTs]

\* The trade id ends with the sequence number it was opened under.
NextSequence(tr) == IF tr # None /\ tr.seq = nextSeq THEN nextSeq + 1 ELSE nextSeq

-----------------------------------------------------------------------------
(* Events.                                                                 *)

When(cond, type, reason) ==
    IF cond THEN <<[type |-> type, reason |-> reason]>> ELSE <<>>

Priced(type, reason, price) == <<[type |-> type, reason |-> reason, price |-> price]>>

Observed(b) ==
    When(b.htf_bias # bias, "htf_bias_changed", "htf_bias_changed")
    \o When(FreshFlip(b), "hema_flip_detected", "hema_flip_detected")

Cancelled(b) ==
    IF pending = None THEN <<>>
    ELSE When(CancelReason(b) # None, "setup_cancelled", CancelReason(b))

\* STOP_HIT (for a stop) and TRADE_CLOSED: the first reason is the primary one.
Closed(b) ==
    IF Head(CloseReasons(b)) = "exit_stop"
    THEN Priced("stop_hit", "exit_stop", StopFill(trade, b.quote))
         \o Priced("trade_closed", "exit_stop", StopFill(trade, b.quote))
    ELSE Priced("trade_closed", Head(CloseReasons(b)), b.quote.close)

-----------------------------------------------------------------------------
Init ==
    /\ bias = None /\ epoch = 0 /\ activation = 0
    /\ hema = None /\ kalman = None
    /\ pending = None /\ trade = None
    /\ nextSeq = 1 /\ lastTs = 0
    /\ status = <<"warming_up", None>>
    /\ events = <<>>
    /\ mark = None /\ lastExit = 0

\* The part of the new StrategyState that every branch assigns the same way.
Observe(b, t) ==
    /\ t > lastTs
    /\ bias' = b.htf_bias
    /\ epoch' = NewEpoch(b)
    /\ activation' = NewActivation(b, t)
    /\ hema' = b.hema_direction
    /\ kalman' = b.kalman_direction
    /\ lastTs' = t
    /\ mark' = b.quote
    /\ status' = Status(trade', pending', Readiness(b))
    /\ nextSeq' = NextSequence(trade')

\* Mutation: the bar that closes a trade may arm the opposite setup.
CloseTrade_Reverses(b, t) ==
    /\ trade # None
    /\ CloseReasons(b) # <<>>
    /\ trade' = None
    /\ pending' = IF FlipAccepted(b, t)
                  THEN [dir |-> b.hema_direction, flipTs |-> t, epoch |-> NewEpoch(b)]
                  ELSE Surviving(b)
    /\ lastExit' = t
    /\ events' = Observed(b) \o Closed(b) \o Cancelled(b)
    /\ Observe(b, t)

\* The trade meets a stop, a bias reversal or an opposite HEMA flip.
CloseTrade(b, t) ==
    /\ trade # None
    /\ CloseReasons(b) # <<>>
    /\ trade' = None
    /\ pending' = Surviving(b)
    /\ lastExit' = t
    /\ events' = Observed(b) \o Closed(b) \o Cancelled(b)
                 \o When(FreshFlip(b), "decision_rejected", "no_same_bar_reversal")
    /\ Observe(b, t)

HoldTrade(b, t) ==
    /\ trade # None
    /\ CloseReasons(b) = <<>>
    /\ pending' = Surviving(b)
    /\ events' = Observed(b) \o Cancelled(b)
    /\ UNCHANGED <<trade, lastExit>>
    /\ Observe(b, t)

Open(b, t, side, flipTs) ==
    /\ trade' = NewTrade(b, t, side, flipTs)
    /\ pending' = None
    /\ events' = Observed(b) \o Cancelled(b)
                 \o Priced("trade_opened", "entry_accepted", b.quote.close)
    /\ UNCHANGED lastExit
    /\ Observe(b, t)

\* Mutation: the trade's setup origin is the bar of its confirmation.
ConfirmPending_OriginIsEntry(b, t) ==
    /\ trade = None
    /\ Surviving(b) # None
    /\ b.kalman_direction = pending.dir
    /\ Open(b, t, pending.dir, t)

\* Kalman confirms the setup that an earlier bar armed.
ConfirmPending(b, t) ==
    /\ trade = None
    /\ Surviving(b) # None
    /\ b.kalman_direction = pending.dir
    /\ Open(b, t, pending.dir, pending.flipTs)

WaitPending(b, t) ==
    /\ trade = None
    /\ Surviving(b) # None
    /\ b.kalman_direction # pending.dir
    /\ events' = Observed(b)
    /\ UNCHANGED <<trade, pending, lastExit>>
    /\ Observe(b, t)

\* Kalman already agrees with the flip.
EnterOnFlip(b, t) ==
    /\ trade = None
    /\ Surviving(b) = None
    /\ FlipAccepted(b, t)
    /\ b.kalman_direction = b.hema_direction
    /\ Open(b, t, b.hema_direction, t)

ArmOnFlip(b, t) ==
    /\ trade = None
    /\ Surviving(b) = None
    /\ FlipAccepted(b, t)
    /\ b.kalman_direction # b.hema_direction
    /\ pending' = [dir |-> b.hema_direction, flipTs |-> t, epoch |-> NewEpoch(b)]
    /\ events' = Observed(b) \o Cancelled(b)
                 \o When(TRUE, "setup_armed", "pending_setup_armed")
    /\ UNCHANGED <<trade, lastExit>>
    /\ Observe(b, t)

\* No setup is left and the bar starts none; a fresh flip is answered by a
\* rejection that says why.
StayFlat(b, t) ==
    /\ trade = None
    /\ Surviving(b) = None
    /\ ~FlipAccepted(b, t)
    /\ pending' = None
    /\ events' = Observed(b) \o Cancelled(b)
                 \o When(FreshFlip(b), "decision_rejected", RejectReason(b))
    /\ UNCHANGED <<trade, lastExit>>
    /\ Observe(b, t)

\* A bar with the cursor's timestamp changes nothing.
Duplicate ==
    /\ lastTs \in Times
    /\ events' = When(TRUE, "decision_rejected", "duplicate_timestamp")
    /\ UNCHANGED <<inputs, pending, trade, nextSeq, lastTs, status, mark, lastExit>>

\* OutOfOrderTimestampError: step() raises and the caller keeps its state.
OutOfOrder ==
    /\ \E t \in Times : t < lastTs
    /\ events' = <<>>
    /\ UNCHANGED <<inputs, pending, trade, nextSeq, lastTs, status, mark, lastExit>>

Step(b, t) ==
    \/ CloseTrade(b, t)
    \/ HoldTrade(b, t)
    \/ ConfirmPending(b, t)
    \/ WaitPending(b, t)
    \/ EnterOnFlip(b, t)
    \/ ArmOnFlip(b, t)
    \/ StayFlat(b, t)

Next ==
    \/ \E t \in Times, b \in Bars : Step(b, t)
    \/ Duplicate
    \/ OutOfOrder

Spec == Init /\ [][Next]_vars
-----------------------------------------------------------------------------
(* What the state machine promises.                                        *)

\* Type invariant: the StrategyState that step() returns is a legal one.
TypeOK ==
    /\ bias \in Directions \cup {None}
    /\ hema \in Directions \cup {None}
    /\ kalman \in Directions \cup {None}
    /\ epoch \in Nat
    /\ activation \in Times \cup {0}
    /\ pending = None \/ pending \in Setups
    /\ trade = None \/ trade \in Trades
    /\ nextSeq \in Nat \ {0}
    /\ lastTs \in Times \cup {0}
    /\ lastExit \in Times \cup {0}
    /\ mark = None \/ mark \in {b.quote : b \in Bars}

\* StrategyState.__post_init__ never raises on a state step() builds, and an
\* armed setup is still worth waiting for: bias and HEMA point its way in the
\* epoch of its flip, and only Kalman is missing.
PendingSound ==
    pending # None =>
        /\ trade = None
        /\ status = <<"pending", pending.dir>>
        /\ bias = pending.dir
        /\ hema = pending.dir
        /\ kalman # pending.dir
        /\ pending.epoch = epoch
        /\ activation <= pending.flipTs /\ pending.flipTs <= lastTs

\* A trade's id is the last one issued, and its setup flip and its entry lie
\* in the bias epoch it records: at or after that epoch's activation while the
\* epoch is current, before the activation of the epoch that replaced it.
TradeInEpoch ==
    trade # None =>
        /\ pending = None
        /\ trade.seq = nextSeq - 1
        /\ trade.origin <= trade.entryTs /\ trade.entryTs <= lastTs
        /\ trade.epoch <= epoch
        /\ IF trade.epoch = epoch THEN activation <= trade.origin
                                  ELSE trade.entryTs < activation

\* With EXIT behaviour no trade is held against the 4h bias, whatever the
\* order in which bias, HEMA and stop move.
NoTradeAgainstBias ==
    ExitOnReversal /\ trade # None => bias # Opposite(trade.side)

\* No flip is used twice: the flip that armed or opened the current setup came
\* after the previous trade was closed, and never on the bar that closed it.
FreshSetup ==
    /\ pending # None => lastExit < pending.flipTs
    /\ trade # None => lastExit < trade.origin

\* An open trade never outlives a bar that reached its stop, also when that
\* bar was not ready for decisions.
StopHonoured ==
    trade # None /\ trade.entryTs < lastTs => ~StopHit(trade, mark)

\* No same-bar reversal: the bar that closes a trade leaves neither a new
\* trade nor a setup, and an open trade changes in no other way.
NoSameBarReversal ==
    [][trade # None => trade' = trade \/ (trade' = None /\ pending' = None)]_vars

\* A trade opens only on a bar where bias, HEMA and Kalman agree on its side.
EntryAgreement ==
    [][trade = None /\ trade' # None =>
        /\ {bias', hema', kalman'} = {trade'.side}
        /\ trade'.epoch = epoch']_vars

TypesOf(evs) == {evs[i].type : i \in DOMAIN evs}

\* A fresh flip while flat is never lost: the bar answers it with exactly one
\* of an entry, an armed setup or an explicit rejection, and never with the
\* rejection step() keeps for a flip older than its epoch.
FlipAnswered ==
    [][lastTs' > lastTs /\ trade = None /\ "hema_flip_detected" \in TypesOf(events') =>
          /\ \E answer \in {"trade_opened", "setup_armed", "decision_rejected"} :
                TypesOf(events') \cap {"trade_opened", "setup_armed", "decision_rejected"}
                    = {answer}
          /\ \A i \in DOMAIN events' :
                events'[i].reason # "hema_flip_before_bias_epoch"]_vars

\* Every reported exit price is one the bar really traded at.
ExitPriceTraded ==
    \A i \in DOMAIN events :
        events[i].type \in {"stop_hit", "trade_closed"} =>
            mark.low <= events[i].price /\ events[i].price <= mark.high

\* The slot as TradeLifecycle sees it.
Slot ==
    CASE trade # None -> [phase |-> "open", side |-> trade.side, flip |-> trade.origin]
      [] trade = None /\ pending # None ->
            [phase |-> "armed", side |-> pending.dir, flip |-> pending.flipTs]
      [] trade = None /\ pending = None -> [phase |-> "empty"]

Lifecycle == INSTANCE TradeLifecycle
    WITH slot <- Slot, issued <- nextSeq - 1, closedAt <- lastExit, clock <- lastTs

\* The engine implements the abstract life cycle of a symbol's single slot.
ImplementsLifecycle == Lifecycle!Spec
=============================================================================
