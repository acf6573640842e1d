---------------------------- MODULE ReplayProofs ----------------------------
(***************************************************************************)
(* Proofs about Strategy, for every set of bars and time stamps and for    *)
(* both bias-reversal behaviours; about Replay, which composes it with the *)
(* feeds, for every Ratio and every set of finalization times; and about   *)
(* the Backtest of its traces, for all costs.                              *)
(***************************************************************************)
EXTENDS Backtest, SequenceTheorems, WellFoundedInduction, TLAPS

-----------------------------------------------------------------------------
(* The strategy.                                                           *)

\* What the engine's clocks agree on: nothing it remembers lies in the future,
\* and a bias is known only in an epoch that was activated.
Anchored ==
    /\ activation <= lastTs
    /\ lastExit <= lastTs
    /\ bias # None => activation # 0

\* The inductive invariant.
IInv ==
    /\ TypeOK
    /\ Anchored
    /\ PendingSound
    /\ TradeInEpoch
    /\ NoTradeAgainstBias
    /\ FreshSetup

-----------------------------------------------------------------------------
LEMMA TimesAreNat ==
    /\ \A t \in Times : t \in Nat /\ 0 < t
    /\ \A t \in Times \cup {0} : t \in Nat
  BY TimesAssumption

\* Whatever the bar, the slot-independent part of the state stays legal, time
\* moves forward, and a new epoch starts now.
LEMMA ObserveTyped ==
    ASSUME TypeOK, Anchored, NEW b \in Bars, NEW t \in Times, Observe(b, t)
    PROVE  /\ bias' \in Directions \cup {None}
           /\ hema' \in Directions \cup {None}
           /\ kalman' \in Directions \cup {None}
           /\ epoch' \in Nat
           /\ activation' \in Times \cup {0}
           /\ lastTs' \in Times
           /\ mark' \in {c.quote : c \in Bars}
           /\ lastTs < t /\ lastTs' = t
           /\ activation' <= lastTs'
           /\ bias' # None => activation' # 0
           /\ \/ epoch' = epoch /\ activation' = activation
              \/ epoch' = epoch + 1 /\ activation' = t
  <1>1. LegalBar(b)
    BY BarsAssumption
  <1> QED
    BY <1>1, TimesAssumption
    DEF TypeOK, Anchored, Observe, NewEpoch, NewActivation, LegalBar

\* A trade built by _open_trade is an OpenTrade, and it uses up one number.
LEMMA NewTradeTyped ==
    ASSUME TypeOK, NEW b \in Bars, NEW t \in Times,
           NEW side \in Directions, NEW flipTs \in Times
    PROVE  /\ NewTrade(b, t, side, flipTs) \in Trades
           /\ NextSequence(NewTrade(b, t, side, flipTs)) = nextSeq + 1
  <1>1. LegalBar(b)
    BY BarsAssumption
  <1>2. NewTrade(b, t, side, flipTs) \in Trades
    <2>1. /\ b.quote.close \in Int /\ b.distance \in Int
          /\ nextSeq \in Nat /\ NewEpoch(b) \in Nat
      BY <1>1 DEF LegalBar, TypeOK, NewEpoch
    <2> QED
      BY <2>1 DEF NewTrade, Trades, Directions
  <1> QED
    BY <1>2, NoneAssumption DEF NextSequence, NewTrade

\* A setup survives a bar only if the bar agrees with it in its own epoch.
LEMMA SurvivingAgrees ==
    ASSUME NEW b \in Bars, Surviving(b) # None
    PROVE  /\ Surviving(b) = pending /\ pending # None
           /\ Ready(b)
           /\ pending.epoch = NewEpoch(b)
           /\ b.htf_bias = pending.dir
           /\ b.hema_direction = pending.dir
  <1>1. None \notin CancelReasons
    BY NoneAssumption
  <1>2. pending # None /\ CancelReason(b) = None /\ Surviving(b) = pending
    BY DEF Surviving
  <1> QED
    BY <1>1, <1>2, Zenon DEF CancelReason, CancelReasons

-----------------------------------------------------------------------------
LEMMA InitIInv == Init => IInv
  BY NoneAssumption
  DEF Init, IInv, TypeOK, Anchored, PendingSound, TradeInEpoch, NoTradeAgainstBias,
      FreshSetup, Directions

\* No setup is armed while a trade is open.
LEMMA NoSetupBesideTrade ==
    ASSUME IInv, trade # None
    PROVE  pending = None
  BY DEF IInv, TradeInEpoch

LEMMA CloseTradeStep ==
    ASSUME IInv, NEW b \in Bars, NEW t \in Times, CloseTrade(b, t)
    PROVE  IInv' /\ trade' = None /\ pending' = None
  <1>1. trade' = None /\ pending' = None
    BY NoSetupBesideTrade DEF CloseTrade, Surviving
  <1>2. TypeOK' /\ Anchored'
    BY <1>1, ObserveTyped, TimesAssumption DEF IInv, TypeOK, Anchored, CloseTrade, Observe,
       NextSequence
  <1> QED
    BY <1>1, <1>2 DEF IInv, PendingSound, TradeInEpoch, NoTradeAgainstBias, FreshSetup

LEMMA HoldTradeStep ==
    ASSUME IInv, NEW b \in Bars, NEW t \in Times, HoldTrade(b, t)
    PROVE  IInv' /\ trade' = trade
  <1>1. trade' = trade /\ trade \in Trades /\ pending' = None
    BY NoSetupBesideTrade DEF HoldTrade, Surviving, IInv, TypeOK
  <1>2. nextSeq' = nextSeq /\ trade.seq = nextSeq - 1 /\ nextSeq \in Nat
    BY <1>1 DEF IInv, TypeOK, TradeInEpoch, HoldTrade, Observe, NextSequence, Trades
  <1>3. TypeOK' /\ Anchored'
    BY <1>1, <1>2, ObserveTyped, TimesAssumption DEF IInv, TypeOK, Anchored, HoldTrade
  <1>4. TradeInEpoch'
    <2>1. /\ trade.entryTs \in Nat /\ trade.origin \in Nat /\ trade.epoch \in Nat
          /\ activation \in Nat /\ lastTs \in Nat /\ epoch \in Nat /\ t \in Nat
      <3>1. /\ trade.entryTs \in Times /\ trade.origin \in Times /\ trade.epoch \in Nat
        BY <1>1 DEF Trades
      <3>2. activation \in Times \cup {0} /\ lastTs \in Times \cup {0} /\ epoch \in Nat
        BY DEF IInv, TypeOK
      <3> QED
        BY <3>1, <3>2, TimesAreNat
    <2>2. /\ lastTs < t /\ lastTs' = t
          /\ \/ epoch' = epoch /\ activation' = activation
             \/ epoch' = epoch + 1 /\ activation' = t
      BY ObserveTyped DEF IInv, HoldTrade
    <2> QED
      BY <1>1, <1>2, <2>1, <2>2 DEF IInv, TradeInEpoch, HoldTrade
  <1>5. NoTradeAgainstBias'
    BY <1>1 DEF HoldTrade, CloseReasons, NoTradeAgainstBias, Observe
  <1>6. PendingSound' /\ FreshSetup'
    BY <1>1 DEF PendingSound, FreshSetup, HoldTrade, IInv
  <1> QED
    BY <1>1, <1>3, <1>4, <1>5, <1>6 DEF IInv

\* Opening a trade whose flip is younger than the last close and lies in the
\* epoch the bar leaves current.
LEMMA OpenStep ==
    ASSUME IInv, NEW b \in Bars, NEW t \in Times, trade = None,
           NEW side \in Directions, NEW flipTs \in Times,
           Open(b, t, side, flipTs),
           lastExit < flipTs, flipTs <= t, NewActivation(b, t) <= flipTs,
           b.htf_bias = side
    PROVE  IInv'
  <1> DEFINE new == NewTrade(b, t, side, flipTs)
  <1>1. /\ trade' = new /\ pending' = None /\ lastExit' = lastExit
        /\ new \in Trades /\ nextSeq' = nextSeq + 1
        /\ nextSeq \in Nat
    BY NewTradeTyped DEF IInv, TypeOK, Open, Observe
  <1>2. /\ new.seq = nextSeq /\ new.side = side /\ new.entryTs = t
        /\ new.origin = flipTs /\ new.epoch = epoch'
    BY DEF NewTrade, Open, Observe
  <1>3. /\ lastTs < t /\ lastTs' = t /\ activation' = NewActivation(b, t)
        /\ epoch' \in Nat /\ bias' = side
    BY ObserveTyped DEF IInv, Open, Observe
  <1>4. t \in Nat /\ flipTs \in Nat /\ lastTs \in Nat /\ lastExit \in Nat
    BY TimesAreNat DEF IInv, TypeOK
  <1>5. TypeOK' /\ Anchored'
    BY <1>1, <1>3, <1>4, ObserveTyped DEF IInv, TypeOK, Anchored, Open
  <1>6. TradeInEpoch'
    BY <1>1, <1>2, <1>3, <1>4 DEF TradeInEpoch
  <1>7. NoTradeAgainstBias'
    BY <1>1, <1>2, <1>3 DEF NoTradeAgainstBias, Opposite, Directions
  <1>8. PendingSound' /\ FreshSetup'
    BY <1>1, <1>2 DEF PendingSound, FreshSetup
  <1> QED
    BY <1>5, <1>6, <1>7, <1>8 DEF IInv

LEMMA ConfirmPendingStep ==
    ASSUME IInv, NEW b \in Bars, NEW t \in Times, ConfirmPending(b, t)
    PROVE  IInv' /\ Open(b, t, pending.dir, pending.flipTs)
  <1>1. /\ trade = None /\ Open(b, t, pending.dir, pending.flipTs)
        /\ pending # None /\ pending \in Setups
        /\ pending.epoch = NewEpoch(b) /\ b.htf_bias = pending.dir
    BY SurvivingAgrees DEF ConfirmPending, IInv, TypeOK
  <1>2. /\ pending.dir \in Directions /\ pending.flipTs \in Times
    BY <1>1 DEF Setups
  <1>3. /\ activation <= pending.flipTs /\ pending.flipTs <= lastTs
        /\ lastExit < pending.flipTs /\ pending.epoch = epoch /\ epoch \in Nat
    BY <1>1 DEF IInv, TypeOK, PendingSound, FreshSetup
  <1>4. NewActivation(b, t) <= pending.flipTs
    BY <1>1, <1>3 DEF NewActivation, NewEpoch
  <1>5. pending.flipTs <= t
    <2>1. lastTs < t
      BY <1>1 DEF Open, Observe
    <2> QED
      BY <1>2, <1>3, <2>1, TimesAreNat DEF IInv, TypeOK
  <1> QED
    BY <1>1, <1>2, <1>3, <1>4, <1>5, OpenStep

LEMMA EnterOnFlipStep ==
    ASSUME IInv, NEW b \in Bars, NEW t \in Times, EnterOnFlip(b, t)
    PROVE  IInv' /\ Open(b, t, b.hema_direction, t) /\ b.hema_direction = b.htf_bias
  <1>1. /\ trade = None /\ Open(b, t, b.hema_direction, t)
        /\ b.hema_direction = b.htf_bias
        /\ b.hema_flip /\ b.hema_direction # None
        /\ NewActivation(b, t) <= t
    <2>1. LegalBar(b)
      BY BarsAssumption
    <2>2. /\ NewActivation(b, t) \in Nat /\ t \in Nat
      BY TimesAreNat DEF NewActivation, IInv, TypeOK
    <2> QED
      BY <2>1, <2>2 DEF EnterOnFlip, FlipAccepted, FreshFlip, LegalBar
  <1>2. b.hema_direction \in Directions
    BY <1>1, BarsAssumption DEF LegalBar
  <1>3. lastExit < t
    BY <1>1, TimesAreNat DEF IInv, TypeOK, Anchored, Open, Observe
  <1>4. t <= t
    BY TimesAreNat
  <1> QED
    BY <1>1, <1>2, <1>3, <1>4, OpenStep

LEMMA WaitPendingStep ==
    ASSUME IInv, NEW b \in Bars, NEW t \in Times, WaitPending(b, t)
    PROVE  IInv' /\ trade' = None
  <1>1. /\ trade' = None /\ pending' = pending /\ pending # None
        /\ lastExit' = lastExit /\ nextSeq' = nextSeq
        /\ pending.epoch = NewEpoch(b)
        /\ b.htf_bias = pending.dir /\ b.hema_direction = pending.dir
        /\ b.kalman_direction # pending.dir
        /\ Observe(b, t)
    BY SurvivingAgrees DEF WaitPending, Observe, NextSequence
  <1>2. /\ activation <= pending.flipTs /\ pending.flipTs <= lastTs
        /\ lastExit < pending.flipTs /\ pending.epoch = epoch /\ epoch \in Nat
        /\ pending.flipTs \in Nat /\ lastTs \in Nat /\ t \in Nat
    BY <1>1, TimesAreNat DEF IInv, TypeOK, PendingSound, FreshSetup, Setups
  <1>3. /\ epoch' = epoch /\ activation' = activation /\ lastTs' = t /\ lastTs < t
    BY <1>1, <1>2 DEF Observe, NewActivation, NewEpoch
  <1>4. TypeOK' /\ Anchored'
    <2>1. TypeOK /\ Anchored
      BY DEF IInv
    <2>2. TypeOK'
      BY <1>1, <2>1, ObserveTyped DEF TypeOK
    <2>3. lastExit <= t
      <3>1. lastExit \in Nat
        BY <2>1, TimesAreNat DEF TypeOK
      <3> QED
        BY <1>2, <1>3, <3>1
    <2>4. Anchored'
      BY <1>1, <2>1, <2>3, ObserveTyped DEF Anchored
    <2> QED
      BY <2>2, <2>4
  <1>5. PendingSound'
    <2>1. status' = <<"pending", pending.dir>>
      BY <1>1 DEF Observe, Status
    <2>2. bias' = pending.dir /\ hema' = pending.dir /\ kalman' # pending.dir
      BY <1>1 DEF Observe
    <2> QED
      BY <1>1, <1>2, <1>3, <2>1, <2>2 DEF PendingSound
  <1>6. TradeInEpoch' /\ NoTradeAgainstBias' /\ FreshSetup'
    BY <1>1, <1>2 DEF TradeInEpoch, NoTradeAgainstBias, FreshSetup
  <1> QED
    BY <1>1, <1>4, <1>5, <1>6 DEF IInv

LEMMA ArmOnFlipStep ==
    ASSUME IInv, NEW b \in Bars, NEW t \in Times, ArmOnFlip(b, t)
    PROVE  IInv' /\ trade' = None
  <1> DEFINE new == [dir |-> b.hema_direction, flipTs |-> t, epoch |-> NewEpoch(b)]
  <1>1. /\ trade' = None /\ pending' = new
        /\ lastExit' = lastExit /\ nextSeq' = nextSeq
        /\ b.hema_direction = b.htf_bias /\ b.kalman_direction # b.hema_direction
        /\ b.hema_flip /\ t >= NewActivation(b, t)
        /\ Observe(b, t)
    BY DEF ArmOnFlip, Observe, NextSequence, FlipAccepted, FreshFlip
  <1>2. b.hema_direction \in Directions
    BY <1>1, BarsAssumption DEF LegalBar
  <1>3. /\ epoch' = NewEpoch(b) /\ activation' = NewActivation(b, t)
        /\ lastTs' = t /\ lastTs < t
        /\ bias' = b.htf_bias /\ hema' = b.hema_direction /\ kalman' = b.kalman_direction
    BY <1>1 DEF Observe
  <1>4. /\ lastTs \in Nat /\ t \in Nat /\ lastExit \in Nat /\ activation' \in Nat
    BY <1>1, ObserveTyped, TimesAreNat DEF IInv, TypeOK
  <1>5. new \in Setups
    BY <1>1, <1>2, <1>3, ObserveTyped DEF Setups, IInv
  <1>6. TypeOK' /\ Anchored'
    BY <1>1, <1>3, <1>4, <1>5, ObserveTyped DEF IInv, TypeOK, Anchored
  <1>7. PendingSound'
    <2>1. status' = <<"pending", b.hema_direction>>
      BY <1>1, <1>5, NoneAssumption DEF Observe, Status
    <2> QED
      BY <1>1, <1>3, <1>4, <2>1 DEF PendingSound
  <1>8. TradeInEpoch' /\ NoTradeAgainstBias' /\ FreshSetup'
    BY <1>1, <1>3, <1>4 DEF TradeInEpoch, NoTradeAgainstBias, FreshSetup, IInv, Anchored
  <1> QED
    BY <1>1, <1>6, <1>7, <1>8 DEF IInv

LEMMA StayFlatStep ==
    ASSUME IInv, NEW b \in Bars, NEW t \in Times, StayFlat(b, t)
    PROVE  IInv' /\ trade' = None
  <1>1. /\ trade' = None /\ pending' = None
        /\ lastExit' = lastExit /\ nextSeq' = nextSeq /\ Observe(b, t)
    BY DEF StayFlat, Observe, NextSequence
  <1>2. TypeOK' /\ Anchored'
    BY <1>1, ObserveTyped, TimesAreNat DEF IInv, TypeOK, Anchored
  <1> QED
    BY <1>1, <1>2 DEF IInv, PendingSound, TradeInEpoch, NoTradeAgainstBias, FreshSetup

-----------------------------------------------------------------------------
\* A rejected call (duplicate or out-of-order time stamp) keeps the invariant.
LEMMA RejectedStep ==
    ASSUME IInv, Duplicate \/ OutOfOrder \/ UNCHANGED vars
    PROVE  /\ IInv'
           /\ UNCHANGED <<inputs, pending, trade, nextSeq, lastTs, status, mark, lastExit>>
  <1>1. UNCHANGED <<inputs, pending, trade, nextSeq, lastTs, status, mark, lastExit>>
    BY DEF Duplicate, OutOfOrder, vars
  <1> QED
    BY <1>1 DEF inputs, IInv, TypeOK, Anchored, PendingSound, TradeInEpoch,
       NoTradeAgainstBias, FreshSetup

\* One call of step() keeps the inductive invariant.
LEMMA StepIInv ==
    ASSUME IInv, [Next]_vars
    PROVE  IInv'
  <1>1. ASSUME NEW t \in Times, NEW b \in Bars, Step(b, t)
        PROVE  IInv'
    <2>1. CASE CloseTrade(b, t)      BY <2>1, CloseTradeStep
    <2>2. CASE HoldTrade(b, t)       BY <2>2, HoldTradeStep
    <2>3. CASE ConfirmPending(b, t)  BY <2>3, ConfirmPendingStep
    <2>4. CASE WaitPending(b, t)     BY <2>4, WaitPendingStep
    <2>5. CASE EnterOnFlip(b, t)     BY <2>5, EnterOnFlipStep
    <2>6. CASE ArmOnFlip(b, t)       BY <2>6, ArmOnFlipStep
    <2>7. CASE StayFlat(b, t)        BY <2>7, StayFlatStep
    <2> QED
      BY <1>1, <2>1, <2>2, <2>3, <2>4, <2>5, <2>6, <2>7 DEF Step
  <1> QED
    BY <1>1, RejectedStep DEF Next

\* The inductive invariant holds of every state the engine returns.
THEOREM SpecIInv == Spec => []IInv
  <1>1. Init => IInv
    BY InitIInv
  <1>2. IInv /\ [Next]_vars => IInv'
    BY StepIInv
  <1> QED
    BY <1>1, <1>2, PTL DEF Spec

\* The StrategyState that step() returns is always a legal one.
THEOREM SpecTypeOK == Spec => []TypeOK
  BY SpecIInv, PTL DEF IInv

\* An armed setup is aligned with bias and HEMA in the epoch of its flip.
THEOREM SpecPendingSound == Spec => []PendingSound
  BY SpecIInv, PTL DEF IInv

\* A trade carries the last id issued and lies in the epoch it records.
THEOREM SpecTradeInEpoch == Spec => []TradeInEpoch
  BY SpecIInv, PTL DEF IInv

\* With EXIT behaviour no trade is held against the 4h bias.
THEOREM SpecNoTradeAgainstBias == Spec => []NoTradeAgainstBias
  BY SpecIInv, PTL DEF IInv

\* No flip pays for two trades, and none on the bar of a close pays for any.
THEOREM SpecFreshSetup == Spec => []FreshSetup
  BY SpecIInv, PTL DEF IInv

-----------------------------------------------------------------------------
\* The bar that closes a trade leaves neither a trade nor a setup.
LEMMA StepNoSameBarReversal ==
    ASSUME IInv, [Next]_vars, trade # None
    PROVE  trade' = trade \/ (trade' = None /\ pending' = None)
  <1>1. ASSUME NEW t \in Times, NEW b \in Bars, Step(b, t)
        PROVE  trade' = trade \/ (trade' = None /\ pending' = None)
    <2>1. CloseTrade(b, t) \/ HoldTrade(b, t)
      BY <1>1 DEF Step, ConfirmPending, WaitPending, EnterOnFlip, ArmOnFlip, StayFlat
    <2> QED
      BY <2>1, CloseTradeStep, HoldTradeStep
  <1> QED
    BY <1>1, RejectedStep DEF Next

\* No same-bar reversal, whatever the bar.
THEOREM SpecNoSameBarReversal == Spec => NoSameBarReversal
  <1>1. IInv /\ [Next]_vars =>
          [trade # None => trade' = trade \/ (trade' = None /\ pending' = None)]_vars
    BY StepNoSameBarReversal
  <1> QED
    BY <1>1, SpecIInv, PTL DEF Spec, NoSameBarReversal

LEMMA StepEntryAgreement ==
    ASSUME IInv, [Next]_vars, trade = None, trade' # None
    PROVE  {bias', hema', kalman'} = {trade'.side} /\ trade'.epoch = epoch'
  <1>1. ASSUME NEW t \in Times, NEW b \in Bars, Step(b, t)
        PROVE  {bias', hema', kalman'} = {trade'.side} /\ trade'.epoch = epoch'
    <2>1. CASE ConfirmPending(b, t)
      <3>1. /\ b.kalman_direction = pending.dir /\ b.hema_direction = pending.dir
            /\ b.htf_bias = pending.dir
        BY <2>1, SurvivingAgrees DEF ConfirmPending
      <3> QED
        BY <2>1, <3>1 DEF ConfirmPending, Open, Observe, NewTrade
    <2>2. CASE EnterOnFlip(b, t)
      BY <2>2 DEF EnterOnFlip, FlipAccepted, Open, Observe, NewTrade
    <2> QED
      BY <1>1, <2>1, <2>2, CloseTradeStep, HoldTradeStep, WaitPendingStep, ArmOnFlipStep,
         StayFlatStep DEF Step
  <1> QED
    BY <1>1, RejectedStep DEF Next

\* A trade opens only where bias, HEMA and Kalman agree, in the current epoch.
THEOREM SpecEntryAgreement == Spec => EntryAgreement
  <1>1. IInv /\ [Next]_vars =>
          [trade = None /\ trade' # None =>
            /\ {bias', hema', kalman'} = {trade'.side}
            /\ trade'.epoch = epoch']_vars
    BY StepEntryAgreement
  <1> QED
    BY <1>1, SpecIInv, PTL DEF Spec, EntryAgreement

-----------------------------------------------------------------------------
LEMMA StepStopHonoured ==
    ASSUME IInv, [Next]_vars, StopHonoured
    PROVE  StopHonoured'
  <1>1. ASSUME NEW t \in Times, NEW b \in Bars, Step(b, t)
        PROVE  StopHonoured'
    <2>1. CASE HoldTrade(b, t)
      <3>1. ~StopHit(trade, b.quote)
        BY <2>1 DEF HoldTrade, CloseReasons
      <3> QED
        BY <2>1, <3>1 DEF StopHonoured, HoldTrade, Observe, StopHit
    <2>2. ASSUME NEW side, NEW flipTs, Open(b, t, side, flipTs)
          PROVE  StopHonoured'
      <3>1. trade'.entryTs = t /\ lastTs' = t
        BY <2>2 DEF Open, NewTrade, Observe
      <3> QED
        BY <3>1, TimesAreNat DEF StopHonoured
    <2>3. CASE trade' = None
      BY <2>3 DEF StopHonoured
    <2> QED
      BY <1>1, <2>1, <2>2, <2>3, CloseTradeStep, ConfirmPendingStep, EnterOnFlipStep,
         WaitPendingStep, ArmOnFlipStep, StayFlatStep DEF Step
  <1> QED
    BY <1>1, RejectedStep DEF Next, StopHonoured, StopHit

\* An open trade never outlives a bar that reached its stop.
THEOREM SpecStopHonoured == Spec => []StopHonoured
  <1>1. Init => StopHonoured
    BY DEF Init, StopHonoured
  <1>2. IInv /\ [Next]_vars /\ StopHonoured => StopHonoured'
    BY StepStopHonoured
  <1> QED
    BY <1>1, <1>2, SpecIInv, PTL DEF Spec

-----------------------------------------------------------------------------
(* What a call reports.                                                    *)

\* The entries of a list of events.
Said(evs) == {evs[i] : i \in DOMAIN evs}

List(evs) == evs \in Seq(Said(evs))

LEMMA SaidBoth ==
    ASSUME NEW s, NEW u, List(s), List(u)
    PROVE  List(s \o u) /\ Said(s \o u) = Said(s) \cup Said(u)
  <1> DEFINE All == Said(s) \cup Said(u)
  <1>1. /\ s \o u \in Seq(All) /\ DOMAIN (s \o u) = 1..(Len(s) + Len(u))
        /\ DOMAIN s = 1..Len(s) /\ DOMAIN u = 1..Len(u)
        /\ Len(s) \in Nat /\ Len(u) \in Nat
    <2>1. s \in Seq(All) /\ u \in Seq(All)
      BY SeqMonotonic DEF List
    <2> HIDE DEF All
    <2> QED
      BY <2>1
  <1>2. ASSUME NEW e \in Said(s)
        PROVE  e \in Said(s \o u)
    <2>1. PICK i \in 1..Len(s) : e = s[i]
      BY <1>1, <1>2 DEF Said
    <2>2. i \in 1..(Len(s) + Len(u)) /\ (s \o u)[i] = s[i]
      BY <1>1
    <2> QED
      BY <1>1, <2>1, <2>2 DEF Said
  <1>3. ASSUME NEW e \in Said(u)
        PROVE  e \in Said(s \o u)
    <2>1. PICK i \in 1..Len(u) : e = u[i]
      BY <1>1, <1>3 DEF Said
    <2>2. Len(s) + i \in 1..(Len(s) + Len(u)) /\ (s \o u)[Len(s) + i] = u[i]
      BY <1>1
    <2> QED
      BY <1>1, <2>1, <2>2 DEF Said
  <1>4. ASSUME NEW e \in Said(s \o u)
        PROVE  e \in Said(s) \cup Said(u)
    <2>1. PICK i \in 1..(Len(s) + Len(u)) : e = (s \o u)[i]
      BY <1>1, <1>4 DEF Said
    <2>2. CASE i <= Len(s)
      BY <1>1, <2>1, <2>2 DEF Said
    <2>3. CASE i > Len(s)
      <3>1. i - Len(s) \in 1..Len(u) /\ e = u[i - Len(s)]
        BY <1>1, <2>1, <2>3
      <3> QED
        BY <1>1, <3>1 DEF Said
    <2> QED
      BY <1>1, <2>2, <2>3
  <1> QED
    BY <1>1, <1>2, <1>3, <1>4 DEF List

LEMMA SaidOne ==
    ASSUME NEW e
    PROVE  List(<<e>>) /\ Said(<<e>>) = {e}
  BY DEF List, Said

LEMMA SaidNothing == List(<<>>) /\ Said(<<>>) = {}
  BY DEF List, Said

\* What every branch reports before it decides.
LEMMA SaidObserved ==
    ASSUME NEW b \in Bars
    PROVE  /\ List(Observed(b))
           /\ \A e \in Said(Observed(b)) :
                /\ e.type \in {"htf_bias_changed", "hema_flip_detected"}
                /\ e.reason \in {"htf_bias_changed", "hema_flip_detected"}
           /\ "hema_flip_detected" \in TypesOf(Observed(b)) => FreshFlip(b)
  <1> DEFINE change == When(b.htf_bias # bias, "htf_bias_changed", "htf_bias_changed")
             flip == When(FreshFlip(b), "hema_flip_detected", "hema_flip_detected")
  <1>1. FreshFlip(b) \in BOOLEAN
    BY BarsAssumption DEF FreshFlip, LegalBar
  <1>2. List(change)
        /\ Said(change) \subseteq {[type |-> "htf_bias_changed", reason |-> "htf_bias_changed"]}
    <2>1. CASE b.htf_bias # bias
      BY <2>1, SaidOne DEF When
    <2>2. CASE b.htf_bias = bias
      BY <2>2, SaidNothing DEF When
    <2> QED
      BY <2>1, <2>2
  <1>5. /\ List(flip)
        /\ Said(flip) \subseteq {[type |-> "hema_flip_detected", reason |-> "hema_flip_detected"]}
        /\ ~FreshFlip(b) => Said(flip) = {}
    <2>1. CASE FreshFlip(b)
      BY <2>1, SaidOne DEF When
    <2>2. CASE ~FreshFlip(b)
      BY <2>2, SaidNothing DEF When
    <2> QED
      BY <2>1, <2>2
  <1>3. List(Observed(b)) /\ Said(Observed(b)) = Said(change) \cup Said(flip)
    BY <1>2, <1>5, SaidBoth DEF Observed
  <1>4. TypesOf(Observed(b)) = {e.type : e \in Said(Observed(b))}
    BY DEF TypesOf, Said
  <1> HIDE DEF change, flip
  <1> QED
    BY <1>2, <1>3, <1>4, <1>5

LEMMA SaidCancelled ==
    ASSUME NEW b \in Bars
    PROVE  /\ List(Cancelled(b))
           /\ \A e \in Said(Cancelled(b)) :
                e.type = "setup_cancelled" /\ e.reason \in CancelReasons
  <1>1. CancelReason(b) = None \/ CancelReason(b) \in CancelReasons
    BY Zenon DEF CancelReason, CancelReasons
  <1>2. CASE pending = None
    BY <1>2, SaidNothing DEF Cancelled
  <1>3. CASE pending # None
    <2>1. CASE CancelReason(b) = None
      BY <1>3, <2>1, SaidNothing DEF Cancelled, When
    <2>2. CASE CancelReason(b) \in CancelReasons
      <3>1. CancelReason(b) # None
        BY <2>2, NoneAssumption DEF CancelReasons
      <3>2. Cancelled(b) = <<[type |-> "setup_cancelled", reason |-> CancelReason(b)]>>
        BY <1>3, <3>1 DEF Cancelled, When
      <3> QED
        BY <2>2, <3>1, <3>2, SaidOne
    <2> QED
      BY <1>1, <2>1, <2>2
  <1> QED
    BY <1>2, <1>3

\* The answer to a fresh flip that was not taken.
LEMMA SaidRejected ==
    ASSUME NEW b \in Bars, NEW reason
    PROVE  LET answer == When(FreshFlip(b), "decision_rejected", reason)
           IN  /\ List(answer)
               /\ Said(answer) \subseteq {[type |-> "decision_rejected", reason |-> reason]}
               /\ FreshFlip(b) =>
                    Said(answer) = {[type |-> "decision_rejected", reason |-> reason]}
  <1>1. CASE FreshFlip(b)
    BY <1>1, SaidOne DEF When
  <1>2. CASE ~FreshFlip(b)
    BY <1>2, SaidNothing DEF When
  <1> QED
    BY <1>1, <1>2

\* A trade is reported closed by a stop only where the bar reached the stop.
LEMMA StopReasonMeansHit ==
    ASSUME NEW b \in Bars, CloseReasons(b) # <<>>, Head(CloseReasons(b)) = "exit_stop"
    PROVE  StopHit(trade, b.quote)
  <1> SUFFICES ASSUME ~StopHit(trade, b.quote)
               PROVE  FALSE
    OBVIOUS
  <1> DEFINE reversal == IF ExitOnReversal /\ b.htf_bias = Opposite(trade.side)
                         THEN <<"exit_htf_reversal">> ELSE <<>>
             flip == IF FreshFlip(b) /\ b.hema_direction = Opposite(trade.side)
                     THEN <<"exit_hema_flip">> ELSE <<>>
  <1>1. List(reversal) /\ Said(reversal) \subseteq {"exit_htf_reversal"}
    BY SaidOne, SaidNothing
  <1>2. List(flip) /\ Said(flip) \subseteq {"exit_hema_flip"}
    BY SaidOne, SaidNothing
  <1>3. CloseReasons(b) = (<<>> \o reversal) \o flip
    BY DEF CloseReasons
  <1> HIDE DEF reversal, flip
  <1>4. List(CloseReasons(b))
        /\ Said(CloseReasons(b)) \subseteq {"exit_htf_reversal", "exit_hema_flip"}
    BY <1>1, <1>2, <1>3, SaidBoth, SaidNothing
  <1>5. Head(CloseReasons(b)) \in Said(CloseReasons(b))
    BY <1>4, HeadTailProperties DEF List
  <1> QED
    BY <1>4, <1>5

LEMMA SaidClosed ==
    ASSUME IInv, trade # None, NEW b \in Bars, CloseReasons(b) # <<>>
    PROVE  /\ List(Closed(b))
           /\ \A e \in Said(Closed(b)) : b.quote.low <= e.price /\ e.price <= b.quote.high
  <1> DEFINE first == Head(CloseReasons(b))
             fill == StopFill(trade, b.quote)
             Entry(type, reason, price) == [type |-> type, reason |-> reason, price |-> price]
  <1>1. /\ {b.quote.open, b.quote.high, b.quote.low, b.quote.close} \subseteq Int
        /\ b.quote.low <= b.quote.open /\ b.quote.open <= b.quote.high
        /\ b.quote.low <= b.quote.close /\ b.quote.close <= b.quote.high
    BY BarsAssumption DEF LegalBar
  <1>2. CASE first = "exit_stop"
    <2>1. StopHit(trade, b.quote)
      BY <1>2, StopReasonMeansHit
    <2>2. trade.side \in Directions /\ trade.stop \in Int
      BY DEF IInv, TypeOK, Trades
    <2>3. b.quote.low <= fill /\ fill <= b.quote.high
      BY <1>1, <2>1, <2>2 DEF StopHit, StopFill, Directions
    <2>4. Closed(b) = <<Entry("stop_hit", "exit_stop", fill)>>
                      \o <<Entry("trade_closed", "exit_stop", fill)>>
      BY <1>2 DEF Closed, Priced
    <2>5. List(Closed(b)) /\ \A e \in Said(Closed(b)) : e.price = fill
      <3> HIDE DEF fill
      <3>1. /\ List(<<Entry("stop_hit", "exit_stop", fill)>>)
            /\ Said(<<Entry("stop_hit", "exit_stop", fill)>>)
                 = {Entry("stop_hit", "exit_stop", fill)}
            /\ List(<<Entry("trade_closed", "exit_stop", fill)>>)
            /\ Said(<<Entry("trade_closed", "exit_stop", fill)>>)
                 = {Entry("trade_closed", "exit_stop", fill)}
        BY SaidOne
      <3>2. /\ List(Closed(b))
            /\ Said(Closed(b)) = {Entry("stop_hit", "exit_stop", fill)}
                                 \cup {Entry("trade_closed", "exit_stop", fill)}
        BY <2>4, <3>1, SaidBoth
      <3> QED
        BY <3>2
    <2> QED
      BY <2>3, <2>5
  <1>3. CASE first # "exit_stop"
    <2>1. Closed(b) = <<Entry("trade_closed", first, b.quote.close)>>
      BY <1>3 DEF Closed, Priced
    <2> HIDE DEF first
    <2>2. List(Closed(b)) /\ Said(Closed(b)) = {Entry("trade_closed", first, b.quote.close)}
      BY <2>1, SaidOne
    <2> QED
      BY <1>1, <2>2
  <1> QED
    BY <1>2, <1>3

\* What the branches report, in terms of what they say before they decide.
LEMMA SaidByBranch ==
    ASSUME IInv, NEW b \in Bars, NEW t \in Times, Step(b, t)
    PROVE  \/ /\ CloseTrade(b, t)
              /\ \A e \in Said(events') :
                    \/ e \in Said(Observed(b)) \cup Said(Cancelled(b)) \cup Said(Closed(b))
                    \/ e.type = "decision_rejected"
           \/ /\ HoldTrade(b, t)
              /\ Said(events') = Said(Observed(b)) \cup Said(Cancelled(b))
           \/ /\ ConfirmPending(b, t) \/ EnterOnFlip(b, t)
              /\ Said(events') = Said(Observed(b)) \cup Said(Cancelled(b)) \cup
                    {[type |-> "trade_opened", reason |-> "entry_accepted",
                      price |-> b.quote.close]}
           \/ /\ WaitPending(b, t)
              /\ Said(events') = Said(Observed(b))
           \/ /\ ArmOnFlip(b, t)
              /\ Said(events') = Said(Observed(b)) \cup Said(Cancelled(b)) \cup
                    {[type |-> "setup_armed", reason |-> "pending_setup_armed"]}
           \/ /\ StayFlat(b, t)
              /\ \E answer : /\ answer \subseteq {[type |-> "decision_rejected",
                                                   reason |-> RejectReason(b)]}
                             /\ FreshFlip(b) => answer # {}
                             /\ Said(events') = Said(Observed(b)) \cup Said(Cancelled(b))
                                                \cup answer
  <1>1. List(Observed(b)) /\ List(Cancelled(b))
    BY SaidObserved, SaidCancelled
  <1>2. /\ List(Observed(b) \o Cancelled(b))
        /\ Said(Observed(b) \o Cancelled(b)) = Said(Observed(b)) \cup Said(Cancelled(b))
    BY <1>1, SaidBoth
  <1>3. CASE CloseTrade(b, t)
    <2> DEFINE answer == When(FreshFlip(b), "decision_rejected", "no_same_bar_reversal")
               told == (Observed(b) \o Closed(b)) \o Cancelled(b)
    <2>1. List(Closed(b))
      BY <1>3, SaidClosed DEF CloseTrade
    <2>2. /\ List(told)
          /\ Said(told) = Said(Observed(b)) \cup Said(Cancelled(b)) \cup Said(Closed(b))
      BY <1>1, <2>1, SaidBoth
    <2>3. /\ List(answer)
          /\ Said(answer) \subseteq
               {[type |-> "decision_rejected", reason |-> "no_same_bar_reversal"]}
      BY SaidRejected
    <2>4. events' = told \o answer
      BY <1>3 DEF CloseTrade
    <2> HIDE DEF told, answer
    <2>5. Said(events') = Said(told) \cup Said(answer)
      BY <2>2, <2>3, <2>4, SaidBoth
    <2> QED
      BY <1>3, <2>2, <2>3, <2>5
  <1>4. CASE HoldTrade(b, t)
    BY <1>2, <1>4 DEF HoldTrade
  <1>5. CASE ConfirmPending(b, t) \/ EnterOnFlip(b, t)
    <2> DEFINE opened == [type |-> "trade_opened", reason |-> "entry_accepted",
                          price |-> b.quote.close]
    <2>1. events' = (Observed(b) \o Cancelled(b)) \o <<opened>>
      BY <1>5 DEF ConfirmPending, EnterOnFlip, Open, Priced
    <2>2. List(<<opened>>) /\ Said(<<opened>>) = {opened}
      BY SaidOne
    <2> HIDE DEF opened
    <2>3. Said(events') = Said(Observed(b)) \cup Said(Cancelled(b)) \cup {opened}
      BY <1>2, <2>1, <2>2, SaidBoth
    <2> QED
      BY <1>5, <2>3 DEF opened
  <1>6. CASE WaitPending(b, t)
    BY <1>6 DEF WaitPending
  <1>7. CASE ArmOnFlip(b, t)
    <2> DEFINE armed == [type |-> "setup_armed", reason |-> "pending_setup_armed"]
    <2>1. events' = (Observed(b) \o Cancelled(b)) \o <<armed>>
      BY <1>7 DEF ArmOnFlip, When
    <2>2. List(<<armed>>) /\ Said(<<armed>>) = {armed}
      BY SaidOne
    <2> HIDE DEF armed
    <2>3. Said(events') = Said(Observed(b)) \cup Said(Cancelled(b)) \cup {armed}
      BY <1>2, <2>1, <2>2, SaidBoth
    <2> QED
      BY <1>7, <2>3 DEF armed
  <1>8. CASE StayFlat(b, t)
    <2> DEFINE answer == When(FreshFlip(b), "decision_rejected", RejectReason(b))
    <2>1. events' = (Observed(b) \o Cancelled(b)) \o answer
      BY <1>8 DEF StayFlat
    <2>2. /\ List(answer)
          /\ Said(answer) \subseteq
               {[type |-> "decision_rejected", reason |-> RejectReason(b)]}
          /\ FreshFlip(b) => Said(answer) =
               {[type |-> "decision_rejected", reason |-> RejectReason(b)]}
      BY SaidRejected
    <2> HIDE DEF answer
    <2>3. Said(events') = Said(Observed(b)) \cup Said(Cancelled(b)) \cup Said(answer)
      BY <1>2, <2>1, <2>2, SaidBoth
    <2> QED
      BY <1>8, <2>2, <2>3
  <1> QED
    BY <1>3, <1>4, <1>5, <1>6, <1>7, <1>8 DEF Step

LEMMA StepExitPriceTraded ==
    ASSUME IInv, [Next]_vars, ExitPriceTraded
    PROVE  ExitPriceTraded'
  <1>1. ASSUME NEW t \in Times, NEW b \in Bars, Step(b, t)
        PROVE  ExitPriceTraded'
    <2>1. mark' = b.quote
      BY <1>1 DEF Step, CloseTrade, HoldTrade, ConfirmPending, WaitPending, EnterOnFlip,
         ArmOnFlip, StayFlat, Open, Observe
    <2> SUFFICES ASSUME NEW e \in Said(events'), e.type \in {"stop_hit", "trade_closed"}
                 PROVE  b.quote.low <= e.price /\ e.price <= b.quote.high
      BY <2>1 DEF ExitPriceTraded, Said
    <2>2. e \notin Said(Observed(b)) /\ e \notin Said(Cancelled(b))
      BY SaidObserved, SaidCancelled
    <2>3. CloseTrade(b, t) /\ e \in Said(Closed(b))
      BY <1>1, <2>2, SaidByBranch
    <2> QED
      BY <2>3, SaidClosed DEF CloseTrade
  <1>2. CASE Duplicate \/ OutOfOrder
    BY <1>2 DEF Duplicate, OutOfOrder, When, ExitPriceTraded
  <1>3. CASE UNCHANGED vars
    BY <1>3 DEF vars, ExitPriceTraded
  <1> QED
    BY <1>1, <1>2, <1>3 DEF Next

\* Every reported exit price lies inside the bar it is reported for.
THEOREM SpecExitPriceTraded == Spec => []ExitPriceTraded
  <1>1. Init => ExitPriceTraded
    BY DEF Init, ExitPriceTraded
  <1>2. IInv /\ [Next]_vars /\ ExitPriceTraded => ExitPriceTraded'
    BY StepExitPriceTraded
  <1> QED
    BY <1>1, <1>2, SpecIInv, PTL DEF Spec

\* The bar that confirms or keeps a setup carries no fresh flip: HEMA already
\* points the setup's way.
LEMMA NoFreshFlipUnderSetup ==
    ASSUME IInv, NEW b \in Bars, Surviving(b) # None
    PROVE  ~FreshFlip(b)
  BY SurvivingAgrees DEF IInv, PendingSound, FreshFlip

\* step() never has to say that a flip is older than its epoch.
LEMMA EpochNeverTooYoung ==
    ASSUME IInv, NEW b \in Bars, NEW t \in Times, t > lastTs,
           FreshFlip(b), ~FlipAccepted(b, t)
    PROVE  RejectReason(b) # "hema_flip_before_bias_epoch"
  <1> SUFFICES ASSUME RejectReason(b) = "hema_flip_before_bias_epoch"
               PROVE  FlipAccepted(b, t)
    OBVIOUS
  <1>1. /\ b.strategy_ready /\ b.htf_bias # None /\ Ready(b)
        /\ b.hema_direction = b.htf_bias
    BY BarsAssumption DEF RejectReason, LegalBar
  <1>2. NewActivation(b, t) # 0 /\ t >= NewActivation(b, t)
    BY <1>1, TimesAreNat DEF IInv, Anchored, TypeOK, NewActivation
  <1> QED
    BY <1>1, <1>2 DEF FlipAccepted

LEMMA StepFlipAnswered ==
    ASSUME IInv, [Next]_vars, lastTs' > lastTs, trade = None,
           "hema_flip_detected" \in TypesOf(events')
    PROVE  /\ \E answer \in {"trade_opened", "setup_armed", "decision_rejected"} :
                TypesOf(events') \cap {"trade_opened", "setup_armed", "decision_rejected"}
                    = {answer}
           /\ \A i \in DOMAIN events' : events'[i].reason # "hema_flip_before_bias_epoch"
  <1>1. PICK t \in Times, b \in Bars : Step(b, t)
    <2>1. lastTs \in Nat
      BY TimesAreNat DEF IInv, TypeOK
    <2>2. ~(Duplicate \/ OutOfOrder \/ UNCHANGED vars)
      BY <2>1, RejectedStep
    <2> QED
      BY <2>2 DEF Next
  <1>2. TypesOf(events') = {e.type : e \in Said(events')}
    BY DEF TypesOf, Said
  <1>3. /\ \A e \in Said(Observed(b)) \cup Said(Cancelled(b)) :
              /\ e.type \notin {"trade_opened", "setup_armed", "decision_rejected"}
              /\ e.reason # "hema_flip_before_bias_epoch"
        /\ \A e \in Said(Cancelled(b)) : e.type # "hema_flip_detected"
    BY SaidObserved, SaidCancelled DEF CancelReasons
  <1>4. FreshFlip(b)
    <2>1. TypesOf(Observed(b)) = {e.type : e \in Said(Observed(b))}
      BY DEF TypesOf, Said
    <2>2. PICK e \in Said(events') : e.type = "hema_flip_detected"
      BY <1>2
    <2>3. e \in Said(Observed(b))
      BY <1>1, <1>3, <2>2, SaidByBranch DEF CloseTrade, HoldTrade
    <2> QED
      BY <2>1, <2>2, <2>3, SaidObserved
  <1> DEFINE Answers == {"trade_opened", "setup_armed", "decision_rejected"}
             late == "hema_flip_before_bias_epoch"
  <1>5. PICK last : /\ last.type \in Answers /\ last.reason # late
                    /\ Said(events') = Said(Observed(b)) \cup Said(Cancelled(b)) \cup {last}
    <2>1. ~ConfirmPending(b, t) /\ ~WaitPending(b, t)
      BY <1>4, NoFreshFlipUnderSetup DEF ConfirmPending, WaitPending
    <2>2. ~CloseTrade(b, t) /\ ~HoldTrade(b, t)
      BY DEF CloseTrade, HoldTrade
    <2>3. CASE EnterOnFlip(b, t)
      <3> DEFINE last == [type |-> "trade_opened", reason |-> "entry_accepted",
                          price |-> b.quote.close]
      <3>1. Said(events') = Said(Observed(b)) \cup Said(Cancelled(b)) \cup {last}
        BY <1>1, <2>1, <2>2, <2>3, SaidByBranch
           DEF EnterOnFlip, ArmOnFlip, StayFlat
      <3> QED
        BY <3>1
    <2>4. CASE ArmOnFlip(b, t)
      <3> DEFINE last == [type |-> "setup_armed", reason |-> "pending_setup_armed"]
      <3>1. Said(events') = Said(Observed(b)) \cup Said(Cancelled(b)) \cup {last}
        BY <1>1, <2>1, <2>2, <2>4, SaidByBranch
           DEF EnterOnFlip, ArmOnFlip, StayFlat
      <3> QED
        BY <3>1
    <2>5. CASE StayFlat(b, t)
      <3> DEFINE last == [type |-> "decision_rejected", reason |-> RejectReason(b)]
      <3>1. Said(events') = Said(Observed(b)) \cup Said(Cancelled(b)) \cup {last}
        <4>1. PICK answer : /\ answer \subseteq {last} /\ answer # {}
                            /\ Said(events') = Said(Observed(b)) \cup Said(Cancelled(b))
                                               \cup answer
          BY <1>1, <1>4, <2>1, <2>2, <2>5, SaidByBranch
             DEF EnterOnFlip, ArmOnFlip, StayFlat
        <4> HIDE DEF last
        <4>2. answer = {last}
          BY <4>1
        <4> QED
          BY <4>1, <4>2
      <3>2. RejectReason(b) # late
        BY <1>4, <2>5, EpochNeverTooYoung DEF StayFlat, Observe
      <3> QED
        BY <3>1, <3>2
    <2> QED
      BY <1>1, <2>1, <2>2, <2>3, <2>4, <2>5 DEF Step
  <1>6. TypesOf(events') \cap Answers = {last.type}
    <2>1. \A e \in Said(Observed(b)) \cup Said(Cancelled(b)) : e.type \notin Answers
      BY <1>3
    <2> HIDE DEF Answers
    <2> QED
      BY <1>2, <1>5, <2>1
  <1>7. \A e \in Said(events') : e.reason # late
    BY <1>3, <1>5
  <1>8. \A i \in DOMAIN events' : events'[i] \in Said(events')
    BY DEF Said
  <1> QED
    BY <1>5, <1>6, <1>7, <1>8

\* A fresh flip while flat gets exactly one answer, and never the rejection for
\* a flip older than its epoch.
THEOREM SpecFlipAnswered == Spec => FlipAnswered
  <1>1. IInv /\ [Next]_vars =>
          [lastTs' > lastTs /\ trade = None /\ "hema_flip_detected" \in TypesOf(events') =>
             /\ \E answer \in {"trade_opened", "setup_armed", "decision_rejected"} :
                   TypesOf(events') \cap {"trade_opened", "setup_armed", "decision_rejected"}
                       = {answer}
             /\ \A i \in DOMAIN events' :
                   events'[i].reason # "hema_flip_before_bias_epoch"]_vars
    BY StepFlipAnswered
  <1> QED
    BY <1>1, SpecIInv, PTL DEF Spec, FlipAnswered

-----------------------------------------------------------------------------
(* The engine implements TradeLifecycle.                                   *)

LEMMA SlotCases ==
    ASSUME IInv
    PROVE  /\ trade # None =>
                 Slot = [phase |-> "open", side |-> trade.side, flip |-> trade.origin]
           /\ trade = None /\ pending # None =>
                 Slot = [phase |-> "armed", side |-> pending.dir, flip |-> pending.flipTs]
           /\ trade = None /\ pending = None => Slot = [phase |-> "empty"]
  BY DEF Slot

\* A flip that is accepted beside an armed setup points the other way.
LEMMA FlipReplacesOpposite ==
    ASSUME IInv, NEW b \in Bars, NEW t \in Times,
           trade = None, Surviving(b) = None, FlipAccepted(b, t)
    PROVE  /\ b.hema_direction \in Directions
           /\ Lifecycle!Admits(b.hema_direction)
  <1>1. b.hema_direction \in Directions
    BY BarsAssumption DEF FlipAccepted, FreshFlip, LegalBar
  <1>2. CASE pending = None
    BY <1>1, <1>2, SlotCases DEF Lifecycle!Admits
  <1>3. CASE pending # None
    <2>1. CancelReason(b) # None
      BY <1>3 DEF Surviving
    <2>2. /\ b.strategy_ready /\ Ready(b) /\ b.hema_direction = b.htf_bias
      BY BarsAssumption DEF FlipAccepted, Ready, Readiness, LegalBar
    <2>3. pending.epoch # NewEpoch(b) \/ b.hema_direction # pending.dir
      BY <2>1, <2>2 DEF CancelReason
    <2>4. pending.epoch = epoch /\ bias = pending.dir
      BY <1>3 DEF IInv, PendingSound
    <2>5. b.hema_direction # pending.dir
      BY <2>2, <2>3, <2>4 DEF NewEpoch
    <2>6. Slot = [phase |-> "armed", side |-> pending.dir, flip |-> pending.flipTs]
      BY <1>3, SlotCases
    <2> QED
      BY <1>1, <2>5, <2>6 DEF Lifecycle!Admits
  <1> QED
    BY <1>2, <1>3

LEMMA OpenIsEnter ==
    ASSUME IInv, IInv', NEW b \in Bars, NEW t \in Times, trade = None,
           NEW side \in Directions, NEW flipTs \in Times, Open(b, t, side, flipTs),
           \/ /\ pending # None /\ side = pending.dir /\ flipTs = pending.flipTs
           \/ flipTs = t /\ Lifecycle!Admits(side)
    PROVE  Lifecycle!Enter(t)
  <1>1. /\ trade' \in Trades /\ nextSeq' = nextSeq + 1 /\ nextSeq \in Nat
        /\ trade'.side = side /\ trade'.origin = flipTs /\ lastExit' = lastExit
    BY NewTradeTyped DEF IInv, TypeOK, Open, Observe, NewTrade
  <1>2. trade' # None
    BY <1>1, NoneAssumption
  <1>3. Slot' = [phase |-> "open", side |-> side, flip |-> flipTs]
    BY <1>1, <1>2 DEF Slot
  <1>4. lastExit < flipTs /\ lastExit \in Nat /\ flipTs \in Nat
    BY <1>1, <1>2, TimesAreNat DEF IInv, TypeOK, FreshSetup
  <1>5. pending # None =>
          Slot = [phase |-> "armed", side |-> pending.dir, flip |-> pending.flipTs]
    BY SlotCases
  <1> QED
    BY <1>1, <1>3, <1>4, <1>5 DEF Lifecycle!Enter, Lifecycle!Opened

LEMMA StepLifecycle ==
    ASSUME IInv, IInv', [Next]_vars
    PROVE  [Lifecycle!Next]_(Lifecycle!vars)
  <1>1. ASSUME NEW t \in Times, NEW b \in Bars, Step(b, t)
        PROVE  Lifecycle!Next
    <2>1. lastTs < t /\ lastTs' = t /\ lastTs \in Nat /\ t \in Nat
      BY <1>1, TimesAreNat
      DEF Step, CloseTrade, HoldTrade, ConfirmPending, WaitPending, EnterOnFlip, ArmOnFlip,
          StayFlat, Open, Observe, IInv, TypeOK
    <2> SUFFICES \/ Lifecycle!Pass \/ Lifecycle!Arm(t) \/ Lifecycle!Lapse
                 \/ Lifecycle!Enter(t) \/ Lifecycle!Exit(t)
      BY <2>1 DEF Lifecycle!Next
    <2>2. CASE CloseTrade(b, t)
      <3>1. /\ trade # None /\ trade' = None /\ pending' = None
            /\ lastExit' = t /\ nextSeq' = nextSeq
        BY <2>2, CloseTradeStep DEF CloseTrade, Observe, NextSequence
      <3>2. Slot.phase = "open" /\ Slot' = [phase |-> "empty"]
        BY <3>1, SlotCases DEF Slot
      <3> QED
        BY <3>1, <3>2 DEF Lifecycle!Exit, Lifecycle!Empty
    <2>3. CASE HoldTrade(b, t)
      <3>1. trade # None /\ trade' = trade /\ lastExit' = lastExit
        BY <2>3 DEF HoldTrade
      <3>2. nextSeq' = nextSeq
        BY <2>3, <3>1 DEF IInv, TypeOK, TradeInEpoch, HoldTrade, Observe, NextSequence
      <3> QED
        BY <3>1, <3>2 DEF Slot, Lifecycle!Pass
    <2>4. CASE ConfirmPending(b, t)
      <3>1. /\ trade = None /\ pending # None /\ Open(b, t, pending.dir, pending.flipTs)
        BY <2>4, SurvivingAgrees DEF ConfirmPending
      <3>2. pending.dir \in Directions /\ pending.flipTs \in Times
        BY <3>1 DEF IInv, TypeOK, Setups
      <3> QED
        BY <3>1, <3>2, OpenIsEnter
    <2>5. CASE WaitPending(b, t)
      <3>1. trade' = trade /\ pending' = pending /\ lastExit' = lastExit /\ trade = None
        BY <2>5 DEF WaitPending
      <3>2. nextSeq' = nextSeq
        BY <2>5, <3>1 DEF WaitPending, Observe, NextSequence
      <3> QED
        BY <3>1, <3>2 DEF Slot, Lifecycle!Pass
    <2>6. CASE EnterOnFlip(b, t)
      <3>1. /\ trade = None /\ Open(b, t, b.hema_direction, t)
            /\ Surviving(b) = None /\ FlipAccepted(b, t)
        BY <2>6 DEF EnterOnFlip
      <3>2. b.hema_direction \in Directions /\ Lifecycle!Admits(b.hema_direction)
        BY <3>1, FlipReplacesOpposite
      <3> QED
        BY <3>1, <3>2, OpenIsEnter
    <2>7. CASE ArmOnFlip(b, t)
      <3> DEFINE new == [dir |-> b.hema_direction, flipTs |-> t, epoch |-> NewEpoch(b)]
      <3>1. /\ trade = None /\ trade' = None /\ pending' = new /\ lastExit' = lastExit
            /\ nextSeq' = nextSeq
        BY <2>7 DEF ArmOnFlip, Observe, NextSequence
      <3>2. b.hema_direction \in Directions /\ Lifecycle!Admits(b.hema_direction)
        BY <2>7, FlipReplacesOpposite DEF ArmOnFlip
      <3>3. NewEpoch(b) \in Nat
        BY DEF NewEpoch, IInv, TypeOK
      <3>4. new \in Setups
        BY <3>2, <3>3 DEF Setups
      <3>5. new # None
        BY <3>4, NoneAssumption
      <3>6. Slot' = [phase |-> "armed", side |-> b.hema_direction, flip |-> t]
        BY <3>1, <3>5 DEF Slot
      <3> QED
        BY <3>1, <3>2, <3>6 DEF Lifecycle!Arm, Lifecycle!Armed
    <2>8. CASE StayFlat(b, t)
      <3>1. /\ trade = None /\ trade' = None /\ pending' = None /\ lastExit' = lastExit
            /\ nextSeq' = nextSeq
        BY <2>8 DEF StayFlat, Observe, NextSequence
      <3>2. Slot' = [phase |-> "empty"]
        BY <3>1 DEF Slot
      <3> QED
        BY <3>1, <3>2, SlotCases
        DEF Lifecycle!Pass, Lifecycle!Lapse, Lifecycle!Empty
    <2> QED
      BY <1>1, <2>2, <2>3, <2>4, <2>5, <2>6, <2>7, <2>8 DEF Step
  <1>2. ASSUME Duplicate \/ OutOfOrder \/ UNCHANGED vars
        PROVE  UNCHANGED Lifecycle!vars
    BY <1>2, RejectedStep DEF Slot, Lifecycle!vars
  <1> QED
    BY <1>1, <1>2 DEF Next

\* Every behaviour of the engine is a behaviour of the abstract life cycle.
THEOREM SpecImplementsLifecycle == Spec => ImplementsLifecycle
  <1>1. Init => Lifecycle!Init
    BY DEF Init, Slot, Lifecycle!Init, Lifecycle!Empty
  <1>2. IInv /\ IInv' /\ [Next]_vars => [Lifecycle!Next]_(Lifecycle!vars)
    BY StepLifecycle
  <1> QED
    BY <1>1, <1>2, SpecIInv, PTL DEF Spec, ImplementsLifecycle, Lifecycle!Spec

-----------------------------------------------------------------------------
(* The replay.                                                             *)

\* The inductive invariant: the strategy's, the feed's, that a trade is open
\* only once the 15m HEMA is seeded, and that a 4h candle at the cursor has
\* not been overtaken by its 15m candle.
RInv ==
    /\ IInv
    /\ ReplayTypeOK
    /\ HeldWithHema
    /\ NoLookAhead
    /\ trade # None => ltfRel # "unavailable"
    /\ cursor[2] = 0 /\ cursor[1] # 0 => lastTs < cursor[1]

rvars == <<vars, feed>>

LEMMA RInit == ReplayInit => RInv
  <1> SUFFICES ASSUME ReplayInit PROVE RInv
    OBVIOUS
  <1>1. IInv
    BY InitIInv DEF ReplayInit
  <1>2. ReplayTypeOK
    BY DEF ReplayInit, Init, ReplayTypeOK, Relations, HemaDirection
  <1> QED
    BY <1>1, <1>2 DEF ReplayInit, Init, RInv, HeldWithHema, NoLookAhead

\* A key the cursor lets through is a later finalization, or the 15m candle of
\* the finalization whose 4h candle came last.
LEMMA KeyOrder ==
    ASSUME ReplayTypeOK, NEW t \in Times
    PROVE  /\ Before(cursor, HtfKey(t)) => cursor[1] < t
           /\ Before(cursor, LtfKey(t)) => cursor[1] < t \/ (cursor[1] = t /\ cursor[2] = 0)
           /\ cursor[1] \in Nat /\ t \in Nat
  <1>1. cursor[1] \in Nat /\ t \in Nat
    BY TimesAreNat DEF ReplayTypeOK
  <1> QED
    BY <1>1 DEF ReplayTypeOK, Before, HtfKey, LtfKey

\* What Step does to the strategy's clock and readings.
LEMMA StepObserves ==
    ASSUME NEW b \in Bars, NEW t \in Times, Step(b, t)
    PROVE  Observe(b, t)
  BY DEF Step, CloseTrade, HoldTrade, ConfirmPending, WaitPending, EnterOnFlip, ArmOnFlip,
     StayFlat, Open

LEMMA HtfStepRInv ==
    ASSUME RInv, NEW t \in Times, NEW rel \in Relations, HtfStep(t, rel)
    PROVE  RInv' /\ lastTs < t
  <1>1. UNCHANGED vars
    BY DEF HtfStep
  <1>2. IInv'
    BY <1>1, RejectedStep DEF RInv
  <1>3. /\ hema' = hema /\ trade' = trade /\ lastTs' = lastTs
    BY <1>1 DEF vars, inputs
  <1>4. /\ cursor' = <<t, 0>> /\ biasFrom' = t /\ usedFrom' = usedFrom /\ ltfRel' = ltfRel
        /\ htfRel' = rel /\ latestBias' = HemaDirection(rel)
    BY DEF HtfStep, HtfKey
  <1>5. cursor[1] < t /\ cursor[1] \in Nat /\ t \in Nat
    BY KeyOrder DEF HtfStep, RInv
  <1>6. /\ lastTs <= cursor[1] /\ usedFrom <= lastTs
        /\ lastTs \in Nat
    BY TimesAreNat DEF RInv, NoLookAhead, IInv, TypeOK
  <1>7. ReplayTypeOK'
    <2>1. HemaDirection(rel)' = HemaDirection(rel) /\ HemaDirection(htfRel)' = HemaDirection(rel)
      BY <1>4 DEF HemaDirection
    <2>2. HemaDirection(ltfRel)' = HemaDirection(ltfRel)
      BY <1>4 DEF HemaDirection
    <2> QED
      BY <1>3, <1>4, <2>1, <2>2 DEF RInv, ReplayTypeOK
  <1>8. HeldWithHema' /\ (trade # None => ltfRel # "unavailable")'
    BY <1>3, <1>4 DEF RInv, HeldWithHema, Opposite
  <1>9. NoLookAhead' /\ (cursor[2] = 0 /\ cursor[1] # 0 => lastTs < cursor[1])'
    BY <1>3, <1>4, <1>5, <1>6 DEF NoLookAhead
  <1> QED
    BY <1>2, <1>5, <1>6, <1>7, <1>8, <1>9 DEF RInv

LEMMA LtfStepRInv ==
    ASSUME RInv, NEW t \in Times, NEW rel \in Relations, NEW b \in Bars, LtfStep(t, rel, b)
    PROVE  RInv' /\ biasFrom' = biasFrom
  <1>1. /\ Step(b, t) /\ cursor' = <<t, 1>> /\ ltfRel' = rel /\ htfRel' = htfRel
        /\ latestBias' = latestBias /\ biasFrom' = biasFrom /\ usedFrom' = biasFrom
        /\ Follows(ltfRel, rel)
        /\ b.hema_direction = HemaDirection(rel) /\ b.hema_flip = Crossing(ltfRel, rel)
    BY DEF LtfStep, LtfKey, Handed
  <1>2. IInv'
    <2>1. [Next]_vars
      BY <1>1 DEF Next
    <2> QED
      BY <2>1, StepIInv DEF RInv
  <1>3. hema' = HemaDirection(rel) /\ lastTs' = t
    BY <1>1, StepObserves DEF Observe
  <1>4. ReplayTypeOK'
    <2>1. HemaDirection(ltfRel)' = HemaDirection(rel) /\ HemaDirection(htfRel)' = HemaDirection(htfRel)
      BY <1>1 DEF HemaDirection
    <2> QED
      BY <1>1, <1>3, <2>1 DEF RInv, ReplayTypeOK
  <1>5. NoLookAhead' /\ (cursor[2] = 0 /\ cursor[1] # 0 => lastTs < cursor[1])'
    <2>1. /\ cursor[1] <= t /\ t \in Nat
          /\ biasFrom <= cursor[1] /\ biasFrom \in Nat /\ cursor[1] \in Nat
      BY KeyOrder, TimesAreNat DEF LtfStep, RInv, NoLookAhead, ReplayTypeOK
    <2> QED
      BY <1>1, <1>3, <2>1 DEF NoLookAhead
  <1>6. (trade # None => ltfRel # "unavailable")' /\ HeldWithHema'
    <2>1. CASE trade' = None
      BY <2>1 DEF HeldWithHema
    <2>2. CASE trade # None /\ trade' # None
      <3>1. HoldTrade(b, t) /\ trade' = trade
        BY <1>1, <2>2, HoldTradeStep, CloseTradeStep
        DEF RInv, Step, ConfirmPending, WaitPending, EnterOnFlip, ArmOnFlip, StayFlat
      <3>2. ltfRel # "unavailable" /\ rel # "unavailable"
        BY <1>1, <2>2 DEF RInv, Follows
      <3>3. trade.side \in Directions
        BY <2>2 DEF RInv, IInv, TypeOK, Trades
      <3>4. ~(FreshFlip(b) /\ b.hema_direction = Opposite(trade.side))
        BY <3>1 DEF HoldTrade, CloseReasons
      <3>5. hema = HemaDirection(ltfRel) /\ hema # Opposite(trade.side) /\ ltfRel \in Relations
        BY <2>2 DEF RInv, ReplayTypeOK, HeldWithHema
      <3>6. HemaDirection(rel) # Opposite(trade.side)
        <4> SUFFICES ASSUME HemaDirection(rel) = Opposite(trade.side)
                     PROVE  FALSE
          OBVIOUS
        <4>1. ~Crossing(ltfRel, rel) \/ b.hema_direction = hema
          BY <1>1, <3>4 DEF FreshFlip
        <4>2. ~Crossing(ltfRel, rel)
          BY <1>1, <3>5, <4>1
        <4>3. HemaDirection(rel) \in Directions
          BY <3>3 DEF Opposite, Directions
        <4>4. rel \in {"above", "below"}
          BY <3>2, <4>3, NoneAssumption DEF HemaDirection, Relations
        <4>5. CASE rel = "above"
          <5>1. ltfRel = "above"
            BY <3>2, <3>5, <4>2, <4>5 DEF Crossing, Relations
          <5> QED
            BY <3>5, <4>5, <5>1
        <4>6. CASE rel = "below"
          <5>1. ltfRel = "below"
            BY <3>2, <3>5, <4>2, <4>6 DEF Crossing, Relations
          <5> QED
            BY <3>5, <4>6, <5>1
        <4> QED
          BY <4>4, <4>5, <4>6
      <3> QED
        BY <1>1, <1>3, <3>1, <3>2, <3>6 DEF HeldWithHema, Opposite
    <2>3. CASE trade = None /\ trade' # None
      <3>1. hema' = trade'.side
        BY <1>1, <2>3, StepEntryAgreement DEF RInv, Next
      <3>2. trade'.side \in Directions
        BY <1>2, <2>3 DEF IInv, TypeOK, Trades
      <3>3. rel # "unavailable"
        BY <1>3, <3>1, <3>2, NoneAssumption DEF HemaDirection
      <3> QED
        BY <1>1, <3>1, <3>2, <3>3 DEF HeldWithHema, Opposite, Directions
    <2> QED
      BY <2>1, <2>2, <2>3
  <1> QED
    BY <1>1, <1>2, <1>4, <1>5, <1>6 DEF RInv

LEMMA StutterRInv ==
    ASSUME RInv, UNCHANGED rvars
    PROVE  RInv'
  <1>1. IInv'
    BY RejectedStep DEF RInv, rvars
  <1> QED
    BY <1>1 DEF RInv, rvars, vars, inputs, feed, ReplayTypeOK, HeldWithHema, NoLookAhead,
       HemaDirection, Opposite

\* The inductive invariant of the replay.
THEOREM ReplayRInv == ReplaySpec => []RInv
  <1>1. RInv /\ [ReplayNext]_rvars => RInv'
    BY HtfStepRInv, LtfStepRInv, StutterRInv DEF ReplayNext
  <1> QED
    BY <1>1, RInit, PTL DEF ReplaySpec, rvars

\* No trade is ever held against the 15m HEMA.
THEOREM ReplayHeldWithHema == ReplaySpec => []HeldWithHema
  BY ReplayRInv, PTL DEF RInv

\* No decision rests on a 4h candle that was not final at its time.
THEOREM ReplayNoLookAhead == ReplaySpec => []NoLookAhead
  BY ReplayRInv, PTL DEF RInv

\* The cursor shields the strategy from duplicate and stale time stamps.
THEOREM ReplayStrategyAccepts == ReplaySpec => []StrategyAccepts
  <1>1. RInv => StrategyAccepts
    <2> SUFFICES ASSUME RInv, NEW t \in Times, Before(cursor, LtfKey(t))
                 PROVE  lastTs < t
      BY DEF StrategyAccepts
    <2>1. /\ cursor[1] < t \/ (cursor[1] = t /\ cursor[2] = 0)
          /\ cursor[1] \in Nat /\ t \in Nat
      BY KeyOrder DEF RInv
    <2>2. lastTs \in Nat /\ lastTs <= cursor[1]
      BY TimesAreNat DEF RInv, NoLookAhead, IInv, TypeOK
    <2>3. CASE cursor[1] < t
      BY <2>1, <2>2, <2>3
    <2>4. CASE cursor[1] = t /\ cursor[2] = 0
      BY <2>1, <2>2, <2>4, TimesAreNat DEF RInv
    <2> QED
      BY <2>1, <2>3, <2>4
  <1> QED
    BY <1>1, ReplayRInv, PTL

\* No 4h candle arrives for a decision already taken.
THEOREM ReplayDecisionsFinal == ReplaySpec => DecisionsFinal
  <1>1. RInv /\ [ReplayNext]_rvars => [biasFrom' # biasFrom => biasFrom' > lastTs]_rvars
    <2> SUFFICES ASSUME RInv, ReplayNext, biasFrom' # biasFrom
                 PROVE  biasFrom' > lastTs
      OBVIOUS
    <2>1. PICK t \in Times, rel \in Relations : HtfStep(t, rel)
      BY LtfStepRInv DEF ReplayNext
    <2>2. biasFrom' = t /\ lastTs < t
      BY <2>1, HtfStepRInv DEF HtfStep
    <2> QED
      BY <2>2, TimesAreNat DEF RInv, IInv, TypeOK
  <1> QED
    BY <1>1, ReplayRInv, PTL DEF ReplaySpec, DecisionsFinal, rvars

-----------------------------------------------------------------------------
(* The backtest: the events of a trace that it accounts for.               *)

Accounting == {"trade_opened", "trade_closed"}

\* A list of events without one that is accounted, and with just one.
Quiet(s) == \A i \in DOMAIN s : s[i].type \notin Accounting

Single(s, e) ==
    /\ e.type \in Accounting
    /\ \E k \in DOMAIN s :
          s[k] = e /\ \A i \in DOMAIN s : i # k => s[i].type \notin Accounting

LEMMA QuietSaid ==
    ASSUME NEW s, \A e \in Said(s) : e.type \notin Accounting
    PROVE  Quiet(s)
  BY DEF Said, Quiet

LEMMA ListFacts ==
    ASSUME NEW s, List(s)
    PROVE  Len(s) \in Nat /\ DOMAIN s = 1..Len(s)
  BY DEF List

LEMMA ConcatFacts ==
    ASSUME NEW s, NEW u, List(s), List(u)
    PROVE  /\ List(s \o u) /\ Len(s \o u) = Len(s) + Len(u)
           /\ \A i \in 1..Len(s) : (s \o u)[i] = s[i]
           /\ \A i \in 1..Len(u) : (s \o u)[Len(s) + i] = u[i]
           /\ \A i \in 1..Len(s) + Len(u) : i \in 1..Len(s) \/ i - Len(s) \in 1..Len(u)
           /\ Len(s) \in Nat /\ Len(u) \in Nat
  <1> DEFINE All == Said(s) \cup Said(u)
  <1>1. s \in Seq(All) /\ u \in Seq(All)
    BY SeqMonotonic DEF List
  <1>2. List(s \o u)
    BY SaidBoth
  <1> HIDE DEF All
  <1> QED
    BY <1>1, <1>2

LEMMA QuietBoth ==
    ASSUME NEW s, NEW u, List(s), List(u), Quiet(s), Quiet(u)
    PROVE  List(s \o u) /\ Quiet(s \o u)
  <1>1. List(s \o u) /\ \A e \in Said(s \o u) : e \in Said(s) \/ e \in Said(u)
    BY SaidBoth
  <1>2. \A e \in Said(s \o u) : e.type \notin Accounting
    BY <1>1 DEF Said, Quiet
  <1> QED
    BY <1>1, <1>2, QuietSaid

LEMMA SingleThenQuiet ==
    ASSUME NEW s, NEW u, NEW e, List(s), List(u), Single(s, e), Quiet(u)
    PROVE  List(s \o u) /\ Single(s \o u, e)
  <1> DEFINE w == s \o u
             m == Len(s)
             n == Len(u)
  <1>1. /\ List(w) /\ DOMAIN w = 1..m + n /\ m \in Nat /\ n \in Nat
        /\ \A i \in 1..m : w[i] = s[i]
        /\ \A i \in 1..n : w[m + i] = u[i]
        /\ DOMAIN s = 1..m /\ DOMAIN u = 1..n
    BY ConcatFacts, ListFacts
  <1>2. PICK k \in 1..m : s[k] = e /\ \A i \in 1..m : i # k => s[i].type \notin Accounting
    BY <1>1 DEF Single
  <1>3. k \in DOMAIN w /\ w[k] = e
    BY <1>1, <1>2
  <1>4. ASSUME NEW i \in DOMAIN w, i # k
        PROVE  w[i].type \notin Accounting
    <2>1. CASE i <= m
      BY <1>1, <1>2, <1>4, <2>1
    <2>2. CASE ~(i <= m)
      <3>1. i - m \in 1..n /\ i = m + (i - m)
        BY <1>1, <2>2
      <3>2. w[i] = u[i - m]
        BY <1>1, <3>1
      <3> QED
        BY <1>1, <3>1, <3>2 DEF Quiet
    <2> QED
      BY <2>1, <2>2
  <1> HIDE DEF w
  <1>5. Single(w, e)
    BY <1>3, <1>4 DEF Single
  <1> QED
    BY <1>1, <1>5 DEF w

LEMMA QuietThenSingle ==
    ASSUME NEW s, NEW u, NEW e, List(s), List(u), Quiet(s), Single(u, e)
    PROVE  List(s \o u) /\ Single(s \o u, e)
  <1> DEFINE w == s \o u
             m == Len(s)
             n == Len(u)
  <1>1. /\ List(w) /\ DOMAIN w = 1..m + n /\ m \in Nat /\ n \in Nat
        /\ \A i \in 1..m : w[i] = s[i]
        /\ \A i \in 1..n : w[m + i] = u[i]
        /\ DOMAIN s = 1..m /\ DOMAIN u = 1..n
    BY ConcatFacts, ListFacts
  <1>2. PICK k \in 1..n : u[k] = e /\ \A i \in 1..n : i # k => u[i].type \notin Accounting
    BY <1>1 DEF Single
  <1>3. m + k \in DOMAIN w /\ w[m + k] = e
    BY <1>1, <1>2
  <1>4. ASSUME NEW i \in DOMAIN w, i # m + k
        PROVE  w[i].type \notin Accounting
    <2>1. CASE i <= m
      BY <1>1, <2>1 DEF Quiet
    <2>2. CASE ~(i <= m)
      <3>1. i - m \in 1..n /\ i = m + (i - m) /\ i - m # k
        BY <1>1, <1>4, <2>2
      <3>2. w[i] = u[i - m]
        BY <1>1, <3>1
      <3> QED
        BY <1>2, <3>1, <3>2
    <2> QED
      BY <2>1, <2>2
  <1> HIDE DEF w
  <1>5. Single(w, e)
    BY <1>3, <1>4 DEF Single
  <1> QED
    BY <1>1, <1>5 DEF w

LEMMA SingleOne ==
    ASSUME NEW e, e.type \in Accounting
    PROVE  List(<<e>>) /\ Single(<<e>>, e)
  BY SaidOne DEF Single

-----------------------------------------------------------------------------
(* What the branches of step() report.                                     *)

LEMMA QuietParts ==
    ASSUME NEW b \in Bars, NEW reason
    PROVE  /\ List(Observed(b)) /\ Quiet(Observed(b))
           /\ List(Cancelled(b)) /\ Quiet(Cancelled(b))
           /\ List(When(FreshFlip(b), "decision_rejected", reason))
           /\ Quiet(When(FreshFlip(b), "decision_rejected", reason))
  <1>1. List(Observed(b)) /\ Quiet(Observed(b))
    <2>1. \A e \in Said(Observed(b)) : e.type \notin Accounting
      BY SaidObserved DEF Accounting
    <2> QED
      BY <2>1, SaidObserved, QuietSaid
  <1>2. List(Cancelled(b)) /\ Quiet(Cancelled(b))
    <2>1. \A e \in Said(Cancelled(b)) : e.type \notin Accounting
      BY SaidCancelled DEF Accounting
    <2> QED
      BY <2>1, SaidCancelled, QuietSaid
  <1>3. /\ List(When(FreshFlip(b), "decision_rejected", reason))
        /\ Quiet(When(FreshFlip(b), "decision_rejected", reason))
    <2> DEFINE answer == When(FreshFlip(b), "decision_rejected", reason)
    <2>1. List(answer) /\ Said(answer) \subseteq {[type |-> "decision_rejected", reason |-> reason]}
      BY SaidRejected
    <2> HIDE DEF answer
    <2>2. \A e \in Said(answer) : e.type \notin Accounting
      BY <2>1 DEF Accounting
    <2>3. Quiet(answer)
      BY <2>2, QuietSaid
    <2> QED
      BY <2>1, <2>3 DEF answer
  <1> QED
    BY <1>1, <1>2, <1>3

\* A close is accounted once, at a price within the bar.
LEMMA ClosedOnce ==
    ASSUME IInv, trade # None, NEW b \in Bars, CloseReasons(b) # <<>>
    PROVE  /\ List(Closed(b))
           /\ \E e : /\ Single(Closed(b), e) /\ e.type = "trade_closed"
                     /\ e.price \in Int
                     /\ b.quote.low <= e.price /\ e.price <= b.quote.high
  <1> DEFINE first == Head(CloseReasons(b))
             price == IF first = "exit_stop" THEN StopFill(trade, b.quote) ELSE b.quote.close
             e == [type |-> "trade_closed", reason |-> first, price |-> price]
             hit == [type |-> "stop_hit", reason |-> first, price |-> price]
  <1>1. List(<<e>>) /\ Single(<<e>>, e) /\ e.type = "trade_closed"
    BY SingleOne DEF Accounting
  <1>2. List(<<hit>>) /\ Quiet(<<hit>>)
    BY SaidOne, QuietSaid DEF Accounting
  <1>3. Closed(b) = IF first = "exit_stop" THEN <<hit>> \o <<e>> ELSE <<e>>
    BY Zenon DEF Closed, Priced
  <1>4. price \in Int
    <2>1. trade.stop \in Int /\ b.quote.open \in Int /\ b.quote.close \in Int
      BY BarsAssumption DEF IInv, TypeOK, Trades, LegalBar
    <2> QED
      BY <2>1 DEF StopFill
  <1>5. \A x \in Said(Closed(b)) : b.quote.low <= x.price /\ x.price <= b.quote.high
    BY SaidClosed
  <1> HIDE DEF first, price, hit
  <1>6. Single(Closed(b), e) /\ List(Closed(b))
    BY <1>1, <1>2, <1>3, QuietThenSingle
  <1>7. e \in Said(Closed(b))
    BY <1>6 DEF Single, Said
  <1>8. e.price = price
    OBVIOUS
  <1> QED
    BY <1>1, <1>4, <1>5, <1>6, <1>7, <1>8
\* What a step means for the accounting: one close, one open, or nothing.
LEMMA StepReports ==
    ASSUME IInv, NEW b \in Bars, NEW t \in Times, Step(b, t)
    PROVE  /\ List(events')
           /\ \/ /\ trade # None /\ trade' = None
                 /\ \E e : /\ Single(events', e) /\ e.type = "trade_closed"
                           /\ e.price \in Int
                           /\ b.quote.low <= e.price /\ e.price <= b.quote.high
              \/ /\ trade = None /\ trade' \in Trades /\ trade'.seq = nextSeq
                 /\ trade'.entryTs = t /\ trade'.entry = b.quote.close
                 /\ nextSeq' = nextSeq + 1
                 /\ Single(events', [type |-> "trade_opened", reason |-> "entry_accepted",
                                     price |-> b.quote.close])
              \/ trade' = trade /\ Quiet(events')
  <1> DEFINE before == Observed(b) \o Cancelled(b)
  <1>1. List(Observed(b)) /\ Quiet(Observed(b)) /\ List(Cancelled(b)) /\ Quiet(Cancelled(b))
    BY QuietParts
  <1>2. List(before) /\ Quiet(before)
    BY <1>1, QuietBoth
  <1> HIDE DEF before
  <1>3. CASE CloseTrade(b, t)
    <2> DEFINE answer == When(FreshFlip(b), "decision_rejected", "no_same_bar_reversal")
    <2>1. trade # None /\ trade' = None /\ CloseReasons(b) # <<>>
          /\ events' = ((Observed(b) \o Closed(b)) \o Cancelled(b)) \o answer
      BY <1>3 DEF CloseTrade
    <2>2. List(answer) /\ Quiet(answer)
      BY QuietParts
    <2>3. List(Closed(b))
      BY <2>1, ClosedOnce
    <2>4. PICK e : /\ Single(Closed(b), e) /\ e.type = "trade_closed" /\ e.price \in Int
                   /\ b.quote.low <= e.price /\ e.price <= b.quote.high
      BY <2>1, ClosedOnce
    <2> HIDE DEF answer
    <2>5. List(Observed(b) \o Closed(b)) /\ Single(Observed(b) \o Closed(b), e)
      BY <1>1, <2>3, <2>4, QuietThenSingle
    <2>6. /\ List((Observed(b) \o Closed(b)) \o Cancelled(b))
          /\ Single((Observed(b) \o Closed(b)) \o Cancelled(b), e)
      BY <1>1, <2>5, SingleThenQuiet
    <2>7. List(events') /\ Single(events', e)
      BY <2>1, <2>2, <2>6, SingleThenQuiet
    <2> QED
      BY <2>1, <2>4, <2>7
  <1>4. CASE ConfirmPending(b, t) \/ EnterOnFlip(b, t)
    <2> DEFINE opened == [type |-> "trade_opened", reason |-> "entry_accepted",
                          price |-> b.quote.close]
    <2>1. PICK side \in Directions, flipTs \in Times : trade = None /\ Open(b, t, side, flipTs)
      <3>1. CASE ConfirmPending(b, t)
        <4>1. pending # None /\ trade = None /\ Open(b, t, pending.dir, pending.flipTs)
          BY <3>1 DEF ConfirmPending, Surviving
        <4>2. pending.dir \in Directions /\ pending.flipTs \in Times
          BY <4>1 DEF IInv, TypeOK, Setups
        <4> QED
          BY <4>1, <4>2
      <3>2. CASE EnterOnFlip(b, t)
        <4>1. trade = None /\ Open(b, t, b.hema_direction, t) /\ FlipAccepted(b, t)
          BY <3>2 DEF EnterOnFlip
        <4>2. b.hema_direction \in Directions
          BY <4>1, BarsAssumption DEF FlipAccepted, FreshFlip, LegalBar
        <4> QED
          BY <4>1, <4>2
      <3> QED
        BY <1>4, <3>1, <3>2
    <2>2. trade' = NewTrade(b, t, side, flipTs) /\ nextSeq' = NextSequence(trade')
          /\ events' = before \o <<opened>>
      BY <2>1 DEF Open, Observe, Priced, before
    <2>3. trade' \in Trades /\ nextSeq' = nextSeq + 1
      BY <2>2, NewTradeTyped DEF IInv
    <2>4. trade'.seq = nextSeq /\ trade'.entryTs = t /\ trade'.entry = b.quote.close
      BY <2>2 DEF NewTrade
    <2>5. List(<<opened>>) /\ Single(<<opened>>, opened)
      BY SingleOne DEF Accounting
    <2> HIDE DEF opened
    <2>6. List(events') /\ Single(events', opened)
      BY <1>2, <2>2, <2>5, QuietThenSingle
    <2> QED
      BY <2>1, <2>3, <2>4, <2>6 DEF opened
  <1>5. CASE HoldTrade(b, t)
    BY <1>2, <1>5 DEF HoldTrade, before
  <1>6. CASE WaitPending(b, t)
    BY <1>1, <1>6 DEF WaitPending
  <1>7. CASE ArmOnFlip(b, t)
    <2> DEFINE armed == [type |-> "setup_armed", reason |-> "pending_setup_armed"]
    <2>1. events' = before \o <<armed>> /\ trade' = trade
      BY <1>7 DEF ArmOnFlip, When, before
    <2>2. List(<<armed>>) /\ Quiet(<<armed>>)
      BY SaidOne, QuietSaid DEF Accounting
    <2> HIDE DEF armed
    <2> QED
      BY <1>2, <2>1, <2>2, QuietBoth
  <1>8. CASE StayFlat(b, t)
    <2> DEFINE answer == When(FreshFlip(b), "decision_rejected", RejectReason(b))
    <2>1. events' = before \o answer /\ trade' = trade
      BY <1>8 DEF StayFlat, before
    <2>2. List(answer) /\ Quiet(answer)
      BY QuietParts
    <2> HIDE DEF answer
    <2> QED
      BY <1>2, <2>1, <2>2, QuietBoth
  <1> QED
    BY <1>3, <1>4, <1>5, <1>6, <1>7, <1>8 DEF Step

-----------------------------------------------------------------------------
(* What run_traces makes of a trace.                                       *)

\* A non-empty set of natural numbers has a least element.
LEMMA LeastNat ==
    ASSUME NEW S, S \subseteq Nat, S # {}
    PROVE  \E n \in S : \A m \in S : n <= m
  <1> DEFINE R == OpToRel(<, Nat)
  <1>1. \E n \in S : \A m \in S : ~ (<<m, n>> \in R)
    <2> HIDE DEF R
    <2> QED
      BY NatLessThanWellFounded, WFMin DEF R
  <1>2. PICK n \in S : \A m \in S : ~ (<<m, n>> \in R)
    BY <1>1
  <1>3. ASSUME NEW m \in S
        PROVE  n <= m
    <2>1. <<m, n>> \in Nat \X Nat /\ ~ (<<m, n>> \in R)
      BY <1>2
    <2>2. ~ (m < n)
      BY <2>1 DEF OpToRel
    <2> QED
      BY <2>2
  <1> QED
    BY <1>3

\* What holds at 0 and is passed on by every step up to n holds up to n.
LEMMA UpTo ==
    ASSUME NEW n \in Nat, NEW H \in SUBSET (0..n), 0 \in H,
           \A i \in 0..n : i \in H /\ i < n => i + 1 \in H
    PROVE  H = 0..n
  <1> SUFFICES ASSUME (0..n) \ H # {}
               PROVE  FALSE
    OBVIOUS
  <1>1. PICK i \in (0..n) \ H : \A j \in (0..n) \ H : i <= j
    <2> DEFINE S == (0..n) \ H
    <2>1. S \subseteq Nat /\ S # {}
      OBVIOUS
    <2> HIDE DEF S
    <2>2. \E i \in S : \A j \in S : i <= j
      BY <2>1, LeastNat
    <2> QED
      BY <2>2 DEF S
  <1>2. i # 0 /\ i \in 0..n
    BY <1>1
  <1>3. i - 1 \in 0..n /\ i - 1 < n /\ ~(i <= i - 1) /\ (i - 1) + 1 = i
    BY <1>2
  <1>4. i - 1 \in H
    BY <1>1, <1>3
  <1>5. i \in H
    BY <1>3, <1>4
  <1> QED
    BY <1>1, <1>5

Begun == [ok |-> ~refused, book |-> account]

LEMMA ProgressIs ==
    ASSUME NEW evs, Len(evs) \in Nat
    PROVE  /\ Progress(evs)[0] = Begun
           /\ \A i \in 1..Len(evs) : Progress(evs)[i] = Take(Progress(evs)[i - 1], evs[i])
  <1> DEFINE Is(f, n) == f = [i \in 0..n |-> IF i = 0 THEN Begun ELSE Take(f[i - 1], evs[i])]
             H == {n \in 0..Len(evs) : \E f : Is(f, n)}
  <1>1. 0 \in H
    <2>1. Is([i \in 0..0 |-> Begun], 0)
      OBVIOUS
    <2>2. 0 \in 0..Len(evs)
      OBVIOUS
    <2> HIDE DEF Is
    <2> QED
      BY <2>1, <2>2
  <1>2. ASSUME NEW n \in 0..Len(evs), n \in H, n < Len(evs)
        PROVE  n + 1 \in H
    <2>1. PICK f : Is(f, n)
      BY <1>2
    <2> DEFINE g == [i \in 0..n + 1 |-> IF i = n + 1 THEN Take(f[n], evs[n + 1]) ELSE f[i]]
    <2>2. ASSUME NEW i \in 0..n + 1
          PROVE  g[i] = IF i = 0 THEN Begun ELSE Take(g[i - 1], evs[i])
      BY <2>1, <1>2
    <2>3. Is(g, n + 1)
      BY <2>2
    <2>4. n + 1 \in 0..Len(evs)
      BY <1>2
    <2> HIDE DEF g
    <2> QED
      BY <2>3, <2>4
  <1>3. Len(evs) \in H
    <2> HIDE DEF H
    <2>1. H = 0..Len(evs)
      <3>1. H \in SUBSET (0..Len(evs))
        BY DEF H
      <3> QED
        BY <1>1, <1>2, <3>1, UpTo
    <2> QED
      BY <2>1
  <1>4. Is(Progress(evs), Len(evs))
    <2>1. \E f : Is(f, Len(evs))
      BY <1>3
    <2>2. Progress(evs) = CHOOSE f : Is(f, Len(evs))
      BY DEF Progress, Begun
    <2> QED
      BY <2>1, <2>2
  <1> QED
    BY <1>4
Whole(acc) == acc.ok \in BOOLEAN /\ acc = [ok |-> acc.ok, book |-> acc.book]

LEMMA TakeOther ==
    ASSUME NEW acc, Whole(acc), NEW ev, ev.type = "other"
    PROVE  Take(acc, ev) = acc
  <1>1. Accepted(acc.book, ev) /\ Booked(acc.book, ev) = acc.book
    BY DEF Accepted, Booked
  <1> QED
    BY <1>1 DEF Take, Whole

LEMMA TakeWhole ==
    ASSUME NEW acc, Whole(acc), NEW ev
    PROVE  /\ Whole(Take(acc, ev))
           /\ acc.ok /\ Accepted(acc.book, ev) =>
                Take(acc, ev) = [ok |-> TRUE, book |-> Booked(acc.book, ev)]
           /\ ~(acc.ok /\ Accepted(acc.book, ev)) =>
                Take(acc, ev) = [ok |-> FALSE, book |-> acc.book]
  <1>1. CASE acc.ok /\ Accepted(acc.book, ev)
    <2>1. Take(acc, ev) = [ok |-> TRUE, book |-> Booked(acc.book, ev)]
      BY <1>1 DEF Take, Whole
    <2> QED
      BY <1>1, <2>1 DEF Whole
  <1>2. CASE ~(acc.ok /\ Accepted(acc.book, ev))
    <2>1. Take(acc, ev) = [ok |-> FALSE, book |-> acc.book]
      BY <1>2 DEF Take, Whole
    <2> QED
      BY <1>2, <2>1 DEF Whole
  <1> QED
    BY <1>1, <1>2

\* Events that are not accounted leave what a trace made of the others.
LEMMA StaysThrough ==
    ASSUME NEW evs, Len(evs) \in Nat, NEW k \in 0..Len(evs), NEW n \in k..Len(evs),
           \A i \in k + 1..n : evs[i].type = "other",
           Whole(Progress(evs)[k])
    PROVE  Progress(evs)[n] = Progress(evs)[k]
  <1> DEFINE P == Progress(evs)
             H == {i \in 0..n - k : P[k + i] = P[k]}
  <1>1. \A i \in 1..Len(evs) : P[i] = Take(P[i - 1], evs[i])
    BY ProgressIs
  <1> HIDE DEF P
  <1>2. n - k \in Nat /\ 0 \in H
    OBVIOUS
  <1>3. ASSUME NEW i \in 0..n - k, i \in H, i < n - k
        PROVE  i + 1 \in H
    <2>1. P[k + i] = P[k] /\ k + i + 1 \in k + 1..n /\ k + i + 1 \in 1..Len(evs)
      BY <1>3
    <2>2. P[k + i + 1] = Take(P[k + i + 1 - 1], evs[k + i + 1])
      BY <1>1, <2>1
    <2>3. k + i + 1 - 1 = k + i /\ k + (i + 1) = k + i + 1 /\ i + 1 \in 0..n - k
      BY <1>3
    <2>4. Take(P[k], evs[k + i + 1]) = P[k]
      <3>1. evs[k + i + 1].type = "other" /\ Whole(P[k])
        BY <2>1 DEF P
      <3> QED
        BY <3>1, TakeOther
    <2>5. P[k + (i + 1)] = P[k]
      BY <2>1, <2>2, <2>3, <2>4
    <2> QED
      BY <2>3, <2>5
  <1>4. H = 0..n - k
    <2>1. H \in SUBSET (0..n - k)
      OBVIOUS
    <2> HIDE DEF H
    <2> QED
      BY <1>2, <1>3, <2>1, UpTo
  <1>5. n - k \in H /\ k + (n - k) = n
    BY <1>4
  <1> QED
    BY <1>5 DEF P

LEMMA BegunWhole ==
    ASSUME refused \in BOOLEAN
    PROVE  Whole(Begun) /\ Begun.ok = ~refused /\ Begun.book = account
  BY DEF Whole, Begun

LEMMA EventsOf ==
    ASSUME NEW t, List(events')
    PROVE  /\ Len(AccountingEvents(t)) = Len(events') /\ Len(events') \in Nat
           /\ \A i \in 1..Len(events') :
                /\ AccountingEvents(t)[i] = EventOf(events'[i], t)
                /\ events'[i].type \notin Accounting => AccountingEvents(t)[i].type = "other"
  <1>1. Len(events') \in Nat
    BY ListFacts
  <1>2. \A i \in 1..Len(events') : AccountingEvents(t)[i] = EventOf(events'[i], t)
    BY DEF AccountingEvents
  <1>3. \A i \in 1..Len(events') :
          events'[i].type \notin Accounting => EventOf(events'[i], t) = [type |-> "other"]
    BY DEF EventOf, Accounting
  <1>4. Len(AccountingEvents(t)) = Len(events')
    BY <1>1 DEF AccountingEvents
  <1> QED
    BY <1>1, <1>2, <1>3, <1>4

\* A trace without an accounting event changes no account.
LEMMA QuietTrace ==
    ASSUME NEW t, TakeTrace(t), List(events'), Quiet(events'), refused \in BOOLEAN
    PROVE  account' = account /\ refused' = refused
  <1> DEFINE evs == AccountingEvents(t)
             n == Len(evs)
  <1>1. n \in Nat /\ \A i \in 1..n : evs[i].type = "other"
    BY EventsOf, ListFacts DEF Quiet
  <1>2. Progress(evs)[0] = Begun
    BY <1>1, ProgressIs
  <1>3. account' = (IF Progress(evs)[n].ok THEN Progress(evs)[n].book ELSE account)
        /\ refused' = ~Progress(evs)[n].ok
    BY DEF TakeTrace
  <1> HIDE DEF evs
  <1>4. Progress(evs)[n] = Begun
    <2>1. 0 \in 0..n /\ n \in 0..n /\ \A i \in 0 + 1..n : evs[i].type = "other"
      BY <1>1
    <2> QED
      BY <1>1, <1>2, <2>1, BegunWhole, StaysThrough
  <1> QED
    BY <1>3, <1>4, BegunWhole

\* A trace with one accounting event takes or refuses that one.
LEMMA SingleTrace ==
    ASSUME NEW t, TakeTrace(t), List(events'), NEW e, Single(events', e), refused \in BOOLEAN
    PROVE  LET ev == EventOf(e, t)
           IN  IF ~refused /\ Accepted(account, ev)
               THEN account' = Booked(account, ev) /\ refused' = FALSE
               ELSE account' = account /\ refused' = TRUE
  <1> DEFINE evs == AccountingEvents(t)
             n == Len(evs)
             ev == EventOf(e, t)
             P == Progress(evs)
  <1>1. PICK k \in 1..n :
          /\ n \in Nat /\ evs[k] = ev
          /\ \A i \in 1..n : i # k => evs[i].type = "other"
    <2>1. /\ n = Len(events') /\ n \in Nat
          /\ \A i \in 1..n : /\ evs[i] = EventOf(events'[i], t)
                             /\ events'[i].type \notin Accounting => evs[i].type = "other"
      BY EventsOf
    <2>2. PICK k \in 1..n : events'[k] = e
             /\ \A i \in 1..n : i # k => events'[i].type \notin Accounting
      BY <2>1, ListFacts DEF Single
    <2> HIDE DEF evs, n
    <2> QED
      BY <2>1, <2>2
  <1>2. P[0] = Begun /\ P[k] = Take(P[k - 1], evs[k])
    BY <1>1, ProgressIs
  <1>3. account' = (IF P[n].ok THEN P[n].book ELSE account) /\ refused' = ~P[n].ok
    BY DEF TakeTrace
  <1> HIDE DEF evs, ev
  <1>4. P[k - 1] = Begun
    <2>1. 0 \in 0..n /\ k - 1 \in 0..n /\ \A i \in 0 + 1..k - 1 : evs[i].type = "other"
      BY <1>1
    <2> QED
      BY <1>1, <1>2, <2>1, BegunWhole, StaysThrough
  <1>5. P[k] = Take(Begun, ev) /\ Whole(P[k])
    BY <1>1, <1>2, <1>4, BegunWhole, TakeWhole
  <1>6. P[n] = P[k]
    <2>1. k \in 0..n /\ n \in k..n /\ \A i \in k + 1..n : evs[i].type = "other"
      BY <1>1
    <2> QED
      BY <1>1, <1>5, <2>1, StaysThrough
  <1> HIDE DEF P, n
  <1>7. CASE ~refused /\ Accepted(account, ev)
    <2>1. Begun.ok /\ Accepted(Begun.book, ev) /\ Begun.book = account
      BY <1>7, BegunWhole
    <2>2. Take(Begun, ev) = [ok |-> TRUE, book |-> Booked(Begun.book, ev)]
      BY <2>1, BegunWhole, TakeWhole
    <2>3. P[n].ok = TRUE /\ P[n].book = Booked(account, ev)
      BY <1>5, <1>6, <2>1, <2>2
    <2>4. account' = Booked(account, ev) /\ refused' = FALSE
      BY <1>3, <2>3
    <2> QED
      BY <1>7, <2>4 DEF ev
  <1>8. CASE ~(~refused /\ Accepted(account, ev))
    <2>1. ~(Begun.ok /\ Accepted(Begun.book, ev)) /\ Begun.book = account
      BY <1>8, BegunWhole
    <2>2. Take(Begun, ev) = [ok |-> FALSE, book |-> Begun.book]
      BY <2>1, BegunWhole, TakeWhole
    <2>3. P[n].ok = FALSE /\ P[n].book = account
      BY <1>5, <1>6, <2>1, <2>2
    <2>4. account' = account /\ refused' = TRUE
      BY <1>3, <2>3
    <2> QED
      BY <1>8, <2>4 DEF ev
  <1> QED
    BY <1>7, <1>8
-----------------------------------------------------------------------------
(* The inductive invariant.                                                *)

\* No price is negative and slippage takes no more than the price itself.
CostsBite == SlippageRate <= Unit /\ \A b \in Bars : b.quote.low >= 0

\* What a trade would make without costs.
Frictionless(x) ==
    (IF x.side = "long" THEN 1 ELSE -1)
        * (x.canonical[2] - x.canonical[1]) * Quantity * Unit * Unit

ClosedTrades ==
    {x \in [id: Nat, side: Directions, from: Times, to: Times, canonical: Int \X Int,
            gross: Int, fees: Int, net: Int] :
        /\ x.net = x.gross - x.fees
        /\ CostsBite => x.net <= Frictionless(x)}

\* A book of trades in the order of their bars, before the open one, none of
\* them later than `at' or numbered as high as `next'.
BookOK(book, at, next) ==
    /\ book = [open |-> book.open, trades |-> book.trades, seen |-> book.seen]
    /\ book.seen \subseteq Nat /\ \A n \in book.seen : n < next
    /\ book.open # None =>
          /\ book.open \in OpenEvents /\ book.open.ts <= at
          /\ CostsBite => book.open.price >= 0
    /\ book.trades \in Seq(ClosedTrades)
    /\ \A i \in 1..Len(book.trades) :
          /\ book.trades[i].to <= at
          /\ book.open # None => book.trades[i].to < book.open.ts
          /\ i # 1 => book.trades[i - 1].to < book.trades[i].from

Numbered ==
    /\ refused \in BOOLEAN
    /\ carried \in Nat /\ carried < nextSeq
    /\ trade # None => trade.seq # 0

\* The replay's invariant, and that ids are ahead of everything in the books.
BInv == RInv /\ Numbered /\ AccountFollows /\ BookOK(account, lastTs, nextSeq)

LEMMA ClosedTradeSound ==
    ASSUME NEW open \in OpenEvents, NEW ev, ev.price \in Int, ev.ts \in Times,
           CostsBite => open.price >= 0 /\ ev.price >= 0
    PROVE  /\ ClosedTrade(open, ev) \in ClosedTrades
           /\ ClosedTrade(open, ev).from = open.ts /\ ClosedTrade(open, ev).to = ev.ts
  <1> DEFINE p == open.price
             q == ev.price
             long == open.side = "long"
             U == Unit
             S == SlippageRate
             entry == EntryExecutionPrice(p, open.side)
             exit == ExitExecutionPrice(q, open.side)
             gross == (IF long THEN exit - entry ELSE entry - exit) * Quantity * Unit
             fees == FeeOf(entry) + FeeOf(exit)
             x == ClosedTrade(open, ev)
  <1>1. /\ p \in Int /\ q \in Int /\ open.id \in Nat /\ open.side \in Directions
        /\ open.ts \in Times
    BY DEF OpenEvents
  <1>2. Unit \in Nat \ {0} /\ Quantity \in Nat \ {0} /\ FeeRate \in Nat /\ SlippageRate \in Nat
    BY CostAssumption DEF LegalCosts
  <1>3. x = [id |-> open.id, side |-> open.side, from |-> open.ts, to |-> ev.ts,
             canonical |-> <<p, q>>, gross |-> gross, fees |-> fees, net |-> gross - fees]
    BY DEF ClosedTrade
  <1>4. /\ entry = (IF long THEN p * (U + S) ELSE p * (U - S))
        /\ exit = (IF long THEN q * (U - S) ELSE q * (U + S))
        /\ entry \in Int /\ exit \in Int
    BY <1>1, <1>2 DEF EntryExecutionPrice, ExitExecutionPrice
  <1> HIDE DEF entry, exit
  <1>5. gross \in Int /\ fees \in Int /\ gross - fees \in Int
    <2>1. FeeOf(entry) \in Int /\ FeeOf(exit) \in Int
      BY <1>2, <1>4 DEF FeeOf
    <2>2. gross \in Int
      BY <1>2, <1>4
    <2> HIDE DEF gross
    <2> QED
      BY <2>1, <2>2
  <1>6. ASSUME CostsBite
        PROVE  gross - fees <= Frictionless(x)
    <2>1. p >= 0 /\ q >= 0 /\ S <= U /\ S \in Nat /\ U \in Nat
      BY <1>2, <1>6 DEF CostsBite
    <2>2. entry >= 0 /\ exit >= 0
      BY <1>1, <1>4, <2>1
    <2>3. fees >= 0
      <3>1. \A e \in Int : e >= 0 => FeeOf(e) >= 0 /\ FeeOf(e) \in Int
        BY <1>2 DEF FeeOf
      <3> QED
        BY <1>4, <2>2, <3>1
    <2> DEFINE move == IF long THEN q - p ELSE p - q
    <2>4. (IF long THEN exit - entry ELSE entry - exit) <= move * U
      <3>1. /\ p * (U + S) = p * U + p * S /\ p * (U - S) = p * U - p * S
            /\ q * (U + S) = q * U + q * S /\ q * (U - S) = q * U - q * S
            /\ (q - p) * U = q * U - p * U /\ (p - q) * U = p * U - q * U
            /\ p * S >= 0 /\ q * S >= 0
            /\ p * S \in Int /\ q * S \in Int /\ p * U \in Int /\ q * U \in Int
        BY <1>1, <2>1
      <3> QED
        BY <1>4, <3>1
    <2>5. gross <= move * U * Quantity * Unit
      <3>1. \A m, n \in Int : m <= n => m * Quantity * Unit <= n * Quantity * Unit
        BY <1>2
      <3>2. (IF long THEN exit - entry ELSE entry - exit) \in Int /\ move * U \in Int
        BY <1>1, <1>4, <2>1
      <3> QED
        BY <2>4, <3>1, <3>2
    <2>6. Frictionless(x) = (IF long THEN 1 ELSE -1) * (q - p) * Quantity * Unit * Unit
      BY <1>3 DEF Frictionless
    <2>7. move = (IF long THEN 1 ELSE -1) * (q - p) /\ move \in Int
      BY <1>1
    <2>8. move * U * Quantity * Unit = move * Quantity * Unit * Unit
      BY <1>2, <2>7
    <2> DEFINE most == move * Quantity * Unit * Unit
    <2>9. Frictionless(x) = most
      BY <2>6, <2>7
    <2>10. most \in Int /\ gross <= most
      <3>1. most \in Int
        BY <1>2, <2>7
      <3> QED
        BY <2>5, <2>8, <3>1
    <2> HIDE DEF gross, fees, most
    <2>11. gross - fees <= most
      BY <1>5, <2>3, <2>10
    <2> QED
      BY <2>9, <2>11
  <1> HIDE DEF gross, fees, x
  <1>7. /\ x.id \in Nat /\ x.side \in Directions /\ x.from = open.ts /\ x.to = ev.ts
        /\ x.canonical \in Int \X Int /\ x.gross \in Int /\ x.fees \in Int /\ x.net \in Int
        /\ x.net = x.gross - x.fees
        /\ CostsBite => x.net <= Frictionless(x)
    BY <1>1, <1>3, <1>5, <1>6
  <1>8. x \in [id: Nat, side: Directions, from: Times, to: Times, canonical: Int \X Int,
               gross: Int, fees: Int, net: Int]
    BY <1>1, <1>3, <1>5, <1>7
  <1> QED
    BY <1>7, <1>8 DEF ClosedTrades, x

\* A book that does not change stays in order as time goes on.
LEMMA BookKept ==
    ASSUME NEW book, NEW at \in Nat, NEW next \in Nat, BookOK(book, at, next),
           NEW later \in Nat, NEW higher \in Nat, at <= later, next <= higher
    PROVE  BookOK(book, later, higher)
  <1>1. \A n \in book.seen : n < higher
    BY DEF BookOK
  <1>2. book.open # None => book.open.ts <= later
    BY TimesAreNat DEF BookOK, OpenEvents
  <1>3. \A i \in 1..Len(book.trades) : book.trades[i].to <= later
    <2>1. \A i \in 1..Len(book.trades) : book.trades[i] \in ClosedTrades
      BY DEF BookOK
    <2>2. \A i \in 1..Len(book.trades) : book.trades[i].to \in Nat
      BY <2>1, TimesAreNat DEF ClosedTrades
    <2> QED
      BY <2>2 DEF BookOK
  <1> QED
    BY <1>1, <1>2, <1>3 DEF BookOK

\* A book without an open trade takes a later one that has a new number.
LEMMA BookOpens ==
    ASSUME NEW book, NEW at \in Nat, NEW next \in Nat, BookOK(book, at, next),
           book.open = None, NEW ev \in OpenEvents, ev.id = next, at < ev.ts,
           CostsBite => ev.price >= 0
    PROVE  BookOK(Booked(book, ev), ev.ts, next + 1)
  <1> DEFINE new == Booked(book, ev)
  <1>1. /\ new.open = ev /\ new.trades = book.trades /\ new.seen = book.seen \cup {ev.id}
        /\ new = [open |-> new.open, trades |-> new.trades, seen |-> new.seen]
    BY DEF BookOK, Booked, OpenEvents
  <1>2. ev.ts \in Nat /\ ev.id \in Nat
    BY TimesAreNat DEF OpenEvents
  <1> HIDE DEF new
  <1>3. new.seen \subseteq Nat /\ \A n \in new.seen : n < next + 1
    BY <1>1, <1>2 DEF BookOK
  <1>4. \A i \in 1..Len(book.trades) : book.trades[i].to <= ev.ts /\ book.trades[i].to < ev.ts
    <2>1. \A i \in 1..Len(book.trades) : book.trades[i] \in ClosedTrades
      BY DEF BookOK
    <2>2. \A i \in 1..Len(book.trades) : book.trades[i].to \in Nat
      BY <2>1, TimesAreNat DEF ClosedTrades
    <2> QED
      BY <1>2, <2>2 DEF BookOK
  <1>5. ev.ts <= ev.ts
    BY <1>2
  <1> QED
    BY <1>1, <1>3, <1>4, <1>5 DEF BookOK, new

\* The open trade is closed by a later event.
LEMMA BookCloses ==
    ASSUME NEW book, NEW at \in Nat, NEW next \in Nat, BookOK(book, at, next),
           book.open # None, NEW ev, ev.type = "trade_closed", ev.price \in Int,
           ev.ts \in Times, at < ev.ts, CostsBite => ev.price >= 0
    PROVE  BookOK(Booked(book, ev), ev.ts, next) /\ Booked(book, ev).open = None
  <1> DEFINE new == Booked(book, ev)
             x == ClosedTrade(book.open, ev)
             n == Len(book.trades)
  <1>1. /\ new.open = None /\ new.trades = Append(book.trades, x) /\ new.seen = book.seen
        /\ new = [open |-> new.open, trades |-> new.trades, seen |-> new.seen]
    BY DEF BookOK, Booked
  <1>2. ev.ts \in Nat
    BY TimesAreNat
  <1>3. x \in ClosedTrades /\ x.from = book.open.ts /\ x.to = ev.ts
    BY ClosedTradeSound DEF BookOK
  <1> HIDE DEF new, x
  <1>4. /\ book.trades \in Seq(ClosedTrades) /\ n \in Nat
        /\ \A i \in 1..n : book.trades[i] \in ClosedTrades
    BY DEF BookOK
  <1>5. \A i \in 1..n : book.trades[i].to \in Nat
    BY <1>4, TimesAreNat DEF ClosedTrades
  <1>6. /\ new.trades \in Seq(ClosedTrades) /\ Len(new.trades) = n + 1
        /\ \A i \in 1..n : new.trades[i] = book.trades[i]
        /\ new.trades[n + 1] = x
    BY <1>1, <1>3, <1>4, AppendProperties
  <1> HIDE DEF n
  <1>7. ASSUME NEW i \in 1..n + 1
        PROVE  /\ new.trades[i].to <= ev.ts
               /\ i # 1 => new.trades[i - 1].to < new.trades[i].from
    <2>1. CASE i \in 1..n
      <3>1. new.trades[i] = book.trades[i] /\ (i # 1 => new.trades[i - 1] = book.trades[i - 1])
        BY <1>4, <1>6, <2>1
      <3>2. book.trades[i].to <= at /\ (i # 1 => book.trades[i - 1].to < book.trades[i].from)
        BY <2>1 DEF BookOK, n
      <3> QED
        BY <1>2, <1>5, <2>1, <3>1, <3>2
    <2>2. CASE i = n + 1
      <3>1. i # 1 => n \in 1..n /\ i - 1 = n
        BY <1>4, <2>2
      <3>2. i # 1 => book.trades[n].to < book.open.ts
        BY <3>1 DEF BookOK, n
      <3> QED
        BY <1>2, <1>3, <1>6, <2>2, <3>1, <3>2
    <2> QED
      BY <1>4, <2>1, <2>2
  <1>8. new.seen \subseteq Nat /\ \A m \in new.seen : m < next
    BY <1>1 DEF BookOK
  <1>9. BookOK(new, ev.ts, next)
    BY <1>1, <1>6, <1>7, <1>8 DEF BookOK
  <1> QED
    BY <1>1, <1>9 DEF new
LEMMA BInit == BacktestInit => BInv
  <1> SUFFICES ASSUME BacktestInit
               PROVE  BInv
    OBVIOUS
  <1>1. RInv /\ trade = None /\ nextSeq = 1
    BY RInit DEF BacktestInit, ReplayInit, Init
  <1>2. /\ account = [open |-> None, trades |-> <<>>, seen |-> {}]
        /\ refused = FALSE /\ carried = 0
    BY DEF BacktestInit, NoAccount
  <1>3. account.open = None /\ account.trades = <<>> /\ account.seen = {}
    BY <1>2
  <1>4. BookOK(account, lastTs, nextSeq)
    BY <1>2, <1>3 DEF BookOK
  <1>5. Numbered
    <2>1. refused \in BOOLEAN
      BY <1>2, Zenon
    <2>2. carried \in Nat /\ carried < nextSeq
      BY <1>1, <1>2
    <2> QED
      BY <1>1, <2>1, <2>2 DEF Numbered
  <1>6. AccountFollows
    BY <1>1, <1>2, <1>3 DEF AccountFollows
  <1> QED
    BY <1>1, <1>4, <1>5, <1>6 DEF BInv

\* What the strategy's invariant says of numbers and times.
LEMMA Counting ==
    ASSUME IInv
    PROVE  /\ nextSeq \in Nat /\ nextSeq # 0 /\ lastTs \in Nat
           /\ trade # None => /\ trade \in Trades /\ trade.seq = nextSeq - 1
                              /\ NextSequence(trade) = nextSeq
                              /\ trade.entryTs <= lastTs
           /\ NextSequence(None) = nextSeq
  <1>1. /\ nextSeq \in Nat /\ nextSeq # 0 /\ lastTs \in Nat
        /\ trade # None => trade \in Trades /\ trade.seq = nextSeq - 1 /\ trade.entryTs <= lastTs
    BY TimesAreNat DEF IInv, TypeOK, TradeInEpoch
  <1>2. trade # None => NextSequence(trade) = nextSeq
    BY <1>1 DEF NextSequence
  <1> QED
    BY <1>1, <1>2 DEF NextSequence

\* A step that closes the trade.
LEMMA CloseFollows ==
    ASSUME BInv, NEW b \in Bars, NEW t \in Times, Observe(b, t), TakeTrace(t),
           carried' = carried, List(events'), trade # None, trade' = None,
           NEW e, Single(events', e), e.type = "trade_closed", e.price \in Int,
           b.quote.low <= e.price
    PROVE  Numbered' /\ AccountFollows' /\ BookOK(account', lastTs', nextSeq')
  <1> DEFINE ev == [type |-> "trade_closed", id |-> trade.seq, side |-> trade.side,
                    price |-> e.price, ts |-> t]
  <1>1. /\ IInv /\ Numbered /\ AccountFollows /\ BookOK(account, lastTs, nextSeq)
        /\ refused \in BOOLEAN
    BY DEF BInv, RInv, Numbered
  <1>2. /\ lastTs' = t /\ lastTs < t /\ t \in Nat /\ lastTs \in Nat
        /\ nextSeq' = nextSeq /\ nextSeq \in Nat /\ trade \in Trades
    BY <1>1, Counting, TimesAreNat DEF Observe
  <1>3. IF ~refused /\ Accepted(account, ev)
        THEN account' = Booked(account, ev) /\ refused' = FALSE
        ELSE account' = account /\ refused' = TRUE
    <2>1. EventOf(e, t) = ev
      BY DEF EventOf
    <2> QED
      BY <1>1, <2>1, SingleTrace
  <1>4. /\ ev.type = "trade_closed" /\ ev.id = trade.seq /\ ev.side = trade.side
        /\ ev.price = e.price /\ ev.ts = t
    OBVIOUS
  <1>5. Accepted(account, ev) <=> CloseAccepted(account, ev)
    BY <1>4 DEF Accepted
  <1>6. CostsBite => ev.price >= 0
    <2>1. b.quote.low \in Int
      BY BarsAssumption DEF LegalBar
    <2> QED
      BY <1>4, <2>1 DEF CostsBite
  <1> HIDE DEF ev, BInv
  <1>7. CASE refused
    <2>1. account' = account /\ refused' = TRUE /\ carried # 0
      BY <1>1, <1>3, <1>7 DEF AccountFollows
    <2>2. BookOK(account', lastTs', nextSeq')
      BY <1>1, <1>2, <2>1, BookKept
    <2> QED
      BY <1>1, <1>2, <2>1, <2>2 DEF Numbered, AccountFollows
  <1>8. CASE ~refused /\ trade.seq = carried
    <2>1. account.open = None /\ carried # 0
      BY <1>1, <1>8 DEF AccountFollows, Numbered
    <2>2. ~Accepted(account, ev)
      BY <1>5, <2>1 DEF CloseAccepted
    <2>3. account' = account /\ refused' = TRUE
      BY <1>3, <2>2
    <2>4. BookOK(account', lastTs', nextSeq')
      BY <1>1, <1>2, <2>3, BookKept
    <2> QED
      BY <1>1, <1>2, <2>1, <2>3, <2>4 DEF Numbered, AccountFollows
  <1>9. CASE ~refused /\ trade.seq # carried
    <2>1. /\ carried = 0 /\ account.open # None
          /\ trade.seq = account.open.id /\ trade.side = account.open.side
          /\ trade.entryTs = account.open.ts
      BY <1>1, <1>9 DEF AccountFollows
    <2>2. account.open.ts <= lastTs /\ account.open.ts \in Nat
      BY <1>1, <2>1, TimesAreNat DEF BookOK, OpenEvents
    <2>3. Accepted(account, ev)
      BY <1>2, <1>4, <1>5, <2>1, <2>2 DEF CloseAccepted
    <2>4. account' = Booked(account, ev) /\ refused' = FALSE
      BY <1>3, <1>9, <2>3
    <2>5. BookOK(account', lastTs', nextSeq') /\ account'.open = None
      BY <1>1, <1>2, <1>4, <1>6, <2>1, <2>4, BookCloses
    <2> QED
      BY <1>1, <1>2, <2>1, <2>4, <2>5 DEF Numbered, AccountFollows
  <1> QED
    BY <1>7, <1>8, <1>9

\* A step that opens a trade.
LEMMA OpenFollows ==
    ASSUME BInv, NEW b \in Bars, NEW t \in Times, Observe(b, t), TakeTrace(t),
           carried' = carried, List(events'), trade = None, trade' \in Trades,
           trade'.seq = nextSeq, trade'.entryTs = t, trade'.entry = b.quote.close,
           nextSeq' = nextSeq + 1,
           Single(events', [type |-> "trade_opened", reason |-> "entry_accepted",
                            price |-> b.quote.close])
    PROVE  Numbered' /\ AccountFollows' /\ BookOK(account', lastTs', nextSeq')
  <1> DEFINE ev == [type |-> "trade_opened", id |-> nextSeq, side |-> trade'.side,
                    price |-> b.quote.close, ts |-> t]
             e == [type |-> "trade_opened", reason |-> "entry_accepted",
                   price |-> b.quote.close]
  <1>1. /\ IInv /\ Numbered /\ AccountFollows /\ BookOK(account, lastTs, nextSeq)
        /\ refused \in BOOLEAN
    BY DEF BInv, RInv, Numbered
  <1>2. /\ lastTs' = t /\ lastTs < t /\ t \in Nat /\ lastTs \in Nat
        /\ nextSeq \in Nat /\ nextSeq # 0 /\ trade' # None
    BY <1>1, Counting, TimesAreNat, NoneAssumption DEF Observe
  <1>3. IF ~refused /\ Accepted(account, ev)
        THEN account' = Booked(account, ev) /\ refused' = FALSE
        ELSE account' = account /\ refused' = TRUE
    <2>1. EventOf(e, t) = ev
      BY DEF EventOf
    <2> HIDE DEF e, ev
    <2> QED
      BY <1>1, <2>1, SingleTrace DEF e
  <1>4. /\ ev.type = "trade_opened" /\ ev.id = nextSeq /\ ev.side = trade'.side
        /\ ev.price = b.quote.close /\ ev.ts = t
    OBVIOUS
  <1>5. ev \in OpenEvents /\ ev # None
    <2>1. b.quote.close \in Int /\ trade'.side \in Directions
      BY BarsAssumption DEF LegalBar, Trades
    <2> QED
      BY <1>2, <2>1, EventAssumption DEF OpenEvents
  <1>6. CostsBite => ev.price >= 0
    <2>1. b.quote.low \in Int /\ b.quote.low <= b.quote.close /\ b.quote.close \in Int
      BY BarsAssumption DEF LegalBar
    <2> QED
      BY <1>4, <2>1 DEF CostsBite
  <1> HIDE DEF ev, BInv
  <1>7. CASE refused
    <2>1. account' = account /\ refused' = TRUE /\ carried # 0 /\ carried < nextSeq
      BY <1>1, <1>3, <1>7 DEF AccountFollows, Numbered
    <2>2. BookOK(account', lastTs', nextSeq')
      BY <1>1, <1>2, <2>1, BookKept
    <2>3. trade'.seq # carried
      BY <1>1, <1>2, <2>1 DEF Numbered
    <2> QED
      BY <1>1, <1>2, <2>1, <2>2, <2>3 DEF Numbered, AccountFollows
  <1>8. CASE ~refused
    <2>1. carried = 0 /\ account.open = None
      BY <1>1, <1>8 DEF AccountFollows
    <2>2. nextSeq \notin account.seen
      BY <1>1, <1>2 DEF BookOK
    <2>3. Accepted(account, ev)
      <3>1. OpenAccepted(account, ev)
        BY <1>2, <1>4, <2>1, <2>2 DEF OpenAccepted
      <3> QED
        BY <1>4, <3>1 DEF Accepted
    <2>4. account' = Booked(account, ev) /\ refused' = FALSE
      BY <1>3, <1>8, <2>3
    <2>5. BookOK(account', lastTs', nextSeq')
      BY <1>1, <1>2, <1>4, <1>5, <1>6, <2>1, <2>4, BookOpens
    <2>6. account'.open = ev
      BY <1>1, <1>4, <2>4 DEF Booked, BookOK
    <2>7. AccountFollows'
      BY <1>2, <1>4, <1>5, <2>1, <2>4, <2>6 DEF AccountFollows
    <2>8. Numbered'
      <3>1. carried' \in Nat /\ carried' < nextSeq' /\ trade'.seq # 0
        BY <1>2, <2>1
      <3>2. refused' \in BOOLEAN
        BY <2>4, Zenon
      <3> QED
        BY <3>1, <3>2 DEF Numbered
    <2> QED
      BY <2>5, <2>7, <2>8
  <1> QED
    BY <1>7, <1>8

\* A step that changes no trade.
LEMMA QuietFollows ==
    ASSUME BInv, NEW b \in Bars, NEW t \in Times, Observe(b, t), TakeTrace(t),
           carried' = carried, List(events'), trade' = trade, Quiet(events')
    PROVE  Numbered' /\ AccountFollows' /\ BookOK(account', lastTs', nextSeq')
  <1>1. /\ IInv /\ Numbered /\ AccountFollows /\ BookOK(account, lastTs, nextSeq)
        /\ refused \in BOOLEAN
    BY DEF BInv, RInv, Numbered
  <1>2. account' = account /\ refused' = refused
    BY <1>1, QuietTrace
  <1>3. lastTs' = t /\ lastTs < t /\ t \in Nat /\ lastTs \in Nat
        /\ nextSeq' = nextSeq /\ nextSeq \in Nat
    BY <1>1, Counting, TimesAreNat DEF Observe
  <1>4. BookOK(account', lastTs', nextSeq')
    BY <1>1, <1>2, <1>3, BookKept
  <1> QED
    BY <1>1, <1>2, <1>3, <1>4 DEF Numbered, AccountFollows

LEMMA BNext ==
    ASSUME BInv, [BacktestNext]_<<vars, feed, books>>
    PROVE  BInv'
  <1>1. ASSUME NEW t \in Times, NEW rel \in Relations, NEW b \in Bars, LtfTrace(t, rel, b)
        PROVE  BInv'
    <2>1. LtfStep(t, rel, b) /\ TakeTrace(t) /\ carried' = carried /\ Step(b, t)
      BY <1>1 DEF LtfTrace, LtfStep
    <2>2. RInv' /\ Observe(b, t) /\ IInv
      BY <2>1, LtfStepRInv, StepObserves DEF BInv, RInv
    <2>3. Numbered' /\ AccountFollows' /\ BookOK(account', lastTs', nextSeq')
      BY <2>1, <2>2, StepReports, CloseFollows, OpenFollows, QuietFollows
    <2> QED
      BY <2>2, <2>3 DEF BInv, BookOK
  <1>2. ASSUME NEW t \in Times, NEW rel \in Relations, HtfTrace(t, rel)
        PROVE  BInv'
    <2>1. HtfStep(t, rel) /\ UNCHANGED books /\ UNCHANGED vars
      BY <1>2 DEF HtfTrace, HtfStep
    <2>2. RInv'
      BY <2>1, HtfStepRInv DEF BInv
    <2>3. /\ account' = account /\ refused' = refused /\ carried' = carried
          /\ trade' = trade /\ lastTs' = lastTs /\ nextSeq' = nextSeq
      BY <2>1 DEF books, vars
    <2> QED
      BY <2>2, <2>3 DEF BInv, Numbered, AccountFollows, BookOK
  <1>3. CASE ResumedReplay
    <2>1. UNCHANGED vars /\ UNCHANGED feed
      BY <1>3 DEF ResumedReplay
    <2>2. RInv'
      BY <2>1, StutterRInv DEF BInv, rvars
    <2>3. /\ trade' = trade /\ lastTs' = lastTs /\ nextSeq' = nextSeq /\ trade # None
          /\ account' = NoAccount /\ refused' = FALSE /\ carried' = trade.seq
      BY <1>3, <2>1 DEF ResumedReplay, vars
    <2>4. trade \in Trades /\ trade.seq = nextSeq - 1 /\ nextSeq \in Nat /\ trade.seq # 0
      BY <2>3, Counting DEF BInv, RInv, Numbered
    <2>5. account'.open = None /\ account'.trades = <<>> /\ account'.seen = {}
      BY <2>3 DEF NoAccount
    <2>6. Numbered'
      <3>1. trade.seq \in Nat /\ trade.seq < nextSeq
        BY <2>4 DEF Trades
      <3> QED
        BY <2>3, <2>4, <3>1 DEF Numbered
    <2>8. AccountFollows'
      BY <2>3, <2>5 DEF AccountFollows
    <2>7. BookOK(account, lastTs, nextSeq)'
      BY <2>3, <2>5 DEF BookOK, NoAccount
    <2> QED
      BY <2>2, <2>6, <2>7, <2>8 DEF BInv
  <1>4. CASE UNCHANGED <<vars, feed, books>>
    <2>1. RInv'
      BY <1>4, StutterRInv DEF BInv, rvars
    <2>2. /\ account' = account /\ refused' = refused /\ carried' = carried
          /\ trade' = trade /\ lastTs' = lastTs /\ nextSeq' = nextSeq
      BY <1>4 DEF books, vars
    <2> QED
      BY <2>1, <2>2 DEF BInv, Numbered, AccountFollows, BookOK
  <1> QED
    BY <1>1, <1>2, <1>3, <1>4 DEF BacktestNext

-----------------------------------------------------------------------------
(* What calculate_metrics makes of the trades.                             *)

Numbers(s) == Len(s) \in Nat /\ \A i \in 1..Len(s) : s[i] \in Int

LEMMA RunningIs ==
    ASSUME NEW s, Numbers(s)
    PROVE  /\ Running(s)[0] = 0
           /\ \A i \in 1..Len(s) : Running(s)[i] = Running(s)[i - 1] + s[i]
           /\ \A i \in 0..Len(s) : Running(s)[i] \in Int
  <1> DEFINE Is(f, n) == f = [i \in 0..n |-> IF i = 0 THEN 0 ELSE f[i - 1] + s[i]]
             H == {n \in 0..Len(s) : \E f : Is(f, n)}
  <1>1. Len(s) \in Nat
    BY DEF Numbers
  <1>2. 0 \in H
    <2>1. Is([i \in 0..0 |-> 0], 0)
      OBVIOUS
    <2>2. 0 \in 0..Len(s)
      BY <1>1
    <2> HIDE DEF Is
    <2> QED
      BY <2>1, <2>2
  <1>3. ASSUME NEW n \in 0..Len(s), n \in H, n < Len(s)
        PROVE  n + 1 \in H
    <2>1. PICK f : Is(f, n)
      BY <1>3
    <2> DEFINE g == [i \in 0..n + 1 |-> IF i = n + 1 THEN f[n] + s[n + 1] ELSE f[i]]
    <2>2. ASSUME NEW i \in 0..n + 1
          PROVE  g[i] = IF i = 0 THEN 0 ELSE g[i - 1] + s[i]
      BY <2>1, <1>1, <1>3
    <2>3. Is(g, n + 1)
      BY <2>2
    <2>4. n + 1 \in 0..Len(s)
      BY <1>1, <1>3
    <2> HIDE DEF g
    <2> QED
      BY <2>3, <2>4
  <1>4. Len(s) \in H
    <2>1. H \in SUBSET (0..Len(s))
      OBVIOUS
    <2> HIDE DEF H
    <2>2. H = 0..Len(s)
      BY <1>1, <1>2, <1>3, <2>1, UpTo
    <2> QED
      BY <1>1, <2>2
  <1>5. Is(Running(s), Len(s))
    <2>1. \E f : Is(f, Len(s))
      BY <1>4
    <2>2. Running(s) = CHOOSE f : Is(f, Len(s))
      BY DEF Running
    <2> QED
      BY <2>1, <2>2
  <1> DEFINE R == Running(s)
             T == {i \in 0..Len(s) : R[i] \in Int}
  <1>6. R[0] = 0 /\ \A i \in 1..Len(s) : R[i] = R[i - 1] + s[i]
    BY <1>1, <1>5
  <1> HIDE DEF R, H, Is
  <1>7. 0 \in T
    BY <1>1, <1>6
  <1>8. ASSUME NEW i \in 0..Len(s), i \in T, i < Len(s)
        PROVE  i + 1 \in T
    <2>1. i + 1 \in 1..Len(s) /\ i + 1 \in 0..Len(s) /\ (i + 1) - 1 = i
      BY <1>1, <1>8
    <2>2. R[i] \in Int /\ s[i + 1] \in Int
      BY <1>8, <2>1 DEF Numbers
    <2>3. R[i + 1] = R[i] + s[i + 1]
      BY <1>6, <2>1
    <2> QED
      BY <2>1, <2>2, <2>3
  <1>9. T = 0..Len(s)
    <2>1. T \in SUBSET (0..Len(s))
      OBVIOUS
    <2> HIDE DEF T
    <2> QED
      BY <1>1, <1>7, <1>8, <2>1, UpTo
  <1>10. \A i \in 0..Len(s) : R[i] \in Int
    BY <1>9
  <1> QED
    BY <1>6, <1>10 DEF R

\* Each of the n numbers is a gain less a loss and a fee.
Parts(n, whole, gain, loss, fee) ==
    /\ n \in Nat
    /\ Len(whole) = n /\ Len(gain) = n /\ Len(loss) = n /\ Len(fee) = n
    /\ Numbers(whole) /\ Numbers(gain) /\ Numbers(loss) /\ Numbers(fee)
    /\ \A i \in 1..n : whole[i] = gain[i] - loss[i] - fee[i]

\* Then so is their sum.
LEMMA SumOfParts ==
    ASSUME NEW n, NEW whole, NEW gain, NEW loss, NEW fee, Parts(n, whole, gain, loss, fee)
    PROVE  SumOf(whole) = SumOf(gain) - SumOf(loss) - SumOf(fee)
  <1> USE DEF Parts
  <1> DEFINE W == Running(whole)
             G == Running(gain)
             L == Running(loss)
             F == Running(fee)
             H == {i \in 0..n : W[i] = G[i] - L[i] - F[i]}
  <1>1. /\ W[0] = 0 /\ G[0] = 0 /\ L[0] = 0 /\ F[0] = 0
        /\ \A i \in 0..n : W[i] \in Int /\ G[i] \in Int /\ L[i] \in Int /\ F[i] \in Int
    BY RunningIs
  <1>2. ASSUME NEW i \in 1..n
        PROVE  /\ W[i] = W[i - 1] + whole[i] /\ G[i] = G[i - 1] + gain[i]
               /\ L[i] = L[i - 1] + loss[i] /\ F[i] = F[i - 1] + fee[i]
               /\ whole[i] \in Int /\ gain[i] \in Int /\ loss[i] \in Int /\ fee[i] \in Int
    BY <1>2, RunningIs DEF Numbers
  <1> HIDE DEF W, G, L, F
  <1>3. 0 \in H
    BY <1>1
  <1>4. ASSUME NEW i \in 0..n, i \in H, i < n
        PROVE  i + 1 \in H
    <2>1. i + 1 \in 1..n /\ i + 1 \in 0..n /\ (i + 1) - 1 = i
      BY <1>4
    <2>2. /\ W[i + 1] = W[i] + whole[i + 1] /\ G[i + 1] = G[i] + gain[i + 1]
          /\ L[i + 1] = L[i] + loss[i + 1] /\ F[i + 1] = F[i] + fee[i + 1]
      BY <1>2, <2>1
    <2>3. /\ W[i] \in Int /\ G[i] \in Int /\ L[i] \in Int /\ F[i] \in Int
          /\ whole[i + 1] \in Int /\ gain[i + 1] \in Int
          /\ loss[i + 1] \in Int /\ fee[i + 1] \in Int
      BY <1>1, <1>2, <2>1
    <2>4. W[i] = G[i] - L[i] - F[i]
      BY <1>4
    <2>5. whole[i + 1] = gain[i + 1] - loss[i + 1] - fee[i + 1]
      BY <2>1
    <2>6. W[i + 1] = G[i + 1] - L[i + 1] - F[i + 1]
      <3> DEFINE a == G[i]
                 b == L[i]
                 c == F[i]
                 x == gain[i + 1]
                 y == loss[i + 1]
                 z == fee[i + 1]
      <3>1. a \in Int /\ b \in Int /\ c \in Int /\ x \in Int /\ y \in Int /\ z \in Int
        BY <2>3
      <3>2. W[i + 1] = (a - b - c) + (x - y - z)
        BY <2>2, <2>4, <2>5
      <3> HIDE DEF a, b, c, x, y, z
      <3>3. (a - b - c) + (x - y - z) = (a + x) - (b + y) - (c + z)
        BY <3>1
      <3> QED
        BY <2>2, <3>2, <3>3, Zenon DEF a, b, c, x, y, z
    <2> QED
      BY <2>1, <2>6
  <1>5. H = 0..n
    <2>1. H \in SUBSET (0..n)
      OBVIOUS
    <2> HIDE DEF H
    <2> QED
      BY <1>3, <1>4, <2>1, UpTo
  <1>6. W[n] = G[n] - L[n] - F[n]
    BY <1>5
  <1> QED
    BY <1>6 DEF SumOf, W, G, L, F

LEMMA HigherIs ==
    ASSUME NEW x \in Int, NEW y \in Int
    PROVE  /\ Higher(x, y) \in Int /\ x <= Higher(x, y) /\ y <= Higher(x, y)
           /\ Higher(x, y) = x \/ Higher(x, y) = y
  BY DEF Higher

\* What is above zero less what is below it is the number itself.
LEMMA GainLessLoss ==
    ASSUME NEW x \in Int
    PROVE  Higher(0, x) - Higher(0, -x) = x
  BY DEF Higher
LEMMA WatermarksIs ==
    ASSUME NEW curve, NEW n \in Nat
    PROVE  LET level == Watermarks(curve, n)
           IN  /\ level[0] = [peak |-> 0, down |-> 0]
               /\ \A i \in 1..n :
                    LET peak == Higher(level[i - 1].peak, curve[i])
                    IN  level[i] = [peak |-> peak,
                                    down |-> Higher(level[i - 1].down, peak - curve[i])]
  <1> DEFINE Next0(x, y) == [peak |-> Higher(x.peak, y),
                             down |-> Higher(x.down, Higher(x.peak, y) - y)]
             Is(f, m) == f = [i \in 0..m |-> IF i = 0 THEN [peak |-> 0, down |-> 0]
                                             ELSE Next0(f[i - 1], curve[i])]
             H == {m \in 0..n : \E f : Is(f, m)}
             W == Watermarks(curve, n)
  <1>1. \A f : Is(f, n) <=>
          f = [i \in 0..n |->
                 IF i = 0 THEN [peak |-> 0, down |-> 0]
                 ELSE LET peak == Higher(f[i - 1].peak, curve[i])
                      IN  [peak |-> peak, down |-> Higher(f[i - 1].down, peak - curve[i])]]
    OBVIOUS
  <1>2. W = CHOOSE f : Is(f, n)
    BY DEF Watermarks
  <1> HIDE DEF Next0, W
  <1>3. 0 \in H
    <2>1. Is([i \in 0..0 |-> [peak |-> 0, down |-> 0]], 0)
      OBVIOUS
    <2> HIDE DEF Is
    <2> QED
      BY <2>1
  <1>4. ASSUME NEW m \in 0..n, m \in H, m < n
        PROVE  m + 1 \in H
    <2>1. PICK f : Is(f, m)
      BY <1>4
    <2> DEFINE g == [i \in 0..m + 1 |->
                       IF i = m + 1 THEN Next0(f[m], curve[m + 1]) ELSE f[i]]
    <2>2. ASSUME NEW i \in 0..m + 1
          PROVE  g[i] = IF i = 0 THEN [peak |-> 0, down |-> 0] ELSE Next0(g[i - 1], curve[i])
      BY <2>1, <1>4
    <2>3. Is(g, m + 1)
      BY <2>2
    <2>4. m + 1 \in 0..n
      BY <1>4
    <2> HIDE DEF g
    <2> QED
      BY <2>3, <2>4
  <1>5. n \in H
    <2>1. H \in SUBSET (0..n)
      OBVIOUS
    <2> HIDE DEF H
    <2> QED
      BY <1>3, <1>4, <2>1, UpTo
  <1>6. Is(W, n)
    <2>1. \E f : Is(f, n)
      BY <1>5
    <2> HIDE DEF Is
    <2> QED
      BY <1>2, <2>1
  <1>7. /\ W[0] = [peak |-> 0, down |-> 0]
        /\ \A i \in 1..n : W[i] = Next0(W[i - 1], curve[i])
    BY <1>6
  <1> QED
    BY <1>7 DEF Next0, W

\* The peak is the highest point up to i, the fall the deepest from an earlier one.
Peak(curve, i, peak) ==
    /\ peak \in Int
    /\ \E j \in 0..i : peak = curve[j]
    /\ \A j \in 0..i : curve[j] <= peak

Fall(curve, i, down) ==
    /\ down \in Int
    /\ \E j, k \in 0..i : j <= k /\ down = curve[j] - curve[k]
    /\ \A j, k \in 0..i : j <= k => curve[j] - curve[k] <= down

LEMMA PeakStep ==
    ASSUME NEW n \in Nat, NEW curve, \A i \in 0..n : curve[i] \in Int,
           NEW i \in 0..n, i < n, NEW peak, Peak(curve, i, peak)
    PROVE  Peak(curve, i + 1, Higher(peak, curve[i + 1]))
  <1> DEFINE new == Higher(peak, curve[i + 1])
  <1>1. peak \in Int /\ curve[i + 1] \in Int /\ i + 1 \in 0..i + 1
        /\ \A j \in 0..i + 1 : j \in 0..i \/ j = i + 1
    BY DEF Peak
  <1>2. new \in Int /\ peak <= new /\ curve[i + 1] <= new /\ (new = peak \/ new = curve[i + 1])
    BY <1>1, HigherIs
  <1> HIDE DEF new
  <1>3. \E j \in 0..i + 1 : new = curve[j]
    <2>1. PICK j \in 0..i : peak = curve[j]
      BY DEF Peak
    <2>2. j \in 0..i + 1
      OBVIOUS
    <2> QED
      BY <1>1, <1>2, <2>1, <2>2
  <1>4. ASSUME NEW j \in 0..i + 1
        PROVE  curve[j] <= new
    <2>1. CASE j \in 0..i
      <3>1. curve[j] <= peak /\ curve[j] \in Int
        BY <2>1 DEF Peak
      <3> QED
        BY <1>1, <1>2, <3>1
    <2> QED
      BY <1>1, <1>2, <2>1
  <1> QED
    BY <1>2, <1>3, <1>4 DEF Peak, new

LEMMA FallStep ==
    ASSUME NEW n \in Nat, NEW curve, \A i \in 0..n : curve[i] \in Int,
           NEW i \in 0..n, i < n, NEW peak, Peak(curve, i + 1, peak),
           NEW down, Fall(curve, i, down)
    PROVE  Fall(curve, i + 1, Higher(down, peak - curve[i + 1]))
  <1> DEFINE last == curve[i + 1]
             new == Higher(down, peak - last)
  <1>1. /\ peak \in Int /\ last \in Int /\ down \in Int /\ peak - last \in Int
        /\ i + 1 \in 0..i + 1
        /\ \A j \in 0..i + 1 : j \in 0..i \/ j = i + 1
    BY DEF Peak, Fall
  <1>2. new \in Int /\ down <= new /\ peak - last <= new /\ (new = down \/ new = peak - last)
    BY <1>1, HigherIs
  <1> HIDE DEF new
  <1>3. \E j, k \in 0..i + 1 : j <= k /\ new = curve[j] - curve[k]
    <2>1. CASE new = down
      <3>1. PICK j \in 0..i, k \in 0..i : j <= k /\ down = curve[j] - curve[k]
        BY DEF Fall
      <3>2. j \in 0..i + 1 /\ k \in 0..i + 1
        OBVIOUS
      <3> QED
        BY <2>1, <3>1, <3>2
    <2>2. CASE new = peak - last
      <3>1. PICK j \in 0..i + 1 : peak = curve[j]
        BY DEF Peak
      <3>2. j <= i + 1
        OBVIOUS
      <3> QED
        BY <1>1, <2>2, <3>1, <3>2
    <2> QED
      BY <1>2, <2>1, <2>2
  <1>4. ASSUME NEW j \in 0..i + 1, NEW k \in 0..i + 1, j <= k
        PROVE  curve[j] - curve[k] <= new
    <2>1. CASE k \in 0..i
      <3>1. j \in 0..i /\ j \in 0..n /\ k \in 0..n
        BY <1>4, <2>1
      <3>2. curve[j] - curve[k] <= down
        BY <1>4, <2>1, <3>1 DEF Fall
      <3>3. curve[j] \in Int /\ curve[k] \in Int
        BY <3>1
      <3>4. curve[j] - curve[k] \in Int
        BY <3>3
      <3> QED
        BY <1>1, <1>2, <3>2, <3>4
    <2>2. CASE k = i + 1
      <3>1. curve[j] <= peak /\ j \in 0..n
        BY DEF Peak
      <3>2. curve[j] \in Int
        BY <3>1
      <3>3. curve[j] - last <= peak - last /\ curve[j] - last \in Int
        BY <1>1, <3>1, <3>2
      <3> HIDE DEF last
      <3>4. curve[j] - last <= new
        BY <1>1, <1>2, <3>3
      <3> QED
        BY <2>2, <3>4 DEF last
    <2> QED
      BY <1>1, <2>1, <2>2
  <1> QED
    BY <1>2, <1>3, <1>4 DEF Fall, new

LEMMA WatermarksSound ==
    ASSUME NEW n \in Nat, NEW curve, \A i \in 0..n : curve[i] \in Int, curve[0] = 0
    PROVE  Fall(curve, n, Watermarks(curve, n)[n].down)
  <1> DEFINE W == Watermarks(curve, n)
             H == {i \in 0..n : Peak(curve, i, W[i].peak) /\ Fall(curve, i, W[i].down)}
  <1>1. /\ W[0] = [peak |-> 0, down |-> 0]
        /\ \A i \in 1..n :
             W[i] = [peak |-> Higher(W[i - 1].peak, curve[i]),
                     down |-> Higher(W[i - 1].down, Higher(W[i - 1].peak, curve[i]) - curve[i])]
    BY WatermarksIs
  <1> HIDE DEF W
  <1>2. 0 \in H
    <2>1. Peak(curve, 0, 0) /\ Fall(curve, 0, 0)
      BY DEF Peak, Fall
    <2> QED
      BY <1>1, <2>1
  <1>3. ASSUME NEW i \in 0..n, i \in H, i < n
        PROVE  i + 1 \in H
    <2>1. i + 1 \in 1..n /\ i + 1 \in 0..n /\ (i + 1) - 1 = i
      BY <1>3
    <2> DEFINE peak == Higher(W[i].peak, curve[i + 1])
    <2>2. W[i + 1] = [peak |-> peak, down |-> Higher(W[i].down, peak - curve[i + 1])]
      BY <1>1, <2>1
    <2>3. Peak(curve, i, W[i].peak) /\ Fall(curve, i, W[i].down)
      BY <1>3
    <2>4. Peak(curve, i + 1, peak)
      BY <1>3, <2>3, PeakStep
    <2> HIDE DEF peak, H
    <2>5. Fall(curve, i + 1, Higher(W[i].down, peak - curve[i + 1]))
      BY <1>3, <2>3, <2>4, FallStep
    <2> QED
      BY <2>1, <2>2, <2>4, <2>5 DEF H
  <1>4. H = 0..n
    <2>1. H \in SUBSET (0..n)
      OBVIOUS
    <2> HIDE DEF H
    <2> QED
      BY <1>2, <1>3, <2>1, UpTo
  <1> QED
    BY <1>4 DEF W

\* The figures of the report, from a list of closed trades.
LEMMA ReportFigures ==
    ASSUME NEW closed \in Seq(ClosedTrades)
    PROVE  LET m == Metrics(closed)
               equity == EquityCurve(closed)
           IN  /\ equity[Len(closed)] = m.netProfit
               /\ m.netProfit = m.grossProfit - m.grossLoss - m.fees
               /\ Fall(equity, Len(closed), m.maxDrawdown)
  <1> DEFINE n == Len(closed)
             all == 1..n
             gross == [i \in all |-> closed[i].gross]
             net == [i \in all |-> closed[i].net]
             fee == [i \in all |-> closed[i].fees]
             gain == [i \in all |-> Higher(0, gross[i])]
             loss == [i \in all |-> Higher(0, -gross[i])]
             m == Metrics(closed)
             equity == EquityCurve(closed)
  <1>1. n \in Nat
    OBVIOUS
  <1>2. ASSUME NEW i \in all
        PROVE  /\ closed[i].gross \in Int /\ closed[i].fees \in Int /\ closed[i].net \in Int
               /\ closed[i].net = closed[i].gross - closed[i].fees
    <2>1. closed[i] \in ClosedTrades
      OBVIOUS
    <2> QED
      BY <2>1 DEF ClosedTrades
  <1>3. /\ m.grossProfit = SumOf(gain) /\ m.grossLoss = SumOf(loss) /\ m.fees = SumOf(fee)
        /\ m.netProfit = SumOf(net) /\ m.maxDrawdown = MaxDrawdown(closed)
    BY Zenon DEF Metrics
  <1>4. equity = Running(net)
    BY DEF EquityCurve
  <1>5. /\ Len(net) = n /\ Len(fee) = n /\ Len(gain) = n /\ Len(loss) = n
    BY <1>1
  <1>6. ASSUME NEW i \in all
        PROVE  /\ net[i] \in Int /\ fee[i] \in Int /\ gain[i] \in Int /\ loss[i] \in Int
               /\ net[i] = gain[i] - loss[i] - fee[i]
    <2> DEFINE g == closed[i].gross
    <2>1. g \in Int /\ -g \in Int /\ 0 \in Int
      BY <1>2
    <2>2. gain[i] = Higher(0, g) /\ loss[i] = Higher(0, -g) /\ fee[i] = closed[i].fees
          /\ net[i] = closed[i].net /\ net[i] = g - closed[i].fees
      BY <1>2
    <2> HIDE DEF g, net, gain, loss, fee
    <2>3. Higher(0, g) \in Int /\ Higher(0, -g) \in Int
      BY <2>1, HigherIs
    <2>4. Higher(0, g) - Higher(0, -g) = g
      BY <2>1, GainLessLoss
    <2>5. closed[i].net \in Int /\ closed[i].fees \in Int
      BY <1>2
    <2> QED
      BY <2>2, <2>3, <2>4, <2>5
  <1> HIDE DEF net, fee, gain, loss, m, equity, n
  <1>7. Numbers(net) /\ Numbers(fee) /\ Numbers(gain) /\ Numbers(loss)
    BY <1>1, <1>5, <1>6 DEF Numbers
  <1>8. SumOf(net) = SumOf(gain) - SumOf(loss) - SumOf(fee)
    <2>1. \A i \in 1..n : net[i] = gain[i] - loss[i] - fee[i]
      BY <1>6
    <2>2. Parts(n, net, gain, loss, fee)
      BY <1>1, <1>5, <1>7, <2>1 DEF Parts
    <2> QED
      BY <2>2, SumOfParts
  <1>9. equity[n] = SumOf(net)
    BY <1>4, <1>5 DEF SumOf
  <1>10. Fall(equity, n, m.maxDrawdown)
    <2>1. equity[0] = 0 /\ \A i \in 0..n : equity[i] \in Int
      BY <1>4, <1>5, <1>7, RunningIs
    <2>2. Fall(equity, n, Watermarks(equity, n)[n].down)
      BY <1>1, <2>1, WatermarksSound
    <2>3. MaxDrawdown(closed) = Watermarks(equity, n)[n].down
      BY DEF MaxDrawdown, equity, n
    <2> QED
      BY <1>3, <2>2, <2>3
  <1> QED
    BY <1>3, <1>8, <1>9, <1>10 DEF m, equity, n

LEMMA ReportOfBook ==
    ASSUME CostsBite, BInv
    PROVE  ReportReconciles
  <1> DEFINE closed == account.trades
             m == Metrics(closed)
             equity == EquityCurve(closed)
  <1>1. closed \in Seq(ClosedTrades)
    BY DEF BInv, BookOK
  <1>2. /\ equity[Len(closed)] = m.netProfit
        /\ m.netProfit = m.grossProfit - m.grossLoss - m.fees
        /\ Fall(equity, Len(closed), m.maxDrawdown)
    BY <1>1, ReportFigures
  <1>3. ASSUME NEW i \in DOMAIN closed
        PROVE  closed[i].net <= (IF closed[i].side = "long" THEN 1 ELSE -1)
                 * (closed[i].canonical[2] - closed[i].canonical[1]) * Quantity * Unit * Unit
    <2>1. closed[i] \in ClosedTrades
      BY <1>1
    <2> QED
      BY <2>1 DEF ClosedTrades, Frictionless
  <1>4. ASSUME NEW i \in 2..Len(closed)
        PROVE  closed[i - 1].to < closed[i].from
    <2>1. i \in 1..Len(closed) /\ i # 1
      BY <1>1
    <2> QED
      BY <2>1 DEF BInv, BookOK
  <1> HIDE DEF closed, m, equity
  <1>5. /\ \E i, j \in 0..Len(closed) : i <= j /\ m.maxDrawdown = equity[i] - equity[j]
        /\ \A i, j \in 0..Len(closed) : i <= j => equity[i] - equity[j] <= m.maxDrawdown
    BY <1>2 DEF Fall
  <1> QED
    BY <1>2, <1>3, <1>4, <1>5, Zenon DEF ReportReconciles, closed, m, equity

-----------------------------------------------------------------------------
(* What holds of every backtest.                                           *)

\* The inductive invariant of the accounting holds throughout.
THEOREM BacktestBInv == BacktestSpec => []BInv
  <1>1. BInv /\ [BacktestNext]_<<vars, feed, books>> => BInv'
    BY BNext
  <1> QED
    BY BInit, <1>1, PTL DEF BacktestSpec

\* run_traces holds exactly the strategy's open trade: it refuses nothing that
\* a replay from the initial state emits, and of a resumed replay only the
\* close of the trade that was carried into it.
THEOREM BacktestAccountFollows == BacktestSpec => []AccountFollows
  BY BacktestBInv, PTL DEF BInv

\* The report reconciles.  That costs never help takes what the code leaves to
\* its callers: slippage_rate is only checked to be non-negative, and prices
\* are positive because the market data adapter refuses others.
THEOREM BacktestReportReconciles ==
    ASSUME CostsBite
    PROVE  BacktestSpec => []ReportReconciles
  <1>1. BInv => ReportReconciles
    BY ReportOfBook
  <1> QED
    BY <1>1, BacktestBInv, PTL
=============================================================================
