----------------------------- MODULE Indicators -----------------------------
(***************************************************************************)
(* The 15m indicators of a replay: HemaTrend (indicators/hema.py) and      *)
(* KalmanStep (indicators/kalman.py) on PineEMA, PineRMA and PineATR       *)
(* (indicators/moving_averages.py), with the na rules of pine.py.          *)
(*                                                                         *)
(* ReplayEngine.step keeps no indicator alive: it restores both from their *)
(* JSON checkpoints, updates them with one candle and dumps them again, so *)
(* a restart can happen between any two bars; one action is one such step. *)
(*                                                                         *)
(* Numbers are fixed point, a price of 1 being Scale, and a division       *)
(* rounds down where the code rounds to a float; no property depends on    *)
(* which.  The gaussian weights Drift = beta / period and V3 = alpha *     *)
(* period are in 1/Scale.                                                  *)
(***************************************************************************)
EXTENDS Integers, Sequences, FiniteSetsExt

CONSTANTS
    NA, Null,                \* numeric na, and what JSON has in its place
    FastLength, SlowLength,  \* of the two HEMAs
    AtrPeriod, Factor,       \* of the Supertrend
    V3, Drift, Scale,
    Quotes,                  \* the high, low, close a candle may have
    MaxBars                  \* bound on the number of candles

\* What ReplayConfig checks: lengths and periods are positive, and alpha, beta
\* and the factor are numbers of any sign.
LegalConfig ==
    /\ {FastLength, SlowLength, AtrPeriod, Scale} \subseteq Nat \ {0}
    /\ {V3, Drift, Factor} \subseteq Int

ASSUME ConfigAssumption == LegalConfig

\* Not checked by the code, which otherwise may divide by zero: the gain v4 of
\* the filter is a share, as alpha and beta are not negative and not both zero.
ASSUME GainAssumption == V3 >= 0 /\ Drift >= 0 /\ V3 + Drift > 0

ASSUME NaAssumption == NA \notin Int /\ Null \notin Int /\ NA # Null

\* HistoricalBar.
ASSUME QuoteAssumption ==
    \A q \in Quotes :
        /\ {q.high, q.low, q.close} \subseteq Int
        /\ q.low <= q.high

VARIABLES
    path,        \* history: the candles so far
    ltfHema,     \* ReplayState.ltf_hema_checkpoint
    ltfKalman,   \* ReplayState.ltf_kalman_checkpoint
    signals      \* what the last step handed to the strategy

vars == <<path, ltfHema, ltfKalman, signals>>

-----------------------------------------------------------------------------
(* pine.py: every comparison with na is false.                             *)

Known(a, b) == a # NA /\ b # NA

Gt(a, b) == Known(a, b) /\ a > b

Lt(a, b) == Known(a, b) /\ a < b

Nz(a) == IF a = NA THEN 0 ELSE a

Crossover(a, b, priorA, priorB) == Gt(a, b) /\ Known(priorA, priorB) /\ priorA <= priorB

Crossunder(a, b, priorA, priorB) == Crossover(b, a, priorB, priorA)

\* pine_round(sqrt(n)): ties cannot occur.
RoundedRoot(n) == Max({1} \cup {r \in 1..n : (2 * r - 1) * (2 * r - 1) <= 4 * n})

\* pine_round(n / 2): ties go up.
RoundedHalf(n) == Max({1, (n + 1) \div 2})

-----------------------------------------------------------------------------
(* PineEMA and PineRMA: the mean of the first length observations, then    *)
(* exponential smoothing with weight / whole; na sources are ignored.      *)

Sum(amounts) ==
    LET upTo[i \in 0..Len(amounts)] == IF i = 0 THEN 0 ELSE upTo[i - 1] + amounts[i]
    IN  upTo[Len(amounts)]

NewAverage(length) == [length |-> length, value |-> NA, seeds |-> <<>>, observations |-> 0]

\* Mutant: the average starts from its first observation.
Averaged_Unseeded(avg, source, weight, whole) ==
    IF source = NA THEN avg
    ELSE [avg EXCEPT !.observations = @ + 1,
                     !.value = IF avg.value = NA THEN source
                               ELSE (weight * source + (whole - weight) * @) \div whole]

Averaged(avg, source, weight, whole) ==
    LET seeds == Append(avg.seeds, source)
        next == [avg EXCEPT !.observations = @ + 1]
    IN  IF source = NA THEN avg
        ELSE IF avg.value # NA
        THEN [next EXCEPT !.value = (weight * source + (whole - weight) * @) \div whole]
        ELSE IF Len(seeds) < avg.length
        THEN [next EXCEPT !.seeds = seeds]
        ELSE [next EXCEPT !.seeds = <<>>,
                          !.value = Sum(seeds) \div avg.length]

EMA(avg, source) == Averaged(avg, source, 2, avg.length + 1)

RMA(avg, source) == Averaged(avg, source, 1, avg.length)

-----------------------------------------------------------------------------
(* HEMA and HemaTrend.                                                     *)

NewHEMA(length) ==
    [half |-> NewAverage(RoundedHalf(length)), full |-> NewAverage(length),
     final |-> NewAverage(RoundedRoot(length))]

HEMA(h, source) ==
    LET half == EMA(h.half, source)
        full == EMA(h.full, source)
        difference == IF Known(half.value, full.value) THEN 2 * half.value - full.value ELSE NA
    IN  [half |-> half, full |-> full, final |-> EMA(h.final, difference)]

NewHemaTrend ==
    [fast |-> NewHEMA(FastLength), slow |-> NewHEMA(SlowLength),
     previousFast |-> NA, previousSlow |-> NA]

HemaTrend(t, close) ==
    LET fast == HEMA(t.fast, close)
        slow == HEMA(t.slow, close)
    IN  [fast |-> fast, slow |-> slow,
         previousFast |-> fast.final.value, previousSlow |-> slow.final.value]

Relation(t) ==
    CASE ~Known(t.previousFast, t.previousSlow) -> "unavailable"
      [] Gt(t.previousFast, t.previousSlow) -> "above"
      [] Lt(t.previousFast, t.previousSlow) -> "below"
      [] OTHER -> "equal"

\* bullish_cross and bearish_cross: the new lines against the previous ones.
Flip(prior, t) ==
    IF Crossover(t.previousFast, t.previousSlow, prior.previousFast, prior.previousSlow) THEN "long"
    ELSE IF Crossunder(t.previousFast, t.previousSlow, prior.previousFast, prior.previousSlow)
    THEN "short" ELSE "none"

-----------------------------------------------------------------------------
(* PineATR, KalmanFilter and KalmanStep.                                   *)

NewATR == [rma |-> NewAverage(AtrPeriod), previousClose |-> NA]

TrueRange(q, previousClose) ==
    LET Abs(n) == IF n < 0 THEN -n ELSE n
    IN  Max({q.high - q.low} \cup
            IF previousClose = NA THEN {}
            ELSE {Abs(q.high - previousClose), Abs(q.low - previousClose)})

ATR(a, q) == [rma |-> RMA(a.rma, TrueRange(q, a.previousClose)), previousClose |-> q.close]

NewKalman == [v1 |-> NA, v2 |-> Scale, v4 |-> 0, v5 |-> NA, previousClose |-> NA]

\* The statements in Pine's order: v2 moves on the first bar, the estimate
\* starts on the second from the first close.
Kalman(f, close) ==
    LET v5 == IF f.v1 = NA THEN f.previousClose ELSE f.v1
        v4 == (Scale * f.v2) \div (f.v2 + V3)
    IN  [v1 |-> IF v5 = NA THEN NA ELSE v5 + (v4 * (close - v5)) \div Scale,
         v2 |-> ((Scale - v4) * f.v2) \div Scale + Drift,
         v4 |-> v4, v5 |-> v5, previousClose |-> close]

NewKalmanStep ==
    [kalman |-> NewKalman, atr |-> NewATR,
     previousK |-> NA, previousAtr |-> NA, previousLower |-> NA, previousUpper |-> NA,
     previousSupertrend |-> NA, previousDirection |-> NA]

Offset(k, distance) == IF Known(k, distance) THEN k + distance ELSE NA

\* Mutant: the estimate that may release the band is the new one.
LowerBand_NewEstimate(raw, previous, previousK, k) ==
    IF Gt(raw, previous) \/ Lt(k, previous) THEN raw ELSE previous

\* A band follows the raw one inwards, and outwards only after the previous
\* estimate had left it.
LowerBand(raw, previous, previousK, k) ==
    IF Gt(raw, previous) \/ Lt(previousK, previous) THEN raw ELSE previous

\* Mutant: a band that the estimate has left is kept.
UpperBand_Kept(raw, previous, previousK, k) ==
    IF Lt(raw, previous) \/ previous = 0 THEN raw ELSE previous

UpperBand(raw, previous, previousK, k) ==
    IF Lt(raw, previous) \/ Gt(previousK, previous) THEN raw ELSE previous

\* 1 is bearish.  The active band is told by the value of the Supertrend.
Direction(s, k, lower, upper) ==
    IF s.previousAtr = NA THEN 1
    ELSE IF s.previousSupertrend # NA /\ s.previousSupertrend = Nz(s.previousUpper)
    THEN IF Gt(k, upper) THEN -1 ELSE 1
    ELSE IF Lt(k, lower) THEN 1 ELSE -1

KalmanStep(s, q) ==
    LET kalman == Kalman(s.kalman, q.close)
        atr == ATR(s.atr, q)
        k == kalman.v1
        distance == IF atr.rma.value = NA THEN NA ELSE Factor * atr.rma.value
        minus == IF distance = NA THEN NA ELSE -distance
        lower == LowerBand(Offset(k, minus), Nz(s.previousLower), s.previousK, k)
        upper == UpperBand(Offset(k, distance), Nz(s.previousUpper), s.previousK, k)
        direction == Direction(s, k, lower, upper)
    IN  [kalman |-> kalman, atr |-> atr, previousK |-> k, previousAtr |-> atr.rma.value,
         previousLower |-> lower, previousUpper |-> upper,
         previousSupertrend |-> IF direction = -1 THEN lower ELSE upper,
         previousDirection |-> direction]

-----------------------------------------------------------------------------
(* Checkpoints: to_checkpoint with dumps_checkpoint, and back.             *)

\* _json_safe, which dumps_checkpoint applies to every number of a checkpoint,
\* and checkpoint_float, which from_checkpoint applies to those that may be na.
JsonSafe(n) == IF n = NA THEN Null ELSE n

Float(n) == IF n = Null THEN NA ELSE n

\* Mutant: observations collected for the seed are not part of a checkpoint.
AverageDump_NoSeeds(avg) == [avg EXCEPT !.value = JsonSafe(@), !.seeds = <<>>]

AverageDump(avg) ==
    [avg EXCEPT !.value = JsonSafe(@), !.seeds = [i \in DOMAIN @ |-> JsonSafe(@[i])]]

HEMADump(h) == [part \in DOMAIN h |-> AverageDump(h[part])]

HemaTrendDump(t) ==
    [fast |-> HEMADump(t.fast), slow |-> HEMADump(t.slow),
     previousFast |-> JsonSafe(t.previousFast), previousSlow |-> JsonSafe(t.previousSlow)]

ATRDump(a) == [rma |-> AverageDump(a.rma), previousClose |-> JsonSafe(a.previousClose)]

KalmanDump(f) == [field \in DOMAIN f |-> JsonSafe(f[field])]

KalmanStepDump(s) ==
    [kalman |-> KalmanDump(s.kalman), atr |-> ATRDump(s.atr),
     previousK |-> JsonSafe(s.previousK), previousAtr |-> JsonSafe(s.previousAtr),
     previousLower |-> JsonSafe(s.previousLower), previousUpper |-> JsonSafe(s.previousUpper),
     previousSupertrend |-> JsonSafe(s.previousSupertrend),
     previousDirection |-> JsonSafe(s.previousDirection)]

AverageRestored(avg) == [avg EXCEPT !.value = Float(@)]

HEMARestored(h) == [part \in DOMAIN h |-> AverageRestored(h[part])]

HemaTrendRestored(t) ==
    [fast |-> HEMARestored(t.fast), slow |-> HEMARestored(t.slow),
     previousFast |-> Float(t.previousFast), previousSlow |-> Float(t.previousSlow)]

ATRRestored(a) == [rma |-> AverageRestored(a.rma), previousClose |-> Float(a.previousClose)]

KalmanRestored(f) ==
    [v1 |-> Float(f.v1), v2 |-> f.v2, v4 |-> f.v4, v5 |-> Float(f.v5),
     previousClose |-> Float(f.previousClose)]

KalmanStepRestored(s) ==
    [kalman |-> KalmanRestored(s.kalman), atr |-> ATRRestored(s.atr),
     previousK |-> Float(s.previousK), previousAtr |-> Float(s.previousAtr),
     previousLower |-> Float(s.previousLower), previousUpper |-> Float(s.previousUpper),
     previousSupertrend |-> Float(s.previousSupertrend),
     previousDirection |-> Float(s.previousDirection)]

\* _validate_indicator with the length checks of from_checkpoint.
AverageValid(avg, length) ==
    /\ avg.length = length
    /\ avg.observations >= 0
    /\ \A i \in DOMAIN avg.seeds : avg.seeds[i] # Null

HEMAValid(h, length) ==
    /\ AverageValid(h.half, RoundedHalf(length))
    /\ AverageValid(h.full, length)
    /\ AverageValid(h.final, RoundedRoot(length))

HemaTrendValid(t) == HEMAValid(t.fast, FastLength) /\ HEMAValid(t.slow, SlowLength)

KalmanStepValid(s) ==
    /\ AverageValid(s.atr.rma, AtrPeriod)
    /\ s.kalman.v2 # Null /\ s.kalman.v4 # Null

-----------------------------------------------------------------------------
NoSignals == [relation |-> "unavailable", flip |-> "none", direction |-> 1, atr |-> NA]

Init ==
    /\ path = <<>>
    /\ ltfHema = HemaTrendDump(NewHemaTrend)
    /\ ltfKalman = KalmanStepDump(NewKalmanStep)
    /\ signals = NoSignals

\* ReplayEngine.step for a 15m candle, up to the strategy.
Step(q) ==
    LET prior == HemaTrendRestored(ltfHema)
        hema == HemaTrend(prior, q.close)
        kalman == KalmanStep(KalmanStepRestored(ltfKalman), q)
    IN  /\ Len(path) < MaxBars
        /\ path' = Append(path, q)
        /\ ltfHema' = HemaTrendDump(hema)
        /\ ltfKalman' = KalmanStepDump(kalman)
        /\ signals' = [relation |-> Relation(hema), flip |-> Flip(prior, hema),
                       direction |-> kalman.previousDirection, atr |-> kalman.previousAtr]

Next == \E q \in Quotes : Step(q)

Spec == Init /\ [][Next]_vars

-----------------------------------------------------------------------------
(* Properties.                                                             *)

\* run_hema_batch and run_kalman_batch keep one object for the whole series.
HemaBatch(candles) ==
    LET after[i \in 0..Len(candles)] ==
            IF i = 0 THEN NewHemaTrend ELSE HemaTrend(after[i - 1], candles[i].close)
    IN  after[Len(candles)]

KalmanBatch(candles) ==
    LET after[i \in 0..Len(candles)] ==
            IF i = 0 THEN NewKalmanStep ELSE KalmanStep(after[i - 1], candles[i])
    IN  after[Len(candles)]

\* A replay may stop and go on between any two bars: each checkpoint holds
\* exactly what an uninterrupted series has in memory, also while averages
\* are still collecting their seeds, and it is one the codec accepts.
Persistable ==
    /\ HemaTrendRestored(ltfHema) = HemaBatch(path)
    /\ KalmanStepRestored(ltfKalman) = KalmanBatch(path)
    /\ HemaTrendValid(ltfHema) /\ KalmanStepValid(ltfKalman)
    /\ HemaTrendDump(HemaTrendRestored(ltfHema)) = ltfHema
    /\ KalmanStepDump(KalmanStepRestored(ltfKalman)) = ltfKalman

WarmUp == Max({n + RoundedRoot(n) - 1 : n \in {FastLength, SlowLength}})

\* What Replay takes for granted of its indicators: the relation is there
\* from the bar the slow HEMA needs, never before and always after, the ATR
\* from its period on, and a flip is reported on exactly the bars on which
\* the relation becomes strict on a side it was not on before.
FeedsReplay ==
    [][ LET old == signals.relation  new == signals'.relation IN
        /\ new = "unavailable" <=> Len(path') < WarmUp
        /\ signals'.atr = NA <=> Len(path') < AtrPeriod
        /\ signals'.flip = "long" <=> new = "above" /\ old \in {"below", "equal"}
        /\ signals'.flip = "short" <=> new = "below" /\ old \in {"above", "equal"}
      ]_vars

Trend == KalmanStepRestored(ltfKalman)

\* Up to the first ATR, and on the two bars before the estimate has a past,
\* the bands are replaced na values (0).
Seeded == Len(path) > Max({AtrPeriod, 2})

\* Not checked by the code either: the lower raw band is the lower one.  With a
\* negative factor the bands change places, and neither of the next two
\* properties holds.
BandsInOrder == Factor >= 0

\* The estimate is on the side the direction says: not below the active band
\* of a bullish trend, not above that of a bearish one.
TrendSide ==
    Seeded => IF Trend.previousDirection = -1
              THEN Trend.previousK >= Trend.previousLower
              ELSE Trend.previousK <= Trend.previousUpper

\* A stop band never loosens while its trend lasts, and a trend only ends on
\* a bar whose estimate breaks the band that was active; where both bands had
\* met, the Supertrend no longer tells which one that was.
Ratchets ==
    [][ Seeded =>
        LET s == Trend  n == Trend' IN
        CASE s.previousDirection = -1 /\ n.previousDirection = -1 -> n.previousLower >= s.previousLower
          [] s.previousDirection = 1 /\ n.previousDirection = 1 -> n.previousUpper <= s.previousUpper
          [] s.previousDirection = 1 /\ n.previousDirection = -1 -> n.previousK > s.previousUpper
          [] s.previousDirection = -1 /\ n.previousDirection = 1 ->
                n.previousK < s.previousLower \/ s.previousLower = s.previousUpper
      ]_vars
=============================================================================
