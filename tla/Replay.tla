------------------------------- MODULE Replay -------------------------------
(***************************************************************************)
(* ReplayEngine.step (replay/engine.py): one symbol's 15m and 4h candles,  *)
(* merged by finalization, drive the indicators and, for 15m candles, the  *)
(* strategy.  A candle is offered by its finalization time; the engine     *)
(* takes it only if its processing key is above the cursor.                *)
(*                                                                         *)
(* The indicators are abstracted to what the strategy reads of them: each  *)
(* HemaTrend to the relation of its fast to its slow line (the crossings   *)
(* follow from two successive relations), KalmanStep to its direction and  *)
(* to whether its ATR is usable.  Their arithmetic may produce any         *)
(* relation; once a line is seeded it stays available.                     *)
(***************************************************************************)
EXTENDS Strategy

CONSTANTS
    Ratio   \* 15m candles in a 4h candle

ASSUME RatioAssumption == Ratio \in Nat \ {0}

VARIABLES
    ltfRel, htfRel,   \* HemaRelation of the 15m and of the 4h HemaTrend
    latestBias,       \* ReplayState.latest_htf_bias
    cursor,           \* chronology_cursor: <<finalized_at, priority>>
    biasFrom, usedFrom  \* history: finalization of the 4h candle behind
                        \* latestBias, and behind the strategy's bias

feed == <<ltfRel, htfRel, latestBias, cursor, biasFrom, usedFrom>>

Relations == {"unavailable", "above", "below", "equal"}

\* _hema_direction.
HemaDirection(rel) ==
    CASE rel = "above" -> "long"
      [] rel = "below" -> "short"
      [] rel \in {"equal", "unavailable"} -> None

\* Mutation: a crossing needs the lines strictly on the other side before.
Crossing_Strict(prior, rel) ==
    \/ rel = "above" /\ prior = "below"
    \/ rel = "below" /\ prior = "above"

\* crossover / crossunder: strict now, not strict before, nothing on na.
Crossing(prior, rel) ==
    \/ rel = "above" /\ prior \in {"below", "equal"}
    \/ rel = "below" /\ prior \in {"above", "equal"}

\* Seeded averages ignore na sources and never become na again.
Follows(prior, rel) == prior # "unavailable" => rel # "unavailable"

\* Mutation: a 4h candle is ordered by its open time.
HtfKey_OpenTime(t) == <<t - Ratio, 0>>

\* processing_key: at one finalization the 4h candle comes first.
HtfKey(t) == <<t, 0>>

LtfKey(t) == <<t, 1>>

Before(k, l) == k[1] < l[1] \/ (k[1] = l[1] /\ k[2] < l[2])

ReplayInit ==
    /\ Init
    /\ ltfRel = "unavailable" /\ htfRel = "unavailable"
    /\ latestBias = None
    /\ cursor = <<0, 0>>
    /\ biasFrom = 0 /\ usedFrom = 0

\* A finalized 4h candle moves the bias and calls no strategy.
HtfStep(t, rel) ==
    /\ t % Ratio = 0
    /\ Before(cursor, HtfKey(t))
    /\ Follows(htfRel, rel)
    /\ htfRel' = rel
    /\ latestBias' = HemaDirection(rel)
    /\ biasFrom' = t
    /\ cursor' = HtfKey(t)
    /\ UNCHANGED <<ltfRel, usedFrom>>
    /\ UNCHANGED vars

\* The bar the engine hands to the strategy for a 15m candle.
Handed(b, rel) ==
    /\ b.htf_bias = latestBias
    /\ b.hema_direction = HemaDirection(rel)
    /\ b.hema_flip = Crossing(ltfRel, rel)
    /\ b.kalman_direction # None
    /\ b.strategy_ready

\* A finalized 15m candle updates its indicators and steps the strategy.
LtfStep(t, rel, b) ==
    /\ Before(cursor, LtfKey(t))
    /\ Follows(ltfRel, rel)
    /\ Handed(b, rel)
    /\ Step(b, t)
    /\ ltfRel' = rel
    /\ cursor' = LtfKey(t)
    /\ usedFrom' = biasFrom
    /\ UNCHANGED <<htfRel, latestBias, biasFrom>>

ReplayNext ==
    \E t \in Times, rel \in Relations :
        \/ HtfStep(t, rel)
        \/ \E b \in Bars : LtfStep(t, rel, b)

ReplaySpec == ReplayInit /\ [][ReplayNext]_<<vars, feed>>

-----------------------------------------------------------------------------
\* Type invariant of the replay cursor and of what it remembers.
ReplayTypeOK ==
    /\ ltfRel \in Relations
    /\ htfRel \in Relations
    /\ latestBias = HemaDirection(htfRel)
    /\ hema = HemaDirection(ltfRel)
    /\ cursor[1] \in Times \cup {0}
    /\ cursor[2] \in {0, 1}
    /\ biasFrom \in Times \cup {0}
    /\ usedFrom \in Times \cup {0}

\* A trade is never held against the 15m HEMA: whenever the lines change
\* sides, touching on the way or not, the indicator reports a flip that the
\* strategy takes for fresh, and the trade is closed on that bar.
HeldWithHema ==
    trade # None => hema # Opposite(trade.side)

\* No look-ahead: the bias behind a decision comes from a 4h candle finalized
\* by the time of the decision, and neither clock is ahead of the cursor.
NoLookAhead ==
    /\ usedFrom <= lastTs
    /\ lastTs <= cursor[1]
    /\ biasFrom <= cursor[1]
    /\ cursor[2] = 1 => lastTs = cursor[1] /\ usedFrom = biasFrom

\* Decisions are final: once a 15m candle was decided, no 4h candle that it
\* should have seen is taken any more.
DecisionsFinal ==
    [][biasFrom' # biasFrom => biasFrom' > lastTs]_<<vars, feed>>

\* Every 15m candle the cursor lets through is new to the strategy: the replay
\* never runs into the strategy's duplicate or out-of-order time stamps.
StrategyAccepts ==
    \A t \in Times : Before(cursor, LtfKey(t)) => lastTs < t
=============================================================================
