------------------------------ MODULE MCReplay ------------------------------
(* A small instance of Replay: two 15m candles in a 4h candle.             *)
EXTENDS Backtest

CONSTANT LastTime   \* bound on the finalization times offered

MCTimes == 1..LastTime

Q(o, h, l, c) == [open |-> o, high |-> h, low |-> l, close |-> c]

\* Every reading of a seeded or unseeded HEMA, either Kalman direction, with
\* and without an ATR, on a quiet bar and on one that reaches both stops.
MCBars ==
    {b \in [htf_bias: {"long", "short", None}, hema_direction: {"long", "short", None},
            hema_flip: BOOLEAN, kalman_direction: {"long", "short"},
            strategy_ready: {TRUE}, distance: {0, 1},
            quote: {Q(5, 5, 5, 5), Q(5, 6, 4, 5)}] :
        /\ b.hema_flip => b.hema_direction # None
        /\ b.distance = 0 => b.quote = Q(5, 5, 5, 5)}
=============================================================================
