----------------------------- MODULE MCStrategy -----------------------------
(* Small instances of Strategy for TLC.                                    *)
EXTENDS Strategy

CONSTANT LastTime   \* bound on the length of a run, in bars

MCTimes == 1..LastTime

Q(o, h, l, c) == [open |-> o, high |-> h, low |-> l, close |-> c]

Quiet == Q(5, 5, 5, 5)
Spike == Q(5, 6, 4, 5)                          \* reaches a long and a short stop
Gaps == {Q(3, 3, 2, 3), Q(7, 8, 7, 7)}          \* opens beyond a stop and stays there

\* The indicator readings of a bar: every direction, with and without a flip.
Readings ==
    {r \in [htf: {"long", "short", None}, hema: {"long", "short", None},
            flip: BOOLEAN, kalman: {"long", "short", None}] :
        r.flip => r.hema # None}

Bar(r, ready, distance, quote) ==
    [htf_bias |-> r.htf, hema_direction |-> r.hema, hema_flip |-> r.flip,
     kalman_direction |-> r.kalman, strategy_ready |-> ready,
     distance |-> distance, quote |-> quote]

\* Usable bars with every reading; bars without an ATR, and bars blocked by
\* data quality, which may also gap.
MCBars ==
    {Bar(r, TRUE, 1, q) : r \in Readings, q \in {Quiet, Spike}}
    \cup {Bar(r, TRUE, 0, Quiet) : r \in {x \in Readings : x.kalman = "long"}}
    \cup {Bar(r, FALSE, 1, q) :
            r \in {x \in Readings : x.kalman = "long"}, q \in {Quiet, Spike} \cup Gaps}
=============================================================================
