------------------------ MODULE MCExitCounterfactual ------------------------
(* A small instance of ExitStudy: entry 10, stop 2 away (1R).      *)
EXTENDS ExitStudy

Q(o, h, l, c) == [open |-> o, high |-> h, low |-> l, close |-> c]

\* Offsets from the entry in the direction of a long trade; a short trade
\* sees the mirror image, and both see every quote.
Shape(o, h, l, c) == {Q(10 + o, 10 + h, 10 + l, 10 + c), Q(10 - o, 10 - l, 10 - h, 10 - c)}

\* Quiet; each target level just reached; a spike through everything; back to
\* the entry; to the stop; gaps beyond the entry, the stop and the targets;
\* opening against the trade and turning.
MCQuotes ==
    UNION {Shape(0, 1, -1, 1),
           Shape(1, 2, 1, 1), Shape(1, 4, 1, 3), Shape(0, 3, 0, 3), Shape(2, 8, 2, 6),
           Shape(0, 4, -2, -1), Shape(1, 6, -1, 5),
           Shape(-1, 1, -1, 0), Shape(-1, 0, -3, -3), Shape(-3, -3, -4, -3),
           Shape(-1, 4, -1, 2), Shape(5, 6, 5, 6)}
=============================================================================
