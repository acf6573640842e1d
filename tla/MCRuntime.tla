----------------------------- MODULE MCRuntime -----------------------------
(* Small instances of Runtime for TLC.                                     *)
EXTENDS Runtime

Setting(backend, b15, b4, ceiling, kinds) ==
    [backend |-> backend, bootstrap15m |-> b15, bootstrap4h |-> b4,
     maxCatchUp |-> ceiling, kinds |-> kinds]

Backends == {"checkpoint", "combined"}

\* A ceiling as tight as the bootstrap with every failure, and a ceiling above
\* the horizon with the failures that report themselves.
MCSettings ==
    {Setting(b, 2, 2, 2, AllFaults) : b \in Backends}
    \cup {Setting(b, 3, 1, 9, AllFaults \ {"unreported"}) : b \in Backends}

\* One save fails.
MCSaveFails == {Setting(b, 1, 2, 9, {"save"}) : b \in Backends}
=============================================================================
