--------------------------- MODULE TradeLifecycle ---------------------------
(***************************************************************************)
(* What the strategy promises about one symbol, without saying how it      *)
(* decides: a single slot that is empty, holds an armed setup or holds an  *)
(* open trade.  Every trade is paid for by one HEMA flip, which is younger *)
(* than the previous trade's close; a close never opens or arms anything   *)
(* at the same time stamp; trade numbers are issued without gaps.          *)
(***************************************************************************)
EXTENDS Integers

CONSTANTS Times, Directions

VARIABLES
    slot,       \* the setup or trade of the symbol
    issued,     \* how many trades were opened
    closedAt,   \* when a trade was last closed (0: never)
    clock       \* the time of the last decision

vars == <<slot, issued, closedAt, clock>>

Empty == [phase |-> "empty"]

Armed(side, flip) == [phase |-> "armed", side |-> side, flip |-> flip]

Opened(side, flip) == [phase |-> "open", side |-> side, flip |-> flip]

Init == slot = Empty /\ issued = 0 /\ closedAt = 0 /\ clock = 0

\* A bar that leaves the slot as it is.
Pass == UNCHANGED <<slot, issued, closedAt>>

\* A flip may start something new in an empty slot, or replace a setup of the
\* opposite side; it never renews a setup of its own side.
Admits(side) == slot.phase = "empty" \/ (slot.phase = "armed" /\ slot.side # side)

\* A flip at time t arms a setup.
Arm(t) ==
    /\ \E side \in Directions : Admits(side) /\ slot' = Armed(side, t)
    /\ UNCHANGED <<issued, closedAt>>

\* The setup lapses.
Lapse ==
    /\ slot.phase = "armed"
    /\ slot' = Empty
    /\ UNCHANGED <<issued, closedAt>>

\* A trade opens on the armed setup's flip or on a flip of this very bar.
Enter(t) ==
    /\ \/ slot.phase = "armed" /\ slot' = Opened(slot.side, slot.flip)
       \/ \E side \in Directions : Admits(side) /\ slot' = Opened(side, t)
    /\ slot'.flip > closedAt
    /\ issued' = issued + 1
    /\ UNCHANGED closedAt

Exit(t) ==
    /\ slot.phase = "open"
    /\ slot' = Empty
    /\ closedAt' = t
    /\ UNCHANGED issued

Next ==
    \E t \in Times :
        /\ t > clock
        /\ clock' = t
        /\ Pass \/ Arm(t) \/ Lapse \/ Enter(t) \/ Exit(t)

Spec == Init /\ [][Next]_vars
=============================================================================
