------------------------------- MODULE Runtime -------------------------------
(***************************************************************************)
(* LiveRuntime.poll_once (runtime/engine.py): which candles a poll asks    *)
(* for, in which order they reach the replay engine and the store, and     *)
(* what is left in memory and on disk when a fetch, a save or the process  *)
(* fails.                                                                  *)
(*                                                                         *)
(* The unit of time is 15 minutes.  A replay state is what the candles     *)
(* stepped so far made of it, so it is modelled by their sequence, its     *)
(* log.  A fetch either returns the whole range it was asked for or the    *)
(* poll fails (retries, pages and their validation are inside the fetch).  *)
(***************************************************************************)
EXTENDS Integers, Sequences

CONSTANTS
    Ratio,          \* 15m candles in a 4h candle
    Settings,       \* the configurations to consider
    Horizon,        \* bound on the clock
    MaxFaults       \* bound on the number of failures

AllFaults == {"fetch", "save", "unreported", "crash", "setback"}

ASSUME RatioAssumption == Ratio \in Nat \ {0}

\* RuntimeConfig, with the store it runs on (CheckpointStore or
\* Phase6TransitionStore) and the failures that may happen to it.
LegalSetting(s) ==
    /\ s.backend \in {"checkpoint", "combined"}
    /\ {s.bootstrap15m, s.bootstrap4h, s.maxCatchUp} \subseteq Nat \ {0}
    /\ s.bootstrap15m <= s.maxCatchUp /\ s.bootstrap4h <= s.maxCatchUp
    /\ s.kinds \subseteq AllFaults

ASSUME SettingsAssumption == \A s \in Settings : LegalSetting(s)

ASSUME BoundsAssumption == Horizon \in Nat /\ MaxFaults \in Nat

VARIABLES
    setting,    \* the configuration in use (fixed)
    now,        \* Clock.now_ms
    store,      \* the log of the durable replay state; <<>>: no row
    mem,        \* _loaded, the log of _state, _bootstrap_pending
    poll,       \* the poll in progress: where it is and its local variables
    delivered,  \* history: the candles that poll results returned to the caller
    window,     \* history: the first 15m candle the first bootstrap asked for
    faults      \* how many failures happened

vars == <<setting, now, store, mem, poll, delivered, window, faults>>

-----------------------------------------------------------------------------
(* Candles and their order.                                                *)

Frames == {"15m", "4h"}

Duration(f) == IF f = "15m" THEN 1 ELSE Ratio

\* Mutant: at one finalization the 15m candle comes first.
Priority_15mFirst(f) == IF f = "15m" THEN 0 ELSE 1

Priority(f) == IF f = "4h" THEN 0 ELSE 1

Candle(f, open) == [frame |-> f, open |-> open]

FinalizedAt(c) == c.open + Duration(c.frame)

ProcessingKey(c) == <<FinalizedAt(c), Priority(c.frame)>>

Before(k, l) == k[1] < l[1] \/ (k[1] = l[1] /\ k[2] < l[2])

Start == <<0, 0>>   \* below every key: chronology_cursor is None

Cursor(log) == IF log = <<>> THEN Start ELSE ProcessingKey(log[Len(log)])

-----------------------------------------------------------------------------
(* What a poll asks for.                                                   *)

Larger(m, n) == IF m >= n THEN m ELSE n

CurrentOpen(f, at) == (at \div Duration(f)) * Duration(f)

\* Mutant: the candle that is still open counts as finalized.
Latest_IncludesOpen(f, at) == CurrentOpen(f, at)

\* The last finalized open time, negative while there is none.
Latest(f, at) == CurrentOpen(f, at) - Duration(f)

BootstrapCount(f) == IF f = "15m" THEN setting.bootstrap15m ELSE setting.bootstrap4h

BootstrapFirst(f, at) == Larger(0, Latest(f, at) - (BootstrapCount(f) - 1) * Duration(f))

FirstUnconsumedOpen(f, cursor) ==
    LET d == Duration(f)
        boundary == ((cursor[1] + d - 1) \div d) * d
        final == IF boundary = cursor[1] /\ Priority(f) <= cursor[2]
                 THEN boundary + d ELSE boundary
    IN  IF cursor = Start THEN 0 ELSE Larger(0, final - d)

\* One consumed candle is asked for again where there is one.
ResumeFirst(f, at, cursor) ==
    LET overlap == Larger(0, FirstUnconsumedOpen(f, cursor) - Duration(f))
    IN  IF overlap > Latest(f, at) THEN Latest(f, at) ELSE overlap

First(f) ==
    IF mem.bootstrap THEN BootstrapFirst(f, poll.at)
    ELSE ResumeFirst(f, poll.at, Cursor(mem.log))

Opens(f) ==
    IF Latest(f, poll.at) < 0 THEN {}
    ELSE {o \in First(f)..Latest(f, poll.at) : o % Duration(f) = 0}

Requested(f) == {Candle(f, o) : o \in Opens(f)}

\* The ceiling on new candles; a consumed one that is asked for again is free.
Allowed(f) ==
    IF ~mem.bootstrap /\ Opens(f) # {} /\ First(f) < FirstUnconsumedOpen(f, Cursor(mem.log))
    THEN setting.maxCatchUp + 1 ELSE setting.maxCatchUp

Count(f) == IF Opens(f) = {} THEN 0 ELSE (Latest(f, poll.at) - First(f)) \div Duration(f) + 1

\* Mutant: the cursor is compared by finalization time only.
Remaining_ByTime == {c \in poll.batch : Cursor(mem.log)[1] < FinalizedAt(c)}

\* What is left to process, and the candle that comes first.
Remaining == {c \in poll.batch : Before(Cursor(mem.log), ProcessingKey(c))}

Earliest(candles) ==
    CHOOSE c \in candles :
        \A d \in candles : c = d \/ Before(ProcessingKey(c), ProcessingKey(d))

-----------------------------------------------------------------------------
(* The stores.                                                             *)

\* SQLiteExecutionStore compares whole states: the prior one must be durable,
\* unless the new one already is.  SQLiteCheckpointStore only refuses to regress.
Accepts(log, c) ==
    IF setting.backend = "combined" THEN store = log \/ store = Append(log, c)
    ELSE ~Before(ProcessingKey(c), Cursor(store))

-----------------------------------------------------------------------------
(* Actions.                                                                *)

Idle == [pc |-> "idle", at |-> 0, batch |-> {}, done |-> <<>>]

Unloaded == [loaded |-> FALSE, log |-> <<>>, bootstrap |-> FALSE]

Init ==
    /\ setting \in Settings
    /\ now \in 0..Horizon
    /\ store = <<>>
    /\ mem = Unloaded
    /\ poll = Idle
    /\ delivered = {}
    /\ window = -1
    /\ faults = 0

Fault(kind) ==
    /\ kind \in setting.kinds /\ faults < MaxFaults
    /\ faults' = faults + 1

Tick == now < Horizon /\ now' = now + 1 /\ UNCHANGED <<setting, store, mem, poll, delivered, window, faults>>

\* The wall clock is set back.
SetBack ==
    /\ Fault("setback")
    /\ now > 0 /\ now' = now - 1
    /\ UNCHANGED <<setting, store, mem, poll, delivered, window>>

\* poll_once reads the clock once; the first poll of a process reads the store.
Begin ==
    /\ poll.pc = "idle"
    /\ poll' = [Idle EXCEPT !.pc = "15m", !.at = now]
    /\ mem' = IF mem.loaded THEN mem
              ELSE [loaded |-> TRUE, log |-> store, bootstrap |-> store = <<>>]
    /\ UNCHANGED <<setting, now, store, delivered, window, faults>>

\* Both feeds are fetched before the first candle of either is processed.
Fetch(f) ==
    /\ poll.pc = f
    /\ Count(f) <= Allowed(f)
    /\ poll' = [poll EXCEPT !.pc = IF f = "15m" THEN "4h" ELSE "process",
                            !.batch = @ \cup Requested(f)]
    /\ window' = IF window = -1 /\ f = "15m" /\ mem.bootstrap /\ Opens(f) # {}
                 THEN First(f) ELSE window
    /\ UNCHANGED <<setting, now, store, mem, delivered, faults>>

\* MarketDataGapError: the range is longer than max_catch_up_bars.
TooFarBehind(f) ==
    /\ poll.pc = f
    /\ Count(f) > Allowed(f)
    /\ poll' = Idle
    /\ UNCHANGED <<setting, now, store, mem, delivered, window, faults>>

\* The fetch raises: no candle of this poll was processed.
FetchFails(f) ==
    /\ Fault("fetch")
    /\ poll.pc = f
    /\ poll' = Idle
    /\ UNCHANGED <<setting, now, store, mem, delivered, window>>

Processing == poll.pc = "process" /\ Remaining # {}

\* The earliest candle is stepped, made durable, and then remembered.
Save ==
    LET c == Earliest(Remaining)
    IN  /\ Processing
        /\ Accepts(mem.log, c)
        /\ store' = Append(mem.log, c)
        /\ mem' = [mem EXCEPT !.log = Append(@, c)]
        /\ poll' = [poll EXCEPT !.done = Append(@, c)]
        /\ UNCHANGED <<setting, now, delivered, window, faults>>

\* Mutant: a bootstrap that was cut short is begun again.
Abort_BootstrapKept ==
    /\ poll' = Idle
    /\ UNCHANGED <<setting, now, mem, delivered, window>>

\* Mutant: memory returns to where it was when the poll began.
Abort_ForgetsProcessed ==
    /\ mem' = [mem EXCEPT !.bootstrap = @ /\ poll.done = <<>>,
                          !.log = SubSeq(@, 1, Len(@) - Len(poll.done))]
    /\ poll' = Idle
    /\ UNCHANGED <<setting, now, delivered, window>>

\* poll_once raises because of an Exception; a KeyboardInterrupt, which is none,
\* ends the process as Crash does.  Memory stays at the last candle known to be durable, and
\* a bootstrap that made one durable is not begun again.
Abort ==
    /\ mem' = [mem EXCEPT !.bootstrap = @ /\ poll.done = <<>>]
    /\ poll' = Idle
    /\ UNCHANGED <<setting, now, delivered, window>>

SaveFails ==
    /\ Fault("save")
    /\ Processing
    /\ Abort
    /\ UNCHANGED store

\* The candle became durable, but the save raised.
SaveUnreported ==
    LET c == Earliest(Remaining)
    IN  /\ Fault("unreported")
        /\ Processing
        /\ Accepts(mem.log, c)
        /\ store' = Append(mem.log, c)
        /\ Abort

\* The store refuses the transition.
SaveRefused ==
    /\ Processing
    /\ ~Accepts(mem.log, Earliest(Remaining))
    /\ Abort
    /\ UNCHANGED <<store, faults>>

\* RuntimePollResult.
Return ==
    /\ poll.pc = "process" /\ Remaining = {}
    /\ mem' = [mem EXCEPT !.bootstrap = @ /\ poll.done = <<>>]
    /\ delivered' = delivered \cup {poll.done[i] : i \in DOMAIN poll.done}
    /\ poll' = Idle
    /\ UNCHANGED <<setting, now, store, window, faults>>

Crash ==
    /\ Fault("crash")
    /\ mem.loaded
    /\ mem' = Unloaded
    /\ poll' = Idle
    /\ UNCHANGED <<setting, now, store, delivered, window>>

Next ==
    \/ Tick \/ SetBack \/ Begin
    \/ \E f \in Frames : Fetch(f) \/ TooFarBehind(f) \/ FetchFails(f)
    \/ Save \/ SaveFails \/ SaveUnreported \/ SaveRefused
    \/ Return \/ Crash

Spec == Init /\ [][Next]_vars

\* The caller polls again after every result and after every error, and a poll
\* that is not made to fail goes on.
Fairness ==
    /\ WF_vars(Begin) /\ WF_vars(Save) /\ WF_vars(SaveRefused) /\ WF_vars(Return)
    /\ \A f \in Frames : WF_vars(Fetch(f)) /\ WF_vars(TooFarBehind(f))

FairSpec == Spec /\ Fairness

-----------------------------------------------------------------------------
(* Properties.                                                             *)

Candles == UNION {{Candle(f, o) : o \in {n \in 0..Horizon : n % Duration(f) = 0}} : f \in Frames}

Members(log) == {log[i] : i \in DOMAIN log}

\* Type invariant of the runtime, its poll and the durable log.
TypeOK ==
    /\ setting \in Settings
    /\ now \in 0..Horizon
    /\ store \in Seq(Candles)
    /\ mem.loaded \in BOOLEAN /\ mem.bootstrap \in BOOLEAN /\ mem.log \in Seq(Candles)
    /\ poll.pc \in {"idle", "15m", "4h", "process"}
    /\ poll.at \in 0..Horizon /\ poll.batch \subseteq Candles /\ poll.done \in Seq(Candles)
    /\ delivered \subseteq Candles
    /\ window \in -1..Horizon
    /\ faults \in 0..MaxFaults

\* The durable log takes candles in processing order and skips none: however
\* polls are cut short, retried or late, the candles of a timeframe follow each
\* other without a hole and without a repetition.
NoGaps ==
    \A i, j \in DOMAIN store : i < j =>
        /\ Before(ProcessingKey(store[i]), ProcessingKey(store[j]))
        /\ store[i].frame = store[j].frame =>
            \/ store[j].open = store[i].open + Duration(store[i].frame)
            \/ \E m \in i + 1..j - 1 : store[m].frame = store[i].frame

\* Once 4h candles are being taken, a 15m candle is taken only after every 4h
\* candle that was final by then.
BiasComplete ==
    \A i, j \in DOMAIN store :
        (i < j /\ store[i].frame = "4h" /\ store[j].frame = "15m") =>
            \A open \in store[i].open..FinalizedAt(store[j]) - Ratio :
                open % Ratio = 0 => \E m \in 1..j - 1 : store[m] = Candle("4h", open)

\* Memory and output never run ahead of the disk, and stay at most one candle
\* behind it; a bootstrap is pending exactly while nothing was taken.
MemoryDurable ==
    /\ \A i \in DOMAIN mem.log : i \in DOMAIN store /\ store[i] = mem.log[i]
    /\ mem.loaded => Len(store) <= Len(mem.log) + 1
    /\ delivered \subseteq Members(store)
    /\ mem.loaded /\ poll.pc # "process" => (mem.bootstrap <=> mem.log = <<>>)

\* Only closed candles are taken: final by the clock reading of the poll.
ClosedOnly ==
    [][store' # store => Cursor(store')[1] <= poll.at]_vars

\* The durable log reaches the last candle that is final now.
Current == now = 0 \/ ~Before(Cursor(store), <<now, 1>>)

\* No range is above the ceiling, and a save that raises was not made durable.
Lenient == setting.maxCatchUp > Horizon /\ "unreported" \notin setting.kinds

\* Once failures stop, polling catches up with the clock and stays there: no
\* failed fetch or save, restart or clock correction leaves the runtime asking
\* for a range that the store then refuses for ever.
CatchesUp == Lenient => <>[]Current

\* Everything a runtime took was in the result of some poll.
AllDelivered == poll.pc = "idle" => Members(store) \subseteq delivered

\* A fresh runtime takes exactly the configured suffix of 15m candles and no
\* older ones.
ExactSuffix ==
    \A c \in Members(store) : c.frame = "15m" => window # -1 /\ c.open >= window
=============================================================================
