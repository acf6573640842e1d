------------------------------ MODULE Execution ------------------------------
(***************************************************************************)
(* The paper-execution boundary: the ledger of PaperExecutionEngine, the   *)
(* independently kept state of PaperExecutionAdapter, the combined         *)
(* checkpoint row of SQLiteExecutionStore, and the runtimes that feed it   *)
(* finalized candles and may crash, lose a reply or share the database.    *)
(*                                                                         *)
(* A candle is named by its place in the processing order, and what the    *)
(* strategy would do at it is fixed by feed, so ReplayEngine.step is a     *)
(* function of the state.  A trade is named by the candle that opened it   *)
(* (side, price and quantity are functions of that).  The strategy acts at *)
(* most once per candle (Strategy!NoSameBarReversal), so a candle is also  *)
(* the decision slot, the intent, the order and the fill derived from it.  *)
(***************************************************************************)
EXTENDS Integers, Sequences

CONSTANTS
    None,           \* no trade, no order, no intent
    Unloaded,       \* the memory of a runtime that has not read a checkpoint
    LastCandle,     \* bound: how many finalized candles there are
    Runtimes,       \* the processes polling with this database
    Decisions,      \* the PaperDecision policies to consider
    MaxFaults       \* bound: how often a process crashes or loses a reply

Candles == 1..LastCandle
AllDecisions == {"accept_fill", "accept_only", "reject", "defer"}
Signals == {"quiet", "open", "stop", "exit"}
Statuses == {"new", "accepted", "filled", "rejected"}
EventTypes == {"accepted", "rejected", "filled"}

ASSUME BoundsAssumption == LastCandle \in Nat /\ MaxFaults \in Nat
ASSUME RuntimesAssumption == Runtimes # {}
ASSUME DecisionsAssumption == Decisions \subseteq AllDecisions

VARIABLES
    feed,       \* the strategy's wish at each candle (fixed)
    decision,   \* PaperExecutionConfig.decision (fixed)
    db,         \* the execution_checkpoints row of the symbol
    mem,        \* LiveRuntime._state of each runtime
    faults      \* how many faults happened

vars == <<feed, decision, db, mem, faults>>

-----------------------------------------------------------------------------
(* The replay state and its step                                           *)

Initial == [cursor |-> 0, trade |-> None]

ReplayStates == [cursor : 0..LastCandle, trade : Candles \cup {None}]

\* The candle after the cursor of s.
Upcoming(s) == s.cursor + 1

Intents == [type : {"entry", "exit", "stop"}, trade : Candles]

\* The intent of the next candle's executable event.  A stop is announced by
\* STOP_HIT and TRADE_CLOSED; only the second one becomes an intent.
IntentAt(s) ==
    LET k == Upcoming(s)
    IN  CASE s.trade = None /\ feed[k] = "open" -> [type |-> "entry", trade |-> k]
          [] s.trade # None /\ feed[k] \in {"stop", "exit"} ->
                [type |-> feed[k], trade |-> s.trade]
          [] OTHER -> None

PositionAfter(position, intent) ==
    IF intent = None THEN position
    ELSE IF intent.type = "entry" THEN intent.trade ELSE None

Step(s) == [cursor |-> Upcoming(s), trade |-> PositionAfter(s.trade, IntentAt(s))]

-----------------------------------------------------------------------------
(* Books: what the ledger and the adapter keep alike.  A book's orders are *)
(* indexed by the candle whose decision they carry out.                    *)

Orders == [intent : Intents, status : Statuses]

\* An order as PaperTrading sees it: to open a trade or to close it.
Pledges == [opens : BOOLEAN, trade : Candles]

ASSUME NoneAssumption ==
    /\ None \notin Candles /\ None \notin Intents /\ None \notin Orders /\ None \notin Pledges
    /\ Unloaded \notin ReplayStates

HasStatus(book, k, status) == book.orders[k] # None /\ book.orders[k].status \in status

WithStatus(book, k, status) ==
    [book EXCEPT !.orders[k].status = status]

\* _apply_fill refuses an entry in position and an exit of another trade.
FillFits(book, k) ==
    LET intent == book.orders[k].intent
    IN  book.position = IF intent.type = "entry" THEN None ELSE intent.trade

Filled(book, k) ==
    [WithStatus(book, k, "filled") EXCEPT
        !.fills = Append(@, k),
        !.position = PositionAfter(@, book.orders[k].intent)]

\* A new order; an order already there is left alone.
Registered(book, k, intent) ==
    IF book.orders[k] = None
    THEN [book EXCEPT !.orders[k] = [intent |-> intent, status |-> "new"]]
    ELSE book

-----------------------------------------------------------------------------
(* The ledger's reaction to an adapter event: late news is ignored.        *)

LedgerAdmits(ledger, e) ==
    CASE e.type = "accepted" -> HasStatus(ledger, e.order, {"new", "accepted", "filled"})
      [] e.type = "rejected" -> HasStatus(ledger, e.order, {"new", "rejected"})
      [] e.type = "filled" ->
            \/ HasStatus(ledger, e.order, {"filled"})
            \/ HasStatus(ledger, e.order, {"accepted"}) /\ FillFits(ledger, e.order)

\* Mutant: a late acceptance is applied to an order that is already filled.
LedgerApply_LateAccept(ledger, e) ==
    CASE e.type = "accepted" /\ HasStatus(ledger, e.order, {"new", "filled"}) ->
            WithStatus(ledger, e.order, "accepted")
      [] e.type = "rejected" /\ HasStatus(ledger, e.order, {"new"}) ->
            WithStatus(ledger, e.order, "rejected")
      [] e.type = "filled" /\ HasStatus(ledger, e.order, {"accepted"}) ->
            Filled(ledger, e.order)
      [] OTHER -> ledger

LedgerApply(ledger, e) ==
    CASE e.type = "accepted" /\ HasStatus(ledger, e.order, {"new"}) ->
            WithStatus(ledger, e.order, "accepted")
      [] e.type = "rejected" /\ HasStatus(ledger, e.order, {"new"}) ->
            WithStatus(ledger, e.order, "rejected")
      [] e.type = "filled" /\ HasStatus(ledger, e.order, {"accepted"}) ->
            Filled(ledger, e.order)
      [] OTHER -> ledger

-----------------------------------------------------------------------------
(* The adapter's reaction: strict transitions, but a repeated event of the *)
(* same deterministic identity is a no-op.                                 *)

Known(adapter, e) == \E i \in DOMAIN adapter.events : adapter.events[i] = e

AdapterAdmits(adapter, e) ==
    \/ Known(adapter, e)
    \/ e.type \in {"accepted", "rejected"} /\ HasStatus(adapter, e.order, {"new"})
    \/ e.type = "filled" /\ HasStatus(adapter, e.order, {"accepted"}) /\ FillFits(adapter, e.order)

\* Mutant: a repeated event is applied again.
AdapterApply_Repeats(adapter, e) ==
    [ (IF e.type = "filled" THEN Filled(adapter, e.order)
       ELSE WithStatus(adapter, e.order, e.type))
      EXCEPT !.events = Append(@, e)]

\* Mutant: a rejection changes the order but is not recorded as an event.
AdapterApply_RejectionUnrecorded(adapter, e) ==
    IF Known(adapter, e) THEN adapter
    ELSE IF e.type = "rejected" THEN WithStatus(adapter, e.order, e.type)
    ELSE [ (IF e.type = "filled" THEN Filled(adapter, e.order)
            ELSE WithStatus(adapter, e.order, e.type))
           EXCEPT !.events = Append(@, e)]

AdapterApply(adapter, e) ==
    IF Known(adapter, e) THEN adapter
    ELSE [ (IF e.type = "filled" THEN Filled(adapter, e.order)
            ELSE WithStatus(adapter, e.order, e.type))
           EXCEPT !.events = Append(@, e)]

Event(k, type) == [order |-> k, type |-> type]

\* Both books after one event.
Told(books, e) ==
    [ledger |-> LedgerApply(books.ledger, e), adapter |-> AdapterApply(books.adapter, e)]

-----------------------------------------------------------------------------
(* One candle through the store                                            *)

\* Mutant: an accepted order that is not filled yet does not block.
Unresolved_OnlyNew(ledger) == \E k \in Candles : HasStatus(ledger, k, {"new"})

Unresolved(ledger) == \E k \in Candles : HasStatus(ledger, k, {"new", "accepted"})

Refused(ledger) == \E k \in Candles : HasStatus(ledger, k, {"rejected"})

\* The order of candle k, registered on both sides and answered at once as the
\* policy says.
Submitted(books, k, intent) ==
    LET new == [ledger |-> Registered(books.ledger, k, intent),
                adapter |-> Registered(books.adapter, k, intent)]
        accepted == Told(new, Event(k, "accepted"))
    IN  CASE decision = "defer" -> new
          [] decision = "accept_only" -> accepted
          [] decision = "reject" -> Told(new, Event(k, "rejected"))
          [] decision = "accept_fill" -> Told(accepted, Event(k, "filled"))

\* Only the fill of an immediate policy can be refused.
Executable(row, intent) ==
    (intent # None /\ decision = "accept_fill") =>
        row.ledger.position = IF intent.type = "entry" THEN None ELSE intent.trade

Transition(row) ==
    LET s == Step(row.state)
        intent == IntentAt(row.state)
        old == [ledger |-> row.ledger, adapter |-> row.adapter]
        new == IF intent = None THEN old ELSE Submitted(old, s.cursor, intent)
    IN  [state |-> s,
         ledger |-> [new.ledger EXCEPT !.cursor = s.cursor],
         adapter |-> [new.adapter EXCEPT !.cursor = s.cursor]]

\* The same candle again is recognised by the state it leads to, and must ask
\* for what the ledger already holds.
SameDecision(ledger, s) ==
    IntentAt(s) = None
        \/ (ledger.orders[Upcoming(s)] # None
            /\ ledger.orders[Upcoming(s)].intent = IntentAt(s))

-----------------------------------------------------------------------------
(* Actions                                                                 *)

EmptyBook == [orders |-> [k \in Candles |-> None], fills |-> <<>>, position |-> None, cursor |-> 0]

EmptyAdapter ==
    [orders |-> EmptyBook.orders, fills |-> <<>>, position |-> None, cursor |-> 0, events |-> <<>>]

\* A database without a row reads as the initial replay state, and the first
\* transition from it starts with empty books.
Init ==
    /\ feed \in [Candles -> Signals]
    /\ decision \in Decisions
    /\ db = [state |-> Initial, ledger |-> EmptyBook, adapter |-> EmptyAdapter]
    /\ mem = [r \in Runtimes |-> Unloaded]
    /\ faults = 0

\* Mutant: a restarted process starts from the initial state.
Load_Fresh(r) ==
    /\ mem[r] = Unloaded
    /\ mem' = [mem EXCEPT ![r] = Initial]
    /\ UNCHANGED <<feed, decision, db, faults>>

\* The first poll of a process reads the checkpoint, and no later poll does.
Load(r) ==
    /\ mem[r] = Unloaded
    /\ mem' = [mem EXCEPT ![r] = db.state]
    /\ UNCHANGED <<feed, decision, db, faults>>

Ready(r) == mem[r] # Unloaded /\ Upcoming(mem[r]) \in Candles

\* A save that finds its prior state durable and nothing outstanding.
Transaction(r) ==
    /\ Ready(r)
    /\ db.state = mem[r]
    /\ ~Unresolved(db.ledger) /\ ~Refused(db.ledger)
    /\ Executable(db, IntentAt(db.state))
    /\ db' = Transition(db)

\* Mutant: the memory advances whether or not the transaction takes effect.
Save_BeforeDurable(r) ==
    /\ Ready(r)
    /\ db.state = mem[r]
    /\ Transaction(r) \/ UNCHANGED db
    /\ mem' = [mem EXCEPT ![r] = Step(@)]
    /\ UNCHANGED <<feed, decision, faults>>

Save(r) ==
    /\ Transaction(r)
    /\ mem' = [mem EXCEPT ![r] = Step(@)]
    /\ UNCHANGED <<feed, decision, faults>>

\* The commit took effect, but an error or an interrupt hid it from the
\* runtime, which stays at the prior candle and will save it again.
SaveUnreported(r) ==
    /\ faults < MaxFaults
    /\ Transaction(r)
    /\ faults' = faults + 1
    /\ UNCHANGED <<feed, decision, mem>>

\* Mutant: the duplicate is recognised but the memory does not advance.
SaveAgain_MemoryKept(r) ==
    /\ Ready(r)
    /\ db.state = Step(mem[r])
    /\ SameDecision(db.ledger, mem[r])
    /\ UNCHANGED vars

\* A save of what is already durable changes nothing and succeeds.
SaveAgain(r) ==
    /\ Ready(r)
    /\ db.state = Step(mem[r])
    /\ SameDecision(db.ledger, mem[r])
    /\ mem' = [mem EXCEPT ![r] = Step(@)]
    /\ UNCHANGED <<feed, decision, db, faults>>

\* A later adapter event, possibly repeated or out of order.  What either side
\* refuses is rolled back.
ApplyAdapterEvent(k, type) ==
    LET e == Event(k, type)
        books == Told([ledger |-> db.ledger, adapter |-> db.adapter], e)
    IN  /\ AdapterAdmits(db.adapter, e) /\ LedgerAdmits(db.ledger, e)
        /\ db' = [db EXCEPT !.ledger = books.ledger, !.adapter = books.adapter]
        /\ UNCHANGED <<feed, decision, mem, faults>>

Crash(r) ==
    /\ faults < MaxFaults
    /\ mem[r] # Unloaded
    /\ mem' = [mem EXCEPT ![r] = Unloaded]
    /\ faults' = faults + 1
    /\ UNCHANGED <<feed, decision, db>>

Next ==
    \/ \E r \in Runtimes : Load(r) \/ Save(r) \/ SaveUnreported(r) \/ SaveAgain(r) \/ Crash(r)
    \/ \E k \in Candles, type \in EventTypes : ApplyAdapterEvent(k, type)

\* Every process keeps polling; the simulated venue answers what it was asked,
\* and may reject but need not.
Fairness ==
    /\ \A r \in Runtimes :
        WF_vars(Load(r)) /\ WF_vars(Save(r)) /\ WF_vars(SaveAgain(r))
    /\ \A k \in Candles, type \in {"accepted", "filled"} : WF_vars(ApplyAdapterEvent(k, type))

Spec == Init /\ [][Next]_vars

FairSpec == Spec /\ Fairness

-----------------------------------------------------------------------------
(* Properties                                                              *)

OrderBooks == [Candles -> Orders \cup {None}]

LedgerBooks ==
    [orders : OrderBooks, fills : Seq(Candles), position : Candles \cup {None},
     cursor : 0..LastCandle]

Events == [order : Candles, type : EventTypes]

AdapterBooks ==
    [orders : OrderBooks, fills : Seq(Candles), position : Candles \cup {None},
     cursor : 0..LastCandle, events : Seq(Events)]

\* Type invariant of the durable row, the process memories and the fault count;
\* the ledger holds no order of a candle beyond its cursor.
TypeOK ==
    /\ feed \in [Candles -> Signals]
    /\ decision \in Decisions
    /\ db \in [state : ReplayStates, ledger : LedgerBooks, adapter : AdapterBooks]
    /\ \A k \in Candles : db.ledger.orders[k] # None => k <= db.ledger.cursor
    /\ mem \in [Runtimes -> ReplayStates \cup {Unloaded}]
    /\ faults \in 0..MaxFaults

\* _reconcile_pair and the cursor check of _decode_checkpoint never find
\* anything: the two books are updated by different code under different rules
\* and agree after every candle and after every late or repeated event.
BooksAgree ==
    /\ db.ledger.orders = db.adapter.orders
    /\ db.ledger.fills = db.adapter.fills
    /\ db.ledger.position = db.adapter.position
    /\ db.ledger.cursor = db.state.cursor /\ db.adapter.cursor = db.state.cursor

\* The order of a trade that was submitted last.
LatestOrder(ledger, trade) ==
    LET own == {k \in Candles : ledger.orders[k] # None /\ ledger.orders[k].intent.trade = trade}
    IN  IF own = {} THEN None
        ELSE ledger.orders[CHOOSE k \in own : \A j \in own : j <= k]

\* DivergenceClassification of the strategy's trade and the paper position.
Classification(row) ==
    LET trade == row.state.trade
        position == row.ledger.position
        latest == LatestOrder(row.ledger, IF trade # None THEN trade ELSE position)
        entry == latest # None /\ latest.intent.type = "entry"
        exit == latest # None /\ latest.intent.type # "entry"
        waiting == latest # None /\ latest.status \in {"new", "accepted"}
        refused == latest # None /\ latest.status = "rejected"
    IN  CASE trade = None /\ position = None -> "healthy_flat"
          [] trade # None /\ position = trade -> "healthy_open"
          [] trade # None /\ position = None /\ entry /\ waiting -> "pending_entry"
          [] trade # None /\ position = None /\ entry /\ refused -> "rejected_entry"
          [] trade = None /\ position # None /\ exit /\ waiting -> "pending_exit"
          [] trade = None /\ position # None /\ exit /\ refused -> "rejected_exit"
          [] OTHER -> "unexplained"

\* save_transition and apply_adapter_event classify after COMMIT, where a raise
\* would report a durable candle as lost, and every load classifies again: no
\* reachable row is an unexplained divergence.
Explained == Classification(db) # "unexplained"

\* _adapter_state_from_data does not trust the stored adapter book: it replays
\* the stored events over fresh orders and must arrive at the stored book.
Fresh(adapter) ==
    [EmptyAdapter EXCEPT
        !.orders = [k \in Candles |->
            IF adapter.orders[k] = None THEN None
            ELSE [adapter.orders[k] EXCEPT !.status = "new"]]]

Replayed(adapter) ==
    LET after[n \in 0..Len(adapter.events)] ==
            IF n = 0 THEN Fresh(adapter) ELSE AdapterApply(after[n - 1], adapter.events[n])
    IN  after[Len(adapter.events)]

\* Every row that was written can be read back by the next load.
Decodable == [Replayed(db.adapter) EXCEPT !.cursor = db.adapter.cursor] = db.adapter

\* The replay state after each candle of a run without faults or late answers.
Uninterrupted ==
    LET after[n \in 0..LastCandle] == IF n = 0 THEN Initial ELSE Step(after[n - 1])
    IN  after

\* Whatever crashed, was retried, was blocked or arrived late, the row is that of
\* the uninterrupted run: its replay state, exactly one order for every decision
\* up to the cursor and none beyond, at most one fill per order; and no runtime
\* remembers anything that is not durable.
RecoveryExact ==
    /\ db.state = Uninterrupted[db.state.cursor]
    /\ \A k \in Candles :
        LET intent == IF k <= db.state.cursor THEN IntentAt(Uninterrupted[k - 1]) ELSE None
        IN  IF intent = None THEN db.ledger.orders[k] = None
            ELSE db.ledger.orders[k] # None /\ db.ledger.orders[k].intent = intent
    /\ \A i, j \in DOMAIN db.ledger.fills :
        db.ledger.fills[i] = db.ledger.fills[j] => i = j
    /\ \A r \in Runtimes : mem[r] # Unloaded =>
        mem[r].cursor <= db.state.cursor /\ mem[r] = Uninterrupted[mem[r].cursor]

\* A runtime that can still take part: it will read the row, holds its state, or
\* is one candle behind and will be told so.
InTouch(r) == mem[r] = Unloaded \/ mem[r] = db.state \/ Step(mem[r]) = db.state

\* A runtime whose memory went stale by two candles only gets chronology errors
\* until it is restarted; runtimes sharing a database never all end like that.
NoStandoff == \E r \in Runtimes : InTouch(r)

\* Durable history is final: the replay state only moves to its successor, and
\* only while no order is outstanding or rejected; fills are only appended; an
\* order keeps its intent and never leaves filled or rejected.
HistoryFinal ==
    [][ /\ db'.state # db.state =>
            /\ db'.state = Step(db.state)
            /\ ~Unresolved(db.ledger) /\ ~Refused(db.ledger)
        /\ \E n \in 0..1 : Len(db'.ledger.fills) = Len(db.ledger.fills) + n
        /\ \A i \in DOMAIN db.ledger.fills : db'.ledger.fills[i] = db.ledger.fills[i]
        /\ \A k \in Candles : db.ledger.orders[k] # None =>
            /\ db'.ledger.orders[k].intent = db.ledger.orders[k].intent
            /\ HasStatus(db.ledger, k, {"filled", "rejected"}) =>
                db'.ledger.orders[k] = db.ledger.orders[k] ]_vars

\* If no order is ever rejected, every candle becomes durable: neither an
\* outstanding order, nor a crash, nor a lost reply, nor a second runtime blocks
\* the candles for ever.
CatchesUp == <>(Refused(db.ledger) \/ db.state.cursor = LastCandle)

\* Paper execution is the abstract life cycle of one position.
Outstanding == {k \in Candles : HasStatus(db.ledger, k, {"new", "accepted"})}

Pledge(k) ==
    LET intent == db.ledger.orders[k].intent
    IN  [opens |-> intent.type = "entry", trade |-> intent.trade]

Abstract == INSTANCE PaperTrading WITH
    taken <- db.state.cursor,
    holding <- db.ledger.position,
    order <- IF Outstanding = {} THEN None ELSE Pledge(CHOOSE k \in Outstanding : TRUE),
    halted <- Refused(db.ledger)

\* Every step of the store is a step of that life cycle or changes nothing in it.
ImplementsPaperTrading == Abstract!Spec
=============================================================================
