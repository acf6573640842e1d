--------------------------- MODULE ExecutionProofs ---------------------------
(***************************************************************************)
(* Proofs about Execution, for any number of candles, runtimes and faults. *)
(***************************************************************************)
EXTENDS Execution, SequenceTheorems, WellFoundedInduction, TLAPS

\* The books, seen apart from the row that holds them.
Agree(ledger, adapter) ==
    /\ ledger.orders = adapter.orders
    /\ ledger.fills = adapter.fills
    /\ ledger.position = adapter.position

\* A recorded event is one that its order still bears the marks of, so a
\* repeated event finds nothing left to do in the ledger.
Marks(type) ==
    CASE type = "accepted" -> {"accepted", "filled"}
      [] type = "rejected" -> {"rejected"}
      [] type = "filled" -> {"filled"}

EventsSound(adapter) ==
    \A i \in DOMAIN adapter.events :
        HasStatus(adapter, adapter.events[i].order, Marks(adapter.events[i].type))

\* An order that stops the candles is the latest one, and it carries out the
\* strategy's last decision, which the position has not followed yet.
Blocking(ledger) == {k \in Candles : HasStatus(ledger, k, {"new", "accepted", "rejected"})}

Awaits(s, ledger, k) ==
    /\ \A j \in Candles : ledger.orders[j] # None => j <= k
    /\ IF ledger.orders[k].intent.type = "entry"
       THEN /\ s.trade = k /\ ledger.orders[k].intent.trade = k
            /\ ledger.position = None
       ELSE /\ s.trade = None
            /\ ledger.position = ledger.orders[k].intent.trade

PositionFollows(s, ledger) ==
    IF Blocking(ledger) = {} THEN ledger.position = s.trade
    ELSE \A k \in Blocking(ledger) : Awaits(s, ledger, k)

\* A sound row: what every durable row is.
RowOK(row) ==
    /\ row \in [state : ReplayStates, ledger : LedgerBooks, adapter : AdapterBooks]
    /\ \A k \in Candles : row.ledger.orders[k] # None => k <= row.ledger.cursor
    /\ Agree(row.ledger, row.adapter)
    /\ row.ledger.cursor = row.state.cursor /\ row.adapter.cursor = row.state.cursor
    /\ EventsSound(row.adapter)
    /\ PositionFollows(row.state, row.ledger)

IInv ==
    /\ feed \in [Candles -> Signals]
    /\ decision \in Decisions
    /\ mem \in [Runtimes -> ReplayStates \cup {Unloaded}]
    /\ faults \in 0..MaxFaults
    /\ RowOK(db)

-----------------------------------------------------------------------------
(* The replay step.                                                        *)

LEMMA UpcomingType ==
    ASSUME NEW s \in ReplayStates, Upcoming(s) <= LastCandle
    PROVE  Upcoming(s) \in Candles
BY BoundsAssumption DEF ReplayStates, Upcoming, Candles

\* A decision is to enter when flat, or to leave the trade that is open.
LEMMA IntentMeaning ==
    ASSUME feed \in [Candles -> Signals], NEW s \in ReplayStates, Upcoming(s) \in Candles
    PROVE  /\ IntentAt(s) \in Intents \cup {None}
           /\ IntentAt(s) # None =>
                IF IntentAt(s).type = "entry"
                THEN s.trade = None /\ IntentAt(s).trade = Upcoming(s)
                ELSE s.trade # None /\ IntentAt(s).trade = s.trade
<1> DEFINE k == Upcoming(s)
<1>1. s.trade \in Candles \cup {None}
  BY DEF ReplayStates
<1>2. CASE s.trade = None /\ feed[k] = "open"
  <2>1. IntentAt(s) = [type |-> "entry", trade |-> k]
    BY <1>2 DEF IntentAt
  <2> QED BY <2>1, <1>2 DEF Intents
<1>3. CASE s.trade # None /\ feed[k] \in {"stop", "exit"}
  <2>1. IntentAt(s) = [type |-> feed[k], trade |-> s.trade]
    BY <1>3 DEF IntentAt
  <2> QED BY <2>1, <1>3, <1>1 DEF Intents
<1>4. CASE ~(s.trade = None /\ feed[k] = "open")
           /\ ~(s.trade # None /\ feed[k] \in {"stop", "exit"})
  <2>1. IntentAt(s) = None
    BY <1>4 DEF IntentAt
  <2> QED BY <2>1
<1> QED BY <1>2, <1>3, <1>4

LEMMA StepType ==
    ASSUME feed \in [Candles -> Signals], NEW s \in ReplayStates, Upcoming(s) \in Candles
    PROVE  Step(s) \in ReplayStates
<1>1. PositionAfter(s.trade, IntentAt(s)) \in Candles \cup {None}
  BY IntentMeaning DEF PositionAfter, Intents, ReplayStates
<1> QED BY <1>1 DEF Step, ReplayStates, Upcoming, Candles

-----------------------------------------------------------------------------
(* What the operators do to a book.                                        *)

LEMMA LedgerWrites ==
    ASSUME NEW b \in LedgerBooks, NEW k \in Candles, b.orders[k] # None, NEW st \in Statuses
    PROVE  /\ WithStatus(b, k, st) \in LedgerBooks
           /\ WithStatus(b, k, st).orders = [b.orders EXCEPT ![k] = [@ EXCEPT !.status = st]]
           /\ WithStatus(b, k, st).fills = b.fills
           /\ WithStatus(b, k, st).position = b.position
           /\ WithStatus(b, k, st).cursor = b.cursor
           /\ Filled(b, k) \in LedgerBooks
           /\ Filled(b, k).orders = [b.orders EXCEPT ![k] = [@ EXCEPT !.status = "filled"]]
           /\ Filled(b, k).fills = Append(b.fills, k)
           /\ Filled(b, k).position = PositionAfter(b.position, b.orders[k].intent)
           /\ Filled(b, k).cursor = b.cursor
<1>1. b.orders[k] \in Orders /\ b.orders[k].intent \in Intents
  BY DEF LedgerBooks, OrderBooks, Orders
<1>2. /\ [b.orders EXCEPT ![k] = [@ EXCEPT !.status = st]] \in OrderBooks
      /\ [b.orders EXCEPT ![k] = [@ EXCEPT !.status = "filled"]] \in OrderBooks
  BY <1>1 DEF LedgerBooks, OrderBooks, Orders, Statuses
<1>3. PositionAfter(b.position, b.orders[k].intent) \in Candles \cup {None}
  BY <1>1 DEF LedgerBooks, PositionAfter, Intents
<1>4. Append(b.fills, k) \in Seq(Candles)
  BY DEF LedgerBooks
<1>5. /\ WithStatus(b, k, st) \in LedgerBooks
      /\ WithStatus(b, k, st).orders = [b.orders EXCEPT ![k] = [@ EXCEPT !.status = st]]
      /\ WithStatus(b, k, st).fills = b.fills
      /\ WithStatus(b, k, st).position = b.position
      /\ WithStatus(b, k, st).cursor = b.cursor
  BY <1>2 DEF LedgerBooks, WithStatus
<1>6. Filled(b, k) = [b EXCEPT
          !.orders = [b.orders EXCEPT ![k] = [@ EXCEPT !.status = "filled"]],
          !.fills = Append(b.fills, k),
          !.position = PositionAfter(b.position, b.orders[k].intent)]
  BY DEF LedgerBooks, WithStatus, Filled
<1>7. /\ Filled(b, k) \in LedgerBooks
      /\ Filled(b, k).orders = [b.orders EXCEPT ![k] = [@ EXCEPT !.status = "filled"]]
      /\ Filled(b, k).fills = Append(b.fills, k)
      /\ Filled(b, k).position = PositionAfter(b.position, b.orders[k].intent)
      /\ Filled(b, k).cursor = b.cursor
  BY <1>2, <1>3, <1>4, <1>6 DEF LedgerBooks
<1> QED BY <1>5, <1>7

LEMMA AdapterWrites ==
    ASSUME NEW b \in AdapterBooks, NEW k \in Candles, b.orders[k] # None, NEW st \in Statuses
    PROVE  /\ WithStatus(b, k, st) \in AdapterBooks
           /\ WithStatus(b, k, st).orders = [b.orders EXCEPT ![k] = [@ EXCEPT !.status = st]]
           /\ WithStatus(b, k, st).fills = b.fills
           /\ WithStatus(b, k, st).position = b.position
           /\ WithStatus(b, k, st).cursor = b.cursor
           /\ WithStatus(b, k, st).events = b.events
           /\ Filled(b, k) \in AdapterBooks
           /\ Filled(b, k).orders = [b.orders EXCEPT ![k] = [@ EXCEPT !.status = "filled"]]
           /\ Filled(b, k).fills = Append(b.fills, k)
           /\ Filled(b, k).position = PositionAfter(b.position, b.orders[k].intent)
           /\ Filled(b, k).cursor = b.cursor
           /\ Filled(b, k).events = b.events
<1>1. b.orders[k] \in Orders /\ b.orders[k].intent \in Intents
  BY DEF AdapterBooks, OrderBooks, Orders
<1>2. /\ [b.orders EXCEPT ![k] = [@ EXCEPT !.status = st]] \in OrderBooks
      /\ [b.orders EXCEPT ![k] = [@ EXCEPT !.status = "filled"]] \in OrderBooks
  BY <1>1 DEF AdapterBooks, OrderBooks, Orders, Statuses
<1>3. PositionAfter(b.position, b.orders[k].intent) \in Candles \cup {None}
  BY <1>1 DEF AdapterBooks, PositionAfter, Intents
<1>4. Append(b.fills, k) \in Seq(Candles)
  BY DEF AdapterBooks
<1>5. /\ WithStatus(b, k, st) \in AdapterBooks
      /\ WithStatus(b, k, st).orders = [b.orders EXCEPT ![k] = [@ EXCEPT !.status = st]]
      /\ WithStatus(b, k, st).fills = b.fills
      /\ WithStatus(b, k, st).position = b.position
      /\ WithStatus(b, k, st).cursor = b.cursor
      /\ WithStatus(b, k, st).events = b.events
  BY <1>2 DEF AdapterBooks, WithStatus
<1>6. Filled(b, k) = [b EXCEPT
          !.orders = [b.orders EXCEPT ![k] = [@ EXCEPT !.status = "filled"]],
          !.fills = Append(b.fills, k),
          !.position = PositionAfter(b.position, b.orders[k].intent)]
  BY DEF AdapterBooks, WithStatus, Filled
<1>7. /\ Filled(b, k) \in AdapterBooks
      /\ Filled(b, k).orders = [b.orders EXCEPT ![k] = [@ EXCEPT !.status = "filled"]]
      /\ Filled(b, k).fills = Append(b.fills, k)
      /\ Filled(b, k).position = PositionAfter(b.position, b.orders[k].intent)
      /\ Filled(b, k).cursor = b.cursor
      /\ Filled(b, k).events = b.events
  BY <1>2, <1>3, <1>4, <1>6 DEF AdapterBooks
<1> QED BY <1>5, <1>7

LEMMA Registers ==
    ASSUME NEW k \in Candles, NEW intent \in Intents
    PROVE  /\ \A b \in LedgerBooks : b.orders[k] = None =>
                /\ Registered(b, k, intent) \in LedgerBooks
                /\ Registered(b, k, intent).orders =
                        [b.orders EXCEPT ![k] = [intent |-> intent, status |-> "new"]]
                /\ Registered(b, k, intent).fills = b.fills
                /\ Registered(b, k, intent).position = b.position
                /\ Registered(b, k, intent).cursor = b.cursor
           /\ \A b \in AdapterBooks : b.orders[k] = None =>
                /\ Registered(b, k, intent) \in AdapterBooks
                /\ Registered(b, k, intent).orders =
                        [b.orders EXCEPT ![k] = [intent |-> intent, status |-> "new"]]
                /\ Registered(b, k, intent).fills = b.fills
                /\ Registered(b, k, intent).position = b.position
                /\ Registered(b, k, intent).cursor = b.cursor
                /\ Registered(b, k, intent).events = b.events
<1> DEFINE order == [intent |-> intent, status |-> "new"]
<1>1. order \in Orders
  BY DEF Orders, Statuses
<1> HIDE DEF order
<1>2. ASSUME NEW b \in LedgerBooks, b.orders[k] = None
      PROVE  [b EXCEPT !.orders[k] = order] \in LedgerBooks
  BY <1>1 DEF LedgerBooks, OrderBooks
<1>3. ASSUME NEW b \in AdapterBooks, b.orders[k] = None
      PROVE  [b EXCEPT !.orders[k] = order] \in AdapterBooks
  BY <1>1 DEF AdapterBooks, OrderBooks
<1>4. ASSUME NEW b \in LedgerBooks, b.orders[k] = None
      PROVE  /\ Registered(b, k, intent) \in LedgerBooks
             /\ Registered(b, k, intent).orders = [b.orders EXCEPT ![k] = order]
             /\ Registered(b, k, intent).fills = b.fills
             /\ Registered(b, k, intent).position = b.position
             /\ Registered(b, k, intent).cursor = b.cursor
  <2>1. Registered(b, k, intent) = [b EXCEPT !.orders[k] = order]
    BY <1>4 DEF Registered, order
  <2> QED BY <2>1, <1>2, <1>4 DEF LedgerBooks
<1>5. ASSUME NEW b \in AdapterBooks, b.orders[k] = None
      PROVE  /\ Registered(b, k, intent) \in AdapterBooks
             /\ Registered(b, k, intent).orders = [b.orders EXCEPT ![k] = order]
             /\ Registered(b, k, intent).fills = b.fills
             /\ Registered(b, k, intent).position = b.position
             /\ Registered(b, k, intent).cursor = b.cursor
             /\ Registered(b, k, intent).events = b.events
  <2>1. Registered(b, k, intent) = [b EXCEPT !.orders[k] = order]
    BY <1>5 DEF Registered, order
  <2> QED BY <2>1, <1>3, <1>5 DEF AdapterBooks
<1> QED BY <1>4, <1>5 DEF order

-----------------------------------------------------------------------------
(* One adapter event, told to both sides.                                  *)

\* What an event that is news does to a ledger.
AfterEvent(ledger, k, type) ==
    IF type = "filled" THEN Filled(ledger, k) ELSE WithStatus(ledger, k, type)

\* The two sides follow different rules, but on sound books they do the same:
\* nothing for a repeated event, one transition of the order for news.
LEMMA ToldTogether ==
    ASSUME NEW ledger \in LedgerBooks, NEW adapter \in AdapterBooks,
           Agree(ledger, adapter), EventsSound(adapter),
           NEW k \in Candles, NEW type \in EventTypes,
           AdapterAdmits(adapter, Event(k, type)),
           NEW books, books = Told([ledger |-> ledger, adapter |-> adapter], Event(k, type))
    PROVE  /\ books.ledger \in LedgerBooks /\ books.adapter \in AdapterBooks
           /\ Agree(books.ledger, books.adapter)
           /\ EventsSound(books.adapter)
           /\ books.ledger.cursor = ledger.cursor /\ books.adapter.cursor = adapter.cursor
           /\ IF Known(adapter, Event(k, type))
              THEN books.ledger = ledger /\ books.adapter = adapter
              ELSE /\ ledger.orders[k] # None
                   /\ ledger.orders[k].status = IF type = "filled" THEN "accepted" ELSE "new"
                   /\ books.ledger = AfterEvent(ledger, k, type)
                   /\ type = "filled" => FillFits(ledger, k)
                   /\ books.adapter.events = Append(adapter.events, Event(k, type))
<1> DEFINE e == Event(k, type)
<1>0. /\ e.order = k /\ e.type = type /\ e \in Events
      /\ books.ledger = LedgerApply(ledger, e) /\ books.adapter = AdapterApply(adapter, e)
  BY DEF Event, Told, Events
<1>1. CASE Known(adapter, e)
  <2>1. PICK i \in DOMAIN adapter.events : adapter.events[i] = e
    BY <1>1 DEF Known
  <2>2. HasStatus(ledger, k, Marks(type))
    <3>1. HasStatus(adapter, k, Marks(type))
      BY <2>1, <1>0 DEF EventsSound
    <3> QED BY <3>1 DEF HasStatus, Agree
  <2>3. LedgerApply(ledger, e) = ledger
    <3>1. CASE type = "accepted"
      BY <2>2, <3>1, <1>0 DEF Marks, LedgerApply, HasStatus
    <3>2. CASE type = "rejected"
      BY <2>2, <3>2, <1>0 DEF Marks, LedgerApply, HasStatus
    <3>3. CASE type = "filled"
      BY <2>2, <3>3, <1>0 DEF Marks, LedgerApply, HasStatus
    <3> QED BY <3>1, <3>2, <3>3 DEF EventTypes
  <2>4. AdapterApply(adapter, e) = adapter
    BY <1>1 DEF AdapterApply
  <2> QED BY <2>3, <2>4, <1>0, <1>1
<1>2. CASE ~Known(adapter, e)
  <2> DEFINE after == AfterEvent(ledger, k, type)
             written == IF type = "filled" THEN Filled(adapter, k)
                        ELSE WithStatus(adapter, k, type)
             status == IF type = "filled" THEN "accepted" ELSE "new"
  <2>1. HasStatus(adapter, k, {status}) /\ (type = "filled" => FillFits(adapter, k))
    BY <1>2, <1>0 DEF AdapterAdmits, EventTypes
  <2>2. /\ ledger.orders[k] # None /\ adapter.orders[k] # None
        /\ ledger.orders[k].status = status /\ adapter.orders[k].status = status
        /\ HasStatus(ledger, k, {status})
        /\ type = "filled" => FillFits(ledger, k)
    BY <2>1 DEF HasStatus, Agree, FillFits
  <2>3. type \in Statuses
    BY DEF EventTypes, Statuses
  <2>4. LedgerApply(ledger, e) = after
    <3>1. CASE type = "accepted"
      BY <2>2, <1>0, <3>1 DEF LedgerApply, AfterEvent
    <3>2. CASE type = "rejected"
      BY <2>2, <1>0, <3>2 DEF LedgerApply, AfterEvent
    <3>3. CASE type = "filled"
      BY <2>2, <1>0, <3>3 DEF LedgerApply, AfterEvent
    <3> QED BY <3>1, <3>2, <3>3 DEF EventTypes
  <2>5. AdapterApply(adapter, e) = [written EXCEPT !.events = Append(@, e)]
    BY <1>2, <1>0 DEF AdapterApply
  <2>6. /\ after \in LedgerBooks /\ after.cursor = ledger.cursor
        /\ after.orders = [ledger.orders EXCEPT ![k] = [@ EXCEPT !.status = type]]
        /\ after.fills = IF type = "filled" THEN Append(ledger.fills, k) ELSE ledger.fills
        /\ after.position = IF type = "filled"
                            THEN PositionAfter(ledger.position, ledger.orders[k].intent)
                            ELSE ledger.position
    <3>1. CASE type = "filled"
      BY <2>2, <2>3, <3>1, LedgerWrites DEF AfterEvent
    <3>2. CASE type # "filled"
      BY <2>2, <2>3, <3>2, LedgerWrites, ZenonT(60) DEF AfterEvent
    <3> QED BY <3>1, <3>2
  <2>7. /\ written \in AdapterBooks /\ written.cursor = adapter.cursor
        /\ written.orders = [adapter.orders EXCEPT ![k] = [@ EXCEPT !.status = type]]
        /\ written.fills = IF type = "filled" THEN Append(adapter.fills, k) ELSE adapter.fills
        /\ written.position = IF type = "filled"
                              THEN PositionAfter(adapter.position, adapter.orders[k].intent)
                              ELSE adapter.position
        /\ written.events = adapter.events
    <3>1. CASE type = "filled"
      BY <2>2, <2>3, <3>1, AdapterWrites
    <3>2. CASE type # "filled"
      BY <2>2, <2>3, <3>2, AdapterWrites, ZenonT(60)
    <3> QED BY <3>1, <3>2
  <2> HIDE DEF written, after
  <2>8. /\ books.adapter \in AdapterBooks
        /\ books.adapter.orders = written.orders /\ books.adapter.fills = written.fills
        /\ books.adapter.position = written.position /\ books.adapter.cursor = written.cursor
        /\ books.adapter.events = Append(adapter.events, e)
    <3>1. Append(adapter.events, e) \in Seq(Events)
      BY <1>0 DEF AdapterBooks
    <3> QED BY <3>1, <2>5, <2>7, <1>0, ZenonT(60) DEF AdapterBooks
  <2>9. Agree(books.ledger, books.adapter)
    BY <2>4, <2>6, <2>7, <2>8, <1>0 DEF Agree
  <2>10. EventsSound(books.adapter)
    <3> SUFFICES ASSUME NEW i \in DOMAIN books.adapter.events
                 PROVE  HasStatus(books.adapter, books.adapter.events[i].order,
                                  Marks(books.adapter.events[i].type))
      BY DEF EventsSound
    <3>0. adapter.events \in Seq(Events) /\ adapter.orders \in OrderBooks
      BY DEF AdapterBooks
    <3>1. /\ books.adapter.orders[k] # None
          /\ books.adapter.orders[k].status = type
      <4>1. adapter.orders[k] \in Orders
        BY <3>0, <2>2 DEF OrderBooks
      <4>2. [adapter.orders[k] EXCEPT !.status = type] \in Orders
        BY <4>1, <2>3 DEF Orders
      <4> QED BY <4>1, <4>2, <2>7, <2>8, <3>0, NoneAssumption DEF OrderBooks, Orders
    <3>2. CASE i = Len(adapter.events) + 1
      <4>1. books.adapter.events[i] = e
        BY <3>0, <3>2, <2>8, <1>0
      <4>2. type \in Marks(type)
        BY DEF Marks, EventTypes
      <4> QED BY <4>1, <4>2, <3>1, <1>0 DEF HasStatus
    <3>3. CASE i # Len(adapter.events) + 1
      <4>1. i \in DOMAIN adapter.events /\ books.adapter.events[i] = adapter.events[i]
        BY <3>0, <3>3, <2>8, <1>0
      <4> DEFINE old == adapter.events[i]
      <4>2. old \in Events /\ HasStatus(adapter, old.order, Marks(old.type))
        BY <3>0, <4>1 DEF EventsSound
      <4>3. CASE old.order # k
        <5>1. books.adapter.orders[old.order] = adapter.orders[old.order]
          BY <4>2, <4>3, <2>7, <2>8, <3>0 DEF OrderBooks, Events
        <5> QED BY <5>1, <4>1, <4>2 DEF HasStatus
      <4>4. CASE old.order = k
        <5>1. status \in Marks(old.type)
          BY <4>2, <4>4, <2>2 DEF HasStatus
        <5>2. old.type = "accepted" /\ type = "filled"
          BY <5>1, <4>2 DEF Marks, Events, EventTypes
        <5> QED BY <5>2, <3>1, <4>1, <4>4 DEF HasStatus, Marks
      <4> QED BY <4>3, <4>4
    <3> QED BY <3>2, <3>3
  <2> QED BY <2>2, <2>4, <2>6, <2>7, <2>8, <2>9, <2>10, <1>0, <1>2 DEF after
<1> QED BY <1>1, <1>2

-----------------------------------------------------------------------------
(* One candle that asks for an order.                                      *)

\* What one order that becomes or changes to order does to a ledger.
Writes(before, after, k, order) ==
    /\ after.orders = [before.orders EXCEPT ![k] = order]
    /\ after.fills = IF order.status = "filled" THEN Append(before.fills, k) ELSE before.fills
    /\ after.position = IF order.status = "filled"
                        THEN PositionAfter(before.position, order.intent)
                        ELSE before.position

\* A new order on both sides breaks nothing, and no event of it is known yet.
LEMMA RegisteredTogether ==
    ASSUME NEW ledger \in LedgerBooks, NEW adapter \in AdapterBooks,
           Agree(ledger, adapter), EventsSound(adapter),
           NEW k \in Candles, NEW intent \in Intents, ledger.orders[k] = None
    PROVE  /\ Agree(Registered(ledger, k, intent), Registered(adapter, k, intent))
           /\ EventsSound(Registered(adapter, k, intent))
           /\ \A i \in DOMAIN adapter.events : adapter.events[i].order # k
           /\ Registered(ledger, k, intent).orders[k] = [intent |-> intent, status |-> "new"]
           /\ HasStatus(Registered(adapter, k, intent), k, {"new"})
<1> DEFINE order == [intent |-> intent, status |-> "new"]
           new == Registered(adapter, k, intent)
<1>0. adapter.orders[k] = None
  BY DEF Agree
<1>1. order \in Orders /\ order # None
  BY NoneAssumption DEF Orders, Statuses
<1>2. ledger.orders \in OrderBooks /\ adapter.orders \in OrderBooks
      /\ adapter.events \in Seq(Events)
  BY DEF LedgerBooks, AdapterBooks
<1>3. /\ Registered(ledger, k, intent).orders = [ledger.orders EXCEPT ![k] = order]
      /\ Registered(ledger, k, intent).fills = ledger.fills
      /\ Registered(ledger, k, intent).position = ledger.position
      /\ new.orders = [adapter.orders EXCEPT ![k] = order]
      /\ new.fills = adapter.fills /\ new.position = adapter.position
      /\ new.events = adapter.events
  BY <1>0, Registers
<1> HIDE DEF order, new
<1>4. Agree(Registered(ledger, k, intent), new)
  BY <1>3 DEF Agree
<1>5. ASSUME NEW i \in DOMAIN adapter.events
      PROVE  /\ adapter.events[i].order \in Candles /\ adapter.events[i].order # k
             /\ HasStatus(adapter, adapter.events[i].order, Marks(adapter.events[i].type))
  <2>1. adapter.events[i] \in Events
    BY <1>2
  <2>2. HasStatus(adapter, adapter.events[i].order, Marks(adapter.events[i].type))
    BY DEF EventsSound
  <2> QED BY <2>1, <2>2, <1>0 DEF HasStatus, Events
<1>6. EventsSound(new)
  <2> SUFFICES ASSUME NEW i \in DOMAIN new.events
               PROVE  HasStatus(new, new.events[i].order, Marks(new.events[i].type))
    BY DEF EventsSound
  <2>1. new.events[i] = adapter.events[i] /\ i \in DOMAIN adapter.events
    BY <1>3
  <2>2. new.orders[adapter.events[i].order] = adapter.orders[adapter.events[i].order]
    BY <2>1, <1>5, <1>3, <1>2 DEF OrderBooks
  <2> QED BY <2>1, <2>2, <1>5 DEF HasStatus
<1>7. Registered(ledger, k, intent).orders[k] = order /\ new.orders[k] = order
  BY <1>3, <1>2 DEF OrderBooks
<1>8. HasStatus(new, k, {"new"})
  BY <1>7, <1>1 DEF HasStatus, order
<1> QED BY <1>4, <1>5, <1>6, <1>7, <1>8 DEF order, new

\* The order and the policy's immediate answers leave two books that agree, and
\* a ledger in which one order was written.
LEMMA SubmittedTogether ==
    ASSUME NEW ledger \in LedgerBooks, NEW adapter \in AdapterBooks,
           Agree(ledger, adapter), EventsSound(adapter),
           NEW k \in Candles, NEW intent \in Intents, ledger.orders[k] = None,
           decision \in AllDecisions,
           decision = "accept_fill" =>
               ledger.position = IF intent.type = "entry" THEN None ELSE intent.trade,
           NEW books,
           books = Submitted([ledger |-> ledger, adapter |-> adapter], k, intent)
    PROVE  /\ books.ledger \in LedgerBooks /\ books.adapter \in AdapterBooks
           /\ Agree(books.ledger, books.adapter)
           /\ EventsSound(books.adapter)
           /\ \E st \in Statuses :
                Writes(ledger, books.ledger, k, [intent |-> intent, status |-> st])
<1> DEFINE new == [ledger |-> Registered(ledger, k, intent),
                   adapter |-> Registered(adapter, k, intent)]
           accepted == Told(new, Event(k, "accepted"))
           rejected == Told(new, Event(k, "rejected"))
           filled == Told(accepted, Event(k, "filled"))
           order(st) == [intent |-> intent, status |-> st]
<1>0. /\ ledger.orders \in OrderBooks
      /\ adapter.orders[k] = None
      /\ adapter.events \in Seq(Events)
      /\ {"accepted", "rejected", "filled"} \subseteq EventTypes
      /\ \A st \in Statuses : order(st) \in Orders /\ order(st) # None
  BY NoneAssumption DEF LedgerBooks, AdapterBooks, Agree, EventTypes, Orders
<1>1. /\ new.ledger \in LedgerBooks /\ new.adapter \in AdapterBooks
      /\ new.ledger.orders = [ledger.orders EXCEPT ![k] = order("new")]
      /\ new.ledger.fills = ledger.fills /\ new.ledger.position = ledger.position
      /\ new.adapter.events = adapter.events
      /\ Agree(new.ledger, new.adapter) /\ EventsSound(new.adapter)
      /\ HasStatus(new.adapter, k, {"new"})
      /\ \A i \in DOMAIN adapter.events : adapter.events[i].order # k
      /\ new.ledger.orders[k] = order("new")
  <2>1. /\ new.ledger \in LedgerBooks
        /\ new.ledger.orders = [ledger.orders EXCEPT ![k] = order("new")]
        /\ new.ledger.fills = ledger.fills /\ new.ledger.position = ledger.position
    BY Registers
  <2>2. new.adapter \in AdapterBooks /\ new.adapter.events = adapter.events
    <3>1. /\ Registered(adapter, k, intent) \in AdapterBooks
          /\ Registered(adapter, k, intent).events = adapter.events
      BY <1>0, Registers, ZenonT(60)
    <3> QED BY <3>1
  <2>3. /\ Agree(new.ledger, new.adapter) /\ EventsSound(new.adapter)
        /\ HasStatus(new.adapter, k, {"new"})
        /\ \A i \in DOMAIN adapter.events : adapter.events[i].order # k
        /\ new.ledger.orders[k] = order("new")
    BY RegisteredTogether
  <2> QED BY <2>1, <2>2, <2>3
<1>2. \A type \in EventTypes : ~Known(new.adapter, Event(k, type))
  BY <1>1 DEF Known, Event
<1>3. new = [ledger |-> new.ledger, adapter |-> new.adapter]
  OBVIOUS
<1> HIDE DEF new
<1>4. ASSUME NEW type \in {"accepted", "rejected"}
      PROVE  /\ Told(new, Event(k, type)).ledger \in LedgerBooks
             /\ Told(new, Event(k, type)).adapter \in AdapterBooks
             /\ Agree(Told(new, Event(k, type)).ledger, Told(new, Event(k, type)).adapter)
             /\ EventsSound(Told(new, Event(k, type)).adapter)
             /\ Told(new, Event(k, type)).ledger = WithStatus(new.ledger, k, type)
             /\ Told(new, Event(k, type)).adapter.events
                    = Append(adapter.events, Event(k, type))
  <2>1. AdapterAdmits(new.adapter, Event(k, type))
    BY <1>1 DEF AdapterAdmits, Event
  <2>2. type \in EventTypes /\ type # "filled"
    BY <1>0
  <2> QED BY <2>1, <2>2, <1>1, <1>2, <1>3, ToldTogether DEF AfterEvent
<1>5. ASSUME NEW type \in {"accepted", "rejected"}
      PROVE  /\ Writes(ledger, Told(new, Event(k, type)).ledger, k, order(type))
             /\ Told(new, Event(k, type)).ledger.orders[k] = order(type)
  <2>1. /\ WithStatus(new.ledger, k, type).orders
                = [new.ledger.orders EXCEPT ![k] = [@ EXCEPT !.status = type]]
        /\ WithStatus(new.ledger, k, type).fills = new.ledger.fills
        /\ WithStatus(new.ledger, k, type).position = new.ledger.position
    BY <1>0, <1>1, LedgerWrites DEF Statuses
  <2>2. [new.ledger.orders EXCEPT ![k] = [@ EXCEPT !.status = type]]
            = [ledger.orders EXCEPT ![k] = order(type)]
    BY <1>0, <1>1 DEF OrderBooks
  <2>3. [ledger.orders EXCEPT ![k] = order(type)][k] = order(type)
    BY <1>0 DEF OrderBooks
  <2> QED BY <2>1, <2>2, <2>3, <1>1, <1>4 DEF Writes
<1>6. CASE decision = "defer"
  <2>1. books = new
    BY <1>6 DEF Submitted, new
  <2>2. Writes(ledger, new.ledger, k, order("new"))
    BY <1>1 DEF Writes
  <2> QED BY <2>1, <2>2, <1>1 DEF Statuses
<1>7. CASE decision = "accept_only"
  <2>1. books = accepted
    BY <1>7 DEF Submitted, new
  <2> QED BY <2>1, <1>4, <1>5 DEF Statuses
<1>8. CASE decision = "reject"
  <2>1. books = rejected
    BY <1>8 DEF Submitted, new
  <2> QED BY <2>1, <1>4, <1>5 DEF Statuses
<1>9. CASE decision = "accept_fill"
  <2>1. books = filled
    BY <1>9 DEF Submitted, new
  <2>2. /\ accepted.ledger \in LedgerBooks /\ accepted.adapter \in AdapterBooks
        /\ Agree(accepted.ledger, accepted.adapter) /\ EventsSound(accepted.adapter)
        /\ Writes(ledger, accepted.ledger, k, order("accepted"))
        /\ accepted.ledger.orders[k] = order("accepted")
        /\ accepted.adapter.events = Append(adapter.events, Event(k, "accepted"))
        /\ accepted = [ledger |-> accepted.ledger, adapter |-> accepted.adapter]
    BY <1>4, <1>5 DEF Told
  <2> HIDE DEF accepted
  <2>3. ~Known(accepted.adapter, Event(k, "filled"))
    <3> SUFFICES ASSUME NEW i \in DOMAIN accepted.adapter.events,
                        accepted.adapter.events[i] = Event(k, "filled")
                 PROVE  FALSE
      BY DEF Known
    <3>1. Event(k, "accepted") \in Events
      BY <1>0 DEF Event, Events
    <3>2. CASE i \in DOMAIN adapter.events
      BY <3>1, <3>2, <2>2, <1>0, <1>1 DEF Event
    <3>3. CASE i = Len(adapter.events) + 1
      BY <3>1, <3>3, <2>2, <1>0 DEF Event
    <3> QED BY <3>1, <3>2, <3>3, <2>2, <1>0
  <2>4. /\ accepted.ledger.position = ledger.position
        /\ accepted.ledger.fills = ledger.fills
        /\ accepted.ledger.orders = [ledger.orders EXCEPT ![k] = order("accepted")]
    BY <2>2 DEF Writes
  <2>5. AdapterAdmits(accepted.adapter, Event(k, "filled"))
    <3>1. accepted.adapter.orders[k] = order("accepted")
          /\ accepted.adapter.position = ledger.position
      BY <2>2, <2>4 DEF Agree
    <3>2. order("accepted") # None
      BY <1>0 DEF Statuses
    <3> QED BY <3>1, <3>2, <1>9 DEF AdapterAdmits, HasStatus, FillFits, Event
  <2>6. /\ filled.ledger \in LedgerBooks /\ filled.adapter \in AdapterBooks
        /\ Agree(filled.ledger, filled.adapter) /\ EventsSound(filled.adapter)
        /\ accepted.ledger.orders[k] # None
        /\ filled.ledger = Filled(accepted.ledger, k)
    BY <2>2, <2>3, <2>5, <1>0, ToldTogether DEF AfterEvent
  <2>7. Writes(ledger, filled.ledger, k, order("filled"))
    <3>1. /\ filled.ledger.orders
                = [accepted.ledger.orders EXCEPT ![k] = [@ EXCEPT !.status = "filled"]]
          /\ filled.ledger.fills = Append(ledger.fills, k)
          /\ filled.ledger.position = PositionAfter(ledger.position, intent)
      BY <2>2, <2>4, <2>6, LedgerWrites DEF Statuses
    <3>2. filled.ledger.orders = [ledger.orders EXCEPT ![k] = order("filled")]
      BY <3>1, <2>4, <1>0 DEF OrderBooks
    <3> QED BY <3>1, <3>2 DEF Writes
  <2> QED BY <2>1, <2>6, <2>7 DEF Statuses
<1> QED BY <1>6, <1>7, <1>8, <1>9 DEF AllDecisions

-----------------------------------------------------------------------------
(* One candle, and one late event, through a sound row.                    *)

LEMMA NoneBlocks ==
    ASSUME NEW row, RowOK(row), ~Unresolved(row.ledger), ~Refused(row.ledger)
    PROVE  Blocking(row.ledger) = {} /\ row.ledger.position = row.state.trade
<1>1. Blocking(row.ledger) = {}
  BY DEF Blocking, Unresolved, Refused, HasStatus
<1> QED BY <1>1 DEF RowOK, PositionFollows

\* A candle that asks for nothing leaves the books as they are; one that asks for
\* an order writes exactly that order.  Either way the row stays sound.
LEMMA TransitionEffect ==
    ASSUME feed \in [Candles -> Signals], decision \in AllDecisions,
           NEW row, RowOK(row), ~Unresolved(row.ledger), ~Refused(row.ledger),
           Upcoming(row.state) \in Candles, Executable(row, IntentAt(row.state)),
           NEW next, next = Transition(row)
    PROVE  /\ RowOK(next)
           /\ next.state = Step(row.state)
           /\ IF IntentAt(row.state) = None
              THEN /\ next.ledger.orders = row.ledger.orders
                   /\ next.ledger.fills = row.ledger.fills
                   /\ next.ledger.position = row.ledger.position
              ELSE /\ row.ledger.orders[Upcoming(row.state)] = None
                   /\ \E st \in Statuses :
                        Writes(row.ledger, next.ledger, Upcoming(row.state),
                               [intent |-> IntentAt(row.state), status |-> st])
<1> DEFINE s == Step(row.state)
           k == Upcoming(row.state)
           intent == IntentAt(row.state)
           old == [ledger |-> row.ledger, adapter |-> row.adapter]
<1>1. /\ row.state \in ReplayStates /\ row.ledger \in LedgerBooks /\ row.adapter \in AdapterBooks
      /\ Agree(row.ledger, row.adapter) /\ EventsSound(row.adapter)
      /\ row.ledger.cursor = row.state.cursor
      /\ row.state.cursor \in 0..LastCandle
      /\ row.ledger.orders \in OrderBooks
  BY DEF RowOK, LedgerBooks, ReplayStates
<1>2. /\ s \in ReplayStates /\ s.cursor = k /\ s.trade = PositionAfter(row.state.trade, intent)
      /\ k = row.state.cursor + 1 /\ k \in 0..LastCandle
  BY <1>1, StepType DEF Step, Upcoming, Candles
<1>3. \A j \in Candles : row.ledger.orders[j] # None => j < k
  BY <1>1, <1>2 DEF RowOK, Candles
<1>4. Blocking(row.ledger) = {} /\ row.ledger.position = row.state.trade
  BY NoneBlocks
<1>5. CASE intent = None
  <2>1. next = [state |-> s, ledger |-> [row.ledger EXCEPT !.cursor = k],
                adapter |-> [row.adapter EXCEPT !.cursor = k]]
    BY <1>5, <1>2 DEF Transition
  <2>2. /\ next.ledger \in LedgerBooks /\ next.adapter \in AdapterBooks
        /\ next.ledger.orders = row.ledger.orders /\ next.ledger.fills = row.ledger.fills
        /\ next.ledger.position = row.ledger.position /\ next.ledger.cursor = k
        /\ next.adapter.orders = row.adapter.orders /\ next.adapter.fills = row.adapter.fills
        /\ next.adapter.position = row.adapter.position /\ next.adapter.cursor = k
        /\ next.adapter.events = row.adapter.events
    BY <2>1, <1>1, <1>2 DEF LedgerBooks, AdapterBooks
  <2>3. Agree(next.ledger, next.adapter) /\ EventsSound(next.adapter)
    BY <2>2, <1>1 DEF Agree, EventsSound, HasStatus
  <2>4. next.state = s /\ s.trade = row.state.trade
    BY <2>1, <1>5, <1>2 DEF PositionAfter
  <2>5. PositionFollows(next.state, next.ledger)
    <3>1. Blocking(next.ledger) = {}
      BY <1>4, <2>2 DEF Blocking, HasStatus
    <3> QED BY <3>1, <2>2, <2>4, <1>4 DEF PositionFollows
  <2>6. next \in [state : ReplayStates, ledger : LedgerBooks, adapter : AdapterBooks]
    BY <2>1, <2>2, <2>4, <1>2
  <2>7. \A j \in Candles : next.ledger.orders[j] # None => j <= next.ledger.cursor
    BY <2>2, <1>2, <1>3 DEF Candles
  <2>8. RowOK(next)
    BY <2>2, <2>3, <2>4, <2>5, <2>6, <2>7, <1>2 DEF RowOK
  <2> QED BY <2>8, <2>2, <2>4, <1>5
<1>6. CASE intent # None
  <2> DEFINE books == Submitted(old, k, intent)
  <2>1. /\ intent \in Intents
        /\ IF intent.type = "entry"
           THEN row.state.trade = None /\ intent.trade = k
           ELSE row.state.trade # None /\ intent.trade = row.state.trade
    BY <1>6, <1>1, IntentMeaning
  <2>2. row.ledger.orders[k] = None
    BY <1>3, <1>2 DEF Candles
  <2>3. decision = "accept_fill" =>
            row.ledger.position = IF intent.type = "entry" THEN None ELSE intent.trade
    BY <1>6 DEF Executable
  <2>4. /\ books.ledger \in LedgerBooks /\ books.adapter \in AdapterBooks
        /\ Agree(books.ledger, books.adapter) /\ EventsSound(books.adapter)
        /\ \E st \in Statuses :
             Writes(row.ledger, books.ledger, k, [intent |-> intent, status |-> st])
    BY <2>1, <2>2, <2>3, <1>1, SubmittedTogether
  <2>5. next = [state |-> s, ledger |-> [books.ledger EXCEPT !.cursor = k],
                adapter |-> [books.adapter EXCEPT !.cursor = k]]
    BY <1>6, <1>2 DEF Transition
  <2> HIDE DEF books
  <2>6. /\ next.ledger \in LedgerBooks /\ next.adapter \in AdapterBooks
        /\ next.ledger.orders = books.ledger.orders /\ next.ledger.fills = books.ledger.fills
        /\ next.ledger.position = books.ledger.position /\ next.ledger.cursor = k
        /\ next.adapter.orders = books.adapter.orders /\ next.adapter.fills = books.adapter.fills
        /\ next.adapter.position = books.adapter.position /\ next.adapter.cursor = k
        /\ next.adapter.events = books.adapter.events
    BY <2>5, <2>4, <1>2 DEF LedgerBooks, AdapterBooks
  <2>7. Agree(next.ledger, next.adapter) /\ EventsSound(next.adapter)
    BY <2>6, <2>4 DEF Agree, EventsSound, HasStatus
  <2>8. next.state = s
    BY <2>5
  <2>9. PICK st \in Statuses : Writes(row.ledger, next.ledger, k, [intent |-> intent, status |-> st])
    BY <2>4, <2>6 DEF Writes
  <2> DEFINE order == [intent |-> intent, status |-> st]
  <2>10. /\ order \in Orders /\ order # None
         /\ order.status = st /\ order.intent = intent
    BY <2>1, NoneAssumption DEF Orders
  <2> HIDE DEF order
  <2>11. \A j \in Candles : next.ledger.orders[j] = IF j = k THEN order ELSE row.ledger.orders[j]
    BY <2>9, <1>1 DEF Writes, OrderBooks, order
  <2>12. \A j \in Candles : next.ledger.orders[j] # None => j <= k
    BY <2>11, <1>2, <1>3 DEF Candles
  <2>13. PositionFollows(s, next.ledger)
    <3>1. Blocking(next.ledger) \subseteq {k}
      BY <2>11, <1>4 DEF Blocking, HasStatus
    <3>2. CASE st = "filled"
      <4>1. Blocking(next.ledger) = {}
        BY <3>1, <3>2, <2>10, <2>11 DEF Blocking, HasStatus
      <4>2. next.ledger.position = PositionAfter(row.ledger.position, intent)
        BY <2>9, <2>10, <3>2 DEF Writes, order
      <4> QED BY <4>1, <4>2, <1>2, <1>4 DEF PositionFollows
    <3>3. CASE st # "filled"
      <4>1. next.ledger.position = row.state.trade
        BY <2>9, <2>10, <3>3, <1>4 DEF Writes, order
      <4>2. s.trade = IF intent.type = "entry" THEN intent.trade ELSE None
        BY <1>2, <1>6 DEF PositionAfter
      <4>3. next.ledger.orders[k].intent = intent
        BY <2>10, <2>11
      <4>4. Awaits(s, next.ledger, k)
        BY <4>1, <4>2, <4>3, <2>1, <2>12 DEF Awaits
      <4>5. Blocking(next.ledger) # {}
        BY <2>10, <2>11, <3>3 DEF Blocking, HasStatus, Statuses
      <4> QED BY <4>4, <4>5, <3>1 DEF PositionFollows
    <3> QED BY <3>2, <3>3
  <2>14. next \in [state : ReplayStates, ledger : LedgerBooks, adapter : AdapterBooks]
    BY <2>5, <2>6, <2>8, <1>2
  <2>15. RowOK(next)
    BY <2>6, <2>7, <2>8, <2>12, <2>13, <2>14, <1>2 DEF RowOK
  <2> QED BY <2>2, <2>8, <2>9, <2>15, <1>6
<1> QED BY <1>5, <1>6

\* An answer of type type to the one order that blocks, or nothing at all.
Moves(row, next, k, type) ==
    /\ next.state = row.state
    /\ \/ next.ledger = row.ledger
       \/ /\ HasStatus(row.ledger, k, {"new", "accepted"})
          /\ Blocking(row.ledger) = {k} /\ Awaits(row.state, row.ledger, k)
          /\ Writes(row.ledger, next.ledger, k,
                    [intent |-> row.ledger.orders[k].intent, status |-> type])

\* A late event finds the order that blocks and moves it on, or is a repetition
\* and changes nothing.
LEMMA EventEffect ==
    ASSUME NEW row, RowOK(row), NEW k \in Candles, NEW type \in EventTypes,
           AdapterAdmits(row.adapter, Event(k, type)),
           NEW next,
           next = [state |-> row.state,
                   ledger |-> LedgerApply(row.ledger, Event(k, type)),
                   adapter |-> AdapterApply(row.adapter, Event(k, type))]
    PROVE  RowOK(next) /\ Moves(row, next, k, type)
<1>1. /\ row.state \in ReplayStates /\ row.ledger \in LedgerBooks /\ row.adapter \in AdapterBooks
      /\ Agree(row.ledger, row.adapter) /\ EventsSound(row.adapter)
      /\ row.ledger.orders \in OrderBooks
      /\ row = [state |-> row.state, ledger |-> row.ledger, adapter |-> row.adapter]
  BY DEF RowOK, LedgerBooks
<1> DEFINE books == Told([ledger |-> row.ledger, adapter |-> row.adapter], Event(k, type))
           order == [intent |-> row.ledger.orders[k].intent, status |-> type]
<1>2. next = [state |-> row.state, ledger |-> books.ledger, adapter |-> books.adapter]
  BY <1>1 DEF Told
<1> HIDE DEF order
<1>3. /\ books.ledger \in LedgerBooks /\ books.adapter \in AdapterBooks
      /\ Agree(books.ledger, books.adapter) /\ EventsSound(books.adapter)
      /\ books.ledger.cursor = row.ledger.cursor /\ books.adapter.cursor = row.adapter.cursor
      /\ IF Known(row.adapter, Event(k, type))
         THEN books.ledger = row.ledger
         ELSE /\ row.ledger.orders[k] # None
              /\ row.ledger.orders[k].status = IF type = "filled" THEN "accepted" ELSE "new"
              /\ books.ledger = AfterEvent(row.ledger, k, type)
  BY <1>1, ToldTogether
<1> HIDE DEF books
<1>4. /\ next.ledger = books.ledger /\ next.adapter = books.adapter /\ next.state = row.state
      /\ next \in [state : ReplayStates, ledger : LedgerBooks, adapter : AdapterBooks]
  <2>1. next.ledger = books.ledger /\ next.adapter = books.adapter /\ next.state = row.state
    BY <1>2
  <2>2. row.state \in ReplayStates /\ books.ledger \in LedgerBooks /\ books.adapter \in AdapterBooks
    BY <1>1, <1>3
  <2> QED BY <2>1, <2>2, <1>2
<1>5. SUFFICES /\ \A j \in Candles : next.ledger.orders[j] # None => j <= row.ledger.cursor
               /\ PositionFollows(row.state, next.ledger)
               /\ \/ next.ledger = row.ledger
                  \/ /\ HasStatus(row.ledger, k, {"new", "accepted"})
                     /\ Blocking(row.ledger) = {k} /\ Awaits(row.state, row.ledger, k)
                     /\ Writes(row.ledger, next.ledger, k, order)
  BY <1>3, <1>4 DEF RowOK, Moves, order
<1>6. CASE Known(row.adapter, Event(k, type))
  BY <1>3, <1>4, <1>6 DEF RowOK
<1>7. CASE ~Known(row.adapter, Event(k, type))
  <2>1. /\ row.ledger.orders[k] # None
        /\ row.ledger.orders[k].status = IF type = "filled" THEN "accepted" ELSE "new"
        /\ next.ledger = AfterEvent(row.ledger, k, type)
        /\ row.ledger.orders[k] \in Orders
    BY <1>1, <1>3, <1>4, <1>7 DEF OrderBooks
  <2>2. HasStatus(row.ledger, k, {"new", "accepted"}) /\ k \in Blocking(row.ledger)
    BY <2>1 DEF HasStatus, Blocking
  <2>3. Awaits(row.state, row.ledger, k) /\ Blocking(row.ledger) = {k}
    <3>1. \A j \in Blocking(row.ledger) : Awaits(row.state, row.ledger, j)
      BY <2>2 DEF RowOK, PositionFollows
    <3>2. \A j \in Blocking(row.ledger) : j \in Candles /\ row.ledger.orders[j] # None
      BY DEF Blocking, HasStatus
    <3>3. \A j \in Blocking(row.ledger) : j <= k /\ k <= j
      BY <3>1, <3>2, <2>1, <2>2 DEF Awaits
    <3>4. \A j \in Blocking(row.ledger) : j = k
      BY <3>2, <3>3 DEF Candles
    <3> QED BY <3>1, <3>4, <2>2
  <2>4. Writes(row.ledger, next.ledger, k, order)
    <3>1. [row.ledger.orders EXCEPT ![k] = [@ EXCEPT !.status = type]]
            = [row.ledger.orders EXCEPT ![k] = order]
      <4>1. [row.ledger.orders[k] EXCEPT !.status = type] = order
        BY <2>1 DEF Orders, order
      <4> QED BY <4>1
    <3>2. type \in Statuses
      BY DEF EventTypes, Statuses
    <3>3. /\ WithStatus(row.ledger, k, type).orders
                = [row.ledger.orders EXCEPT ![k] = [@ EXCEPT !.status = type]]
          /\ WithStatus(row.ledger, k, type).fills = row.ledger.fills
          /\ WithStatus(row.ledger, k, type).position = row.ledger.position
      BY <3>2, <2>1, <1>1, LedgerWrites, ZenonT(60)
    <3>4. /\ Filled(row.ledger, k).orders
                = [row.ledger.orders EXCEPT ![k] = [@ EXCEPT !.status = "filled"]]
          /\ Filled(row.ledger, k).fills = Append(row.ledger.fills, k)
          /\ Filled(row.ledger, k).position
                = PositionAfter(row.ledger.position, row.ledger.orders[k].intent)
      BY <3>2, <2>1, <1>1, LedgerWrites
    <3>5. order.status = type /\ order.intent = row.ledger.orders[k].intent
      BY DEF order
    <3>6. CASE type = "filled"
      <4>1. next.ledger = Filled(row.ledger, k)
        BY <3>6, <2>1 DEF AfterEvent
      <4> QED BY <4>1, <3>1, <3>4, <3>5, <3>6 DEF Writes
    <3>7. CASE type # "filled"
      <4>1. next.ledger = WithStatus(row.ledger, k, type)
        BY <3>7, <2>1 DEF AfterEvent
      <4> QED BY <4>1, <3>1, <3>3, <3>5, <3>7 DEF Writes
    <3> QED BY <3>6, <3>7
  <2>5. /\ order \in Orders /\ order # None
        /\ order.status = type /\ order.intent = row.ledger.orders[k].intent
    BY <2>1, NoneAssumption DEF Orders, order, EventTypes, Statuses
  <2>6. \A j \in Candles : next.ledger.orders[j] = IF j = k THEN order ELSE row.ledger.orders[j]
    BY <2>4, <1>1 DEF Writes, OrderBooks
  <2>7. \A j \in Candles : next.ledger.orders[j] # None => row.ledger.orders[j] # None
    BY <2>1, <2>6
  <2>8. Blocking(next.ledger) \subseteq {k}
    BY <2>3, <2>6 DEF Blocking, HasStatus
  <2>9. PositionFollows(row.state, next.ledger)
    <3>1. CASE type = "filled"
      <4>1. Blocking(next.ledger) = {}
        BY <2>5, <2>6, <2>8, <3>1 DEF Blocking, HasStatus
      <4>2. next.ledger.position = PositionAfter(row.ledger.position, order.intent)
        BY <2>4, <2>5, <3>1 DEF Writes
      <4>3. order.intent # None
        BY <2>5, NoneAssumption DEF Orders
      <4>4. next.ledger.position = row.state.trade
        BY <4>2, <4>3, <2>3, <2>5 DEF Awaits, PositionAfter
      <4> QED BY <4>1, <4>4 DEF PositionFollows
    <3>2. CASE type # "filled"
      <4>1. next.ledger.position = row.ledger.position
        BY <2>4, <2>5, <3>2 DEF Writes
      <4>2. Awaits(row.state, next.ledger, k)
        BY <4>1, <2>3, <2>5, <2>6, <2>7 DEF Awaits
      <4>3. k \in Blocking(next.ledger)
        BY <2>5, <2>6, <3>2 DEF Blocking, HasStatus, EventTypes
      <4> QED BY <4>2, <4>3, <2>8 DEF PositionFollows
    <3> QED BY <3>1, <3>2
  <2>10. \A j \in Candles : next.ledger.orders[j] # None => j <= row.ledger.cursor
    BY <2>7 DEF RowOK
  <2> QED BY <2>2, <2>3, <2>4, <2>9, <2>10
<1> QED BY <1>6, <1>7

-----------------------------------------------------------------------------
(* The inductive invariant.                                                *)

LEMMA EmptyRow ==
    RowOK([state |-> Initial, ledger |-> EmptyBook, adapter |-> EmptyAdapter])
<1> DEFINE row == [state |-> Initial, ledger |-> EmptyBook, adapter |-> EmptyAdapter]
<1>1. 0 \in 0..LastCandle
  BY BoundsAssumption
<1>2. Initial \in ReplayStates /\ EmptyBook \in LedgerBooks /\ EmptyAdapter \in AdapterBooks
  BY <1>1 DEF Initial, ReplayStates, EmptyBook, EmptyAdapter, LedgerBooks, AdapterBooks, OrderBooks
<1>3. \A k \in Candles : EmptyBook.orders[k] = None
  BY DEF EmptyBook
<1>4. Agree(EmptyBook, EmptyAdapter)
  BY DEF Agree, EmptyBook, EmptyAdapter
<1>5. EventsSound(EmptyAdapter)
  BY DEF EventsSound, EmptyAdapter
<1>6. PositionFollows(Initial, EmptyBook)
  <2>1. Blocking(EmptyBook) = {}
    BY <1>3 DEF Blocking, HasStatus
  <2> QED BY <2>1 DEF PositionFollows, EmptyBook, Initial
<1>7. EmptyBook.cursor = Initial.cursor /\ EmptyAdapter.cursor = Initial.cursor
  BY DEF EmptyBook, EmptyAdapter, Initial
<1> QED BY <1>2, <1>3, <1>4, <1>5, <1>6, <1>7 DEF RowOK

LEMMA InitIInv == Init => IInv
BY EmptyRow, BoundsAssumption DEF Init, IInv, ReplayStates

\* What any step does to the row: nothing, one candle, or one late event.
RowStays == db' = db

RowTakes ==
    /\ ~Unresolved(db.ledger) /\ ~Refused(db.ledger)
    /\ Upcoming(db.state) \in Candles
    /\ Executable(db, IntentAt(db.state))
    /\ db' = Transition(db)

RowAnswered(k, type) ==
    /\ AdapterAdmits(db.adapter, Event(k, type))
    /\ db' = [state |-> db.state,
              ledger |-> LedgerApply(db.ledger, Event(k, type)),
              adapter |-> AdapterApply(db.adapter, Event(k, type))]

LEMMA RowSteps ==
    ASSUME IInv, [Next]_vars
    PROVE  /\ feed' = feed /\ decision' = decision
           /\ mem' \in [Runtimes -> ReplayStates \cup {Unloaded}]
           /\ faults' \in 0..MaxFaults
           /\ \/ RowStays
              \/ RowTakes
              \/ \E k \in Candles, type \in EventTypes : RowAnswered(k, type)
<1> USE DEF IInv
<1>1. db = [state |-> db.state, ledger |-> db.ledger, adapter |-> db.adapter]
      /\ db.state \in ReplayStates
  BY DEF RowOK
<1>2. ASSUME NEW r \in Runtimes, Load(r)
      PROVE  RowStays /\ mem' \in [Runtimes -> ReplayStates \cup {Unloaded}]
  BY <1>1, <1>2 DEF Load, RowStays
<1>3. ASSUME NEW r \in Runtimes, Transaction(r)
      PROVE  RowTakes
  BY <1>3 DEF Transaction, Ready, RowTakes
<1>4. ASSUME NEW r \in Runtimes, Ready(r)
      PROVE  mem[r] \in ReplayStates /\ Step(mem[r]) \in ReplayStates
  BY <1>4, StepType DEF Ready
<1>5. ASSUME NEW r \in Runtimes, Save(r)
      PROVE  RowTakes /\ mem' \in [Runtimes -> ReplayStates \cup {Unloaded}]
  <2>1. RowTakes /\ Ready(r)
    BY <1>3, <1>5 DEF Save, Transaction
  <2> QED BY <2>1, <1>4, <1>5 DEF Save
<1>6. ASSUME NEW r \in Runtimes, SaveUnreported(r)
      PROVE  RowTakes /\ faults' \in 0..MaxFaults
  BY <1>3, <1>6, BoundsAssumption DEF SaveUnreported
<1>7. ASSUME NEW r \in Runtimes, SaveAgain(r)
      PROVE  RowStays /\ mem' \in [Runtimes -> ReplayStates \cup {Unloaded}]
  <2>1. Ready(r)
    BY <1>7 DEF SaveAgain
  <2> QED BY <2>1, <1>4, <1>7 DEF SaveAgain, RowStays
<1>8. ASSUME NEW r \in Runtimes, Crash(r)
      PROVE  /\ RowStays
             /\ mem' \in [Runtimes -> ReplayStates \cup {Unloaded}]
             /\ faults' \in 0..MaxFaults
  BY <1>8, BoundsAssumption DEF Crash, RowStays
<1>9. ASSUME NEW k \in Candles, NEW type \in EventTypes, ApplyAdapterEvent(k, type)
      PROVE  RowAnswered(k, type)
  <2> DEFINE ledger == LedgerApply(db.ledger, Event(k, type))
             adapter == AdapterApply(db.adapter, Event(k, type))
  <2>1. AdapterAdmits(db.adapter, Event(k, type))
        /\ db' = [db EXCEPT !.ledger = ledger, !.adapter = adapter]
    BY <1>9 DEF ApplyAdapterEvent, Told
  <2> HIDE DEF ledger, adapter
  <2>2. db' = [state |-> db.state, ledger |-> ledger, adapter |-> adapter]
    BY <2>1, <1>1
  <2> QED BY <2>1, <2>2 DEF RowAnswered, ledger, adapter
<1>10. CASE UNCHANGED vars
  BY <1>10 DEF vars, RowStays
<1>11. CASE Next
  <2>1. CASE \E r \in Runtimes : Load(r)
    BY <2>1, <1>2 DEF Load
  <2>2. CASE \E r \in Runtimes : Save(r)
    BY <2>2, <1>5 DEF Save
  <2>3. CASE \E r \in Runtimes : SaveUnreported(r)
    BY <2>3, <1>6 DEF SaveUnreported
  <2>4. CASE \E r \in Runtimes : SaveAgain(r)
    BY <2>4, <1>7 DEF SaveAgain
  <2>5. CASE \E r \in Runtimes : Crash(r)
    BY <2>5, <1>8 DEF Crash
  <2>6. CASE \E k \in Candles, type \in EventTypes : ApplyAdapterEvent(k, type)
    BY <2>6, <1>9 DEF ApplyAdapterEvent
  <2> QED BY <2>1, <2>2, <2>3, <2>4, <2>5, <2>6, <1>11 DEF Next
<1> QED BY <1>10, <1>11

LEMMA NextIInv == IInv /\ [Next]_vars => IInv'
<1> SUFFICES ASSUME IInv, [Next]_vars
             PROVE  IInv'
  OBVIOUS
<1>1. /\ feed' = feed /\ decision' = decision
      /\ mem' \in [Runtimes -> ReplayStates \cup {Unloaded}]
      /\ faults' \in 0..MaxFaults
      /\ \/ RowStays
         \/ RowTakes
         \/ \E k \in Candles, type \in EventTypes : RowAnswered(k, type)
  BY RowSteps
<1>2. feed \in [Candles -> Signals] /\ decision \in AllDecisions /\ RowOK(db)
  BY DecisionsAssumption DEF IInv
<1>3. RowOK(db')
  <2>1. CASE RowStays
    BY <2>1, <1>2 DEF RowStays
  <2>2. CASE RowTakes
    <3>1. /\ ~Unresolved(db.ledger) /\ ~Refused(db.ledger)
          /\ Upcoming(db.state) \in Candles /\ Executable(db, IntentAt(db.state))
          /\ db' = Transition(db)
      BY <2>2 DEF RowTakes
    <3>2. \A next : next = Transition(db) => RowOK(next)
      BY <3>1, <1>2, TransitionEffect
    <3> QED BY <3>1, <3>2
  <2>3. CASE \E k \in Candles, type \in EventTypes : RowAnswered(k, type)
    <3>1. PICK k \in Candles, type \in EventTypes : RowAnswered(k, type)
      BY <2>3
    <3> DEFINE row == [state |-> db.state,
                       ledger |-> LedgerApply(db.ledger, Event(k, type)),
                       adapter |-> AdapterApply(db.adapter, Event(k, type))]
    <3>2. AdapterAdmits(db.adapter, Event(k, type)) /\ db' = row
      BY <3>1 DEF RowAnswered
    <3>3. \A next : next = row => RowOK(next)
      BY <3>2, <1>2, EventEffect
    <3> QED BY <3>2, <3>3
  <2> QED BY <2>1, <2>2, <2>3, <1>1
<1>4. RowOK(db)'
  BY <1>3 DEF RowOK, Agree, EventsSound, PositionFollows, Blocking, Awaits, HasStatus
<1> QED BY <1>1, <1>4 DEF IInv

\* The inductive invariant holds throughout.
THEOREM ExecutionIInv == Spec => []IInv
BY InitIInv, NextIInv, PTL DEF Spec

-----------------------------------------------------------------------------
(* What follows from it.                                                   *)

\* The row, the memories of the processes and the fault count keep their types.
THEOREM ExecutionTypeOK == Spec => []TypeOK
<1>1. IInv => TypeOK
  BY DEF IInv, RowOK, TypeOK
<1> QED BY <1>1, ExecutionIInv, PTL

\* _reconcile_pair never raises: ledger and adapter agree after every candle and
\* after every late, repeated or reordered event, under every policy.
THEOREM ExecutionBooksAgree == Spec => []BooksAgree
<1>1. IInv => BooksAgree
  BY DEF IInv, RowOK, Agree, BooksAgree
<1> QED BY <1>1, ExecutionIInv, PTL

LEMMA LatestIs ==
    ASSUME NEW ledger, NEW k \in Candles, ledger.orders[k] # None, NEW trade,
           ledger.orders[k].intent.trade = trade,
           \A j \in Candles : ledger.orders[j] # None => j <= k
    PROVE  LatestOrder(ledger, trade) = ledger.orders[k]
<1> DEFINE own == {j \in Candles : ledger.orders[j] # None /\ ledger.orders[j].intent.trade = trade}
<1>1. k \in own /\ \A j \in own : j <= k
  OBVIOUS
<1> DEFINE latest == CHOOSE i \in own : \A j \in own : j <= i
<1>2. latest \in own /\ \A j \in own : j <= latest
  BY <1>1
<1>3. latest \in Candles /\ k \in Candles /\ latest <= k /\ k <= latest
  BY <1>1, <1>2
<1> HIDE DEF latest
<1>4. latest = k
  BY <1>3 DEF Candles
<1> QED BY <1>1, <1>4 DEF LatestOrder, latest

\* No durable row is an unexplained divergence, so the classification that
\* follows the commit never reports a durable candle as lost.
THEOREM ExecutionExplained == Spec => []Explained
<1>1. ASSUME IInv PROVE Explained
  <2> DEFINE s == db.state
             ledger == db.ledger
  <2>1. s.trade \in Candles \cup {None} /\ None \notin Candles
        /\ PositionFollows(s, ledger) /\ ledger.orders \in OrderBooks
    BY <1>1, NoneAssumption DEF IInv, RowOK, ReplayStates, LedgerBooks
  <2> HIDE DEF s, ledger
  <2>2. CASE Blocking(ledger) = {}
    <3>1. ledger.position = s.trade
      BY <2>1, <2>2 DEF PositionFollows
    <3> QED BY <3>1 DEF Explained, Classification, s, ledger
  <2>3. CASE Blocking(ledger) # {}
    <3>1. PICK k \in Candles : HasStatus(ledger, k, {"new", "accepted", "rejected"})
                              /\ Awaits(s, ledger, k)
      BY <2>1, <2>3 DEF PositionFollows, Blocking
    <3>2. /\ ledger.orders[k] # None /\ ledger.orders[k] \in Orders
          /\ ledger.orders[k].status \in {"new", "accepted", "rejected"}
          /\ \A j \in Candles : ledger.orders[j] # None => j <= k
      BY <3>1, <2>1 DEF HasStatus, Awaits, OrderBooks
    <3>3. LatestOrder(ledger, ledger.orders[k].intent.trade) = ledger.orders[k]
      BY <3>2, LatestIs
    <3>4. CASE ledger.orders[k].intent.type = "entry"
      <4>1. /\ s.trade = k /\ ledger.orders[k].intent.trade = k /\ ledger.position = None
            /\ k # None
        BY <3>1, <3>4, <2>1 DEF Awaits
      <4> QED BY <4>1, <3>2, <3>3, <3>4 DEF Explained, Classification, s, ledger
    <3>5. CASE ledger.orders[k].intent.type # "entry"
      <4>1. /\ s.trade = None /\ ledger.position = ledger.orders[k].intent.trade
            /\ ledger.orders[k].intent.trade # None
        BY <3>1, <3>2, <3>5, <2>1 DEF Awaits, Orders, Intents
      <4> QED BY <4>1, <3>2, <3>3, <3>5 DEF Explained, Classification, s, ledger
    <3> QED BY <3>4, <3>5
  <2> QED BY <2>2, <2>3
<1> QED BY <1>1, ExecutionIInv, PTL

\* Runtimes that share a database never all lose touch with it.
THEOREM ExecutionNoStandoff == Spec => []NoStandoff
<1>1. Init => NoStandoff
  BY RuntimesAssumption DEF Init, NoStandoff, InTouch
<1>2. IInv /\ NoStandoff /\ [Next]_vars => NoStandoff'
  <2> SUFFICES ASSUME IInv, NoStandoff, [Next]_vars
               PROVE  NoStandoff'
    OBVIOUS
  <2>0. mem \in [Runtimes -> ReplayStates \cup {Unloaded}]
    BY DEF IInv
  <2>1. PICK q \in Runtimes : InTouch(q)
    BY DEF NoStandoff
  <2>2. ASSUME NEW r \in Runtimes, Load(r) PROVE NoStandoff'
    BY <2>0, <2>2 DEF Load, NoStandoff, InTouch
  <2>3. ASSUME NEW r \in Runtimes, Transaction(r)
        PROVE  db'.state = Step(mem[r])
    BY <2>3 DEF Transaction, Transition
  <2>4. ASSUME NEW r \in Runtimes, Save(r) PROVE NoStandoff'
    <3>1. mem'[r] = Step(mem[r]) /\ db'.state = Step(mem[r])
      BY <2>0, <2>3, <2>4 DEF Save
    <3> QED BY <3>1 DEF NoStandoff, InTouch
  <2>5. ASSUME NEW r \in Runtimes, SaveUnreported(r) PROVE NoStandoff'
    <3>1. mem' = mem /\ feed' = feed /\ db'.state = Step(mem[r])
      BY <2>3, <2>5 DEF SaveUnreported
    <3>2. Step(mem[r])' = Step(mem[r])
      BY <3>1 DEF Step, IntentAt, Upcoming, PositionAfter
    <3> QED BY <3>1, <3>2 DEF NoStandoff, InTouch
  <2>6. ASSUME NEW r \in Runtimes, SaveAgain(r) PROVE NoStandoff'
    BY <2>0, <2>6 DEF SaveAgain, NoStandoff, InTouch
  <2>7. ASSUME NEW r \in Runtimes, Crash(r) PROVE NoStandoff'
    BY <2>0, <2>7 DEF Crash, NoStandoff, InTouch
  <2>8. ASSUME feed' = feed, mem' = mem, db'.state = db.state PROVE NoStandoff'
    <3>1. Step(mem[q])' = Step(mem[q])
      BY <2>8 DEF Step, IntentAt, Upcoming, PositionAfter
    <3> QED BY <2>1, <2>8, <3>1 DEF NoStandoff, InTouch
  <2>9. ASSUME NEW k \in Candles, NEW type \in EventTypes, ApplyAdapterEvent(k, type)
        PROVE  NoStandoff'
    <3>1. db \in [state : ReplayStates, ledger : LedgerBooks, adapter : AdapterBooks]
      BY DEF IInv, RowOK
    <3> QED BY <2>8, <2>9, <3>1 DEF ApplyAdapterEvent
  <2>10. CASE UNCHANGED vars
    BY <2>8, <2>10 DEF vars
  <2> QED BY <2>2, <2>4, <2>5, <2>6, <2>7, <2>9, <2>10 DEF Next
<1> QED BY <1>1, <1>2, ExecutionIInv, PTL DEF Spec

-----------------------------------------------------------------------------
(* The shape of a step, and the action property.                           *)

\* The next candle, with an order of status st if it asks for one.
Took ==
    LET k == Upcoming(db.state)
        intent == IntentAt(db.state)
    IN  /\ k \in Candles
        /\ ~Unresolved(db.ledger) /\ ~Refused(db.ledger)
        /\ Blocking(db.ledger) = {} /\ db.ledger.position = db.state.trade
        /\ db'.state = Step(db.state)
        /\ \/ /\ intent = None
              /\ db'.ledger.orders = db.ledger.orders
              /\ db'.ledger.fills = db.ledger.fills
              /\ db'.ledger.position = db.ledger.position
           \/ /\ intent \in Intents
              /\ IF intent.type = "entry"
                 THEN db.state.trade = None /\ intent.trade = k
                 ELSE db.state.trade # None /\ intent.trade = db.state.trade
              /\ db.ledger.orders[k] = None
              /\ \E st \in Statuses :
                    Writes(db.ledger, db'.ledger, k, [intent |-> intent, status |-> st])

\* The one order that blocks is answered.
Answered(k, type) ==
    /\ db'.state = db.state
    /\ HasStatus(db.ledger, k, {"new", "accepted"})
    /\ Blocking(db.ledger) = {k} /\ Awaits(db.state, db.ledger, k)
    /\ Writes(db.ledger, db'.ledger, k,
              [intent |-> db.ledger.orders[k].intent, status |-> type])

LEMMA Shape ==
    ASSUME IInv, [Next]_vars
    PROVE  \/ db'.state = db.state /\ db'.ledger = db.ledger
           \/ Took
           \/ \E k \in Candles, type \in EventTypes : Answered(k, type)
<1>1. \/ RowStays
      \/ RowTakes
      \/ \E k \in Candles, type \in EventTypes : RowAnswered(k, type)
  BY RowSteps
<1>2. /\ feed \in [Candles -> Signals] /\ decision \in AllDecisions /\ RowOK(db)
      /\ db.state \in ReplayStates
  BY DecisionsAssumption DEF IInv, RowOK
<1>3. CASE RowStays
  BY <1>3 DEF RowStays
<1>4. CASE RowTakes
  <2> DEFINE k == Upcoming(db.state)
             intent == IntentAt(db.state)
  <2>1. /\ ~Unresolved(db.ledger) /\ ~Refused(db.ledger)
        /\ k \in Candles /\ Executable(db, intent) /\ db' = Transition(db)
    BY <1>4 DEF RowTakes
  <2>2. Blocking(db.ledger) = {} /\ db.ledger.position = db.state.trade
    BY <2>1, <1>2, NoneBlocks
  <2>3. \A next : next = Transition(db) =>
            /\ next.state = Step(db.state)
            /\ IF intent = None
               THEN /\ next.ledger.orders = db.ledger.orders
                    /\ next.ledger.fills = db.ledger.fills
                    /\ next.ledger.position = db.ledger.position
               ELSE /\ db.ledger.orders[k] = None
                    /\ \E st \in Statuses :
                         Writes(db.ledger, next.ledger, k, [intent |-> intent, status |-> st])
    BY <2>1, <1>2, TransitionEffect
  <2>4. intent # None =>
            /\ intent \in Intents
            /\ IF intent.type = "entry"
               THEN db.state.trade = None /\ intent.trade = k
               ELSE db.state.trade # None /\ intent.trade = db.state.trade
    BY <2>1, <1>2, IntentMeaning
  <2> HIDE DEF k, intent
  <2>5. CASE intent = None
    BY <2>1, <2>2, <2>3, <2>5 DEF Took, k, intent
  <2>6. CASE intent # None
    BY <2>1, <2>2, <2>3, <2>4, <2>6 DEF Took, k, intent
  <2> QED BY <2>5, <2>6
<1>5. CASE \E k \in Candles, type \in EventTypes : RowAnswered(k, type)
  <2>1. PICK k \in Candles, type \in EventTypes : RowAnswered(k, type)
    BY <1>5
  <2> DEFINE row == [state |-> db.state,
                     ledger |-> LedgerApply(db.ledger, Event(k, type)),
                     adapter |-> AdapterApply(db.adapter, Event(k, type))]
  <2>2. AdapterAdmits(db.adapter, Event(k, type)) /\ db' = row
    BY <2>1 DEF RowAnswered
  <2>3. \A next : next = row => Moves(db, next, k, type)
    BY <2>2, <1>2, EventEffect
  <2> HIDE DEF row
  <2>4. (db'.state = db.state /\ db'.ledger = db.ledger) \/ Answered(k, type)
    BY <2>2, <2>3 DEF Answered, Moves
  <2> QED BY <2>4
<1> QED BY <1>1, <1>3, <1>4, <1>5

\* What HistoryFinal says of the fills and orders of two ledgers.
Extends(before, after) ==
    /\ \E n \in 0..1 : Len(after.fills) = Len(before.fills) + n
    /\ \A i \in DOMAIN before.fills : after.fills[i] = before.fills[i]
    /\ \A k \in Candles : before.orders[k] # None =>
        /\ after.orders[k].intent = before.orders[k].intent
        /\ HasStatus(before, k, {"filled", "rejected"}) => after.orders[k] = before.orders[k]

LEMMA SameExtends ==
    ASSUME NEW before \in LedgerBooks, NEW after,
           after.fills = before.fills, after.orders = before.orders
    PROVE  Extends(before, after)
<1>1. Len(before.fills) \in Nat
  BY DEF LedgerBooks
<1> QED BY <1>1 DEF Extends

LEMMA WritesExtends ==
    ASSUME NEW before \in LedgerBooks, NEW after, NEW k \in Candles, NEW order,
           Writes(before, after, k, order),
           before.orders[k] # None =>
                /\ order.intent = before.orders[k].intent
                /\ ~HasStatus(before, k, {"filled", "rejected"})
    PROVE  Extends(before, after)
<1>1. before.fills \in Seq(Candles) /\ before.orders \in OrderBooks
  BY DEF LedgerBooks
<1>2. after.fills = before.fills \/ after.fills = Append(before.fills, k)
  BY DEF Writes
<1>3. /\ \E n \in 0..1 : Len(after.fills) = Len(before.fills) + n
      /\ \A i \in DOMAIN before.fills : after.fills[i] = before.fills[i]
  <2>1. CASE after.fills = before.fills
    BY <1>1, <2>1
  <2>2. CASE after.fills = Append(before.fills, k)
    BY <1>1, <2>2
  <2> QED BY <1>2, <2>1, <2>2
<1>4. \A j \in Candles : after.orders[j] = IF j = k THEN order ELSE before.orders[j]
  BY <1>1 DEF Writes, OrderBooks
<1> QED BY <1>3, <1>4 DEF Extends

\* Durable history is final under every interleaving, fault and late answer: fills
\* are only appended, orders keep their intent and their last status, and the
\* replay state moves one candle at a time, never past an unsettled order.
THEOREM ExecutionHistoryFinal == Spec => HistoryFinal
<1> DEFINE Final ==
        /\ db'.state # db.state =>
            /\ db'.state = Step(db.state)
            /\ ~Unresolved(db.ledger) /\ ~Refused(db.ledger)
        /\ \E n \in 0..1 : Len(db'.ledger.fills) = Len(db.ledger.fills) + n
        /\ \A i \in DOMAIN db.ledger.fills : db'.ledger.fills[i] = db.ledger.fills[i]
        /\ \A k \in Candles : db.ledger.orders[k] # None =>
            /\ db'.ledger.orders[k].intent = db.ledger.orders[k].intent
            /\ HasStatus(db.ledger, k, {"filled", "rejected"}) =>
                db'.ledger.orders[k] = db.ledger.orders[k]
<1>1. ASSUME IInv, [Next]_vars PROVE Final
  <2>0. db.ledger \in LedgerBooks
    BY <1>1 DEF IInv, RowOK
  <2>1. CASE db'.state = db.state /\ db'.ledger = db.ledger
    <3>1. Extends(db.ledger, db'.ledger)
      BY <2>0, <2>1, SameExtends
    <3> QED BY <2>1, <3>1 DEF Extends
  <2>2. CASE Took
    <3>1. Extends(db.ledger, db'.ledger)
      <4>1. CASE db'.ledger.orders = db.ledger.orders /\ db'.ledger.fills = db.ledger.fills
        BY <2>0, <4>1, SameExtends
      <4>2. CASE ~(db'.ledger.orders = db.ledger.orders /\ db'.ledger.fills = db.ledger.fills)
        <5>1. PICK st \in Statuses :
                Writes(db.ledger, db'.ledger, Upcoming(db.state),
                       [intent |-> IntentAt(db.state), status |-> st])
          BY <2>2, <4>2 DEF Took
        <5>2. Upcoming(db.state) \in Candles /\ db.ledger.orders[Upcoming(db.state)] = None
          BY <2>2, <4>2 DEF Took
        <5> QED BY <2>0, <5>1, <5>2, WritesExtends
      <4> QED BY <4>1, <4>2
    <3> QED BY <2>2, <3>1 DEF Took, Extends
  <2>3. ASSUME NEW k \in Candles, NEW type \in EventTypes, Answered(k, type)
        PROVE  Final
    <3> DEFINE order == [intent |-> db.ledger.orders[k].intent, status |-> type]
    <3>1. /\ Writes(db.ledger, db'.ledger, k, order)
          /\ ~HasStatus(db.ledger, k, {"filled", "rejected"})
          /\ order.intent = db.ledger.orders[k].intent
      BY <2>3 DEF Answered, HasStatus
    <3> HIDE DEF order
    <3>2. Extends(db.ledger, db'.ledger)
      BY <2>0, <3>1, WritesExtends
    <3> QED BY <2>3, <3>2 DEF Answered, Extends
  <2> QED BY <1>1, <2>1, <2>2, <2>3, Shape
<1>2. IInv /\ [Next]_vars => [Final]_vars
  BY <1>1
<1> QED BY <1>2, ExecutionIInv, PTL DEF Spec, HistoryFinal

-----------------------------------------------------------------------------
(* The store implements PaperTrading.                                      *)

OutstandingOf(ledger) == {k \in Candles : HasStatus(ledger, k, {"new", "accepted"})}

PledgeOf(ledger, k) ==
    [opens |-> ledger.orders[k].intent.type = "entry", trade |-> ledger.orders[k].intent.trade]

OrderOf(ledger) ==
    IF OutstandingOf(ledger) = {} THEN None
    ELSE PledgeOf(ledger, CHOOSE k \in OutstandingOf(ledger) : TRUE)

\* The state of PaperTrading that a row stands for.
LEMMA OrderMapped ==
    /\ (IF Outstanding = {} THEN None ELSE Pledge(CHOOSE k \in Outstanding : TRUE))
            = OrderOf(db.ledger)
    /\ (IF Outstanding = {} THEN None ELSE Pledge(CHOOSE k \in Outstanding : TRUE))'
            = OrderOf(db'.ledger)
    /\ Refused(db.ledger)' = Refused(db'.ledger)
    /\ \A ledger : Refused(ledger) \in BOOLEAN
<1>1. Outstanding = OutstandingOf(db.ledger) /\ Outstanding' = OutstandingOf(db'.ledger)
  BY DEF Outstanding, OutstandingOf, HasStatus
<1>2. \A k : Pledge(k) = PledgeOf(db.ledger, k) /\ Pledge(k)' = PledgeOf(db'.ledger, k)
  BY DEF Pledge, PledgeOf
<1>3. /\ (IF Outstanding = {} THEN None ELSE Pledge(CHOOSE k \in Outstanding : TRUE))
            = OrderOf(db.ledger)
      /\ (IF Outstanding = {} THEN None ELSE Pledge(CHOOSE k \in Outstanding : TRUE))'
            = OrderOf(db'.ledger)
  BY <1>1, <1>2 DEF OrderOf
<1>4. Refused(db.ledger)' = Refused(db'.ledger) /\ \A ledger : Refused(ledger) \in BOOLEAN
  BY DEF Refused, HasStatus
<1> QED BY <1>3, <1>4

\* The actions of PaperTrading, said of two ledgers.
LEMMA AbstractStays ==
    ASSUME db'.state.cursor = db.state.cursor, db'.ledger.position = db.ledger.position,
           OrderOf(db'.ledger) = OrderOf(db.ledger), Refused(db'.ledger) = Refused(db.ledger)
    PROVE  UNCHANGED Abstract!vars
BY OrderMapped DEF Abstract!vars

LEMMA AbstractSettles ==
    ASSUME NEW o, OrderOf(db'.ledger) = None, Refused(db'.ledger) = Refused(db.ledger),
           db'.ledger.position = IF o.opens THEN o.trade ELSE None
    PROVE  Abstract!Settle(o)
BY OrderMapped DEF Abstract!Settle, Abstract!HoldingAfter

LEMMA AbstractRefuses ==
    ASSUME OrderOf(db'.ledger) = None, Refused(db'.ledger),
           db'.ledger.position = db.ledger.position
    PROVE  Abstract!Refuse
BY OrderMapped DEF Abstract!Refuse

LEMMA AbstractTakes ==
    ASSUME OrderOf(db.ledger) = None, ~Refused(db.ledger),
           db.state.cursor + 1 \in Candles, db'.state.cursor = db.state.cursor + 1,
           \/ /\ db'.ledger.position = db.ledger.position
              /\ OrderOf(db'.ledger) = OrderOf(db.ledger)
              /\ Refused(db'.ledger) = Refused(db.ledger)
           \/ /\ OrderOf(db'.ledger) = Abstract!Wanted(db.state.cursor + 1)
              /\ db'.ledger.position = db.ledger.position
              /\ Refused(db'.ledger) = Refused(db.ledger)
           \/ Abstract!Settle(Abstract!Wanted(db.state.cursor + 1))
           \/ Abstract!Refuse
    PROVE  Abstract!Next
BY OrderMapped DEF Abstract!Next, Abstract!Take

LEMMA AbstractAnswers ==
    ASSUME OrderOf(db.ledger) # None, db'.state.cursor = db.state.cursor,
           Abstract!Settle(OrderOf(db.ledger)) \/ Abstract!Refuse
    PROVE  Abstract!Next
BY OrderMapped DEF Abstract!Next, Abstract!Answer

LEMMA OrderOfOne ==
    ASSUME NEW ledger, NEW k, OutstandingOf(ledger) = {k}
    PROVE  OrderOf(ledger) = PledgeOf(ledger, k)
<1>1. (CHOOSE j \in {k} : TRUE) = k
  OBVIOUS
<1> QED BY <1>1 DEF OrderOf

\* How the outstanding order and the refusal follow from writing one order into a
\* ledger where no other order blocks.
LEMMA WrittenOrder ==
    ASSUME NEW before \in LedgerBooks, NEW after, NEW k \in Candles,
           NEW intent \in Intents, NEW st \in Statuses,
           Writes(before, after, k, [intent |-> intent, status |-> st]),
           Blocking(before) \subseteq {k}
    PROVE  /\ st \in {"new", "accepted"} =>
                /\ OrderOf(after) = [opens |-> intent.type = "entry", trade |-> intent.trade]
                /\ after.position = before.position
                /\ ~Refused(after)
           /\ st = "rejected" =>
                OrderOf(after) = None /\ after.position = before.position /\ Refused(after)
           /\ st = "filled" =>
                /\ OrderOf(after) = None /\ ~Refused(after)
                /\ after.position = IF intent.type = "entry" THEN intent.trade ELSE None
<1> DEFINE order == [intent |-> intent, status |-> st]
<1>1. order \in Orders /\ order # None /\ intent # None /\ before.orders \in OrderBooks
  BY NoneAssumption DEF Orders, LedgerBooks
<1>2. /\ \A j \in Candles : after.orders[j] = IF j = k THEN order ELSE before.orders[j]
      /\ after.position = IF st = "filled" THEN PositionAfter(before.position, intent)
                          ELSE before.position
  BY <1>1 DEF Writes, OrderBooks
<1>3. \A j \in Candles : j # k => ~HasStatus(before, j, {"new", "accepted", "rejected"})
  BY DEF Blocking
<1>4. /\ order.status = st /\ order.intent = intent
  OBVIOUS
<1> HIDE DEF order
<1>5. \A j \in Candles : HasStatus(after, j, {"new", "accepted"})
                            <=> j = k /\ st \in {"new", "accepted"}
  BY <1>1, <1>2, <1>3, <1>4 DEF HasStatus
<1>6. \A j \in Candles : HasStatus(after, j, {"rejected"}) <=> j = k /\ st = "rejected"
  BY <1>1, <1>2, <1>3, <1>4 DEF HasStatus
<1>7. Refused(after) <=> st = "rejected"
  BY <1>6 DEF Refused
<1>8. CASE st \in {"new", "accepted"}
  <2>1. OutstandingOf(after) = {k}
    BY <1>5, <1>8 DEF OutstandingOf
  <2>2. OrderOf(after) = PledgeOf(after, k)
    BY <2>1, OrderOfOne
  <2>3. after.orders[k].intent = intent
    BY <1>2, <1>4
  <2> QED BY <2>2, <2>3, <1>2, <1>7, <1>8 DEF PledgeOf
<1>9. CASE st \notin {"new", "accepted"}
  <2>1. OutstandingOf(after) = {}
    BY <1>5, <1>9 DEF OutstandingOf
  <2> QED BY <2>1, <1>1, <1>2, <1>7, <1>9 DEF OrderOf, PositionAfter
<1> QED BY <1>8, <1>9

LEMMA StepAbstract ==
    ASSUME IInv, [Next]_vars
    PROVE  [Abstract!Next]_(Abstract!vars)
<1>0. db.ledger \in LedgerBooks /\ db.state \in ReplayStates
      /\ db.ledger.orders \in OrderBooks
      /\ \A ledger : Refused(ledger) \in BOOLEAN
  BY OrderMapped DEF IInv, RowOK, LedgerBooks
<1>1. CASE db'.state = db.state /\ db'.ledger = db.ledger
  BY <1>1, AbstractStays
<1>2. CASE Took
  <2> DEFINE k == Upcoming(db.state)
             intent == IntentAt(db.state)
             wanted == [opens |-> intent.type = "entry", trade |-> intent.trade]
  <2>1. /\ k \in Candles /\ k = db.state.cursor + 1 /\ db'.state.cursor = db.state.cursor + 1
        /\ ~Refused(db.ledger) /\ Blocking(db.ledger) = {}
        /\ db.ledger.position = db.state.trade
    BY <1>2 DEF Took, Step, Upcoming
  <2>2. OrderOf(db.ledger) = None
    BY <2>1 DEF OrderOf, OutstandingOf, Blocking, HasStatus
  <2>3. CASE db'.ledger.orders = db.ledger.orders /\ db'.ledger.position = db.ledger.position
    <3>1. OrderOf(db'.ledger) = OrderOf(db.ledger)
      <4>1. OutstandingOf(db'.ledger) = OutstandingOf(db.ledger)
        BY <2>3 DEF OutstandingOf, HasStatus
      <4>2. \A j : PledgeOf(db'.ledger, j) = PledgeOf(db.ledger, j)
        BY <2>3 DEF PledgeOf
      <4> QED BY <4>1, <4>2 DEF OrderOf
    <3>2. Refused(db'.ledger) = Refused(db.ledger)
      BY <2>3 DEF Refused, HasStatus
    <3> QED BY <2>1, <2>2, <2>3, <3>1, <3>2, AbstractTakes
  <2>4. CASE ~(db'.ledger.orders = db.ledger.orders /\ db'.ledger.position = db.ledger.position)
    <3>1. /\ intent \in Intents
          /\ IF intent.type = "entry"
             THEN db.state.trade = None /\ intent.trade = k
             ELSE db.state.trade # None /\ intent.trade = db.state.trade
          /\ \E st \in Statuses :
                Writes(db.ledger, db'.ledger, k, [intent |-> intent, status |-> st])
      BY <1>2, <2>4 DEF Took
    <3>2. PICK st \in Statuses :
            Writes(db.ledger, db'.ledger, k, [intent |-> intent, status |-> st])
      BY <3>1
    <3>3. Abstract!Wanted(db.state.cursor + 1) = wanted
      BY <2>1, <3>1 DEF Abstract!Wanted, Abstract!Entry, Abstract!Close
    <3>4. Blocking(db.ledger) \subseteq {k}
      BY <2>1
    <3> HIDE DEF k, intent
    <3>5. CASE st \in {"new", "accepted"}
      <4>1. OrderOf(db'.ledger) = wanted /\ db'.ledger.position = db.ledger.position
            /\ ~Refused(db'.ledger)
        BY <2>1, <3>1, <3>2, <3>4, <3>5, <1>0, WrittenOrder
      <4>2. Refused(db'.ledger) = Refused(db.ledger)
        BY <4>1, <2>1, <1>0
      <4> QED BY <4>1, <4>2, <2>1, <2>2, <3>3, AbstractTakes DEF k
    <3>6. CASE st = "rejected"
      <4>1. OrderOf(db'.ledger) = None /\ db'.ledger.position = db.ledger.position
            /\ Refused(db'.ledger)
        BY <2>1, <3>1, <3>2, <3>4, <3>6, <1>0, WrittenOrder
      <4>2. Abstract!Refuse
        BY <4>1, AbstractRefuses
      <4> QED BY <4>2, <2>1, <2>2, AbstractTakes DEF k
    <3>7. CASE st = "filled"
      <4>1. /\ OrderOf(db'.ledger) = None /\ ~Refused(db'.ledger)
            /\ db'.ledger.position = IF intent.type = "entry" THEN intent.trade ELSE None
        BY <2>1, <3>1, <3>2, <3>4, <3>7, <1>0, WrittenOrder
      <4>2. Refused(db'.ledger) = Refused(db.ledger)
        BY <4>1, <2>1, <1>0
      <4>3. Abstract!Settle(wanted)
        BY <4>1, <4>2, AbstractSettles
      <4> QED BY <4>3, <3>3, <2>1, <2>2, AbstractTakes DEF k
    <3> QED BY <3>2, <3>5, <3>6, <3>7 DEF Statuses
  <2> QED BY <2>3, <2>4
<1>3. ASSUME NEW k \in Candles, NEW type \in EventTypes, Answered(k, type)
      PROVE  [Abstract!Next]_(Abstract!vars)
  <2> DEFINE intent == db.ledger.orders[k].intent
             pledge == [opens |-> intent.type = "entry", trade |-> intent.trade]
  <2>1. /\ db'.state.cursor = db.state.cursor
        /\ Blocking(db.ledger) = {k} /\ Blocking(db.ledger) \subseteq {k}
        /\ db.ledger.orders[k] \in Orders /\ intent \in Intents /\ type \in Statuses
        /\ HasStatus(db.ledger, k, {"new", "accepted"})
        /\ Writes(db.ledger, db'.ledger, k, [intent |-> intent, status |-> type])
    BY <1>3, <1>0 DEF Answered, HasStatus, OrderBooks, Orders, EventTypes, Statuses
  <2>2. OrderOf(db.ledger) = pledge
    <3>1. OutstandingOf(db.ledger) = {k}
      BY <2>1 DEF OutstandingOf, Blocking, HasStatus
    <3> QED BY <3>1, OrderOfOne DEF PledgeOf
  <2>3. ~Refused(db.ledger)
    BY <2>1 DEF Refused, Blocking, HasStatus
  <2>4. pledge # None
    <3>1. pledge \in Pledges
      BY <2>1 DEF Pledges, Intents
    <3> QED BY <3>1, NoneAssumption
  <2> HIDE DEF intent
  <2>5. CASE type = "accepted"
    <3>1. OrderOf(db'.ledger) = pledge /\ db'.ledger.position = db.ledger.position
          /\ ~Refused(db'.ledger)
      <4>1. type \in {"new", "accepted"}
        BY <2>5
      <4> QED BY <4>1, <2>1, <1>0, WrittenOrder, ZenonT(60)
    <3>2. Refused(db'.ledger) = Refused(db.ledger)
      BY <3>1, <2>3, <1>0
    <3> QED BY <3>1, <3>2, <2>1, <2>2, AbstractStays
  <2>6. CASE type = "rejected"
    <3>1. OrderOf(db'.ledger) = None /\ db'.ledger.position = db.ledger.position
          /\ Refused(db'.ledger)
      BY <2>1, <2>6, <1>0, WrittenOrder
    <3>2. Abstract!Refuse
      BY <3>1, AbstractRefuses
    <3> QED BY <3>2, <2>1, <2>2, <2>4, AbstractAnswers
  <2>7. CASE type = "filled"
    <3>1. /\ OrderOf(db'.ledger) = None /\ ~Refused(db'.ledger)
          /\ db'.ledger.position = IF intent.type = "entry" THEN intent.trade ELSE None
      BY <2>1, <2>7, <1>0, WrittenOrder, SMTT(60)
    <3>2. Refused(db'.ledger) = Refused(db.ledger)
      BY <3>1, <2>3, <1>0
    <3>3. Abstract!Settle(pledge)
      BY <3>1, <3>2, AbstractSettles
    <3> QED BY <3>3, <2>1, <2>2, <2>4, AbstractAnswers
  <2> QED BY <2>5, <2>6, <2>7 DEF EventTypes
<1> QED BY <1>1, <1>2, <1>3, Shape

\* Crashes, lost replies, several runtimes and late answers included, the store
\* does nothing that the abstract life cycle of one position does not allow.
THEOREM ExecutionImplements == Spec => ImplementsPaperTrading
<1>1. Init => Abstract!Init
  <2> SUFFICES ASSUME Init PROVE Abstract!Init
    OBVIOUS
  <2>1. \A k \in Candles : db.ledger.orders[k] = None
    BY DEF Init, EmptyBook
  <2>2. OrderOf(db.ledger) = None /\ ~Refused(db.ledger)
    BY <2>1 DEF OrderOf, OutstandingOf, Refused, HasStatus
  <2> QED BY <2>2, OrderMapped DEF Init, Initial, EmptyBook, Abstract!Init
<1>2. IInv /\ [Next]_vars => [Abstract!Next]_(Abstract!vars)
  BY StepAbstract
<1> QED BY <1>1, <1>2, ExecutionIInv, PTL DEF Spec, ImplementsPaperTrading, Abstract!Spec

-----------------------------------------------------------------------------
(* Recovery: what is durable is what an uninterrupted run would hold.      *)

\* A non-empty set of natural numbers has a least element.
LEMMA LeastNat ==
    ASSUME NEW S, S \subseteq Nat, S # {}
    PROVE  \E n \in S : \A m \in S : n <= m
  <1> DEFINE R == OpToRel(<, Nat)
  <1>1. \E n \in S : \A m \in S : ~ (<<m, n>> \in R)
    <2> HIDE DEF R
    <2> QED
      BY NatLessThanWellFounded, WFMin DEF R
  <1>2. PICK n \in S : \A m \in S : ~ (<<m, n>> \in R)
    BY <1>1
  <1>3. ASSUME NEW m \in S
        PROVE  n <= m
    <2>1. <<m, n>> \in Nat \X Nat /\ ~ (<<m, n>> \in R)
      BY <1>2
    <2>2. ~ (m < n)
      BY <2>1 DEF OpToRel
    <2> QED
      BY <2>2
  <1> QED
    BY <1>3

\* What holds at 0 and is passed on by every step up to n holds up to n.
LEMMA UpTo ==
    ASSUME NEW n \in Nat, NEW H \in SUBSET (0..n), 0 \in H,
           \A i \in 0..n : i \in H /\ i < n => i + 1 \in H
    PROVE  H = 0..n
  <1> SUFFICES ASSUME (0..n) \ H # {}
               PROVE  FALSE
    OBVIOUS
  <1>1. PICK i \in (0..n) \ H : \A j \in (0..n) \ H : i <= j
    <2> DEFINE S == (0..n) \ H
    <2>1. S \subseteq Nat /\ S # {}
      OBVIOUS
    <2> HIDE DEF S
    <2>2. \E i \in S : \A j \in S : i <= j
      BY <2>1, LeastNat
    <2> QED
      BY <2>2 DEF S
  <1>2. i # 0 /\ i \in 0..n
    BY <1>1
  <1>3. i - 1 \in 0..n /\ i - 1 < n /\ ~(i <= i - 1) /\ (i - 1) + 1 = i
    BY <1>2
  <1>4. i - 1 \in H
    BY <1>1, <1>3
  <1>5. i \in H
    BY <1>3, <1>4
  <1> QED
    BY <1>1, <1>5

\* Uninterrupted takes one step per candle.
Chain(states) ==
    /\ states = [n \in 0..LastCandle |-> states[n]]
    /\ states[0] = Initial
    /\ \A n \in 1..LastCandle : states[n] = Step(states[n - 1])

LEMMA UninterruptedIs == Chain(Uninterrupted)
<1> DEFINE Is(f, m) == f = [n \in 0..m |-> IF n = 0 THEN Initial ELSE Step(f[n - 1])]
           H == {m \in 0..LastCandle : \E f : Is(f, m)}
<1>1. LastCandle \in Nat
  BY BoundsAssumption
<1>2. 0 \in H
  <2>1. Is([n \in 0..0 |-> Initial], 0)
    OBVIOUS
  <2>2. 0 \in 0..LastCandle
    BY <1>1
  <2> HIDE DEF Is
  <2> QED BY <2>1, <2>2
<1>3. ASSUME NEW m \in 0..LastCandle, m \in H, m < LastCandle
      PROVE  m + 1 \in H
  <2>1. PICK f : Is(f, m)
    BY <1>3
  <2> DEFINE g == [n \in 0..m + 1 |-> IF n = m + 1 THEN Step(f[m]) ELSE f[n]]
  <2>2. ASSUME NEW n \in 0..m + 1
        PROVE  g[n] = IF n = 0 THEN Initial ELSE Step(g[n - 1])
    BY <2>1, <1>1, <1>3
  <2>3. Is(g, m + 1)
    BY <2>2
  <2>4. m + 1 \in 0..LastCandle
    BY <1>1, <1>3
  <2> HIDE DEF g
  <2> QED BY <2>3, <2>4
<1>4. LastCandle \in H
  <2>1. H \in SUBSET (0..LastCandle)
    OBVIOUS
  <2> HIDE DEF H
  <2>2. H = 0..LastCandle
    BY <1>1, <1>2, <1>3, <2>1, UpTo
  <2> QED BY <1>1, <2>2
<1>5. \E f : Is(f, LastCandle)
  BY <1>4
<1>6. Uninterrupted = CHOOSE f : Is(f, LastCandle)
  BY DEF Uninterrupted
<1>7. Is(Uninterrupted, LastCandle)
  BY <1>5, <1>6
<1> QED BY <1>1, <1>7 DEF Chain

\* It stays what it is as long as the feed does.
LEMMA UninterruptedNext == Chain(Uninterrupted)'
BY UninterruptedIs, PTL

LEMMA UninterruptedFixed ==
    ASSUME feed' = feed
    PROVE  Uninterrupted' = Uninterrupted
<1> DEFINE U == Uninterrupted
           V == Uninterrupted'
           H == {n \in 0..LastCandle : V[n] = U[n]}
<1>1. /\ U = [n \in 0..LastCandle |-> U[n]] /\ V = [n \in 0..LastCandle |-> V[n]]
      /\ U[0] = Initial /\ V[0] = Initial
  BY UninterruptedIs, UninterruptedNext DEF Chain, Initial
<1>2. \A n \in 1..LastCandle : U[n] = Step(U[n - 1])
  BY UninterruptedIs DEF Chain
<1>3. \A n \in 1..LastCandle : V[n] = Step(V[n - 1])
  BY UninterruptedNext DEF Chain, Step, IntentAt, Upcoming, PositionAfter
<1> HIDE DEF U, V
<1>4. LastCandle \in Nat /\ 0 \in H
  BY <1>1, BoundsAssumption
<1>5. ASSUME NEW n \in 0..LastCandle, n \in H, n < LastCandle
      PROVE  n + 1 \in H
  <2>1. n + 1 \in 0..LastCandle /\ n + 1 \in 1..LastCandle /\ (n + 1) - 1 = n
    BY <1>4, <1>5
  <2>2. V[n + 1] = Step(V[n]) /\ U[n + 1] = Step(U[n])
    BY <1>2, <1>3, <2>1
  <2> QED BY <1>5, <2>1, <2>2
<1>6. H = 0..LastCandle
  <2>1. H \in SUBSET (0..LastCandle)
    OBVIOUS
  <2> HIDE DEF H
  <2> QED BY <1>4, <1>5, <2>1, UpTo
<1>7. \A n \in 0..LastCandle : V[n] = U[n]
  BY <1>6
<1>8. V = U
  BY <1>1, <1>7
<1> QED BY <1>8 DEF U, V
\* A fill belongs to an order that is filled, and no order has two.
FillsOnce(ledger) ==
    /\ \A i \in DOMAIN ledger.fills : HasStatus(ledger, ledger.fills[i], {"filled"})
    /\ \A i, j \in DOMAIN ledger.fills : ledger.fills[i] = ledger.fills[j] => i = j

LEMMA WritesFills ==
    ASSUME NEW before \in LedgerBooks, FillsOnce(before), NEW after, NEW k \in Candles,
           ~HasStatus(before, k, {"filled"}),
           NEW intent \in Intents, NEW st \in Statuses,
           Writes(before, after, k, [intent |-> intent, status |-> st])
    PROVE  FillsOnce(after)
<1> DEFINE order == [intent |-> intent, status |-> st]
<1>1. before.fills \in Seq(Candles) /\ before.orders \in OrderBooks
  BY DEF LedgerBooks
<1>2. order \in Orders /\ order # None /\ order.status = st
  BY NoneAssumption DEF Orders
<1> HIDE DEF order
<1>3. \A j \in Candles : after.orders[j] = IF j = k THEN order ELSE before.orders[j]
  BY <1>1 DEF Writes, OrderBooks, order
<1>4. ASSUME NEW i \in DOMAIN before.fills
      PROVE  /\ before.fills[i] \in Candles /\ before.fills[i] # k
             /\ HasStatus(after, before.fills[i], {"filled"})
  <2>1. before.fills[i] \in Candles /\ HasStatus(before, before.fills[i], {"filled"})
    BY <1>1 DEF FillsOnce
  <2>2. before.fills[i] # k
    BY <2>1
  <2> QED BY <1>3, <2>1, <2>2 DEF HasStatus
<1>5. CASE st # "filled"
  <2>1. after.fills = before.fills
    BY <1>5 DEF Writes
  <2> QED BY <1>4, <2>1 DEF FillsOnce
<1>6. CASE st = "filled"
  <2> DEFINE n == Len(before.fills)
  <2>1. /\ after.fills = Append(before.fills, k) /\ n \in Nat
        /\ DOMAIN after.fills = 1..n + 1 /\ DOMAIN before.fills = 1..n
        /\ \A i \in 1..n : after.fills[i] = before.fills[i]
        /\ after.fills[n + 1] = k
    BY <1>1, <1>6 DEF Writes
  <2>2. HasStatus(after, k, {"filled"})
    BY <1>2, <1>3, <1>6 DEF HasStatus
  <2> HIDE DEF n
  <2>3. \A i \in 1..n + 1 : i \in 1..n \/ i = n + 1
    BY <2>1
  <2>4. \A i \in 1..n + 1 : HasStatus(after, after.fills[i], {"filled"})
    BY <1>4, <2>1, <2>2, <2>3
  <2>5. \A i, j \in 1..n + 1 : after.fills[i] = after.fills[j] => i = j
    <3> TAKE i \in 1..n + 1, j \in 1..n + 1
    <3>1. CASE i \in 1..n /\ j \in 1..n
      BY <2>1, <3>1 DEF FillsOnce
    <3>2. CASE ~(i \in 1..n /\ j \in 1..n)
      BY <1>4, <2>1, <2>3, <3>2
    <3> QED BY <3>1, <3>2
  <2> QED BY <2>1, <2>4, <2>5 DEF FillsOnce
<1> QED BY <1>5, <1>6

\* What a step leaves in the memory of a runtime.
LEMMA MemSteps ==
    ASSUME IInv, [Next]_vars, NEW r \in Runtimes
    PROVE  mem'[r] \in {mem[r], Unloaded, db'.state}
<1>1. mem \in [Runtimes -> ReplayStates \cup {Unloaded}]
  BY DEF IInv
<1>2. Transition(db).state = Step(db.state)
  BY DEF Transition
<1>3. ASSUME NEW q \in Runtimes, Load(q)
      PROVE  mem'[r] \in {mem[r], db'.state}
  BY <1>1, <1>3 DEF Load
<1>4. ASSUME NEW q \in Runtimes, Save(q)
      PROVE  mem'[r] \in {mem[r], db'.state}
  BY <1>1, <1>2, <1>4 DEF Save, Transaction
<1>5. ASSUME NEW q \in Runtimes, SaveAgain(q)
      PROVE  mem'[r] \in {mem[r], db'.state}
  BY <1>1, <1>5 DEF SaveAgain
<1>6. ASSUME NEW q \in Runtimes, Crash(q)
      PROVE  mem'[r] \in {mem[r], Unloaded}
  BY <1>1, <1>6 DEF Crash
<1>7. ASSUME NEW q \in Runtimes, SaveUnreported(q)
      PROVE  mem'[r] = mem[r]
  BY <1>7 DEF SaveUnreported
<1>8. ASSUME NEW k \in Candles, NEW type \in EventTypes, ApplyAdapterEvent(k, type)
      PROVE  mem'[r] = mem[r]
  BY <1>8 DEF ApplyAdapterEvent
<1>9. CASE UNCHANGED vars
  BY <1>9 DEF vars
<1>10. CASE Next
  <2>1. \/ \E q \in Runtimes : Load(q) \/ Save(q) \/ SaveUnreported(q) \/ SaveAgain(q) \/ Crash(q)
        \/ \E k \in Candles, type \in EventTypes : ApplyAdapterEvent(k, type)
    BY <1>10 DEF Next
  <2> QED BY <1>3, <1>4, <1>5, <1>6, <1>7, <1>8, <2>1
<1> QED BY <1>9, <1>10

\* The durable row is the uninterrupted run's, and no runtime is ahead of it.
OrdersOf(ledger, cursor) ==
    \A k \in Candles :
        LET intent == IF k <= cursor THEN IntentAt(Uninterrupted[k - 1]) ELSE None
        IN  IF intent = None THEN ledger.orders[k] = None
            ELSE ledger.orders[k] # None /\ ledger.orders[k].intent = intent

Behind(s, cursor) == s.cursor <= cursor /\ s = Uninterrupted[s.cursor]

Recovered ==
    /\ IInv
    /\ db.state = Uninterrupted[db.state.cursor]
    /\ OrdersOf(db.ledger, db.state.cursor)
    /\ FillsOnce(db.ledger)
    /\ \A r \in Runtimes : mem[r] # Unloaded => Behind(mem[r], db.state.cursor)

LEMMA InitRecovered == Init => Recovered
<1> SUFFICES ASSUME Init PROVE Recovered
  OBVIOUS
<1>1. IInv
  BY InitIInv
<1>2. db.state = Initial /\ db.ledger = EmptyBook /\ mem = [r \in Runtimes |-> Unloaded]
  BY DEF Init
<1>3. db.state = Uninterrupted[db.state.cursor]
  BY <1>2, UninterruptedIs DEF Chain, Initial
<1>4. OrdersOf(db.ledger, db.state.cursor)
  BY <1>2, BoundsAssumption DEF OrdersOf, EmptyBook, Initial, Candles
<1>5. FillsOnce(db.ledger)
  BY <1>2 DEF FillsOnce, EmptyBook
<1> QED BY <1>1, <1>2, <1>3, <1>4, <1>5 DEF Recovered

LEMMA NextRecovered == Recovered /\ [Next]_vars => Recovered'
<1> SUFFICES ASSUME Recovered, [Next]_vars PROVE Recovered'
  OBVIOUS
<1> DEFINE U == Uninterrupted
           c == db.state.cursor
<1>1. /\ IInv /\ IInv' /\ RowOK(db) /\ db.state \in ReplayStates /\ db.ledger \in LedgerBooks
      /\ mem \in [Runtimes -> ReplayStates \cup {Unloaded}] /\ feed' = feed
      /\ db'.state \in ReplayStates /\ db'.ledger \in LedgerBooks
  BY NextIInv, RowSteps DEF Recovered, IInv, RowOK
<1>2. /\ db.state = U[c] /\ OrdersOf(db.ledger, c) /\ FillsOnce(db.ledger)
      /\ \A r \in Runtimes : mem[r] # Unloaded => Behind(mem[r], c)
      /\ c \in 0..LastCandle /\ LastCandle \in Nat
  BY <1>1, BoundsAssumption DEF Recovered, ReplayStates
<1>3. Uninterrupted' = U
  BY <1>1, UninterruptedFixed
<1>4. \A n \in 1..LastCandle : U[n] = Step(U[n - 1])
  BY UninterruptedIs DEF Chain
<1> HIDE DEF U
<1>5. /\ db'.state = U[db'.state.cursor]
      /\ db'.state.cursor \in {c, c + 1}
      /\ OrdersOf(db'.ledger, db'.state.cursor)
      /\ FillsOnce(db'.ledger)
  <2>1. CASE db'.state = db.state /\ db'.ledger = db.ledger
    BY <1>2, <2>1
  <2>2. CASE Took
    <3> DEFINE k == c + 1
               intent == IntentAt(db.state)
    <3>1. /\ k \in Candles /\ k \in 1..LastCandle /\ k - 1 = c
          /\ db'.state = Step(db.state) /\ db'.state.cursor = k
      BY <1>2, <2>2 DEF Took, Upcoming, Step, Candles
    <3>2. U[k] = db'.state /\ U[k - 1] = db.state
      BY <1>2, <1>4, <3>1
    <3>3. \A j \in Candles : j <= k => j <= c \/ j = k
      BY <1>2 DEF Candles
    <3>4. \A j \in Candles : j <= c => j <= k /\ j # k
      BY <1>2 DEF Candles
    <3>5. db.ledger.orders[k] = None
      <4>1. ~(k <= c)
        BY <1>2
      <4> QED BY <1>2, <3>1, <4>1 DEF OrdersOf
    <3>6. CASE intent = None
      <4>1. db'.ledger.orders = db.ledger.orders /\ db'.ledger.fills = db.ledger.fills
        BY <2>2, <3>6, NoneAssumption DEF Took
      <4>2. OrdersOf(db'.ledger, k)
        <5> SUFFICES ASSUME NEW j \in Candles
                     PROVE  LET it == IF j <= k THEN IntentAt(U[j - 1]) ELSE None
                            IN  IF it = None THEN db'.ledger.orders[j] = None
                                ELSE /\ db'.ledger.orders[j] # None
                                     /\ db'.ledger.orders[j].intent = it
          BY DEF OrdersOf, U
        <5>1. CASE j = k
          BY <3>2, <3>5, <3>6, <4>1, <5>1
        <5>2. CASE j # k
          BY <1>2, <3>3, <3>4, <4>1, <5>2 DEF OrdersOf, U
        <5> QED BY <5>1, <5>2
      <4>3. FillsOnce(db'.ledger)
        BY <1>2, <4>1 DEF FillsOnce, HasStatus
      <4> QED BY <3>1, <3>2, <4>2, <4>3
    <3>7. CASE intent # None
      <4>1. intent \in Intents
        BY <2>2, <3>7 DEF Took
      <4>2. PICK st \in Statuses :
              Writes(db.ledger, db'.ledger, k, [intent |-> intent, status |-> st])
        BY <2>2, <3>7 DEF Took, Upcoming
      <4> DEFINE order == [intent |-> intent, status |-> st]
      <4>3. order \in Orders /\ order # None /\ order.intent = intent
        BY <4>1, NoneAssumption DEF Orders
      <4>4. db.ledger.orders \in OrderBooks
        BY <1>1 DEF LedgerBooks
      <4> HIDE DEF order, intent, k
      <4>5. \A j \in Candles : db'.ledger.orders[j] = IF j = k THEN order ELSE db.ledger.orders[j]
        BY <3>1, <4>2, <4>4 DEF Writes, OrderBooks, order
      <4>6. OrdersOf(db'.ledger, k)
        <5> SUFFICES ASSUME NEW j \in Candles
                     PROVE  LET it == IF j <= k THEN IntentAt(U[j - 1]) ELSE None
                            IN  IF it = None THEN db'.ledger.orders[j] = None
                                ELSE /\ db'.ledger.orders[j] # None
                                     /\ db'.ledger.orders[j].intent = it
          BY DEF OrdersOf, U
        <5>1. CASE j = k
          <6>1. j <= k
            BY <3>1, <5>1 DEF Candles
          <6>2. IntentAt(U[j - 1]) = intent
            BY <3>2, <5>1 DEF intent
          <6> QED BY <3>7, <4>3, <4>5, <5>1, <6>1, <6>2
        <5>2. CASE j # k
          BY <1>2, <3>3, <3>4, <4>5, <5>2 DEF OrdersOf, U
        <5> QED BY <5>1, <5>2
      <4>7. FillsOnce(db'.ledger)
        <5>1. ~HasStatus(db.ledger, k, {"filled"})
          BY <3>5 DEF HasStatus
        <5> QED BY <1>1, <1>2, <3>1, <4>1, <4>2, <5>1, WritesFills
      <4> QED BY <3>1, <3>2, <4>6, <4>7 DEF k
    <3> QED BY <3>6, <3>7
  <2>3. ASSUME NEW k \in Candles, NEW type \in EventTypes, Answered(k, type)
        PROVE  /\ db'.state = db.state
               /\ OrdersOf(db'.ledger, c) /\ FillsOnce(db'.ledger)
    <3> DEFINE intent == db.ledger.orders[k].intent
               order == [intent |-> intent, status |-> type]
    <3>1. /\ db'.state = db.state /\ Writes(db.ledger, db'.ledger, k, order)
          /\ HasStatus(db.ledger, k, {"new", "accepted"})
      BY <2>3 DEF Answered
    <3>2. /\ db.ledger.orders \in OrderBooks /\ db.ledger.orders[k] # None
          /\ intent \in Intents /\ type \in Statuses
      BY <1>1, <3>1 DEF LedgerBooks, OrderBooks, Orders, HasStatus, EventTypes, Statuses
    <3>3. order \in Orders /\ order # None /\ order.intent = intent
      BY <3>2, NoneAssumption DEF Orders
    <3> HIDE DEF order
    <3>4. \A j \in Candles : db'.ledger.orders[j] = IF j = k THEN order ELSE db.ledger.orders[j]
      BY <3>1, <3>2 DEF Writes, OrderBooks
    <3>5. \A j \in Candles : /\ db'.ledger.orders[j] = None <=> db.ledger.orders[j] = None
                             /\ db'.ledger.orders[j].intent = db.ledger.orders[j].intent
      BY <3>2, <3>3, <3>4
    <3>6. OrdersOf(db'.ledger, c)
      BY <1>2, <3>5 DEF OrdersOf
    <3>7. FillsOnce(db'.ledger)
      <4>1. ~HasStatus(db.ledger, k, {"filled"})
        BY <3>1 DEF HasStatus
      <4> HIDE DEF intent
      <4> QED BY <1>1, <1>2, <3>1, <3>2, <4>1, WritesFills DEF order
    <3> QED BY <3>1, <3>6, <3>7
  <2> QED BY <1>1, <1>2, <2>1, <2>2, <2>3, Shape
<1>6. ASSUME NEW r \in Runtimes, mem'[r] # Unloaded
      PROVE  mem'[r].cursor <= db'.state.cursor /\ mem'[r] = U[mem'[r].cursor]
  <2>1. CASE mem'[r] = db'.state
    <3>1. db'.state.cursor <= db'.state.cursor
      BY <1>2, <1>5
    <3> QED BY <1>5, <2>1, <3>1
  <2>2. CASE mem'[r] = mem[r]
    <3>1. mem[r].cursor <= c /\ mem[r] = U[mem[r].cursor]
      BY <1>2, <1>6, <2>2 DEF Behind, U
    <3>2. mem[r].cursor \in Int
      BY <1>1, <1>6, <2>2 DEF ReplayStates
    <3>3. mem[r].cursor <= db'.state.cursor
      BY <1>2, <1>5, <3>1, <3>2
    <3> QED BY <2>2, <3>1, <3>3
  <2> QED BY <1>1, <1>6, <2>1, <2>2, MemSteps
<1>7. ASSUME NEW k \in Candles
      PROVE  IntentAt(Uninterrupted[k - 1])' = IntentAt(U[k - 1])
  BY <1>1, <1>3 DEF IntentAt, Upcoming
<1>8. OrdersOf(db.ledger, db.state.cursor)'
  BY <1>3, <1>5, <1>7 DEF OrdersOf, U
<1>9. FillsOnce(db.ledger)'
  BY <1>5 DEF FillsOnce, HasStatus
<1>10. (\A r \in Runtimes : mem[r] # Unloaded => Behind(mem[r], db.state.cursor))'
  BY <1>3, <1>6 DEF Behind
<1>11. (db.state = Uninterrupted[db.state.cursor])'
  BY <1>3, <1>5
<1> QED BY <1>1, <1>8, <1>9, <1>10, <1>11 DEF Recovered

\* save_transition and load_checkpoint recover exactly: whatever crashed, was
\* retried or came late, the row is the one of a run without any of it, every
\* decision has its one order, no order has two fills, and no runtime knows
\* more than the row.
THEOREM ExecutionRecoveryExact == Spec => []RecoveryExact
<1>1. Recovered => RecoveryExact
  BY DEF Recovered, RecoveryExact, OrdersOf, FillsOnce, Behind
<1> QED BY <1>1, InitRecovered, NextRecovered, PTL DEF Spec
-----------------------------------------------------------------------------
(* Decoding: replaying the stored events rebuilds the stored adapter book.  *)

\* The fields of an adapter book, with orders indexed by candles.
Booklike(x) ==
    /\ x = [orders |-> x.orders, fills |-> x.fills, position |-> x.position,
            cursor |-> x.cursor, events |-> x.events]
    /\ x.orders = [k \in Candles |-> x.orders[k]]

\* What news leaves in a book, and what one more order does.
Written(x, e) ==
    [orders |-> [x.orders EXCEPT ![e.order] = [@ EXCEPT !.status = e.type]],
     fills |-> IF e.type = "filled" THEN Append(x.fills, e.order) ELSE x.fills,
     position |-> IF e.type = "filled" THEN PositionAfter(x.position, x.orders[e.order].intent)
                  ELSE x.position,
     cursor |-> x.cursor, events |-> Append(x.events, e)]

Ordered(x, k, order) ==
    [orders |-> [x.orders EXCEPT ![k] = order], fills |-> x.fills, position |-> x.position,
     cursor |-> x.cursor, events |-> x.events]

At(x, cursor) ==
    [orders |-> x.orders, fills |-> x.fills, position |-> x.position,
     cursor |-> cursor, events |-> x.events]

LEMMA ApplyWrites ==
    ASSUME NEW x, Booklike(x), NEW e
    PROVE  /\ AdapterApply(x, e) = IF Known(x, e) THEN x ELSE Written(x, e)
           /\ Booklike(AdapterApply(x, e))
<1>1. WithStatus(x, e.order, e.type)
        = [orders |-> [x.orders EXCEPT ![e.order] = [@ EXCEPT !.status = e.type]],
           fills |-> x.fills, position |-> x.position, cursor |-> x.cursor,
           events |-> x.events]
  BY DEF Booklike, WithStatus
<1>2. CASE Known(x, e)
  BY <1>2 DEF AdapterApply
<1>3. CASE ~Known(x, e)
  <2>1. AdapterApply(x, e) = Written(x, e)
    <3> DEFINE changed == WithStatus(x, e.order, e.type)
               orders == [x.orders EXCEPT ![e.order] = [@ EXCEPT !.status = e.type]]
               position == PositionAfter(x.position, x.orders[e.order].intent)
    <3>1. changed = [orders |-> orders, fills |-> x.fills, position |-> x.position,
                     cursor |-> x.cursor, events |-> x.events]
      BY <1>1
    <3>2. CASE e.type = "filled"
      <4> DEFINE filled == Filled(x, e.order)
      <4>1. filled = [changed EXCEPT !.fills = Append(@, e.order),
                                     !.position = PositionAfter(@, x.orders[e.order].intent)]
        BY <3>2 DEF Filled
      <4>2. AdapterApply(x, e) = [filled EXCEPT !.events = Append(@, e)]
        BY <1>3, <3>2 DEF AdapterApply
      <4>3. Written(x, e) = [orders |-> orders, fills |-> Append(x.fills, e.order),
                             position |-> position, cursor |-> x.cursor,
                             events |-> Append(x.events, e)]
        BY <3>2 DEF Written
      <4>4. position = PositionAfter(x.position, x.orders[e.order].intent)
        OBVIOUS
      <4> HIDE DEF filled, changed, orders, position
      <4>5. filled = [orders |-> orders, fills |-> Append(x.fills, e.order),
                      position |-> position, cursor |-> x.cursor, events |-> x.events]
        BY <3>1, <4>1, <4>4
      <4> QED BY <4>2, <4>3, <4>5
    <3>3. CASE e.type # "filled"
      <4>1. AdapterApply(x, e) = [changed EXCEPT !.events = Append(@, e)]
        BY <1>3, <3>3 DEF AdapterApply
      <4>2. Written(x, e) = [orders |-> orders, fills |-> x.fills, position |-> x.position,
                             cursor |-> x.cursor, events |-> Append(x.events, e)]
        BY <3>3 DEF Written
      <4> HIDE DEF changed, orders
      <4> QED BY <3>1, <4>1, <4>2
    <3> QED BY <3>2, <3>3
  <2>2. Booklike(Written(x, e))
    BY DEF Booklike, Written
  <2> QED BY <1>3, <2>1, <2>2
<1> QED BY <1>2, <1>3

\* An event of one order and the registration of another commute.
LEMMA ApplyCommutes ==
    ASSUME NEW x, Booklike(x), NEW e, NEW k, e.order # k, NEW order
    PROVE  AdapterApply(Ordered(x, k, order), e) = Ordered(AdapterApply(x, e), k, order)
<1> DEFINE y == Ordered(x, k, order)
<1>1. /\ y.fills = x.fills /\ y.position = x.position /\ y.cursor = x.cursor
      /\ y.events = x.events /\ y.orders = [x.orders EXCEPT ![k] = order]
      /\ y.orders[e.order] = x.orders[e.order]
  BY DEF Ordered, Booklike
<1>2. Booklike(y)
  BY DEF Ordered, Booklike
<1> HIDE DEF y
<1>3. Known(y, e) <=> Known(x, e)
  BY <1>1 DEF Known
<1>4. CASE Known(x, e)
  BY <1>2, <1>3, <1>4, ApplyWrites DEF y
<1>5. CASE ~Known(x, e)
  <2>1. AdapterApply(y, e) = Written(y, e) /\ AdapterApply(x, e) = Written(x, e)
    BY <1>2, <1>3, <1>5, ApplyWrites
  <2>2. Written(y, e).orders = [Written(x, e).orders EXCEPT ![k] = order]
    <3> DEFINE new == [x.orders[e.order] EXCEPT !.status = e.type]
    <3>1. Written(y, e).orders = [[x.orders EXCEPT ![k] = order] EXCEPT ![e.order] = new]
      BY <1>1 DEF Written
    <3>2. Written(x, e).orders = [x.orders EXCEPT ![e.order] = new]
      BY DEF Written
    <3> HIDE DEF new
    <3> QED BY <3>1, <3>2 DEF Booklike
  <2>3. Written(y, e) = Ordered(Written(x, e), k, order)
    BY <1>1, <2>2 DEF Written, Ordered
  <2> QED BY <2>1, <2>3 DEF y
<1> QED BY <1>4, <1>5

\* The replay of an adapter's events, one by one.
IsReplay(f, x) ==
    /\ f = [n \in 0..Len(x.events) |-> f[n]]
    /\ f[0] = Fresh(x)
    /\ \A n \in 1..Len(x.events) : f[n] = AdapterApply(f[n - 1], x.events[n])

LEMMA ReplayedIs ==
    ASSUME NEW x, Len(x.events) \in Nat
    PROVE  /\ \E f : IsReplay(f, x) /\ Replayed(x) = f[Len(x.events)]
           /\ \A f : IsReplay(f, x) => Replayed(x) = f[Len(x.events)]
<1> DEFINE last == Len(x.events)
           Is(f, m) == f = [n \in 0..m |->
                        IF n = 0 THEN Fresh(x) ELSE AdapterApply(f[n - 1], x.events[n])]
           H == {m \in 0..last : \E f : Is(f, m)}
<1>1. 0 \in H
  <2>1. Is([n \in 0..0 |-> Fresh(x)], 0)
    OBVIOUS
  <2>2. 0 \in 0..last
    OBVIOUS
  <2> HIDE DEF Is
  <2> QED BY <2>1, <2>2
<1>2. ASSUME NEW m \in 0..last, m \in H, m < last
      PROVE  m + 1 \in H
  <2>1. PICK f : Is(f, m)
    BY <1>2
  <2> DEFINE g == [n \in 0..m + 1 |->
                     IF n = m + 1 THEN AdapterApply(f[m], x.events[m + 1]) ELSE f[n]]
  <2>2. ASSUME NEW n \in 0..m + 1
        PROVE  g[n] = IF n = 0 THEN Fresh(x) ELSE AdapterApply(g[n - 1], x.events[n])
    BY <2>1, <1>2
  <2>3. Is(g, m + 1)
    BY <2>2
  <2>4. m + 1 \in 0..last
    BY <1>2
  <2> HIDE DEF g
  <2> QED BY <2>3, <2>4
<1>3. last \in H
  <2>1. H \in SUBSET (0..last)
    OBVIOUS
  <2> HIDE DEF H
  <2>2. H = 0..last
    BY <1>1, <1>2, <2>1, UpTo
  <2> QED BY <2>2
<1> DEFINE after == CHOOSE f : Is(f, last)
<1>4. Is(after, last)
  <2>1. \E f : Is(f, last)
    BY <1>3
  <2> HIDE DEF Is
  <2> QED BY <2>1
<1>5. Replayed(x) = after[last]
  BY DEF Replayed
<1>6. \A f : IsReplay(f, x) <=> Is(f, last)
  BY DEF IsReplay
<1>7. ASSUME NEW f, Is(f, last)
      PROVE  f[last] = after[last]
  <2> HIDE DEF after
  <2> DEFINE T == {n \in 0..last : f[n] = after[n]}
  <2>1. 0 \in T
    BY <1>4, <1>7
  <2>2. ASSUME NEW n \in 0..last, n \in T, n < last
        PROVE  n + 1 \in T
    <3>1. n + 1 \in 0..last /\ n + 1 # 0 /\ (n + 1) - 1 = n
      BY <2>2
    <3>2. /\ f[n + 1] = AdapterApply(f[n], x.events[n + 1])
          /\ after[n + 1] = AdapterApply(after[n], x.events[n + 1])
      BY <1>4, <1>7, <3>1
    <3> QED BY <2>2, <3>1, <3>2
  <2>3. T = 0..last
    <3>1. T \in SUBSET (0..last)
      OBVIOUS
    <3> HIDE DEF T
    <3> QED BY <2>1, <2>2, <3>1, UpTo
  <2> QED BY <2>3
<1> HIDE DEF after, Is, H
<1> QED BY <1>4, <1>5, <1>6, <1>7
\* The stored book is what its events rebuild, but for the cursor.
Faithful(x) == Replayed(x) = At(x, 0)

LEMMA FreshIs ==
    ASSUME NEW x
    PROVE  /\ Fresh(x) = [orders |-> Fresh(x).orders, fills |-> <<>>, position |-> None,
                          cursor |-> 0, events |-> <<>>]
           /\ Fresh(x).orders = [k \in Candles |->
                                    IF x.orders[k] = None THEN None
                                    ELSE [x.orders[k] EXCEPT !.status = "new"]]
           /\ Booklike(Fresh(x))
<1> DEFINE orders == [k \in Candles |-> IF x.orders[k] = None THEN None
                                        ELSE [x.orders[k] EXCEPT !.status = "new"]]
<1>1. Fresh(x) = [EmptyAdapter EXCEPT !.orders = orders]
  BY DEF Fresh
<1>2. orders = [k \in Candles |-> orders[k]]
  OBVIOUS
<1> HIDE DEF orders
<1>3. Fresh(x) = [orders |-> orders, fills |-> <<>>, position |-> None, cursor |-> 0,
                  events |-> <<>>]
  BY <1>1 DEF EmptyAdapter
<1>4. Booklike(Fresh(x))
  BY <1>2, <1>3 DEF Booklike
<1> QED BY <1>3, <1>4 DEF orders

LEMMA BookOf ==
    ASSUME NEW x \in AdapterBooks
    PROVE  /\ Booklike(x) /\ x.events \in Seq(Events) /\ Len(x.events) \in Nat
           /\ x.orders \in OrderBooks
BY DEF AdapterBooks, OrderBooks, Booklike

\* Every book on the way of a replay has the fields of one.
LEMMA ReplayBooklike ==
    ASSUME NEW x, Len(x.events) \in Nat, NEW f, IsReplay(f, x)
    PROVE  \A n \in 0..Len(x.events) : Booklike(f[n])
<1> DEFINE last == Len(x.events)
           H == {n \in 0..last : Booklike(f[n])}
<1>1. 0 \in H
  <2>1. Booklike(Fresh(x))
    BY FreshIs
  <2> QED BY <2>1 DEF IsReplay
<1>2. ASSUME NEW n \in 0..last, n \in H, n < last
      PROVE  n + 1 \in H
  <2>1. n + 1 \in 0..last /\ n + 1 \in 1..last /\ (n + 1) - 1 = n
    BY <1>2
  <2>2. f[n + 1] = AdapterApply(f[n], x.events[n + 1])
    BY <2>1 DEF IsReplay
  <2>3. Booklike(AdapterApply(f[n], x.events[n + 1]))
    BY <1>2, ApplyWrites
  <2> QED BY <2>1, <2>2, <2>3
<1>3. H \in SUBSET (0..last)
  OBVIOUS
<1>4. H = 0..last
  <2> HIDE DEF H
  <2> QED BY <1>1, <1>2, <1>3, UpTo
<1> QED BY <1>4

LEMMA FaithfulEmpty == Faithful(EmptyAdapter)
<1> DEFINE x == EmptyAdapter
<1>1. /\ x.orders = [k \in Candles |-> None] /\ x.fills = <<>> /\ x.position = None
      /\ x.cursor = 0 /\ x.events = <<>> /\ Len(x.events) = 0
  BY DEF EmptyAdapter, EmptyBook
<1> HIDE DEF x
<1>2. PICK f : IsReplay(f, x) /\ Replayed(x) = f[Len(x.events)]
  BY <1>1, ReplayedIs
<1>3. Replayed(x) = Fresh(x)
  BY <1>1, <1>2 DEF IsReplay
<1>4. Fresh(x) = At(x, 0)
  <2>1. Fresh(x).orders = x.orders
    <3>1. Fresh(x).orders = [k \in Candles |->
                                IF x.orders[k] = None THEN None
                                ELSE [x.orders[k] EXCEPT !.status = "new"]]
      BY FreshIs
    <3> QED BY <1>1, <3>1
  <2>2. Fresh(x) = [orders |-> Fresh(x).orders, fills |-> <<>>, position |-> None,
                    cursor |-> 0, events |-> <<>>]
    BY FreshIs
  <2> QED BY <1>1, <2>1, <2>2 DEF At
<1> QED BY <1>3, <1>4 DEF Faithful, x

\* A candle without a decision moves the cursor only.
LEMMA FaithfulCursor ==
    ASSUME NEW x \in AdapterBooks, Faithful(x), NEW c
    PROVE  Faithful([x EXCEPT !.cursor = c])
<1> DEFINE y == [x EXCEPT !.cursor = c]
<1>1. /\ y.orders = x.orders /\ y.fills = x.fills /\ y.position = x.position
      /\ y.events = x.events
  BY BookOf DEF Booklike
<1> HIDE DEF y
<1>2. PICK f : IsReplay(f, x) /\ Replayed(x) = f[Len(x.events)]
  BY BookOf, ReplayedIs
<1>3. Fresh(y) = Fresh(x)
  BY <1>1 DEF Fresh
<1>4. IsReplay(f, y)
  BY <1>1, <1>2, <1>3 DEF IsReplay
<1>5. Len(y.events) \in Nat
  BY <1>1, BookOf
<1>6. Replayed(y) = f[Len(y.events)]
  BY <1>4, <1>5, ReplayedIs
<1>7. At(y, 0) = At(x, 0)
  BY <1>1 DEF At
<1> QED BY <1>1, <1>2, <1>6, <1>7 DEF Faithful, y

\* News is appended, and the replay ends with it.
LEMMA FaithfulEvent ==
    ASSUME NEW x \in AdapterBooks, Faithful(x), NEW k \in Candles, NEW type \in EventTypes,
           Known(x, Event(k, type)) \/ x.orders[k] # None
    PROVE  /\ Faithful(AdapterApply(x, Event(k, type)))
           /\ AdapterApply(x, Event(k, type)) \in AdapterBooks
           /\ x.orders[k] # None => AdapterApply(x, Event(k, type)).orders[k] # None
<1> DEFINE e == Event(k, type)
           y == Written(x, e)
           last == Len(x.events)
<1>0. e.order = k /\ e.type = type /\ e \in Events
  BY DEF Event, Events
<1> HIDE DEF e
<1>1. CASE Known(x, e)
  BY <1>1, BookOf, ApplyWrites DEF e
<1>2. CASE ~Known(x, e)
  <2>1. AdapterApply(x, e) = y
    BY <1>2, BookOf, ApplyWrites
  <2>2. x.orders[k] \in Orders /\ x.orders[k] # None /\ x.orders[k].intent \in Intents
    BY <1>2, BookOf DEF OrderBooks, Orders, e
  <2> DEFINE order == [x.orders[k] EXCEPT !.status = type]
  <2>3. /\ order \in Orders /\ order # None
        /\ [order EXCEPT !.status = "new"] = [x.orders[k] EXCEPT !.status = "new"]
    BY <2>2, NoneAssumption DEF Orders, EventTypes, Statuses
  <2> HIDE DEF order
  <2>4. y.orders = [x.orders EXCEPT ![k] = order]
    BY <1>0 DEF Written, order
  <2>5. /\ y.events = Append(x.events, e) /\ y.cursor = x.cursor
        /\ Len(y.events) = last + 1 /\ y.events[last + 1] = e
        /\ \A n \in 1..last : y.events[n] = x.events[n]
        /\ last \in Nat /\ y.events \in Seq(Events)
    BY <1>0, BookOf DEF Written
  <2>6. y \in AdapterBooks /\ y.orders[k] # None
    <3>1. y.orders \in OrderBooks /\ y.orders[k] = order
      BY <2>3, <2>4, BookOf DEF OrderBooks
    <3>2. PositionAfter(x.position, x.orders[k].intent) \in Candles \cup {None}
      BY <2>2 DEF AdapterBooks, PositionAfter, Intents
    <3>3. y.position \in Candles \cup {None}
      BY <1>0, <3>2 DEF Written, AdapterBooks
    <3>4. y.fills \in Seq(Candles)
      BY <1>0 DEF Written, AdapterBooks
    <3>5. y.cursor \in 0..LastCandle
      BY <2>5 DEF AdapterBooks
    <3>6. y = [orders |-> y.orders, fills |-> y.fills, position |-> y.position,
               cursor |-> y.cursor, events |-> y.events]
      BY DEF Written
    <3> HIDE DEF y
    <3> QED BY <2>3, <2>5, <3>1, <3>3, <3>4, <3>5, <3>6 DEF AdapterBooks
  <2>7. Fresh(y) = Fresh(x)
    <3> DEFINE Renewed(o) == IF o = None THEN None ELSE [o EXCEPT !.status = "new"]
    <3>1. ASSUME NEW j \in Candles
          PROVE  Renewed(y.orders[j]) = Renewed(x.orders[j])
      BY <2>2, <2>3, <2>4, BookOf DEF OrderBooks
    <3>2. [j \in Candles |-> Renewed(y.orders[j])] = [j \in Candles |-> Renewed(x.orders[j])]
      BY <3>1
    <3> QED BY <3>2 DEF Fresh
  <2>8. PICK f : IsReplay(f, x) /\ Replayed(x) = f[last]
    BY BookOf, ReplayedIs
  <2>9. AdapterApply(At(x, 0), e) = At(y, 0)
    <3>1. Booklike(At(x, 0)) /\ ~Known(At(x, 0), e)
      BY <1>2, BookOf DEF Booklike, At, Known
    <3>2. AdapterApply(At(x, 0), e) = Written(At(x, 0), e)
      BY <3>1, ApplyWrites
    <3> QED BY <3>2 DEF Written, At
  <2> DEFINE g == [n \in 0..last + 1 |-> IF n = last + 1 THEN At(y, 0) ELSE f[n]]
  <2>10. IsReplay(g, y)
    <3> HIDE DEF y
    <3>1. g[0] = Fresh(y)
      BY <2>5, <2>7, <2>8 DEF IsReplay
    <3>2. ASSUME NEW n \in 1..last + 1
          PROVE  g[n] = AdapterApply(g[n - 1], y.events[n])
      <4>1. CASE n = last + 1
        <5>1. g[n] = At(y, 0) /\ g[n - 1] = At(x, 0) /\ y.events[n] = e
          BY <2>5, <2>8, <4>1 DEF Faithful
        <5> QED BY <2>9, <5>1
      <4>2. CASE n # last + 1
        <5>1. n \in 1..last /\ n - 1 \in 0..last
          BY <2>5, <4>2
        <5>2. g[n] = f[n] /\ g[n - 1] = f[n - 1] /\ y.events[n] = x.events[n]
          BY <2>5, <5>1
        <5> QED BY <2>8, <5>1, <5>2 DEF IsReplay
      <4> QED BY <4>1, <4>2
    <3>3. g = [n \in 0..Len(y.events) |-> g[n]]
      BY <2>5
    <3> HIDE DEF g
    <3> QED BY <2>5, <3>1, <3>2, <3>3 DEF IsReplay
  <2>11. g[last + 1] = At(y, 0)
    BY <2>5
  <2> HIDE DEF y, g
  <2>12. Faithful(y)
    BY <2>5, <2>10, <2>11, ReplayedIs DEF Faithful
  <2> QED BY <2>1, <2>6, <2>12 DEF e
<1> QED BY <1>1, <1>2

\* A new order is there from the start of the replay, and no event reaches it.
LEMMA FaithfulRegistered ==
    ASSUME NEW x \in AdapterBooks, Faithful(x), NEW k \in Candles, NEW intent \in Intents,
           x.orders[k] = None, \A i \in DOMAIN x.events : x.events[i].order # k
    PROVE  /\ Faithful(Registered(x, k, intent))
           /\ Registered(x, k, intent) \in AdapterBooks
           /\ Registered(x, k, intent).orders[k] # None
<1> DEFINE order == [intent |-> intent, status |-> "new"]
           y == Ordered(x, k, order)
           last == Len(x.events)
<1>1. order # None /\ [order EXCEPT !.status = "new"] = order
  BY NoneAssumption DEF Orders, Statuses
<1>2. Registered(x, k, intent) = y
  <2>1. Registered(x, k, intent) = [x EXCEPT !.orders[k] = order]
    BY DEF Registered
  <2> HIDE DEF order
  <2> QED BY <2>1, BookOf DEF Booklike, Ordered
<1> HIDE DEF order
<1>3. y.orders = [x.orders EXCEPT ![k] = order] /\ y.events = x.events /\ last \in Nat
  BY BookOf DEF Ordered
<1>4. PICK f : IsReplay(f, x) /\ Replayed(x) = f[last]
  BY BookOf, ReplayedIs
<1> DEFINE g == [n \in 0..last |-> Ordered(f[n], k, order)]
<1>5. IsReplay(g, y)
  <2>1. Ordered(Fresh(x), k, order) = Fresh(y)
    <3> DEFINE Renewed(o) == IF o = None THEN None ELSE [o EXCEPT !.status = "new"]
    <3>1. ASSUME NEW j \in Candles
          PROVE  Renewed(y.orders[j]) = IF j = k THEN order ELSE Renewed(x.orders[j])
      BY <1>1, <1>3, BookOf DEF OrderBooks
    <3>2. [j \in Candles |-> Renewed(y.orders[j])]
            = [[j \in Candles |-> Renewed(x.orders[j])] EXCEPT ![k] = order]
      <4> HIDE DEF Renewed
      <4> QED BY <3>1
    <3>3. /\ Fresh(x).orders = [j \in Candles |-> Renewed(x.orders[j])]
          /\ Fresh(y).orders = [j \in Candles |-> Renewed(y.orders[j])]
      BY FreshIs
    <3>4. /\ Fresh(x) = [orders |-> Fresh(x).orders, fills |-> <<>>, position |-> None,
                         cursor |-> 0, events |-> <<>>]
          /\ Fresh(y) = [orders |-> Fresh(y).orders, fills |-> <<>>, position |-> None,
                         cursor |-> 0, events |-> <<>>]
      BY FreshIs
    <3> HIDE DEF y, Renewed
    <3>5. Fresh(y).orders = [Fresh(x).orders EXCEPT ![k] = order]
      BY <3>2, <3>3
    <3> QED BY <3>4, <3>5 DEF Ordered
  <2>2. g[0] = Fresh(y)
    BY <1>3, <1>4, <2>1 DEF IsReplay
  <2>3. ASSUME NEW n \in 1..last
        PROVE  g[n] = AdapterApply(g[n - 1], y.events[n])
    <3>1. n \in 0..last /\ n - 1 \in 0..last /\ n \in DOMAIN x.events
      BY <1>3, BookOf
    <3>2. Booklike(f[n - 1]) /\ x.events[n].order # k
      BY <1>3, <1>4, <3>1, ReplayBooklike
    <3>3. AdapterApply(Ordered(f[n - 1], k, order), x.events[n])
            = Ordered(AdapterApply(f[n - 1], x.events[n]), k, order)
      BY <3>2, ApplyCommutes
    <3>4. f[n] = AdapterApply(f[n - 1], x.events[n])
      BY <1>4 DEF IsReplay
    <3> QED BY <1>3, <3>1, <3>3, <3>4
  <2>4. g = [n \in 0..last |-> g[n]]
    OBVIOUS
  <2> HIDE DEF g, y
  <2> QED BY <1>3, <2>2, <2>3, <2>4 DEF IsReplay
<1>6. g[last] = At(y, 0)
  <2>1. g[last] = Ordered(At(x, 0), k, order)
    BY <1>3, <1>4 DEF Faithful
  <2> QED BY <2>1 DEF Ordered, At
<1> HIDE DEF g, y
<1>7. Faithful(y)
  BY <1>3, <1>5, <1>6, ReplayedIs DEF Faithful
<1>8. y \in AdapterBooks /\ y.orders[k] # None
  BY <1>1, <1>2, <1>3, BookOf, Registers DEF OrderBooks
<1> QED BY <1>2, <1>7, <1>8
Decoded == IInv /\ Faithful(db.adapter)

\* The order of one candle and the answers that the policy gives at once.
LEMMA FaithfulSubmitted ==
    ASSUME NEW ledger \in LedgerBooks, NEW x \in AdapterBooks,
           Agree(ledger, x), EventsSound(x), Faithful(x),
           NEW k \in Candles, NEW intent \in Intents, ledger.orders[k] = None,
           decision \in AllDecisions
    PROVE  LET new == Submitted([ledger |-> ledger, adapter |-> x], k, intent).adapter
           IN  new \in AdapterBooks /\ Faithful(new)
<1> DEFINE registered == Registered(x, k, intent)
           accepted == AdapterApply(registered, Event(k, "accepted"))
           rejected == AdapterApply(registered, Event(k, "rejected"))
           filled == AdapterApply(accepted, Event(k, "filled"))
           new == Submitted([ledger |-> ledger, adapter |-> x], k, intent).adapter
<1>1. /\ registered \in AdapterBooks /\ Faithful(registered) /\ registered.orders[k] # None
  <2>1. x.orders[k] = None /\ \A i \in DOMAIN x.events : x.events[i].order # k
    BY RegisteredTogether DEF Agree
  <2> QED BY <2>1, FaithfulRegistered
<1> HIDE DEF registered
<1>2. /\ accepted \in AdapterBooks /\ Faithful(accepted) /\ accepted.orders[k] # None
      /\ rejected \in AdapterBooks /\ Faithful(rejected)
  BY <1>1, FaithfulEvent DEF EventTypes
<1> HIDE DEF accepted
<1>3. filled \in AdapterBooks /\ Faithful(filled)
  BY <1>2, FaithfulEvent DEF EventTypes
<1>4. new \in {registered, accepted, rejected, filled}
  BY DEF Submitted, Told, AllDecisions, registered, accepted
<1> HIDE DEF new, rejected, filled
<1>5. new \in AdapterBooks /\ Faithful(new)
  BY <1>1, <1>2, <1>3, <1>4
<1> QED BY <1>5 DEF new

LEMMA NextDecoded == Decoded /\ [Next]_vars => Decoded'
<1> SUFFICES ASSUME Decoded, [Next]_vars PROVE Decoded'
  OBVIOUS
<1> DEFINE x == db.adapter
<1>1. /\ IInv /\ IInv' /\ RowOK(db) /\ Faithful(x)
      /\ feed \in [Candles -> Signals] /\ decision \in AllDecisions
  BY NextIInv, DecisionsAssumption DEF Decoded, IInv
<1>2. /\ db.state \in ReplayStates /\ db.ledger \in LedgerBooks /\ x \in AdapterBooks
      /\ Agree(db.ledger, x) /\ EventsSound(x)
  BY <1>1 DEF RowOK
<1>3. ASSUME RowStays
      PROVE  Faithful(db'.adapter)
  BY <1>1, <1>3 DEF RowStays
<1>4. ASSUME RowTakes
      PROVE  Faithful(db'.adapter)
  <2> DEFINE k == Upcoming(db.state)
             intent == IntentAt(db.state)
             old == [ledger |-> db.ledger, adapter |-> x]
             new == IF intent = None THEN old ELSE Submitted(old, Step(db.state).cursor, intent)
  <2>1. /\ ~Unresolved(db.ledger) /\ ~Refused(db.ledger) /\ k \in Candles
        /\ Executable(db, intent) /\ Step(db.state).cursor = k
    BY <1>4 DEF RowTakes, Step
  <2>2. db'.adapter = [new.adapter EXCEPT !.cursor = k]
    BY <1>4, <2>1 DEF RowTakes, Transition
  <2>3. new.adapter \in AdapterBooks /\ Faithful(new.adapter)
    <3>1. CASE intent = None
      BY <1>1, <1>2, <3>1
    <3>2. CASE intent # None
      <4>1. intent \in Intents
        BY <1>1, <1>2, <2>1, <3>2, IntentMeaning
      <4>2. db.ledger.orders[k] = None
        <5>1. \A next : next = Transition(db) => db.ledger.orders[k] = None
          BY <1>1, <2>1, <3>2, TransitionEffect
        <5> QED BY <5>1
      <4>3. new = Submitted(old, k, intent)
        BY <2>1, <3>2
      <4> HIDE DEF new, intent, k
      <4> QED BY <1>1, <1>2, <2>1, <4>1, <4>2, <4>3, FaithfulSubmitted
    <3> QED BY <3>1, <3>2
  <2> HIDE DEF new
  <2> QED BY <2>2, <2>3, FaithfulCursor
<1>5. ASSUME NEW k \in Candles, NEW type \in EventTypes, RowAnswered(k, type)
      PROVE  Faithful(db'.adapter)
  <2>1. /\ AdapterAdmits(x, Event(k, type))
        /\ db'.adapter = AdapterApply(x, Event(k, type))
    BY <1>5 DEF RowAnswered
  <2>2. Known(x, Event(k, type)) \/ x.orders[k] # None
    BY <2>1 DEF AdapterAdmits, HasStatus, Event
  <2> QED BY <1>1, <1>2, <2>1, <2>2, FaithfulEvent
<1>6. Faithful(db'.adapter)
  BY <1>1, <1>3, <1>4, <1>5, RowSteps, SMTT(60)
<1>7. Faithful(db.adapter)'
  BY <1>6 DEF Faithful, Replayed, At, Fresh, AdapterApply, Known, Filled, WithStatus
<1> QED BY <1>1, <1>7 DEF Decoded

\* _adapter_state_from_data never refuses a row that was written: replaying the
\* stored events over fresh orders, in the order they were recorded, arrives at
\* the stored orders, fills and position.
THEOREM ExecutionDecodable == Spec => []Decodable
<1>1. Init => Decoded
  <2> SUFFICES ASSUME Init PROVE Decoded
    OBVIOUS
  <2>1. db.adapter = EmptyAdapter
    BY DEF Init
  <2> QED BY <2>1, InitIInv, FaithfulEmpty DEF Decoded
<1>2. Decoded => Decodable
  <2> SUFFICES ASSUME Decoded PROVE Decodable
    OBVIOUS
  <2> DEFINE x == db.adapter
  <2>1. x \in AdapterBooks /\ Replayed(x) = At(x, 0)
    BY DEF Decoded, IInv, RowOK, Faithful
  <2>2. x = At(x, x.cursor)
    BY <2>1, BookOf DEF Booklike, At
  <2>3. [At(x, 0) EXCEPT !.cursor = x.cursor] = At(x, x.cursor)
    BY DEF At
  <2> QED BY <2>1, <2>2, <2>3 DEF Decodable
<1> QED BY <1>1, <1>2, NextDecoded, PTL DEF Spec
=============================================================================
