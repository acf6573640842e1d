----------------------------- MODULE ExitProofs -----------------------------
(***************************************************************************)
(* Proofs about ExitCounterfactual and ExitStudy, for any entry, risk,     *)
(* bars and costs.                                                         *)
(***************************************************************************)
EXTENDS ExitStudy, FiniteSetTheorems, WellFoundedInduction, TLAPS

\* The state without what never changes.
Now ==
    [path |-> path, stop |-> stop, moved |-> moved, remaining |-> remaining,
     components |-> components, flags |-> flags, canonical |-> canonical]

\* The bars: the initial stop is not touched before the canonical exit, which
\* ends them.
Unreached(p, n) == \A i \in 1..n : ~FavorableReached(p[i])

Untouched(p, n) == \A i \in 1..n : ~Touched(p[i], InitialStop)

CanonicalPrice(q) == IF Touched(q, InitialStop) THEN Filled(q, InitialStop) ELSE q.close

BarsOK(x) ==
    /\ x.path \in Seq(Quotes)
    /\ \/ x.canonical = Pending /\ Untouched(x.path, Len(x.path))
       \/ /\ Len(x.path) > 0 /\ Untouched(x.path, Len(x.path) - 1)
          /\ x.canonical = [at |-> Len(x.path), price |-> CanonicalPrice(x.path[Len(x.path)])]

\* What a rule does at its trigger, and what is left to close afterwards.
Acts == rule.partial \/ rule.breakEven

Exit(kind, quantity, price, reason, at) ==
    [kind |-> kind, quantity |-> quantity, price |-> price, reason |-> reason,
     at |-> at, net |-> NetOf(quantity, price)]

Parts(t) ==
    IF rule.partial THEN <<Exit("partial_take_profit", 1, Target, "take_profit", t)>> ELSE <<>>

Rest == IF rule.partial THEN 1 ELSE Quantity

Last(price, reason, at) ==
    Exit(IF rule.partial THEN "runner" ELSE "full_position", Rest, price, reason, at)

\* Bar t is the first that reaches the target.
First(p, t) == t \in 1..Len(p) /\ FavorableReached(p[t]) /\ Unreached(p, t - 1)

\* The trigger acted on bar t.
Acted(x, t) ==
    /\ Acts /\ First(x.path, t)
    /\ x.moved = IF rule.breakEven THEN t ELSE 0
    /\ x.stop = IF rule.breakEven THEN EntryPrice ELSE InitialStop

Unmoved(x) == x.moved = 0 /\ x.stop = InitialStop

Later(x, t) == x.canonical = Pending \/ t < x.canonical.at

-----------------------------------------------------------------------------
(* What a trade can have come to.                                          *)

\* Nothing has happened yet.
Held(x) ==
    /\ Unmoved(x) /\ Unreached(x.path, Len(x.path))
    /\ x.components = <<>> /\ x.remaining = Quantity /\ x.flags = {} /\ x.canonical = Pending

\* The trigger acted on bar t, and something is still held.
Running(x, t) ==
    /\ Acted(x, t)
    /\ rule.breakEven => \A i \in t..Len(x.path) : ~Touched(x.path[i], EntryPrice)
    /\ x.components = Parts(t) /\ x.remaining = Rest /\ x.flags = {} /\ x.canonical = Pending

\* The trade ended as the canonical one, before or without a trigger.
EndedAlike(x) ==
    /\ Unmoved(x) /\ x.remaining = 0
    /\ x.canonical # Pending
    /\ Unreached(x.path, x.canonical.at - 1)
    /\ x.components =
         <<Exit("full_position", Quantity, x.canonical.price,
                IF Touched(x.path[x.canonical.at], InitialStop) THEN "stop" ELSE "canonical_exit",
                x.canonical.at)>>
    /\ "against_candidate" \in x.flags <=> FavorableReached(x.path[x.canonical.at])
    /\ "trigger_and_new_stop" \notin x.flags

\* All of it was closed at the target, on bar t.
EndedAtTarget(x, t) ==
    /\ Unmoved(x) /\ x.remaining = 0
    /\ ~Acts /\ First(x.path, t) /\ Later(x, t)
    /\ x.components = <<Exit("full_position", Quantity, Target, "take_profit", t)>>
    /\ x.flags = {}

\* The trigger moved the stop on bar t, which also reached the new stop.
EndedAtOnce(x, t) ==
    /\ Acted(x, t) /\ rule.breakEven /\ x.remaining = 0 /\ Later(x, t)
    /\ Touched(x.path[t], EntryPrice)
    /\ x.components = Append(Parts(t), Last(EntryPrice, "break_even_stop", t))
    /\ x.flags = {"trigger_and_new_stop", "against_candidate"}

\* The trigger acted on bar t, and bar u closed the rest.
Closes(x, u, price, reason) ==
    IF Touched(x.path[u], x.stop)
    THEN /\ price = Filled(x.path[u], x.stop)
         /\ reason = IF rule.breakEven THEN "break_even_stop" ELSE "stop"
    ELSE /\ x.canonical # Pending /\ u = x.canonical.at
         /\ price = x.canonical.price /\ reason = "canonical_exit"

EndedAfter(x, t, u) ==
    /\ Acted(x, t) /\ x.remaining = 0
    /\ t < u /\ u \in 1..Len(x.path)
    /\ rule.breakEven => ~Touched(x.path[t], EntryPrice)
    /\ \E price \in Int, reason \in {"break_even_stop", "stop", "canonical_exit"} :
          /\ Closes(x, u, price, reason)
          /\ x.components = Append(Parts(t), Last(price, reason, u))
    /\ x.flags \cap {"trigger_and_new_stop", "against_candidate"} = {}

Fate(x) ==
    \/ Held(x)
    \/ \E t \in 1..Len(x.path) : Running(x, t)
    \/ EndedAlike(x)
    \/ \E t \in 1..Len(x.path) : EndedAtTarget(x, t) \/ EndedAtOnce(x, t)
    \/ \E t, u \in 1..Len(x.path) : EndedAfter(x, t, u)

IInv ==
    /\ side \in {"long", "short"} /\ rule \in Rules
    /\ BarsOK(Now)
    /\ Fate(Now)

-----------------------------------------------------------------------------
(* Numbers.                                                                *)

LEMMA Numbers ==
    ASSUME side \in {"long", "short"}, rule \in Rules
    PROVE  /\ EntryPrice \in Int /\ Risk \in Nat /\ Risk > 0 /\ InitialStop \in Int /\ Target \in Int
           /\ InitialStop # EntryPrice
           /\ rule.partial \in BOOLEAN /\ rule.breakEven \in BOOLEAN
           /\ rule.target \in {2, 3, 4, 6, 8}
           /\ Moved(Target) \in Int /\ Moved(Target) > 0
           /\ 2 * Moved(Target) = rule.target * Risk
<1>1. rule.partial \in BOOLEAN /\ rule.breakEven \in BOOLEAN /\ rule.target \in {2, 3, 4, 6, 8}
  <2>1. PICK t \in {2, 3, 4, 6, 8}, partial \in BOOLEAN, breakEven \in BOOLEAN :
            rule = Rule(t, partial, breakEven)
    BY DEF Rules
  <2> QED BY <2>1 DEF Rule
<1>2. PICK half \in Int : half = Risk \div 2 /\ Risk = 2 * half /\ half > 0
  BY TradeAssumption DEF LegalTrade
<1>3. EntryPrice \in Int /\ Risk \in Nat /\ Risk > 0
  BY TradeAssumption DEF LegalTrade
<1>4. InitialStop \in Int /\ InitialStop # EntryPrice
  BY <1>3 DEF InitialStop, Signed
<1> DEFINE move == rule.target * half
<1>5. move \in Int /\ move > 0 /\ 2 * move = rule.target * Risk
  BY <1>1, <1>2
<1>6. Target = EntryPrice + Signed(move)
  BY <1>2 DEF Target
<1> HIDE DEF move
<1>7. Target \in Int /\ Moved(Target) = move
  BY <1>3, <1>5, <1>6 DEF Moved, Signed
<1> QED BY <1>1, <1>3, <1>4, <1>5, <1>7

LEMMA QuoteFacts ==
    ASSUME NEW q \in Quotes
    PROVE  /\ q.open \in Int /\ q.high \in Int /\ q.low \in Int /\ q.close \in Int
           /\ q.low <= q.open /\ q.open <= q.high /\ q.low <= q.close /\ q.close <= q.high
BY QuoteAssumption DEF LegalQuote

LEMMA Prices ==
    ASSUME NEW q \in Quotes, NEW level \in Int
    PROVE  Filled(q, level) \in Int /\ (side \in {"long", "short"} => CanonicalPrice(q) \in Int)
<1>1. Filled(q, level) \in Int
  BY QuoteFacts DEF Filled
<1>2. ASSUME side \in {"long", "short"}
      PROVE  CanonicalPrice(q) \in Int
  BY <1>2, QuoteFacts, TradeAssumption DEF CanonicalPrice, Filled, InitialStop, Signed, LegalTrade
<1> QED BY <1>1, <1>2

-----------------------------------------------------------------------------
(* The inductive invariant.                                                *)

LEMMA InitIInv == Init => IInv
<1> SUFFICES ASSUME Init PROVE IInv
  OBVIOUS
<1>1. /\ side \in {"long", "short"} /\ rule \in Rules
      /\ Now.path = <<>> /\ Now.canonical = Pending /\ Now.stop = InitialStop /\ Now.moved = 0
      /\ Now.components = <<>> /\ Now.remaining = Quantity /\ Now.flags = {}
  BY DEF Init, Now
<1> HIDE DEF Now
<1>2. Len(Now.path) = 0 /\ Now.path \in Seq(Quotes)
  BY <1>1
<1>3. BarsOK(Now)
  BY <1>1, <1>2 DEF BarsOK, Untouched
<1>4. Held(Now)
  BY <1>1, <1>2 DEF Held, Unmoved, Unreached
<1> QED BY <1>1, <1>3, <1>4 DEF IInv, Fate

\* One more bar.
Grows(x, y, q) ==
    /\ y.path = Append(x.path, q) /\ x.path \in Seq(Quotes)
    /\ Len(x.path) \in Nat /\ Len(y.path) = Len(x.path) + 1
    /\ \A i \in 1..Len(x.path) : y.path[i] = x.path[i]
    /\ y.path[Len(x.path) + 1] = q

\* It is the last one, or leaves the initial stop alone.
Ends(x, y, q, last) ==
    IF last
    THEN /\ y.canonical # Pending
         /\ y.canonical = [at |-> Len(x.path) + 1, price |-> CanonicalPrice(q)]
         /\ y.canonical.at = Len(x.path) + 1 /\ y.canonical.price = CanonicalPrice(q)
    ELSE y.canonical = Pending /\ ~Touched(q, InitialStop)

LEMMA BarTaken ==
    ASSUME IInv, NEW q \in Quotes, NEW last \in BOOLEAN,
           canonical = Pending, Canonical(q, last), path' = Append(path, q)
    PROVE  /\ Grows(Now, Now', q) /\ Ends(Now, Now', q, last) /\ BarsOK(Now')
           /\ \A n \in 0..Len(path) : Unreached(path, n) => Unreached(path', n)
<1> DEFINE n == Len(path)
<1>1. /\ path \in Seq(Quotes) /\ n \in Nat /\ Len(path') = n + 1 /\ path' \in Seq(Quotes)
      /\ \A i \in 1..n : path'[i] = path[i]
      /\ path'[n + 1] = q
  BY DEF IInv, BarsOK, Now
<1>2. Grows(Now, Now', q)
  BY <1>1 DEF Grows, Now
<1>3. Untouched(path, n)
  BY <1>1 DEF IInv, BarsOK, Now, Pending
<1>4. \A m \in 0..n : Unreached(path, m) => Unreached(path', m)
  BY <1>1 DEF Unreached
<1>5. Untouched(path', n)
  BY <1>1, <1>3 DEF Untouched
<1>6. CASE last
  <2>1. canonical' = [at |-> n + 1, price |-> CanonicalPrice(q)]
    BY <1>6 DEF Canonical, CanonicalPrice
  <2>2. canonical' # Pending /\ canonical'.at = n + 1 /\ canonical'.price = CanonicalPrice(q)
    BY <1>1, <2>1 DEF Pending
  <2>3. BarsOK(Now')
    BY <1>1, <1>5, <2>1 DEF BarsOK, Now
  <2>4. Ends(Now, Now', q, last)
    BY <1>6, <2>1, <2>2 DEF Ends, Now
  <2> QED BY <1>2, <1>4, <2>3, <2>4
<1>7. CASE ~last
  <2>1. canonical' = Pending /\ ~Touched(q, InitialStop)
    BY <1>7 DEF Canonical
  <2>2. Untouched(path', n + 1)
    BY <1>1, <1>5, <2>1 DEF Untouched
  <2>3. BarsOK(Now')
    BY <1>1, <2>1, <2>2 DEF BarsOK, Now
  <2>4. Ends(Now, Now', q, last)
    BY <1>7, <2>1 DEF Ends, Now
  <2> QED BY <1>2, <1>4, <2>3, <2>4
<1> QED BY <1>6, <1>7

LEMMA FirstKept ==
    ASSUME NEW x, NEW y, NEW q, Grows(x, y, q), NEW t \in 1..Len(x.path), First(x.path, t)
    PROVE  First(y.path, t) /\ t \in 1..Len(y.path) /\ y.path[t] = x.path[t]
BY DEF Grows, First, Unreached

LEMMA FirstNew ==
    ASSUME NEW x, NEW y, NEW q, Grows(x, y, q),
           Unreached(x.path, Len(x.path)), FavorableReached(q)
    PROVE  First(y.path, Len(x.path) + 1) /\ Len(x.path) + 1 \in 1..Len(y.path)
BY DEF Grows, First, Unreached

LEMMA NowFields ==
    /\ Now.path = path /\ Now.stop = stop /\ Now.moved = moved /\ Now.remaining = remaining
    /\ Now.components = components /\ Now.flags = flags /\ Now.canonical = canonical
    /\ Now'.path = path' /\ Now'.stop = stop' /\ Now'.moved = moved'
    /\ Now'.remaining = remaining' /\ Now'.components = components' /\ Now'.flags = flags'
    /\ Now'.canonical = canonical'
BY DEF Now

\* While nothing has happened, the trigger is there when the target is reached.
LEMMA HeldAvailable ==
    ASSUME Held(Now), NEW q
    PROVE  Available(q) <=> FavorableReached(q)
<1>1. components = <<>> /\ moved = 0
  BY NowFields DEF Held, Unmoved
<1> QED BY <1>1 DEF Available, PartialDone

\* It acts only once.
LEMMA RunningAvailable ==
    ASSUME rule \in Rules, side \in {"long", "short"}, NEW t \in Nat, t > 0, Running(Now, t), NEW q
    PROVE  ~Available(q)
<1>1. components = Parts(t) /\ moved = IF rule.breakEven THEN t ELSE 0
  BY NowFields DEF Running, Acted
<1>2. rule.partial \/ rule.breakEven
  BY DEF Running, Acted, Acts
<1>3. CASE rule.partial
  <2>1. components = <<Exit("partial_take_profit", 1, Target, "take_profit", t)>>
    BY <1>1, <1>3 DEF Parts
  <2>2. 1 \in DOMAIN components /\ components[1].kind = "partial_take_profit"
    BY <2>1 DEF Exit
  <2> QED BY <2>2 DEF Available, PartialDone
<1>4. CASE ~rule.partial
  BY <1>1, <1>2, <1>4 DEF Available
<1> QED BY <1>3, <1>4

\* The steps of a trade to which nothing has happened.
LEMMA HeldSteps ==
    ASSUME IInv, Held(Now), NEW q \in Quotes, NEW last \in BOOLEAN,
           canonical = Pending, Canonical(q, last), path' = Append(path, q),
           \/ StopHit(q, last)
           \/ CanonicalExit(q, last)
           \/ ~last /\ (Quiet(q) \/ TakePartial(q) \/ TakeProfit(q) \/ MoveStop(q))
    PROVE  Fate(Now')
<1> DEFINE x == Now
           y == Now'
           n == Len(path)
           m == n + 1
<1>1. /\ Grows(x, y, q) /\ Ends(x, y, q, last) /\ n \in Nat
      /\ m \in 1..Len(y.path) /\ y.path[m] = q /\ m - 1 = n /\ Len(y.path) = m
  BY BarTaken, NowFields DEF Grows
<1>2. /\ stop = InitialStop /\ moved = 0 /\ components = <<>> /\ remaining = Quantity /\ flags = {}
      /\ Unreached(path, n) /\ Unreached(y.path, n)
  BY BarTaken, NowFields, <1>1 DEF Held, Unmoved
<1>3. /\ side \in {"long", "short"} /\ rule \in Rules
      /\ rule.partial \in BOOLEAN /\ rule.breakEven \in BOOLEAN /\ InitialStop # EntryPrice
  BY Numbers DEF IInv
<1>4. Available(q) <=> FavorableReached(q)
  BY HeldAvailable
<1>5. ASSUME FavorableReached(q)
      PROVE  First(y.path, m)
  BY <1>1, <1>2, <1>5, FirstNew, NowFields
<1>6. /\ y.stop = stop' /\ y.moved = moved' /\ y.remaining = remaining'
      /\ y.components = components' /\ y.flags = flags' /\ y.canonical = canonical'
      /\ x.path = path
  BY NowFields
<1> HIDE DEF x, y
<1>7. CASE StopHit(q, last)
  <2>1. /\ Touched(q, InitialStop) /\ stop' = InitialStop /\ moved' = 0 /\ remaining' = 0
        /\ components' = Closing(components, remaining, Filled(q, InitialStop), "stop")
        /\ flags' = (IF Available(q) THEN {"stop_and_target", "against_candidate"} ELSE {})
                    \cup (IF last THEN {"stop_and_canonical"} ELSE {})
    BY <1>2, <1>3, <1>7 DEF StopHit
  <2>2. last /\ y.canonical # Pending /\ y.canonical.at = m /\ y.canonical.price = CanonicalPrice(q)
    BY <1>1, <1>6, <2>1 DEF Ends
  <2>3. CanonicalPrice(q) = Filled(q, InitialStop)
    BY <2>1 DEF CanonicalPrice
  <2>4. components' = <<Exit("full_position", Quantity, Filled(q, InitialStop), "stop", m)>>
    BY <1>2, <2>1 DEF Closing, Component, Exit
  <2>5. "against_candidate" \in flags' <=> FavorableReached(q)
    BY <1>4, <2>1
  <2>6. "trigger_and_new_stop" \notin flags'
    BY <2>1
  <2>7. EndedAlike(y)
    BY <1>1, <1>2, <1>6, <2>1, <2>2, <2>3, <2>4, <2>5, <2>6 DEF EndedAlike, Unmoved
  <2> QED BY <2>7 DEF Fate, y
<1>8. CASE CanonicalExit(q, last)
  <2>1. /\ ~Touched(q, InitialStop) /\ last /\ stop' = InitialStop /\ moved' = 0 /\ remaining' = 0
        /\ components' = Closing(components, remaining, canonical'.price, "canonical_exit")
        /\ flags' = IF Available(q) THEN {"target_and_canonical", "against_candidate"} ELSE {}
    BY <1>2, <1>8 DEF CanonicalExit
  <2>2. y.canonical # Pending /\ y.canonical.at = m
    BY <1>1, <1>6, <2>1 DEF Ends
  <2>3. components' = <<Exit("full_position", Quantity, canonical'.price, "canonical_exit", m)>>
    BY <1>2, <2>1 DEF Closing, Component, Exit
  <2>4. "against_candidate" \in flags' <=> FavorableReached(q)
    BY <1>4, <2>1
  <2>5. "trigger_and_new_stop" \notin flags'
    BY <2>1
  <2>6. EndedAlike(y)
    BY <1>1, <1>2, <1>6, <2>1, <2>2, <2>3, <2>4, <2>5 DEF EndedAlike, Unmoved
  <2> QED BY <2>6 DEF Fate, y
<1>9. CASE ~last /\ Quiet(q)
  <2>1. /\ stop' = stop /\ moved' = moved /\ remaining' = remaining /\ components' = components
        /\ flags' = flags /\ ~FavorableReached(q)
    BY <1>4, <1>9 DEF Quiet
  <2>2. y.canonical = Pending
    BY <1>1, <1>9 DEF Ends
  <2>3. Unreached(y.path, m)
    BY <1>1, <1>2, <2>1 DEF Unreached
  <2>4. Held(y)
    BY <1>1, <1>2, <1>6, <2>1, <2>2, <2>3 DEF Held, Unmoved
  <2> QED BY <2>4 DEF Fate, y
<1>10. CASE ~last /\ TakePartial(q)
  <2>1. /\ stop' = stop /\ moved' = moved /\ remaining' = remaining - 1
        /\ components' = PartialTaken /\ flags' = flags
        /\ FavorableReached(q) /\ rule.partial /\ ~rule.breakEven
    BY <1>4, <1>10 DEF TakePartial, Triggered
  <2>2. y.canonical = Pending
    BY <1>1, <1>10 DEF Ends
  <2>3. components' = Parts(m) /\ remaining' = Rest
    BY <1>2, <2>1 DEF PartialTaken, Component, Parts, Exit, Rest, Quantity
  <2>4. Running(y, m)
    BY <1>2, <1>5, <1>6, <2>1, <2>2, <2>3 DEF Running, Acted, Acts
  <2> QED BY <1>1, <2>4 DEF Fate, y
<1>11. CASE ~last /\ TakeProfit(q)
  <2>1. /\ stop' = stop /\ moved' = moved /\ remaining' = 0
        /\ components' = Closing(components, remaining, Target, "take_profit") /\ flags' = flags
        /\ FavorableReached(q) /\ ~rule.partial /\ ~rule.breakEven
    BY <1>4, <1>11 DEF TakeProfit, Triggered
  <2>2. y.canonical = Pending
    BY <1>1, <1>11 DEF Ends
  <2>3. components' = <<Exit("full_position", Quantity, Target, "take_profit", m)>>
    BY <1>2, <2>1 DEF Closing, Component, Exit
  <2>4. EndedAtTarget(y, m)
    BY <1>2, <1>5, <1>6, <2>1, <2>2, <2>3 DEF EndedAtTarget, Acts, Unmoved, Later
  <2> QED BY <1>1, <2>4 DEF Fate, y
<1>12. CASE ~last /\ MoveStop(q)
  <2> DEFINE parts == IF rule.partial THEN PartialTaken ELSE components
             rest == IF rule.partial THEN remaining - 1 ELSE remaining
  <2>1. /\ FavorableReached(q) /\ rule.breakEven /\ stop' = EntryPrice /\ moved' = m
        /\ components' = IF Touched(q, EntryPrice)
                         THEN Closing(parts, rest, EntryPrice, "break_even_stop") ELSE parts
        /\ remaining' = IF Touched(q, EntryPrice) THEN 0 ELSE rest
        /\ flags' = IF Touched(q, EntryPrice)
                    THEN flags \cup {"trigger_and_new_stop", "against_candidate"} ELSE flags
    BY <1>4, <1>12 DEF MoveStop, Triggered
  <2>2. y.canonical = Pending
    BY <1>1, <1>12 DEF Ends
  <2>3. parts = Parts(m) /\ rest = Rest
    BY <1>2, <1>3 DEF PartialTaken, Component, Parts, Exit, Rest, Quantity
  <2> HIDE DEF parts, rest
  <2>4. Acted(y, m)
    BY <1>5, <1>6, <2>1 DEF Acted, Acts
  <2>5. CASE Touched(q, EntryPrice)
    <3>1. components' = Append(Parts(m), Last(EntryPrice, "break_even_stop", m))
      <4>1. components' = Closing(Parts(m), Rest, EntryPrice, "break_even_stop")
        BY <2>1, <2>3, <2>5
      <4>2. Parts(m) = <<>> <=> ~rule.partial
        BY DEF Parts
      <4> QED BY <4>1, <4>2 DEF Closing, Component, Exit, Last
    <3>2. flags' = {"trigger_and_new_stop", "against_candidate"}
      BY <1>2, <2>1, <2>5
    <3>3. EndedAtOnce(y, m)
      BY <1>1, <1>6, <2>1, <2>2, <2>4, <2>5, <3>1, <3>2 DEF EndedAtOnce, Later
    <3> QED BY <1>1, <3>3 DEF Fate, y
  <2>6. CASE ~Touched(q, EntryPrice)
    <3>1. \A i \in m..Len(y.path) : ~Touched(y.path[i], EntryPrice)
      BY <1>1, <2>6
    <3>2. Running(y, m)
      BY <1>2, <1>6, <2>1, <2>2, <2>3, <2>4, <2>6, <3>1 DEF Running
    <3> QED BY <1>1, <3>2 DEF Fate, y
  <2> QED BY <2>5, <2>6
<1> QED BY <1>7, <1>8, <1>9, <1>10, <1>11, <1>12
\* The steps of a trade whose trigger has acted.
LEMMA RunningSteps ==
    ASSUME IInv, NEW t \in 1..Len(path), Running(Now, t), NEW q \in Quotes, NEW last \in BOOLEAN,
           canonical = Pending, Canonical(q, last), path' = Append(path, q),
           \/ StopHit(q, last)
           \/ CanonicalExit(q, last)
           \/ ~last /\ (Quiet(q) \/ TakePartial(q) \/ TakeProfit(q) \/ MoveStop(q))
    PROVE  Fate(Now')
<1> DEFINE x == Now
           y == Now'
           n == Len(path)
           m == n + 1
<1>1. /\ Grows(x, y, q) /\ Ends(x, y, q, last) /\ n \in Nat
      /\ m \in 1..Len(y.path) /\ y.path[m] = q /\ m - 1 = n /\ Len(y.path) = m
      /\ t \in Nat /\ t > 0 /\ t < m /\ t \in 1..Len(y.path) /\ t \in 1..Len(x.path)
      /\ y.path[t] = x.path[t]
  BY BarTaken, NowFields DEF Grows
<1>2. /\ Acted(x, t) /\ components = Parts(t) /\ remaining = Rest /\ flags = {}
      /\ rule.breakEven => \A i \in t..n : ~Touched(path[i], EntryPrice)
  BY NowFields DEF Running
<1>3. /\ side \in {"long", "short"} /\ rule \in Rules
      /\ rule.partial \in BOOLEAN /\ rule.breakEven \in BOOLEAN /\ InitialStop # EntryPrice
      /\ InitialStop \in Int /\ EntryPrice \in Int
  BY Numbers DEF IInv
<1>4. ~Available(q)
  BY <1>1, <1>3, RunningAvailable
<1>5. First(x.path, t) /\ Acts
  BY <1>2 DEF Acted
<1>6. First(y.path, t)
  BY <1>1, <1>5, FirstKept
<1>7. /\ y.stop = stop' /\ y.moved = moved' /\ y.remaining = remaining'
      /\ y.components = components' /\ y.flags = flags' /\ y.canonical = canonical'
      /\ x.path = path /\ x.stop = stop /\ x.moved = moved
  BY NowFields
<1>8. /\ stop = IF rule.breakEven THEN EntryPrice ELSE InitialStop
      /\ moved = IF rule.breakEven THEN t ELSE 0
      /\ stop \in Int
  BY <1>2, <1>3, <1>7 DEF Acted
<1>9. ASSUME stop' = stop, moved' = moved
      PROVE  Acted(y, t)
  BY <1>5, <1>6, <1>7, <1>8, <1>9 DEF Acted
<1>10. rule.breakEven => ~Touched(y.path[t], EntryPrice)
  BY <1>1, <1>2, <1>7
<1>11. Parts(t) = <<>> <=> ~rule.partial
  BY DEF Parts
<1> HIDE DEF x, y
<1>12. CASE StopHit(q, last)
  <2> DEFINE reason == IF rule.breakEven THEN "break_even_stop" ELSE "stop"
             price == Filled(q, stop)
  <2>1. /\ Touched(q, stop) /\ stop' = stop /\ moved' = moved /\ remaining' = 0
        /\ components' = Closing(components, remaining, price, reason)
        /\ flags' \cap {"trigger_and_new_stop", "against_candidate"} = {}
    BY <1>2, <1>3, <1>4, <1>8, <1>12 DEF StopHit
  <2>2. components' = Append(Parts(t), Last(price, reason, m))
    BY <1>2, <1>11, <2>1 DEF Closing, Component, Exit, Last
  <2>3. price \in Int /\ reason \in {"break_even_stop", "stop", "canonical_exit"}
    BY <1>8, Prices
  <2>4. Closes(y, m, price, reason)
    BY <1>1, <1>7, <2>1 DEF Closes
  <2> HIDE DEF price, reason
  <2>5. EndedAfter(y, t, m)
    BY <1>1, <1>7, <1>9, <1>10, <2>1, <2>2, <2>3, <2>4 DEF EndedAfter
  <2> QED BY <1>1, <2>5 DEF Fate, y
<1>13. CASE CanonicalExit(q, last)
  <2> DEFINE price == canonical'.price
  <2>1. /\ ~Touched(q, stop) /\ last /\ stop' = stop /\ moved' = moved /\ remaining' = 0
        /\ components' = Closing(components, remaining, price, "canonical_exit")
        /\ flags' \cap {"trigger_and_new_stop", "against_candidate"} = {}
    BY <1>2, <1>4, <1>13 DEF CanonicalExit
  <2>2. y.canonical # Pending /\ y.canonical.at = m /\ y.canonical.price = CanonicalPrice(q)
    BY <1>1, <1>7, <2>1 DEF Ends
  <2>3. components' = Append(Parts(t), Last(price, "canonical_exit", m))
    BY <1>2, <1>11, <2>1 DEF Closing, Component, Exit, Last
  <2>4. price \in Int
    BY <1>3, <1>7, <2>2, Prices
  <2>5. Closes(y, m, price, "canonical_exit")
    BY <1>1, <1>7, <2>1, <2>2 DEF Closes
  <2> HIDE DEF price
  <2>6. EndedAfter(y, t, m)
    BY <1>1, <1>7, <1>9, <1>10, <2>1, <2>3, <2>4, <2>5 DEF EndedAfter
  <2> QED BY <1>1, <2>6 DEF Fate, y
<1>14. CASE ~last /\ Quiet(q)
  <2>1. /\ stop' = stop /\ moved' = moved /\ remaining' = remaining /\ components' = components
        /\ flags' = flags /\ ~Touched(q, stop)
    BY <1>14 DEF Quiet
  <2>2. y.canonical = Pending
    BY <1>1, <1>14 DEF Ends
  <2>3. ASSUME rule.breakEven, NEW i \in t..m
        PROVE  ~Touched(y.path[i], EntryPrice)
    <3>1. CASE i = m
      BY <1>1, <1>8, <2>1, <2>3, <3>1
    <3>2. CASE i # m
      <4>1. i \in t..n /\ i \in 1..n
        BY <1>1, <3>2
      <4> QED BY <1>1, <1>2, <1>7, <2>3, <4>1 DEF Grows
    <3> QED BY <3>1, <3>2
  <2>4. Running(y, t)
    BY <1>1, <1>2, <1>7, <1>9, <2>1, <2>2, <2>3 DEF Running
  <2> QED BY <1>1, <2>4 DEF Fate, y
<1>15. CASE ~last /\ (TakePartial(q) \/ TakeProfit(q) \/ MoveStop(q))
  BY <1>4, <1>15 DEF TakePartial, TakeProfit, MoveStop, Triggered
<1> QED BY <1>12, <1>13, <1>14, <1>15

\* The bars that only belong to the canonical trade.
LEMMA EndedSteps ==
    ASSUME IInv, NEW q \in Quotes, NEW last \in BOOLEAN, CanonicalOnly(q, last)
    PROVE  Fate(Now')
<1> DEFINE x == Now
           y == Now'
           n == Len(path)
           m == n + 1
<1>1. /\ canonical = Pending /\ remaining = 0 /\ Canonical(q, last) /\ path' = Append(path, q)
      /\ stop' = stop /\ moved' = moved /\ remaining' = remaining /\ components' = components
      /\ flags' = flags
  BY DEF CanonicalOnly
<1>2. /\ Grows(x, y, q) /\ Ends(x, y, q, last) /\ n \in Nat /\ Len(y.path) = m
      /\ 1..n \subseteq 1..m /\ x.path = path
  BY <1>1, BarTaken, NowFields DEF Grows
<1>3. /\ y.stop = x.stop /\ y.moved = x.moved /\ y.remaining = x.remaining
      /\ y.components = x.components /\ y.flags = x.flags
      /\ x.canonical = Pending /\ x.remaining = 0
  BY <1>1, NowFields
<1>4. rule.partial \in BOOLEAN
  BY Numbers DEF IInv
<1>5. Fate(x)
  BY DEF IInv
<1> HIDE DEF x, y
<1>6. ASSUME NEW t \in 1..n
      PROVE  /\ Later(y, t)
             /\ y.path[t] = x.path[t]
             /\ First(x.path, t) => First(y.path, t)
             /\ Acted(x, t) => Acted(y, t)
  <2>1. First(x.path, t) => First(y.path, t)
    BY <1>2, FirstKept
  <2>2. Later(y, t)
    BY <1>2 DEF Ends, Later
  <2>3. y.path[t] = x.path[t]
    BY <1>2 DEF Grows
  <2> QED BY <1>3, <2>1, <2>2, <2>3 DEF Acted
<1>7. ~Held(x) /\ (\A t \in 1..n : ~Running(x, t)) /\ ~EndedAlike(x)
  BY <1>3, <1>4 DEF Held, Running, EndedAlike, Quantity, Rest
<1>8. ASSUME NEW t \in 1..n, EndedAtTarget(x, t)
      PROVE  EndedAtTarget(y, t)
  BY <1>3, <1>6, <1>8 DEF EndedAtTarget, Unmoved
<1>9. ASSUME NEW t \in 1..n, EndedAtOnce(x, t)
      PROVE  EndedAtOnce(y, t)
  BY <1>3, <1>6, <1>9 DEF EndedAtOnce
<1>10. ASSUME NEW t \in 1..n, NEW u \in 1..n, EndedAfter(x, t, u)
       PROVE  EndedAfter(y, t, u)
  <2>1. PICK price \in Int, reason \in {"break_even_stop", "stop", "canonical_exit"} :
          /\ Closes(x, u, price, reason)
          /\ x.components = Append(Parts(t), Last(price, reason, u))
    BY <1>10 DEF EndedAfter
  <2>2. Closes(y, u, price, reason)
    BY <1>3, <1>6, <2>1 DEF Closes
  <2>3. u \in 1..m
    BY <1>2
  <2> QED BY <1>2, <1>3, <1>6, <1>10, <2>1, <2>2, <2>3 DEF EndedAfter
<1>11. Fate(y)
  <2>1. \/ \E t \in 1..n : EndedAtTarget(x, t) \/ EndedAtOnce(x, t)
        \/ \E t, u \in 1..n : EndedAfter(x, t, u)
    BY <1>2, <1>5, <1>7 DEF Fate
  <2>2. \/ \E t \in 1..n : EndedAtTarget(y, t) \/ EndedAtOnce(y, t)
        \/ \E t, u \in 1..n : EndedAfter(y, t, u)
    BY <1>8, <1>9, <1>10, <2>1
  <2> QED BY <1>2, <2>2 DEF Fate
<1> QED BY <1>11 DEF y

\* A bar is taken only while the trade is not settled.
LEMMA BarSteps ==
    ASSUME IInv, NEW q \in Quotes, NEW last \in BOOLEAN,
           \/ StopHit(q, last)
           \/ CanonicalExit(q, last)
           \/ ~last /\ (Quiet(q) \/ TakePartial(q) \/ TakeProfit(q) \/ MoveStop(q))
    PROVE  BarsOK(Now') /\ Fate(Now') /\ side' = side /\ rule' = rule
<1>1. Reads(q, last)
  <2>1. ~last => last = FALSE
    OBVIOUS
  <2> QED BY <2>1 DEF StopHit, CanonicalExit, Quiet, TakePartial, TakeProfit, MoveStop, Triggered
<1>2. /\ canonical = Pending /\ remaining > 0 /\ Canonical(q, last) /\ path' = Append(path, q)
      /\ side' = side /\ rule' = rule
  BY <1>1 DEF Reads
<1>3. Held(Now) \/ \E t \in 1..Len(path) : Running(Now, t)
  <2>1. Fate(Now) /\ Now.path = path /\ Now.remaining > 0
    BY <1>2, NowFields DEF IInv
  <2> QED BY <2>1 DEF Fate, EndedAlike, EndedAtTarget, EndedAtOnce, EndedAfter
<1>4. Fate(Now')
  BY <1>2, <1>3, HeldSteps, RunningSteps
<1> QED BY <1>2, <1>4, BarTaken

LEMMA NextIInv == IInv /\ [Next]_vars => IInv'
<1> SUFFICES ASSUME IInv, [Next]_vars PROVE IInv'
  OBVIOUS
<1>1. BarsOK(Now') /\ Fate(Now') /\ side' = side /\ rule' = rule
  <2>1. CASE UNCHANGED vars
    <3>1. Now' = Now /\ side' = side /\ rule' = rule
      BY <2>1 DEF vars, Now
    <3> QED BY <3>1 DEF IInv
  <2>2. ASSUME NEW q \in Quotes, NEW last \in BOOLEAN, StopHit(q, last) \/ CanonicalExit(q, last)
        PROVE  BarsOK(Now') /\ Fate(Now') /\ side' = side /\ rule' = rule
    BY <2>2, BarSteps
  <2>3. ASSUME NEW q \in Quotes, NEW last \in BOOLEAN, CanonicalOnly(q, last)
        PROVE  BarsOK(Now') /\ Fate(Now') /\ side' = side /\ rule' = rule
    BY <2>3, EndedSteps, BarTaken DEF CanonicalOnly
  <2>4. ASSUME NEW q \in Quotes, Quiet(q) \/ TakePartial(q) \/ TakeProfit(q) \/ MoveStop(q)
        PROVE  BarsOK(Now') /\ Fate(Now') /\ side' = side /\ rule' = rule
    BY <2>4, BarSteps
  <2> QED BY <2>1, <2>2, <2>3, <2>4 DEF Next
<1>2. (side \in {"long", "short"} /\ rule \in Rules)'
  BY <1>1 DEF IInv, Rules
<1>3. BarsOK(Now)'
  BY <1>1 DEF BarsOK, Untouched, Touched, CanonicalPrice, Filled, InitialStop, Signed
<1>4. Fate(Now)'
  <2> DEFINE y == Now'
  <2>1. side' = side /\ rule' = rule
    BY <1>1
  <2>2. Held(Now)' <=> Held(y)
    BY <2>1 DEF Held, Unmoved, Unreached, FavorableReached, Target, InitialStop, Signed
  <2>3. ASSUME NEW t
        PROVE  Acted(Now, t)' <=> Acted(y, t)
    BY <2>1 DEF Acted, Acts, First, Unreached, FavorableReached, Target, InitialStop, Signed
  <2>4. ASSUME NEW t
        PROVE  Running(Now, t)' <=> Running(y, t)
    BY <2>1, <2>3 DEF Running, Parts, Rest, Exit, NetOf, ExecutionEntryPrice, ExecutionExitPrice,
       Target, Touched, Signed
  <2>5. EndedAlike(Now)' <=> EndedAlike(y)
    BY <2>1 DEF EndedAlike, Unmoved, Unreached, Exit, NetOf, ExecutionEntryPrice,
       ExecutionExitPrice, FavorableReached, Target, Touched, InitialStop, Signed
  <2>6. ASSUME NEW t
        PROVE  EndedAtTarget(Now, t)' <=> EndedAtTarget(y, t)
    BY <2>1 DEF EndedAtTarget, Unmoved, Acts, First, Unreached, Later, Exit, NetOf,
       ExecutionEntryPrice, ExecutionExitPrice, FavorableReached, Target, InitialStop, Signed
  <2>7. ASSUME NEW t
        PROVE  EndedAtOnce(Now, t)' <=> EndedAtOnce(y, t)
    BY <2>1, <2>3 DEF EndedAtOnce, Later, Parts, Last, Rest, Exit, NetOf, ExecutionEntryPrice,
       ExecutionExitPrice, Target, Touched, Signed
  <2>8. ASSUME NEW t, NEW u
        PROVE  EndedAfter(Now, t, u)' <=> EndedAfter(y, t, u)
    <3>1. ASSUME NEW price, NEW reason
          PROVE  Closes(Now, u, price, reason)' <=> Closes(y, u, price, reason)
      BY <2>1 DEF Closes, Touched, Filled
    <3>2. ASSUME NEW price, NEW reason
          PROVE  Append(Parts(t), Last(price, reason, u))' = Append(Parts(t), Last(price, reason, u))
      BY <2>1 DEF Parts, Last, Rest, Exit, NetOf, ExecutionEntryPrice, ExecutionExitPrice,
         Target, Signed
    <3>3. (rule.breakEven => ~Touched(Now.path[t], EntryPrice))'
            <=> (rule.breakEven => ~Touched(y.path[t], EntryPrice))
      BY <2>1 DEF Touched
    <3> QED BY <2>3, <3>1, <3>2, <3>3 DEF EndedAfter
  <2>9. Fate(y)
    BY <1>1
  <2>10. Len(Now.path)' = Len(y.path)
    OBVIOUS
  <2> HIDE DEF y
  <2> QED BY <2>2, <2>4, <2>5, <2>6, <2>7, <2>8, <2>9, <2>10 DEF Fate
<1> QED BY <1>2, <1>3, <1>4 DEF IInv

\* The inductive invariant holds throughout.
THEOREM ExitIInv == Spec => []IInv
BY InitIInv, NextIInv, PTL DEF Spec

-----------------------------------------------------------------------------
(* The parts of a position.                                                *)

LEMMA TotalIs ==
    ASSUME NEW f, NEW n \in 0..2, \A i \in 1..n : f[i] \in Int
    PROVE  Total(f, n) = IF n = 0 THEN 0 ELSE IF n = 1 THEN f[1] ELSE f[1] + f[2]
<1> DEFINE Is(g) == g = [i \in 0..n |-> IF i = 0 THEN 0 ELSE g[i - 1] + f[i]]
           sums == [i \in 0..n |-> IF i = 0 THEN 0 ELSE IF i = 1 THEN f[1] ELSE f[1] + f[2]]
           upTo == CHOOSE g : Is(g)
<1>1. Is(sums)
  <2>1. \A i \in 0..n : sums[i] = IF i = 0 THEN 0 ELSE sums[i - 1] + f[i]
    OBVIOUS
  <2>2. sums = [i \in 0..n |-> sums[i]]
    OBVIOUS
  <2> HIDE DEF sums
  <2> QED BY <2>1, <2>2
<1>2. Is(upTo)
  <2> HIDE DEF Is, sums
  <2> QED BY <1>1
<1>3. Total(f, n) = upTo[n]
  BY DEF Total
<1> HIDE DEF upTo
<1>4. upTo[0] = 0 /\ \A i \in 1..n : upTo[i] = upTo[i - 1] + f[i]
  BY <1>2
<1>5. CASE n = 0
  BY <1>3, <1>4, <1>5
<1>6. CASE n = 1
  <2>1. upTo[1] = 0 + f[1] /\ f[1] \in Int
    BY <1>4, <1>6
  <2> QED BY <1>3, <1>6, <2>1
<1>7. CASE n = 2
  <2>1. upTo[1] = 0 + f[1] /\ upTo[2] = upTo[1] + f[2] /\ f[1] \in Int /\ f[2] \in Int
    BY <1>4, <1>7
  <2> QED BY <1>3, <1>7, <2>1
<1> QED BY <1>5, <1>6, <1>7

\* The four ways to have divided the position.
IsPartial(c) == c.kind = "partial_take_profit" /\ c.quantity = 1 /\ c.reason = "take_profit"

Layout ==
    \/ components = <<>> /\ remaining = Quantity /\ canonical = Pending
    \/ \E c : /\ components = <<c>> /\ IsPartial(c) /\ rule.partial
              /\ remaining = 1 /\ canonical = Pending
    \/ \E c : /\ components = <<c>> /\ c.kind = "full_position" /\ c.quantity = Quantity
              /\ rule.partial => c.reason # "take_profit"
              /\ remaining = 0
    \/ \E b, c : /\ components = <<b, c>> /\ IsPartial(b) /\ rule.partial
                 /\ c.kind = "runner" /\ c.quantity = 1 /\ b.at <= c.at
                 /\ remaining = 0

LEMMA TwoParts ==
    ASSUME NEW b, NEW c
    PROVE  Append(<<b>>, c) = <<b, c>> /\ <<b>>[1] = b
<1> DEFINE s == <<b>>
           both == {b, c}
<1>1. s \in Seq(both) /\ Len(s) = 1 /\ s[1] = b
  OBVIOUS
<1>2. /\ Append(s, c) \in Seq(both) /\ Len(Append(s, c)) = 2
      /\ Append(s, c)[1] = s[1] /\ Append(s, c)[2] = c
  BY <1>1
<1>3. <<b, c>> \in Seq(both) /\ Len(<<b, c>>) = 2 /\ <<b, c>>[1] = b /\ <<b, c>>[2] = c
  OBVIOUS
<1> HIDE DEF s
<1>4. \A u, v \in Seq(both) :
          Len(u) = 2 /\ Len(v) = 2 /\ u[1] = v[1] /\ u[2] = v[2] => u = v
  OBVIOUS
<1>5. Append(s, c) = <<b, c>>
  BY <1>1, <1>2, <1>3, <1>4
<1> QED BY <1>1, <1>5 DEF s

LEMMA PartsIs ==
    ASSUME NEW t, NEW c
    PROVE  IF rule.partial
           THEN /\ Append(Parts(t), c) = <<Parts(t)[1], c>> /\ Parts(t) = <<Parts(t)[1]>>
                /\ IsPartial(Parts(t)[1]) /\ Parts(t)[1].at = t /\ Parts(t)[1].price = Target
           ELSE Append(Parts(t), c) = <<c>> /\ Parts(t) = <<>>
<1> DEFINE b == Exit("partial_take_profit", 1, Target, "take_profit", t)
<1>1. IsPartial(b) /\ b.at = t /\ b.price = Target
  BY DEF Exit, IsPartial
<1>2. Parts(t) = IF rule.partial THEN <<b>> ELSE <<>>
  BY DEF Parts
<1> HIDE DEF b
<1>3. Append(<<b>>, c) = <<b, c>> /\ <<b>>[1] = b
  BY TwoParts
<1>4. CASE rule.partial
  <2>1. Parts(t) = <<b>> /\ Parts(t)[1] = b
    BY <1>2, <1>3, <1>4
  <2> QED BY <1>1, <1>3, <1>4, <2>1
<1>5. CASE ~rule.partial
  BY <1>2, <1>5
<1> QED BY <1>4, <1>5

LEMMA LastIs ==
    ASSUME NEW price, NEW reason, NEW at
    PROVE  /\ Last(price, reason, at).kind = IF rule.partial THEN "runner" ELSE "full_position"
           /\ Last(price, reason, at).quantity = Rest
           /\ Last(price, reason, at).price = price /\ Last(price, reason, at).reason = reason
           /\ Last(price, reason, at).at = at
BY DEF Last, Exit

LEMMA LaidOut == ASSUME IInv PROVE Layout
<1> DEFINE x == Now
<1>1. /\ x.components = components /\ x.remaining = remaining /\ x.canonical = canonical
      /\ x.path = path /\ Fate(x) /\ path \in Seq(Quotes) /\ Len(path) \in Nat
  BY NowFields DEF IInv, BarsOK
<1> HIDE DEF x
<1>2. CASE Held(x)
  BY <1>1, <1>2 DEF Held, Layout
<1>3. ASSUME NEW t \in 1..Len(path), Running(x, t)
      PROVE  Layout
  <2>1. components = Parts(t) /\ remaining = Rest /\ canonical = Pending
    BY <1>1, <1>3 DEF Running
  <2>2. CASE rule.partial
    <3>1. components = <<Parts(t)[1]>> /\ IsPartial(Parts(t)[1])
      BY <2>1, <2>2, PartsIs
    <3> QED BY <2>1, <2>2, <3>1 DEF Layout, Rest
  <2>3. CASE ~rule.partial
    BY <2>1, <2>3 DEF Parts, Layout, Rest
  <2> QED BY <2>2, <2>3
<1>4. CASE EndedAlike(x)
  <2> DEFINE at == x.canonical.at
             price == x.canonical.price
             reason == IF Touched(x.path[at], InitialStop) THEN "stop" ELSE "canonical_exit"
             c == Exit("full_position", Quantity, price, reason, at)
  <2>1. components = <<c>> /\ remaining = 0
    BY <1>1, <1>4 DEF EndedAlike
  <2>2. reason # "take_profit"
    OBVIOUS
  <2> HIDE DEF at, price, reason
  <2>3. c.kind = "full_position" /\ c.quantity = Quantity /\ c.reason = reason
    BY DEF Exit
  <2> HIDE DEF c
  <2> QED BY <2>1, <2>2, <2>3 DEF Layout
<1>5. ASSUME NEW t \in 1..Len(path), EndedAtTarget(x, t)
      PROVE  Layout
  <2> DEFINE c == Exit("full_position", Quantity, Target, "take_profit", t)
  <2>1. components = <<c>> /\ remaining = 0 /\ ~rule.partial
    BY <1>1, <1>5 DEF EndedAtTarget, Acts
  <2>2. c.kind = "full_position" /\ c.quantity = Quantity
    BY DEF Exit
  <2> HIDE DEF c
  <2> QED BY <2>1, <2>2 DEF Layout
<1>6. ASSUME NEW t \in 1..Len(path), NEW u \in 1..Len(path), t <= u, NEW price,
             NEW reason \in {"break_even_stop", "stop", "canonical_exit"},
             components = Append(Parts(t), Last(price, reason, u)), remaining = 0
      PROVE  Layout
  <2> DEFINE c == Last(price, reason, u)
  <2>1. /\ c.kind = IF rule.partial THEN "runner" ELSE "full_position"
        /\ c.quantity = Rest /\ c.reason # "take_profit" /\ c.at = u
    BY LastIs
  <2> HIDE DEF c
  <2>2. CASE rule.partial
    <3>1. /\ components = <<Parts(t)[1], c>> /\ IsPartial(Parts(t)[1]) /\ Parts(t)[1].at = t
      BY <1>6, <2>2, PartsIs DEF c
    <3> QED BY <1>6, <2>1, <2>2, <3>1 DEF Layout, Rest
  <2>3. CASE ~rule.partial
    <3>1. components = <<c>>
      BY <1>6, <2>3, PartsIs DEF c
    <3> QED BY <1>6, <2>1, <2>3, <3>1 DEF Layout, Rest
  <2> QED BY <2>2, <2>3
<1>7. ASSUME NEW t \in 1..Len(path), EndedAtOnce(x, t)
      PROVE  Layout
  BY <1>1, <1>6, <1>7 DEF EndedAtOnce
<1>8. ASSUME NEW t \in 1..Len(path), NEW u \in 1..Len(path), EndedAfter(x, t, u)
      PROVE  Layout
  <2>1. /\ remaining = 0 /\ t <= u
        /\ \E price \in Int, reason \in {"break_even_stop", "stop", "canonical_exit"} :
              components = Append(Parts(t), Last(price, reason, u))
    BY <1>1, <1>8 DEF EndedAfter
  <2> QED BY <1>6, <2>1
<1> QED BY <1>1, <1>2, <1>3, <1>4, <1>5, <1>7, <1>8 DEF Fate
\* What a bar offered.
Offers(q, price) == price \in Int /\ q.low <= price /\ price <= q.high

LEMMA FilledOffered ==
    ASSUME side \in {"long", "short"}, NEW q \in Quotes, NEW level \in Int, Touched(q, level)
    PROVE  Offers(q, Filled(q, level))
BY QuoteFacts DEF Touched, Filled, Offers

LEMMA CanonicalOffered ==
    ASSUME side \in {"long", "short"}, rule \in Rules, NEW q \in Quotes
    PROVE  Offers(q, CanonicalPrice(q))
<1>1. InitialStop \in Int
  BY Numbers
<1>2. Offers(q, q.close)
  BY QuoteFacts DEF Offers
<1> QED BY <1>1, <1>2, FilledOffered DEF CanonicalPrice

LEMMA MovesOffered ==
    ASSUME side \in {"long", "short"}, NEW q \in Quotes
    PROVE  /\ Best(q) \in Int /\ Worst(q) \in Int /\ Worst(q) <= Best(q)
           /\ \A price \in Int : Offers(q, price) => Worst(q) <= Moved(price) /\ Moved(price) <= Best(q)
           /\ \A price \in Int : Moved(price) \in Int
<1>1. EntryPrice \in Int
  BY TradeAssumption DEF LegalTrade
<1> QED BY <1>1, QuoteFacts DEF Offers, Best, Worst, Moved, Signed

LEMMA AtEntry == EntryPrice \in Int /\ Moved(EntryPrice) = 0
<1>1. EntryPrice \in Int
  BY TradeAssumption DEF LegalTrade
<1>2. \A a \in Int : a - a = 0 /\ (a = 0 => -a = 0)
  OBVIOUS
<1>3. \A a \in Int : a = 0 => Signed(a) = 0
  BY <1>2 DEF Signed
<1> QED BY <1>1, <1>2, <1>3 DEF Moved

LEMMA TargetOffered ==
    ASSUME side \in {"long", "short"}, rule \in Rules, NEW q \in Quotes
    PROVE  FavorableReached(q) <=> Moved(Target) <= Best(q)
<1>1. EntryPrice \in Int /\ Target \in Int
  BY Numbers
<1> QED BY <1>1, QuoteFacts DEF FavorableReached, Best, Moved, Signed

\* A part of the exit gains no more than its bar offered, and loses no more.
Fair(c) ==
    /\ c.at \in 1..Len(path) /\ c.price \in Int
    /\ Moved(c.price) >= 0 \/ Worst(path[c.at]) <= Moved(c.price)
    /\ Moved(c.price) = 0 \/ Moved(c.price) <= Best(path[c.at])
    /\ c.reason = "take_profit" => Moved(c.price) > 0
    /\ moved # 0 /\ Moved(c.price) < 0 => c.at > moved /\ c.price = path[c.at].open

Fairs == \A i \in DOMAIN components : Fair(components[i])

LEMMA FairTarget ==
    ASSUME IInv, NEW t, First(path, t), NEW c,
           c.at = t, c.price = Target
    PROVE  Fair(c)
<1>1. side \in {"long", "short"} /\ rule \in Rules /\ path \in Seq(Quotes)
  BY NowFields DEF IInv, BarsOK
<1>2. t \in 1..Len(path) /\ FavorableReached(path[t]) /\ path[t] \in Quotes
  BY <1>1 DEF First
<1>3. Moved(Target) <= Best(path[t]) /\ Target \in Int /\ Moved(Target) \in Int /\ Moved(Target) > 0
  BY <1>1, <1>2, TargetOffered, Numbers
<1> QED BY <1>1, <1>2, <1>3 DEF Fair

LEMMA FairEntry ==
    ASSUME IInv, NEW c, c.at \in 1..Len(path), c.price = EntryPrice, c.reason # "take_profit"
    PROVE  Fair(c)
BY AtEntry DEF Fair

LEMMA FairOffer ==
    ASSUME IInv, NEW c, c.at \in 1..Len(path), Offers(path[c.at], c.price),
           c.reason # "take_profit",
           moved # 0 /\ Moved(c.price) < 0 => c.at > moved /\ c.price = path[c.at].open
    PROVE  Fair(c)
<1>1. side \in {"long", "short"} /\ path \in Seq(Quotes)
  BY NowFields DEF IInv, BarsOK
<1>2. path[c.at] \in Quotes /\ c.price \in Int
  BY <1>1 DEF Offers
<1>3. Worst(path[c.at]) <= Moved(c.price) /\ Moved(c.price) <= Best(path[c.at])
  BY <1>1, <1>2, MovesOffered
<1> QED BY <1>2, <1>3 DEF Fair

LEMMA PartsFair ==
    ASSUME IInv, NEW t \in 1..Len(path), Acted(Now, t), NEW c, Fair(c)
    PROVE  /\ components = Parts(t) => Fairs
           /\ components = Append(Parts(t), c) => Fairs
<1>1. First(path, t)
  BY NowFields DEF Acted
<1>2. CASE rule.partial
  <2> DEFINE b == Parts(t)[1]
  <2>1. b.at = t /\ b.price = Target /\ Parts(t) = <<b>> /\ Append(Parts(t), c) = <<b, c>>
    BY <1>2, PartsIs
  <2> HIDE DEF b
  <2>2. Fair(b)
    BY <1>1, <2>1, FairTarget
  <2> QED BY <2>1, <2>2 DEF Fairs
<1>3. CASE ~rule.partial
  <2>1. Parts(t) = <<>> /\ Append(Parts(t), c) = <<c>>
    BY <1>3, PartsIs
  <2> QED BY <2>1 DEF Fairs
<1> QED BY <1>2, <1>3

LEMMA AllFair == ASSUME IInv PROVE Fairs
<1> DEFINE x == Now
<1>1. /\ x.components = components /\ x.remaining = remaining /\ x.canonical = canonical
      /\ x.path = path /\ x.moved = moved /\ x.stop = stop /\ Fate(x) /\ path \in Seq(Quotes)
      /\ Len(path) \in Nat /\ BarsOK(x)
      /\ side \in {"long", "short"} /\ rule \in Rules
  BY NowFields DEF IInv, BarsOK
<1>2. canonical # Pending => /\ canonical.at = Len(path) /\ canonical.at \in 1..Len(path)
                             /\ Offers(path[canonical.at], canonical.price)
  <2>1. SUFFICES ASSUME canonical # Pending
                 PROVE  /\ canonical.at = Len(path) /\ canonical.at \in 1..Len(path)
                        /\ Offers(path[canonical.at], canonical.price)
    OBVIOUS
  <2>2. /\ Len(path) > 0
        /\ canonical = [at |-> Len(path), price |-> CanonicalPrice(path[Len(path)])]
    BY <1>1, <2>1 DEF BarsOK
  <2>3. canonical.at = Len(path) /\ canonical.price = CanonicalPrice(path[Len(path)])
    BY <2>2
  <2>4. path[Len(path)] \in Quotes
    BY <1>1, <2>2
  <2> QED BY <1>1, <2>2, <2>3, <2>4, CanonicalOffered
<1> HIDE DEF x
<1>3. CASE Held(x)
  BY <1>1, <1>3 DEF Held, Fairs
<1>4. ASSUME NEW t \in 1..Len(path), Running(x, t)
      PROVE  Fairs
  <2> DEFINE c == [at |-> t, price |-> Target, reason |-> "take_profit"]
  <2>1. c.at = t /\ c.price = Target
    OBVIOUS
  <2>2. Acted(Now, t) /\ components = Parts(t) /\ First(path, t)
    BY <1>1, <1>4 DEF Running, x, Acted
  <2> HIDE DEF c
  <2>3. Fair(c)
    BY <2>1, <2>2, FairTarget
  <2> QED BY <2>2, <2>3, PartsFair
<1>5. CASE EndedAlike(x)
  <2> DEFINE at == x.canonical.at
             price == x.canonical.price
             reason == IF Touched(x.path[at], InitialStop) THEN "stop" ELSE "canonical_exit"
             c == Exit("full_position", Quantity, price, reason, at)
  <2>1. /\ components = <<c>> /\ moved = 0 /\ at \in 1..Len(path) /\ Offers(path[at], price)
    BY <1>1, <1>2, <1>5 DEF EndedAlike, Unmoved
  <2>2. reason # "take_profit"
    OBVIOUS
  <2> HIDE DEF at, price, reason
  <2>3. c.at = at /\ c.price = price /\ c.reason = reason
    BY DEF Exit
  <2> HIDE DEF c
  <2>4. Fair(c)
    BY <2>1, <2>2, <2>3, FairOffer
  <2> QED BY <2>1, <2>4 DEF Fairs
<1>6. ASSUME NEW t \in 1..Len(path), EndedAtTarget(x, t)
      PROVE  Fairs
  <2> DEFINE c == Exit("full_position", Quantity, Target, "take_profit", t)
  <2>1. components = <<c>> /\ First(path, t)
    BY <1>1, <1>6 DEF EndedAtTarget
  <2>2. c.at = t /\ c.price = Target
    BY DEF Exit
  <2> HIDE DEF c
  <2>3. Fair(c)
    BY <2>1, <2>2, FairTarget
  <2> QED BY <2>1, <2>3 DEF Fairs
<1>7. ASSUME NEW t \in 1..Len(path), EndedAtOnce(x, t)
      PROVE  Fairs
  <2> DEFINE c == Last(EntryPrice, "break_even_stop", t)
  <2>1. components = Append(Parts(t), c) /\ Acted(Now, t)
    BY <1>1, <1>7 DEF EndedAtOnce, x
  <2>2. c.at = t /\ c.price = EntryPrice /\ c.reason = "break_even_stop"
    BY LastIs
  <2> HIDE DEF c
  <2>3. Fair(c)
    BY <2>2, FairEntry
  <2> QED BY <2>1, <2>3, PartsFair
<1>8. ASSUME NEW t \in 1..Len(path), NEW u \in 1..Len(path), EndedAfter(x, t, u)
      PROVE  Fairs
  <2>1. /\ t < u /\ Acted(Now, t)
        /\ \E price \in Int, reason \in {"break_even_stop", "stop", "canonical_exit"} :
              /\ Closes(x, u, price, reason)
              /\ components = Append(Parts(t), Last(price, reason, u))
    BY <1>1, <1>8 DEF EndedAfter, x
  <2>2. PICK price \in Int, reason \in {"break_even_stop", "stop", "canonical_exit"} :
              /\ Closes(x, u, price, reason)
              /\ components = Append(Parts(t), Last(price, reason, u))
    BY <2>1
  <2> DEFINE c == Last(price, reason, u)
  <2>3. c.at = u /\ c.price = price /\ c.reason = reason
    BY LastIs
  <2>4. /\ moved = IF rule.breakEven THEN t ELSE 0
        /\ stop = IF rule.breakEven THEN EntryPrice ELSE InitialStop
    BY <1>1, <2>1 DEF Acted, x
  <2>5. path[u] \in Quotes /\ stop \in Int
    BY <1>1, <2>4, Numbers
  <2>6. Offers(path[u], price)
    BY <1>1, <1>2, <2>2, <2>5, FilledOffered DEF Closes
  <2>7. moved # 0 /\ Moved(price) < 0 => u > moved /\ price = path[u].open
    <3>1. SUFFICES ASSUME rule.breakEven, Moved(price) < 0
                   PROVE  price = path[u].open
      BY <2>1, <2>4
    <3>2. CASE Touched(path[u], EntryPrice)
      <4>1. price = Filled(path[u], EntryPrice)
        BY <1>1, <2>2, <2>4, <3>1, <3>2 DEF Closes
      <4>2. Moved(EntryPrice) = 0
        BY AtEntry
      <4> QED BY <3>1, <4>1, <4>2 DEF Filled
    <3>3. CASE ~Touched(path[u], EntryPrice)
      <4>1. EntryPrice \in Int
        BY Numbers, <1>1
      <4> QED BY <1>1, <2>5, <2>6, <3>1, <3>3, <4>1, QuoteFacts DEF Offers, Touched, Moved, Signed
    <3> QED BY <3>2, <3>3
  <2> HIDE DEF c
  <2>8. Fair(c)
    BY <2>2, <2>3, <2>6, <2>7, FairOffer
  <2> QED BY <2>1, <2>2, <2>8, PartsFair DEF c
<1> QED BY <1>1, <1>3, <1>4, <1>5, <1>6, <1>7, <1>8 DEF Fate

\* The canonical exit comes on the last bar.
LEMMA CanonicalLast ==
    ASSUME IInv, Done
    PROVE  /\ canonical.at = Len(path) /\ canonical.at \in 1..Len(path) /\ Len(path) \in Nat
           /\ canonical.price = CanonicalPrice(path[canonical.at])
           /\ path[canonical.at] \in Quotes
<1>1. path \in Seq(Quotes) /\ BarsOK(Now) /\ Now.path = path /\ Now.canonical = canonical
  BY NowFields DEF IInv, BarsOK
<1>2. /\ Len(path) > 0
      /\ canonical = [at |-> Len(path), price |-> CanonicalPrice(path[Len(path)])]
  BY <1>1 DEF BarsOK, Done
<1>3. canonical.at = Len(path) /\ canonical.price = CanonicalPrice(path[Len(path)])
  BY <1>2
<1> QED BY <1>1, <1>2, <1>3

LEMMA ClosesIfIInv == IInv => PositionCloses
<1> SUFFICES ASSUME IInv PROVE PositionCloses
  OBVIOUS
<1> DEFINE sizes == [i \in DOMAIN components |-> components[i].quantity]
<1>1. Layout /\ Fairs /\ rule.partial \in BOOLEAN
  BY LaidOut, AllFair, Numbers DEF IInv
<1>2. Done => \A i \in DOMAIN components : components[i].at <= canonical.at
  BY <1>1, CanonicalLast DEF Fairs, Fair
<1>3. CASE components = <<>> /\ remaining = Quantity /\ canonical = Pending
  <2>1. Total(sizes, 0) = 0
    BY TotalIs
  <2> QED BY <1>3, <2>1 DEF PositionCloses, Quantity, Done
<1>4. ASSUME NEW c, components = <<c>>, remaining = Quantity - c.quantity,
             c.quantity \in 1..Quantity,
             c.kind = "partial_take_profit" <=> rule.partial /\ c.reason = "take_profit",
             Done => remaining = 0
      PROVE  PositionCloses
  <2>1. sizes[1] = c.quantity /\ Len(components) = 1 /\ DOMAIN components = {1} /\ components[1] = c
    BY <1>4
  <2> HIDE DEF sizes
  <2>2. Total(sizes, 1) = c.quantity
    BY <1>4, <2>1, TotalIs DEF Quantity
  <2>3. remaining >= 0 /\ remaining + Total(sizes, Len(components)) = Quantity
    BY <1>4, <2>1, <2>2 DEF Quantity
  <2> QED BY <1>1, <1>2, <1>4, <2>1, <2>3 DEF PositionCloses, sizes
<1>5. ASSUME NEW b, NEW c, components = <<b, c>>, IsPartial(b), rule.partial,
             c.kind = "runner", c.quantity = 1, b.at <= c.at, remaining = 0
      PROVE  PositionCloses
  <2>1. /\ sizes[1] = 1 /\ sizes[2] = 1 /\ Len(components) = 2 /\ DOMAIN components = {1, 2}
        /\ components[1] = b /\ components[2] = c
    BY <1>5 DEF IsPartial
  <2> HIDE DEF sizes
  <2>2. Total(sizes, 2) = 2
    BY <2>1, TotalIs
  <2>3. remaining >= 0 /\ remaining + Total(sizes, Len(components)) = Quantity
    BY <1>5, <2>1, <2>2 DEF Quantity
  <2> QED BY <1>1, <1>2, <1>5, <2>1, <2>3 DEF PositionCloses, sizes, IsPartial
<1> QED BY <1>1, <1>3, <1>4, <1>5 DEF Layout, IsPartial, Quantity, Done

\* The assertions at the end of simulate_counterfactual hold, in the order and
\* with the bars that PositionCloses says.
THEOREM ExitPositionCloses == Spec => []PositionCloses
BY ExitIInv, ClosesIfIInv, PTL

-----------------------------------------------------------------------------
(* Prices: what the bars offered.                                           *)

\* A non-empty set of natural numbers has a least element.
LEMMA LeastNat ==
    ASSUME NEW S, S \subseteq Nat, S # {}
    PROVE  \E n \in S : \A m \in S : n <= m
  <1> DEFINE R == OpToRel(<, Nat)
  <1>1. \E n \in S : \A m \in S : ~ (<<m, n>> \in R)
    <2> HIDE DEF R
    <2> QED
      BY NatLessThanWellFounded, WFMin DEF R
  <1>2. PICK n \in S : \A m \in S : ~ (<<m, n>> \in R)
    BY <1>1
  <1>3. ASSUME NEW m \in S
        PROVE  n <= m
    <2>1. <<m, n>> \in Nat \X Nat /\ ~ (<<m, n>> \in R)
      BY <1>2
    <2>2. ~ (m < n)
      BY <2>1 DEF OpToRel
    <2> QED
      BY <2>2
  <1> QED
    BY <1>3

\* What holds at 0 and is passed on by every step up to n holds up to n.
LEMMA UpTo ==
    ASSUME NEW n \in Nat, NEW H \in SUBSET (0..n), 0 \in H,
           \A i \in 0..n : i \in H /\ i < n => i + 1 \in H
    PROVE  H = 0..n
  <1> SUFFICES ASSUME (0..n) \ H # {}
               PROVE  FALSE
    OBVIOUS
  <1>1. PICK i \in (0..n) \ H : \A j \in (0..n) \ H : i <= j
    <2> DEFINE S == (0..n) \ H
    <2>1. S \subseteq Nat /\ S # {}
      OBVIOUS
    <2> HIDE DEF S
    <2>2. \E i \in S : \A j \in S : i <= j
      BY <2>1, LeastNat
    <2> QED
      BY <2>2 DEF S
  <1>2. i # 0 /\ i \in 0..n
    BY <1>1
  <1>3. i - 1 \in 0..n /\ i - 1 < n /\ ~(i <= i - 1) /\ (i - 1) + 1 = i
    BY <1>2
  <1>4. i - 1 \in H
    BY <1>1, <1>3
  <1>5. i \in H
    BY <1>3, <1>4
  <1> QED
    BY <1>1, <1>5


\* Max of finitely many numbers and 0 is what its name says.
LEMMA MaxIs ==
    ASSUME NEW n \in Nat, NEW f, \A i \in 1..n : f[i] \in Int
    PROVE  LET m == Max({0} \cup {f[i] : i \in 1..n}) IN
           /\ m \in Int /\ m >= 0
           /\ \A i \in 1..n : f[i] <= m
           /\ m = 0 \/ \E i \in 1..n : m = f[i]
<1> DEFINE S(k) == {0} \cup {f[i] : i \in 1..k}
           Top(k, x) == x \in S(k) /\ \A y \in S(k) : x >= y
           H == {k \in 0..n : \E x : Top(k, x)}
<1>1. \A k \in 0..n : S(k) \subseteq Int
  OBVIOUS
<1>2. Top(0, 0)
  OBVIOUS
<1>3. ASSUME NEW k \in 0..n, k < n, NEW x, Top(k, x)
      PROVE  \E z : Top(k + 1, z)
  <2>1. S(k + 1) = S(k) \cup {f[k + 1]}
    <3>1. 1..(k + 1) = (1..k) \cup {k + 1}
      BY <1>3
    <3> QED BY <3>1
  <2>2. f[k + 1] \in Int /\ x \in Int
    BY <1>1, <1>3
  <2>3. S(k) \subseteq Int
    BY <1>1
  <2> HIDE DEF S
  <2>4. CASE x >= f[k + 1]
    <3>1. Top(k + 1, x)
      BY <1>3, <2>1, <2>2, <2>4
    <3> QED BY <3>1
  <2>5. CASE ~(x >= f[k + 1])
    <3>1. \A y \in S(k) : f[k + 1] >= y
      BY <1>3, <2>2, <2>3, <2>5
    <3>2. Top(k + 1, f[k + 1])
      BY <2>1, <2>2, <3>1
    <3> QED BY <3>2
  <2> QED BY <2>4, <2>5
<1> HIDE DEF Top
<1>4. 0 \in H
  BY <1>2
<1>5. \A k \in 0..n : k \in H /\ k < n => k + 1 \in H
  BY <1>3
<1>6. H = 0..n
  <2> HIDE DEF H
  <2>1. H \in SUBSET (0..n)
    BY DEF H
  <2> QED BY <1>4, <1>5, <2>1, UpTo
<1>7. \E x : Top(n, x)
  BY <1>6
<1> DEFINE m == Max(S(n))
<1>8. Top(n, m)
  <2>1. \E x \in S(n) : \A y \in S(n) : x >= y
    BY <1>7 DEF Top
  <2> HIDE DEF S
  <2> QED BY <2>1, Zenon DEF Top, Max
<1> HIDE DEF m
<1>9. m \in S(n) /\ \A y \in S(n) : m >= y
  BY <1>8 DEF Top
<1>10. m \in Int /\ m >= 0 /\ (\A i \in 1..n : f[i] <= m) /\ (m = 0 \/ \E i \in 1..n : m = f[i])
  <2>1. m \in Int /\ 0 \in S(n)
    BY <1>1, <1>9
  <2>2. \A i \in 1..n : f[i] \in S(n) /\ f[i] \in Int
    OBVIOUS
  <2>3. m = 0 \/ \E i \in 1..n : m = f[i]
    BY <1>9
  <2> HIDE DEF S
  <2> QED BY <1>9, <2>1, <2>2, <2>3
<1> QED BY <1>10 DEF m

\* The largest moves over the first n bars.
LEMMA FavorableIs ==
    ASSUME IInv, NEW n \in 0..Len(path)
    PROVE  /\ Favorable(n) \in Int /\ Favorable(n) >= 0
           /\ \A i \in 1..n : Best(path[i]) \in Int /\ Best(path[i]) <= Favorable(n)
           /\ Favorable(n) = 0 \/ \E i \in 1..n : Favorable(n) = Best(path[i])
<1> DEFINE f == [i \in 1..n |-> Best(path[i])]
<1>1. side \in {"long", "short"} /\ path \in Seq(Quotes) /\ n \in Nat
  BY NowFields DEF IInv, BarsOK
<1>2. \A i \in 1..n : path[i] \in Quotes
  BY <1>1
<1>3. \A i \in 1..n : Best(path[i]) \in Int /\ f[i] = Best(path[i])
  BY <1>1, <1>2, MovesOffered
<1>4. {f[i] : i \in 1..n} = {Best(path[i]) : i \in 1..n}
  BY <1>3
<1> HIDE DEF f
<1>5. LET m == Max({0} \cup {f[i] : i \in 1..n}) IN
      /\ m \in Int /\ m >= 0
      /\ \A i \in 1..n : f[i] <= m
      /\ m = 0 \/ \E i \in 1..n : m = f[i]
  BY <1>1, <1>3, MaxIs
<1>6. Favorable(n) = Max({0} \cup {f[i] : i \in 1..n})
  BY <1>4 DEF Favorable
<1> QED BY <1>3, <1>5, <1>6

LEMMA AdverseIs ==
    ASSUME IInv, NEW n \in 0..Len(path)
    PROVE  /\ Adverse(n) \in Int /\ Adverse(n) >= 0
           /\ \A i \in 1..n : Worst(path[i]) \in Int /\ -Worst(path[i]) <= Adverse(n)
<1> DEFINE f == [i \in 1..n |-> -Worst(path[i])]
<1>1. side \in {"long", "short"} /\ path \in Seq(Quotes) /\ n \in Nat
  BY NowFields DEF IInv, BarsOK
<1>2. \A i \in 1..n : path[i] \in Quotes
  BY <1>1
<1>3. \A i \in 1..n : Worst(path[i]) \in Int /\ f[i] = -Worst(path[i])
  BY <1>1, <1>2, MovesOffered
<1>4. {f[i] : i \in 1..n} = {-Worst(path[i]) : i \in 1..n}
  BY <1>3
<1>5. \A i \in 1..n : f[i] \in Int
  BY <1>3
<1> HIDE DEF f
<1>6. LET m == Max({0} \cup {f[i] : i \in 1..n}) IN
      /\ m \in Int /\ m >= 0
      /\ \A i \in 1..n : f[i] <= m
  BY <1>1, <1>5, MaxIs
<1>7. Adverse(n) = Max({0} \cup {f[i] : i \in 1..n})
  BY <1>4 DEF Adverse
<1> QED BY <1>3, <1>6, <1>7

\* Every part of the exit gains and loses no more than the excursions say.
LEMMA WithinExcursions ==
    ASSUME IInv, NEW c, Fair(c)
    PROVE  -Adverse(c.at) <= Moved(c.price) /\ Moved(c.price) <= Favorable(c.at)
<1>1. c.at \in 1..Len(path) /\ c.price \in Int /\ path \in Seq(Quotes) /\ side \in {"long", "short"}
  BY NowFields DEF IInv, BarsOK, Fair
<1> DEFINE at == c.at
           best == Best(path[at])
           worst == Worst(path[at])
           move == Moved(c.price)
           fav == Favorable(at)
           adv == Adverse(at)
<1>2. at \in 0..Len(path) /\ at \in 1..at /\ path[at] \in Quotes
  BY <1>1
<1>3. move \in Int
  BY <1>1, <1>2, MovesOffered
<1>4. fav \in Int /\ fav >= 0 /\ best \in Int /\ best <= fav
  BY <1>2, FavorableIs
<1>5. adv \in Int /\ adv >= 0 /\ worst \in Int /\ -worst <= adv
  BY <1>2, AdverseIs
<1>6. (move >= 0 \/ worst <= move) /\ (move = 0 \/ move <= best)
  BY DEF Fair
<1> HIDE DEF move, fav, adv, best, worst
<1>7. -adv <= move /\ move <= fav
  BY <1>3, <1>4, <1>5, <1>6
<1> QED BY <1>7 DEF move, fav, adv
\* The peak: the largest of the moves, and the earliest bar that has it.
Best0(i) == Max({0, Best(path[i])})

LEMMA Best0Is ==
    ASSUME IInv, NEW i \in 1..Len(path)
    PROVE  /\ Best(path[i]) \in Int
           /\ Best0(i) = IF Best(path[i]) > 0 THEN Best(path[i]) ELSE 0
<1>1. side \in {"long", "short"} /\ path[i] \in Quotes
  BY NowFields DEF IInv, BarsOK
<1> DEFINE b == Best(path[i])
           m == IF b > 0 THEN b ELSE 0
<1>2. b \in Int
  BY <1>1, MovesOffered
<1> HIDE DEF b
<1>3. m \in {0, b} /\ (\A y \in {0, b} : m >= y) /\ m \in Int
  BY <1>2
<1>4. \A x \in {0, b} : (\A y \in {0, b} : x >= y) => x = m
  BY <1>2
<1>5. Max({0, b}) = m
  BY <1>3, <1>4 DEF Max
<1> QED BY <1>2, <1>5 DEF Best0, b

LEMMA PeakIs ==
    ASSUME IInv, NEW n \in 0..Len(path)
    PROVE  /\ Peak(n).mfe = Favorable(n)
           /\ n > 0 => /\ Peak(n).bar \in 1..n /\ Best0(Peak(n).bar) = Favorable(n)
                       /\ \A i \in 1..n : /\ Best0(i) \in Int /\ Best0(i) <= Favorable(n)
                                          /\ Best0(i) = Favorable(n) => Peak(n).bar <= i
<1>1. n \in Nat /\ path \in Seq(Quotes) /\ 1..n \subseteq 1..Len(path)
  BY NowFields DEF IInv, BarsOK
<1> DEFINE fav == Favorable(n)
<1>2. /\ fav \in Int /\ fav >= 0
      /\ \A i \in 1..n : Best(path[i]) \in Int /\ Best(path[i]) <= fav
      /\ fav = 0 \/ \E i \in 1..n : fav = Best(path[i])
  BY FavorableIs
<1>3. CASE n = 0
  <2>1. Peak(n).mfe = 0
    BY <1>3 DEF Peak
  <2>2. fav = 0
    BY <1>2, <1>3
  <2> QED BY <1>3, <2>1, <2>2
<1>4. CASE n > 0
  <2> DEFINE moves == {Best0(i) : i \in 1..n}
             at == {i \in 1..n : Best0(i) = fav}
  <2>1. ASSUME NEW i \in 1..n
        PROVE  Best0(i) \in Int /\ Best0(i) <= fav
    BY <1>1, <1>2, Best0Is
  <2>2. PICK top \in 1..n : Best0(top) = fav
    <3>1. CASE \E i \in 1..n : fav = Best(path[i])
      BY <1>1, <1>2, <3>1, Best0Is
    <3>2. CASE fav = 0 /\ ~ \E i \in 1..n : fav = Best(path[i])
      <4>1. 1 \in 1..n /\ Best(path[1]) \in Int /\ Best(path[1]) <= fav
        BY <1>1, <1>2, <1>4
      <4>2. Best0(1) = 0
        BY <1>1, <3>2, <4>1, Best0Is
      <4> QED BY <3>2, <4>1, <4>2
    <3> QED BY <1>2, <3>1, <3>2
  <2>3. fav \in moves /\ (\A y \in moves : fav >= y) /\ moves \subseteq Int
    BY <1>2, <2>1, <2>2
  <2> HIDE DEF fav
  <2>4. Max(moves) = fav
    <3> HIDE DEF moves
    <3>1. \A x \in moves : (\A y \in moves : x >= y) => x = fav
      BY <2>3
    <3> QED BY <2>3, <3>1 DEF Max
  <2>5. at \subseteq Nat /\ at # {}
    BY <2>2
  <2>6. \E b \in at : \A i \in at : b <= i
    <3> HIDE DEF at
    <3> QED BY <2>5, LeastNat
  <2>7. Min(at) \in at /\ \A i \in at : Min(at) <= i
    <3> HIDE DEF at
    <3> QED BY <2>6, Zenon DEF Min
  <2>8. Peak(n) = [mfe |-> fav, bar |-> Min(at)]
    <3>1. Peak(n) = [mfe |-> Max(moves), bar |-> Min({i \in 1..n : Best0(i) = Max(moves)})]
      BY <1>4 DEF Peak, Best0
    <3> HIDE DEF moves
    <3> QED BY <2>4, <3>1
  <2> DEFINE bar == Min(at)
  <2>9. bar \in 1..n /\ Best0(bar) = fav /\ \A i \in 1..n : Best0(i) = fav => bar <= i
    <3> HIDE DEF bar
    <3>1. bar \in at /\ \A i \in at : bar <= i
      BY <2>7 DEF bar
    <3> QED BY <3>1
  <2> HIDE DEF bar
  <2>10. Peak(n).mfe = fav /\ Peak(n).bar = bar
    BY <2>8 DEF bar
  <2> QED BY <2>1, <2>9, <2>10 DEF fav
<1> QED BY <1>1, <1>3, <1>4

\* Costs take from an exit and give nothing back: what the code leaves to its
\* callers, which give it prices of the market and small costs.
CostsBite ==
    /\ SlippageRate <= Unit
    /\ EntryPrice >= 0 /\ \A q \in Quotes : q.low >= 0

LEMMA Cancel ==
    ASSUME NEW a \in Int, NEW b \in Int, NEW s \in Int, s > 0, s * a >= s * b
    PROVE  a >= b
<1>1. SUFFICES ASSUME a + 1 <= b PROVE FALSE
  OBVIOUS
<1>2. s * (a + 1) <= s * b
  BY <1>1
<1>3. s * (a + 1) = s * a + s
  OBVIOUS
<1> DEFINE sa == s * a
           sb == s * b
<1>4. sa \in Int /\ sb \in Int /\ sa >= sb /\ sa + s <= sb
  BY <1>2, <1>3
<1> HIDE DEF sa, sb
<1> QED BY <1>4

LEMMA NetIs ==
    ASSUME side \in {"long", "short"}, NEW price \in Int
    PROVE  /\ NetOf(Quantity, price) \in Int
           /\ CostsBite /\ price >= 0 =>
                  NetOf(Quantity, price) <= Scale * Moved(price)
<1>1. /\ EntryPrice \in Int /\ Unit \in Nat /\ Unit > 0 /\ FeeRate \in Nat /\ SlippageRate \in Nat
  BY TradeAssumption DEF LegalTrade
<1> DEFINE e == ExecutionEntryPrice
           x == ExecutionExitPrice(price)
           net == Unit * Signed(x - e) - FeeRate * (e + x)
<1>2. /\ e = EntryPrice * (IF side = "long" THEN Unit + SlippageRate ELSE Unit - SlippageRate)
      /\ x = price * (IF side = "long" THEN Unit - SlippageRate ELSE Unit + SlippageRate)
      /\ e \in Int /\ x \in Int
  BY <1>1 DEF ExecutionEntryPrice, ExecutionExitPrice
<1> DEFINE gain == Signed(x - e)
           move == Moved(price)
           paid == SlippageRate * (price + EntryPrice)
<1>3. /\ paid \in Int /\ move \in Int /\ gain \in Int
      /\ EntryPrice >= 0 /\ price >= 0 => paid >= 0
      /\ gain = Unit * move - paid
  <2>1. paid \in Int /\ (EntryPrice >= 0 /\ price >= 0 => paid >= 0)
    BY <1>1
  <2>2. CASE side = "long"
    <3>1. /\ e = EntryPrice * Unit + EntryPrice * SlippageRate
          /\ x = price * Unit - price * SlippageRate
          /\ move = price - EntryPrice /\ gain = x - e
      BY <1>1, <1>2, <2>2 DEF Moved, Signed
    <3> HIDE DEF x, e, gain, move
    <3>2. gain = (price * Unit - price * SlippageRate) - (EntryPrice * Unit + EntryPrice * SlippageRate)
      BY <3>1
    <3>3. gain = Unit * move - paid
      BY <1>1, <3>1, <3>2
    <3>4. gain \in Int /\ move \in Int
      BY <1>1, <1>2, <3>1
    <3> QED BY <2>1, <3>3, <3>4
  <2>3. CASE side = "short"
    <3>1. /\ e = EntryPrice * Unit - EntryPrice * SlippageRate
          /\ x = price * Unit + price * SlippageRate
          /\ move = -(price - EntryPrice) /\ gain = -(x - e)
      BY <1>1, <1>2, <2>3 DEF Moved, Signed
    <3> HIDE DEF x, e, gain, move
    <3>2. gain = (EntryPrice * Unit - EntryPrice * SlippageRate) - (price * Unit + price * SlippageRate)
      BY <1>1, <1>2, <3>1
    <3>3. gain = Unit * move - paid
      BY <1>1, <3>1, <3>2
    <3>4. gain \in Int /\ move \in Int
      BY <1>1, <1>2, <3>1
    <3> QED BY <2>1, <3>3, <3>4
  <2> QED BY <2>2, <2>3
<1>4. CostsBite /\ price >= 0 => e >= 0 /\ x >= 0
  <2>1. ASSUME CostsBite, price >= 0
        PROVE  e >= 0 /\ x >= 0
    <3>1. /\ Unit + SlippageRate \in Nat /\ Unit - SlippageRate \in Nat /\ EntryPrice \in Nat
      BY <1>1, <2>1 DEF CostsBite
    <3>2. \A a, b \in Nat : a * b >= 0
      OBVIOUS
    <3> QED BY <1>1, <1>2, <2>1, <3>1, <3>2
  <2> QED BY <2>1
<1>5. NetOf(Quantity, price) = 2 * net
  BY DEF NetOf, Quantity
<1> HIDE DEF x, e, gain, move, paid
<1>6. net = Unit * gain - FeeRate * (e + x) /\ net \in Int
  BY <1>1, <1>2, <1>3 DEF gain
<1> HIDE DEF net
<1>7. ASSUME CostsBite, price >= 0
      PROVE  net <= Unit * (Unit * move)
  <2> DEFINE fee == FeeRate * (e + x)
             lost == Unit * paid
             won == Unit * (Unit * move)
  <2>1. fee \in Int /\ fee >= 0
    <3>1. e + x \in Nat
      BY <1>2, <1>4, <1>7
    <3>2. \A a, b \in Nat : a * b \in Nat
      OBVIOUS
    <3> QED BY <1>1, <3>1, <3>2
  <2>2. lost \in Int /\ lost >= 0 /\ won \in Int
    <3>1. paid \in Nat
      BY <1>3, <1>7 DEF CostsBite
    <3>2. \A a, b \in Nat : a * b \in Nat
      OBVIOUS
    <3> QED BY <1>1, <1>3, <3>1, <3>2
  <2>3. Unit * gain = won - lost
    BY <1>1, <1>3
  <2>4. net = (won - lost) - fee
    BY <1>6, <2>3
  <2> HIDE DEF fee, lost, won
  <2>5. net <= won
    BY <2>1, <2>2, <2>4
  <2> QED BY <2>5 DEF won
<1>8. ASSUME CostsBite, price >= 0
      PROVE  2 * net <= Scale * move
  <2> DEFINE won == Unit * (Unit * move)
  <2>1. won \in Int /\ net <= won
    BY <1>1, <1>3, <1>7, <1>8
  <2>2. Scale * move = 2 * won
    BY <1>1, <1>3 DEF Scale, Quantity
  <2> HIDE DEF won
  <2> QED BY <1>6, <2>1, <2>2
<1> QED BY <1>5, <1>6, <1>8 DEF move
\* What the parts of FillsAttainable say of the diagnosis of a finished trade.
LEMMA DiagnosisIs ==
    ASSUME IInv, Done
    PROVE  /\ Diagnosis.mfe = Favorable(canonical.at)
           /\ Diagnosis.realized = NetOf(Quantity, canonical.price)
           /\ Diagnosis.giveback = Scale * Favorable(canonical.at) - NetOf(Quantity, canonical.price)
           /\ Diagnosis.strict = Favorable(canonical.at - 1)
           /\ Diagnosis.onExitBar = (Peak(canonical.at).bar = canonical.at)
<1> DEFINE at == canonical.at
           full == Peak(at)
           net == NetOf(Quantity, canonical.price)
<1>1. at \in 1..Len(path) /\ at \in 0..Len(path) /\ at - 1 \in 0..Len(path)
  BY CanonicalLast
<1>2. full.mfe = Favorable(at) /\ Peak(at - 1).mfe = Favorable(at - 1)
  BY <1>1, PeakIs
<1>3. Diagnosis =
        [mfe |-> full.mfe, peak |-> full.bar, onExitBar |-> full.bar = at,
         strict |-> Peak(at - 1).mfe, realized |-> net, giveback |-> Scale * full.mfe - net]
  BY DEF Diagnosis
<1> HIDE DEF full, net
<1> QED BY <1>2, <1>3 DEF full, net

LEMMA KeepsNoMore ==
    ASSUME IInv, Done, CostsBite
    PROVE  /\ NetOf(Quantity, canonical.price) \in Int
           /\ NetOf(Quantity, canonical.price) <= Scale * Favorable(canonical.at)
<1> DEFINE at == canonical.at
           price == canonical.price
           q == path[at]
           fav == Favorable(at)
           move == Moved(price)
<1>1. side \in {"long", "short"} /\ rule \in Rules
  BY DEF IInv
<1>2. at \in 1..Len(path) /\ price = CanonicalPrice(q) /\ q \in Quotes
  BY CanonicalLast
<1>3. Offers(q, price)
  BY <1>1, <1>2, CanonicalOffered
<1>4. price \in Int /\ price >= 0
  BY <1>2, <1>3, QuoteFacts DEF Offers, CostsBite
<1>5. move <= Best(q) /\ move \in Int /\ Best(q) \in Int
  BY <1>1, <1>2, <1>3, <1>4, MovesOffered
<1>6. at \in 0..Len(path) /\ at \in 1..at
  BY <1>2
<1>7. fav \in Int /\ Best(q) <= fav
  BY <1>6, FavorableIs
<1>8. NetOf(Quantity, price) \in Int /\ NetOf(Quantity, price) <= Scale * move
  BY <1>1, <1>4, NetIs
<1>9. Scale \in Nat
  BY TradeAssumption DEF LegalTrade, Scale, Quantity
<1> DEFINE net == NetOf(Quantity, price)
<1> HIDE DEF move, fav, net
<1>10. move <= fav
  BY <1>5, <1>7
<1>11. Scale * move <= Scale * fav /\ Scale * move \in Int /\ Scale * fav \in Int
  BY <1>5, <1>7, <1>9, <1>10
<1> DEFINE sm == Scale * move
           sf == Scale * fav
<1> HIDE DEF sm, sf
<1>12. net \in Int /\ net <= sm /\ sm <= sf /\ sm \in Int /\ sf \in Int
  BY <1>8, <1>11 DEF net, move, sm, sf
<1>13. net <= sf
  BY <1>12
<1> QED BY <1>12, <1>13 DEF net, sf, fav

\* One outcome bucket.
LEMMA OneBucket ==
    ASSUME NEW record, record.realized \in Int
    PROVE  Cardinality(OutcomeBuckets(record)) = 1
<1> DEFINE quarters == 4 * record.realized
           risk == Risk * Scale
<1>1. risk \in Int /\ risk > 0 /\ quarters \in Int
  BY TradeAssumption DEF LegalTrade, Scale, Quantity
<1>2. OutcomeBuckets(record) =
        {b \in {"loss", "near_breakeven", "below_1r", "1r_or_more"} :
          CASE b = "loss" -> quarters < 0
            [] b = "near_breakeven" -> 0 <= quarters /\ quarters < risk
            [] b = "below_1r" -> risk <= quarters /\ quarters < 4 * risk
            [] b = "1r_or_more" -> 4 * risk <= quarters}
  BY DEF OutcomeBuckets
<1> HIDE DEF quarters, risk
<1> DEFINE B == OutcomeBuckets(record)
<1>3. \A b : b \in B <=> \/ b = "loss" /\ quarters < 0
                         \/ b = "near_breakeven" /\ 0 <= quarters /\ quarters < risk
                         \/ b = "below_1r" /\ risk <= quarters /\ quarters < 4 * risk
                         \/ b = "1r_or_more" /\ 4 * risk <= quarters
  BY <1>2
<1> HIDE DEF B
<1>4. \E b : B = {b}
  <2>1. CASE quarters < 0
    <3>1. B = {"loss"}
      BY <1>1, <1>3, <2>1
    <3> QED BY <3>1
  <2>2. CASE 0 <= quarters /\ quarters < risk
    <3>1. B = {"near_breakeven"}
      BY <1>1, <1>3, <2>2
    <3> QED BY <3>1
  <2>3. CASE risk <= quarters /\ quarters < 4 * risk
    <3>1. B = {"below_1r"}
      BY <1>1, <1>3, <2>3
    <3> QED BY <3>1
  <2>4. CASE 4 * risk <= quarters
    <3>1. B = {"1r_or_more"}
      BY <1>1, <1>3, <2>4
    <3> QED BY <3>1
  <2>5. \/ quarters < 0
        \/ 0 <= quarters /\ quarters < risk
        \/ risk <= quarters /\ quarters < 4 * risk
        \/ 4 * risk <= quarters
    BY <1>1
  <2> QED BY <2>1, <2>2, <2>3, <2>4, <2>5
<1> QED BY <1>4, FS_Singleton DEF B

\* The peak is on the exit bar exactly if the strict one is lower.
LEMMA PeakInDoubt ==
    ASSUME IInv, Done
    PROVE  Peak(canonical.at).bar = canonical.at
             <=> \/ Favorable(canonical.at - 1) < Favorable(canonical.at)
                 \/ Favorable(canonical.at) = 0 /\ canonical.at = 1
<1> DEFINE at == canonical.at
           fav == Favorable(at)
           strict == Favorable(at - 1)
           bar == Peak(at).bar
<1>1. at \in 1..Len(path) /\ Len(path) \in Nat
  BY CanonicalLast
<1>2. /\ bar \in 1..at /\ Best0(bar) = fav
      /\ \A i \in 1..at : Best0(i) \in Int /\ Best0(i) <= fav /\ (Best0(i) = fav => bar <= i)
  <2>1. at \in 0..Len(path) /\ at > 0
    BY <1>1
  <2> QED BY <2>1, PeakIs
<1>3. at - 1 > 0 => /\ Peak(at - 1).bar \in 1..(at - 1) /\ Best0(Peak(at - 1).bar) = strict
                    /\ \A i \in 1..(at - 1) : Best0(i) \in Int /\ Best0(i) <= strict
  <2>1. at - 1 \in 0..Len(path)
    BY <1>1
  <2> QED BY <2>1, PeakIs
<1>4. fav \in Int /\ fav >= 0 /\ strict \in Int /\ strict >= 0
  <2>1. at \in 0..Len(path) /\ at - 1 \in 0..Len(path)
    BY <1>1
  <2> QED BY <2>1, FavorableIs
<1>5. at = 1 => strict = 0
  <2>1. ASSUME at = 1
        PROVE  strict = 0
    <3>1. 0 \in 0..Len(path) /\ at - 1 = 0 /\ 1..0 = {}
      BY <1>1, <2>1
    <3>2. Favorable(0) = 0 \/ \E i \in 1..0 : Favorable(0) = Best(path[i])
      BY <3>1, FavorableIs
    <3> QED BY <3>1, <3>2
  <2> QED BY <2>1
<1> DEFINE before == Peak(at - 1).bar
<1> HIDE DEF at, fav, strict, bar, before
<1>6. at \in Nat /\ at > 0
  BY <1>1 DEF at
<1>7. bar = at <=> strict < fav \/ (fav = 0 /\ at = 1)
  <2>1. CASE at = 1
    BY <1>2, <1>4, <1>5, <2>1
  <2>2. CASE at > 1
    <3>1. /\ before \in 1..(at - 1) /\ Best0(before) = strict
          /\ \A i \in 1..(at - 1) : Best0(i) \in Int /\ Best0(i) <= strict
      BY <1>1, <1>3, <2>2 DEF before, at, strict
    <3>2. before \in 1..at /\ before < at
      BY <1>6, <2>2, <3>1
    <3>3. ASSUME bar = at
          PROVE  strict < fav
      <4>1. strict <= fav /\ strict # fav
        BY <1>2, <1>4, <1>6, <3>1, <3>2, <3>3
      <4> QED BY <1>4, <4>1
    <3>4. ASSUME strict < fav
          PROVE  bar = at
      <4>1. bar \notin 1..(at - 1)
        BY <1>2, <1>4, <3>1, <3>4
      <4> QED BY <1>2, <1>6, <4>1
    <3> QED BY <2>2, <3>3, <3>4
  <2> QED BY <1>6, <2>1, <2>2
<1>8. Peak(canonical.at).bar = bar /\ canonical.at = at /\ Favorable(canonical.at - 1) = strict
      /\ Favorable(canonical.at) = fav
  BY DEF bar, at, strict, fav
<1> QED BY <1>7, <1>8

LEMMA AttainableIfIInv ==
    ASSUME IInv, CostsBite
    PROVE  FillsAttainable
<1>1. ASSUME NEW i \in DOMAIN components
      PROVE  /\ -Adverse(components[i].at) <= Moved(components[i].price)
             /\ Moved(components[i].price) <= Favorable(components[i].at)
             /\ components[i].reason = "take_profit" => Moved(components[i].price) > 0
             /\ moved # 0 /\ Moved(components[i].price) < 0
                  => components[i].at > moved /\ components[i].price = path[components[i].at].open
  <2>1. Fair(components[i])
    BY AllFair DEF Fairs
  <2>2. /\ components[i].reason = "take_profit" => Moved(components[i].price) > 0
        /\ moved # 0 /\ Moved(components[i].price) < 0
             => components[i].at > moved /\ components[i].price = path[components[i].at].open
    BY <2>1 DEF Fair
  <2>3. /\ -Adverse(components[i].at) <= Moved(components[i].price)
        /\ Moved(components[i].price) <= Favorable(components[i].at)
    BY <2>1, WithinExcursions
  <2> QED BY <2>2, <2>3
<1>2. ASSUME Done, NEW record, record = Diagnosis
      PROVE  /\ record.mfe = CanonicalRecord.mfe
             /\ record.giveback >= 0
             /\ \A l \in Landmarks : Retained(record, l) => Reached(record.mfe, l)
             /\ Cardinality(OutcomeBuckets(record)) = 1
             /\ record.onExitBar <=>
                    record.strict < record.mfe \/ (record.mfe = 0 /\ canonical.at = 1)
  <2> DEFINE fav == Favorable(canonical.at)
             net == NetOf(Quantity, canonical.price)
  <2>1. /\ record.mfe = fav /\ record.realized = net /\ record.giveback = Scale * fav - net
        /\ record.strict = Favorable(canonical.at - 1)
        /\ record.onExitBar = (Peak(canonical.at).bar = canonical.at)
    BY <1>2, DiagnosisIs
  <2>2. CanonicalRecord.mfe = fav
    BY DEF CanonicalRecord
  <2>3. net \in Int /\ net <= Scale * fav
    BY <1>2, KeepsNoMore
  <2>4. fav \in Int
    <3>1. canonical.at \in 0..Len(path)
      BY <1>2, CanonicalLast
    <3> QED BY <3>1, FavorableIs
  <2>5. Scale \in Nat /\ Scale > 0 /\ Risk \in Nat
    BY TradeAssumption DEF LegalTrade, Scale, Quantity
  <2>6. record.onExitBar <=>
            record.strict < record.mfe \/ (record.mfe = 0 /\ canonical.at = 1)
    BY <1>2, <2>1, PeakInDoubt
  <2>7. Cardinality(OutcomeBuckets(record)) = 1
    BY <2>1, <2>3, OneBucket
  <2> HIDE DEF fav, net
  <2> DEFINE sf == Scale * fav
  <2>8. sf \in Int /\ net <= sf /\ record.giveback = sf - net
    BY <2>1, <2>3, <2>4, <2>5
  <2>9. record.giveback >= 0
    <3> HIDE DEF sf
    <3> QED BY <2>3, <2>8
  <2>10. ASSUME NEW l \in Landmarks, Retained(record, l)
         PROVE  Reached(record.mfe, l)
    <3> DEFINE a == 2 * fav
               b == l * Risk
    <3>1. l \in Nat /\ a \in Int /\ b \in Int
      BY <2>4, <2>5 DEF Landmarks
    <3>2. 2 * net >= b * Scale
      BY <2>1, <2>10 DEF Retained
    <3>3. Scale * a = 2 * sf /\ Scale * b = b * Scale
      BY <2>4, <2>5, <3>1
    <3> DEFINE bs == b * Scale
    <3>4. bs \in Int
      BY <2>5, <3>1
    <3>5. 2 * sf >= bs
      <4> HIDE DEF sf, bs, b
      <4>1. 2 * net >= bs
        BY <3>2 DEF bs
      <4> QED BY <2>3, <2>8, <3>4, <4>1
    <3>6. Scale * a >= Scale * b
      BY <3>3, <3>5
    <3>7. a >= b
      <4> HIDE DEF a, b
      <4> QED BY <2>5, <3>1, <3>6, Cancel
    <3> QED BY <2>1, <3>7 DEF Reached
  <2> QED BY <2>1, <2>2, <2>6, <2>7, <2>9, <2>10
<1>3. ASSUME NEW record,
             NEW row \in {<<"A", 2, "loss">>, <<"B", 4, "loss">>, <<"C", 4, "less_than_1r">>,
                          <<"D", 6, "giveback_at_least_50pct">>}
      PROVE  row[1] \in Cohorts(record) <=> row[3] \in LandmarkCounts(record, row[2])
  <2> DEFINE R(l) == Reached(record.mfe, l)
             Loss == record.realized < 0
             Less == ~Retained(record, 2)
             Half == GaveHalfBack(record)
  <2>1. /\ "A" \in Cohorts(record) <=> R(2) /\ Loss
        /\ "B" \in Cohorts(record) <=> R(4) /\ Loss
        /\ "C" \in Cohorts(record) <=> R(4) /\ Less
        /\ "D" \in Cohorts(record) <=> R(6) /\ Half
    BY DEF Cohorts
  <2>2. ASSUME NEW l
        PROVE  /\ "loss" \in LandmarkCounts(record, l) <=> R(l) /\ Loss
               /\ "less_than_1r" \in LandmarkCounts(record, l) <=> R(l) /\ Less
               /\ "giveback_at_least_50pct" \in LandmarkCounts(record, l) <=> R(l) /\ Half
    BY DEF LandmarkCounts
  <2> HIDE DEF R, Loss, Less, Half
  <2>3. CASE row = <<"A", 2, "loss">>
    BY <2>1, <2>2, <2>3
  <2>4. CASE row = <<"B", 4, "loss">>
    BY <2>1, <2>2, <2>4
  <2>5. CASE row = <<"C", 4, "less_than_1r">>
    BY <2>1, <2>2, <2>5
  <2>6. CASE row = <<"D", 6, "giveback_at_least_50pct">>
    BY <2>1, <2>2, <2>6
  <2> QED BY <2>3, <2>4, <2>5, <2>6
<1> QED BY <1>1, <1>2, <1>3 DEF FillsAttainable

\* With costs that only take, as CostsBite says, no exit of a trade is better
\* than its bars offered, and what Stage 1 reports of it is consistent.
THEOREM ExitFillsAttainable ==
    ASSUME CostsBite
    PROVE  Spec => []FillsAttainable
<1>1. IInv => FillsAttainable
  BY AttainableIfIInv
<1> QED BY <1>1, ExitIInv, PTL

-----------------------------------------------------------------------------
(* What a rule can change.                                                 *)

\* The first bar that reaches the target while the candidate is held.
Firsts ==
    {i \in 1..Closer.at : /\ FavorableReached(path[i])
                          /\ \A j \in 1..(i - 1) : ~FavorableReached(path[j])}

\* What DiffersOnlyByTrigger says when the target is reached (r) or not.
Differs(r) ==
    /\ PartialDone <=> rule.partial /\ r
    /\ moved # 0 <=> rule.breakEven /\ r
    /\ r /\ ~rule.partial /\ ~rule.breakEven =>
           Closer.reason = "take_profit" /\ Closer.price = Target
    /\ ~r => /\ Len(components) = 1
             /\ <<Closer.at, Closer.price>> = <<canonical.at, canonical.price>>
             /\ CandidateRecord = CanonicalRecord
    /\ PartialDone /\ Retained(Diagnosis, 4) =>
           (RunnerExposed <=> "trigger_and_new_stop" \notin flags)
    /\ "against_candidate" \in flags <=>
           \E i \in Firsts : \/ i = canonical.at
                             \/ Touched(path[i], InitialStop)
                             \/ rule.breakEven /\ Touched(path[i], EntryPrice)

\* The strict peak reaches the target exactly if a bar before the last one does.
LEMMA ReachesIs ==
    ASSUME IInv, Done
    PROVE  Reached(Diagnosis.strict, rule.target) <=> ~Unreached(path, canonical.at - 1)
<1> DEFINE n == canonical.at - 1
           fav == Favorable(n)
           move == Moved(Target)
<1>1. n \in 0..Len(path) /\ path \in Seq(Quotes) /\ side \in {"long", "short"} /\ rule \in Rules
  BY CanonicalLast, NowFields DEF IInv, BarsOK
<1>2. /\ fav \in Int /\ fav >= 0
      /\ \A i \in 1..n : Best(path[i]) \in Int /\ Best(path[i]) <= fav
      /\ fav = 0 \/ \E i \in 1..n : fav = Best(path[i])
  BY <1>1, FavorableIs
<1>3. move \in Int /\ move > 0 /\ 2 * move = rule.target * Risk
  BY <1>1, Numbers
<1>4. \A i \in 1..n : FavorableReached(path[i]) <=> move <= Best(path[i])
  <2>1. \A i \in 1..n : path[i] \in Quotes
    BY <1>1
  <2> QED BY <1>1, <2>1, TargetOffered
<1>5. Reached(Diagnosis.strict, rule.target) <=> 2 * fav >= rule.target * Risk
  BY DiagnosisIs DEF Reached
<1> HIDE DEF fav, move
<1>6. Reached(Diagnosis.strict, rule.target) <=> move <= fav
  BY <1>2, <1>3, <1>5
<1>7. move <= fav <=> \E i \in 1..n : move <= Best(path[i])
  BY <1>2, <1>3
<1> QED BY <1>4, <1>6, <1>7 DEF Unreached

LEMMA FirstsIs ==
    ASSUME NEW t \in Nat, First(path, t), Len(path) \in Nat, Closer.at \in Nat, t <= Closer.at
    PROVE  Firsts = {t}
<1> DEFINE last == Closer.at
<1>1. t \in 1..last /\ FavorableReached(path[t]) /\ \A j \in 1..(t - 1) : ~FavorableReached(path[j])
  BY DEF First, Unreached
<1>2. Firsts = {i \in 1..last : /\ FavorableReached(path[i])
                                /\ \A j \in 1..(i - 1) : ~FavorableReached(path[j])}
  BY DEF Firsts
<1>3. last \in Nat
  OBVIOUS
<1> HIDE DEF last
<1>4. \A i \in 1..last : i = t \/ i \in 1..(t - 1) \/ t \in 1..(i - 1)
  BY <1>1, <1>3
<1> QED BY <1>1, <1>2, <1>4

\* It ended as the canonical trade.
LEMMA DiffersAlike ==
    ASSUME IInv, Done, EndedAlike(Now)
    PROVE  Unreached(path, canonical.at - 1) /\ Differs(FALSE)
<1> DEFINE at == canonical.at
           price == canonical.price
           hit == Touched(path[at], InitialStop)
           reason == IF hit THEN "stop" ELSE "canonical_exit"
           c == Exit("full_position", Quantity, price, reason, at)
<1>1. /\ moved = 0 /\ components = <<c>>
      /\ Unreached(path, at - 1)
      /\ "against_candidate" \in flags <=> FavorableReached(path[at])
  BY NowFields DEF EndedAlike, Unmoved
<1>2. at \in 1..Len(path) /\ Len(path) \in Nat /\ path[at] \in Quotes /\ price = CanonicalPrice(path[at])
  BY CanonicalLast
<1>3. side \in {"long", "short"} /\ rule \in Rules
      /\ rule.partial \in BOOLEAN /\ rule.breakEven \in BOOLEAN
  BY Numbers DEF IInv
<1>4. hit \in BOOLEAN
  <2> DEFINE q == path[at]
  <2>1. q.low \in Int /\ q.high \in Int /\ InitialStop \in Int
    BY <1>2, <1>3, Numbers, QuoteFacts
  <2> HIDE DEF q
  <2>2. (q.low <= InitialStop) \in BOOLEAN /\ (q.high >= InitialStop) \in BOOLEAN
    BY <2>1
  <2>3. Touched(q, InitialStop) \in BOOLEAN
    BY <2>2, Zenon DEF Touched
  <2> QED BY <2>3 DEF q
<1>5. c.kind = "full_position" /\ c.at = at /\ c.price = price /\ c.reason = reason
      /\ c.net = NetOf(Quantity, price)
  BY DEF Exit
<1>6. NetOf(Quantity, price) \in Int
  <2>1. price \in Int
    BY <1>2, <1>3, Prices, Numbers
  <2> QED BY <1>3, <2>1, NetIs
<1> HIDE DEF c
<1>7. Len(components) = 1 /\ Closer = c /\ DOMAIN components = {1} /\ components[1] = c
  BY <1>1 DEF Closer
<1>8. ~PartialDone
  BY <1>5, <1>7 DEF PartialDone
<1>9. CandidateRecord = CanonicalRecord
  <2> DEFINE nets == [i \in DOMAIN components |-> components[i].net]
  <2>1. nets[1] = NetOf(Quantity, price)
    BY <1>5, <1>7
  <2> HIDE DEF nets
  <2>2. Total(nets, 1) = NetOf(Quantity, price)
    BY <1>6, <2>1, TotalIs
  <2>3. (c.reason \in {"stop", "break_even_stop"}) = hit
    BY <1>4, <1>5
  <2> HIDE DEF hit
  <2>4. CandidateRecord =
          [realized |-> NetOf(Quantity, price), mae |-> Adverse(at), mfe |-> Favorable(at),
           duration |-> at, stopHit |-> hit]
    BY <1>5, <1>7, <2>2, <2>3 DEF CandidateRecord, nets
  <2> QED BY <2>4 DEF CanonicalRecord, hit
<1>10. "against_candidate" \in flags <=>
         \E i \in Firsts : \/ i = at
                           \/ Touched(path[i], InitialStop)
                           \/ rule.breakEven /\ Touched(path[i], EntryPrice)
  <2>1. CASE FavorableReached(path[at])
    <3>1. First(path, at)
      BY <1>1, <1>2, <2>1 DEF First
    <3>2. Firsts = {at}
      BY <1>2, <1>5, <1>7, <3>1, FirstsIs
    <3> QED BY <1>1, <2>1, <3>2
  <2>2. CASE ~FavorableReached(path[at])
    <3>1. \A i \in 1..at : i = at \/ i \in 1..(at - 1)
      BY <1>2
    <3>2. \A i \in 1..at : ~FavorableReached(path[i])
      BY <1>1, <2>2, <3>1 DEF Unreached
    <3>3. Firsts = {}
      BY <1>5, <1>7, <3>2 DEF Firsts
    <3> QED BY <1>1, <2>2, <3>3
  <2> QED BY <2>1, <2>2
<1>11. <<Closer.at, Closer.price>> = <<at, price>>
  BY <1>5, <1>7
<1>12. moved # 0 <=> rule.breakEven /\ FALSE
  BY <1>1
<1> QED BY <1>1, <1>7, <1>8, <1>9, <1>10, <1>11, <1>12 DEF Differs

\* A bar before the last one reached the target.
LEMMA FirstBefore ==
    ASSUME IInv, Done, NEW t, First(path, t), t < canonical.at
    PROVE  ~Unreached(path, canonical.at - 1) /\ ~Touched(path[t], InitialStop)
           /\ t # canonical.at /\ t \in Nat /\ t > 0
<1>1. canonical.at = Len(path) /\ canonical.at \in 1..Len(path) /\ Len(path) \in Nat
  BY CanonicalLast
<1>2. t \in 1..Len(path) /\ FavorableReached(path[t])
  BY DEF First
<1>3. t \in 1..(canonical.at - 1)
  BY <1>1, <1>2
<1>4. Untouched(path, Len(path) - 1)
  BY NowFields DEF IInv, BarsOK, Done
<1> QED BY <1>1, <1>2, <1>3, <1>4 DEF Unreached, Untouched

LEMMA DiffersAtTarget ==
    ASSUME IInv, Done, NEW t \in 1..Len(path), EndedAtTarget(Now, t)
    PROVE  ~Unreached(path, canonical.at - 1) /\ Differs(TRUE)
<1> DEFINE c == Exit("full_position", Quantity, Target, "take_profit", t)
<1>1. /\ moved = 0 /\ components = <<c>> /\ First(path, t) /\ t < canonical.at /\ flags = {}
      /\ ~rule.partial /\ ~rule.breakEven
  BY NowFields DEF EndedAtTarget, Unmoved, Later, Acts, Done
<1>2. ~Unreached(path, canonical.at - 1) /\ ~Touched(path[t], InitialStop) /\ t # canonical.at
  BY <1>1, FirstBefore
<1>3. c.kind = "full_position" /\ c.at = t /\ c.price = Target /\ c.reason = "take_profit"
  BY DEF Exit
<1> HIDE DEF c
<1>4. Closer = c /\ DOMAIN components = {1} /\ components[1] = c
  BY <1>1 DEF Closer
<1>5. ~PartialDone
  BY <1>3, <1>4 DEF PartialDone
<1>6. Firsts = {t}
  <2>1. Len(path) \in Nat
    BY CanonicalLast
  <2> QED BY <1>1, <1>3, <1>4, <2>1, FirstsIs
<1>7. rule.partial \in BOOLEAN /\ rule.breakEven \in BOOLEAN
  BY Numbers DEF IInv
<1>8. "against_candidate" \in flags <=>
        \E i \in Firsts : \/ i = canonical.at
                          \/ Touched(path[i], InitialStop)
                          \/ rule.breakEven /\ Touched(path[i], EntryPrice)
  BY <1>1, <1>2, <1>6
<1>9. moved # 0 <=> rule.breakEven /\ TRUE
  BY <1>1
<1> QED BY <1>1, <1>2, <1>3, <1>4, <1>5, <1>8, <1>9 DEF Differs

LEMMA DiffersParts ==
    ASSUME IInv, Done, NEW t \in 1..Len(path), NEW u \in 1..Len(path), NEW b, NEW c,
           Acted(Now, t), t < canonical.at, t <= u,
           components = IF rule.partial THEN <<b, c>> ELSE <<c>>,
           rule.partial => IsPartial(b) /\ b.at = t,
           c.kind # "partial_take_profit", c.at = u,
           "trigger_and_new_stop" \in flags <=> t = u,
           "against_candidate" \in flags <=> rule.breakEven /\ Touched(path[t], EntryPrice)
    PROVE  ~Unreached(path, canonical.at - 1) /\ Differs(TRUE)
<1>1. First(path, t) /\ (rule.partial \/ rule.breakEven) /\ moved = (IF rule.breakEven THEN t ELSE 0)
  BY NowFields DEF Acted, Acts
<1>2. /\ ~Unreached(path, canonical.at - 1) /\ ~Touched(path[t], InitialStop)
      /\ t # canonical.at /\ t > 0
  BY <1>1, FirstBefore
<1>3. rule.partial \in BOOLEAN /\ rule.breakEven \in BOOLEAN
  BY Numbers DEF IInv
<1>4. Closer = c
  BY <1>3 DEF Closer
<1>5. PartialDone <=> rule.partial
  <2>1. CASE rule.partial
    <3>1. 1 \in DOMAIN components /\ components[1].kind = "partial_take_profit"
      BY <2>1 DEF IsPartial
    <3> QED BY <2>1, <3>1 DEF PartialDone
  <2>2. CASE ~rule.partial
    <3>1. DOMAIN components = {1} /\ components[1] = c
      BY <2>2
    <3> QED BY <2>2, <3>1 DEF PartialDone
  <2> QED BY <2>1, <2>2
<1>6. Firsts = {t}
  <2>1. Len(path) \in Nat
    BY CanonicalLast
  <2> QED BY <1>1, <1>4, <2>1, FirstsIs
<1>7. PartialDone /\ Retained(Diagnosis, 4) =>
          (RunnerExposed <=> "trigger_and_new_stop" \notin flags)
  <2>1. SUFFICES ASSUME PartialDone, Retained(Diagnosis, 4)
                 PROVE  RunnerExposed <=> "trigger_and_new_stop" \notin flags
    OBVIOUS
  <2>2. rule.partial /\ components[1] = b /\ b.at = t
    BY <1>5, <2>1
  <2>3. RunnerExposed <=> u > t
    BY <1>4, <2>1, <2>2 DEF RunnerExposed
  <2> QED BY <2>3
<1>8. "against_candidate" \in flags <=>
        \E i \in Firsts : \/ i = canonical.at
                          \/ Touched(path[i], InitialStop)
                          \/ rule.breakEven /\ Touched(path[i], EntryPrice)
  BY <1>2, <1>6
<1>9. moved # 0 <=> rule.breakEven /\ TRUE
  BY <1>1, <1>2, <1>3
<1> QED BY <1>1, <1>2, <1>5, <1>7, <1>8, <1>9 DEF Differs

LEMMA DiffersTriggered ==
    ASSUME IInv, Done, NEW t \in 1..Len(path), NEW u \in 1..Len(path), NEW price, NEW reason,
           Acted(Now, t), t < canonical.at, t <= u,
           components = Append(Parts(t), Last(price, reason, u)),
           "trigger_and_new_stop" \in flags <=> t = u,
           "against_candidate" \in flags <=> rule.breakEven /\ Touched(path[t], EntryPrice)
    PROVE  ~Unreached(path, canonical.at - 1) /\ Differs(TRUE)
<1> DEFINE c == Last(price, reason, u)
           b == Parts(t)[1]
<1>1. c.kind # "partial_take_profit" /\ c.at = u
  BY LastIs
<1> HIDE DEF c
<1>2. /\ components = IF rule.partial THEN <<b, c>> ELSE <<c>>
      /\ rule.partial => IsPartial(b) /\ b.at = t
  BY PartsIs DEF c
<1> HIDE DEF b
<1> QED BY <1>1, <1>2, DiffersParts

LEMMA FateDone ==
    ASSUME IInv, Done
    PROVE  IF Unreached(path, canonical.at - 1) THEN Differs(FALSE) ELSE Differs(TRUE)
<1> DEFINE x == Now
<1>1. /\ Fate(x) /\ x.path = path /\ x.canonical = canonical /\ x.components = components
      /\ x.flags = flags /\ canonical # Pending
  BY NowFields DEF IInv, Done
<1>2. canonical.at = Len(path) /\ Len(path) \in Nat
  BY CanonicalLast
<1>3. CASE EndedAlike(x)
  BY <1>3, DiffersAlike
<1>4. ASSUME NEW t \in 1..Len(path), EndedAtTarget(x, t)
      PROVE  ~Unreached(path, canonical.at - 1) /\ Differs(TRUE)
  BY <1>4, DiffersAtTarget
<1>5. ASSUME NEW t \in 1..Len(path), EndedAtOnce(x, t)
      PROVE  ~Unreached(path, canonical.at - 1) /\ Differs(TRUE)
  <2>1. /\ Acted(Now, t) /\ rule.breakEven /\ t < canonical.at /\ Touched(path[t], EntryPrice)
        /\ components = Append(Parts(t), Last(EntryPrice, "break_even_stop", t))
        /\ flags = {"trigger_and_new_stop", "against_candidate"}
    BY <1>1, <1>5 DEF EndedAtOnce, Later
  <2>2. t <= t /\ "trigger_and_new_stop" \in flags /\ "against_candidate" \in flags
    BY <2>1
  <2> HIDE DEF x
  <2> QED BY <2>1, <2>2, DiffersTriggered
<1>6. ASSUME NEW t \in 1..Len(path), NEW u \in 1..Len(path), EndedAfter(x, t, u)
      PROVE  ~Unreached(path, canonical.at - 1) /\ Differs(TRUE)
  <2>1. /\ Acted(Now, t) /\ t < u
        /\ rule.breakEven => ~Touched(path[t], EntryPrice)
        /\ flags \cap {"trigger_and_new_stop", "against_candidate"} = {}
    BY <1>1, <1>6 DEF EndedAfter
  <2>2. PICK price \in Int, reason \in {"break_even_stop", "stop", "canonical_exit"} :
              components = Append(Parts(t), Last(price, reason, u))
    BY <1>1, <1>6 DEF EndedAfter
  <2>3. /\ t < canonical.at /\ t <= u /\ t # u
        /\ "trigger_and_new_stop" \notin flags /\ "against_candidate" \notin flags
    BY <1>2, <2>1
  <2> HIDE DEF x
  <2> QED BY <2>1, <2>2, <2>3, DiffersTriggered
<1> HIDE DEF x
<1> QED BY <1>1, <1>3, <1>4, <1>5, <1>6 DEF Fate, Held, Running

LEMMA DiffersIfIInv == IInv => DiffersOnlyByTrigger
<1> SUFFICES ASSUME IInv, Done PROVE DiffersOnlyByTrigger
  BY DEF DiffersOnlyByTrigger
<1> DEFINE r == Reached(Diagnosis.strict, rule.target)
<1>1. r <=> ~Unreached(path, canonical.at - 1)
  BY ReachesIs
<1>2. IF Unreached(path, canonical.at - 1) THEN Differs(FALSE) ELSE Differs(TRUE)
  BY FateDone
<1>3. "resolved_conservatively_against_candidate" \in Audit <=> "against_candidate" \in flags
  BY DEF Audit
<1>4. r \in BOOLEAN
  BY DEF Reached
<1> HIDE DEF r
<1>5. r = TRUE \/ r = FALSE
  BY <1>4
<1>6. Differs(r)
  <2>1. CASE r = TRUE
    BY <1>1, <1>2, <2>1
  <2>2. CASE r = FALSE
    BY <1>1, <1>2, <2>2
  <2> QED BY <1>5, <2>1, <2>2
<1>7. /\ PartialDone = (rule.partial /\ r)
      /\ (moved # 0) = (rule.breakEven /\ r)
      /\ PartialDone /\ Retained(Diagnosis, 4) =>
             RunnerExposed = ("trigger_and_new_stop" \notin flags)
  <2>1. /\ PartialDone <=> rule.partial /\ r
        /\ moved # 0 <=> rule.breakEven /\ r
        /\ PartialDone /\ Retained(Diagnosis, 4) =>
               (RunnerExposed <=> "trigger_and_new_stop" \notin flags)
    BY <1>6 DEF Differs
  <2>2. PartialDone \in BOOLEAN /\ RunnerExposed \in BOOLEAN
    BY DEF PartialDone, RunnerExposed
  <2> QED BY <2>1, <2>2
<1>8. /\ r /\ ~rule.partial /\ ~rule.breakEven =>
             Closer.reason = "take_profit" /\ Closer.price = Target
      /\ ~r => /\ Len(components) = 1
               /\ <<Closer.at, Closer.price>> = <<canonical.at, canonical.price>>
               /\ CandidateRecord = CanonicalRecord
      /\ "resolved_conservatively_against_candidate" \in Audit <=>
             \E i \in Firsts : \/ i = canonical.at
                               \/ Touched(path[i], InitialStop)
                               \/ rule.breakEven /\ Touched(path[i], EntryPrice)
  BY <1>3, <1>6 DEF Differs
<1> QED BY <1>7, <1>8, Zenon DEF DiffersOnlyByTrigger, Firsts, r

\* A candidate differs from its canonical trade only by what its trigger did,
\* and the trigger acts exactly if the strict peak of Stage 1 reaches it.
THEOREM ExitDiffersOnlyByTrigger == Spec => []DiffersOnlyByTrigger
BY ExitIInv, DiffersIfIInv, PTL
=============================================================================
