---------------------------- MODULE RuntimeProofs ----------------------------
(***************************************************************************)
(* Proofs about Runtime, for every Ratio, every horizon, every number of   *)
(* failures and every set of legal settings.                               *)
(***************************************************************************)
EXTENDS Runtime, SequenceTheorems, WellFoundedInduction, TLAPS

\* The candle that follows c in its timeframe.
Successor(c) == Candle(c.frame, c.open + Duration(c.frame))

\* A log is taken in processing order, and the successor of a taken candle is
\* either taken or still ahead of the log's cursor.
LogOK(log) ==
    /\ \A i, j \in DOMAIN log : i < j => Before(ProcessingKey(log[i]), ProcessingKey(log[j]))
    /\ \A i \in DOMAIN log :
          \/ \E m \in DOMAIN log : log[m] = Successor(log[i])
          \/ Before(Cursor(log), ProcessingKey(Successor(log[i])))

\* The batch holds final candles, and each timeframe of it runs up to the last
\* one that is final at the poll's reading of the clock.
BatchOK ==
    \A c \in poll.batch :
        /\ FinalizedAt(c) <= poll.at
        /\ Successor(c) \in poll.batch \/ FinalizedAt(Successor(c)) > poll.at

Fetched == CASE poll.pc = "process" -> Frames
             [] poll.pc = "4h" -> {"15m"}
             [] OTHER -> {}

\* A fetched range begins early enough: what comes next in the timeframe of a
\* taken candle is in the batch, as soon as it is final.
Covered ==
    \A i \in DOMAIN mem.log :
        (/\ mem.log[i].frame \in Fetched
         /\ Before(Cursor(mem.log), ProcessingKey(Successor(mem.log[i]))))
        => \/ Successor(mem.log[i]) \in poll.batch
           \/ FinalizedAt(Successor(mem.log[i])) > poll.at

Records ==
    /\ mem \in [loaded: BOOLEAN, log: Seq(Candles), bootstrap: BOOLEAN]
    /\ poll \in [pc: {"idle", "15m", "4h", "process"}, at: 0..Horizon,
                 batch: SUBSET Candles, done: Seq(Candles)]

IsPrefixOf(log, of) == Len(log) <= Len(of) /\ \A i \in DOMAIN log : of[i] = log[i]

\* Memory is the durable log or one candle behind it, and what was reported or
\* is about to be is in memory.
Held ==
    /\ IsPrefixOf(mem.log, store)
    /\ mem.loaded => Len(store) <= Len(mem.log) + 1
    /\ ~mem.loaded => mem.log = <<>> /\ poll.pc = "idle"
    /\ delivered \subseteq Members(IF mem.loaded THEN mem.log ELSE store)
    /\ Members(poll.done) \subseteq Members(mem.log)
    /\ poll.pc # "process" => poll.done = <<>>
    /\ mem.loaded => (mem.log = <<>> <=> mem.bootstrap /\ poll.done = <<>>)

\* The inductive invariant.
IInv == TypeOK /\ Records /\ LogOK(store) /\ Held /\ BatchOK /\ Covered

-----------------------------------------------------------------------------
(* Arithmetic of the candle grid.                                          *)

LEMMA Division ==
  ASSUME NEW d \in Nat \ {0}, NEW x \in Int
  PROVE  /\ x \div d \in Int /\ x % d \in Int
         /\ x = d * (x \div d) + (x % d)
         /\ 0 <= x % d /\ x % d < d
  OBVIOUS

\* Multiples of d are d apart, and d times anything is one.
LEMMA Multiples ==
    ASSUME NEW d \in Nat \ {0}, NEW x \in Int, NEW y \in Int, x % d = 0, y % d = 0
    PROVE  /\ x < y => x + d <= y
           /\ (x + d) % d = 0 /\ (x - d) % d = 0
  <1> DEFINE p == x \div d
             q == y \div d
  <1>1. p \in Int /\ q \in Int /\ x = d * p /\ y = d * q
    BY Division
  <1> HIDE DEF p, q
  <1>2. ASSUME x < y
        PROVE  x + d <= y
    <2>1. p < q
      BY <1>1, <1>2
    <2>2. d * p + d <= d * q
      BY <1>1, <2>1
    <2> QED
      BY <1>1, <2>2
  <1>3. ASSUME NEW n \in Int
        PROVE  (d * n) % d = 0
    OBVIOUS
  <1>4. x + d = d * (p + 1) /\ x - d = d * (p - 1) /\ p + 1 \in Int /\ p - 1 \in Int
    BY <1>1
  <1> QED
    BY <1>2, <1>3, <1>4

LEMMA Shift ==
    ASSUME NEW d \in Nat \ {0}, NEW x \in Int, x % d = 0
    PROVE  (x + d) % d = 0 /\ (x - d) % d = 0
  BY Multiples

\* The multiple of d below x.
LEMMA FloorOf ==
    ASSUME NEW d \in Nat \ {0}, NEW x \in Int
    PROVE  LET m == (x \div d) * d
           IN  m \in Int /\ m % d = 0 /\ m <= x /\ x < m + d
  <1> DEFINE q == x \div d
  <1>1. q \in Int /\ x = d * q + (x % d) /\ 0 <= x % d /\ x % d < d /\ x % d \in Int
    BY Division
  <1> HIDE DEF q
  <1>2. q * d = d * q /\ d * q \in Int /\ (d * q) % d = 0
    BY <1>1
  <1> QED
    BY <1>1, <1>2 DEF q

\* A non-empty set of natural numbers has a least element.
LEMMA LeastNat ==
    ASSUME NEW S, S \subseteq Nat, S # {}
    PROVE  \E n \in S : \A m \in S : n <= m
  <1> DEFINE R == OpToRel(<, Nat)
  <1>1. \E n \in S : \A m \in S : ~ (<<m, n>> \in R)
    <2> HIDE DEF R
    <2> QED
      BY NatLessThanWellFounded, WFMin DEF R
  <1>2. PICK n \in S : \A m \in S : ~ (<<m, n>> \in R)
    BY <1>1
  <1>3. ASSUME NEW m \in S
        PROVE  n <= m
    <2>1. <<m, n>> \in Nat \X Nat /\ ~ (<<m, n>> \in R)
      BY <1>2
    <2>2. ~ (m < n)
      BY <2>1 DEF OpToRel
    <2> QED
      BY <2>2
  <1> QED
    BY <1>3

-----------------------------------------------------------------------------
(* Candles and their order.                                                *)

\* The candles of an unbounded clock.
Aligned == {c \in [frame : Frames, open : Nat] : c.open % Duration(c.frame) = 0}

\* The place of a candle in processing order as one number.
Rank(c) == 2 * FinalizedAt(c) + Priority(c.frame)

LastRank(log) == IF log = <<>> THEN 0 ELSE Rank(log[Len(log)])

LEMMA FrameFacts ==
    ASSUME NEW f \in Frames
    PROVE  Duration(f) \in Nat \ {0} /\ Priority(f) \in {0, 1}
  BY RatioAssumption DEF Frames, Duration, Priority

LEMMA CandleFacts ==
    /\ \A c \in Candles : /\ c \in Aligned
                          /\ c.open \in 0..Horizon /\ c = Candle(c.frame, c.open)
    /\ \A f \in Frames, o \in 0..Horizon : o % Duration(f) = 0 => Candle(f, o) \in Candles
  <1>1. ASSUME NEW c \in Candles
        PROVE  c \in Aligned /\ c.open \in 0..Horizon /\ c = Candle(c.frame, c.open)
    <2>1. PICK f \in Frames : c \in {Candle(f, o) : o \in {n \in 0..Horizon : n % Duration(f) = 0}}
      BY DEF Candles
    <2>2. PICK o \in 0..Horizon : o % Duration(f) = 0 /\ c = Candle(f, o)
      BY <2>1
    <2> QED
      BY <2>2, BoundsAssumption DEF Aligned, Candle
  <1>2. ASSUME NEW f \in Frames, NEW o \in 0..Horizon, o % Duration(f) = 0
        PROVE  Candle(f, o) \in Candles
    BY <1>2 DEF Candles
  <1> QED
    BY <1>1, <1>2

LEMMA AlignedFacts ==
    ASSUME NEW c \in Aligned
    PROVE  /\ c.frame \in Frames /\ c.open \in Nat /\ c.open % Duration(c.frame) = 0
           /\ FinalizedAt(c) = c.open + Duration(c.frame)
           /\ FinalizedAt(c) \in Nat \ {0}
           /\ Rank(c) \in Nat \ {0}
           /\ Successor(c) \in Aligned /\ Successor(c).frame = c.frame
           /\ Successor(c).open = c.open + Duration(c.frame)
           /\ Rank(c) < Rank(Successor(c))
  <1>1. /\ c.frame \in Frames /\ c.open \in Nat /\ c.open % Duration(c.frame) = 0
        /\ Duration(c.frame) \in Nat \ {0} /\ Priority(c.frame) \in {0, 1}
    BY FrameFacts DEF Aligned
  <1>2. (c.open + Duration(c.frame)) % Duration(c.frame) = 0
    BY <1>1, Shift
  <1>3. /\ Successor(c) = [frame |-> c.frame, open |-> c.open + Duration(c.frame)]
        /\ c.open + Duration(c.frame) \in Nat
    BY <1>1 DEF Successor, Candle
  <1>4. Successor(c) \in Aligned
    BY <1>1, <1>2, <1>3 DEF Aligned
  <1> QED
    BY <1>1, <1>3, <1>4 DEF FinalizedAt, Rank

\* Processing order is the order of ranks, and a rank names one candle.
LEMMA RankOrder ==
    ASSUME NEW c \in Aligned, NEW d \in Aligned
    PROVE  /\ Before(ProcessingKey(c), ProcessingKey(d)) <=> Rank(c) < Rank(d)
           /\ FinalizedAt(c) < FinalizedAt(d) => Rank(c) < Rank(d)
           /\ Rank(c) = Rank(d) => c = d
  <1>1. /\ FinalizedAt(c) \in Nat /\ FinalizedAt(d) \in Nat
        /\ Priority(c.frame) \in {0, 1} /\ Priority(d.frame) \in {0, 1}
        /\ c.open \in Nat /\ d.open \in Nat
        /\ Duration(c.frame) \in Nat /\ Duration(d.frame) \in Nat
        /\ c.frame \in Frames /\ d.frame \in Frames
    BY AlignedFacts, FrameFacts
  <1>2. Before(ProcessingKey(c), ProcessingKey(d)) <=> Rank(c) < Rank(d)
    BY <1>1 DEF Before, ProcessingKey, Rank
  <1>3. FinalizedAt(c) < FinalizedAt(d) => Rank(c) < Rank(d)
    BY <1>1 DEF Rank
  <1>4. ASSUME Rank(c) = Rank(d)
        PROVE  c = d
    <2>1. Priority(c.frame) = Priority(d.frame) /\ FinalizedAt(c) = FinalizedAt(d)
      BY <1>1, <1>4 DEF Rank
    <2>2. c.frame = d.frame
      BY <1>1, <2>1 DEF Priority, Frames
    <2>3. c.open = d.open
      BY <1>1, <2>1, <2>2 DEF FinalizedAt
    <2> QED
      BY <2>2, <2>3 DEF Aligned
  <1> QED
    BY <1>2, <1>3, <1>4

\* Within a timeframe nothing lies between a candle and its successor.
LEMMA SameFrame ==
    ASSUME NEW c \in Aligned, NEW d \in Aligned, c.frame = d.frame, Rank(c) < Rank(d)
    PROVE  Rank(Successor(c)) <= Rank(d) /\ c.open + Duration(c.frame) <= d.open
  <1>1. c.open < d.open
    BY AlignedFacts, FrameFacts DEF Rank, FinalizedAt
  <1>2. c.open + Duration(c.frame) <= d.open
    <2>1. /\ Duration(c.frame) \in Nat \ {0} /\ c.open \in Int /\ d.open \in Int
          /\ c.open % Duration(c.frame) = 0 /\ d.open % Duration(c.frame) = 0
      BY AlignedFacts, FrameFacts
    <2> QED
      BY <1>1, <2>1, Multiples
  <1> QED
    BY <1>2, AlignedFacts, FrameFacts DEF Rank, FinalizedAt
-----------------------------------------------------------------------------
(* Logs.                                                                   *)

LEMMA LogFacts ==
    ASSUME NEW log \in Seq(Candles)
    PROVE  /\ Len(log) \in Nat /\ DOMAIN log = 1..Len(log)
           /\ \A i \in DOMAIN log : log[i] \in Candles /\ log[i] \in Aligned
           /\ log # <<>> => Len(log) \in DOMAIN log
           /\ log = <<>> => DOMAIN log = {}
           /\ LastRank(log) \in Nat
           /\ \A c \in Aligned :
                Before(Cursor(log), ProcessingKey(c)) <=> LastRank(log) < Rank(c)
  <1>1. /\ Len(log) \in Nat /\ DOMAIN log = 1..Len(log)
        /\ \A i \in DOMAIN log : log[i] \in Candles /\ log[i] \in Aligned
        /\ log # <<>> => Len(log) \in DOMAIN log
        /\ log = <<>> => DOMAIN log = {}
    BY CandleFacts
  <1>2. CASE log = <<>>
    <2>1. LastRank(log) = 0 /\ Cursor(log) = <<0, 0>>
      BY <1>2 DEF LastRank, Cursor, Start
    <2>2. ASSUME NEW c \in Aligned
          PROVE  Before(<<0, 0>>, ProcessingKey(c)) /\ 0 < Rank(c)
      BY AlignedFacts DEF Before, ProcessingKey
    <2> QED
      BY <1>1, <2>1, <2>2
  <1>3. CASE log # <<>>
    <2>1. /\ log[Len(log)] \in Aligned
          /\ LastRank(log) = Rank(log[Len(log)])
          /\ Cursor(log) = ProcessingKey(log[Len(log)])
      BY <1>1, <1>3 DEF LastRank, Cursor
    <2>2. ASSUME NEW c \in Aligned
          PROVE  Before(ProcessingKey(log[Len(log)]), ProcessingKey(c))
                    <=> Rank(log[Len(log)]) < Rank(c)
      BY <2>1, RankOrder
    <2>3. LastRank(log) \in Nat
      BY <2>1, AlignedFacts
    <2> QED
      BY <1>1, <1>3, <2>1, <2>2, <2>3
  <1> QED
    BY <1>2, <1>3

\* LogOK in terms of ranks.
Rising(log) == \A i, j \in DOMAIN log : i < j => Rank(log[i]) < Rank(log[j])

Settled(log) ==
    \A i \in DOMAIN log : \/ \E m \in DOMAIN log : log[m] = Successor(log[i])
                          \/ LastRank(log) < Rank(Successor(log[i]))

LEMMA LogRanks ==
    ASSUME NEW log \in Seq(Candles)
    PROVE  LogOK(log) <=> Rising(log) /\ Settled(log)
  <1>1. \A i, j \in DOMAIN log :
          Before(ProcessingKey(log[i]), ProcessingKey(log[j])) <=> Rank(log[i]) < Rank(log[j])
    BY LogFacts, RankOrder
  <1>2. \A i \in DOMAIN log :
          Before(Cursor(log), ProcessingKey(Successor(log[i])))
            <=> LastRank(log) < Rank(Successor(log[i]))
    BY LogFacts, AlignedFacts
  <1> QED
    BY <1>1, <1>2 DEF LogOK, Rising, Settled

\* No candle of a rising log is after the last one, and ranks tell positions.
LEMMA RisingFacts ==
    ASSUME NEW log \in Seq(Candles), Rising(log)
    PROVE  /\ \A i \in DOMAIN log : Rank(log[i]) <= LastRank(log)
           /\ \A i, j \in DOMAIN log : Rank(log[i]) < Rank(log[j]) => i < j
           /\ \A i, j \in DOMAIN log : Rank(log[i]) = Rank(log[j]) => i = j
  <1>1. /\ Len(log) \in Nat /\ DOMAIN log = 1..Len(log)
        /\ \A i \in DOMAIN log : Rank(log[i]) \in Nat
    BY LogFacts, AlignedFacts
  <1>2. ASSUME NEW i \in DOMAIN log
        PROVE  Rank(log[i]) <= LastRank(log)
    <2>1. LastRank(log) = Rank(log[Len(log)]) /\ Len(log) \in DOMAIN log
      BY <1>1, <1>2, LogFacts DEF LastRank
    <2>2. i = Len(log) \/ i < Len(log)
      BY <1>1
    <2> QED
      BY <1>1, <2>1, <2>2 DEF Rising
  <1> QED
    BY <1>1, <1>2 DEF Rising

\* Every prefix of such a log is one.
LEMMA PrefixOK ==
    ASSUME NEW log \in Seq(Candles), LogOK(log), NEW pre \in Seq(Candles),
           Len(pre) <= Len(log), \A i \in DOMAIN pre : log[i] = pre[i]
    PROVE  LogOK(pre)
  <1>1. Rising(log) /\ Settled(log)
    BY LogRanks
  <1>2. /\ Len(pre) \in Nat /\ DOMAIN pre = 1..Len(pre)
        /\ Len(log) \in Nat /\ DOMAIN log = 1..Len(log)
        /\ LastRank(pre) \in Nat /\ LastRank(log) \in Nat
        /\ \A i \in DOMAIN log : log[i] \in Aligned /\ Rank(log[i]) \in Nat
                                 /\ Rank(Successor(log[i])) \in Nat
    BY LogFacts, AlignedFacts
  <1>3. Rising(pre)
    BY <1>1, <1>2 DEF Rising
  <1>4. LastRank(pre) <= LastRank(log)
    BY <1>1, <1>2, RisingFacts DEF LastRank
  <1>5. ASSUME NEW i \in DOMAIN pre
        PROVE  \/ \E m \in DOMAIN pre : pre[m] = Successor(pre[i])
               \/ LastRank(pre) < Rank(Successor(pre[i]))
    <2>1. i \in DOMAIN log /\ log[i] = pre[i]
      BY <1>2
    <2>2. CASE LastRank(log) < Rank(Successor(log[i]))
      BY <1>2, <1>4, <2>1, <2>2
    <2>3. ASSUME NEW m \in DOMAIN log, log[m] = Successor(log[i])
          PROVE  \/ \E n \in DOMAIN pre : pre[n] = Successor(pre[i])
                 \/ LastRank(pre) < Rank(Successor(pre[i]))
      <3>1. CASE m \in DOMAIN pre
        BY <2>1, <2>3, <3>1
      <3>2. CASE m \notin DOMAIN pre
        <4>1. Len(pre) \in DOMAIN log /\ Len(pre) < m /\ log[Len(pre)] = pre[Len(pre)]
          BY <1>2, <3>2
        <4>2. Rank(log[Len(pre)]) < Rank(log[m])
          BY <1>1, <4>1 DEF Rising
        <4>3. LastRank(pre) = Rank(pre[Len(pre)])
          BY <1>2 DEF LastRank
        <4> QED
          BY <2>1, <2>3, <4>1, <4>2, <4>3
      <3> QED
        BY <3>1, <3>2
    <2> QED
      BY <1>1, <2>1, <2>2, <2>3 DEF Settled
  <1> QED
    BY <1>3, <1>5, LogRanks DEF Settled

\* A candle may be appended that is after the cursor and not after any
\* successor that is still ahead of it.
LEMMA AppendOK ==
    ASSUME NEW log \in Seq(Candles), LogOK(log), NEW c \in Candles,
           LastRank(log) < Rank(c),
           \A i \in DOMAIN log :
              LastRank(log) < Rank(Successor(log[i])) =>
                 c = Successor(log[i]) \/ Rank(c) < Rank(Successor(log[i]))
    PROVE  LogOK(Append(log, c))
  <1> DEFINE new == Append(log, c)
             n == Len(log)
  <1>1. Rising(log) /\ Settled(log)
    BY LogRanks
  <1>2. /\ n \in Nat /\ DOMAIN log = 1..n
        /\ new \in Seq(Candles) /\ Len(new) = n + 1 /\ DOMAIN new = 1..n + 1
        /\ \A i \in 1..n : new[i] = log[i]
        /\ new[n + 1] = c
    BY LogFacts, AppendProperties
  <1>3. /\ c \in Aligned /\ Rank(c) \in Nat /\ Rank(c) < Rank(Successor(c))
        /\ \A i \in 1..n : Rank(log[i]) \in Nat /\ Rank(log[i]) <= LastRank(log)
        /\ LastRank(log) \in Nat
    BY <1>1, <1>2, LogFacts, CandleFacts, AlignedFacts, RisingFacts
  <1>4. LastRank(new) = Rank(c)
    BY <1>2 DEF LastRank
  <1> HIDE DEF new, n
  <1>5. Rising(new)
    BY <1>1, <1>2, <1>3 DEF Rising
  <1>6. ASSUME NEW i \in DOMAIN new
        PROVE  \/ \E m \in DOMAIN new : new[m] = Successor(new[i])
               \/ LastRank(new) < Rank(Successor(new[i]))
    <2>1. CASE i = n + 1
      BY <1>2, <1>3, <1>4, <2>1
    <2>2. CASE i # n + 1
      <3>1. i \in 1..n /\ i \in DOMAIN log /\ new[i] = log[i]
        BY <1>2, <2>2
      <3>2. CASE \E m \in DOMAIN log : log[m] = Successor(log[i])
        BY <1>2, <3>1, <3>2
      <3>3. CASE LastRank(log) < Rank(Successor(log[i]))
        <4>1. c = Successor(log[i]) \/ Rank(c) < Rank(Successor(log[i]))
          BY <3>1, <3>3
        <4>2. n + 1 \in DOMAIN new
          BY <1>2
        <4> QED
          BY <1>2, <1>4, <3>1, <4>1, <4>2
      <3> QED
        BY <1>1, <3>1, <3>2, <3>3 DEF Settled
    <2> QED
      BY <2>1, <2>2
  <1> QED
    BY <1>2, <1>5, <1>6, LogRanks DEF Settled, new
-----------------------------------------------------------------------------
(* What the properties of the durable log follow from.                     *)

LEMMA LogOKGivesNoGaps ==
    ASSUME store \in Seq(Candles), LogOK(store)
    PROVE  NoGaps
  <1>1. Rising(store) /\ Settled(store)
    BY LogRanks
  <1> SUFFICES ASSUME NEW i \in DOMAIN store, NEW j \in DOMAIN store, i < j
               PROVE  /\ Before(ProcessingKey(store[i]), ProcessingKey(store[j]))
                      /\ store[i].frame = store[j].frame =>
                          \/ store[j].open = store[i].open + Duration(store[i].frame)
                          \/ \E m \in i + 1..j - 1 : store[m].frame = store[i].frame
    BY DEF NoGaps
  <1>2. Before(ProcessingKey(store[i]), ProcessingKey(store[j]))
    BY DEF LogOK
  <1>3. ASSUME store[i].frame = store[j].frame
        PROVE  \/ store[j].open = store[i].open + Duration(store[i].frame)
               \/ \E m \in i + 1..j - 1 : store[m].frame = store[i].frame
    <2> DEFINE next == Successor(store[i])
    <2>1. /\ store[i] \in Aligned /\ store[j] \in Aligned /\ next \in Aligned
          /\ next.frame = store[i].frame
          /\ next.open = store[i].open + Duration(store[i].frame)
          /\ Rank(store[i]) < Rank(next) /\ Rank(store[i]) < Rank(store[j])
          /\ Rank(store[i]) \in Nat /\ Rank(store[j]) \in Nat /\ Rank(next) \in Nat
      BY <1>1, LogFacts, AlignedFacts DEF Rising
    <2> HIDE DEF next
    <2>2. Rank(next) <= Rank(store[j])
      BY <1>3, <2>1, SameFrame DEF next
    <2>3. ~(LastRank(store) < Rank(next))
      BY <1>1, <2>1, <2>2, RisingFacts, LogFacts
    <2>4. PICK m \in DOMAIN store : store[m] = next
      BY <1>1, <2>3 DEF Settled, next
    <2>5. CASE m = j
      BY <2>1, <2>4, <2>5
    <2>6. CASE m # j
      <3>1. i < m
        BY <1>1, <2>1, <2>4, RisingFacts
      <3>2. ~(j < m)
        BY <1>1, <2>1, <2>2, <2>4 DEF Rising
      <3>3. m \in i + 1..j - 1
        BY <2>6, <3>1, <3>2, LogFacts
      <3> QED
        BY <2>1, <2>4, <3>3
    <2> QED
      BY <2>5, <2>6
  <1> QED
    BY <1>2, <1>3

LEMMA LogOKGivesBiasComplete ==
    ASSUME store \in Seq(Candles), LogOK(store)
    PROVE  BiasComplete
  <1>1. Rising(store) /\ Settled(store)
    BY LogRanks
  <1> SUFFICES ASSUME NEW i \in DOMAIN store, NEW j \in DOMAIN store, i < j,
                      store[i].frame = "4h", store[j].frame = "15m"
               PROVE  \A open \in store[i].open..FinalizedAt(store[j]) - Ratio :
                         open % Ratio = 0 => \E m \in 1..j - 1 : store[m] = Candle("4h", open)
    BY DEF BiasComplete
  <1> DEFINE Taken(o) == \E m \in 1..j - 1 : store[m] = Candle("4h", o)
             Missing == {o \in store[i].open..FinalizedAt(store[j]) - Ratio :
                            o % Ratio = 0 /\ ~Taken(o)}
  <1>2. /\ store[i] \in Aligned /\ store[j] \in Aligned
        /\ store[i].open \in Nat /\ FinalizedAt(store[j]) \in Nat
        /\ store[i] = Candle("4h", store[i].open) /\ store[i].open % Ratio = 0
        /\ Ratio \in Nat \ {0} /\ Duration("4h") = Ratio
        /\ DOMAIN store = 1..Len(store) /\ Len(store) \in Nat
    BY LogFacts, CandleFacts, AlignedFacts, RatioAssumption DEF Duration
  <1>3. Taken(store[i].open)
    BY <1>2
  \* A taken 4h candle has its successor taken as long as that one is final.
  <1>4. ASSUME NEW o \in Nat, o % Ratio = 0, Taken(o),
               o + Ratio <= FinalizedAt(store[j]) - Ratio
        PROVE  Taken(o + Ratio)
    <2>1. PICK m \in 1..j - 1 : store[m] = Candle("4h", o)
      BY <1>4
    <2> DEFINE next == Candle("4h", o + Ratio)
    <2>2. m \in DOMAIN store /\ store[m] \in Aligned /\ Successor(store[m]) = next
      BY <1>2, <2>1, LogFacts DEF Successor, Candle
    <2>3. next \in Aligned /\ Rank(next) \in Nat
      BY <2>2, AlignedFacts
    <2>4. Rank(next) < Rank(store[j])
      BY <1>2, <1>4, SMTT(60) DEF Rank, FinalizedAt, Candle, Priority
    <2> HIDE DEF next
    <2>5. ~(LastRank(store) < Rank(next))
      <3>1. Rank(store[j]) <= LastRank(store)
        BY <1>1, RisingFacts
      <3>2. Rank(store[j]) \in Nat /\ LastRank(store) \in Nat
        BY <1>2, LogFacts, AlignedFacts
      <3> QED
        BY <2>3, <2>4, <3>1, <3>2
    <2>6. PICK n \in DOMAIN store : store[n] = next
      BY <1>1, <2>2, <2>5 DEF Settled
    <2>7. n < j
      BY <1>1, <2>4, <2>6, RisingFacts
    <2>8. n \in 1..j - 1
      BY <1>2, <2>7
    <2> QED
      BY <2>6, <2>8 DEF next
  <1>5. Missing = {}
    <2> SUFFICES ASSUME Missing # {}
                 PROVE  FALSE
      OBVIOUS
    <2> HIDE DEF Taken
    <2>1. Missing \subseteq Nat
      BY <1>2
    <2>2. PICK o \in Missing : \A p \in Missing : o <= p
      <3> HIDE DEF Missing
      <3> QED
        BY <2>1, LeastNat
    <2>3. /\ o \in Nat /\ o % Ratio = 0 /\ ~Taken(o)
          /\ store[i].open <= o /\ o <= FinalizedAt(store[j]) - Ratio
      BY <1>2
    <2>4. o # store[i].open
      BY <1>3, <2>3
    <2>5. store[i].open + Ratio <= o /\ (o - Ratio) % Ratio = 0
      BY <1>2, <2>3, <2>4, Multiples
    <2>6. /\ o - Ratio \in Nat /\ o - Ratio \notin Missing
          /\ o - Ratio \in store[i].open..FinalizedAt(store[j]) - Ratio
      <3>1. /\ o - Ratio \in Nat
            /\ o - Ratio \in store[i].open..FinalizedAt(store[j]) - Ratio
        BY <1>2, <2>3, <2>5
      <3>2. ~(o <= o - Ratio)
        BY <1>2, <2>3
      <3> HIDE DEF Missing
      <3> QED
        BY <2>2, <3>1, <3>2
    <2>7. Taken(o - Ratio)
      BY <2>5, <2>6
    <2>8. Taken((o - Ratio) + Ratio)
      BY <1>2, <1>4, <2>3, <2>5, <2>6, <2>7
    <2>9. (o - Ratio) + Ratio = o
      BY <1>2, <2>3
    <2> QED
      BY <2>3, <2>8, <2>9
  <1> QED
    BY <1>5

-----------------------------------------------------------------------------
(* What a poll processes next.                                             *)

LEMMA EarliestIs ==
    ASSUME NEW candles \in SUBSET Candles, candles # {}
    PROVE  /\ Earliest(candles) \in candles
           /\ \A d \in candles : Earliest(candles) = d \/ Rank(Earliest(candles)) < Rank(d)
  <1> DEFINE Ranks == {Rank(c) : c \in candles}
  <1>1. candles \subseteq Aligned /\ \A c \in candles : Rank(c) \in Nat
    BY CandleFacts, AlignedFacts
  <1>2. Ranks \subseteq Nat /\ Ranks # {}
    BY <1>1
  <1>3. PICK r \in Ranks : \A q \in Ranks : r <= q
    <2> HIDE DEF Ranks
    <2> QED
      BY <1>2, LeastNat
  <1>4. PICK c \in candles : \A d \in candles : Rank(c) <= Rank(d)
    BY <1>3
  <1>5. \A d \in candles : c = d \/ Before(ProcessingKey(c), ProcessingKey(d))
    BY <1>1, <1>4, RankOrder
  <1>6. /\ Earliest(candles) \in candles
        /\ \A d \in candles : \/ Earliest(candles) = d
                              \/ Before(ProcessingKey(Earliest(candles)), ProcessingKey(d))
    BY <1>5 DEF Earliest
  <1> QED
    BY <1>1, <1>6, RankOrder
-----------------------------------------------------------------------------
(* What a poll asks for.                                                   *)

\* The last final candle is the last multiple that is final.
LEMMA LatestFacts ==
    ASSUME NEW f \in Frames, NEW at \in Nat
    PROVE  /\ Latest(f, at) \in Int /\ Latest(f, at) % Duration(f) = 0
           /\ Latest(f, at) < at
           /\ \A o \in Int : o % Duration(f) = 0 =>
                (o <= Latest(f, at) <=> o + Duration(f) <= at)
  <1> DEFINE d == Duration(f)
             m == (at \div d) * d
  <1>1. d \in Nat \ {0}
    BY FrameFacts
  <1>3. Latest(f, at) = m - d
    BY DEF Latest, CurrentOpen
  <1> HIDE DEF d
  <1>2. m \in Int /\ m % d = 0 /\ m <= at /\ at < m + d
    BY <1>1, FloorOf
  <1> HIDE DEF m
  <1>4. (m - d) % d = 0 /\ m - d \in Int
    <2>1. m \in Int /\ m % d = 0
      BY <1>2
    <2>2. (m - d) % d = 0
      BY <1>1, <2>1, Shift, Zenon
    <2> QED
      BY <1>1, <2>1, <2>2
  <1>5. ASSUME NEW o \in Int, o % d = 0
        PROVE  o <= m - d <=> o + d <= at
    <2>1. m - d < o => (m - d) + d <= o
      BY <1>1, <1>4, <1>5, Multiples
    <2>2. m < o + d => m + d <= o + d
      <3>1. (o + d) % d = 0
        BY <1>1, <1>5, Shift, Zenon
      <3>2. m \in Int /\ m % d = 0 /\ o + d \in Int
        BY <1>1, <1>2, <1>5
      <3> QED
        BY <1>1, <3>1, <3>2, Multiples
    <2> QED
      BY <1>1, <1>2, <1>5, <2>1, <2>2
  <1> QED
    BY <1>1, <1>2, <1>3, <1>4, <1>5 DEF d

\* No candle that is ahead of the cursor is older than first_unconsumed_open.
LEMMA FirstUnconsumedFacts ==
    ASSUME NEW f \in Frames, NEW log \in Seq(Candles)
    PROVE  /\ FirstUnconsumedOpen(f, Cursor(log)) \in Nat
           /\ \A o \in Nat :
                (o % Duration(f) = 0 /\ Before(Cursor(log), ProcessingKey(Candle(f, o))))
                   => FirstUnconsumedOpen(f, Cursor(log)) <= o
  <1> DEFINE cursor == Cursor(log)
             d == Duration(f)
             b == ((cursor[1] + d - 1) \div d) * d
             final == IF b = cursor[1] /\ Priority(f) <= cursor[2] THEN b + d ELSE b
  <1>1. d \in Nat \ {0} /\ Priority(f) \in {0, 1}
    BY FrameFacts
  <1>2. CASE cursor = Start
    BY <1>2 DEF FirstUnconsumedOpen
  <1>3. CASE cursor # Start
    <2>1. log # <<>>
      BY <1>3 DEF Cursor
    <2>2. /\ cursor[1] \in Nat \ {0} /\ cursor[2] \in {0, 1}
      BY <2>1, LogFacts, AlignedFacts, FrameFacts DEF Cursor, ProcessingKey
    <2>3. FirstUnconsumedOpen(f, cursor) = Larger(0, final - d)
      BY <1>3 DEF FirstUnconsumedOpen
    <2> HIDE DEF cursor, d
    <2>4. /\ b \in Int /\ b % d = 0 /\ b <= cursor[1] + d - 1 /\ cursor[1] + d - 1 < b + d
      <3>1. cursor[1] + d - 1 \in Int
        BY <1>1, <2>2
      <3> QED
        BY <1>1, <3>1, FloorOf
    <2> HIDE DEF b
    <2>5. final \in Int
      BY <1>1, <2>2, <2>4
    <2>6. ASSUME NEW o \in Nat, o % d = 0, Before(cursor, ProcessingKey(Candle(f, o)))
          PROVE  final - d <= o
      <3>1. \/ cursor[1] < o + d
            \/ cursor[1] = o + d /\ cursor[2] < Priority(f)
        BY <2>6 DEF Before, ProcessingKey, FinalizedAt, Candle, d
      <3>2. (o + d) % d = 0 /\ o + d \in Int
        <4>1. o \in Int
          OBVIOUS
        <4>2. (o + d) % d = 0
          BY <1>1, <2>6, <4>1, Shift, Zenon
        <4> QED
          BY <1>1, <4>2
      <3>3. b < o + d => b + d <= o + d
        BY <1>1, <2>4, <3>2, Multiples
      <3>4. o + d < b => (o + d) + d <= b
        BY <1>1, <2>4, <3>2, Multiples
      <3> QED
        BY <1>1, <2>2, <2>4, <2>6, <3>1, <3>2, <3>3, <3>4
    <2> HIDE DEF final
    <2> QED
      BY <1>1, <2>3, <2>5, <2>6 DEF Larger, cursor, d
  <1> QED
    BY <1>2, <1>3

\* What a fetch returns: final candles up to the last one, from early enough.
LEMMA RequestedFacts ==
    ASSUME IInv, NEW f \in Frames, poll.pc = f
    PROVE  /\ Requested(f) \subseteq Candles
           /\ \A c \in Requested(f) :
                /\ c.frame = f /\ FinalizedAt(c) <= poll.at
                /\ Successor(c) \in Requested(f) \/ FinalizedAt(Successor(c)) > poll.at
           /\ \A i \in DOMAIN mem.log :
                (/\ mem.log[i].frame = f
                 /\ Before(Cursor(mem.log), ProcessingKey(Successor(mem.log[i]))))
                => \/ Successor(mem.log[i]) \in Requested(f)
                   \/ FinalizedAt(Successor(mem.log[i])) > poll.at
           /\ Opens(f) # {} => First(f) \in 0..Horizon
  <1> DEFINE d == Duration(f)
             last == Latest(f, poll.at)
  <1>1. /\ poll.at \in 0..Horizon /\ poll.at \in Nat /\ Horizon \in Nat
        /\ mem.log \in Seq(Candles) /\ mem.bootstrap \in BOOLEAN
        /\ mem.log # <<>> => ~mem.bootstrap
    BY BoundsAssumption DEF IInv, Held, TypeOK, Frames
  <1>2. d \in Nat \ {0} /\ last \in Int /\ last % d = 0 /\ last < poll.at
        /\ \A o \in Int : o % d = 0 => (o <= last <=> o + d <= poll.at)
    BY <1>1, FrameFacts, LatestFacts
  <1>3. First(f) \in Int /\ (last >= 0 => 0 <= First(f))
    <2>1. CASE mem.bootstrap
      <3>1. BootstrapCount(f) \in Nat
        BY SettingsAssumption DEF IInv, TypeOK, LegalSetting, BootstrapCount
      <3>2. (BootstrapCount(f) - 1) * d \in Int
        BY <1>2, <3>1
      <3> QED
        BY <1>2, <2>1, <3>2 DEF First, BootstrapFirst, Larger
    <2>2. CASE ~mem.bootstrap
      <3>1. FirstUnconsumedOpen(f, Cursor(mem.log)) \in Nat
        BY <1>1, FirstUnconsumedFacts
      <3> QED
        BY <1>2, <2>2, <3>1 DEF First, ResumeFirst, Larger
    <2> QED
      BY <1>1, <2>1, <2>2
  <1>4. ASSUME NEW o \in Nat, o % d = 0, mem.log # <<>>,
               Before(Cursor(mem.log), ProcessingKey(Candle(f, o))), o <= last
        PROVE  First(f) <= o
    <2>1. FirstUnconsumedOpen(f, Cursor(mem.log)) <= o
          /\ FirstUnconsumedOpen(f, Cursor(mem.log)) \in Nat
      BY <1>1, <1>4, FirstUnconsumedFacts
    <2> QED
      BY <1>1, <1>2, <1>4, <2>1 DEF First, ResumeFirst, Larger
  <1>5. \A o \in Int : o \in Opens(f) <=> last >= 0 /\ First(f) <= o /\ o <= last /\ o % d = 0
    BY <1>2, <1>3 DEF Opens
  <1>6. \A c : c \in Requested(f) <=> \E o \in Int : o \in Opens(f) /\ c = Candle(f, o)
    BY <1>2, <1>3 DEF Requested, Opens
  <1> HIDE DEF d, last
  <1>7. ASSUME NEW c \in Requested(f)
        PROVE  /\ c \in Candles /\ c.frame = f /\ FinalizedAt(c) <= poll.at
               /\ Successor(c) \in Requested(f) \/ FinalizedAt(Successor(c)) > poll.at
    <2>1. PICK o \in Int : o \in Opens(f) /\ c = Candle(f, o)
      BY <1>6
    <2>2. last >= 0 /\ First(f) <= o /\ o <= last /\ o % d = 0 /\ 0 <= o
      BY <1>2, <1>3, <1>5, <2>1
    <2>3. c \in Candles /\ c.frame = f /\ c.open = o
      BY <1>1, <1>2, <2>1, <2>2, CandleFacts DEF Candle, d
    <2>4. FinalizedAt(c) <= poll.at
      BY <1>2, <2>2, <2>3 DEF FinalizedAt, d
    <2>5. (o + d) % d = 0 /\ o + d \in Int /\ Successor(c) = Candle(f, o + d)
      BY <1>2, <2>2, <2>3, Shift DEF Successor, d
    <2>6. CASE o + d <= last
      <3>1. o + d \in Opens(f)
        BY <1>2, <1>3, <1>5, <2>2, <2>5, <2>6
      <3> QED
        BY <1>6, <2>3, <2>4, <2>5, <3>1
    <2>7. CASE ~(o + d <= last)
      <3>1. (o + d) + d > poll.at
        BY <1>1, <1>2, <2>5, <2>7
      <3> QED
        BY <2>3, <2>4, <2>5, <3>1 DEF FinalizedAt, Candle, d
    <2> QED
      BY <2>6, <2>7
  <1>8. ASSUME NEW i \in DOMAIN mem.log, mem.log[i].frame = f,
               Before(Cursor(mem.log), ProcessingKey(Successor(mem.log[i])))
        PROVE  \/ Successor(mem.log[i]) \in Requested(f)
               \/ FinalizedAt(Successor(mem.log[i])) > poll.at
    <2> DEFINE o == mem.log[i].open + d
    <2>1. /\ mem.log[i] \in Aligned /\ mem.log # <<>>
      BY <1>1, LogFacts
    <2>2. /\ o \in Nat /\ o % d = 0 /\ Successor(mem.log[i]) = Candle(f, o)
      BY <1>8, <2>1, AlignedFacts DEF Successor, d
    <2> HIDE DEF o
    <2>3. CASE o <= last
      <3>1. First(f) <= o
        BY <1>4, <1>8, <2>1, <2>2, <2>3
      <3>2. last >= 0
        BY <1>2, <2>2, <2>3
      <3> QED
        BY <1>5, <1>6, <2>2, <2>3, <3>1, <3>2
    <2>4. CASE ~(o <= last)
      <3>1. o + d > poll.at
        BY <1>1, <1>2, <2>2, <2>4
      <3> QED
        BY <2>2, <3>1 DEF FinalizedAt, Candle, d
    <2> QED
      BY <2>3, <2>4
  <1>9. ASSUME Opens(f) # {}
        PROVE  First(f) \in 0..Horizon
    <2>1. PICK o \in Int : o \in Opens(f)
      BY <1>9, <1>2, <1>3 DEF Opens
    <2> QED
      BY <1>1, <1>2, <1>3, <1>5, <2>1
  <1> QED
    BY <1>7, <1>8, <1>9
-----------------------------------------------------------------------------
(* The steps.                                                              *)

LEMMA MembersAppend ==
    ASSUME NEW log \in Seq(Candles), NEW c \in Candles
    PROVE  Members(Append(log, c)) = Members(log) \cup {c}
  <1> DEFINE new == Append(log, c)
  <1>1. /\ Len(log) \in Nat /\ DOMAIN log = 1..Len(log) /\ DOMAIN new = 1..Len(log) + 1
        /\ \A i \in 1..Len(log) : new[i] = log[i]
        /\ new[Len(log) + 1] = c
    BY AppendProperties, LogFacts
  <1> HIDE DEF new
  <1>2. Members(new) \subseteq Members(log) \cup {c}
    BY <1>1 DEF Members
  <1>3. Members(log) \cup {c} \subseteq Members(new)
    BY <1>1 DEF Members
  <1> QED
    BY <1>2, <1>3 DEF new

LEMMA InitIInv == Init => IInv
  <1> SUFFICES ASSUME Init
               PROVE  IInv
    OBVIOUS
  <1>1. /\ store = <<>> /\ mem = Unloaded /\ poll = Idle /\ delivered = {}
        /\ setting \in Settings /\ now \in 0..Horizon /\ window = -1 /\ faults = 0
    BY DEF Init
  <1>2. mem.log = <<>> /\ mem.loaded = FALSE /\ mem.bootstrap = FALSE
        /\ poll.pc = "idle" /\ poll.at = 0 /\ poll.batch = {} /\ poll.done = <<>>
    BY <1>1 DEF Unloaded, Idle
  <1>3. 0 \in 0..Horizon /\ -1 \in -1..Horizon /\ 0 \in 0..MaxFaults
    BY BoundsAssumption
  <1>4. <<>> \in Seq(Candles)
    OBVIOUS
  <1>5. TypeOK
    BY <1>1, <1>2, <1>3, <1>4 DEF TypeOK
  <1>6. Records
    BY <1>1, <1>3, <1>4 DEF Unloaded, Idle, Records
  <1>7. LogOK(store) /\ BatchOK /\ Covered
    BY <1>1, <1>2 DEF LogOK, BatchOK, Covered
  <1>8. Held
    BY <1>1, <1>2 DEF Held, IsPrefixOf, Members
  <1> QED
    BY <1>5, <1>6, <1>7, <1>8 DEF IInv

\* The clock moves, or nothing does.
LEMMA ClockStep ==
    ASSUME IInv, UNCHANGED <<setting, store, mem, poll, delivered, window>>,
           now' \in 0..Horizon, faults' \in 0..MaxFaults
    PROVE  IInv'
  <1>1. TypeOK' /\ Records'
    BY DEF IInv, TypeOK, Records
  <1>2. LogOK(store)'
    BY DEF IInv, LogOK, Cursor
  <1>3. Held'
    BY DEF IInv, Held, IsPrefixOf, Members
  <1>4. BatchOK' /\ Covered'
    BY DEF IInv, BatchOK, Covered, Fetched, Cursor
  <1> QED
    BY <1>1, <1>2, <1>3, <1>4 DEF IInv

LEMMA TickStep ==
    ASSUME IInv, Tick \/ SetBack
    PROVE  IInv' /\ store' = store
  <1>1. UNCHANGED <<setting, store, mem, poll, delivered, window>>
    BY DEF Tick, SetBack
  <1>2. now' \in 0..Horizon /\ faults' \in 0..MaxFaults
    BY BoundsAssumption DEF IInv, TypeOK, Tick, SetBack, Fault
  <1> QED
    BY <1>1, <1>2, ClockStep

\* A poll that holds no batch has nothing to be wrong about.
LEMMA NoBatch ==
    ASSUME poll'.batch = {}, poll'.pc \in {"idle", "15m"}
    PROVE  BatchOK' /\ Covered'
  BY DEF BatchOK, Covered, Fetched

LEMMA FaultCounts ==
    ASSUME IInv, NEW kind, Fault(kind)
    PROVE  faults' \in 0..MaxFaults
  BY BoundsAssumption DEF IInv, TypeOK, Fault

LEMMA BeginStep ==
    ASSUME IInv, Begin
    PROVE  IInv' /\ store' = store
  <1> DEFINE fresh == [loaded |-> TRUE, log |-> store, bootstrap |-> store = <<>>]
  <1>1. /\ UNCHANGED <<setting, now, store, delivered, window, faults>>
        /\ poll' = [pc |-> "15m", at |-> now, batch |-> {}, done |-> <<>>]
        /\ mem' = IF mem.loaded THEN mem ELSE fresh
        /\ poll.pc = "idle"
    BY DEF Begin, Idle
  <1>2. poll'.pc = "15m" /\ poll'.at = now /\ poll'.batch = {} /\ poll'.done = <<>>
    BY <1>1
  <1>3. mem' \in [loaded: BOOLEAN, log: Seq(Candles), bootstrap: BOOLEAN]
    BY <1>1 DEF IInv, TypeOK, Records
  <1>4. TypeOK'
    <2>1. mem'.loaded \in BOOLEAN /\ mem'.bootstrap \in BOOLEAN /\ mem'.log \in Seq(Candles)
      BY <1>3
    <2>2. TypeOK
      BY DEF IInv
    <2>3. <<>> \in Seq(Candles)
      OBVIOUS
    <2> QED
      BY <1>1, <1>2, <2>1, <2>2, <2>3 DEF TypeOK
  <1>5. Records'
    BY <1>1, <1>3 DEF IInv, TypeOK, Records
  <1>6. BatchOK' /\ Covered'
    BY <1>2, NoBatch
  <1>7. LogOK(store)'
    BY <1>1 DEF IInv, LogOK, Cursor
  <1>8. CASE mem.loaded
    <2>1. mem' = mem /\ store' = store /\ delivered' = delivered /\ poll.done = <<>>
      BY <1>1, <1>8 DEF IInv, Held
    <2>2. Held'
      BY <1>2, <1>8, <2>1 DEF IInv, Held, IsPrefixOf, Members
    <2> QED
      BY <1>1, <1>4, <1>5, <1>6, <1>7, <2>2 DEF IInv
  <1>9. CASE ~mem.loaded
    <2>1. /\ mem'.loaded = TRUE /\ mem'.log = store /\ mem'.bootstrap = (store = <<>>)
          /\ store' = store /\ delivered' = delivered
      BY <1>1, <1>9
    <2>2. Len(store) \in Nat
      BY LogFacts DEF IInv, TypeOK
    <2>3. delivered \subseteq Members(store)
      BY <1>9 DEF IInv, Held
    <2>4. Members(<<>>) = {}
      BY DEF Members
    <2>5. IsPrefixOf(mem.log, store)' /\ Len(store)' <= Len(mem'.log) + 1
      BY <2>1, <2>2 DEF IsPrefixOf
    <2>6. Members(poll.done)' = {} /\ delivered' \subseteq Members(mem'.log)
      BY <1>2, <2>1, <2>3, <2>4 DEF Members
    <2>7. Members(IF mem.loaded THEN mem.log ELSE store)' = Members(mem.log)'
      BY <2>1
    <2>8. Members(mem.log)' = Members(mem'.log)
      BY DEF Members
    <2>9. Held'
      BY <1>2, <2>1, <2>5, <2>6, <2>7, <2>8 DEF Held
    <2> QED
      BY <1>1, <1>4, <1>5, <1>6, <1>7, <2>9 DEF IInv
  <1> QED
    BY <1>1, <1>8, <1>9
LEMMA FetchStep ==
    ASSUME IInv, NEW f \in Frames, Fetch(f)
    PROVE  IInv' /\ store' = store
  <1>1. /\ UNCHANGED <<setting, now, store, mem, delivered, faults>>
        /\ poll.pc = f
        /\ poll' = [poll EXCEPT !.pc = IF f = "15m" THEN "4h" ELSE "process",
                                !.batch = @ \cup Requested(f)]
        /\ window' = window \/ (window' = First(f) /\ Opens(f) # {})
    BY DEF Fetch
  <1>2. TypeOK /\ Records /\ LogOK(store) /\ Held /\ BatchOK /\ Covered
    BY DEF IInv
  <1>3. /\ Requested(f) \subseteq Candles
        /\ \A c \in Requested(f) :
              /\ FinalizedAt(c) <= poll.at
              /\ Successor(c) \in Requested(f) \/ FinalizedAt(Successor(c)) > poll.at
        /\ Opens(f) # {} => First(f) \in 0..Horizon
    BY <1>1, RequestedFacts
  <1>4. \A i \in DOMAIN mem.log :
          (/\ mem.log[i].frame = f
           /\ Before(Cursor(mem.log), ProcessingKey(Successor(mem.log[i]))))
          => \/ Successor(mem.log[i]) \in Requested(f)
             \/ FinalizedAt(Successor(mem.log[i])) > poll.at
    BY <1>1, RequestedFacts
  <1> HIDE DEF IInv
  <1>5. /\ poll'.pc = IF f = "15m" THEN "4h" ELSE "process"
        /\ poll'.at = poll.at /\ poll'.done = poll.done
        /\ poll'.batch = poll.batch \cup Requested(f)
    BY <1>1, <1>2 DEF Records
  <1>6. Records'
    <2>1. poll'.pc \in {"idle", "15m", "4h", "process"} /\ poll'.batch \in SUBSET Candles
      BY <1>2, <1>3, <1>5 DEF Records
    <2> QED
      BY <1>1, <1>2, <1>5, <2>1 DEF Records
  <1>7. window' \in -1..Horizon
    BY <1>1, <1>2, <1>3 DEF TypeOK
  <1>8. TypeOK'
    BY <1>1, <1>2, <1>3, <1>5, <1>7 DEF TypeOK
  <1>9. LogOK(store)'
    BY <1>1, <1>2 DEF LogOK, Cursor
  <1>10. Held'
    <2>1. poll.done = <<>> /\ mem.loaded
      BY <1>1, <1>2 DEF Held, Frames
    <2> QED
      BY <1>1, <1>2, <1>5, <2>1 DEF Held, IsPrefixOf, Members
  <1>11. BatchOK'
    BY <1>2, <1>3, <1>5 DEF BatchOK
  <1>12. Covered'
    <2>1. \A g \in Fetched' : g \in Fetched \/ g = f
      BY <1>1, <1>5 DEF Fetched, Frames
    <2> QED
      BY <1>1, <1>2, <1>4, <1>5, <2>1 DEF Covered
  <1> QED
    BY <1>1, <1>6, <1>8, <1>9, <1>10, <1>11, <1>12 DEF IInv

\* The poll ends: memory keeps its log, and the disk may be one candle ahead.
LEMMA EndStep ==
    ASSUME IInv, poll' = Idle, UNCHANGED <<setting, now, window>>,
           faults' \in 0..MaxFaults, mem' = [mem EXCEPT !.bootstrap = @ /\ poll.done = <<>>],
           store' \in Seq(Candles), LogOK(store'), IsPrefixOf(mem.log, store'),
           mem.loaded => Len(store') <= Len(mem.log) + 1,
           delivered' \subseteq Candles, delivered' \subseteq Members(mem.log), mem.loaded
    PROVE  IInv'
  <1>1. TypeOK /\ Records /\ LogOK(store) /\ Held
    BY DEF IInv
  <1>2. poll'.pc = "idle" /\ poll'.at = 0 /\ poll'.batch = {} /\ poll'.done = <<>>
    BY DEF Idle
  <1>3. 0 \in 0..Horizon /\ <<>> \in Seq(Candles)
    BY BoundsAssumption
  <1>4. /\ mem' \in [loaded: BOOLEAN, log: Seq(Candles), bootstrap: BOOLEAN]
        /\ mem'.loaded = mem.loaded /\ mem'.log = mem.log
        /\ mem'.bootstrap = (mem.bootstrap /\ poll.done = <<>>)
    BY <1>1 DEF Records
  <1> HIDE DEF IInv
  <1>5. Records'
    BY <1>3, <1>4 DEF Records, Idle
  <1>6. TypeOK'
    BY <1>1, <1>2, <1>3, <1>4 DEF TypeOK
  <1>7. LogOK(store)'
    BY DEF LogOK, Cursor
  <1>8. Held'
    <2>1. IsPrefixOf(mem.log, store)'
      BY <1>4 DEF IsPrefixOf
    <2>2. Members(IF mem.loaded THEN mem.log ELSE store)' = Members(mem.log)
      BY <1>4 DEF Members
    <2>3. Members(poll.done)' = {}
      BY <1>2 DEF Members
    <2> QED
      BY <1>1, <1>2, <1>4, <2>1, <2>2, <2>3 DEF Held
  <1> QED
    BY <1>2, <1>5, <1>6, <1>7, <1>8, NoBatch DEF IInv

\* The poll ends before the store was touched.
LEMMA DropStep ==
    ASSUME IInv, poll' = Idle, UNCHANGED <<setting, now, store, delivered, window>>,
           faults' \in 0..MaxFaults, mem' = [mem EXCEPT !.bootstrap = @ /\ poll.done = <<>>],
           mem.loaded
    PROVE  IInv'
  <1>1. /\ store \in Seq(Candles) /\ LogOK(store) /\ IsPrefixOf(mem.log, store)
        /\ Len(store) <= Len(mem.log) + 1
        /\ delivered \subseteq Candles /\ delivered \subseteq Members(mem.log)
    BY DEF IInv, TypeOK, Held
  <1>2. store' = store /\ delivered' = delivered
    OBVIOUS
  <1> QED
    BY <1>1, <1>2, EndStep

LEMMA FetchAbandoned ==
    ASSUME IInv, NEW f \in Frames, TooFarBehind(f) \/ FetchFails(f)
    PROVE  IInv' /\ store' = store
  <1>1. /\ UNCHANGED <<setting, now, store, mem, delivered, window>>
        /\ poll.pc = f /\ poll' = Idle
    BY DEF TooFarBehind, FetchFails
  <1>2. faults' \in 0..MaxFaults
    BY FaultCounts DEF IInv, TypeOK, TooFarBehind, FetchFails
  <1>3. poll.done = <<>> /\ Records /\ mem.loaded
    BY <1>1 DEF IInv, Held, Frames
  <1>4. mem = [mem EXCEPT !.bootstrap = @ /\ poll.done = <<>>]
    BY <1>3 DEF Records
  <1> QED
    BY <1>1, <1>2, <1>3, <1>4, DropStep

LEMMA CrashStep ==
    ASSUME IInv, Crash
    PROVE  IInv' /\ store' = store
  <1>1. TypeOK /\ Records /\ LogOK(store) /\ Held /\ mem.loaded
    BY DEF IInv, Crash
  <1>2. /\ UNCHANGED <<setting, now, store, delivered, window>>
        /\ mem' = Unloaded /\ poll' = Idle
    BY DEF Crash
  <1>3. poll'.pc = "idle" /\ poll'.at = 0 /\ poll'.batch = {} /\ poll'.done = <<>>
        /\ mem'.loaded = FALSE /\ mem'.log = <<>> /\ mem'.bootstrap = FALSE
    BY <1>2 DEF Idle, Unloaded
  <1>4. 0 \in 0..Horizon /\ <<>> \in Seq(Candles)
    BY BoundsAssumption
  <1>5. faults' \in 0..MaxFaults
    BY FaultCounts DEF Crash
  <1> HIDE DEF IInv
  <1>6. Records'
    BY <1>2, <1>4 DEF Records, Idle, Unloaded
  <1>7. TypeOK'
    BY <1>1, <1>2, <1>3, <1>4, <1>5 DEF TypeOK
  <1>8. LogOK(store)'
    BY <1>1, <1>2 DEF LogOK, Cursor
  <1>9. Held'
    <2>1. Members(mem.log) \subseteq Members(store)
      BY <1>1, LogFacts, SMTT(60) DEF Held, IsPrefixOf, Members, TypeOK
    <2>2. delivered' \subseteq Members(store)'
      BY <1>1, <1>2, <2>1 DEF Held, Members
    <2>3. IsPrefixOf(mem.log, store)'
      BY <1>1, <1>2, <1>3, LogFacts DEF IsPrefixOf, TypeOK
    <2>4. Members(poll.done)' \subseteq Members(mem.log)'
      BY <1>3 DEF Members
    <2>5. Members(IF mem.loaded THEN mem.log ELSE store)' = Members(store)'
      BY <1>3
    <2> QED
      BY <1>3, <2>2, <2>3, <2>4, <2>5 DEF Held
  <1> QED
    BY <1>2, <1>3, <1>6, <1>7, <1>8, <1>9, NoBatch DEF IInv
\* The candle that comes next continues the log that memory holds.
LEMMA ChosenFacts ==
    ASSUME IInv, Processing
    PROVE  LET c == Earliest(Remaining)
           IN  /\ c \in Candles /\ c \in poll.batch
               /\ LastRank(mem.log) < Rank(c)
               /\ FinalizedAt(c) <= poll.at
               /\ LogOK(Append(mem.log, c))
  <1> DEFINE c == Earliest(Remaining)
             log == mem.log
  <1>1. TypeOK /\ LogOK(store) /\ Held /\ BatchOK /\ Covered /\ poll.pc = "process"
        /\ Remaining # {}
    BY DEF IInv, Processing
  <1> HIDE DEF IInv
  <1>2. log \in Seq(Candles) /\ store \in Seq(Candles) /\ poll.at \in Nat
        /\ poll.batch \subseteq Candles /\ Len(log) <= Len(store)
        /\ \A i \in DOMAIN log : store[i] = log[i]
    BY <1>1, BoundsAssumption DEF TypeOK, Held, IsPrefixOf
  <1>3. /\ c \in Remaining
        /\ \A d \in Remaining : c = d \/ Rank(c) < Rank(d)
    BY <1>1, <1>2, EarliestIs DEF Remaining
  <1> HIDE DEF c
  <1>4. c \in Candles /\ c \in poll.batch /\ c \in Aligned /\ LastRank(log) < Rank(c)
    BY <1>2, <1>3, LogFacts, CandleFacts DEF Remaining
  <1>5. FinalizedAt(c) <= poll.at
    BY <1>1, <1>4 DEF BatchOK
  <1>6. LogOK(log)
    BY <1>1, <1>2, PrefixOK
  <1>7. ASSUME NEW i \in DOMAIN log, LastRank(log) < Rank(Successor(log[i]))
        PROVE  c = Successor(log[i]) \/ Rank(c) < Rank(Successor(log[i]))
    <2> DEFINE d == Successor(log[i])
    <2>1. log[i] \in Aligned /\ d \in Aligned /\ log[i].frame \in Frames
      BY <1>2, LogFacts, AlignedFacts
    <2>2. Before(Cursor(log), ProcessingKey(d))
      BY <1>2, <1>7, <2>1, LogFacts
    <2>3. d \in poll.batch \/ FinalizedAt(d) > poll.at
      BY <1>1, <2>1, <2>2 DEF Covered, Fetched
    <2> HIDE DEF d
    <2>4. CASE d \in poll.batch
      <3>1. d \in Remaining
        BY <2>2, <2>4 DEF Remaining
      <3> QED
        BY <1>3, <3>1 DEF d
    <2>5. CASE FinalizedAt(d) > poll.at
      <3>1. FinalizedAt(c) \in Nat /\ FinalizedAt(d) \in Nat
        BY <1>4, <2>1, AlignedFacts
      <3>2. FinalizedAt(c) < FinalizedAt(d)
        BY <1>2, <1>5, <2>5, <3>1
      <3> QED
        BY <1>4, <2>1, <3>2, RankOrder DEF d
    <2> QED
      BY <2>3, <2>4, <2>5
  <1>8. LogOK(Append(log, c))
    BY <1>2, <1>4, <1>6, <1>7, AppendOK
  <1> QED
    BY <1>4, <1>5, <1>8 DEF c

\* What a step may append: one candle, final at the poll's clock reading.
Appends(c) == store' = Append(mem.log, c) /\ c \in Candles /\ FinalizedAt(c) <= poll.at

LEMMA SaveStep ==
    ASSUME IInv, Save
    PROVE  IInv' /\ Appends(Earliest(Remaining))
  <1> DEFINE c == Earliest(Remaining)
             log == mem.log
             new == Append(log, c)
  <1>1. /\ UNCHANGED <<setting, now, delivered, window, faults>> /\ Processing
        /\ store' = new /\ mem' = [mem EXCEPT !.log = new]
        /\ poll' = [poll EXCEPT !.done = Append(@, c)]
    BY DEF Save
  <1>2. TypeOK /\ Records /\ Held /\ BatchOK /\ Covered
        /\ poll.pc = "process"
    BY <1>1 DEF IInv, Processing
  <1>3. /\ c \in Candles /\ c \in poll.batch /\ LastRank(log) < Rank(c)
        /\ FinalizedAt(c) <= poll.at /\ LogOK(new)
    BY <1>1, ChosenFacts
  <1> HIDE DEF IInv, c
  <1>4. log \in Seq(Candles) /\ poll.done \in Seq(Candles) /\ mem.loaded /\ poll.batch \subseteq Candles
    BY <1>2 DEF TypeOK, Held
  <1>5. /\ new \in Seq(Candles) /\ Len(new) = Len(log) + 1 /\ new # <<>>
        /\ DOMAIN log = 1..Len(log) /\ DOMAIN new = 1..Len(log) + 1
        /\ \A i \in 1..Len(log) : new[i] = log[i]
        /\ new[Len(log) + 1] = c /\ Len(log) \in Nat
    BY <1>3, <1>4, AppendProperties, LogFacts
  <1>6. /\ Append(poll.done, c) \in Seq(Candles) /\ Append(poll.done, c) # <<>>
    BY <1>3, <1>4, AppendProperties
  <1> HIDE DEF new
  <1>7. /\ mem'.loaded = TRUE /\ mem'.log = new /\ mem'.bootstrap = mem.bootstrap
        /\ poll'.pc = "process" /\ poll'.at = poll.at /\ poll'.batch = poll.batch
        /\ poll'.done = Append(poll.done, c)
    BY <1>1, <1>2, <1>4 DEF Records
  <1>8. Records'
    BY <1>1, <1>2, <1>5, <1>6 DEF Records
  <1>9. TypeOK'
    BY <1>1, <1>2, <1>5, <1>6, <1>7 DEF TypeOK
  <1>10. LogOK(store)'
    BY <1>1, <1>3 DEF LogOK, Cursor
  <1>11. Held'
    <2>1. Members(new) = Members(log) \cup {c} /\ Members(poll'.done) = Members(poll.done) \cup {c}
      BY <1>3, <1>4, <1>7, MembersAppend DEF new
    <2>2. /\ Members(poll.done)' = Members(poll'.done) /\ Members(mem.log)' = Members(new)
          /\ Members(IF mem.loaded THEN mem.log ELSE store)' = Members(new)
      BY <1>7 DEF Members
    <2>3. /\ Members(poll.done)' \subseteq Members(mem.log)'
          /\ delivered' \subseteq Members(IF mem.loaded THEN mem.log ELSE store)'
      BY <1>1, <1>2, <1>4, <2>1, <2>2 DEF Held
    <2>4. IsPrefixOf(mem.log, store)' /\ Len(store)' <= Len(mem'.log) + 1
      BY <1>1, <1>5, <1>7 DEF IsPrefixOf
    <2> QED
      BY <1>2, <1>5, <1>6, <1>7, <2>3, <2>4 DEF Held
  <1>12. BatchOK'
    BY <1>2, <1>7 DEF BatchOK
  <1>13. Covered'
    <2> SUFFICES ASSUME NEW i \in DOMAIN new, Before(Cursor(new), ProcessingKey(Successor(new[i])))
                 PROVE  \/ Successor(new[i]) \in poll.batch
                        \/ FinalizedAt(Successor(new[i])) > poll.at
      BY <1>7 DEF Covered, Cursor
    <2>1. CASE i = Len(log) + 1
      BY <1>2, <1>3, <1>5, <2>1 DEF BatchOK
    <2>2. CASE i \in DOMAIN log
      <3> DEFINE d == Successor(log[i])
      <3>1. log[i] \in Aligned /\ d \in Aligned /\ log[i].frame \in Frames /\ new[i] = log[i]
            /\ c \in Aligned
        BY <1>3, <1>4, <1>5, <2>2, LogFacts, AlignedFacts, CandleFacts
      <3>2. LastRank(new) < Rank(d) /\ LastRank(new) = Rank(c)
        BY <1>5, <3>1, LogFacts DEF LastRank
      <3> HIDE DEF d
      <3>3. LastRank(log) < Rank(d)
        <4>1. LastRank(log) \in Nat /\ Rank(c) \in Nat /\ Rank(d) \in Nat
          BY <1>4, <3>1, LogFacts, AlignedFacts
        <4> QED
          BY <1>3, <3>2, <4>1
      <3>4. Before(Cursor(log), ProcessingKey(d))
        BY <1>4, <3>1, <3>3, LogFacts
      <3> QED
        BY <1>2, <2>2, <3>1, <3>4 DEF Covered, Fetched, d
    <2> QED
      BY <1>5, <2>1, <2>2
  <1> QED
    BY <1>1, <1>3, <1>8, <1>9, <1>10, <1>11, <1>12, <1>13 DEF IInv, Appends, c, new
\* The save raises or is refused, or the candle is durable and memory is not
\* told.
LEMMA SaveAbandoned ==
    ASSUME IInv, SaveFails \/ SaveUnreported \/ SaveRefused
    PROVE  IInv' /\ (store' = store \/ Appends(Earliest(Remaining)))
  <1> DEFINE c == Earliest(Remaining)
  <1>1. /\ UNCHANGED <<setting, now, delivered, window>> /\ Processing
        /\ mem' = [mem EXCEPT !.bootstrap = @ /\ poll.done = <<>>] /\ poll' = Idle
        /\ store' = store \/ store' = Append(mem.log, c)
    BY DEF SaveFails, SaveUnreported, SaveRefused, Abort
  <1>2. faults' \in 0..MaxFaults
    BY FaultCounts DEF IInv, TypeOK, SaveFails, SaveUnreported, SaveRefused
  <1>3. mem.loaded /\ mem.log \in Seq(Candles)
    BY <1>1 DEF IInv, TypeOK, Held, Processing
  <1>4. CASE store' = store
    BY <1>1, <1>2, <1>3, <1>4, DropStep
  <1>5. CASE store' = Append(mem.log, c)
    <2>1. c \in Candles /\ FinalizedAt(c) <= poll.at /\ LogOK(Append(mem.log, c))
      BY <1>1, ChosenFacts
    <2>2. delivered \subseteq Candles /\ delivered \subseteq Members(mem.log)
      BY <1>3 DEF IInv, TypeOK, Held
    <2> HIDE DEF IInv, c
    <2>3. /\ Append(mem.log, c) \in Seq(Candles) /\ Len(Append(mem.log, c)) = Len(mem.log) + 1
          /\ IsPrefixOf(mem.log, Append(mem.log, c))
      <3>1. /\ Append(mem.log, c) \in Seq(Candles) /\ Len(Append(mem.log, c)) = Len(mem.log) + 1
            /\ \A i \in 1..Len(mem.log) : Append(mem.log, c)[i] = mem.log[i]
        BY <1>3, <2>1, AppendProperties
      <3> QED
        BY <1>3, <3>1, LogFacts DEF IsPrefixOf
    <2>4. /\ store' \in Seq(Candles) /\ LogOK(store') /\ IsPrefixOf(mem.log, store')
          /\ Len(store') <= Len(mem.log) + 1
      BY <1>3, <1>5, <2>1, <2>3, LogFacts
    <2>5. IInv'
      BY <1>1, <1>2, <1>3, <2>2, <2>4, EndStep
    <2> QED
      BY <1>5, <2>1, <2>5 DEF Appends, c
  <1> QED
    BY <1>1, <1>4, <1>5

LEMMA ReturnStep ==
    ASSUME IInv, Return
    PROVE  IInv' /\ store' = store
  <1>1. /\ UNCHANGED <<setting, now, store, window, faults>> /\ poll.pc = "process"
        /\ mem' = [mem EXCEPT !.bootstrap = @ /\ poll.done = <<>>] /\ poll' = Idle
        /\ delivered' = delivered \cup Members(poll.done)
    BY DEF Return, Members
  <1>2. /\ store \in Seq(Candles) /\ LogOK(store) /\ IsPrefixOf(mem.log, store)
        /\ Len(store) <= Len(mem.log) + 1 /\ mem.loaded
        /\ faults \in 0..MaxFaults /\ poll.done \in Seq(Candles)
    BY <1>1 DEF IInv, TypeOK, Held
  <1>3. /\ delivered' \subseteq Members(mem.log)
        /\ delivered' \subseteq Candles
    <2>1. /\ delivered \subseteq Members(mem.log) /\ Members(poll.done) \subseteq Members(mem.log)
          /\ mem.log \in Seq(Candles)
      BY <1>2 DEF IInv, TypeOK, Held
    <2>2. Members(mem.log) \subseteq Candles
      BY <2>1, LogFacts DEF Members
    <2> QED
      BY <1>1, <2>1, <2>2
  <1>4. store' = store /\ faults' = faults
    BY <1>1
  <1> QED
    BY <1>1, <1>2, <1>3, <1>4, EndStep

LEMMA NextIInv ==
    ASSUME IInv, [Next]_vars
    PROVE  IInv' /\ (store' = store \/ Appends(Earliest(Remaining)))
  <1>1. CASE UNCHANGED vars
    <2>1. UNCHANGED <<setting, store, mem, poll, delivered, window>>
          /\ now' \in 0..Horizon /\ faults' \in 0..MaxFaults
      BY <1>1 DEF vars, IInv, TypeOK
    <2> QED
      BY <2>1, ClockStep
  <1>2. CASE Tick \/ SetBack
    BY <1>2, TickStep
  <1>3. CASE Begin
    BY <1>3, BeginStep
  <1>4. CASE \E f \in Frames : Fetch(f)
    BY <1>4, FetchStep
  <1>5. CASE \E f \in Frames : TooFarBehind(f) \/ FetchFails(f)
    BY <1>5, FetchAbandoned
  <1>6. CASE Save
    BY <1>6, SaveStep
  <1>7. CASE SaveFails \/ SaveUnreported \/ SaveRefused
    BY <1>7, SaveAbandoned
  <1>8. CASE Return
    BY <1>8, ReturnStep
  <1>9. CASE Crash
    BY <1>9, CrashStep
  <1> QED
    BY <1>1, <1>2, <1>3, <1>4, <1>5, <1>6, <1>7, <1>8, <1>9 DEF Next

-----------------------------------------------------------------------------
(* What holds of every run.                                                *)

\* The inductive invariant holds throughout poll_once, however fetches, saves
\* and the process fail.
THEOREM RuntimeIInv == Spec => []IInv
  <1>1. IInv /\ [Next]_vars => IInv'
    BY NextIInv
  <1> QED
    BY InitIInv, <1>1, PTL DEF Spec

\* Every state of the runtime, its poll and the durable log is of its type.
THEOREM RuntimeTypeOK == Spec => []TypeOK
  <1>1. IInv => TypeOK
    BY DEF IInv
  <1> QED
    BY RuntimeIInv, <1>1, PTL

\* poll_once takes the candles of each timeframe one after the other, without a
\* hole or a repetition, however polls are cut short, retried or late.
THEOREM RuntimeNoGaps == Spec => []NoGaps
  <1>1. IInv => NoGaps
    BY LogOKGivesNoGaps DEF IInv, TypeOK
  <1> QED
    BY RuntimeIInv, <1>1, PTL

\* Once 4h candles are taken, poll_once takes a 15m candle only after every 4h
\* candle that was final by then.
THEOREM RuntimeBiasComplete == Spec => []BiasComplete
  <1>1. IInv => BiasComplete
    BY LogOKGivesBiasComplete DEF IInv, TypeOK
  <1> QED
    BY RuntimeIInv, <1>1, PTL

\* _state and the results returned never run ahead of the store, and _state
\* stays at most one candle behind it.
THEOREM RuntimeMemoryDurable == Spec => []MemoryDurable
  <1>1. ASSUME IInv
        PROVE  MemoryDurable
    <2>1. Held /\ mem.log \in Seq(Candles) /\ store \in Seq(Candles)
      BY <1>1 DEF IInv, TypeOK
    <2>2. \A i \in DOMAIN mem.log : i \in DOMAIN store /\ store[i] = mem.log[i]
      BY <2>1, LogFacts DEF Held, IsPrefixOf
    <2>3. delivered \subseteq Members(store)
      BY <2>1, <2>2 DEF Held, Members
    <2> QED
      BY <2>1, <2>2, <2>3 DEF Held, MemoryDurable
  <1> QED
    BY RuntimeIInv, <1>1, PTL

\* A candle becomes durable only when it is final by the clock reading of its
\* poll.
THEOREM RuntimeClosedOnly == Spec => ClosedOnly
  <1>1. ASSUME IInv, [Next]_vars
        PROVE  [store' # store => Cursor(store')[1] <= poll.at]_vars
    <2> SUFFICES ASSUME store' # store
                 PROVE  Cursor(store')[1] <= poll.at
      OBVIOUS
    <2>1. PICK c \in Candles : store' = Append(mem.log, c) /\ FinalizedAt(c) <= poll.at
      BY <1>1, NextIInv DEF Appends
    <2>2. mem.log \in Seq(Candles)
      BY <1>1 DEF IInv, TypeOK
    <2>3. /\ Append(mem.log, c) # <<>>
          /\ Append(mem.log, c)[Len(Append(mem.log, c))] = c
      BY <2>1, <2>2, AppendProperties
    <2> QED
      BY <2>1, <2>3 DEF Cursor, ProcessingKey
  <1> QED
    BY RuntimeIInv, <1>1, PTL DEF Spec, ClosedOnly
=============================================================================
