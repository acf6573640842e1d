--------------------------- MODULE ResearchProofs ---------------------------
(***************************************************************************)
(* Proofs about Research, for every length of a date and of the lookback,  *)
(* every set of quotes, every division of time into windows, and without   *)
(* the bounds mattering: what a row says is final, the evidence of a       *)
(* window that is over is frozen, and the last window opens only to what   *)
(* its validation supports.                                                *)
(***************************************************************************)
EXTENDS Research, FiniteSetTheorems, WellFoundedInduction, SequenceTheorems, TLAPS

-----------------------------------------------------------------------------
(* Numbers.                                                                *)

\* A non-empty set of natural numbers has a least element.
LEMMA LeastNat ==
    ASSUME NEW S, S \subseteq Nat, S # {}
    PROVE  \E n \in S : \A m \in S : n <= m
  <1> DEFINE R == OpToRel(<, Nat)
  <1>1. \E n \in S : \A m \in S : ~ (<<m, n>> \in R)
    <2> HIDE DEF R
    <2> QED
      BY NatLessThanWellFounded, WFMin DEF R
  <1>2. PICK n \in S : \A m \in S : ~ (<<m, n>> \in R)
    BY <1>1
  <1>3. ASSUME NEW m \in S
        PROVE  n <= m
    <2>1. <<m, n>> \in Nat \X Nat /\ ~ (<<m, n>> \in R)
      BY <1>2
    <2>2. ~ (m < n)
      BY <2>1 DEF OpToRel
    <2> QED
      BY <2>2
  <1> QED
    BY <1>3

\* What holds at 0 and is passed on by every step up to n holds up to n.
LEMMA UpTo ==
    ASSUME NEW n \in Nat, NEW H \in SUBSET (0..n), 0 \in H,
           \A i \in 0..n : i \in H /\ i < n => i + 1 \in H
    PROVE  H = 0..n
  <1> SUFFICES ASSUME (0..n) \ H # {}
               PROVE  FALSE
    OBVIOUS
  <1>1. PICK i \in (0..n) \ H : \A j \in (0..n) \ H : i <= j
    <2> DEFINE S == (0..n) \ H
    <2>1. S \subseteq Nat /\ S # {}
      OBVIOUS
    <2> HIDE DEF S
    <2>2. \E i \in S : \A j \in S : i <= j
      BY <2>1, LeastNat
    <2> QED
      BY <2>2 DEF S
  <1>2. i # 0 /\ i \in 0..n
    BY <1>1
  <1>3. i - 1 \in 0..n /\ i - 1 < n /\ ~(i <= i - 1) /\ (i - 1) + 1 = i
    BY <1>2
  <1>4. i - 1 \in H
    BY <1>1, <1>3
  <1>5. i \in H
    BY <1>3, <1>4
  <1> QED
    BY <1>1, <1>5

\* A non-empty set of integers with a bound has a largest, or a least, element.
LEMMA LargestIs ==
    ASSUME NEW S, S \subseteq Int, S # {}, NEW m \in Int, \A x \in S : x <= m
    PROVE  Largest(S) \in S /\ \A x \in S : x <= Largest(S)
  <1> DEFINE U == {m - x : x \in S}
  <1>0. \A x \in S : x \in Int /\ m - x \in Nat
    <2>1. \A x \in S : x \in Int
      OBVIOUS
    <2> QED
      BY <2>1
  <1>1. U \subseteq Nat /\ U # {}
    BY <1>0
  <1>2. PICK u \in U : \A v \in U : u <= v
    <2> HIDE DEF U
    <2> QED
      BY <1>1, LeastNat
  <1>3. PICK x \in S : u = m - x
    OBVIOUS
  <1>4. \A y \in S : y <= x
    BY <1>0, <1>2, <1>3
  <1> QED
    BY <1>4 DEF Largest

LEMMA SmallestIs ==
    ASSUME NEW S, S \subseteq Int, S # {}, NEW m \in Int, \A x \in S : m <= x
    PROVE  Smallest(S) \in S /\ \A x \in S : Smallest(S) <= x
  <1> DEFINE U == {x - m : x \in S}
  <1>0. \A x \in S : x \in Int /\ x - m \in Nat
    <2>1. \A x \in S : x \in Int
      OBVIOUS
    <2> QED
      BY <2>1
  <1>1. U \subseteq Nat /\ U # {}
    BY <1>0
  <1>2. PICK u \in U : \A v \in U : u <= v
    <2> HIDE DEF U
    <2> QED
      BY <1>1, LeastNat
  <1>3. PICK x \in S : u = x - m
    OBVIOUS
  <1>4. \A y \in S : x <= y
    <2>1. \A y \in S : x - m <= y - m
      BY <1>2, <1>3
    <2> QED
      BY <1>0, <2>1
  <1> QED
    BY <1>4 DEF Smallest

\* The quotient does not fall when the number grows.
LEMMA QuotientGrows ==
    ASSUME NEW a \in Nat, NEW b \in Nat, NEW d \in Nat \ {0}, a <= b
    PROVE  a \div d <= b \div d /\ a \div d \in Int
  <1>1. /\ a \div d \in Int /\ b \div d \in Int
        /\ a = d * (a \div d) + (a % d) /\ 0 <= a % d /\ a % d < d
        /\ b = d * (b \div d) + (b % d) /\ 0 <= b % d /\ b % d < d
    OBVIOUS
  <1>2. ASSUME a \div d > b \div d
        PROVE  FALSE
    <2> DEFINE p == a \div d
               q == b \div d
    <2>1. p - q - 1 \in Nat /\ p \in Int /\ q \in Int
      BY <1>1, <1>2
    <2>2. a >= d * p /\ b < d * q + d
      BY <1>1
    <2> HIDE DEF p, q
    <2>3. PICK k \in Nat : p = q + 1 + k
      BY <2>1
    <2>4. d * p = d * q + d + d * k /\ d * k >= 0 /\ d * q \in Int /\ d * k \in Int
      BY <2>1, <2>3
    <2> QED
      BY <2>2, <2>4
  <1> QED
    BY <1>1, <1>2

-----------------------------------------------------------------------------
(* The tape.                                                               *)

Reasons == {"exit_stop", "exit_hema_flip", "exit_htf_reversal"}

Openings == [id : Nat, side : Sides, origin : Nat, price : Int]

Events ==
    [type : {"hema_flip_detected", "setup_armed", "setup_cancelled", "decision_rejected"},
     side : Sides \cup {None}]
    \cup [type : {"trade_opened"}, side : Sides, trade : Openings]
    \cup [type : {"trade_closed"}, side : Sides, trade : Nat, reasons : Seq(Reasons), r : Int]

Bars ==
    [open : Nat, quote : AllQuotes, events : Seq(Events), trend : Sides,
     turn : Sides \cup {None}]

\* Bars of the past, the earlier ones first.
TapeOK(tp, n) ==
    /\ n \in Nat
    /\ tp \in Seq(Bars)
    /\ \A i \in DOMAIN tp : tp[i].open < n
    /\ \A i, j \in DOMAIN tp : i < j => tp[i].open < tp[j].open

LEMMA Appended ==
    ASSUME NEW S, NEW tp \in Seq(S), NEW bar
    PROVE  /\ Len(tp) \in Nat /\ DOMAIN tp = 1..Len(tp)
           /\ Len(Append(tp, bar)) = Len(tp) + 1
           /\ DOMAIN Append(tp, bar) = 1..(Len(tp) + 1)
           /\ \A i \in DOMAIN tp : Append(tp, bar)[i] = tp[i]
           /\ Append(tp, bar)[Len(tp) + 1] = bar
  OBVIOUS

LEMMA BarOf ==
    ASSUME NEW tp, NEW n, TapeOK(tp, n), NEW i \in DOMAIN tp
    PROVE  /\ tp[i] \in Bars /\ n \in Nat /\ i \in 1..Len(tp) /\ i \in Nat
           /\ tp[i].open \in Nat /\ tp[i].open < n
           /\ tp[i].quote \in AllQuotes /\ tp[i].events \in Seq(Events)
  <1>1. tp[i] \in Bars /\ n \in Nat /\ i \in 1..Len(tp) /\ i \in Nat /\ tp[i].open < n
    BY DEF TapeOK
  <1> QED
    BY <1>1 DEF Bars

LEMMA TapeGrows ==
    ASSUME NEW tp, NEW n, TapeOK(tp, n), NEW bar \in Bars, bar.open = n
    PROVE  TapeOK(Append(tp, bar), n + 1)
  <1>1. Append(tp, bar) \in Seq(Bars) /\ n + 1 \in Nat /\ n < n + 1
    BY DEF TapeOK
  <1>2. \A i \in DOMAIN tp : tp[i].open \in Nat /\ tp[i].open < n
    BY BarOf
  <1> QED
    BY <1>1, <1>2, Appended DEF TapeOK

\* The bars of a date that is over are those of the tape before.
LEMMA OldDates ==
    ASSUME NEW tp, NEW n, TapeOK(tp, n), NEW bar \in Bars, bar.open = n
    PROVE  /\ \A i \in DOMAIN tp : Date(tp[i]) \in Int /\ Date(tp[i]) <= Date(bar)
           /\ Date(bar) \in Int
           /\ \A d \in Int : d < Date(bar) => BarsOf(Append(tp, bar), d) = BarsOf(tp, d)
  <1>1. ASSUME NEW i \in DOMAIN tp
        PROVE  Date(tp[i]) \in Int /\ Date(tp[i]) <= Date(bar)
    <2>1. tp[i].open \in Nat /\ n \in Nat /\ tp[i].open <= n
      BY BarOf
    <2> QED
      BY <2>1, QuotientGrows, DayAssumption DEF Date
  <1>2. Date(bar) \in Int
    BY QuotientGrows, DayAssumption DEF Date, Bars
  <1>3. ASSUME NEW d \in Int, d < Date(bar)
        PROVE  BarsOf(Append(tp, bar), d) = BarsOf(tp, d)
    <2>1. tp \in Seq(Bars)
      BY DEF TapeOK
    <2>2. Date(bar) # d
      BY <1>2, <1>3
    <2> QED
      BY <2>1, <2>2, Appended DEF BarsOf
  <1> QED
    BY <1>1, <1>2, <1>3

LEMMA RangesKept ==
    ASSUME NEW tp, NEW n, TapeOK(tp, n), NEW bar \in Bars, bar.open = n,
           NEW d \in Int, d < Date(bar)
    PROVE  DailyRange(Append(tp, bar), d) = DailyRange(tp, d)
  <1> DEFINE tq == Append(tp, bar)
             session == BarsOf(tp, d)
  <1>1. BarsOf(tq, d) = session
    BY OldDates
  <1>2. \A i \in session : tq[i] = tp[i]
    BY Appended DEF TapeOK, BarsOf
  <1>3. /\ {tq[i].quote.high : i \in session} = {tp[i].quote.high : i \in session}
        /\ {tq[i].quote.low : i \in session} = {tp[i].quote.low : i \in session}
    BY <1>2
  <1> QED
    BY <1>1, <1>3 DEF DailyRange

LEMMA ContextKept ==
    ASSUME NEW tp, NEW n, TapeOK(tp, n), NEW bar \in Bars, bar.open = n,
           NEW i \in DOMAIN tp
    PROVE  AdrContext(Append(tp, bar), Date(tp[i])) = AdrContext(tp, Date(tp[i]))
  <1> DEFINE tq == Append(tp, bar)
             D == Date(tp[i])
             P == PriorDates(D)
  <1>1. D \in Int /\ D <= Date(bar) /\ Date(bar) \in Int /\ Lookback \in Nat \ {0}
    BY OldDates, DayAssumption
  <1>2. \A d \in P : d \in Int /\ d < D
    BY <1>1 DEF PriorDates
  <1>3. \A d \in P : DailyRange(tq, d) = DailyRange(tp, d)
    BY <1>1, <1>2, RangesKept
  <1>4. [d \in P |-> DailyRange(tq, d)] = [d \in P |-> DailyRange(tp, d)]
    BY <1>3
  <1> DEFINE First == Smallest(P)
  <1>5. First \in P /\ First < Date(bar) /\ First \in Int
    <2>1. D - Lookback \in P /\ \A d \in P : D - Lookback <= d
      BY <1>1 DEF PriorDates
    <2>2. \E x \in P : \A y \in P : x <= y
      BY <2>1
    <2>3. First \in P
      BY <2>2 DEF Smallest
    <2> QED
      BY <1>1, <1>2, <2>3
  <1>6. (\E d \in {Date(tq[j]) : j \in DOMAIN tq} : d <= First)
          = (\E d \in {Date(tp[j]) : j \in DOMAIN tp} : d <= First)
    <2>1. tp \in Seq(Bars)
      BY DEF TapeOK
    <2>2. ~(Date(bar) <= First)
      BY <1>1, <1>5
    <2> HIDE DEF First
    <2> QED
      BY <2>1, <2>2, Appended
  <1> QED
    BY <1>3, <1>4, <1>6 DEF AdrContext

\* The features of a bar do not change when the tape grows.
LEMMA FeaturesKept ==
    ASSUME NEW tp, NEW n, TapeOK(tp, n), NEW bar \in Bars, bar.open = n,
           NEW i \in DOMAIN tp, NEW side
    PROVE  EntryFeatures(Append(tp, bar), i, side) = EntryFeatures(tp, i, side)
  <1> DEFINE tq == Append(tp, bar)
  <1>1. /\ tp \in Seq(Bars) /\ DOMAIN tp = 1..Len(tp) /\ Len(tp) \in Nat
        /\ DOMAIN tq = 1..(Len(tp) + 1) /\ \A j \in 1..Len(tp) : tq[j] = tp[j]
    BY Appended DEF TapeOK
  <1>2. i \in 1..Len(tp) /\ tq[i] = tp[i]
    BY <1>1
  <1> HIDE DEF tq
  <1>3. Session(tq, i) = Session(tp, i)
    <2> DEFINE P == {j \in BarsOf(tp, Date(tp[i])) : j <= i}
    <2>1. {j \in BarsOf(tq, Date(tq[i])) : j <= i} = P
      BY <1>1, <1>2 DEF BarsOf
    <2>2. \A j \in P : tq[j] = tp[j]
      BY <1>1 DEF BarsOf
    <2>3. /\ {tq[j].quote.high : j \in P} = {tp[j].quote.high : j \in P}
          /\ {tq[j].quote.low : j \in P} = {tp[j].quote.low : j \in P}
      BY <2>2
    <2> QED
      BY <1>2, <2>1, <2>3 DEF Session
  <1>4. AdrContext(tq, Date(tq[i])) = AdrContext(tp, Date(tp[i]))
    BY <1>2, ContextKept DEF tq
  <1>5. KalmanRun(tq, i, side) = KalmanRun(tp, i, side)
    <2> DEFINE T == {j \in 1 .. i : tp[j].turn = side}
               begun == IF T = {} THEN 1 ELSE Largest(T)
    <2>1. \A j \in 1..i : tq[j] = tp[j]
      BY <1>1, <1>2
    <2>2. {j \in 1 .. i : tq[j].turn = side} = T
      BY <2>1
    <2>3. begun \in Int /\ begun >= 1
      <3>1. T \subseteq Int /\ (\A y \in T : y <= i) /\ i \in Int
        BY <1>1, <1>2
      <3>2. CASE T # {}
        <4> HIDE DEF T
        <4>1. Largest(T) \in T
          BY <3>1, <3>2, LargestIs
        <4> QED
          BY <4>1 DEF T
      <3> QED
        BY <3>2
    <2> HIDE DEF begun
    <2>4. \A j \in begun..i : tq[j] = tp[j]
      BY <1>1, <1>2, <2>3
    <2>5. {j \in begun..i : tq[j].trend = side} = {j \in begun..i : tp[j].trend = side}
      BY <2>4
    <2>6. T # {} => tq[begun] = tp[begun]
      <3>1. T # {} => begun \in 1..i
        <4>1. T \subseteq Int /\ (\A y \in T : y <= i) /\ i \in Int
          BY <1>1, <1>2
        <4>2. T # {} => Largest(T) \in T
          <5> HIDE DEF T
          <5> QED
            BY <4>1, LargestIs
        <4> QED
          BY <4>2 DEF begun
      <3> QED
        BY <2>1, <3>1
    <2> QED
      BY <2>2, <2>5, <2>6 DEF KalmanRun, Finalized, begun
  <1>6. EntryFeatures(tq, i, side) = EntryFeatures(tp, i, side)
    BY <1>2, <1>3, <1>4, <1>5 DEF EntryFeatures
  <1> QED
    BY <1>6 DEF tq

-----------------------------------------------------------------------------
(* The first pass, event by event.                                         *)

LEMMA TracedIs ==
    ASSUME NEW tp, NEW b, NEW i, Len(tp[i].events) \in Nat
    PROVE  \E f : /\ f[0] = b
                  /\ \A k \in 1..Len(tp[i].events) :
                        f[k] = Recorded(tp, f[k - 1], i, tp[i].events[k])
                  /\ Traced(tp, b, i) = f[Len(tp[i].events)]
  <1> DEFINE evs == tp[i].events
             N == Len(tp[i].events)
             Is(f, n) == f = [k \in 0..n |-> IF k = 0 THEN b
                                             ELSE Recorded(tp, f[k - 1], i, evs[k])]
             H == {n \in 0..N : \E f : Is(f, n)}
  <1>1. 0 \in H
    <2>1. Is([k \in 0..0 |-> b], 0) /\ 0 \in 0..N
      OBVIOUS
    <2> HIDE DEF Is
    <2> QED
      BY <2>1
  <1>2. ASSUME NEW n \in 0..N, n \in H, n < N
        PROVE  n + 1 \in H
    <2>1. PICK f : Is(f, n)
      BY <1>2
    <2> DEFINE g == [k \in 0..n + 1 |-> IF k = n + 1 THEN Recorded(tp, f[n], i, evs[n + 1])
                                        ELSE f[k]]
    <2>2. ASSUME NEW k \in 0..n + 1
          PROVE  g[k] = IF k = 0 THEN b ELSE Recorded(tp, g[k - 1], i, evs[k])
      BY <2>1, <1>2
    <2>3. Is(g, n + 1)
      BY <2>2
    <2>4. n + 1 \in 0..N
      BY <1>2
    <2> HIDE DEF g, Is
    <2> QED
      BY <2>3, <2>4
  <1>3. \E f : Is(f, N)
    <2>1. H \in SUBSET (0..N)
      OBVIOUS
    <2>0. N \in Nat
      OBVIOUS
    <2> HIDE DEF H, N
    <2>2. N \in H
      BY <1>1, <1>2, <2>0, <2>1, UpTo
    <2> QED
      BY <2>2 DEF H
  <1> DEFINE F == CHOOSE f : Is(f, N)
  <1>4. Is(F, N)
    BY <1>3
  <1>5. Traced(tp, b, i) = F[N]
    BY DEF Traced
  <1> HIDE DEF F
  <1>6. F[0] = b /\ \A k \in 1..N : F[k] = Recorded(tp, F[k - 1], i, evs[k])
    BY <1>4, SMTT(60)
  <1> QED
    BY <1>5, <1>6

LEMMA CollectedIs ==
    ASSUME NEW tp, Len(tp) \in Nat
    PROVE  \E f : /\ f[0] = NothingYet
                  /\ \A i \in 1..Len(tp) : f[i] = Traced(tp, f[i - 1], i)
                  /\ Collected(tp) = f[Len(tp)]
  <1> DEFINE N == Len(tp)
             Is(f, n) == f = [i \in 0..n |-> IF i = 0 THEN NothingYet
                                             ELSE Traced(tp, f[i - 1], i)]
             H == {n \in 0..N : \E f : Is(f, n)}
  <1>1. 0 \in H
    <2>1. Is([i \in 0..0 |-> NothingYet], 0) /\ 0 \in 0..N
      OBVIOUS
    <2> HIDE DEF Is
    <2> QED
      BY <2>1
  <1>2. ASSUME NEW n \in 0..N, n \in H, n < N
        PROVE  n + 1 \in H
    <2>1. PICK f : Is(f, n)
      BY <1>2
    <2> DEFINE g == [i \in 0..n + 1 |-> IF i = n + 1 THEN Traced(tp, f[n], n + 1) ELSE f[i]]
    <2>2. ASSUME NEW i \in 0..n + 1
          PROVE  g[i] = IF i = 0 THEN NothingYet ELSE Traced(tp, g[i - 1], i)
      BY <2>1, <1>2
    <2>3. Is(g, n + 1)
      BY <2>2
    <2>4. n + 1 \in 0..N
      BY <1>2
    <2> HIDE DEF g, Is
    <2> QED
      BY <2>3, <2>4
  <1>3. \E f : Is(f, N)
    <2>1. H \in SUBSET (0..N)
      OBVIOUS
    <2> HIDE DEF H
    <2>2. N \in H
      BY <1>1, <1>2, <2>1, UpTo
    <2> QED
      BY <2>2 DEF H
  <1> DEFINE F == CHOOSE f : Is(f, N)
  <1>4. Is(F, N)
    BY <1>3
  <1>5. Collected(tp) = F[N]
    BY DEF Collected
  <1> HIDE DEF F
  <1>6. F[0] = NothingYet /\ \A i \in 1..N : F[i] = Traced(tp, F[i - 1], i)
    BY <1>4
  <1> QED
    BY <1>5, <1>6

\* A trace means the same when bars follow it.
LEMMA TracedKept ==
    ASSUME NEW tp, NEW n, TapeOK(tp, n), NEW bar \in Bars, bar.open = n,
           NEW i \in DOMAIN tp, NEW b
    PROVE  Traced(Append(tp, bar), b, i) = Traced(tp, b, i)
  <1> DEFINE tq == Append(tp, bar)
             N == Len(tp[i].events)
  <1>1. tq[i] = tp[i] /\ N \in Nat
    <2>1. tp[i].events \in Seq(Events)
      BY BarOf
    <2> QED
      BY <2>1, Appended DEF TapeOK
  <1>2. ASSUME NEW c, NEW e
        PROVE  Recorded(tq, c, i, e) = Recorded(tp, c, i, e)
    <2>1. Finalized(tq[i]) = Finalized(tp[i])
      BY <1>1
    <2>2. NewSetup(tq, i, e.side) = NewSetup(tp, i, e.side)
      BY FeaturesKept DEF NewSetup
    <2> HIDE DEF tq
    <2> QED
      BY <2>1, <2>2, Zenon DEF Recorded
  <1>0. N = Len(tp[i].events) /\ Len(tq[i].events) = N /\ tq[i].events = tp[i].events
    BY <1>1
  <1> HIDE DEF tq, N
  <1>3. PICK f : /\ f[0] = b
                 /\ \A k \in 1..N : f[k] = Recorded(tp, f[k - 1], i, tp[i].events[k])
                 /\ Traced(tp, b, i) = f[N]
    BY <1>0, <1>1, TracedIs
  <1>4. PICK g : /\ g[0] = b
                 /\ \A k \in 1..N : g[k] = Recorded(tq, g[k - 1], i, tp[i].events[k])
                 /\ Traced(tq, b, i) = g[N]
    BY <1>0, <1>1, TracedIs
  <1> DEFINE H == {k \in 0..N : f[k] = g[k]}
  <1>5. 0 \in H /\ H \in SUBSET (0..N)
    BY <1>1, <1>3, <1>4
  <1>6. ASSUME NEW k \in 0..N, k \in H, k < N
        PROVE  k + 1 \in H
    <2>1. k + 1 \in 1..N /\ k + 1 - 1 = k /\ k + 1 \in 0..N
      BY <1>1, <1>6
    <2>2. /\ f[k + 1] = Recorded(tp, f[k], i, tp[i].events[k + 1])
          /\ g[k + 1] = Recorded(tq, g[k], i, tp[i].events[k + 1])
      BY <1>1, <1>3, <1>4, <2>1
    <2> QED
      BY <1>2, <1>6, <2>1, <2>2
  <1>7. N \in H
    <2> HIDE DEF H
    <2> QED
      BY <1>1, <1>5, <1>6, UpTo
  <1> QED
    BY <1>3, <1>4, <1>7 DEF tq, H

\* One more bar is one more trace to read.
LEMMA CollectedGrows ==
    ASSUME NEW tp, NEW n, TapeOK(tp, n), NEW bar \in Bars, bar.open = n
    PROVE  Collected(Append(tp, bar)) = Traced(Append(tp, bar), Collected(tp), Len(tp) + 1)
  <1> DEFINE tq == Append(tp, bar)
             N == Len(tp)
  <1>1. N \in Nat /\ Len(tq) = N + 1 /\ DOMAIN tp = 1..N
    BY Appended DEF TapeOK
  <1>2. PICK f : /\ f[0] = NothingYet
                 /\ \A i \in 1..N : f[i] = Traced(tp, f[i - 1], i)
                 /\ Collected(tp) = f[N]
    BY <1>1, CollectedIs
  <1>3. PICK g : /\ g[0] = NothingYet
                 /\ \A i \in 1..N + 1 : g[i] = Traced(tq, g[i - 1], i)
                 /\ Collected(tq) = g[N + 1]
    <2>1. Len(tq) \in Nat
      BY <1>1
    <2> QED
      BY <1>1, <2>1, CollectedIs
  <1> DEFINE H == {i \in 0..N : f[i] = g[i]}
  <1>4. 0 \in H /\ H \in SUBSET (0..N)
    BY <1>1, <1>2, <1>3
  <1>5. ASSUME NEW i \in 0..N, i \in H, i < N
        PROVE  i + 1 \in H
    <2>1. i + 1 \in 1..N /\ i + 1 \in 1..N + 1 /\ i + 1 - 1 = i /\ i + 1 \in 0..N
      BY <1>1, <1>5
    <2>2. f[i + 1] = Traced(tp, f[i], i + 1) /\ g[i + 1] = Traced(tq, g[i], i + 1)
      BY <1>2, <1>3, <2>1
    <2>3. Traced(tq, f[i], i + 1) = Traced(tp, f[i], i + 1)
      BY <1>1, <2>1, TracedKept
    <2> HIDE DEF tq
    <2> QED
      BY <1>5, <2>1, <2>2, <2>3
  <1>6. N \in H
    <2> HIDE DEF H, tq
    <2> QED
      BY <1>1, <1>4, <1>5, UpTo
  <1>7. g[N + 1] = Traced(tq, g[N], N + 1)
    <2>1. N + 1 \in 1..N + 1 /\ N + 1 - 1 = N
      BY <1>1
    <2> QED
      BY <1>3, <2>1
  <1> HIDE DEF tq
  <1>8. Collected(tq) = Traced(tq, Collected(tp), N + 1)
    BY <1>2, <1>3, <1>6, <1>7
  <1> QED
    BY <1>8 DEF tq

\* The states of the first pass within one bar, by the events already read.
TraceOf(tp, b, i) ==
    CHOOSE f : /\ f[0] = b
               /\ \A k \in 1..Len(tp[i].events) :
                     f[k] = Recorded(tp, f[k - 1], i, tp[i].events[k])
               /\ Traced(tp, b, i) = f[Len(tp[i].events)]

LEMMA TraceOfIs ==
    ASSUME NEW tp, NEW b, NEW i, Len(tp[i].events) \in Nat
    PROVE  /\ TraceOf(tp, b, i)[0] = b
           /\ \A k \in 1..Len(tp[i].events) :
                 TraceOf(tp, b, i)[k]
                     = Recorded(tp, TraceOf(tp, b, i)[k - 1], i, tp[i].events[k])
           /\ Traced(tp, b, i) = TraceOf(tp, b, i)[Len(tp[i].events)]
  <1>1. \E f : /\ f[0] = b
               /\ \A k \in 1..Len(tp[i].events) :
                     f[k] = Recorded(tp, f[k - 1], i, tp[i].events[k])
               /\ Traced(tp, b, i) = f[Len(tp[i].events)]
    BY TracedIs
  <1> QED
    BY <1>1 DEF TraceOf

\* A trace of no events, and one that begins with an event.
LEMMA TracedShort ==
    ASSUME NEW tp, NEW b, NEW i
    PROVE  /\ tp[i].events = <<>> => Traced(tp, b, i) = b
           /\ \A x : tp[i].events = <<x>> => Traced(tp, b, i) = Recorded(tp, b, i, x)
           /\ \A x, y : tp[i].events = <<x, y>> =>
                 Traced(tp, b, i) = Recorded(tp, Recorded(tp, b, i, x), i, y)
           /\ \A x, y, z : tp[i].events = <<x, y, z>> =>
                 Traced(tp, b, i)
                     = Recorded(tp, Recorded(tp, Recorded(tp, b, i, x), i, y), i, z)
  <1>1. ASSUME tp[i].events = <<>>
        PROVE  Traced(tp, b, i) = b
    <2>1. Len(tp[i].events) = 0
      BY <1>1
    <2> QED
      BY <2>1, TracedIs
  <1>2. ASSUME NEW x, tp[i].events = <<x>>
        PROVE  Traced(tp, b, i) = Recorded(tp, b, i, x)
    <2>1. Len(tp[i].events) = 1 /\ tp[i].events[1] = x /\ 1 \in 1..1 /\ 1 - 1 = 0
      BY <1>2
    <2> QED
      BY <2>1, TracedIs
  <1>3. ASSUME NEW x, NEW y, tp[i].events = <<x, y>>
        PROVE  Traced(tp, b, i) = Recorded(tp, Recorded(tp, b, i, x), i, y)
    <2>1. /\ Len(tp[i].events) = 2 /\ tp[i].events[1] = x /\ tp[i].events[2] = y
          /\ 1 \in 1..2 /\ 1 - 1 = 0 /\ 2 \in 1..2 /\ 2 - 1 = 1
      BY <1>3
    <2>2. Len(tp[i].events) \in Nat
      BY <2>1
    <2> DEFINE f == TraceOf(tp, b, i)
    <2>3. /\ f[0] = b
          /\ \A k \in 1..Len(tp[i].events) :
                f[k] = Recorded(tp, f[k - 1], i, tp[i].events[k])
          /\ Traced(tp, b, i) = f[Len(tp[i].events)]
      BY <2>2, TraceOfIs
    <2> HIDE DEF f
    <2>4. f[1] = Recorded(tp, b, i, x)
      BY <2>1, <2>3
    <2>5. f[2] = Recorded(tp, f[1], i, y)
      BY <2>1, <2>3
    <2> QED
      BY <2>1, <2>3, <2>4, <2>5
  <1>4. ASSUME NEW x, NEW y, NEW z, tp[i].events = <<x, y, z>>
        PROVE  Traced(tp, b, i)
                   = Recorded(tp, Recorded(tp, Recorded(tp, b, i, x), i, y), i, z)
    <2>1. /\ Len(tp[i].events) = 3
          /\ tp[i].events[1] = x /\ tp[i].events[2] = y /\ tp[i].events[3] = z
          /\ 1 \in 1..3 /\ 1 - 1 = 0 /\ 2 \in 1..3 /\ 2 - 1 = 1 /\ 3 \in 1..3 /\ 3 - 1 = 2
      BY <1>4
    <2>2. Len(tp[i].events) \in Nat
      BY <2>1
    <2> DEFINE f == TraceOf(tp, b, i)
    <2>3. /\ f[0] = b
          /\ \A k \in 1..Len(tp[i].events) :
                f[k] = Recorded(tp, f[k - 1], i, tp[i].events[k])
          /\ Traced(tp, b, i) = f[Len(tp[i].events)]
      BY <2>2, TraceOfIs
    <2> HIDE DEF f
    <2>4. f[1] = Recorded(tp, b, i, x)
      BY <2>1, <2>3
    <2>5. f[2] = Recorded(tp, f[1], i, y)
      BY <2>1, <2>3
    <2>6. f[3] = Recorded(tp, f[2], i, z)
      BY <2>1, <2>3
    <2> QED
      BY <2>1, <2>3, <2>4, <2>5, <2>6
  <1> QED
    BY <1>1, <1>2, <1>3, <1>4

-----------------------------------------------------------------------------
(* The rows that the first pass has collected.                             *)

Statuses == {"rejected", "armed", "cancelled", "opened"}

IsRow(s) ==
    s = [features |-> s.features, eligible |-> s.eligible, armed |-> s.armed,
         status |-> s.status, trade |-> s.trade, reason |-> s.reason]

\* What becomes of a row.
ArmedRow(s) ==
    [s EXCEPT !.eligible = TRUE, !.armed = TRUE, !.status = "armed", !.reason = "armed"]
CancelledRow(s) == [s EXCEPT !.status = "cancelled", !.reason = "cancelled"]
RejectedRow(s) == [s EXCEPT !.reason = "rejected"]
OpenedRow(s, id) ==
    [s EXCEPT !.eligible = TRUE, !.status = "opened", !.reason = "opened", !.trade = id]

\* The trade of entry k is open before and after the bar that decides at o.
HeldAt(tp, entries, k, o) ==
    /\ Finalized(tp[entries[k].at]) < o
    /\ \A x \in EventsOf(tp, "trade_closed") : x[2].trade = k => o < Finalized(tp[x[1]])

NobodyHeld(tp, entries, o) == \A k \in DOMAIN entries : ~HeldAt(tp, entries, k, o)

\* The row s of the setup at o has no reason if and only if a trade is held
\* there, which is on its side.
ReasonOK(tp, entries, s, o) ==
    /\ (s.reason = None) = (\E k \in DOMAIN entries : HeldAt(tp, entries, k, o))
    /\ \A k \in DOMAIN entries :
          HeldAt(tp, entries, k, o) => entries[k].trade.side = s.features.side

\* A setup's row: its features are those of the bar it is named for, and its
\* status is what the slot and the entries say.  Until the bar's last event,
\* the setup of the bar itself may still be without a reason.
SetupOK(b, tp, sl, fresh, o) ==
    LET s == b.setups[o]
    IN /\ IsRow(s)
       /\ s.status \in Statuses /\ s.armed \in BOOLEAN
       /\ s.eligible = (s.status # "rejected")
       /\ s.armed => s.eligible
       /\ s.status \in {"armed", "cancelled"} => s.armed
       /\ s.features.side \in Sides
       /\ \E i \in DOMAIN tp :
             Finalized(tp[i]) = o /\ s.features = EntryFeatures(tp, i, s.features.side)
       /\ s.reason = None => s.status = "rejected"
       /\ o # fresh => ReasonOK(tp, b.entries, s, o)
       /\ o = fresh => s.status = "rejected"
       /\ (s.status = "armed") = (sl.phase = "armed" /\ sl.origin = o)
       /\ s.status = "opened" =>
             s.trade \in DOMAIN b.entries /\ b.entries[s.trade].trade.origin = o

EntryOK(b, tp, k) ==
    LET x == b.entries[k]
    IN /\ x.at \in DOMAIN tp /\ x.trade.id = k
       /\ x.trade.origin \in DOMAIN b.setups
       /\ b.setups[x.trade.origin].status = "opened"
       /\ b.setups[x.trade.origin].trade = k

Armed(sl) ==
    /\ sl.phase = "armed"
    /\ sl = [phase |-> "armed", side |-> sl.side, origin |-> sl.origin]
    /\ sl.side \in Sides

Holds(sl) ==
    /\ sl.phase = "open"
    /\ sl = [phase |-> "open", side |-> sl.side, id |-> sl.id, price |-> sl.price,
             stop |-> sl.stop]
    /\ sl.side \in Sides /\ sl.price \in Int /\ sl.stop \in Int

SlotOK(b, sl) ==
    \/ sl = Empty
    \/ /\ Armed(sl)
       /\ sl.origin \in DOMAIN b.setups /\ b.setups[sl.origin].status = "armed"
       /\ b.arms[sl.side] = sl.origin
    \/ Holds(sl) /\ sl.id \in DOMAIN b.entries /\ b.entries[sl.id].trade.side = sl.side

Booked(setups, arms, entries) ==
    [setups |-> setups, arms |-> arms, entries |-> entries, raised |-> FALSE]

IsMap(f) == f = [x \in DOMAIN f |-> f[x]]

Shape(b) ==
    /\ b = Booked(b.setups, b.arms, b.entries)
    /\ DOMAIN b.arms = Sides /\ IsMap(b.arms) /\ IsMap(b.setups)
    /\ b.entries \in Seq([trade : Openings, at : Nat])

BookOK(b, tp, sl, fresh) ==
    /\ Shape(b)
    /\ \A o \in DOMAIN b.setups : SetupOK(b, tp, sl, fresh, o)
    /\ \A k \in DOMAIN b.entries : EntryOK(b, tp, k)
    /\ SlotOK(b, sl)

\* What the events of bar n, which decides at t, leave of the rows.
Preserved(b, c, n, t) ==
    /\ \A o \in DOMAIN b.setups \ {t} :
          /\ o \in DOMAIN c.setups
          /\ c.setups[o].features = b.setups[o].features
          /\ c.setups[o].eligible = b.setups[o].eligible
          /\ c.setups[o] = b.setups[o] \/ b.setups[o].status = "armed"
    /\ DOMAIN c.setups \subseteq DOMAIN b.setups \cup {t}
    /\ \A k \in DOMAIN b.entries : k \in DOMAIN c.entries /\ c.entries[k] = b.entries[k]
    /\ \A k \in DOMAIN c.entries : k \in DOMAIN b.entries \/ c.entries[k].at = n

\* A book that an event leads to, with the same trades.
ReadAs(b, c, tp, sl, fresh, n, t) ==
    BookOK(c, tp, sl, fresh) /\ Preserved(b, c, n, t) /\ c.entries = b.entries

\* And one with another trade.
OpenAs(b, c, tp, sl, x, n, t) ==
    BookOK(c, tp, sl, 0) /\ Preserved(b, c, n, t) /\ c.entries = Append(b.entries, x)

LEMMA PreservedTwice ==
    ASSUME NEW b, NEW c, NEW d, NEW n, NEW t, Preserved(b, c, n, t), Preserved(c, d, n, t)
    PROVE  Preserved(b, d, n, t)
  BY DEF Preserved

\* Setups are known by points in time.
LEMMA OriginIsNat ==
    ASSUME NEW tp, NEW n, TapeOK(tp, n), NEW b, NEW sl, NEW fresh,
           NEW o \in DOMAIN b.setups, SetupOK(b, tp, sl, fresh, o)
    PROVE  o \in Nat /\ 0 < o /\ o <= n /\ o # None /\ b.setups[o].features.decision = o
           /\ b.setups[o].features.side \in Sides
  <1>1. PICK i \in DOMAIN tp :
            Finalized(tp[i]) = o /\ b.setups[o].features = EntryFeatures(tp, i, b.setups[o].features.side)
    BY DEF SetupOK
  <1>2. tp[i].open \in Nat /\ tp[i].open < n /\ n \in Nat
    BY BarOf
  <1>3. b.setups[o].features.decision = o
    BY <1>1 DEF EntryFeatures
  <1> QED
    BY <1>1, <1>2, <1>3, NoneAssumption DEF Finalized, SetupOK

LEMMA WithIs ==
    ASSUME NEW f, NEW x, NEW v
    PROVE  /\ DOMAIN With(f, x, v) = DOMAIN f \cup {x}
           /\ With(f, x, v)[x] = v
           /\ \A y \in DOMAIN f : y # x => With(f, x, v)[y] = f[y]
           /\ IsMap(With(f, x, v))
  BY DEF With, IsMap

LEMMA ExceptIs ==
    ASSUME NEW f, IsMap(f), NEW x \in DOMAIN f, NEW v
    PROVE  /\ DOMAIN [f EXCEPT ![x] = v] = DOMAIN f
           /\ [f EXCEPT ![x] = v][x] = v
           /\ \A y \in DOMAIN f : y # x => [f EXCEPT ![x] = v][y] = f[y]
           /\ IsMap([f EXCEPT ![x] = v])
  BY DEF IsMap


\* Where nobody is held, what counts is that there is a reason.
LEMMA ReasonGiven ==
    ASSUME NEW tp, NEW entries, NEW o, NobodyHeld(tp, entries, o), NEW s, s.reason # None
    PROVE  ReasonOK(tp, entries, s, o)
  BY DEF ReasonOK, NobodyHeld

\* A row that has one reason may have another.
LEMMA ReasonChanged ==
    ASSUME NEW tp, NEW entries, NEW o, NEW s, NEW r, ReasonOK(tp, entries, s, o),
           s.reason # None, r.reason # None
    PROVE  ReasonOK(tp, entries, r, o)
  BY DEF ReasonOK

\* A trade that is entered on the last bar is not held over one before.
LEMMA ReasonEntered ==
    ASSUME NEW tp, NEW entries \in Seq([trade : Openings, at : Nat]),
           NEW x \in [trade : Openings, at : Nat],
           NEW o \in Nat, Finalized(tp[x.at]) \in Nat, o <= Finalized(tp[x.at]),
           NEW more, more = Append(entries, x)
    PROVE  /\ \A s : ReasonOK(tp, entries, s, o) => ReasonOK(tp, more, s, o)
           /\ NobodyHeld(tp, entries, o) => NobodyHeld(tp, more, o)
  <1>1. /\ DOMAIN more = DOMAIN entries \cup {Len(entries) + 1}
        /\ more[Len(entries) + 1] = x
        /\ \A k \in DOMAIN entries : more[k] = entries[k]
    BY Appended
  <1>2. ~HeldAt(tp, more, Len(entries) + 1, o)
    BY <1>1 DEF HeldAt
  <1>3. \A k \in DOMAIN entries : HeldAt(tp, more, k, o) = HeldAt(tp, entries, k, o)
    BY <1>1 DEF HeldAt
  <1> HIDE DEF HeldAt
  <1>4. ASSUME NEW s, ReasonOK(tp, entries, s, o)
        PROVE  ReasonOK(tp, more, s, o)
    <2>1. (\E k \in DOMAIN more : HeldAt(tp, more, k, o))
            = (\E k \in DOMAIN entries : HeldAt(tp, entries, k, o))
      BY <1>1, <1>2, <1>3
    <2>2. \A k \in DOMAIN more : HeldAt(tp, more, k, o) => more[k].trade.side = s.features.side
      BY <1>1, <1>2, <1>3, <1>4 DEF ReasonOK
    <2> QED
      BY <1>4, <2>1, <2>2 DEF ReasonOK
  <1>5. NobodyHeld(tp, entries, o) => NobodyHeld(tp, more, o)
    BY <1>1, <1>2, <1>3 DEF NobodyHeld
  <1> QED
    BY <1>4, <1>5
\* What the events make of a book, field by field.
LEMMA BookedIs ==
    ASSUME NEW b, NEW setups, NEW arms, NEW entries, b = Booked(setups, arms, entries)
    PROVE  /\ b.setups = setups /\ b.arms = arms /\ b.entries = entries
           /\ b = Booked(b.setups, b.arms, b.entries)
  BY DEF Booked

LEMMA ShapeIs ==
    ASSUME NEW b, Shape(b)
    PROVE  /\ b.raised = FALSE
           /\ b \in [setups : {b.setups}, arms : {b.arms}, entries : {b.entries},
                     raised : {FALSE}]
  <1> DEFINE x == b.setups
             y == b.arms
             z == b.entries
  <1>1. b = Booked(x, y, z)
    BY DEF Shape
  <1> HIDE DEF x, y, z
  <1>2. b.raised = FALSE /\ b \in [setups : {x}, arms : {y}, entries : {z}, raised : {FALSE}]
    BY <1>1 DEF Booked
  <1> QED
    BY <1>2 DEF x, y, z

LEMMA RecordsFlip ==
    ASSUME NEW tp, NEW b, Shape(b), NEW i, NEW e, e.type = "hema_flip_detected",
           Finalized(tp[i]) \notin DOMAIN b.setups
    PROVE  Recorded(tp, b, i, e)
             = Booked(With(b.setups, Finalized(tp[i]), NewSetup(tp, i, e.side)),
                      b.arms, b.entries)
  <1> DEFINE f == With(b.setups, Finalized(tp[i]), NewSetup(tp, i, e.side))
  <1>1. Recorded(tp, b, i, e) = [b EXCEPT !.setups = f]
    BY DEF Recorded
  <1>2. b \in [setups : {b.setups}, arms : {b.arms}, entries : {b.entries}, raised : {FALSE}]
    BY ShapeIs
  <1> HIDE DEF f
  <1>3. Recorded(tp, b, i, e) = Booked(f, b.arms, b.entries)
    BY <1>1, <1>2 DEF Booked
  <1> QED
    BY <1>3 DEF f

LEMMA RecordsArm ==
    ASSUME NEW tp, NEW b, Shape(b), NEW i, NEW e, e.type = "setup_armed",
           NEW t, t = Finalized(tp[i]), t \in DOMAIN b.setups
    PROVE  Recorded(tp, b, i, e)
             = Booked([b.setups EXCEPT ![t] = ArmedRow(b.setups[t])],
                      [b.arms EXCEPT ![e.side] = t], b.entries)
  <1> DEFINE r == ArmedRow(b.setups[t])
  <1>1. Recorded(tp, b, i, e) = [b EXCEPT !.setups[t] = r, !.arms[e.side] = t]
    BY DEF Recorded, ArmedRow
  <1>2. b \in [setups : {b.setups}, arms : {b.arms}, entries : {b.entries}, raised : {FALSE}]
    BY ShapeIs
  <1> HIDE DEF r
  <1>3. Recorded(tp, b, i, e)
          = Booked([b.setups EXCEPT ![t] = r], [b.arms EXCEPT ![e.side] = t], b.entries)
    BY <1>1, <1>2 DEF Booked
  <1> QED
    BY <1>3 DEF r

LEMMA RecordsCancel ==
    ASSUME NEW tp, NEW b, Shape(b), NEW i, NEW e, e.type = "setup_cancelled",
           NEW o, o = b.arms[e.side], o # None
    PROVE  Recorded(tp, b, i, e)
             = Booked([b.setups EXCEPT ![o] = CancelledRow(b.setups[o])],
                      [b.arms EXCEPT ![e.side] = None], b.entries)
  <1> DEFINE r == CancelledRow(b.setups[o])
  <1>1. Recorded(tp, b, i, e) = [b EXCEPT !.setups[o] = r, !.arms[e.side] = None]
    BY DEF Recorded, CancelledRow
  <1>2. b \in [setups : {b.setups}, arms : {b.arms}, entries : {b.entries}, raised : {FALSE}]
    BY ShapeIs
  <1> HIDE DEF r
  <1>3. Recorded(tp, b, i, e)
          = Booked([b.setups EXCEPT ![o] = r], [b.arms EXCEPT ![e.side] = None], b.entries)
    BY <1>1, <1>2 DEF Booked
  <1> QED
    BY <1>3 DEF r

LEMMA RecordsReject ==
    ASSUME NEW tp, NEW b, Shape(b), NEW i, NEW e, e.type = "decision_rejected",
           NEW t, t = Finalized(tp[i]), t \in DOMAIN b.setups, ~b.setups[t].eligible,
           e.side \in {None, b.setups[t].features.side}
    PROVE  Recorded(tp, b, i, e)
             = Booked([b.setups EXCEPT ![t] = RejectedRow(b.setups[t])],
                      b.arms, b.entries)
  <1> DEFINE r == RejectedRow(b.setups[t])
  <1>1. Recorded(tp, b, i, e) = [b EXCEPT !.setups[t] = r]
    BY DEF Recorded, RejectedRow
  <1>2. b \in [setups : {b.setups}, arms : {b.arms}, entries : {b.entries}, raised : {FALSE}]
    BY ShapeIs
  <1> HIDE DEF r
  <1>3. Recorded(tp, b, i, e) = Booked([b.setups EXCEPT ![t] = r], b.arms, b.entries)
    BY <1>1, <1>2 DEF Booked
  <1> QED
    BY <1>3 DEF r

LEMMA RecordsOpen ==
    ASSUME NEW tp, NEW b, Shape(b), NEW i, NEW e, e.type = "trade_opened",
           NEW o, o = e.trade.origin, o \in DOMAIN b.setups,
           \A k \in DOMAIN b.entries : b.entries[k].trade.id # e.trade.id
    PROVE  Recorded(tp, b, i, e)
             = Booked([b.setups EXCEPT ![o] = OpenedRow(b.setups[o], e.trade.id)],
                      b.arms, Append(b.entries, [trade |-> e.trade, at |-> i]))
  <1> DEFINE x == Append(b.entries, [trade |-> e.trade, at |-> i])
             opened == [b EXCEPT !.entries = x]
             r == OpenedRow(b.setups[o], e.trade.id)
             r2 == OpenedRow(opened.setups[o], e.trade.id)
  <1>1. Recorded(tp, b, i, e) = [opened EXCEPT !.setups[o] = r2]
    BY DEF Recorded, OpenedRow
  <1>2. b \in [setups : {b.setups}, arms : {b.arms}, entries : {b.entries}, raised : {FALSE}]
    BY ShapeIs
  <1>3. opened = Booked(b.setups, b.arms, x)
    <2>1. opened = [b EXCEPT !.entries = x]
      OBVIOUS
    <2> HIDE DEF x, opened
    <2> QED
      BY <1>2, <2>1 DEF Booked
  <1> HIDE DEF opened, r2, x, r
  <1>4. opened \in [setups : {b.setups}, arms : {b.arms}, entries : {x}, raised : {FALSE}]
        /\ opened.setups = b.setups
    BY <1>3 DEF Booked
  <1>5. r2 = r
    BY <1>4 DEF r2, r
  <1>6. Recorded(tp, b, i, e) = Booked([b.setups EXCEPT ![o] = r], b.arms, x)
    BY <1>1, <1>4, <1>5 DEF Booked
  <1> QED
    BY <1>6 DEF r, x

\* A row with some of its fields changed.
LEMMA RowIs ==
    ASSUME NEW s, IsRow(s), s.eligible \in BOOLEAN, s.armed \in BOOLEAN, NEW id
    PROVE  /\ LET r == ArmedRow(s)
              IN /\ IsRow(r) /\ r.features = s.features /\ r.eligible /\ r.armed
                 /\ r.eligible \in BOOLEAN /\ r.armed \in BOOLEAN
                 /\ r.status = "armed" /\ r.reason = "armed"
           /\ LET r == CancelledRow(s)
              IN /\ IsRow(r) /\ r.features = s.features /\ r.eligible = s.eligible
                 /\ r.armed = s.armed /\ r.status = "cancelled" /\ r.reason = "cancelled"
           /\ LET r == RejectedRow(s)
              IN /\ IsRow(r) /\ r.features = s.features /\ r.eligible = s.eligible
                 /\ r.armed = s.armed /\ r.status = s.status /\ r.reason = "rejected"
           /\ LET r == OpenedRow(s, id)
              IN /\ IsRow(r) /\ r.features = s.features /\ r.eligible /\ r.armed = s.armed
                 /\ r.eligible \in BOOLEAN
                 /\ r.status = "opened" /\ r.reason = "opened" /\ r.trade = id
  <1>1. PICK a, b, c, d, f, g : s = [features |-> a, eligible |-> b, armed |-> c, status |-> d,
                                     trade |-> f, reason |-> g]
    BY DEF IsRow
  <1>2. /\ s.features = a /\ s.eligible = b /\ s.armed = c /\ s.status = d /\ s.trade = f
        /\ s.reason = g /\ b \in BOOLEAN /\ c \in BOOLEAN
    BY <1>1
  <1>3. s \in [features : {a}, eligible : {b}, armed : {c}, status : {d}, trade : {f},
               reason : {g}]
    BY <1>1
  <1>4. LET r == ArmedRow(s)
        IN /\ IsRow(r)
        /\ r.features = s.features /\ r.eligible /\ r.armed
        /\ r.eligible \in BOOLEAN /\ r.armed \in BOOLEAN
        /\ r.status = "armed" /\ r.reason = "armed"
    <2> DEFINE r == ArmedRow(s)
    <2>1. r \in [features : {a}, eligible : {TRUE}, armed : {TRUE}, status : {"armed"}, trade : {f},
                 reason : {"armed"}]
      BY <1>3 DEF ArmedRow
    <2> HIDE DEF r
    <2>2. /\ r.features = s.features
          /\ r = [features |-> r.features, eligible |-> r.eligible, armed |-> r.armed,
                  status |-> r.status, trade |-> r.trade, reason |-> r.reason]
      BY <1>2, <2>1
    <2>3. IsRow(r)
      BY <2>2 DEF IsRow
    <2>4. /\ r.features = s.features /\ r.eligible /\ r.armed
          /\ r.eligible \in BOOLEAN /\ r.armed \in BOOLEAN
          /\ r.status = "armed" /\ r.reason = "armed"
      BY <1>2, <2>1
    <2> QED
      BY <2>3, <2>4 DEF r
  <1>5. LET r == CancelledRow(s)
        IN /\ IsRow(r)
        /\ r.features = s.features /\ r.eligible = s.eligible
        /\ r.armed = s.armed /\ r.status = "cancelled" /\ r.reason = "cancelled"
    <2> DEFINE r == CancelledRow(s)
    <2>1. r \in [features : {a}, eligible : {b}, armed : {c}, status : {"cancelled"}, trade : {f},
                 reason : {"cancelled"}]
      BY <1>3 DEF CancelledRow
    <2> HIDE DEF r
    <2>2. /\ r.features = s.features
          /\ r = [features |-> r.features, eligible |-> r.eligible, armed |-> r.armed,
                  status |-> r.status, trade |-> r.trade, reason |-> r.reason]
      BY <1>2, <2>1
    <2>3. IsRow(r)
      BY <2>2 DEF IsRow
    <2>4. /\ r.features = s.features /\ r.eligible = s.eligible
          /\ r.armed = s.armed /\ r.status = "cancelled" /\ r.reason = "cancelled"
      BY <1>2, <2>1
    <2> QED
      BY <2>3, <2>4 DEF r
  <1>6. LET r == RejectedRow(s)
        IN /\ IsRow(r)
        /\ r.features = s.features /\ r.eligible = s.eligible
        /\ r.armed = s.armed /\ r.status = s.status /\ r.reason = "rejected"
    <2> DEFINE r == RejectedRow(s)
    <2>1. r \in [features : {a}, eligible : {b}, armed : {c}, status : {d}, trade : {f},
                 reason : {"rejected"}]
      BY <1>3 DEF RejectedRow
    <2> HIDE DEF r
    <2>2. /\ r.features = s.features
          /\ r = [features |-> r.features, eligible |-> r.eligible, armed |-> r.armed,
                  status |-> r.status, trade |-> r.trade, reason |-> r.reason]
      BY <1>2, <2>1
    <2>3. IsRow(r)
      BY <2>2 DEF IsRow
    <2>4. /\ r.features = s.features /\ r.eligible = s.eligible
          /\ r.armed = s.armed /\ r.status = s.status /\ r.reason = "rejected"
      BY <1>2, <2>1
    <2> QED
      BY <2>3, <2>4 DEF r
  <1>7. LET r == OpenedRow(s, id)
        IN /\ IsRow(r)
        /\ r.features = s.features /\ r.eligible /\ r.armed = s.armed
        /\ r.eligible \in BOOLEAN
        /\ r.status = "opened" /\ r.reason = "opened" /\ r.trade = id
    <2> DEFINE r == OpenedRow(s, id)
    <2>1. r \in [features : {a}, eligible : {TRUE}, armed : {c}, status : {"opened"}, trade : {id},
                 reason : {"opened"}]
      BY <1>3 DEF OpenedRow
    <2> HIDE DEF r
    <2>2. /\ r.features = s.features
          /\ r = [features |-> r.features, eligible |-> r.eligible, armed |-> r.armed,
                  status |-> r.status, trade |-> r.trade, reason |-> r.reason]
      BY <1>2, <2>1
    <2>3. IsRow(r)
      BY <2>2 DEF IsRow
    <2>4. /\ r.features = s.features /\ r.eligible /\ r.armed = s.armed
          /\ r.eligible \in BOOLEAN
          /\ r.status = "opened" /\ r.reason = "opened" /\ r.trade = id
      BY <1>2, <2>1
    <2> QED
      BY <2>3, <2>4 DEF r
  <1> QED
    BY <1>4, <1>5, <1>6, <1>7

LEMMA OpenedRowIs ==
    ASSUME NEW s, IsRow(s), s.eligible \in BOOLEAN, s.armed \in BOOLEAN, NEW id
    PROVE  LET r == OpenedRow(s, id)
           IN /\ IsRow(r) /\ r.features = s.features /\ r.eligible /\ r.armed = s.armed
              /\ r.eligible \in BOOLEAN
              /\ r.status = "opened" /\ r.reason = "opened" /\ r.trade = id
  BY RowIs

\* A fresh flip: a new row, not eligible so far.
LEMMA ReadsFlip ==
    ASSUME NEW tp, NEW n, TapeOK(tp, n), NEW b, NEW sl, BookOK(b, tp, sl, 0),
           NEW i \in DOMAIN tp,
           NEW t, t = Finalized(tp[i]), t \notin DOMAIN b.setups,
           NEW e, e.type = "hema_flip_detected", e.side \in Sides
    PROVE  LET c == Recorded(tp, b, i, e)
           IN /\ BookOK(c, tp, sl, t) /\ Preserved(b, c, i, t)
              /\ t \in DOMAIN c.setups /\ c.setups[t].features.side = e.side
              /\ c.setups[t].reason = None
              /\ c.entries = b.entries
  <1> DEFINE c == Recorded(tp, b, i, e)
             new == NewSetup(tp, i, e.side)
  <1>1. c = Booked(With(b.setups, t, new), b.arms, b.entries)
    BY RecordsFlip DEF BookOK
  <1>2. /\ c.setups = With(b.setups, t, new) /\ c.arms = b.arms /\ c.entries = b.entries
        /\ c = Booked(c.setups, c.arms, c.entries)
    <2> HIDE DEF c, new
    <2> QED
      BY <1>1, BookedIs
  <1> HIDE DEF c
  <1>3. /\ DOMAIN c.setups = DOMAIN b.setups \cup {t} /\ c.setups[t] = new
        /\ \A o \in DOMAIN b.setups : o # t /\ c.setups[o] = b.setups[o]
        /\ IsMap(c.setups)
    <2> DEFINE f == With(b.setups, t, new)
    <2>1. /\ DOMAIN f = DOMAIN b.setups \cup {t} /\ f[t] = new /\ IsMap(f)
          /\ \A o \in DOMAIN b.setups : o # t => f[o] = b.setups[o]
      <3> HIDE DEF new
      <3> QED
        BY DEF With, IsMap
    <2>2. c.setups = f
      BY <1>2
    <2> HIDE DEF f, new
    <2> QED
      BY <2>1, <2>2
  <1>4. Shape(c)
    BY <1>2, <1>3 DEF Shape, BookOK
  <1>5. ASSUME NEW o \in DOMAIN b.setups
        PROVE  SetupOK(c, tp, sl, t, o)
    <2>1. SetupOK(b, tp, sl, 0, o) /\ o # t /\ c.setups[o] = b.setups[o]
      BY <1>3 DEF BookOK
    <2>2. o # 0
      BY <2>1, OriginIsNat
    <2> QED
      BY <1>2, <2>1, <2>2 DEF SetupOK
  <1>6. SetupOK(c, tp, sl, t, t)
    <2>1. new.features = EntryFeatures(tp, i, e.side) /\ new.features.side = e.side
      BY DEF NewSetup, EntryFeatures
    <2>2. ~(sl.phase = "armed" /\ sl.origin = t)
      BY DEF BookOK, SlotOK, Empty, Holds, Armed
    <2>3. /\ new = [features |-> new.features, eligible |-> FALSE, armed |-> FALSE,
                    status |-> "rejected", trade |-> None, reason |-> None]
          /\ new.status = "rejected" /\ new.armed = FALSE /\ new.eligible = FALSE
          /\ new.trade = None /\ new.reason = None
          /\ IsRow(new)
      BY DEF NewSetup, IsRow
    <2> HIDE DEF new
    <2> QED
      BY <1>3, <2>1, <2>2, <2>3 DEF SetupOK, Statuses
  <1>7. \A k \in DOMAIN c.entries : EntryOK(c, tp, k)
    BY <1>2, <1>3 DEF EntryOK, BookOK
  <1>8. SlotOK(c, sl)
    BY <1>2, <1>3 DEF SlotOK, BookOK
  <1>9. BookOK(c, tp, sl, t)
    BY <1>3, <1>4, <1>5, <1>6, <1>7, <1>8 DEF BookOK
  <1>10. Preserved(b, c, i, t)
    BY <1>2, <1>3 DEF Preserved
  <1>11. c.setups[t].features.side = e.side /\ c.setups[t].reason = None
    BY <1>3 DEF NewSetup, EntryFeatures
  <1> QED
    BY <1>2, <1>3, <1>9, <1>10, <1>11 DEF c

\* A flip arms its setup.
LEMMA ReadsArm ==
    ASSUME NEW tp, NEW n, TapeOK(tp, n), NEW b, NEW t, t # 0, BookOK(b, tp, Empty, t),
           NEW i \in DOMAIN tp, t = Finalized(tp[i]), t \in DOMAIN b.setups,
           NobodyHeld(tp, b.entries, t),
           NEW e, e.type = "setup_armed", e.side \in Sides
    PROVE  LET c == Recorded(tp, b, i, e)
           IN /\ BookOK(c, tp, [phase |-> "armed", side |-> e.side, origin |-> t], 0)
              /\ Preserved(b, c, i, t)
              /\ c.entries = b.entries
  <1> DEFINE c == Recorded(tp, b, i, e)
             s == b.setups[t]
             row == ArmedRow(s)
             sl == [phase |-> "armed", side |-> e.side, origin |-> t]
  <1>0. SetupOK(b, tp, Empty, t, t) /\ Shape(b)
    BY DEF BookOK
  <1>1. c = Booked([b.setups EXCEPT ![t] = row], [b.arms EXCEPT ![e.side] = t], b.entries)
    BY <1>0, RecordsArm
  <1> HIDE DEF c, row
  <1>2. /\ c.setups = [b.setups EXCEPT ![t] = row] /\ c.arms = [b.arms EXCEPT ![e.side] = t]
        /\ c.entries = b.entries /\ c = Booked(c.setups, c.arms, c.entries)
    BY <1>1, BookedIs
  <1>3. /\ DOMAIN c.setups = DOMAIN b.setups /\ c.setups[t] = row /\ IsMap(c.setups)
        /\ \A o \in DOMAIN b.setups : o # t => c.setups[o] = b.setups[o]
    BY <1>2, ExceptIs, <1>0 DEF Shape
  <1>4. Shape(c) /\ c.arms[e.side] = t
    <2>1. DOMAIN c.arms = Sides /\ IsMap(c.arms) /\ c.arms[e.side] = t
      BY <1>0, <1>2, ExceptIs DEF Shape
    <2> QED
      BY <1>0, <1>2, <1>3, <2>1 DEF Shape
  <1>5. sl.phase = "armed" /\ sl.origin = t /\ sl.side = e.side
    OBVIOUS
  <1> HIDE DEF sl
  <1>6. ASSUME NEW o \in DOMAIN b.setups, o # t
        PROVE  SetupOK(c, tp, sl, 0, o)
    <2>1. SetupOK(b, tp, Empty, t, o) /\ c.setups[o] = b.setups[o]
      BY <1>3, <1>6 DEF BookOK
    <2>2. o # 0
      BY <2>1, OriginIsNat
    <2> QED
      BY <1>2, <1>5, <1>6, <2>1, <2>2 DEF SetupOK, Empty
  <1>7. SetupOK(c, tp, sl, 0, t)
    <2>1. /\ IsRow(row) /\ row.features = s.features /\ row.eligible /\ row.armed
          /\ row.eligible \in BOOLEAN /\ row.armed \in BOOLEAN
          /\ row.status = "armed" /\ row.reason = "armed"
      BY <1>0, RowIs, ZenonT(60) DEF SetupOK, row
    <2>3. "armed" # None
      BY NoneAssumption
    <2>5. ReasonOK(tp, c.entries, row, t)
      BY <1>2, <2>1, <2>3, ReasonGiven
    <2> HIDE DEF s
    <2>4. /\ s.features.side \in Sides
          /\ \E j \in DOMAIN tp : Finalized(tp[j]) = t
                                  /\ s.features = EntryFeatures(tp, j, s.features.side)
      BY <1>0 DEF SetupOK, s
    <2> QED
      BY <1>3, <1>5, <2>1, <2>3, <2>4, <2>5 DEF SetupOK, Statuses
  <1>8. \A k \in DOMAIN c.entries : EntryOK(c, tp, k)
    BY <1>0, <1>2, <1>3 DEF EntryOK, BookOK, SetupOK
  <1>9. SlotOK(c, sl)
    <2>1. c.setups[t].status = "armed"
      BY <1>5, <1>7 DEF SetupOK
    <2>2. Armed(sl)
      BY DEF Armed, sl
    <2> QED
      BY <1>3, <1>4, <1>5, <2>1, <2>2 DEF SlotOK
  <1>10. BookOK(c, tp, sl, 0)
    BY <1>3, <1>4, <1>6, <1>7, <1>8, <1>9 DEF BookOK
  <1>11. Preserved(b, c, i, t)
    BY <1>2, <1>3 DEF Preserved
  <1> QED
    BY <1>2, <1>10, <1>11 DEF c, sl

\* A setup that waits is cancelled.
LEMMA ReadsCancel ==
    ASSUME NEW tp, NEW n, TapeOK(tp, n), NEW b, NEW sl, NEW fresh, BookOK(b, tp, sl, fresh),
           Armed(sl), NEW i \in DOMAIN tp, NEW t,
           NEW e, e.type = "setup_cancelled", e.side = sl.side
    PROVE  LET c == Recorded(tp, b, i, e)
           IN /\ BookOK(c, tp, Empty, fresh) /\ Preserved(b, c, i, t)
              /\ c.entries = b.entries /\ DOMAIN c.setups = DOMAIN b.setups
              /\ \A o \in DOMAIN b.setups : o # sl.origin => c.setups[o] = b.setups[o]
              /\ sl.origin # fresh
  <1> DEFINE c == Recorded(tp, b, i, e)
             o == sl.origin
             row == CancelledRow(b.setups[o])
  <1>0. /\ o \in DOMAIN b.setups /\ b.setups[o].status = "armed" /\ b.arms[e.side] = o
        /\ Shape(b) /\ SetupOK(b, tp, sl, fresh, o) /\ sl.phase = "armed"
    BY DEF BookOK, SlotOK, Armed, Holds, Empty
  <1>00. o # None /\ o # fresh
    <2>1. o # fresh
      BY <1>0 DEF SetupOK
    <2> HIDE DEF o
    <2>2. o # None
      BY <1>0, OriginIsNat
    <2> QED
      BY <2>1, <2>2
  <1>1. c = Booked([b.setups EXCEPT ![o] = row], [b.arms EXCEPT ![e.side] = None], b.entries)
    <2> HIDE DEF o
    <2> QED
      BY <1>0, <1>00, RecordsCancel
  <1> HIDE DEF c, row, o
  <1>2. /\ c.setups = [b.setups EXCEPT ![o] = row] /\ c.arms = [b.arms EXCEPT ![e.side] = None]
        /\ c.entries = b.entries /\ c = Booked(c.setups, c.arms, c.entries)
    BY <1>1, BookedIs
  <1>3. /\ DOMAIN c.setups = DOMAIN b.setups /\ c.setups[o] = row /\ IsMap(c.setups)
        /\ \A y \in DOMAIN b.setups : y # o => c.setups[y] = b.setups[y]
    BY <1>2, ExceptIs, <1>0 DEF Shape
  <1>4. Shape(c)
    <2>1. DOMAIN c.arms = Sides /\ IsMap(c.arms)
      BY <1>0, <1>2, ExceptIs DEF Shape, Armed
    <2> QED
      BY <1>0, <1>2, <1>3, <2>1 DEF Shape
  <1>6. ASSUME NEW y \in DOMAIN b.setups, y # o
        PROVE  SetupOK(c, tp, Empty, fresh, y)
    <2>1. SetupOK(b, tp, sl, fresh, y) /\ c.setups[y] = b.setups[y]
      BY <1>3, <1>6 DEF BookOK
    <2> QED
      BY <1>2, <1>6, <2>1 DEF SetupOK, Empty, o
  <1>7. SetupOK(c, tp, Empty, fresh, o)
    <2> DEFINE s == b.setups[o]
    <2>1. /\ IsRow(row) /\ row.features = s.features /\ row.eligible = s.eligible
          /\ row.armed = s.armed /\ row.status = "cancelled" /\ row.reason = "cancelled"
      BY <1>0, RowIs DEF SetupOK, row
    <2>3. "cancelled" # None
      BY NoneAssumption
    <2>5. ReasonOK(tp, c.entries, row, o)
      <3>1. ReasonOK(tp, b.entries, s, o) /\ s.reason # None
        BY <1>0, <1>00 DEF SetupOK
      <3> QED
        BY <1>2, <2>1, <2>3, <3>1, ReasonChanged
    <2>4. /\ s.features.side \in Sides /\ s.armed \in BOOLEAN /\ s.armed /\ s.eligible = TRUE
          /\ \E j \in DOMAIN tp : Finalized(tp[j]) = o
                                  /\ s.features = EntryFeatures(tp, j, s.features.side)
      BY <1>0 DEF SetupOK, s
    <2> HIDE DEF s
    <2> QED
      BY <1>00, <1>3, <2>1, <2>3, <2>4, <2>5 DEF SetupOK, Statuses, Empty
  <1>8. \A k \in DOMAIN c.entries : EntryOK(c, tp, k)
    BY <1>0, <1>2, <1>3 DEF EntryOK, BookOK
  <1>9. SlotOK(c, Empty)
    BY DEF SlotOK
  <1>10. BookOK(c, tp, Empty, fresh)
    BY <1>3, <1>4, <1>6, <1>7, <1>8, <1>9 DEF BookOK
  <1>11. Preserved(b, c, i, t)
    <2>1. c.setups[o].features = b.setups[o].features /\ c.setups[o].eligible = b.setups[o].eligible
      BY <1>0, <1>3, RowIs DEF row, SetupOK
    <2> QED
      BY <1>0, <1>2, <1>3, <2>1 DEF Preserved
  <1> QED
    BY <1>00, <1>2, <1>3, <1>10, <1>11 DEF c, o

\* The flip of this bar is rejected.
LEMMA ReadsReject ==
    ASSUME NEW tp, NEW n, TapeOK(tp, n), NEW b, NEW sl, NEW t, t # 0, BookOK(b, tp, sl, t),
           NEW i \in DOMAIN tp, t = Finalized(tp[i]), t \in DOMAIN b.setups,
           NobodyHeld(tp, b.entries, t),
           NEW e, e.type = "decision_rejected", e.side \in {None, b.setups[t].features.side}
    PROVE  LET c == Recorded(tp, b, i, e)
           IN BookOK(c, tp, sl, 0) /\ Preserved(b, c, i, t) /\ c.entries = b.entries
  <1> DEFINE c == Recorded(tp, b, i, e)
             row == RejectedRow(b.setups[t])
  <1>0. /\ Shape(b) /\ SetupOK(b, tp, sl, t, t)
        /\ b.setups[t].status = "rejected" /\ ~b.setups[t].eligible
    BY DEF BookOK, SetupOK
  <1>1. c = Booked([b.setups EXCEPT ![t] = row], b.arms, b.entries)
    BY <1>0, RecordsReject
  <1> HIDE DEF c, row
  <1>2. /\ c.setups = [b.setups EXCEPT ![t] = row] /\ c.arms = b.arms
        /\ c.entries = b.entries /\ c = Booked(c.setups, c.arms, c.entries)
    BY <1>1, BookedIs
  <1>3. /\ DOMAIN c.setups = DOMAIN b.setups /\ c.setups[t] = row /\ IsMap(c.setups)
        /\ \A y \in DOMAIN b.setups : y # t => c.setups[y] = b.setups[y]
    BY <1>2, ExceptIs, <1>0 DEF Shape
  <1>4. Shape(c)
    BY <1>0, <1>2, <1>3 DEF Shape
  <1>6. ASSUME NEW y \in DOMAIN b.setups, y # t
        PROVE  SetupOK(c, tp, sl, 0, y)
    <2>1. SetupOK(b, tp, sl, t, y) /\ c.setups[y] = b.setups[y]
      BY <1>3, <1>6 DEF BookOK
    <2>2. y # 0
      BY <2>1, OriginIsNat
    <2> QED
      BY <1>2, <1>6, <2>1, <2>2 DEF SetupOK
  <1>5. /\ IsRow(row) /\ row.features = b.setups[t].features
        /\ row.eligible = b.setups[t].eligible
        /\ row.armed = b.setups[t].armed /\ row.status = b.setups[t].status
        /\ row.reason = "rejected"
    BY <1>0, RowIs DEF SetupOK, row
  <1>7. SetupOK(c, tp, sl, 0, t)
    <2>3. "rejected" # None
      BY NoneAssumption
    <2>4. ReasonOK(tp, c.entries, row, t)
      BY <1>2, <1>5, <2>3, ReasonGiven
    <2> QED
      BY <1>0, <1>3, <1>5, <2>3, <2>4 DEF SetupOK, Statuses
  <1>8. \A k \in DOMAIN c.entries : EntryOK(c, tp, k)
    BY <1>0, <1>2, <1>3 DEF EntryOK, BookOK
  <1>9. SlotOK(c, sl)
    BY <1>0, <1>2, <1>3, <1>5 DEF SlotOK, BookOK
  <1>10. BookOK(c, tp, sl, 0)
    BY <1>3, <1>4, <1>6, <1>7, <1>8, <1>9 DEF BookOK
  <1>11. Preserved(b, c, i, t)
    BY <1>2, <1>3 DEF Preserved
  <1> QED
    BY <1>2, <1>10, <1>11 DEF c

\* The flip of this bar stays without a reason, as a trade is held.
LEMMA ReadsNothing ==
    ASSUME NEW tp, NEW n, TapeOK(tp, n), NEW b, NEW sl, NEW t, BookOK(b, tp, sl, t),
           t \in DOMAIN b.setups, ReasonOK(tp, b.entries, b.setups[t], t)
    PROVE  BookOK(b, tp, sl, 0)
  <1>1. ASSUME NEW o \in DOMAIN b.setups
        PROVE  SetupOK(b, tp, sl, 0, o)
    <2>1. SetupOK(b, tp, sl, t, o)
      BY DEF BookOK
    <2>2. o # 0
      BY <2>1, OriginIsNat
    <2>3. ReasonOK(tp, b.entries, b.setups[o], o)
      BY <2>1 DEF SetupOK
    <2> QED
      BY <2>1, <2>2, <2>3 DEF SetupOK
  <1> QED
    BY <1>1 DEF BookOK

\* A trade is opened, from the flip of this bar or from the setup that waits.
LEMMA ReadsOpen ==
    ASSUME NEW tp, NEW t, TapeOK(tp, t), NEW b, NEW sl, NEW fresh, BookOK(b, tp, sl, fresh),
           NEW i \in DOMAIN tp, t = Finalized(tp[i]),
           NEW e, e.type = "trade_opened", e.trade \in Openings,
           e.trade.id = Len(b.entries) + 1, e.trade.origin \in DOMAIN b.setups,
           \/ /\ sl = Empty /\ e.trade.origin = t /\ fresh = t /\ t # 0
              /\ NobodyHeld(tp, b.entries, t)
           \/ Armed(sl) /\ e.trade.origin = sl.origin /\ fresh = 0,
           NEW new, Holds(new), new.id = e.trade.id, new.side = e.trade.side
    PROVE  LET c == Recorded(tp, b, i, e)
           IN /\ BookOK(c, tp, new, 0) /\ Preserved(b, c, i, t)
              /\ c.entries = Append(b.entries, [trade |-> e.trade, at |-> i])
  <1> DEFINE c == Recorded(tp, b, i, e)
             o == e.trade.origin
             id == e.trade.id
             x == [trade |-> e.trade, at |-> i]
             s == b.setups[o]
             row == OpenedRow(s, id)
  <1>0. /\ Shape(b) /\ SetupOK(b, tp, sl, fresh, o) /\ SlotOK(b, sl)
        /\ \A k \in DOMAIN b.entries : EntryOK(b, tp, k)
    BY DEF BookOK
  <1>a. /\ b.entries \in Seq([trade : Openings, at : Nat]) /\ x \in [trade : Openings, at : Nat]
        /\ DOMAIN b.entries = 1..Len(b.entries) /\ Len(b.entries) \in Nat
        /\ id \notin DOMAIN b.entries
    <2>1. i \in Nat
      BY BarOf
    <2>2. b.entries \in Seq([trade : Openings, at : Nat])
      BY <1>0 DEF Shape
    <2> QED
      BY <2>1, <2>2
  <1>b. \A k \in DOMAIN b.entries : b.entries[k].trade.id # id
    BY <1>0, <1>a DEF EntryOK
  <1>c. o # 0 /\ s.status \in {"rejected", "armed"}
        /\ (s.status = "armed" \/ o = t)
        /\ \A y \in DOMAIN b.setups : y # o => (y # fresh \/ y = 0) /\ b.setups[y].status # "armed"
    <2>1. o # 0
      BY <1>0, OriginIsNat
    <2>2. \A y \in DOMAIN b.setups : SetupOK(b, tp, sl, fresh, y)
      BY DEF BookOK
    <2>3. CASE sl = Empty /\ o = t /\ fresh = t /\ t # 0
      BY <1>0, <2>1, <2>2, <2>3 DEF SetupOK, Empty
    <2>4. CASE Armed(sl) /\ o = sl.origin /\ fresh = 0
      <3>1. sl.phase = "armed" /\ s.status = "armed"
        BY <1>0, <2>4 DEF Armed, SetupOK
      <3> QED
        BY <2>1, <2>2, <2>4, <3>1 DEF SetupOK
    <2> QED
      BY <2>3, <2>4
  <1>h. NobodyHeld(tp, b.entries, o)
    <2>1. CASE Armed(sl) /\ o = sl.origin /\ fresh = 0
      <3>1. sl.phase = "armed" /\ sl.origin = o
        BY <2>1 DEF Armed
      <3>2. s.reason # None /\ ReasonOK(tp, b.entries, s, o)
        BY <1>0, <1>c, <2>1, <3>1 DEF SetupOK
      <3> QED
        BY <3>2 DEF ReasonOK, NobodyHeld
    <2> QED
      BY <2>1
  <1>1. c = Booked([b.setups EXCEPT ![o] = row], b.arms, Append(b.entries, x))
    <2> HIDE DEF o
    <2>1. o = e.trade.origin /\ o \in DOMAIN b.setups
      BY DEF o
    <2> QED
      BY <1>0, <1>b, <2>1, RecordsOpen
  <1> HIDE DEF c, row
  <1>2. /\ c.setups = [b.setups EXCEPT ![o] = row] /\ c.arms = b.arms
        /\ c.entries = Append(b.entries, x) /\ c = Booked(c.setups, c.arms, c.entries)
    <2> DEFINE X == Append(b.entries, x)
               S == [b.setups EXCEPT ![o] = row]
    <2>1. c = Booked(S, b.arms, X)
      BY <1>1
    <2> HIDE DEF X, S
    <2>2. c.setups = S /\ c.arms = b.arms /\ c.entries = X /\ c = Booked(c.setups, c.arms, c.entries)
      BY <2>1, BookedIs
    <2> QED
      BY <2>2 DEF X, S
  <1>3. /\ DOMAIN c.setups = DOMAIN b.setups /\ c.setups[o] = row /\ IsMap(c.setups)
        /\ \A y \in DOMAIN b.setups : y # o => c.setups[y] = b.setups[y]
    BY <1>2, ExceptIs, <1>0 DEF Shape
  <1>5. /\ IsRow(row) /\ row.features = s.features /\ row.eligible /\ row.eligible \in BOOLEAN
        /\ row.armed = s.armed /\ row.status = "opened"
        /\ row.reason = "opened" /\ row.trade = id
    <2>1. IsRow(s) /\ s.eligible \in BOOLEAN /\ s.armed \in BOOLEAN
      BY <1>0 DEF SetupOK
    <2> DEFINE r == OpenedRow(s, id)
    <2>2. row = r
      BY DEF row
    <2> HIDE DEF s, id, row
    <2>3. /\ IsRow(r) /\ r.features = s.features /\ r.eligible /\ r.armed = s.armed
          /\ r.eligible \in BOOLEAN
          /\ r.status = "opened" /\ r.reason = "opened" /\ r.trade = id
      BY <2>1, OpenedRowIs
    <2> HIDE DEF r
    <2> QED
      BY <2>2, <2>3
  <1>d. /\ DOMAIN c.entries = DOMAIN b.entries \cup {id} /\ c.entries[id] = x
        /\ \A k \in DOMAIN b.entries : c.entries[k] = b.entries[k]
    <2> HIDE DEF x
    <2> QED
      BY <1>2, <1>a, Appended
  <1>r. /\ NobodyHeld(tp, c.entries, o)
        /\ \A y \in DOMAIN b.setups :
              ReasonOK(tp, b.entries, b.setups[y], y) => ReasonOK(tp, c.entries, b.setups[y], y)
    <2>1. t \in Nat /\ x.at = i /\ Finalized(tp[x.at]) = t
      BY DEF TapeOK
    <2>2. ASSUME NEW y \in DOMAIN b.setups
          PROVE  y \in Nat /\ y <= t
      <3>1. SetupOK(b, tp, sl, fresh, y)
        BY DEF BookOK
      <3> QED
        BY <3>1, OriginIsNat
    <2> HIDE DEF x
    <2>3. ASSUME NEW y \in Nat, y <= t
          PROVE  /\ \A u : ReasonOK(tp, b.entries, u, y) => ReasonOK(tp, c.entries, u, y)
                 /\ NobodyHeld(tp, b.entries, y) => NobodyHeld(tp, c.entries, y)
      <3> DEFINE entries == b.entries
                 more == c.entries
      <3>1. /\ entries \in Seq([trade : Openings, at : Nat])
            /\ x \in [trade : Openings, at : Nat]
            /\ Finalized(tp[x.at]) \in Nat /\ y <= Finalized(tp[x.at])
            /\ more = Append(entries, x)
        BY <1>2, <1>a, <2>1, <2>3
      <3> HIDE DEF entries, more
      <3>2. /\ \A u : ReasonOK(tp, entries, u, y) => ReasonOK(tp, more, u, y)
            /\ NobodyHeld(tp, entries, y) => NobodyHeld(tp, more, y)
        BY <3>1, ReasonEntered
      <3> QED
        BY <3>2 DEF entries, more
    <2>4. o \in Nat /\ o <= t
      BY <2>2
    <2> HIDE DEF o
    <2> QED
      BY <1>h, <2>2, <2>3, <2>4
  <1>4. Shape(c)
    <2>1. c.entries \in Seq([trade : Openings, at : Nat])
      <3> HIDE DEF x
      <3> QED
        BY <1>2, <1>a
    <2> QED
      BY <1>0, <1>2, <1>3, <2>1 DEF Shape
  <1> HIDE DEF id
  <1>e. /\ new.phase = "open" /\ x.trade.origin = o /\ x.at = i /\ x.trade.id = id
        /\ new.id = id /\ x.trade.side = new.side
    BY DEF Holds, x, o, id
  <1> HIDE DEF x, o, s
  <1>f. s = b.setups[o] /\ o \in DOMAIN b.setups
    BY DEF s, o
  <1>6. ASSUME NEW y \in DOMAIN b.setups, y # o
        PROVE  SetupOK(c, tp, new, 0, y)
    <2>1. SetupOK(b, tp, sl, fresh, y) /\ c.setups[y] = b.setups[y]
      BY <1>3, <1>6 DEF BookOK
    <2>2. y # 0 /\ y # fresh /\ b.setups[y].status # "armed"
      BY <1>6, <1>c, <2>1, OriginIsNat
    <2>3. b.setups[y].status = "opened" =>
             b.setups[y].trade \in DOMAIN c.entries
             /\ c.entries[b.setups[y].trade].trade.origin = y
      BY <2>1, <1>d DEF SetupOK
    <2>4. ReasonOK(tp, c.entries, b.setups[y], y)
      BY <1>r, <2>1, <2>2 DEF SetupOK
    <2> QED
      BY <1>e, <1>6, <2>1, <2>2, <2>3, <2>4 DEF SetupOK
  <1>7. SetupOK(c, tp, new, 0, o)
    <2>3. "opened" # None
      BY NoneAssumption
    <2>4. /\ s.features.side \in Sides /\ s.armed \in BOOLEAN
          /\ \E j \in DOMAIN tp : Finalized(tp[j]) = o
                                  /\ s.features = EntryFeatures(tp, j, s.features.side)
      BY <1>0, <1>f DEF SetupOK, o, s
    <2>5. id \in DOMAIN c.entries /\ c.entries[id].trade.origin = o
      BY <1>d, <1>e
    <2>6. ReasonOK(tp, c.entries, row, o)
      BY <1>r, <1>5, <2>3, ReasonGiven
    <2> QED
      BY <1>c, <1>e, <1>3, <1>5, <2>3, <2>4, <2>5, <2>6 DEF SetupOK, Statuses
  <1>8. ASSUME NEW k \in DOMAIN c.entries
        PROVE  EntryOK(c, tp, k)
    <2>1. CASE k = id
      BY <1>3, <1>5, <1>d, <1>e, <1>f, <2>1 DEF EntryOK
    <2>2. CASE k \in DOMAIN b.entries /\ k # id
      <3>1. EntryOK(b, tp, k) /\ c.entries[k] = b.entries[k]
        BY <1>0, <1>d, <2>2
      <3>2. b.entries[k].trade.origin # o
        BY <1>c, <1>f, <3>1 DEF EntryOK
      <3> QED
        BY <1>3, <3>1, <3>2 DEF EntryOK
    <2> QED
      BY <1>d, <2>1, <2>2
  <1>9. SlotOK(c, new)
    BY <1>d, <1>e DEF SlotOK
  <1>10. BookOK(c, tp, new, 0)
    BY <1>3, <1>4, <1>6, <1>7, <1>8, <1>9 DEF BookOK
  <1>11. Preserved(b, c, i, t)
    <2>1. s.status = "armed" => row.eligible = s.eligible
      BY <1>0, <1>5 DEF SetupOK, s, o
    <2>2. \A k \in DOMAIN c.entries : k \in DOMAIN b.entries \/ c.entries[k].at = i
      BY <1>d, <1>e
    <2>3. ASSUME NEW y \in DOMAIN b.setups \ {t}
          PROVE  /\ y \in DOMAIN c.setups
                 /\ c.setups[y].features = b.setups[y].features
                 /\ c.setups[y].eligible = b.setups[y].eligible
                 /\ c.setups[y] = b.setups[y] \/ b.setups[y].status = "armed"
      BY <1>3, <1>5, <1>c, <1>f, <2>1
    <2> QED
      BY <1>d, <1>3, <2>2, <2>3 DEF Preserved
  <1> QED
    BY <1>2, <1>10, <1>11 DEF c, x

\* A trade's end changes no row of the first pass.
LEMMA ReadsClose ==
    ASSUME NEW tp, NEW b, NEW i, NEW e, e.type = "trade_closed"
    PROVE  Recorded(tp, b, i, e) = b
  BY DEF Recorded

\* Without its slot a book is as good as before: once a trade is over, and
\* when the slot's setup has been cancelled, nothing refers to the slot.
LEMMA SlotCleared ==
    ASSUME NEW b, NEW tp, NEW sl, NEW fresh, BookOK(b, tp, sl, fresh), ~Armed(sl)
    PROVE  BookOK(b, tp, Empty, fresh)
  <1>1. SlotOK(b, Empty)
    BY DEF SlotOK
  <1>2. sl.phase # "armed"
    BY DEF BookOK, SlotOK, Holds, Empty
  <1>3. \A o \in DOMAIN b.setups : SetupOK(b, tp, Empty, fresh, o)
    BY <1>2 DEF BookOK, SetupOK, Empty
  <1> QED
    BY <1>1, <1>3 DEF BookOK

-----------------------------------------------------------------------------
(* The events of the trades on a tape that grows.                          *)

NewEvents(events, type) == {e \in Range(events) : e.type = type}

LateEvents(tp, bar, type) == {<<Len(tp) + 1, e>> : e \in NewEvents(bar.events, type)}

LEMMA EventsGrow ==
    ASSUME NEW tp \in Seq(Bars), NEW bar, NEW type
    PROVE  /\ EventsOf(Append(tp, bar), type) = EventsOf(tp, type) \cup LateEvents(tp, bar, type)
           /\ \A x \in EventsOf(tp, type) :
                 x = <<x[1], x[2]>> /\ x[1] \in DOMAIN tp /\ x[2].type = type
  <1> DEFINE tq == Append(tp, bar)
             N == Len(tp)
  <1>1. /\ N \in Nat /\ DOMAIN tp = 1..N /\ DOMAIN tq = 1..N + 1 /\ tq[N + 1] = bar
        /\ \A i \in 1..N : tq[i] = tp[i]
    BY Appended
  <1> HIDE DEF tq, N
  <1>2. \A x : x \in EventsOf(tp, type) <=>
               \E i \in 1..N : \E e \in Range(tp[i].events) : x = <<i, e>> /\ e.type = type
    BY <1>1 DEF EventsOf
  <1>3. \A x : x \in EventsOf(tq, type) <=>
               \E i \in 1..N + 1 : \E e \in Range(tq[i].events) : x = <<i, e>> /\ e.type = type
    BY <1>1 DEF EventsOf
  <1>4. EventsOf(tq, type)
          = EventsOf(tp, type) \cup {<<N + 1, e>> : e \in NewEvents(bar.events, type)}
    <2>1. \A i : i \in 1..N + 1 <=> i \in 1..N \/ i = N + 1
      BY <1>1
    <2> QED
      BY <1>1, <1>2, <1>3, <2>1 DEF NewEvents
  <1> QED
    BY <1>1, <1>2, <1>4 DEF tq, N, LateEvents

\* Who is held over a bar of the past does not depend on the bars after it.
LEMMA ReasonKept ==
    ASSUME NEW tp, NEW n, TapeOK(tp, n), NEW bar \in Bars, bar.open = n,
           NEW entries, \A k \in DOMAIN entries : entries[k].at \in DOMAIN tp,
           NEW o \in Nat, o <= n, NEW s, ReasonOK(tp, entries, s, o)
    PROVE  ReasonOK(Append(tp, bar), entries, s, o)
  <1> DEFINE tq == Append(tp, bar)
             N == Len(tp)
  <1>1. /\ tp \in Seq(Bars) /\ n \in Nat /\ N \in Nat /\ DOMAIN tp = 1..N
        /\ \A i \in DOMAIN tp : tq[i] = tp[i]
        /\ tq[N + 1] = bar
    BY Appended DEF TapeOK
  <1>2. /\ EventsOf(tq, "trade_closed")
             = EventsOf(tp, "trade_closed") \cup LateEvents(tp, bar, "trade_closed")
        /\ \A x \in EventsOf(tp, "trade_closed") : x[1] \in DOMAIN tp
    BY <1>1, EventsGrow
  <1>3. \A x \in LateEvents(tp, bar, "trade_closed") : x[1] = N + 1
    BY DEF LateEvents
  <1>4. Finalized(tq[N + 1]) = n + 1
    BY <1>1 DEF Finalized
  <1> HIDE DEF tq, N
  <1>5. ASSUME NEW k \in DOMAIN entries
        PROVE  HeldAt(tq, entries, k, o) = HeldAt(tp, entries, k, o)
    <2>1. tq[entries[k].at] = tp[entries[k].at]
      BY <1>1
    <2>2. \A x \in EventsOf(tp, "trade_closed") : tq[x[1]] = tp[x[1]]
      BY <1>1, <1>2
    <2>3. \A x \in LateEvents(tp, bar, "trade_closed") : o < Finalized(tq[x[1]])
      BY <1>1, <1>3, <1>4
    <2> QED
      BY <1>2, <2>1, <2>2, <2>3 DEF HeldAt
  <1> HIDE DEF HeldAt
  <1>6. (\E k \in DOMAIN entries : HeldAt(tq, entries, k, o))
          = (\E k \in DOMAIN entries : HeldAt(tp, entries, k, o))
    BY <1>5
  <1>7. ReasonOK(tq, entries, s, o)
    BY <1>5, <1>6 DEF ReasonOK
  <1> QED
    BY <1>7 DEF tq

\* The rows stay right when a bar is added that has not been read.
LEMMA BookKept ==
    ASSUME NEW tp, NEW n, TapeOK(tp, n), NEW bar \in Bars, bar.open = n,
           NEW b, NEW sl, NEW fresh, BookOK(b, tp, sl, fresh)
    PROVE  /\ BookOK(b, Append(tp, bar), sl, fresh)
           /\ n + 1 \notin DOMAIN b.setups
           /\ Finalized(Append(tp, bar)[Len(tp) + 1]) = n + 1
  <1> DEFINE tq == Append(tp, bar)
  <1>1. tp \in Seq(Bars) /\ n \in Nat
    BY DEF TapeOK
  <1>2. /\ \A i \in DOMAIN tp : tq[i] = tp[i] /\ i \in DOMAIN tq
        /\ tq[Len(tp) + 1] = bar
    BY <1>1, Appended
  <1>3. ASSUME NEW o \in DOMAIN b.setups
        PROVE  SetupOK(b, tq, sl, fresh, o)
    <2>1. SetupOK(b, tp, sl, fresh, o)
      BY DEF BookOK
    <2>2. PICK i \in DOMAIN tp : Finalized(tp[i]) = o
              /\ b.setups[o].features = EntryFeatures(tp, i, b.setups[o].features.side)
      BY <2>1 DEF SetupOK
    <2>3. Finalized(tq[i]) = o /\ i \in DOMAIN tq
          /\ b.setups[o].features = EntryFeatures(tq, i, b.setups[o].features.side)
      BY <1>2, <2>2, FeaturesKept
    <2>4. o # fresh => ReasonOK(tq, b.entries, b.setups[o], o)
      <3>1. \A k \in DOMAIN b.entries : b.entries[k].at \in DOMAIN tp
        BY DEF BookOK, EntryOK
      <3>2. o \in Nat /\ o <= n
        BY <2>1, OriginIsNat
      <3> QED
        BY <2>1, <3>1, <3>2, ReasonKept DEF SetupOK
    <2> HIDE DEF tq
    <2> QED
      BY <2>1, <2>3, <2>4 DEF SetupOK
  <1>4. \A k \in DOMAIN b.entries : EntryOK(b, tq, k)
    BY <1>2 DEF EntryOK, BookOK
  <1>5. BookOK(b, tq, sl, fresh)
    BY <1>3, <1>4 DEF BookOK
  <1>6. n + 1 \notin DOMAIN b.setups
    <2>1. ASSUME n + 1 \in DOMAIN b.setups
          PROVE  FALSE
      <3>1. SetupOK(b, tp, sl, fresh, n + 1)
        BY <2>1 DEF BookOK
      <3>2. n + 1 <= n
        BY <2>1, <3>1, OriginIsNat
      <3> QED
        BY <1>1, <3>2
    <2> QED
      BY <2>1
  <1>7. Finalized(tq[Len(tp) + 1]) = n + 1
    BY <1>2 DEF Finalized
  <1> QED
    BY <1>5, <1>6, <1>7

-----------------------------------------------------------------------------
(* The inductive invariant.                                                *)

OpenedBy(x) == [type |-> "trade_opened", side |-> x.trade.side, trade |-> x.trade]

\* A trade that the slot does not hold has been closed.
Resolved(tp, entries, sl) ==
    \A k \in DOMAIN entries :
       \/ Holds(sl) /\ k = sl.id
       \/ \E x \in EventsOf(tp, "trade_closed") : x[2].trade = k

\* The events that open trades are the entries, in their order; one that closes
\* a trade comes after it, once, and not while the slot still holds the trade.
EventsOK(tp, entries, sl) ==
    /\ EventsOf(tp, "trade_opened") = {<<entries[k].at, OpenedBy(entries[k])>> : k \in DOMAIN entries}
    /\ \A x \in EventsOf(tp, "trade_closed") :
          /\ x[1] \in DOMAIN tp /\ x[2].trade \in DOMAIN entries
          /\ entries[x[2].trade].at < x[1]
          /\ x[2].r \in Int /\ x[2].reasons \in Seq(Reasons) /\ x[2].reasons # <<>>
          /\ Holds(sl) => x[2].trade # sl.id
    /\ \A x, y \in EventsOf(tp, "trade_closed") : x[2].trade = y[2].trade => x = y
    /\ Resolved(tp, entries, sl)

ResearchIInv ==
    /\ TapeOK(tape, now)
    /\ data = Build(tape)
    /\ BookOK(Collected(tape), tape, slot, 0)
    /\ EventsOK(tape, Collected(tape).entries, slot)

LEMMA TradesGrow ==
    ASSUME NEW tp \in Seq(Bars), NEW bar
    PROVE  /\ EventsOf(Append(tp, bar), "trade_opened")
                = EventsOf(tp, "trade_opened") \cup LateEvents(tp, bar, "trade_opened")
           /\ EventsOf(Append(tp, bar), "trade_closed")
                = EventsOf(tp, "trade_closed") \cup LateEvents(tp, bar, "trade_closed")
           /\ \A x \in EventsOf(tp, "trade_closed") : x = <<x[1], x[2]>> /\ x[1] \in DOMAIN tp
           /\ \A type : /\ NewEvents(bar.events, type) = {} => LateEvents(tp, bar, type) = {}
                       /\ \A e : NewEvents(bar.events, type) = {e} =>
                             LateEvents(tp, bar, type) = {<<Len(tp) + 1, e>>}
  <1>1. \A type : EventsOf(Append(tp, bar), type)
                     = EventsOf(tp, type) \cup LateEvents(tp, bar, type)
    BY EventsGrow
  <1>2. \A type : \A x \in EventsOf(tp, type) : x = <<x[1], x[2]>> /\ x[1] \in DOMAIN tp
    BY EventsGrow
  <1>3. \A type : /\ NewEvents(bar.events, type) = {} => LateEvents(tp, bar, type) = {}
                  /\ \A e : NewEvents(bar.events, type) = {e} =>
                        LateEvents(tp, bar, type) = {<<Len(tp) + 1, e>>}
    BY DEF LateEvents
  <1> HIDE DEF NewEvents
  <1> QED
    BY <1>1, <1>2, <1>3, Zenon

LEMMA ShortRange ==
    ASSUME NEW x, NEW y, NEW z
    PROVE  /\ Range(<<>>) = {} /\ Range(<<x>>) = {x} /\ Range(<<x, y>>) = {x, y}
           /\ Range(<<x, y, z>>) = {x, y, z}
  BY DEF Range

\* A bar on which no trade is opened or closed.
LEMMA EventsQuiet ==
    ASSUME NEW tp \in Seq(Bars), NEW bar, NEW entries, NEW sl, EventsOK(tp, entries, sl),
           NewEvents(bar.events, "trade_opened") = {},
           NewEvents(bar.events, "trade_closed") = {},
           NEW new, new = sl \/ (~Holds(new) /\ ~Holds(sl))
    PROVE  EventsOK(Append(tp, bar), entries, new)
  <1> DEFINE tq == Append(tp, bar)
  <1>1. /\ EventsOf(tq, "trade_opened") = EventsOf(tp, "trade_opened")
        /\ EventsOf(tq, "trade_closed") = EventsOf(tp, "trade_closed")
    <2>1. /\ EventsOf(tq, "trade_opened")
               = EventsOf(tp, "trade_opened") \cup LateEvents(tp, bar, "trade_opened")
          /\ EventsOf(tq, "trade_closed")
               = EventsOf(tp, "trade_closed") \cup LateEvents(tp, bar, "trade_closed")
      BY TradesGrow, Zenon
    <2>2. LateEvents(tp, bar, "trade_opened") = {}
      BY TradesGrow, Zenon
    <2>3. LateEvents(tp, bar, "trade_closed") = {}
      BY TradesGrow, Zenon
    <2> HIDE DEF tq
    <2> QED
      BY <2>1, <2>2, <2>3
  <1>2. \A i \in DOMAIN tp : i \in DOMAIN tq
    BY Appended
  <1> HIDE DEF tq
  <1>3. Resolved(tq, entries, new)
    BY <1>1 DEF EventsOK, Resolved
  <1>4. EventsOK(tq, entries, new)
    BY <1>1, <1>2, <1>3 DEF EventsOK
  <1> QED
    BY <1>4 DEF tq

\* A bar on which a trade is opened.
LEMMA EventsOpened ==
    ASSUME NEW tp \in Seq(Bars), NEW bar, NEW entries, entries \in Seq([trade : Openings, at : Nat]),
           NEW sl, EventsOK(tp, entries, sl), ~Holds(sl),
           NEW x \in [trade : Openings, at : Nat], x.at = Len(tp) + 1,
           NewEvents(bar.events, "trade_opened") = {OpenedBy(x)},
           NewEvents(bar.events, "trade_closed") = {},
           NEW new, Holds(new), new.id = Len(entries) + 1
    PROVE  EventsOK(Append(tp, bar), Append(entries, x), new)
  <1> DEFINE tq == Append(tp, bar)
             more == Append(entries, x)
  <1>1. /\ EventsOf(tq, "trade_opened") = EventsOf(tp, "trade_opened")
                                           \cup {<<Len(tp) + 1, OpenedBy(x)>>}
        /\ EventsOf(tq, "trade_closed") = EventsOf(tp, "trade_closed")
    <2>1. /\ EventsOf(tq, "trade_opened")
               = EventsOf(tp, "trade_opened") \cup LateEvents(tp, bar, "trade_opened")
          /\ EventsOf(tq, "trade_closed")
               = EventsOf(tp, "trade_closed") \cup LateEvents(tp, bar, "trade_closed")
      BY TradesGrow, Zenon
    <2>2. LateEvents(tp, bar, "trade_opened") = {<<Len(tp) + 1, OpenedBy(x)>>}
      BY TradesGrow, Zenon
    <2>3. LateEvents(tp, bar, "trade_closed") = {}
      BY TradesGrow, Zenon
    <2> HIDE DEF tq
    <2> QED
      BY <2>1, <2>2, <2>3
  <1>2. \A i \in DOMAIN tp : i \in DOMAIN tq
    BY Appended
  <1>3. /\ DOMAIN more = DOMAIN entries \cup {Len(entries) + 1}
        /\ Len(entries) + 1 \notin DOMAIN entries
        /\ more[Len(entries) + 1] = x /\ \A k \in DOMAIN entries : more[k] = entries[k]
    <2>1. Len(entries) \in Nat /\ DOMAIN entries = 1..Len(entries)
          /\ DOMAIN more = 1..Len(entries) + 1
          /\ more[Len(entries) + 1] = x /\ \A k \in DOMAIN entries : more[k] = entries[k]
      BY Appended
    <2> HIDE DEF more
    <2> QED
      BY <2>1
  <1> HIDE DEF tq, more
  <1>4. EventsOf(tq, "trade_opened") = {<<more[k].at, OpenedBy(more[k])>> : k \in DOMAIN more}
    <2>1. EventsOf(tp, "trade_opened")
            = {<<entries[k].at, OpenedBy(entries[k])>> : k \in DOMAIN entries}
      BY DEF EventsOK
    <2> QED
      BY <1>1, <1>3, <2>1
  <1>5. Resolved(tq, more, new)
    BY <1>1, <1>3 DEF EventsOK, Resolved
  <1>6. EventsOK(tq, more, new)
    BY <1>1, <1>2, <1>3, <1>4, <1>5 DEF EventsOK
  <1> QED
    BY <1>6 DEF tq, more

\* A bar on which the slot's trade is closed.
LEMMA EventsClosed ==
    ASSUME NEW tp \in Seq(Bars), NEW bar, NEW entries,
           \A k \in DOMAIN entries : entries[k].at \in DOMAIN tp,
           NEW sl, Holds(sl), sl.id \in DOMAIN entries, EventsOK(tp, entries, sl),
           NEW e, e.trade = sl.id, e.r \in Int, e.reasons \in Seq(Reasons), e.reasons # <<>>,
           NewEvents(bar.events, "trade_opened") = {},
           NewEvents(bar.events, "trade_closed") = {e}
    PROVE  EventsOK(Append(tp, bar), entries, Empty)
  <1> DEFINE tq == Append(tp, bar)
             N == Len(tp)
  <1>1. /\ EventsOf(tq, "trade_opened") = EventsOf(tp, "trade_opened")
        /\ EventsOf(tq, "trade_closed") = EventsOf(tp, "trade_closed") \cup {<<N + 1, e>>}
    <2>1. /\ EventsOf(tq, "trade_opened")
               = EventsOf(tp, "trade_opened") \cup LateEvents(tp, bar, "trade_opened")
          /\ EventsOf(tq, "trade_closed")
               = EventsOf(tp, "trade_closed") \cup LateEvents(tp, bar, "trade_closed")
      BY TradesGrow, Zenon
    <2>2. LateEvents(tp, bar, "trade_opened") = {}
      BY TradesGrow, Zenon
    <2>3. LateEvents(tp, bar, "trade_closed") = {<<N + 1, e>>}
      BY TradesGrow, Zenon
    <2> HIDE DEF tq
    <2> QED
      BY <2>1, <2>2, <2>3
  <1>2. /\ DOMAIN tq = 1..N + 1 /\ DOMAIN tp = 1..N /\ N \in Nat
        /\ \A x \in EventsOf(tp, "trade_closed") : x = <<x[1], x[2]>>
    BY Appended, TradesGrow
  <1> HIDE DEF tq, N
  <1>3. ASSUME NEW x \in EventsOf(tq, "trade_closed")
        PROVE  /\ x[1] \in DOMAIN tq /\ x[2].trade \in DOMAIN entries
               /\ entries[x[2].trade].at < x[1]
               /\ x[2].r \in Int /\ x[2].reasons \in Seq(Reasons) /\ x[2].reasons # <<>>
    <2>1. CASE x = <<N + 1, e>>
      <3>1. x[1] = N + 1 /\ x[2] = e
        BY <2>1
      <3>2. entries[e.trade].at \in 1..N
        BY <1>2
      <3> QED
        BY <1>2, <3>1, <3>2
    <2>2. CASE x \in EventsOf(tp, "trade_closed")
      BY <1>2, <2>2 DEF EventsOK
    <2> QED
      BY <1>1, <2>1, <2>2
  <1>4. ASSUME NEW x \in EventsOf(tq, "trade_closed"), NEW y \in EventsOf(tq, "trade_closed"),
               x[2].trade = y[2].trade
        PROVE  x = y
    <2>1. \A z \in EventsOf(tp, "trade_closed") : z[2].trade # e.trade
      BY DEF EventsOK
    <2>2. \A z \in EventsOf(tq, "trade_closed") :
             z \in EventsOf(tp, "trade_closed") \/ (z = <<N + 1, e>> /\ z[2] = e)
      BY <1>1
    <2> QED
      BY <1>4, <2>1, <2>2 DEF EventsOK
  <1>5. ~Holds(Empty)
    BY DEF Empty, Holds
  <1>6. Resolved(tq, entries, Empty)
    <2>1. <<N + 1, e>> \in EventsOf(tq, "trade_closed") /\ <<N + 1, e>>[2].trade = sl.id
      BY <1>1
    <2> QED
      BY <1>1, <2>1 DEF EventsOK, Resolved
  <1>7. EventsOK(tq, entries, Empty)
    BY <1>1, <1>3, <1>4, <1>5, <1>6 DEF EventsOK
  <1> QED
    BY <1>7 DEF tq

\* On the last bar nobody is held if the slot is without a trade.
LEMMA NobodyIsHeld ==
    ASSUME NEW tp, NEW n, TapeOK(tp, n), NEW entries, NEW sl, ~Holds(sl),
           Resolved(tp, entries, sl),
           \A x \in EventsOf(tp, "trade_closed") : x[1] \in DOMAIN tp
    PROVE  NobodyHeld(tp, entries, n)
  <1>1. ASSUME NEW k \in DOMAIN entries, HeldAt(tp, entries, k, n)
        PROVE  FALSE
    <2>1. PICK x \in EventsOf(tp, "trade_closed") : x[2].trade = k
      BY DEF Resolved
    <2>2. n < Finalized(tp[x[1]])
      BY <1>1, <2>1 DEF HeldAt
    <2>3. tp[x[1]].open \in Nat /\ tp[x[1]].open < n /\ n \in Nat
      BY BarOf
    <2> QED
      BY <2>2, <2>3 DEF Finalized
  <1> QED
    BY <1>1 DEF NobodyHeld

\* One more bar answers for no trade that is over already.
LEMMA NobodyIsHeldNext ==
    ASSUME NEW tp, NEW n, TapeOK(tp, n), NEW bar \in Bars, bar.open = n,
           NEW entries, NEW sl, ~Holds(sl), EventsOK(tp, entries, sl)
    PROVE  NobodyHeld(Append(tp, bar), entries, n + 1)
  <1> DEFINE tq == Append(tp, bar)
  <1>1. tp \in Seq(Bars) /\ TapeOK(tq, n + 1)
    BY TapeGrows DEF TapeOK
  <1>2. EventsOf(tq, "trade_closed")
          = EventsOf(tp, "trade_closed") \cup LateEvents(tp, bar, "trade_closed")
    BY <1>1, EventsGrow
  <1>3. \A x \in EventsOf(tq, "trade_closed") : x[1] \in DOMAIN tq
    <2>1. \A i \in DOMAIN tp : i \in DOMAIN tq
      BY <1>1, Appended
    <2>2. Len(tp) + 1 \in DOMAIN tq
      BY <1>1, Appended
    <2> HIDE DEF tq
    <2> QED
      BY <1>2, <2>1, <2>2 DEF EventsOK, LateEvents
  <1> HIDE DEF tq
  <1>4. Resolved(tq, entries, sl)
    BY <1>2 DEF EventsOK, Resolved
  <1>5. NobodyHeld(tq, entries, n + 1)
    BY <1>1, <1>3, <1>4, NobodyIsHeld
  <1> QED
    BY <1>5 DEF tq

\* The trade that the slot holds is the one held over the last bar, if it was
\* entered before it.
LEMMA SlotIsHeld ==
    ASSUME NEW tp, NEW n, TapeOK(tp, n), NEW entries, NEW sl, Holds(sl),
           EventsOK(tp, entries, sl), sl.id \in DOMAIN entries,
           Finalized(tp[entries[sl.id].at]) < n,
           NEW s, s.reason = None, s.features.side = entries[sl.id].trade.side
    PROVE  ReasonOK(tp, entries, s, n)
  <1>1. HeldAt(tp, entries, sl.id, n)
    BY DEF HeldAt, EventsOK
  <1>2. ASSUME NEW k \in DOMAIN entries, HeldAt(tp, entries, k, n), k # sl.id
        PROVE  FALSE
    <2>1. PICK x \in EventsOf(tp, "trade_closed") : x[2].trade = k
      BY <1>2 DEF EventsOK, Resolved
    <2>2. n < Finalized(tp[x[1]]) /\ x[1] \in DOMAIN tp
      BY <1>2, <2>1 DEF HeldAt, EventsOK
    <2>3. tp[x[1]].open \in Nat /\ tp[x[1]].open < n /\ n \in Nat
      BY <2>2, BarOf
    <2> QED
      BY <2>2, <2>3 DEF Finalized
  <1>3. \A k \in DOMAIN entries : HeldAt(tp, entries, k, n) => k = sl.id
    BY <1>2
  <1> HIDE DEF HeldAt
  <1> QED
    BY <1>1, <1>3 DEF ReasonOK

-----------------------------------------------------------------------------
(* Every step keeps the invariant.                                         *)

BarWith(trend, quote, events) ==
    [open |-> now, quote |-> quote, events |-> events, trend |-> trend,
     turn |-> IF trend = Trend THEN None ELSE trend]

\* What one more bar leads to.
Grown ==
    /\ ResearchIInv'
    /\ now' = now + 1 /\ data' = Build(tape')
    /\ \E bar \in Bars : bar.open = now /\ tape' = Append(tape, bar)
    /\ Preserved(Collected(tape), Collected(tape'), Len(tape) + 1, now + 1)

LEMMA BarBegins ==
    ASSUME ResearchIInv, NEW trend \in Sides, NEW quote \in AllQuotes,
           NEW events \in Seq(Events), Bar(trend, quote, events),
           NEW bar, bar = BarWith(trend, quote, events)
    PROVE  /\ bar \in Bars /\ bar.open = now /\ bar.events = events
           /\ tape' = Append(tape, bar) /\ now' = now + 1 /\ data' = Build(tape')
           /\ TapeOK(tape', now') /\ now + 1 \in Nat /\ now + 1 # 0
           /\ BookOK(Collected(tape), tape', slot, 0)
           /\ now + 1 \notin DOMAIN Collected(tape).setups
           /\ Len(tape) + 1 \in DOMAIN tape' /\ tape'[Len(tape) + 1] = bar
           /\ tape'[Len(tape) + 1].events = events
           /\ Finalized(tape'[Len(tape) + 1]) = now + 1
           /\ Collected(tape') = Traced(tape', Collected(tape), Len(tape) + 1)
           /\ tape \in Seq(Bars) /\ Len(tape) \in Nat
  <1>1. TapeOK(tape, now) /\ tape \in Seq(Bars) /\ now \in Nat /\ Len(tape) \in Nat
    BY DEF ResearchIInv, TapeOK
  <1>2. bar \in Bars /\ bar.open = now /\ bar.events = events
    BY <1>1 DEF BarWith, Bars
  <1>3. tape' = Append(tape, bar) /\ now' = now + 1 /\ data' = Build(tape')
    BY DEF Bar, BarWith
  <1>4. Len(tape) + 1 \in DOMAIN tape' /\ tape'[Len(tape) + 1] = bar
    BY <1>1, <1>3, Appended
  <1>5. TapeOK(tape', now')
    BY <1>1, <1>2, <1>3, TapeGrows
  <1>6. /\ BookOK(Collected(tape), tape', slot, 0)
        /\ now + 1 \notin DOMAIN Collected(tape).setups
        /\ Finalized(tape'[Len(tape) + 1]) = now + 1
    BY <1>1, <1>2, <1>3, BookKept DEF ResearchIInv
  <1>7. Collected(tape') = Traced(tape', Collected(tape), Len(tape) + 1)
    BY <1>1, <1>2, <1>3, CollectedGrows
  <1>8. now + 1 \in Nat /\ now + 1 # 0
    BY <1>1
  <1> QED
    BY <1>1, <1>2, <1>3, <1>4, <1>5, <1>6, <1>7, <1>8

LEMMA BarEnds ==
    ASSUME NEW bar \in Bars, bar.open = now, tape' = Append(tape, bar), now' = now + 1,
           data' = Build(tape'), TapeOK(tape', now'),
           BookOK(Collected(tape'), tape', slot', 0),
           EventsOK(tape', Collected(tape').entries, slot'),
           Preserved(Collected(tape), Collected(tape'), Len(tape) + 1, now + 1)
    PROVE  Grown
  BY DEF Grown, ResearchIInv

LEMMA TrendIs ==
    ASSUME ResearchIInv
    PROVE  Trend \in Sides
  <1>1. tape \in Seq(Bars)
    BY DEF ResearchIInv, TapeOK
  <1>2. CASE tape # <<>>
    <2>1. Len(tape) \in DOMAIN tape
      BY <1>1, <1>2
    <2>2. tape[Len(tape)] \in Bars
      BY <1>1, <2>1
    <2> QED
      BY <1>2, <2>2 DEF Trend, Last, Bars
  <1> QED
    BY <1>2, QuotesAssumption DEF Trend

\* The sequences of events of a bar.
LEMMA TwoEvents ==
    ASSUME NEW x, NEW y
    PROVE  <<x>> \o <<y>> = <<x, y>>
  <1> DEFINE s == <<x>> \o <<y>>
             r == <<x, y>>
             S == {x, y}
  <1>1. s \in Seq(S) /\ Len(s) = 2 /\ s[1] = x /\ s[2] = y
    OBVIOUS
  <1>2. r \in Seq(S) /\ Len(r) = 2 /\ r[1] = x /\ r[2] = y
    OBVIOUS
  <1> HIDE DEF s, r, S
  <1>3. Len(s) = Len(r) /\ \A i \in 1..Len(s) : s[i] = r[i]
    BY <1>1, <1>2
  <1>4. s = r
    BY <1>1, <1>2, <1>3, SeqEqual
  <1> QED
    BY <1>4 DEF s, r

LEMMA ThreeEvents ==
    ASSUME NEW x, NEW y, NEW z
    PROVE  <<x, y>> \o <<z>> = <<x, y, z>>
  <1> DEFINE s == <<x, y>> \o <<z>>
             r == <<x, y, z>>
             S == {x, y, z}
  <1>1. s \in Seq(S) /\ Len(s) = 3 /\ s[1] = x /\ s[2] = y /\ s[3] = z
    OBVIOUS
  <1>2. r \in Seq(S) /\ Len(r) = 3 /\ r[1] = x /\ r[2] = y /\ r[3] = z
    OBVIOUS
  <1> HIDE DEF s, r, S
  <1>3. Len(s) = Len(r) /\ \A i \in 1..Len(s) : s[i] = r[i]
    BY <1>1, <1>2
  <1>4. s = r
    BY <1>1, <1>2, <1>3, SeqEqual
  <1> QED
    BY <1>4 DEF s, r

\* A book with the row of a flip that no event has answered yet.
FlipAs(b, c, tp, sl, i, t, flip) ==
    /\ ReadAs(b, c, tp, sl, t, i, t)
    /\ t \in DOMAIN c.setups
    /\ c.setups[t].features.side = flip.side /\ c.setups[t].reason = None

\* The lemmas on events in the form the steps use.
LEMMA ReadsFlipAs ==
    ASSUME NEW tp, NEW n, TapeOK(tp, n), NEW b, NEW sl, BookOK(b, tp, sl, 0),
           NEW i \in DOMAIN tp,
           NEW t, t = Finalized(tp[i]), t \notin DOMAIN b.setups,
           NEW e, e.type = "hema_flip_detected", e.side \in Sides
    PROVE  FlipAs(b, Recorded(tp, b, i, e), tp, sl, i, t, e)
  BY ReadsFlip DEF ReadAs, FlipAs

LEMMA ReadsArmAs ==
    ASSUME NEW tp, NEW n, TapeOK(tp, n), NEW b, NEW t, t # 0, BookOK(b, tp, Empty, t),
           NEW i \in DOMAIN tp, t = Finalized(tp[i]), t \in DOMAIN b.setups,
           NobodyHeld(tp, b.entries, t),
           NEW e, e.type = "setup_armed", e.side \in Sides,
           NEW sl, sl = [phase |-> "armed", side |-> e.side, origin |-> t]
    PROVE  ReadAs(b, Recorded(tp, b, i, e), tp, sl, 0, i, t)
  <1>1. LET c == Recorded(tp, b, i, e)
        IN /\ BookOK(c, tp, [phase |-> "armed", side |-> e.side, origin |-> t], 0)
           /\ Preserved(b, c, i, t)
           /\ c.entries = b.entries
    BY ReadsArm
  <1> QED
    BY <1>1 DEF ReadAs

LEMMA ReadsCancelAs ==
    ASSUME NEW tp, NEW n, TapeOK(tp, n), NEW b, NEW sl, NEW fresh, BookOK(b, tp, sl, fresh),
           Armed(sl), NEW i \in DOMAIN tp, NEW t,
           NEW e, e.type = "setup_cancelled", e.side = sl.side
    PROVE  ReadAs(b, Recorded(tp, b, i, e), tp, Empty, fresh, i, t)
  BY ReadsCancel DEF ReadAs

LEMMA ReadsRejectAs ==
    ASSUME NEW tp, NEW n, TapeOK(tp, n), NEW b, NEW sl, NEW t, t # 0, BookOK(b, tp, sl, t),
           NEW i \in DOMAIN tp, t = Finalized(tp[i]), t \in DOMAIN b.setups,
           NobodyHeld(tp, b.entries, t),
           NEW e, e.type = "decision_rejected", e.side \in {None, b.setups[t].features.side}
    PROVE  ReadAs(b, Recorded(tp, b, i, e), tp, sl, 0, i, t)
  BY ReadsReject DEF ReadAs

LEMMA ReadsOpenAs ==
    ASSUME NEW tp, NEW t, TapeOK(tp, t), NEW b, NEW sl, NEW fresh, BookOK(b, tp, sl, fresh),
           NEW i \in DOMAIN tp, t = Finalized(tp[i]),
           NEW e, e.type = "trade_opened", e.trade \in Openings,
           e.trade.id = Len(b.entries) + 1, e.trade.origin \in DOMAIN b.setups,
           \/ /\ sl = Empty /\ e.trade.origin = t /\ fresh = t /\ t # 0
              /\ NobodyHeld(tp, b.entries, t)
           \/ Armed(sl) /\ e.trade.origin = sl.origin /\ fresh = 0,
           NEW new, Holds(new), new.id = e.trade.id, new.side = e.trade.side,
           NEW x, x = [trade |-> e.trade, at |-> i]
    PROVE  OpenAs(b, Recorded(tp, b, i, e), tp, new, x, i, t)
  <1>1. LET c == Recorded(tp, b, i, e)
        IN /\ BookOK(c, tp, new, 0) /\ Preserved(b, c, i, t)
           /\ c.entries = Append(b.entries, [trade |-> e.trade, at |-> i])
    BY ReadsOpen
  <1> QED
    BY <1>1 DEF OpenAs

LEMMA TracedOne ==
    ASSUME NEW tp, NEW b, NEW i, NEW e, tp[i].events = <<e>>
    PROVE  Traced(tp, b, i) = Recorded(tp, b, i, e)
  BY TracedShort

LEMMA TracedThree ==
    ASSUME NEW tp, NEW b, NEW i, NEW x, NEW y, NEW z, tp[i].events = <<x, y, z>>
    PROVE  Traced(tp, b, i) = Recorded(tp, Recorded(tp, Recorded(tp, b, i, x), i, y), i, z)
  BY TracedShort

LEMMA NewOne ==
    ASSUME NEW events, NEW e, events = <<e>>, NEW type
    PROVE  NewEvents(events, type) = IF e.type = type THEN {e} ELSE {}
  <1>1. Range(<<e>>) = {e}
    BY DEF Range
  <1>2. Range(events) = {e}
    BY <1>1, Zenon
  <1> QED
    BY <1>2 DEF NewEvents

\* The events of a bar with a flip, one of which is the last.
FlipThen(flip, sl, e) ==
    <<flip>> \o (IF sl.phase = "armed" THEN <<Event("setup_cancelled", sl.side)>> ELSE <<>>)
    \o <<e>>

\* What such a bar is read as before its last event.
FlipRead(tp, b, i, t, flip, e) ==
    /\ \E c : /\ BookOK(c, tp, Empty, t) /\ Preserved(b, c, i, t)
              /\ t \in DOMAIN c.setups /\ c.setups[t].features.side = flip.side
              /\ c.entries = b.entries
              /\ Traced(tp, b, i) = Recorded(tp, c, i, e)
    /\ \A type \in {"trade_opened", "trade_closed"} :
          NewEvents(tp[i].events, type) = IF e.type = type THEN {e} ELSE {}

\* A fresh flip that cancels the setup which waits: what is left for the last
\* event of the bar to say.
LEMMA FlipFirst ==
    ASSUME NEW tp, NEW n, TapeOK(tp, n), NEW b, NEW sl, BookOK(b, tp, sl, 0),
           sl.phase \in {"empty", "armed"}, NEW i \in DOMAIN tp,
           NEW t, t = Finalized(tp[i]), t \notin DOMAIN b.setups,
           NEW flip, flip.type = "hema_flip_detected", flip.side \in Sides,
           NEW e, tp[i].events = FlipThen(flip, sl, e)
    PROVE  FlipRead(tp, b, i, t, flip, e)
  <1> DEFINE c == Recorded(tp, b, i, flip)
  <1>0. Empty.phase # "armed"
    BY DEF Empty
  <1>1. /\ BookOK(c, tp, sl, t) /\ Preserved(b, c, i, t)
        /\ t \in DOMAIN c.setups /\ c.setups[t].features.side = flip.side
        /\ c.entries = b.entries
    BY ReadsFlip
  <1>2. CASE sl.phase = "armed"
    <2> DEFINE x == Event("setup_cancelled", sl.side)
               d == Recorded(tp, c, i, x)
    <2>0. x.type = "setup_cancelled" /\ x.side = sl.side
      BY DEF Event
    <2>1. Armed(sl)
      BY <1>0, <1>2 DEF BookOK, SlotOK, Holds
    <2>2. tp[i].events = <<flip, x, e>>
      <3> HIDE DEF x
      <3>1. tp[i].events = <<flip>> \o <<x>> \o <<e>>
        BY <1>2 DEF x, FlipThen
      <3>2. <<flip>> \o <<x>> = <<flip, x>>
        BY TwoEvents
      <3>3. <<flip, x>> \o <<e>> = <<flip, x, e>>
        BY ThreeEvents
      <3> QED
        BY <3>1, <3>2, <3>3, Zenon
    <2> HIDE DEF c, x
    <2>3. /\ BookOK(d, tp, Empty, t) /\ Preserved(c, d, i, t)
          /\ d.entries = c.entries /\ DOMAIN d.setups = DOMAIN c.setups
          /\ d.setups[t] = c.setups[t]
      <3>1. /\ BookOK(d, tp, Empty, t) /\ Preserved(c, d, i, t)
            /\ d.entries = c.entries /\ DOMAIN d.setups = DOMAIN c.setups
            /\ \A o \in DOMAIN c.setups : o # sl.origin => d.setups[o] = c.setups[o]
            /\ sl.origin # t
        BY <1>1, <2>0, <2>1, ReadsCancel
      <3> QED
        BY <1>1, <3>1
    <2>4. Traced(tp, b, i) = Recorded(tp, d, i, e)
      BY <2>2, TracedShort DEF c
    <2> HIDE DEF d
    <2>5. Preserved(b, d, i, t)
      BY <1>1, <2>3, PreservedTwice
    <2>6. Range(tp[i].events) = {flip, x, e}
      <3>1. Range(<<flip, x, e>>) = {flip, x, e}
        BY DEF Range
      <3> QED
        BY <2>2, <3>1, Zenon
    <2>7. \A type \in {"trade_opened", "trade_closed"} :
             NewEvents(tp[i].events, type) = IF e.type = type THEN {e} ELSE {}
      BY <2>0, <2>6 DEF NewEvents
    <2> QED
      BY <1>1, <2>3, <2>4, <2>5, <2>7 DEF FlipRead
  <1>3. CASE sl.phase = "empty"
    <2>1. sl = Empty
      BY <1>3 DEF BookOK, SlotOK, Holds, Armed
    <2>2. tp[i].events = <<flip, e>>
      <3>1. tp[i].events = <<flip>> \o <<>> \o <<e>>
        BY <1>3 DEF FlipThen
      <3>2. <<flip>> \o <<>> = <<flip>>
        OBVIOUS
      <3>3. <<flip>> \o <<e>> = <<flip, e>>
        BY TwoEvents
      <3> QED
        BY <3>1, <3>2, <3>3, Zenon
    <2>4. Traced(tp, b, i) = Recorded(tp, c, i, e)
      BY <2>2, TracedShort
    <2>6. Range(tp[i].events) = {flip, e}
      <3>1. Range(<<flip, e>>) = {flip, e}
        BY DEF Range
      <3> QED
        BY <2>2, <3>1, Zenon
    <2>7. \A type \in {"trade_opened", "trade_closed"} :
             NewEvents(tp[i].events, type) = IF e.type = type THEN {e} ELSE {}
      BY <2>6 DEF NewEvents
    <2> HIDE DEF c
    <2> QED
      BY <1>1, <2>1, <2>4, <2>7 DEF FlipRead
  <1> QED
    BY <1>2, <1>3

LEMMA PreservedSame ==
    ASSUME NEW b, NEW n, NEW t
    PROVE  Preserved(b, b, n, t)
  BY DEF Preserved

LEMMA PhaseIs ==
    ASSUME NEW b, NEW tp, NEW sl, NEW fresh, BookOK(b, tp, sl, fresh)
    PROVE  /\ sl.phase = "armed" => Armed(sl)
           /\ sl.phase = "open" => Holds(sl) /\ sl.id \in DOMAIN b.entries
           /\ sl.phase = "empty" => sl = Empty
           /\ Holds(sl) => sl.phase = "open" /\ sl.side \in Sides
           /\ Armed(sl) => sl.phase = "armed" /\ sl.side \in Sides
                           /\ sl.origin \in DOMAIN b.setups
  BY DEF BookOK, SlotOK, Armed, Holds, Empty

LEMMA QuotesIs ==
           /\ Quotes \subseteq AllQuotes /\ ExitQuotes \subseteq AllQuotes
           /\ QuietQuotes \subseteq AllQuotes
           /\ \A q \in AllQuotes :
                 q.low \in Int /\ q.high \in Int /\ q.close \in Int /\ q.stopDistance \in Int
           /\ \A side \in Sides : Opposite(side) \in Sides
  <1>1. \A q \in AllQuotes :
           q.low \in Int /\ q.high \in Int /\ q.close \in Int /\ q.stopDistance \in Int
    BY QuotesAssumption
  <1> QED
    BY <1>1 DEF AllQuotes, Opposite, Sides

LEMMA QuietGrows ==
    ASSUME ResearchIInv, Quiet
    PROVE  Grown
  <1>q. PICK q \in QuietQuotes, trend \in Sides : Bar(trend, q, <<>>)
    BY DEF Quiet
  <1> DEFINE b == Collected(tape)
             i == Len(tape) + 1
             bar == BarWith(trend, q, <<>>)
  <1>0. /\ Bar(trend, q, <<>>) /\ slot' = slot
        /\ q \in AllQuotes /\ <<>> \in Seq(Events)
    BY <1>q, QuotesIs DEF Quiet
  <1>1. /\ bar \in Bars /\ bar.open = now /\ bar.events = <<>>
        /\ tape' = Append(tape, bar) /\ now' = now + 1 /\ data' = Build(tape')
        /\ TapeOK(tape', now') /\ BookOK(b, tape', slot, 0)
        /\ tape'[i].events = <<>>
        /\ Collected(tape') = Traced(tape', b, i)
        /\ tape \in Seq(Bars)
    BY <1>0, BarBegins
  <1> HIDE DEF bar
  <1>2. Collected(tape') = b
    BY <1>1, TracedShort
  <1>3. Preserved(b, Collected(tape'), i, now + 1)
    BY <1>2, PreservedSame
  <1>4. EventsOK(tape', b.entries, slot')
    <2>1. EventsOK(tape, b.entries, slot)
      BY DEF ResearchIInv
    <2>2. /\ NewEvents(bar.events, "trade_opened") = {}
          /\ NewEvents(bar.events, "trade_closed") = {}
      BY <1>1, ShortRange DEF NewEvents
    <2> HIDE DEF b
    <2>3. EventsOK(Append(tape, bar), b.entries, slot)
      BY <1>1, <2>1, <2>2, EventsQuiet
    <2> QED
      BY <1>0, <1>1, <2>3
  <1> HIDE DEF b
  <1>5. BookOK(Collected(tape'), tape', slot', 0) /\ EventsOK(tape', Collected(tape').entries, slot')
    BY <1>0, <1>1, <1>2, <1>4
  <1> QED
    BY <1>1, <1>3, <1>5, BarEnds DEF b

FlipEvents(side, e) == <<Flip(side)>> \o Cancelled \o <<e>>

LEMMA FlipEventsIs ==
    ASSUME ResearchIInv, slot.phase \in {"empty", "armed"}, NEW side \in Sides, NEW e \in Events
    PROVE  /\ FlipEvents(side, e) \in Seq(Events)
           /\ Flip(side).type = "hema_flip_detected" /\ Flip(side).side = side
  <1>1. Flip(side) \in Events /\ Flip(side).type = "hema_flip_detected" /\ Flip(side).side = side
    BY QuotesIs DEF Flip, Event, Events
  <1>2. Cancelled \in Seq(Events)
    <2>1. CASE slot.phase = "armed"
      <3>1. slot.side \in Sides
        BY <2>1, PhaseIs DEF ResearchIInv
      <3>2. Event("setup_cancelled", slot.side) \in Events
        BY <3>1 DEF Event, Events
      <3> QED
        BY <2>1, <3>2 DEF Cancelled
    <2>2. CASE slot.phase # "armed"
      BY <2>2 DEF Cancelled
    <2> QED
      BY <2>1, <2>2
  <1>3. <<Flip(side)>> \in Seq(Events) /\ <<e>> \in Seq(Events)
    BY <1>1
  <1>4. FlipEvents(side, e) \in Seq(Events)
    <2> HIDE DEF Flip, Cancelled
    <2> QED
      BY <1>2, <1>3, ConcatProperties DEF FlipEvents
  <1> QED
    BY <1>1, <1>4

\* No trade is held over a bar that finds the slot without one.
LEMMA NobodyOnBar ==
    ASSUME ResearchIInv, slot.phase # "open", NEW bar \in Bars, bar.open = now,
           tape' = Append(tape, bar)
    PROVE  NobodyHeld(tape', Collected(tape).entries, now + 1)
  <1>1. TapeOK(tape, now) /\ EventsOK(tape, Collected(tape).entries, slot) /\ ~Holds(slot)
    BY DEF ResearchIInv, Holds
  <1> QED
    BY <1>1, NobodyIsHeldNext

\* What the events of a bar with a flip say before its last one.
FlipBegun(c, side, e) ==
    /\ BookOK(c, tape', Empty, now + 1)
    /\ Preserved(Collected(tape), c, Len(tape) + 1, now + 1)
    /\ now + 1 \in DOMAIN c.setups
    /\ c.setups[now + 1].features.side = side
    /\ c.entries = Collected(tape).entries
    /\ NobodyHeld(tape', c.entries, now + 1)
    /\ Collected(tape') = Recorded(tape', c, Len(tape) + 1, e)

\* The one event of a bar that may open or close a trade.
OneTrade(bar, e) ==
    \A type \in {"trade_opened", "trade_closed"} :
       NewEvents(bar.events, type) = IF e.type = type THEN {e} ELSE {}

\* The beginning of a bar with a flip.
LEMMA FlipBegins ==
    ASSUME ResearchIInv, slot.phase \in {"empty", "armed"}, NEW trend \in Sides,
           NEW side \in Sides, NEW quote \in AllQuotes, NEW e \in Events,
           Bar(trend, quote, FlipEvents(side, e)),
           NEW bar, bar = BarWith(trend, quote, FlipEvents(side, e))
    PROVE  /\ \E c : FlipBegun(c, side, e)
           /\ OneTrade(bar, e)
  <1> DEFINE b == Collected(tape)
             i == Len(tape) + 1
             t == now + 1
  <1>0. /\ FlipEvents(side, e) \in Seq(Events)
        /\ Flip(side).type = "hema_flip_detected" /\ Flip(side).side = side
    BY FlipEventsIs, QuotesIs
  <1>1. /\ tape'[i] = bar /\ bar.events = FlipEvents(side, e)
        /\ TapeOK(tape', now') /\ BookOK(b, tape', slot, 0)
        /\ t \notin DOMAIN b.setups /\ i \in DOMAIN tape'
        /\ Finalized(tape'[i]) = t
        /\ Collected(tape') = Traced(tape', b, i)
    BY <1>0, BarBegins
  <1>n. NobodyHeld(tape', b.entries, t)
    <2>1. bar \in Bars /\ bar.open = now /\ tape' = Append(tape, bar)
      BY <1>0, BarBegins
    <2> QED
      BY <2>1, NobodyOnBar
  <1>2. tape'[i].events = FlipThen(Flip(side), slot, e)
    BY <1>1 DEF FlipEvents, Cancelled, FlipThen
  <1> HIDE DEF b, i, t
  <1>3. FlipRead(tape', b, i, t, Flip(side), e)
    <2> HIDE DEF Flip
    <2> QED
      BY <1>0, <1>1, <1>2, FlipFirst
  <1> QED
    BY <1>0, <1>1, <1>n, <1>3 DEF b, i, t, FlipRead, FlipBegun, OneTrade

LEMMA RejectedGrows ==
    ASSUME ResearchIInv, FlipRejected
    PROVE  Grown
  <1>q. PICK side \in Sides, trend \in Sides, q \in QuietQuotes :
            Bar(trend, q, FlipEvents(side, Event("decision_rejected", side)))
    BY DEF FlipRejected, FlipEvents
  <1> DEFINE b == Collected(tape)
             i == Len(tape) + 1
             t == now + 1
             e == Event("decision_rejected", side)
             bar == BarWith(trend, q, FlipEvents(side, e))
  <1>0. /\ slot.phase \in {"empty", "armed"} /\ slot' = Empty
        /\ Bar(trend, q, FlipEvents(side, e)) /\ q \in AllQuotes
        /\ e \in Events /\ e.type = "decision_rejected" /\ e.side = side
    BY <1>q, QuotesIs DEF FlipRejected, Event, Events
  <1> HIDE DEF e
  <1>1. /\ bar \in Bars /\ bar.open = now
        /\ tape' = Append(tape, bar) /\ now' = now + 1 /\ data' = Build(tape')
        /\ TapeOK(tape', now') /\ i \in DOMAIN tape' /\ Finalized(tape'[i]) = t
        /\ tape \in Seq(Bars) /\ t # 0
    <2>1. FlipEvents(side, e) \in Seq(Events)
      BY <1>0, FlipEventsIs
    <2> QED
      BY <1>0, <2>1, BarBegins
  <1>f. PICK c : FlipBegun(c, side, e)
    BY <1>0, FlipBegins
  <1>2. /\ BookOK(c, tape', Empty, t) /\ Preserved(b, c, i, t)
        /\ t \in DOMAIN c.setups /\ c.setups[t].features.side = side
        /\ c.entries = b.entries /\ NobodyHeld(tape', c.entries, t)
        /\ Collected(tape') = Recorded(tape', c, i, e)
    BY <1>f DEF FlipBegun
  <1>3. \A type \in {"trade_opened", "trade_closed"} : NewEvents(bar.events, type) = {}
    <2>1. OneTrade(bar, e)
      BY <1>0, FlipBegins
    <2> HIDE DEF bar
    <2> QED
      BY <1>0, <2>1 DEF OneTrade
  <1> DEFINE d == Collected(tape')
  <1> HIDE DEF bar, b, i, t
  <1>4. BookOK(d, tape', Empty, 0) /\ Preserved(c, d, i, t) /\ d.entries = c.entries
    <2>1. ReadAs(c, Recorded(tape', c, i, e), tape', Empty, 0, i, t)
      BY <1>0, <1>1, <1>2, ReadsRejectAs
    <2> QED
      BY <1>2, <2>1 DEF ReadAs
  <1> HIDE DEF d
  <1>5. Preserved(b, d, i, t)
    BY <1>2, <1>4, PreservedTwice
  <1>6. EventsOK(tape', d.entries, Empty)
    <2>1. EventsOK(tape, b.entries, slot) /\ ~Holds(Empty) /\ ~Holds(slot)
      BY <1>0 DEF ResearchIInv, b, Holds, Empty
    <2>2. EventsOK(Append(tape, bar), b.entries, Empty)
      BY <1>1, <1>3, <2>1, EventsQuiet
    <2> QED
      BY <1>1, <1>2, <1>4, <2>2
  <1>7. BookOK(Collected(tape'), tape', slot', 0)
        /\ EventsOK(tape', Collected(tape').entries, slot')
        /\ Preserved(Collected(tape), Collected(tape'), Len(tape) + 1, now + 1)
    BY <1>0, <1>4, <1>5, <1>6 DEF d, b, i, t
  <1> QED
    BY <1>1, <1>7, BarEnds

LEMMA ArmsGrows ==
    ASSUME ResearchIInv, FlipArms
    PROVE  Grown
  <1>q. PICK side \in Sides, q \in QuietQuotes :
            /\ Bar(Opposite(side), q, FlipEvents(side, Event("setup_armed", side)))
            /\ slot' = [phase |-> "armed", side |-> side, origin |-> now + 1]
    BY DEF FlipArms, FlipEvents
  <1> DEFINE b == Collected(tape)
             i == Len(tape) + 1
             t == now + 1
             e == Event("setup_armed", side)
             trend == Opposite(side)
             bar == BarWith(trend, q, FlipEvents(side, e))
             new == [phase |-> "armed", side |-> side, origin |-> t]
  <1>0. /\ slot.phase \in {"empty", "armed"} /\ slot' = new
        /\ Bar(trend, q, FlipEvents(side, e))
        /\ trend \in Sides /\ q \in AllQuotes
        /\ e \in Events /\ e.type = "setup_armed" /\ e.side = side
    BY <1>q, QuotesIs DEF FlipArms, Event, Events
  <1> HIDE DEF e, trend
  <1>1. /\ bar \in Bars /\ bar.open = now
        /\ tape' = Append(tape, bar) /\ now' = now + 1 /\ data' = Build(tape')
        /\ TapeOK(tape', now') /\ i \in DOMAIN tape' /\ Finalized(tape'[i]) = t
        /\ tape \in Seq(Bars) /\ t # 0
    <2>1. FlipEvents(side, e) \in Seq(Events)
      BY <1>0, FlipEventsIs
    <2> QED
      BY <1>0, <2>1, BarBegins
  <1>f. PICK c : FlipBegun(c, side, e)
    BY <1>0, FlipBegins
  <1>2. /\ BookOK(c, tape', Empty, t) /\ Preserved(b, c, i, t)
        /\ t \in DOMAIN c.setups
        /\ c.entries = b.entries /\ NobodyHeld(tape', c.entries, t)
        /\ Collected(tape') = Recorded(tape', c, i, e)
    BY <1>f DEF FlipBegun
  <1>3. \A type \in {"trade_opened", "trade_closed"} : NewEvents(bar.events, type) = {}
    <2>1. OneTrade(bar, e)
      BY <1>0, FlipBegins
    <2> HIDE DEF bar
    <2> QED
      BY <1>0, <2>1 DEF OneTrade
  <1> DEFINE d == Collected(tape')
  <1> HIDE DEF bar, b, i
  <1>4. BookOK(d, tape', new, 0) /\ Preserved(c, d, i, t) /\ d.entries = c.entries
    <2>1. new = [phase |-> "armed", side |-> e.side, origin |-> t]
      BY <1>0
    <2> HIDE DEF new, t
    <2>2. ReadAs(c, Recorded(tape', c, i, e), tape', new, 0, i, t)
      BY <1>0, <1>1, <1>2, <2>1, ReadsArmAs
    <2> QED
      BY <1>2, <2>2 DEF ReadAs
  <1> HIDE DEF d
  <1>5. Preserved(b, d, i, t)
    BY <1>2, <1>4, PreservedTwice
  <1>6. EventsOK(tape', d.entries, new)
    <2>1. EventsOK(tape, b.entries, slot) /\ ~Holds(new) /\ ~Holds(slot)
      BY <1>0 DEF ResearchIInv, b, Holds
    <2> HIDE DEF new
    <2>2. EventsOK(Append(tape, bar), b.entries, new)
      BY <1>1, <1>3, <2>1, EventsQuiet
    <2> QED
      BY <1>1, <1>2, <1>4, <2>2
  <1>7. BookOK(Collected(tape'), tape', slot', 0)
        /\ EventsOK(tape', Collected(tape').entries, slot')
        /\ Preserved(Collected(tape), Collected(tape'), Len(tape) + 1, now + 1)
    BY <1>0, <1>4, <1>5, <1>6 DEF d, b, i
  <1> QED
    BY <1>1, <1>7, BarEnds

LEMMA CancelledGrows ==
    ASSUME ResearchIInv, SetupCancelled
    PROVE  Grown
  <1>q. PICK q \in QuietQuotes, trend \in Sides : Bar(trend, q, Cancelled)
    BY DEF SetupCancelled
  <1> DEFINE b == Collected(tape)
             i == Len(tape) + 1
             t == now + 1
             e == Event("setup_cancelled", slot.side)
             bar == BarWith(trend, q, <<e>>)
  <1>a. slot.phase = "armed"
    BY DEF SetupCancelled
  <1>b. Armed(slot) /\ slot.side \in Sides
    BY <1>a, PhaseIs DEF ResearchIInv
  <1>0. /\ slot' = Empty /\ Bar(trend, q, <<e>>) /\ q \in AllQuotes
        /\ e \in Events /\ e.type = "setup_cancelled" /\ e.side = slot.side
    BY <1>q, <1>a, <1>b, QuotesIs DEF SetupCancelled, Cancelled, Event, Events
  <1> HIDE DEF e
  <1>1. /\ bar \in Bars /\ bar.open = now /\ bar.events = <<e>>
        /\ tape' = Append(tape, bar) /\ now' = now + 1 /\ data' = Build(tape')
        /\ TapeOK(tape', now') /\ i \in DOMAIN tape'
        /\ tape'[i].events = <<e>> /\ BookOK(b, tape', slot, 0)
        /\ Collected(tape') = Traced(tape', b, i)
        /\ tape \in Seq(Bars)
    <2>1. <<e>> \in Seq(Events)
      BY <1>0
    <2> QED
      BY <1>0, <2>1, BarBegins, ZenonT(60)
  <1> HIDE DEF bar
  <1> DEFINE d == Collected(tape')
  <1>2. d = Recorded(tape', b, i, e)
    BY <1>1, TracedOne
  <1> HIDE DEF b, i, t
  <1>4. BookOK(d, tape', Empty, 0) /\ Preserved(b, d, i, t) /\ d.entries = b.entries
    <2>1. ReadAs(b, Recorded(tape', b, i, e), tape', Empty, 0, i, t)
      BY <1>0, <1>1, <1>b, ReadsCancelAs
    <2> QED
      BY <1>2, <2>1 DEF ReadAs
  <1> HIDE DEF d
  <1>6. EventsOK(tape', d.entries, Empty)
    <2>1. EventsOK(tape, b.entries, slot) /\ ~Holds(Empty) /\ ~Holds(slot)
      BY <1>a DEF ResearchIInv, b, Holds, Empty
    <2>2. NewEvents(bar.events, "trade_opened") = {} /\ NewEvents(bar.events, "trade_closed") = {}
      BY <1>0, <1>1, NewOne
    <2>3. EventsOK(Append(tape, bar), b.entries, Empty)
      BY <1>1, <2>1, <2>2, EventsQuiet
    <2> QED
      BY <1>1, <1>4, <2>3
  <1>7. BookOK(Collected(tape'), tape', slot', 0)
        /\ EventsOK(tape', Collected(tape').entries, slot')
        /\ Preserved(Collected(tape), Collected(tape'), Len(tape) + 1, now + 1)
    BY <1>0, <1>4, <1>6 DEF d, b, i, t
  <1> QED
    BY <1>1, <1>7, BarEnds

\* A bar on which a trade is entered, once its events up to the last are read
\* as the book c.
LEMMA EnteredGrows ==
    ASSUME ResearchIInv, ~Holds(slot), NEW side \in Sides, NEW origin \in Nat, NEW q \in Quotes,
           NEW id, id = Len(Collected(tape).entries) + 1,
           NEW e, e = Opened(side, origin, id, q.close),
           NEW bar \in Bars, bar.open = now, tape' = Append(tape, bar), now' = now + 1,
           data' = Build(tape'), TapeOK(tape', now'),
           slot' = [phase |-> "open", side |-> side, id |-> id, price |-> q.close,
                    stop |-> StopOf(side, q)],
           NEW c, c.entries = Collected(tape).entries,
           Preserved(Collected(tape), c, Len(tape) + 1, now + 1),
           Collected(tape') = Recorded(tape', c, Len(tape) + 1, e),
           NEW sl, NEW fresh, BookOK(c, tape', sl, fresh), origin \in DOMAIN c.setups,
           \/ /\ sl = Empty /\ origin = now + 1 /\ fresh = now + 1
              /\ NobodyHeld(tape', c.entries, now + 1)
           \/ Armed(sl) /\ origin = sl.origin /\ fresh = 0,
           NewEvents(bar.events, "trade_opened") = {e},
           NewEvents(bar.events, "trade_closed") = {}
    PROVE  Grown
  <1> DEFINE b == Collected(tape)
             d == Collected(tape')
             i == Len(tape) + 1
             t == now + 1
             x == [trade |-> e.trade, at |-> i]
             new == slot'
  <1>1. /\ tape \in Seq(Bars) /\ now \in Nat /\ i \in Nat /\ i \in DOMAIN tape'
        /\ Finalized(tape'[i]) = t /\ t # 0
    <2>1. tape \in Seq(Bars) /\ now \in Nat
      BY DEF ResearchIInv, TapeOK
    <2>2. i \in Nat /\ i \in DOMAIN tape' /\ tape'[i] = bar
      BY <2>1, Appended
    <2> HIDE DEF i
    <2>3. Finalized(tape'[i]) = t /\ t # 0
      BY <2>1, <2>2 DEF Finalized
    <2> QED
      BY <2>1, <2>2, <2>3
  <1>2. b.entries \in Seq([trade : Openings, at : Nat]) /\ id \in Nat
    <2>1. b.entries \in Seq([trade : Openings, at : Nat])
      BY DEF ResearchIInv, BookOK, Shape
    <2> QED
      BY <2>1
  <1>3. /\ e.type = "trade_opened" /\ e.trade \in Openings /\ e.trade.id = id
        /\ e.trade.origin = origin /\ e.trade.side = side /\ e = OpenedBy(x)
    <2>1. q.close \in Int
      BY QuotesIs
    <2> QED
      BY <1>2, <2>1 DEF Opened, Openings, OpenedBy
  <1>4. Holds(new) /\ new.id = id /\ new.side = side
    <2>1. q.close \in Int /\ StopOf(side, q) \in Int
      BY QuotesIs DEF StopOf
    <2>2. /\ new.phase = "open" /\ new.side = side /\ new.id = id /\ new.price = q.close
          /\ new.stop = StopOf(side, q)
      OBVIOUS
    <2> QED
      BY <2>1, <2>2 DEF Holds
  <1>5. x \in [trade : Openings, at : Nat] /\ x.at = i
    BY <1>1, <1>3
  <1>6. x = [trade |-> e.trade, at |-> i]
    OBVIOUS
  <1> HIDE DEF b, d, i, t, x, new
  <1>7. OpenAs(c, Recorded(tape', c, i, e), tape', new, x, i, t)
    BY <1>1, <1>3, <1>4, <1>6, ReadsOpenAs DEF t, b
  <1>8. BookOK(d, tape', new, 0) /\ Preserved(c, d, i, t) /\ d.entries = Append(b.entries, x)
    BY <1>7 DEF OpenAs, d, i, b
  <1>9. Preserved(b, d, i, t)
    BY <1>8, PreservedTwice DEF b, i, t
  <1>10. EventsOK(tape', d.entries, new)
    <2>1. EventsOK(tape, b.entries, slot) /\ ~Holds(slot) /\ Holds(new)
      BY <1>4 DEF ResearchIInv, b
    <2>2. NewEvents(bar.events, "trade_opened") = {OpenedBy(x)}
      BY <1>3
    <2>3. x.at = Len(tape) + 1 /\ new.id = Len(b.entries) + 1
      BY <1>4, <1>5 DEF i, b
    <2>4. EventsOK(Append(tape, bar), Append(b.entries, x), new)
      BY <1>1, <1>2, <1>5, <2>1, <2>2, <2>3, EventsOpened
    <2> QED
      BY <1>8, <2>4
  <1>11. BookOK(Collected(tape'), tape', slot', 0)
         /\ EventsOK(tape', Collected(tape').entries, slot')
         /\ Preserved(Collected(tape), Collected(tape'), Len(tape) + 1, now + 1)
    BY <1>8, <1>9, <1>10 DEF b, d, i, t, new
  <1> QED
    BY <1>11, BarEnds

\* The trades of the dataset are those of the first pass.
LEMMA TradesCounted ==
    ASSUME ResearchIInv
    PROVE  Len(data.trades) = Len(Collected(tape).entries)
  <1> DEFINE b == Collected(tape)
  <1>1. b.entries \in Seq([trade : Openings, at : Nat])
    BY DEF ResearchIInv, BookOK, Shape
  <1>2. data.trades = [k \in DOMAIN b.entries |-> TradeRow(tape, b.entries[k])]
    BY DEF ResearchIInv, Build
  <1> HIDE DEF b
  <1>3. DOMAIN data.trades = 1..Len(b.entries) /\ Len(b.entries) \in Nat
    BY <1>1, <1>2
  <1>4. Len(data.trades) = Len(b.entries)
    BY <1>1, <1>2, <1>3
  <1> QED
    BY <1>4 DEF b

LEMMA EntersGrows ==
    ASSUME ResearchIInv, FlipEnters
    PROVE  Grown
  <1> DEFINE id == Len(data.trades) + 1
             Op(side, q) == Opened(side, now + 1, id, q.close)
  <1>1. PICK side \in Sides, q \in Quotes :
            /\ Bar(side, q, FlipEvents(side, Op(side, q)))
            /\ slot' = [phase |-> "open", side |-> side, id |-> id, price |-> q.close,
                        stop |-> StopOf(side, q)]
    BY DEF FlipEnters, Enter, FlipEvents
  <1> DEFINE e == Op(side, q)
             bar == BarWith(side, q, FlipEvents(side, e))
  <1>2. slot.phase \in {"empty", "armed"} /\ side \in Sides /\ q \in AllQuotes
        /\ id = Len(Collected(tape).entries) + 1 /\ id \in Nat /\ now + 1 \in Nat /\ q.close \in Int
    <2>1. id = Len(Collected(tape).entries) + 1
      BY TradesCounted
    <2>2. Len(Collected(tape).entries) \in Nat
      BY DEF ResearchIInv, BookOK, Shape
    <2>3. q \in AllQuotes /\ q.close \in Int /\ side \in Sides
      BY QuotesIs
    <2>4. now \in Nat
      BY DEF ResearchIInv, TapeOK
    <2> HIDE DEF id
    <2> QED
      BY <2>1, <2>2, <2>3, <2>4 DEF FlipEnters
  <1> HIDE DEF id
  <1>3. e \in Events /\ e.type = "trade_opened" /\ e = Opened(side, now + 1, id, q.close)
    BY <1>2 DEF Opened, Events, Openings
  <1> HIDE DEF e, Op
  <1>4. Bar(side, q, FlipEvents(side, e))
    BY <1>1 DEF e
  <1>5. /\ bar \in Bars /\ bar.open = now
        /\ tape' = Append(tape, bar) /\ now' = now + 1 /\ data' = Build(tape')
        /\ TapeOK(tape', now')
    <2>1. FlipEvents(side, e) \in Seq(Events)
      BY <1>2, <1>3, FlipEventsIs
    <2> QED
      BY <1>2, <1>4, <2>1, BarBegins
  <1>f. PICK c : FlipBegun(c, side, e)
    BY <1>2, <1>3, <1>4, FlipBegins
  <1>6. /\ BookOK(c, tape', Empty, now + 1)
        /\ Preserved(Collected(tape), c, Len(tape) + 1, now + 1)
        /\ now + 1 \in DOMAIN c.setups /\ NobodyHeld(tape', c.entries, now + 1)
        /\ c.entries = Collected(tape).entries
        /\ Collected(tape') = Recorded(tape', c, Len(tape) + 1, e)
    BY <1>f DEF FlipBegun
  <1>7. NewEvents(bar.events, "trade_opened") = {e} /\ NewEvents(bar.events, "trade_closed") = {}
    <2>0. /\ bar = BarWith(side, q, FlipEvents(side, e))
          /\ slot.phase \in {"empty", "armed"} /\ q \in AllQuotes /\ e \in Events
      BY <1>2, <1>3
    <2> HIDE DEF bar
    <2>1. OneTrade(bar, e)
      BY <1>4, <2>0, FlipBegins
    <2> QED
      BY <1>3, <2>1 DEF OneTrade
  <1>8. ~Holds(slot)
    BY <1>2 DEF Holds
  <1> HIDE DEF bar
  <1> QED
    BY <1>1, <1>2, <1>3, <1>5, <1>6, <1>7, <1>8, EnteredGrows

LEMMA ConfirmedGrows ==
    ASSUME ResearchIInv, SetupConfirmed
    PROVE  Grown
  <1> DEFINE id == Len(data.trades) + 1
             b == Collected(tape)
             Op(q) == Opened(slot.side, slot.origin, id, q.close)
  <1>1. PICK q \in Quotes :
            /\ Bar(slot.side, q, <<>> \o <<Op(q)>>)
            /\ slot' = [phase |-> "open", side |-> slot.side, id |-> id, price |-> q.close,
                        stop |-> StopOf(slot.side, q)]
    BY DEF SetupConfirmed, Enter
  <1> DEFINE e == Op(q)
             bar == BarWith(slot.side, q, <<e>>)
  <1>2. /\ Armed(slot) /\ slot.side \in Sides /\ q \in AllQuotes
        /\ slot.origin \in DOMAIN b.setups /\ slot.origin \in Nat
        /\ id = Len(b.entries) + 1 /\ id \in Nat /\ now + 1 \in Nat /\ q.close \in Int
    <2>1. id = Len(b.entries) + 1
      BY TradesCounted
    <2>2. Len(b.entries) \in Nat
      BY DEF ResearchIInv, BookOK, Shape
    <2>3. q \in AllQuotes /\ q.close \in Int
      BY QuotesIs
    <2>4. now \in Nat /\ TapeOK(tape, now) /\ BookOK(b, tape, slot, 0)
      BY DEF ResearchIInv, TapeOK
    <2> HIDE DEF id, b
    <2>5. Armed(slot) /\ slot.side \in Sides /\ slot.origin \in DOMAIN b.setups
      BY <2>4, PhaseIs DEF SetupConfirmed
    <2>6. SetupOK(b, tape, slot, 0, slot.origin)
      BY <2>4, <2>5 DEF BookOK
    <2>7. slot.origin \in Nat
      BY <2>4, <2>5, <2>6, OriginIsNat
    <2> QED
      BY <2>1, <2>2, <2>3, <2>4, <2>5, <2>7
  <1> HIDE DEF id
  <1>3. e \in Events /\ e.type = "trade_opened"
        /\ e = Opened(slot.side, slot.origin, id, q.close)
    BY <1>2 DEF Opened, Events, Openings
  <1> HIDE DEF e, Op
  <1>4. Bar(slot.side, q, <<e>>) /\ <<e>> \in Seq(Events)
    <2>1. <<>> \o <<e>> = <<e>>
      OBVIOUS
    <2>2. Bar(slot.side, q, <<>> \o <<e>>)
      BY <1>1 DEF e
    <2> QED
      BY <1>3, <2>1, <2>2
  <1>5. /\ bar \in Bars /\ bar.open = now /\ bar.events = <<e>>
        /\ tape' = Append(tape, bar) /\ now' = now + 1 /\ data' = Build(tape')
        /\ TapeOK(tape', now') /\ tape'[Len(tape) + 1].events = <<e>>
        /\ BookOK(b, tape', slot, 0)
        /\ Collected(tape') = Traced(tape', b, Len(tape) + 1)
    BY <1>2, <1>4, BarBegins, ZenonT(60)
  <1> HIDE DEF bar
  <1>6. /\ b.entries = Collected(tape).entries
        /\ Preserved(Collected(tape), b, Len(tape) + 1, now + 1)
        /\ Collected(tape') = Recorded(tape', b, Len(tape) + 1, e)
    BY <1>5, TracedOne, PreservedSame
  <1>7. NewEvents(bar.events, "trade_opened") = {e} /\ NewEvents(bar.events, "trade_closed") = {}
    BY <1>3, <1>5, NewOne
  <1>8. id = Len(Collected(tape).entries) + 1 /\ ~Holds(slot)
    BY <1>2 DEF Armed, Holds
  <1> HIDE DEF b
  <1> QED
    BY <1>1, <1>2, <1>3, <1>5, <1>6, <1>7, <1>8, EnteredGrows

\* The reasons of an exit besides its stop.
LEMMA ReversalsAre ==
    ASSUME NEW flip, flip = <<>> \/ flip = <<"exit_hema_flip">>, NEW reasons \in Reversals(flip)
    PROVE  reasons \in Seq(Reasons) /\ "exit_stop" \notin Range(reasons)
  <1> DEFINE H == "exit_htf_reversal"
             F == "exit_hema_flip"
  <1>1. \/ reasons = <<>> \/ reasons = <<F>>
        \/ reasons = <<H>> \o <<>> \/ reasons = <<H>> \o <<F>>
    BY DEF Reversals
  <1>2. <<H>> \o <<>> = <<H>> /\ <<H>> \o <<F>> = <<H, F>>
    BY TwoEvents
  <1>3. H \in Reasons /\ F \in Reasons
    BY DEF Reasons
  <1>4. Range(<<>>) = {} /\ Range(<<H>>) = {H} /\ Range(<<F>>) = {F} /\ Range(<<H, F>>) = {H, F}
    BY ShortRange
  <1>5. <<>> \in Seq(Reasons) /\ <<H>> \in Seq(Reasons) /\ <<F>> \in Seq(Reasons)
        /\ <<H, F>> \in Seq(Reasons)
    BY <1>3
  <1>6. H # "exit_stop" /\ F # "exit_stop"
    OBVIOUS
  <1> HIDE DEF H, F
  <1>7. CASE reasons = <<>>
    BY <1>4, <1>5, <1>7
  <1>8. CASE reasons = <<F>>
    BY <1>4, <1>5, <1>6, <1>8
  <1>9. CASE reasons = <<H>> \o <<>>
    BY <1>2, <1>4, <1>5, <1>6, <1>9
  <1>10. CASE reasons = <<H>> \o <<F>>
    BY <1>2, <1>4, <1>5, <1>6, <1>10
  <1> QED
    BY <1>1, <1>7, <1>8, <1>9, <1>10

\* The event that closes the slot's trade.
LEMMA ClosedIs ==
    ASSUME ResearchIInv, slot.phase = "open", NEW q \in ExitQuotes,
           NEW reasons \in Seq(Reasons), NEW e, e = Closed(q, reasons), e.reasons # <<>>
    PROVE  /\ Holds(slot) /\ slot.id \in DOMAIN Collected(tape).entries
           /\ e \in Events /\ e.type = "trade_closed" /\ e.trade = slot.id
           /\ e.r \in Int /\ e.reasons \in Seq(Reasons) /\ e.reasons # <<>>
  <1>1. Holds(slot) /\ slot.id \in DOMAIN Collected(tape).entries
    BY PhaseIs DEF ResearchIInv
  <1>2. slot.side \in Sides /\ slot.price \in Int /\ slot.stop \in Int /\ q.close \in Int
    BY <1>1, QuotesIs DEF Holds
  <1>3. slot.id \in Nat
    <2>1. Collected(tape).entries \in Seq([trade : Openings, at : Nat])
      BY DEF ResearchIInv, BookOK, Shape
    <2> QED
      BY <1>1, <2>1
  <1> DEFINE stopped == Stopped(slot.side, slot.stop, q)
             all == (IF stopped THEN <<"exit_stop">> ELSE <<>>) \o reasons
             exit == IF stopped THEN slot.stop ELSE q.close
             r == IF slot.side = "long" THEN exit - slot.price ELSE slot.price - exit
  <1>4. all \in Seq(Reasons)
    <2>2. <<"exit_stop">> \in Seq(Reasons)
      BY DEF Reasons
    <2> HIDE DEF stopped
    <2>3. CASE stopped
      BY <2>2, <2>3
    <2>4. CASE ~stopped
      BY <2>4
    <2> QED
      BY <2>3, <2>4
  <1>5. r \in Int
    BY <1>2
  <1>6. e = [type |-> "trade_closed", side |-> slot.side, trade |-> slot.id, reasons |-> all, r |-> r]
    BY DEF Closed
  <1> HIDE DEF all, r
  <1> QED
    BY <1>1, <1>2, <1>3, <1>4, <1>5, <1>6 DEF Events

LEMMA ExitsGrows ==
    ASSUME ResearchIInv, TradeExits
    PROVE  Grown
  <1> DEFINE b == Collected(tape)
             i == Len(tape) + 1
             t == now + 1
  <1>q. PICK q \in ExitQuotes, trend \in Sides, reasons \in Reversals(<<>>) :
            Leave(trend, q, reasons, <<>>, <<>>)
    BY DEF TradeExits
  <1> DEFINE e == Closed(q, reasons)
             bar == BarWith(trend, q, <<e>>)
  <1>1. e.reasons # <<>> /\ Bar(trend, q, <<>> \o <<e>> \o <<>>) /\ slot' = Empty
        /\ slot.phase = "open"
    BY <1>q DEF Leave, TradeExits
  <1>2. /\ Holds(slot) /\ slot.id \in DOMAIN b.entries
        /\ e \in Events /\ e.type = "trade_closed" /\ e.trade = slot.id
        /\ e.r \in Int /\ e.reasons \in Seq(Reasons) /\ e.reasons # <<>>
    <2>1. reasons \in Seq(Reasons)
      BY <1>q, ReversalsAre
    <2> HIDE DEF b
    <2> QED
      BY <1>1, <2>1, ClosedIs DEF b
  <1> HIDE DEF e
  <1>3. Bar(trend, q, <<e>>) /\ slot' = Empty /\ q \in AllQuotes
    <2>1. <<>> \o <<e>> \o <<>> = <<e>>
      OBVIOUS
    <2> QED
      BY <1>1, <2>1, QuotesIs
  <1>4. /\ bar \in Bars /\ bar.open = now /\ bar.events = <<e>>
        /\ tape' = Append(tape, bar) /\ now' = now + 1 /\ data' = Build(tape')
        /\ TapeOK(tape', now') /\ tape'[i].events = <<e>>
        /\ BookOK(b, tape', slot, 0)
        /\ Collected(tape') = Traced(tape', b, i) /\ tape \in Seq(Bars)
    <2>1. <<e>> \in Seq(Events)
      BY <1>2
    <2> QED
      BY <1>3, <2>1, BarBegins
  <1> HIDE DEF bar, b, i
  <1>5. Collected(tape') = b
    <2>1. Traced(tape', b, i) = Recorded(tape', b, i, e)
      BY <1>4, TracedOne
    <2>2. Recorded(tape', b, i, e) = b
      BY <1>2, ReadsClose
    <2> QED
      BY <1>4, <2>1, <2>2
  <1>6. BookOK(b, tape', Empty, 0)
    <2>1. ~Armed(slot)
      BY <1>2 DEF Armed, Holds
    <2> QED
      BY <1>4, <2>1, SlotCleared
  <1>7. EventsOK(tape', b.entries, Empty)
    <2>1. NewEvents(bar.events, "trade_opened") = {} /\ NewEvents(bar.events, "trade_closed") = {e}
      BY <1>2, <1>4, NewOne
    <2>2. EventsOK(tape, b.entries, slot) /\ \A k \in DOMAIN b.entries : b.entries[k].at \in DOMAIN tape
      BY DEF ResearchIInv, b, BookOK, EntryOK
    <2>3. EventsOK(Append(tape, bar), b.entries, Empty)
      BY <1>2, <1>4, <2>1, <2>2, EventsClosed
    <2> QED
      BY <1>4, <2>3
  <1>8. BookOK(Collected(tape'), tape', slot', 0)
        /\ EventsOK(tape', Collected(tape').entries, slot')
        /\ Preserved(Collected(tape), Collected(tape'), Len(tape) + 1, now + 1)
    BY <1>3, <1>5, <1>6, <1>7, PreservedSame DEF b
  <1> QED
    BY <1>4, <1>8, BarEnds

LEMMA ExitsOnFlipGrows ==
    ASSUME ResearchIInv, TradeExitsOnFlip
    PROVE  Grown
  <1> DEFINE b == Collected(tape)
             i == Len(tape) + 1
             t == now + 1
             z == Event("decision_rejected", None)
             Why(side) == IF side = slot.side THEN <<>> ELSE <<"exit_hema_flip">>
  <1>p. PICK side \in Sides, trend \in Sides, q \in ExitQuotes :
            \E reasons \in Reversals(Why(side)) : Leave(trend, q, reasons, <<Flip(side)>>, <<z>>)
    BY DEF TradeExitsOnFlip
  <1>q. PICK reasons \in Reversals(Why(side)) : Leave(trend, q, reasons, <<Flip(side)>>, <<z>>)
    BY <1>p
  <1> DEFINE e == Closed(q, reasons)
             flip == Flip(side)
             evs == <<flip, e, z>>
             bar == BarWith(trend, q, evs)
  <1>1. e.reasons # <<>> /\ Bar(trend, q, <<flip>> \o <<e>> \o <<z>>) /\ slot' = Empty
        /\ slot.phase = "open"
    BY <1>q DEF Leave, TradeExitsOnFlip
  <1>2. /\ Holds(slot) /\ slot.id \in DOMAIN b.entries
        /\ e \in Events /\ e.type = "trade_closed" /\ e.trade = slot.id
        /\ e.r \in Int /\ e.reasons \in Seq(Reasons) /\ e.reasons # <<>>
    <2> DEFINE why == Why(side)
    <2>1. why = <<>> \/ why = <<"exit_hema_flip">>
      OBVIOUS
    <2>2. reasons \in Reversals(why)
      BY <1>q
    <2> HIDE DEF why
    <2>3. reasons \in Seq(Reasons)
      BY <2>1, <2>2, ReversalsAre
    <2> HIDE DEF b
    <2> QED
      BY <1>1, <2>3, ClosedIs DEF b
  <1>3. /\ flip \in Events /\ flip.type = "hema_flip_detected" /\ flip.side = side
        /\ z \in Events /\ z.type = "decision_rejected" /\ z.side = None
    BY DEF Flip, Event, Events
  <1> HIDE DEF e, z, flip
  <1>4. Bar(trend, q, evs) /\ q \in AllQuotes
    <2>1. <<flip>> \o <<e>> = <<flip, e>> /\ <<flip, e>> \o <<z>> = <<flip, e, z>>
      BY TwoEvents, ThreeEvents
    <2>2. <<flip>> \o <<e>> \o <<z>> = evs
      BY <2>1, Zenon
    <2> HIDE DEF evs
    <2> QED
      BY <1>1, <2>2, QuotesIs
  <1>5. evs \in Seq(Events) /\ evs = <<flip, e, z>> /\ Range(evs) = {flip, e, z}
    BY <1>2, <1>3 DEF Range
  <1> HIDE DEF evs
  <1>6. /\ bar \in Bars /\ bar.open = now /\ bar.events = evs
        /\ tape' = Append(tape, bar) /\ now' = now + 1 /\ data' = Build(tape')
        /\ TapeOK(tape', now') /\ tape'[i].events = evs /\ i \in DOMAIN tape'
        /\ Finalized(tape'[i]) = t /\ t \notin DOMAIN b.setups /\ t # 0
        /\ BookOK(b, tape', slot, 0)
        /\ Collected(tape') = Traced(tape', b, i) /\ tape \in Seq(Bars)
    BY <1>4, <1>5, BarBegins
  <1> DEFINE c == Recorded(tape', b, i, flip)
             d == Recorded(tape', c, i, z)
  <1>7. Collected(tape') = d
    <2> HIDE DEF b, i, bar
    <2>0. tape'[i].events = <<flip, e, z>>
      BY <1>5, <1>6
    <2>1. Traced(tape', b, i) = Recorded(tape', Recorded(tape', c, i, e), i, z)
      BY <2>0, TracedThree
    <2>2. Recorded(tape', c, i, e) = c
      BY <1>2, ReadsClose
    <2> QED
      BY <1>6, <2>1, <2>2
  <1>t. now' = t
    BY <1>6
  <1> HIDE DEF bar, b, i, t
  <1>8. EventsOK(tape', b.entries, Empty)
    <2>1. NewEvents(bar.events, "trade_opened") = {} /\ NewEvents(bar.events, "trade_closed") = {e}
      BY <1>2, <1>3, <1>5, <1>6 DEF NewEvents
    <2>2. EventsOK(tape, b.entries, slot) /\ \A k \in DOMAIN b.entries : b.entries[k].at \in DOMAIN tape
      BY DEF ResearchIInv, b, BookOK, EntryOK
    <2>3. EventsOK(Append(tape, bar), b.entries, Empty)
      BY <1>2, <1>6, <2>1, <2>2, EventsClosed
    <2> QED
      BY <1>6, <2>3
  <1>9. NobodyHeld(tape', b.entries, t)
    <2>1. ~Holds(Empty)
      BY DEF Holds, Empty
    <2>2. /\ Resolved(tape', b.entries, Empty)
          /\ \A x \in EventsOf(tape', "trade_closed") : x[1] \in DOMAIN tape'
      BY <1>8 DEF EventsOK
    <2> QED
      BY <1>6, <1>t, <2>1, <2>2, NobodyIsHeld
  <1>10. /\ BookOK(c, tape', slot, t) /\ Preserved(b, c, i, t)
         /\ t \in DOMAIN c.setups /\ c.entries = b.entries
    <2>1. FlipAs(b, Recorded(tape', b, i, flip), tape', slot, i, t, flip)
      BY <1>3, <1>6, ReadsFlipAs
    <2> QED
      BY <2>1 DEF ReadAs, FlipAs
  <1> HIDE DEF c
  <1>11. BookOK(d, tape', slot, 0) /\ Preserved(c, d, i, t) /\ d.entries = c.entries
    <2>1. ReadAs(c, Recorded(tape', c, i, z), tape', slot, 0, i, t)
      BY <1>3, <1>6, <1>9, <1>10, ReadsRejectAs
    <2> QED
      BY <2>1 DEF ReadAs
  <1> HIDE DEF d
  <1>12. BookOK(d, tape', Empty, 0)
    <2>1. ~Armed(slot)
      BY <1>2 DEF Armed, Holds
    <2> QED
      BY <1>11, <2>1, SlotCleared
  <1>13. Preserved(b, d, i, t)
    BY <1>10, <1>11, PreservedTwice
  <1>14. BookOK(Collected(tape'), tape', slot', 0)
         /\ EventsOK(tape', Collected(tape').entries, slot')
         /\ Preserved(Collected(tape), Collected(tape'), Len(tape) + 1, now + 1)
    BY <1>1, <1>7, <1>8, <1>10, <1>11, <1>12, <1>13 DEF b, i, t
  <1> QED
    BY <1>6, <1>14, BarEnds

\* A flip that nothing answers leaves the row of a setup on the trade's side
\* without a reason, and the trade is held over its bar.
LEMMA HeldGrows ==
    ASSUME ResearchIInv, FlipHeld
    PROVE  Grown
  <1> DEFINE b == Collected(tape)
             i == Len(tape) + 1
             t == now + 1
             flip == Flip(slot.side)
  <1>q. PICK q \in QuietQuotes, trend \in Sides : Bar(trend, q, <<flip>>)
    BY DEF FlipHeld
  <1> DEFINE bar == BarWith(trend, q, <<flip>>)
             c == Recorded(tape', b, i, flip)
  <1>0. slot.phase = "open" /\ slot' = slot
    BY DEF FlipHeld
  <1>1. /\ Holds(slot) /\ slot.side \in Sides /\ slot.id \in DOMAIN b.entries
        /\ b.entries[slot.id].trade.side = slot.side
        /\ b.entries[slot.id].at \in DOMAIN tape
    <2>1. BookOK(b, tape, slot, 0)
      BY DEF ResearchIInv
    <2> HIDE DEF b
    <2>2. Holds(slot) /\ slot.side \in Sides /\ slot.id \in DOMAIN b.entries
      BY <1>0, <2>1, PhaseIs
    <2>3. b.entries[slot.id].trade.side = slot.side
      BY <1>0, <2>1, <2>2 DEF BookOK, SlotOK, Empty, Armed
    <2> QED
      BY <2>1, <2>2, <2>3 DEF BookOK, EntryOK
  <1>2. flip \in Events /\ flip.type = "hema_flip_detected" /\ flip.side = slot.side
    BY <1>1 DEF Flip, Event, Events
  <1> HIDE DEF flip
  <1>3. /\ bar \in Bars /\ bar.open = now /\ bar.events = <<flip>>
        /\ tape' = Append(tape, bar) /\ now' = t /\ data' = Build(tape')
        /\ TapeOK(tape', t) /\ i \in DOMAIN tape' /\ Finalized(tape'[i]) = t
        /\ t \notin DOMAIN b.setups /\ tape'[i].events = <<flip>>
        /\ BookOK(b, tape', slot, 0)
        /\ Collected(tape') = Traced(tape', b, i) /\ tape \in Seq(Bars)
    <2>1. <<flip>> \in Seq(Events) /\ q \in AllQuotes
      BY <1>2, QuotesIs
    <2> QED
      BY <1>q, <2>1, BarBegins
  <1> HIDE DEF bar, b, i, t
  <1>4. Collected(tape') = c
    BY <1>3, TracedOne
  <1>5. /\ BookOK(c, tape', slot, t) /\ Preserved(b, c, i, t) /\ c.entries = b.entries
        /\ t \in DOMAIN c.setups /\ c.setups[t].features.side = slot.side
        /\ c.setups[t].reason = None
    <2>1. flip.side \in Sides /\ t = Finalized(tape'[i])
      BY <1>1, <1>2, <1>3
    <2>2. FlipAs(b, c, tape', slot, i, t, flip)
      BY <1>2, <1>3, <2>1, ReadsFlipAs
    <2> HIDE DEF c
    <2> QED
      BY <1>2, <2>2 DEF ReadAs, FlipAs
  <1> HIDE DEF c
  <1>6. EventsOK(tape', b.entries, slot)
    <2>1. NewEvents(bar.events, "trade_opened") = {} /\ NewEvents(bar.events, "trade_closed") = {}
      BY <1>2, <1>3, NewOne
    <2>2. EventsOK(tape, b.entries, slot)
      BY DEF ResearchIInv, b
    <2>3. EventsOK(Append(tape, bar), b.entries, slot)
      BY <1>3, <2>1, <2>2, EventsQuiet
    <2> QED
      BY <1>3, <2>3
  <1>7. Finalized(tape'[b.entries[slot.id].at]) < t /\ b.entries[slot.id].at \in DOMAIN tape'
    <2> DEFINE k == b.entries[slot.id].at
    <2>1. k \in DOMAIN tape
      BY <1>1
    <2> HIDE DEF k
    <2>2. tape[k].open \in Nat /\ tape[k].open < now /\ now \in Nat
      BY <2>1, BarOf DEF ResearchIInv
    <2>3. tape'[k] = tape[k] /\ k \in DOMAIN tape'
      BY <1>3, <2>1, Appended
    <2>4. Finalized(tape'[k]) < t /\ k \in DOMAIN tape'
      BY <2>2, <2>3 DEF Finalized, t
    <2> QED
      BY <2>4 DEF k
  <1>8. ReasonOK(tape', c.entries, c.setups[t], t)
    BY <1>1, <1>3, <1>5, <1>6, <1>7, SlotIsHeld
  <1>9. BookOK(c, tape', slot, 0)
    BY <1>3, <1>5, <1>8, ReadsNothing
  <1>10. BookOK(Collected(tape'), tape', slot', 0)
         /\ EventsOK(tape', Collected(tape').entries, slot')
         /\ Preserved(Collected(tape), Collected(tape'), Len(tape) + 1, now + 1)
    BY <1>0, <1>4, <1>5, <1>6, <1>9 DEF b, i, t
  <1>11. now' = now + 1 /\ TapeOK(tape', now')
    BY <1>3 DEF t
  <1> QED
    BY <1>3, <1>10, <1>11, BarEnds

\* A step adds a bar, or leaves the tape and what is built from it as they are.
LEMMA ResearchStep ==
    ASSUME ResearchIInv, [Next]_vars
    PROVE  \/ Grown
           \/ ResearchIInv' /\ tape' = tape /\ data' = data /\ slot' = slot
              /\ (now' = now \/ now' = now + 1)
  <1>1. CASE MissingBar
    <2>1. tape' = tape /\ data' = data /\ slot' = slot /\ now' = now + 1
      BY <1>1 DEF MissingBar
    <2>2. TapeOK(tape', now')
      <3>1. \A i \in DOMAIN tape : tape[i].open \in Nat /\ tape[i].open < now /\ now \in Nat
        BY BarOf DEF ResearchIInv
      <3>2. now \in Nat
        BY DEF ResearchIInv, TapeOK
      <3> QED
        BY <2>1, <3>1, <3>2 DEF ResearchIInv, TapeOK
    <2>3. ResearchIInv'
      BY <2>1, <2>2 DEF ResearchIInv
    <2> QED
      BY <2>1, <2>3
  <1>2. CASE UNCHANGED vars
    BY <1>2 DEF vars, ResearchIInv
  <1> QED
    BY <1>1, <1>2, QuietGrows, RejectedGrows, ArmsGrows, EntersGrows, ConfirmedGrows,
       CancelledGrows, HeldGrows, ExitsGrows, ExitsOnFlipGrows DEF Next

LEMMA InitBook ==
    ASSUME Init
    PROVE  ResearchIInv
  <1>1. TapeOK(<<>>, 0)
    BY DEF TapeOK
  <1>2. Collected(<<>>) = NothingYet
    <2>1. Len(<<>>) = 0
      OBVIOUS
    <2> QED
      BY <2>1, CollectedIs
  <1>3. /\ NothingYet.setups = <<>> /\ NothingYet.entries = <<>>
        /\ NothingYet = Booked(NothingYet.setups, NothingYet.arms, NothingYet.entries)
        /\ DOMAIN NothingYet.arms = Sides /\ IsMap(NothingYet.arms)
    BY DEF NothingYet, Booked, IsMap
  <1>4. IsMap(<<>>) /\ DOMAIN <<>> = {}
    BY DEF IsMap
  <1>5. BookOK(NothingYet, <<>>, Empty, 0)
    <2> DEFINE b == NothingYet
    <2>1. Shape(b)
      <3>1. <<>> \in Seq([trade : Openings, at : Nat])
        OBVIOUS
      <3> QED
        BY <1>3, <1>4, <3>1 DEF Shape
    <2>2. SlotOK(b, Empty)
      BY DEF SlotOK
    <2> QED
      BY <1>3, <1>4, <2>1, <2>2 DEF BookOK
  <1>6. EventsOK(<<>>, <<>>, Empty)
    <2>1. \A type : EventsOf(<<>>, type) = {}
      BY <1>4 DEF EventsOf
    <2> QED
      BY <1>4, <2>1 DEF EventsOK, Resolved
  <1> QED
    BY <1>1, <1>2, <1>3, <1>5, <1>6 DEF Init, ResearchIInv

\* The rows are what the strategy has done: every setup named for the bar of its
\* flip with the features of that bar and the status that the slot and the
\* trades say, and without a reason exactly if a trade is held over its bar (a
\* flip to the side of the open trade is neither rejected nor armed), every entry
\* with its setup, the events of the traces one for one with the entries and
\* exits, and the dataset built from the tape as it is.
THEOREM ResearchInvariant == Spec => []ResearchIInv
<1>1. Init => ResearchIInv
  BY InitBook
<1>2. ResearchIInv /\ [Next]_vars => ResearchIInv'
  BY ResearchStep DEF Grown
<1> QED
  BY <1>1, <1>2, PTL DEF Spec

-----------------------------------------------------------------------------
(* The rows of the trades.                                                 *)

Join(entered, outcome) ==
    [field \in DOMAIN entered \cup DOMAIN outcome |->
        IF field \in DOMAIN entered THEN entered[field] ELSE outcome[field]]

OutcomeOf(tp, entry) ==
    LET closes == Closes(tp, entry.trade.id)
    IN IF closes = {} THEN NoOutcome
       ELSE LET close == CHOOSE item \in closes : TRUE
            IN Outcome(tp, entry, close[1], close[2])

Entered(entry, features, outcome) ==
    [id |-> entry.trade.id, origin |-> entry.trade.origin, features |-> features,
     age |-> features.decision - entry.trade.origin,
     flags |-> (IF outcome.state = "closed" /\ outcome.mfe = None
                THEN {"post_entry_15m_gap"} ELSE {})
               \cup (IF features.prefix THEN {} ELSE {"incomplete_utc_session_prefix"})
               \cup (IF features.context.adr = None THEN {"adr_unavailable"} ELSE {})]

LEMMA RowFromParts ==
    ASSUME NEW tp, NEW entry
    PROVE  TradeRow(tp, entry)
             = Join(Entered(entry, EntryFeatures(tp, entry.at, entry.trade.side),
                            OutcomeOf(tp, entry)), OutcomeOf(tp, entry))
  BY DEF TradeRow, Join, Entered, OutcomeOf

OutcomeFields ==
    {"state", "exit", "reasons", "stopHit", "r", "mae", "mfe", "observed", "expected", "elapsed"}

LEMMA Joined ==
    ASSUME NEW entry, NEW features, NEW outcome, DOMAIN outcome = OutcomeFields
    PROVE  LET x == Join(Entered(entry, features, outcome), outcome)
           IN /\ x.id = entry.trade.id /\ x.origin = entry.trade.origin /\ x.features = features
              /\ x.age = features.decision - entry.trade.origin
              /\ x.flags = Entered(entry, features, outcome).flags
              /\ x.state = outcome.state /\ x.exit = outcome.exit
              /\ x.reasons = outcome.reasons /\ x.stopHit = outcome.stopHit
              /\ x.r = outcome.r /\ x.mae = outcome.mae /\ x.mfe = outcome.mfe
              /\ x.observed = outcome.observed /\ x.expected = outcome.expected
              /\ x.elapsed = outcome.elapsed
  <1> DEFINE e == Entered(entry, features, outcome)
  <1>1. /\ DOMAIN e = {"id", "origin", "features", "age", "flags"}
        /\ e.id = entry.trade.id /\ e.origin = entry.trade.origin /\ e.features = features
        /\ e.age = features.decision - entry.trade.origin
    BY DEF Entered
  <1> HIDE DEF e
  <1>2. \A field \in DOMAIN e \cup DOMAIN outcome :
           Join(e, outcome)[field] = IF field \in DOMAIN e THEN e[field] ELSE outcome[field]
    BY DEF Join
  <1>3. \A field \in {"id", "origin", "features", "age", "flags"} :
           Join(e, outcome)[field] = e[field]
    BY <1>1, <1>2
  <1>4. \A field \in OutcomeFields : Join(e, outcome)[field] = outcome[field]
    BY <1>1, <1>2 DEF OutcomeFields
  <1>5. LET x == Join(e, outcome)
        IN /\ x.id = entry.trade.id /\ x.origin = entry.trade.origin /\ x.features = features
           /\ x.age = features.decision - entry.trade.origin
           /\ x.flags = e.flags
           /\ x.state = outcome.state /\ x.exit = outcome.exit
           /\ x.reasons = outcome.reasons /\ x.stopHit = outcome.stopHit
           /\ x.r = outcome.r /\ x.mae = outcome.mae /\ x.mfe = outcome.mfe
           /\ x.observed = outcome.observed /\ x.expected = outcome.expected
           /\ x.elapsed = outcome.elapsed
    BY <1>1, <1>3, <1>4 DEF OutcomeFields
  <1> QED
    BY <1>5 DEF e

LEMMA OutcomeIs ==
    ASSUME NEW tp, NEW entry
    PROVE  /\ DOMAIN OutcomeOf(tp, entry) = OutcomeFields
           /\ Closes(tp, entry.trade.id) = {} =>
                 LET x == OutcomeOf(tp, entry)
                 IN x = NoOutcome
           /\ \A close : Closes(tp, entry.trade.id) = {close} =>
                 OutcomeOf(tp, entry) = Outcome(tp, entry, close[1], close[2])
  <1>1. DOMAIN NoOutcome = OutcomeFields
    BY DEF NoOutcome, OutcomeFields
  <1>2. \A last, close : DOMAIN Outcome(tp, entry, last, close) = OutcomeFields
    BY DEF Outcome, OutcomeFields
  <1>3. \A close : Closes(tp, entry.trade.id) = {close} =>
           OutcomeOf(tp, entry) = Outcome(tp, entry, close[1], close[2])
    BY DEF OutcomeOf
  <1>4. Closes(tp, entry.trade.id) = {} => OutcomeOf(tp, entry) = NoOutcome
    BY DEF OutcomeOf
  <1>5. DOMAIN OutcomeOf(tp, entry) = OutcomeFields
    BY <1>1, <1>2 DEF OutcomeOf
  <1> QED
    BY <1>3, <1>4, <1>5

\* The trade of an entry is closed by one event at most.
LEMMA ClosesIs ==
    ASSUME NEW tp \in Seq(Bars), NEW entries, NEW sl, EventsOK(tp, entries, sl), NEW id
    PROVE  /\ Closes(tp, id) \subseteq EventsOf(tp, "trade_closed")
           /\ \A close \in Closes(tp, id) :
                 /\ close = <<close[1], close[2]>> /\ close[1] \in DOMAIN tp
                 /\ close[2].trade = id /\ id \in DOMAIN entries
                 /\ entries[id].at < close[1]
                 /\ close[2].r \in Int /\ close[2].reasons \in Seq(Reasons)
                 /\ close[2].reasons # <<>>
                 /\ Closes(tp, id) = {close}
  <1>1. Closes(tp, id) \subseteq EventsOf(tp, "trade_closed")
    BY DEF Closes
  <1>2. \A x \in EventsOf(tp, "trade_closed") : x = <<x[1], x[2]>> /\ x[1] \in DOMAIN tp
    BY TradesGrow
  <1>3. \A x, y \in Closes(tp, id) : x = y
    BY <1>1 DEF EventsOK, Closes
  <1>4. \A x \in Closes(tp, id) : x[2].trade = id
    BY DEF Closes
  <1>5. ASSUME NEW close \in Closes(tp, id)
        PROVE  /\ close = <<close[1], close[2]>> /\ close[1] \in DOMAIN tp
               /\ close[2].trade = id /\ id \in DOMAIN entries
               /\ entries[id].at < close[1]
               /\ close[2].r \in Int /\ close[2].reasons \in Seq(Reasons)
               /\ close[2].reasons # <<>>
               /\ Closes(tp, id) = {close}
    <2>1. close \in EventsOf(tp, "trade_closed") /\ close[2].trade = id
      BY <1>1, <1>4
    <2>2. Closes(tp, id) = {close}
      BY <1>3
    <2> QED
      BY <1>2, <2>1, <2>2 DEF EventsOK
  <1> QED
    BY <1>1, <1>5

\* The outcome of a trade that is closed is final.
LEMMA OutcomeKept ==
    ASSUME NEW tp, NEW n, TapeOK(tp, n), NEW bar \in Bars, bar.open = n,
           NEW entry, entry.at \in DOMAIN tp,
           NEW entries, NEW sl, EventsOK(tp, entries, sl),
           NEW more, NEW sl2, EventsOK(Append(tp, bar), more, sl2),
           Closes(tp, entry.trade.id) # {}
    PROVE  OutcomeOf(Append(tp, bar), entry) = OutcomeOf(tp, entry)
  <1> DEFINE tq == Append(tp, bar)
             id == entry.trade.id
  <1>1. tp \in Seq(Bars) /\ tq \in Seq(Bars)
    BY DEF TapeOK
  <1>2. /\ DOMAIN tp = 1..Len(tp) /\ Len(tp) \in Nat /\ \A i \in DOMAIN tp : tq[i] = tp[i]
    BY <1>1, Appended
  <1>3. PICK close \in Closes(tp, id) : TRUE
    OBVIOUS
  <1> HIDE DEF tq, id
  <1>4. Closes(tp, id) = {close} /\ close[1] \in DOMAIN tp
    BY <1>1, <1>3, ClosesIs
  <1>5. close \in Closes(tq, id)
    <2>1. EventsOf(tp, "trade_closed") \subseteq EventsOf(tq, "trade_closed")
      <3>1. EventsOf(tq, "trade_closed")
              = EventsOf(tp, "trade_closed") \cup LateEvents(tp, bar, "trade_closed")
        BY <1>1, TradesGrow DEF tq
      <3> QED
        BY <3>1
    <2> QED
      BY <1>3, <2>1 DEF Closes
  <1>6. Closes(tq, id) = {close}
    <2>1. EventsOK(tq, more, sl2)
      BY DEF tq
    <2> QED
      BY <1>1, <1>5, <2>1, ClosesIs
  <1>7. Outcome(tq, entry, close[1], close[2]) = Outcome(tp, entry, close[1], close[2])
    <2> DEFINE last == close[1]
    <2>1. tq[last] = tp[last] /\ tq[entry.at] = tp[entry.at]
      BY <1>2, <1>4
    <2>2. \A i \in (entry.at + 1)..last : tq[i] = tp[i]
      <3>1. last \in 1..Len(tp) /\ entry.at \in 1..Len(tp)
        BY <1>2, <1>4
      <3> HIDE DEF last
      <3> QED
        BY <1>2, <3>1
    <2>3. {tq[i].quote : i \in (entry.at + 1)..last} = {tp[i].quote : i \in (entry.at + 1)..last}
      BY <2>2
    <2> HIDE DEF last
    <2>4. Outcome(tq, entry, last, close[2]) = Outcome(tp, entry, last, close[2])
      BY <2>1, <2>3 DEF Outcome, Finalized
    <2> QED
      BY <2>4 DEF last
  <1>8. OutcomeOf(tp, entry) = Outcome(tp, entry, close[1], close[2])
    BY <1>4, OutcomeIs DEF id
  <1>9. OutcomeOf(tq, entry) = Outcome(tq, entry, close[1], close[2])
    BY <1>6, OutcomeIs DEF id
  <1>10. OutcomeOf(tq, entry) = OutcomeOf(tp, entry)
    BY <1>7, <1>8, <1>9
  <1> QED
    BY <1>10 DEF tq

\* What a row says of its entry is final, and the whole row once it is closed.
LEMMA RowKept ==
    ASSUME NEW tp, NEW n, TapeOK(tp, n), NEW bar \in Bars, bar.open = n,
           NEW entry, entry.at \in DOMAIN tp,
           NEW entries, NEW sl, EventsOK(tp, entries, sl),
           NEW more, NEW sl2, EventsOK(Append(tp, bar), more, sl2)
    PROVE  LET x == TradeRow(tp, entry)
               y == TradeRow(Append(tp, bar), entry)
           IN /\ y.id = x.id /\ y.origin = x.origin /\ y.features = x.features
              /\ Closes(tp, entry.trade.id) # {} => y = x
  <1> DEFINE tq == Append(tp, bar)
             f == EntryFeatures(tp, entry.at, entry.trade.side)
             x == TradeRow(tp, entry)
             y == TradeRow(tq, entry)
             ox == OutcomeOf(tp, entry)
             oy == OutcomeOf(tq, entry)
  <1>1. EntryFeatures(tq, entry.at, entry.trade.side) = f
    BY FeaturesKept
  <1>3. Closes(tp, entry.trade.id) # {} => oy = ox
    BY OutcomeKept
  <1>4. DOMAIN ox = OutcomeFields /\ DOMAIN oy = OutcomeFields
    BY OutcomeIs
  <1> HIDE DEF tq, f
  <1>2. x = Join(Entered(entry, f, ox), ox) /\ y = Join(Entered(entry, f, oy), oy)
    BY <1>1, RowFromParts DEF f
  <1> HIDE DEF x, y, ox, oy
  <1>5. x.id = entry.trade.id /\ x.origin = entry.trade.origin /\ x.features = f
    BY <1>2, <1>4, Joined
  <1>6. y.id = entry.trade.id /\ y.origin = entry.trade.origin /\ y.features = f
    BY <1>2, <1>4, Joined
  <1>7. Closes(tp, entry.trade.id) # {} => y = x
    BY <1>2, <1>3
  <1> QED
    BY <1>5, <1>6, <1>7 DEF x, y, tq

-----------------------------------------------------------------------------
(* The dataset, row by row.                                                *)

\* ResearchIInv of values, so that it can be used of the state before and after.
Consistent(tp, n, sl, d) ==
    /\ TapeOK(tp, n)
    /\ d = Build(tp)
    /\ BookOK(Collected(tp), tp, sl, 0)
    /\ EventsOK(tp, Collected(tp).entries, sl)

LEMMA ConsistentIs ==
    /\ ResearchIInv => Consistent(tape, now, slot, data)
    /\ ResearchIInv' => Consistent(tape', now', slot', data')
  BY DEF ResearchIInv, Consistent

LEMMA DataIs ==
    ASSUME NEW tp, NEW n, NEW sl, NEW d, Consistent(tp, n, sl, d)
    PROVE  /\ d.setups = Collected(tp).setups
           /\ ~Collected(tp).raised /\ d.source = Len(tp)
           /\ DOMAIN d.trades = DOMAIN Collected(tp).entries
           /\ Collected(tp).entries \in Seq([trade : Openings, at : Nat])
           /\ \A k \in DOMAIN d.trades :
                 d.trades[k] = TradeRow(tp, Collected(tp).entries[k])
           /\ Trades(d) = {d.trades[k] : k \in DOMAIN d.trades}
  <1>1. d = Build(tp) /\ Shape(Collected(tp))
    BY DEF Consistent, BookOK
  <1>2. ~Collected(tp).raised
    BY <1>1, ShapeIs
  <1>3. Collected(tp).entries \in Seq([trade : Openings, at : Nat])
    BY <1>1 DEF Shape
  <1> QED
    BY <1>1, <1>2, <1>3 DEF Build, Trades, Range

\* The times of the bars of a tape.
LEMMA TimesOf ==
    ASSUME NEW tp, NEW n, TapeOK(tp, n)
    PROVE  /\ n \in Nat
           /\ \A i \in DOMAIN tp : /\ i \in Nat /\ Finalized(tp[i]) \in Nat
                                   /\ 0 < Finalized(tp[i]) /\ Finalized(tp[i]) <= n
           /\ \A i, j \in DOMAIN tp : i < j => Finalized(tp[i]) < Finalized(tp[j])
           /\ \A i, j \in DOMAIN tp : Finalized(tp[i]) = Finalized(tp[j]) => i = j
  <1>1. /\ n \in Nat
        /\ \A i \in DOMAIN tp : i \in Nat /\ tp[i].open \in Nat /\ tp[i].open < n
    BY BarOf DEF TapeOK
  <1>2. \A i, j \in DOMAIN tp : i < j => tp[i].open < tp[j].open
    BY DEF TapeOK
  <1>3. \A i, j \in DOMAIN tp : i < j => Finalized(tp[i]) < Finalized(tp[j])
    BY <1>1, <1>2 DEF Finalized
  <1>4. \A i \in DOMAIN tp : i \in Nat /\ Finalized(tp[i]) \in Nat
                             /\ 0 < Finalized(tp[i]) /\ Finalized(tp[i]) <= n
    BY <1>1 DEF Finalized
  <1>5. \A i, j \in DOMAIN tp : i < j \/ j < i \/ i = j
    BY <1>1
  <1>6. \A i, j \in DOMAIN tp : Finalized(tp[i]) = Finalized(tp[j]) => i = j
    BY <1>3, <1>4, <1>5, SMTT(60)
  <1> QED
    BY <1>1, <1>3, <1>4, <1>6

\* What a row has from its entry, and from its exit if there is one.
LEMMA RowOf ==
    ASSUME NEW tp, NEW n, NEW sl, NEW d, Consistent(tp, n, sl, d), NEW k \in DOMAIN d.trades,
           NEW x, x = d.trades[k], NEW e, e = Collected(tp).entries[k]
    PROVE  /\ k \in Nat /\ e.trade.id = k /\ e.at \in DOMAIN tp
           /\ e.trade \in Openings
           /\ x = TradeRow(tp, e)
           /\ x.id = k /\ x.origin = e.trade.origin /\ x.origin \in DOMAIN d.setups
           /\ d.setups[x.origin].status = "opened" /\ d.setups[x.origin].trade = k
           /\ x.features = EntryFeatures(tp, e.at, e.trade.side)
           /\ x.features.decision = Finalized(tp[e.at])
           /\ x.features.side = e.trade.side /\ x.features.side \in Sides
           /\ x.features.decision \in Nat /\ x.features.decision <= n
           /\ x.state = OutcomeOf(tp, e).state /\ x.exit = OutcomeOf(tp, e).exit
           /\ Closes(tp, k) = {} => x.state = "censored" /\ x.exit = None
           /\ \A close \in Closes(tp, k) :
                 /\ OutcomeOf(tp, e) = Outcome(tp, e, close[1], close[2])
                 /\ close[1] \in DOMAIN tp /\ e.at < close[1]
                 /\ x.state = "closed" /\ x.exit = Finalized(tp[close[1]])
                 /\ x.exit \in Nat /\ x.exit # None
                 /\ x.features.decision < x.exit /\ x.exit <= n
  <1> DEFINE f == EntryFeatures(tp, e.at, e.trade.side)
             o == OutcomeOf(tp, e)
  <1>0. /\ d.setups = Collected(tp).setups
        /\ DOMAIN d.trades = DOMAIN Collected(tp).entries
        /\ d.trades[k] = TradeRow(tp, Collected(tp).entries[k])
    <2>1. /\ d.setups = Collected(tp).setups
          /\ DOMAIN d.trades = DOMAIN Collected(tp).entries
          /\ \A j \in DOMAIN d.trades : d.trades[j] = TradeRow(tp, Collected(tp).entries[j])
      BY DataIs
    <2> QED
      BY <2>1
  <1>1. /\ EntryOK(Collected(tp), tp, k) /\ TapeOK(tp, n) /\ tp \in Seq(Bars)
        /\ EventsOK(tp, Collected(tp).entries, sl)
    BY <1>0 DEF Consistent, BookOK, TapeOK
  <1>2. /\ e.at \in DOMAIN tp /\ e.trade.id = k /\ e.trade.origin \in DOMAIN d.setups
        /\ d.setups[e.trade.origin].status = "opened"
        /\ d.setups[e.trade.origin].trade = k
    BY <1>0, <1>1 DEF EntryOK
  <1>3. k \in Nat /\ e \in [trade : Openings, at : Nat]
    <2> DEFINE s == Collected(tp).entries
               S == [trade : Openings, at : Nat]
    <2>1. k \in DOMAIN s /\ s \in Seq(S) /\ e = s[k]
      BY DataIs
    <2> HIDE DEF s, S
    <2>2. k \in Nat /\ e \in S
      BY <2>1
    <2> QED
      BY <2>2 DEF S
  <1>4. f.decision = Finalized(tp[e.at]) /\ f.side = e.trade.side
    BY DEF EntryFeatures
  <1>5. e.trade.side \in Sides /\ e.trade \in Openings
    BY <1>3 DEF Openings
  <1>6. x = Join(Entered(e, f, o), o) /\ x = TradeRow(tp, e)
    BY <1>0, RowFromParts
  <1>7. DOMAIN o = OutcomeFields
    BY OutcomeIs
  <1>8. Finalized(tp[e.at]) \in Nat /\ Finalized(tp[e.at]) <= n
    BY <1>1, <1>2, TimesOf
  <1>9. Closes(tp, k) = {} => o.state = "censored" /\ o.exit = None
    <2>1. Closes(tp, k) = {} => o = NoOutcome
      BY <1>2, OutcomeIs
    <2> HIDE DEF o
    <2> QED
      BY <2>1 DEF NoOutcome
  <1> HIDE DEF f, o
  <1>10. x.id = e.trade.id /\ x.origin = e.trade.origin /\ x.features = f
         /\ x.state = o.state /\ x.exit = o.exit
    <2>1. x = Join(Entered(e, f, o), o)
      BY <1>6
    <2> QED
      BY <1>7, <2>1, Joined
  <1>11. ASSUME NEW close \in Closes(tp, k)
         PROVE  /\ o = Outcome(tp, e, close[1], close[2])
                /\ close[1] \in DOMAIN tp /\ e.at < close[1]
                /\ o.state = "closed" /\ o.exit = Finalized(tp[close[1]])
                /\ o.exit \in Nat /\ o.exit # None
                /\ f.decision < o.exit /\ o.exit <= n
    <2>1. close[1] \in DOMAIN tp /\ e.at < close[1] /\ Closes(tp, k) = {close}
      BY <1>1, ClosesIs
    <2>2. o = Outcome(tp, e, close[1], close[2])
      BY <1>2, <2>1, OutcomeIs DEF o
    <2>3. o.state = "closed" /\ o.exit = Finalized(tp[close[1]])
      BY <2>2 DEF Outcome
    <2>4. /\ Finalized(tp[close[1]]) \in Nat /\ Finalized(tp[close[1]]) <= n
          /\ Finalized(tp[e.at]) < Finalized(tp[close[1]])
      BY <1>1, <1>2, <2>1, TimesOf
    <2> QED
      BY <1>4, <2>1, <2>2, <2>3, <2>4, NoneAssumption
  <1> QED
    BY <1>2, <1>3, <1>4, <1>5, <1>6, <1>8, <1>9, <1>10, <1>11 DEF f, o

\* A further bar leaves every setup and moves none but the one that waits, and
\* adds none but that of its own flip.
LEMMA SetupsKept ==
    ASSUME ResearchIInv, Grown
    PROVE  /\ \A o \in DOMAIN data.setups :
                 /\ o \in Nat /\ o <= now
                 /\ o \in DOMAIN data'.setups
                 /\ data'.setups[o].features = data.setups[o].features
                 /\ data'.setups[o].eligible = data.setups[o].eligible
                 /\ data'.setups[o] = data.setups[o] \/ data.setups[o].status = "armed"
           /\ \A o \in DOMAIN data'.setups :
                 o \in DOMAIN data.setups
                     \/ (o = now + 1 /\ data'.setups[o].features.decision = now + 1)
           /\ \A o \in DOMAIN data.setups : data.setups[o].features.decision = o
  <1> DEFINE b == Collected(tape)
             c == Collected(tape')
  <1>1. Consistent(tape, now, slot, data) /\ Consistent(tape', now', slot', data')
    BY ConsistentIs DEF Grown
  <1>2. data.setups = b.setups /\ data'.setups = c.setups
    BY <1>1, DataIs
  <1>3. /\ \A o \in DOMAIN b.setups : SetupOK(b, tape, slot, 0, o)
        /\ \A o \in DOMAIN c.setups : SetupOK(c, tape', slot', 0, o)
        /\ TapeOK(tape, now) /\ TapeOK(tape', now')
    BY <1>1 DEF Consistent, BookOK
  <1>4. Preserved(b, c, Len(tape) + 1, now + 1)
    BY DEF Grown
  <1> HIDE DEF b, c
  <1>5. \A o \in DOMAIN b.setups : o \in Nat /\ o <= now /\ b.setups[o].features.decision = o
    BY <1>3, OriginIsNat
  <1>6. \A o \in DOMAIN c.setups : c.setups[o].features.decision = o
    BY <1>3, OriginIsNat
  <1>7. now \in Nat
    BY <1>3 DEF TapeOK
  <1>8. \A o \in DOMAIN b.setups : o # now + 1
    BY <1>5, <1>7
  <1> QED
    BY <1>2, <1>4, <1>5, <1>6, <1>8 DEF Preserved

\* A further bar leaves the rows of the trades that were there, and the whole
\* row of one that is closed; a new row is that of an entry on the bar.
LEMMA TradesKept ==
    ASSUME ResearchIInv, Grown
    PROVE  /\ \A k \in DOMAIN data.trades :
                 LET x == data.trades[k]
                     y == data'.trades[k]
                 IN /\ k \in DOMAIN data'.trades
                    /\ y.id = x.id /\ y.origin = x.origin /\ y.features = x.features
                    /\ x.state = "closed" => y = x
                    /\ x.state # "closed" => x.exit = None /\ x.state = "censored"
                    /\ x.state # "closed" =>
                          \/ y.exit = None /\ y.state = "censored"
                          \/ y.exit = now + 1 /\ y.state = "closed"
           /\ \A k \in DOMAIN data'.trades :
                 k \in DOMAIN data.trades \/ data'.trades[k].features.decision = now + 1
  <1> DEFINE b == Collected(tape)
             c == Collected(tape')
  <1>1. Consistent(tape, now, slot, data) /\ Consistent(tape', now', slot', data')
    BY ConsistentIs DEF Grown
  <1>2. PICK bar \in Bars : bar.open = now /\ tape' = Append(tape, bar)
    BY DEF Grown
  <1>3. /\ TapeOK(tape, now) /\ TapeOK(Append(tape, bar), now')
        /\ EventsOK(tape, b.entries, slot) /\ EventsOK(Append(tape, bar), c.entries, slot')
        /\ tape \in Seq(Bars) /\ tape' \in Seq(Bars)
    BY <1>1, <1>2 DEF Consistent, TapeOK
  <1>4. /\ \A k \in DOMAIN b.entries : k \in DOMAIN c.entries /\ c.entries[k] = b.entries[k]
        /\ \A k \in DOMAIN c.entries : k \in DOMAIN b.entries \/ c.entries[k].at = Len(tape) + 1
    BY DEF Grown, Preserved
  <1>5. /\ DOMAIN data.trades = DOMAIN b.entries /\ DOMAIN data'.trades = DOMAIN c.entries
    BY <1>1, DataIs
  <1>6. Finalized(tape'[Len(tape) + 1]) = now + 1
    BY <1>2, <1>3, Appended DEF Finalized
  <1> HIDE DEF b, c
  <1>7. ASSUME NEW k \in DOMAIN data.trades, NEW x, x = data.trades[k],
               NEW y, y = data'.trades[k]
        PROVE  /\ k \in DOMAIN data'.trades
               /\ y.id = x.id /\ y.origin = x.origin /\ y.features = x.features
               /\ x.state = "closed" => y = x
               /\ x.state # "closed" => x.exit = None /\ x.state = "censored"
               /\ x.state # "closed" =>
                     \/ y.exit = None /\ y.state = "censored"
                     \/ y.exit = now + 1 /\ y.state = "closed"
    <2> DEFINE e == b.entries[k]
    <2>1. k \in DOMAIN data'.trades /\ e = c.entries[k]
      BY <1>4, <1>5
    <2>2. /\ e.at \in DOMAIN tape /\ e.trade.id = k /\ x = TradeRow(tape, e)
          /\ Closes(tape, k) = {} => x.state = "censored" /\ x.exit = None
          /\ \A close \in Closes(tape, k) : x.state = "closed"
      BY <1>1, <1>7, RowOf DEF b
    <2>3. /\ y = TradeRow(tape', e)
          /\ Closes(tape', k) = {} => y.state = "censored" /\ y.exit = None
          /\ \A close \in Closes(tape', k) :
                y.state = "closed" /\ y.exit = Finalized(tape'[close[1]])
      BY <1>1, <1>7, <2>1, RowOf DEF c
    <2> HIDE DEF e
    <2>4. LET u == TradeRow(tape, e)
              v == TradeRow(Append(tape, bar), e)
          IN /\ v.id = u.id /\ v.origin = u.origin /\ v.features = u.features
             /\ Closes(tape, e.trade.id) # {} => v = u
      BY <1>2, <1>3, <2>2, RowKept
    <2>5. /\ y.id = x.id /\ y.origin = x.origin /\ y.features = x.features
          /\ Closes(tape, k) # {} => y = x
      BY <1>2, <2>2, <2>3, <2>4
    <2>6. ASSUME NEW close \in Closes(tape', k), Closes(tape, k) = {}
          PROVE  close[1] = Len(tape) + 1
      <3>1. /\ EventsOf(tape', "trade_closed")
                 = EventsOf(tape, "trade_closed") \cup LateEvents(tape, bar, "trade_closed")
        BY <1>2, <1>3, TradesGrow
      <3>2. close \in LateEvents(tape, bar, "trade_closed")
        BY <2>6, <3>1 DEF Closes
      <3> QED
        BY <3>2 DEF LateEvents
    <2>7. x.state = "closed" => Closes(tape, k) # {}
      BY <2>2
    <2>8. x.state # "closed" => Closes(tape, k) = {}
      BY <2>2
    <2>9. x.state # "closed" =>
             \/ y.exit = None /\ y.state = "censored"
             \/ y.exit = now + 1 /\ y.state = "closed"
      <3>1. ASSUME Closes(tape', k) = {}
            PROVE  y.exit = None /\ y.state = "censored"
        <4>1. Closes(tape', k) = {} => y.state = "censored" /\ y.exit = None
          BY <2>3
        <4> QED
          BY <3>1, <4>1
      <3>2. ASSUME NEW close \in Closes(tape', k), Closes(tape, k) = {}
            PROVE  y.exit = now + 1 /\ y.state = "closed"
        <4>1. y.state = "closed" /\ y.exit = Finalized(tape'[close[1]])
          BY <2>3
        <4>2. close[1] = Len(tape) + 1
          BY <2>6, <3>2
        <4> QED
          BY <1>6, <4>1, <4>2
      <3> QED
        BY <2>8, <3>1, <3>2
    <2> QED
      BY <2>1, <2>2, <2>5, <2>7, <2>8, <2>9
  <1>8. ASSUME NEW k \in DOMAIN data'.trades, k \notin DOMAIN data.trades
        PROVE  data'.trades[k].features.decision = now + 1
    <2> DEFINE y == data'.trades[k]
               e == c.entries[k]
    <2>1. y.features.decision = Finalized(tape'[e.at])
      BY <1>1, RowOf DEF c
    <2>2. e.at = Len(tape) + 1
      BY <1>4, <1>5, <1>8
    <2> QED
      BY <1>6, <2>1, <2>2
  <1> QED
    BY <1>7, <1>8

\* RowsFinal, the absence of look-ahead: more data changes neither the features
\* of a row nor the result of a trade once it is closed, removes no row and
\* moves a setup only from armed to what became of it (dataset.py,
\* build_research_dataset).
THEOREM RowsNeverChange == Spec => RowsFinal
<1> DEFINE Kept1 == \A o \in DOMAIN data.setups :
                       /\ o \in DOMAIN data'.setups
                       /\ data'.setups[o].features = data.setups[o].features
                       /\ data'.setups[o].eligible = data.setups[o].eligible
                       /\ data'.setups[o] = data.setups[o] \/ data.setups[o].status = "armed"
           Kept2 == \A x \in Trades(data) :
                       \E y \in Trades(data') :
                          /\ y.id = x.id /\ y.origin = x.origin /\ y.features = x.features
                          /\ x.state = "closed" => y = x
<1>1. ASSUME ResearchIInv, [Next]_vars
      PROVE  Kept1 /\ Kept2
  <2>1. CASE data' = data
    BY <2>1
  <2>2. CASE Grown
    <3>1. Kept1
      BY <1>1, <2>2, SetupsKept
    <3>2. Trades(data) = {data.trades[k] : k \in DOMAIN data.trades}
          /\ Trades(data') = {data'.trades[k] : k \in DOMAIN data'.trades}
      BY DEF Trades, Range
    <3>3. Kept2
      BY <1>1, <2>2, <3>2, TradesKept
    <3> QED
      BY <3>1, <3>3
  <2> QED
    BY <1>1, <2>1, <2>2, ResearchStep
<1>2. ResearchIInv /\ [Next]_vars => [Kept1 /\ Kept2]_vars
  BY <1>1
<1>3. QED
  BY <1>2, ResearchInvariant, PTL DEF Spec, RowsFinal

-----------------------------------------------------------------------------
(* The evidence of a window that is over.                                  *)

\* The outcome of a delayed entry, from the indices of its bar and of the exit.
DelayedAt(tp, x, entry, last) ==
    LET stop == StopOf(x.features.side, tp[entry].quote)
        stops == {i \in (entry + 1) .. last : Stopped(x.features.side, stop, tp[i].quote)}
    IN IF entry > Len(tp) THEN [skipped |-> "insufficient_subsequent_bars"]
       ELSE IF Finalized(tp[entry]) >= x.exit
            THEN [skipped |-> "baseline_not_open_strictly_after_delayed_decision"]
       ELSE IF stops = {} THEN [skipped |-> None, exit |-> x.exit, mode |-> "baseline_exit"]
       ELSE [skipped |-> None, exit |-> Finalized(tp[Smallest(stops)]),
             mode |-> "delayed_stop"]

LEMMA DelayedIs ==
    ASSUME NEW tp, NEW n, TapeOK(tp, n), NEW a \in DOMAIN tp, NEW z \in DOMAIN tp,
           NEW x, x.features.decision = Finalized(tp[a]), x.exit = Finalized(tp[z]),
           NEW m
    PROVE  Delayed(tp, x, m) = DelayedAt(tp, x, a + m, z)
  <1> DEFINE at(t) == CHOOSE i \in DOMAIN tp : Finalized(tp[i]) = t
  <1>1. \A i, j \in DOMAIN tp : Finalized(tp[i]) = Finalized(tp[j]) => i = j
    BY TimesOf
  <1>2. at(x.features.decision) = a /\ at(x.exit) = z
    BY <1>1
  <1> HIDE DEF at
  <1>3. Delayed(tp, x, m) = DelayedAt(tp, x, at(x.features.decision) + m, at(x.exit))
    BY DEF Delayed, DelayedAt, at
  <1> QED
    BY <1>2, <1>3

\* A further bar does not change what a delay makes of a trade that is closed:
\* an entry that would fall on the new bar comes after the exit.
LEMMA DelayedKept ==
    ASSUME NEW tp, NEW n, TapeOK(tp, n), NEW bar \in Bars, bar.open = n,
           NEW a \in DOMAIN tp, NEW z \in DOMAIN tp,
           NEW x, x.features.decision = Finalized(tp[a]), x.exit = Finalized(tp[z]),
           NEW m \in Nat
    PROVE  \/ Delayed(Append(tp, bar), x, m) = Delayed(tp, x, m)
           \/ /\ Delayed(Append(tp, bar), x, m).skipped # None
              /\ Delayed(tp, x, m).skipped # None
  <1> DEFINE tq == Append(tp, bar)
             N == Len(tp)
  <1>1. TapeOK(tq, n + 1) /\ tp \in Seq(Bars) /\ n \in Nat
    BY TapeGrows DEF TapeOK
  <1>2. /\ N \in Nat /\ DOMAIN tp = 1..N /\ Len(tq) = N + 1 /\ DOMAIN tq = 1..N + 1
        /\ tq[N + 1] = bar /\ \A i \in DOMAIN tp : tq[i] = tp[i]
    BY <1>1, Appended
  <1>3. a \in 1..N /\ z \in 1..N /\ a \in DOMAIN tq /\ z \in DOMAIN tq
        /\ tq[a] = tp[a] /\ tq[z] = tp[z]
    BY <1>2
  <1> HIDE DEF tq, N
  <1>4. Delayed(tp, x, m) = DelayedAt(tp, x, a + m, z)
    BY DelayedIs
  <1>5. Delayed(tq, x, m) = DelayedAt(tq, x, a + m, z)
    BY <1>1, <1>3, DelayedIs
  <1>6. CASE a + m <= N
    <2> DEFINE entry == a + m
               stop == StopOf(x.features.side, tp[entry].quote)
    <2>1. entry \in 1..N /\ tq[entry] = tp[entry]
      BY <1>2, <1>3, <1>6
    <2> HIDE DEF entry
    <2>2. \A i \in (entry + 1)..z : i \in 1..N /\ tq[i] = tp[i]
      BY <1>2, <1>3, <2>1
    <2>3. {i \in (entry + 1) .. z : Stopped(x.features.side, stop, tq[i].quote)}
            = {i \in (entry + 1) .. z : Stopped(x.features.side, stop, tp[i].quote)}
      BY <2>2
    <2> DEFINE S == {i \in (entry + 1) .. z : Stopped(x.features.side, stop, tp[i].quote)}
    <2>4. S # {} => Smallest(S) \in 1..N
      <3>1. S \subseteq Int /\ (\A i \in S : entry <= i) /\ entry \in Int /\ S \subseteq 1..N
        BY <2>1, <2>2
      <3> HIDE DEF S
      <3> QED
        BY <3>1, SmallestIs
    <2>5. S # {} => tq[Smallest(S)] = tp[Smallest(S)]
      BY <1>2, <2>4
    <2>6. ~(entry > Len(tq)) /\ ~(entry > Len(tp))
      BY <1>2, <2>1 DEF N
    <2>7. DelayedAt(tq, x, entry, z) = DelayedAt(tp, x, entry, z)
      BY <2>1, <2>3, <2>5, <2>6 DEF DelayedAt
    <2> QED
      BY <1>4, <1>5, <2>7 DEF entry, tq
  <1>7. CASE ~(a + m <= N)
    <2>1. a + m > N /\ a + m \in Nat
      BY <1>2, <1>3, <1>7
    <2>2. Delayed(tp, x, m).skipped # None
      <3>1. DelayedAt(tp, x, a + m, z) = [skipped |-> "insufficient_subsequent_bars"]
        BY <2>1 DEF DelayedAt, N
      <3> QED
        BY <1>4, <3>1, NoneAssumption
    <2>3. Delayed(tq, x, m).skipped # None
      <3>1. CASE a + m > N + 1
        <4>1. DelayedAt(tq, x, a + m, z) = [skipped |-> "insufficient_subsequent_bars"]
          BY <1>2, <3>1 DEF DelayedAt
        <4> QED
          BY <1>5, <4>1, NoneAssumption
      <3>2. CASE a + m = N + 1
        <4>1. Finalized(tq[a + m]) = n + 1
          BY <1>2, <3>2 DEF Finalized
        <4>2. x.exit \in Nat /\ x.exit <= n
          BY TimesOf
        <4>3. Finalized(tq[a + m]) >= x.exit /\ ~(a + m > Len(tq))
          BY <1>1, <1>2, <3>2, <4>1, <4>2
        <4>4. DelayedAt(tq, x, a + m, z)
                = [skipped |-> "baseline_not_open_strictly_after_delayed_decision"]
          BY <4>3 DEF DelayedAt
        <4> QED
          BY <1>5, <4>4, NoneAssumption
      <3> QED
        BY <1>2, <2>1, <3>1, <3>2
    <2> QED
      BY <2>2, <2>3 DEF tq
  <1> QED
    BY <1>6, <1>7

\* What comes after the end of a window does not lie in it.
LEMMA OverIs ==
    ASSUME NEW w, Over(w, now), w.end \in Int, now \in Nat
    PROVE  ~Inside(w, now + 1)
  <1>1. (w.end + 1) * DayBars \in Int
    BY DayAssumption
  <1> QED
    BY <1>1 DEF Over, Inside

LEMMA DecisionIs ==
    ASSUME NEW tp, NEW n, NEW sl, NEW d, Consistent(tp, n, sl, d), NEW k \in DOMAIN d.trades
    PROVE  /\ Decision(d, d.trades[k]) = d.trades[k].origin
           /\ d.trades[k].origin \in DOMAIN d.setups
           /\ d.trades[k].origin \in Nat
  <1> DEFINE o == d.trades[k].origin
  <1>1. o \in DOMAIN d.setups
    BY RowOf
  <1>2. d.setups = Collected(tp).setups
    BY DataIs
  <1>3. SetupOK(Collected(tp), tp, sl, 0, o) /\ TapeOK(tp, n)
    BY <1>1, <1>2 DEF Consistent, BookOK
  <1> HIDE DEF o
  <1>4. d.setups[o].features.decision = o /\ o \in Nat
    BY <1>1, <1>2, <1>3, OriginIsNat
  <1> QED
    BY <1>1, <1>4 DEF Decision, o

LEMMA SetupsFrozen ==
    ASSUME ResearchIInv, Grown, NEW w, ~Inside(w, now + 1)
    PROVE  EligibleSetups(data', w) = EligibleSetups(data, w)
  <1>1. \A o \in DOMAIN data.setups :
           /\ o \in DOMAIN data'.setups
           /\ data'.setups[o].features = data.setups[o].features
           /\ data'.setups[o].eligible = data.setups[o].eligible
    BY SetupsKept
  <1>2. \A o \in DOMAIN data'.setups :
           o \in DOMAIN data.setups
               \/ (o = now + 1 /\ data'.setups[o].features.decision = now + 1)
    BY SetupsKept
  <1> QED
    BY <1>1, <1>2 DEF EligibleSetups

\* The rows of one trade before and after a further bar.
LEMMA RowFrozen ==
    ASSUME ResearchIInv, Grown, NEW w, ~Inside(w, now + 1), NEW k \in DOMAIN data.trades,
           NEW x, x = data.trades[k], NEW y, y = data'.trades[k]
    PROVE  /\ k \in DOMAIN data'.trades
           /\ Decision(data', y) = Decision(data, x)
           /\ x.state = "closed" => y = x
           /\ y.state = "closed" /\ y.exit # None /\ Inside(w, y.exit) => y = x
           /\ LET was == Treatment(data, w, x)
                  is == Treatment(data', w, y)
              IN is = was \/ (was = "censored" /\ is = "purged_entry_exit")
  <1>1. /\ k \in DOMAIN data'.trades
        /\ y.id = x.id /\ y.origin = x.origin /\ y.features = x.features
        /\ x.state = "closed" => y = x
        /\ x.state # "closed" => x.exit = None /\ x.state = "censored"
        /\ x.state # "closed" => \/ y.exit = None /\ y.state = "censored"
                                 \/ y.exit = now + 1 /\ y.state = "closed"
    BY TradesKept
  <1>2. Decision(data', y) = Decision(data, x)
    <2>1. Consistent(tape, now, slot, data) /\ Consistent(tape', now', slot', data')
      BY ConsistentIs DEF Grown
    <2>2. Decision(data, data.trades[k]) = data.trades[k].origin
      BY <2>1, DecisionIs
    <2>3. Decision(data', data'.trades[k]) = data'.trades[k].origin
      BY <1>1, <2>1, DecisionIs
    <2> QED
      BY <1>1, <2>2, <2>3
  <1>3. y.state = "closed" /\ y.exit # None /\ Inside(w, y.exit) => y = x
    BY <1>1
  <1> DEFINE was == Treatment(data, w, x)
             is == Treatment(data', w, y)
  <1>4. is = was \/ (was = "censored" /\ is = "purged_entry_exit")
    <2>1. CASE x.state = "closed"
      BY <1>1, <1>2, <2>1 DEF Treatment
    <2>2. CASE x.state # "closed" /\ y.exit = None /\ y.state = "censored"
      BY <1>1, <1>2, <2>2 DEF Treatment
    <2>3. CASE x.state # "closed" /\ y.exit = now + 1 /\ y.state = "closed"
      BY <1>1, <1>2, <2>3 DEF Treatment
    <2> QED
      BY <1>1, <2>1, <2>2, <2>3
  <1> QED
    BY <1>1, <1>2, <1>3, <1>4

LEMMA TradesFrozen ==
    ASSUME ResearchIInv, Grown, NEW w, ~Inside(w, now + 1)
    PROVE  ClosedTrades(data', w) = ClosedTrades(data, w)
  <1>1. /\ Trades(data) = {data.trades[k] : k \in DOMAIN data.trades}
        /\ Trades(data') = {data'.trades[k] : k \in DOMAIN data'.trades}
    BY DEF Trades, Range
  <1>2. \A k \in DOMAIN data.trades :
           /\ k \in DOMAIN data'.trades
           /\ Decision(data', data'.trades[k]) = Decision(data, data.trades[k])
           /\ data.trades[k].state = "closed" => data'.trades[k] = data.trades[k]
           /\ data'.trades[k].state = "closed" /\ data'.trades[k].exit # None
                 /\ Inside(w, data'.trades[k].exit)
              => data'.trades[k] = data.trades[k]
    BY RowFrozen
  <1>3. \A k \in DOMAIN data'.trades :
           k \in DOMAIN data.trades \/ ~Inside(w, data'.trades[k].features.decision)
    BY TradesKept
  <1>4. \A k \in DOMAIN data'.trades :
           data'.trades[k].state = "closed" => data'.trades[k].exit # None
    <2> SUFFICES ASSUME NEW k \in DOMAIN data'.trades, NEW y, y = data'.trades[k],
                        y.state = "closed"
                 PROVE  y.exit # None
      OBVIOUS
    <2>1. Consistent(tape', now', slot', data')
      BY ConsistentIs DEF Grown
    <2>2. /\ Closes(tape', k) = {} => y.state = "censored" /\ y.exit = None
          /\ \A close \in Closes(tape', k) : y.exit # None
      BY <2>1, RowOf
    <2> QED
      BY <2>2
  <1>5. ASSUME NEW x \in ClosedTrades(data, w)
        PROVE  x \in ClosedTrades(data', w)
    <2>1. PICK k \in DOMAIN data.trades : x = data.trades[k]
      BY <1>1 DEF ClosedTrades
    <2>2. x.state = "closed" /\ Inside(w, Decision(data, x)) /\ Inside(w, x.features.decision)
          /\ Inside(w, x.exit)
      BY DEF ClosedTrades
    <2>3. x = data'.trades[k] /\ k \in DOMAIN data'.trades /\ Decision(data', x) = Decision(data, x)
      BY <1>2, <2>1, <2>2
    <2> QED
      BY <1>1, <2>2, <2>3 DEF ClosedTrades
  <1>6. ASSUME NEW y \in ClosedTrades(data', w)
        PROVE  y \in ClosedTrades(data, w)
    <2>1. PICK k \in DOMAIN data'.trades : y = data'.trades[k]
      BY <1>1 DEF ClosedTrades
    <2>2. y.state = "closed" /\ Inside(w, Decision(data', y)) /\ Inside(w, y.features.decision)
          /\ Inside(w, y.exit)
      BY DEF ClosedTrades
    <2>3. k \in DOMAIN data.trades
      BY <1>3, <2>1, <2>2
    <2>4. y = data.trades[k] /\ Decision(data', y) = Decision(data, y)
      BY <1>2, <1>4, <2>1, <2>2, <2>3
    <2> QED
      BY <1>1, <2>2, <2>3, <2>4 DEF ClosedTrades
  <1> QED
    BY <1>5, <1>6

LEMMA DelaysFrozen ==
    ASSUME ResearchIInv, Grown, NEW w, NEW m \in Delays
    PROVE  DelayedTrades(tape', ClosedTrades(data, w), m)
             = DelayedTrades(tape, ClosedTrades(data, w), m)
  <1>1. PICK bar \in Bars : bar.open = now /\ tape' = Append(tape, bar)
    BY DEF Grown
  <1>2. m \in Nat
    BY EvidenceAssumption DEF ConfigAssumption
  <1>3. Consistent(tape, now, slot, data) /\ TapeOK(tape, now)
    BY ConsistentIs DEF Consistent
  <1>4. ASSUME NEW x \in ClosedTrades(data, w)
        PROVE  \/ Delayed(tape', x, m) = Delayed(tape, x, m)
               \/ Delayed(tape', x, m).skipped # None /\ Delayed(tape, x, m).skipped # None
    <2>1. x.state = "closed" /\ \E k \in DOMAIN data.trades : x = data.trades[k]
      BY DEF ClosedTrades, Trades, Range
    <2>2. PICK k \in DOMAIN data.trades : x = data.trades[k]
      BY <2>1
    <2> DEFINE e == Collected(tape).entries[k]
    <2>3. /\ e.at \in DOMAIN tape /\ x.features.decision = Finalized(tape[e.at])
          /\ Closes(tape, k) = {} => x.state = "censored"
          /\ \A close \in Closes(tape, k) :
                close[1] \in DOMAIN tape /\ x.exit = Finalized(tape[close[1]])
      BY <1>3, <2>2, RowOf
    <2> HIDE DEF e
    <2>4. PICK close \in Closes(tape, k) : TRUE
      BY <2>1, <2>3
    <2>5. close[1] \in DOMAIN tape /\ x.exit = Finalized(tape[close[1]])
      BY <2>3
    <2>6. \/ Delayed(Append(tape, bar), x, m) = Delayed(tape, x, m)
          \/ /\ Delayed(Append(tape, bar), x, m).skipped # None
             /\ Delayed(tape, x, m).skipped # None
      BY <1>1, <1>2, <1>3, <2>3, <2>5, DelayedKept
    <2> QED
      BY <1>1, <2>6
  <1> QED
    BY <1>4 DEF DelayedTrades

\* EvidenceFrozen: once a window is over, later bars change neither the trades
\* and setups it counts nor what a delayed entry makes of them, and a trade that
\* touches it is only moved from censored to purged (pipeline._window_report,
\* candidates._population, experiments._delay_outcome).
THEOREM EvidenceNeverChanges == Spec => EvidenceFrozen
<1> DEFINE Frozen ==
        \A role \in Roles : LET w == Windows[role] IN
          Over(w, now) =>
              /\ ClosedTrades(data', w) = ClosedTrades(data, w)
              /\ EligibleSetups(data', w) = EligibleSetups(data, w)
              /\ \A k \in DOMAIN data.trades :
                    LET was == Treatment(data, w, data.trades[k])
                        is == Treatment(data', w, data'.trades[k])
                    IN is = was \/ (was = "censored" /\ is = "purged_entry_exit")
              /\ \A n \in Delays :
                    DelayedTrades(tape', ClosedTrades(data', w), n)
                        = DelayedTrades(tape, ClosedTrades(data, w), n)
<1>1. ASSUME ResearchIInv, [Next]_vars
      PROVE  Frozen
  <2>1. CASE data' = data /\ tape' = tape
    BY <2>1
  <2>2. CASE Grown
    <3> SUFFICES ASSUME NEW role \in Roles, NEW w, w = Windows[role], Over(w, now)
                 PROVE  /\ ClosedTrades(data', w) = ClosedTrades(data, w)
                        /\ EligibleSetups(data', w) = EligibleSetups(data, w)
                        /\ \A k \in DOMAIN data.trades :
                              LET was == Treatment(data, w, data.trades[k])
                                  is == Treatment(data', w, data'.trades[k])
                              IN is = was \/ (was = "censored" /\ is = "purged_entry_exit")
                        /\ \A n \in Delays :
                              DelayedTrades(tape', ClosedTrades(data', w), n)
                                  = DelayedTrades(tape, ClosedTrades(data, w), n)
      BY Zenon
    <3>1. ~Inside(w, now + 1)
      <4>1. w.end \in Int
        BY EvidenceAssumption DEF WindowsAssumption
      <4>2. now \in Nat
        BY <1>1 DEF ResearchIInv, TapeOK
      <4> QED
        BY <4>1, <4>2, OverIs
    <3>2. EligibleSetups(data', w) = EligibleSetups(data, w)
      BY <1>1, <2>2, <3>1, SetupsFrozen
    <3>3. ClosedTrades(data', w) = ClosedTrades(data, w)
      BY <1>1, <2>2, <3>1, TradesFrozen
    <3>4. \A k \in DOMAIN data.trades :
             LET was == Treatment(data, w, data.trades[k])
                 is == Treatment(data', w, data'.trades[k])
             IN is = was \/ (was = "censored" /\ is = "purged_entry_exit")
      BY <1>1, <2>2, <3>1, RowFrozen
    <3>5. \A n \in Delays :
             DelayedTrades(tape', ClosedTrades(data', w), n)
                 = DelayedTrades(tape, ClosedTrades(data, w), n)
      BY <1>1, <2>2, <3>3, DelaysFrozen
    <3> QED
      BY <3>2, <3>3, <3>4, <3>5
  <2> QED
    BY <1>1, <2>1, <2>2, ResearchStep
<1>2. ResearchIInv /\ [Next]_vars => [Frozen]_vars
  BY <1>1
<1>3. QED
  BY <1>2, ResearchInvariant, PTL DEF Spec, EvidenceFrozen

-----------------------------------------------------------------------------
(* The rows agree with each other.                                         *)

\* Finitely many numbers have bounds.
LEMMA BoundsOf ==
    ASSUME NEW n \in Nat, NEW f, \A i \in 1..n : f[i] \in Int
    PROVE  \E low \in Int, high \in Int : \A i \in 1..n : low <= f[i] /\ f[i] <= high
  <1> DEFINE Within(k) == \E low \in Int, high \in Int :
                             \A i \in 1..k : low <= f[i] /\ f[i] <= high
             H == {k \in 0..n : Within(k)}
  <1>1. 0 \in H
    BY DEF Within
  <1>2. ASSUME NEW k \in 0..n, k \in H, k < n
        PROVE  k + 1 \in H
    <2>1. PICK low \in Int, high \in Int : \A i \in 1..k : low <= f[i] /\ f[i] <= high
      BY <1>2
    <2> DEFINE v == f[k + 1]
    <2>2. v \in Int /\ k + 1 \in 0..n
      BY <1>2
    <2>3. \A i \in 1..k + 1 : i \in 1..k \/ i = k + 1
      BY <1>2
    <2> HIDE DEF v
    <2>4. PICK low2 \in Int : low2 <= low /\ low2 <= v
      <3>1. (low <= low /\ low <= v) \/ (v <= low /\ v <= v)
        BY <2>2
      <3> QED
        BY <2>2, <3>1
    <2>5. PICK high2 \in Int : high <= high2 /\ v <= high2
      <3>1. (high <= high /\ v <= high) \/ (high <= v /\ v <= v)
        BY <2>2
      <3> QED
        BY <2>2, <3>1
    <2>6. \A i \in 1..k + 1 : low2 <= f[i] /\ f[i] <= high2
      <3>1. \A i \in 1..k : f[i] \in Int
        BY <1>2
      <3> QED
        BY <2>1, <2>2, <2>3, <2>4, <2>5, <3>1 DEF v
    <2>7. Within(k + 1)
      BY <2>6
    <2> HIDE DEF Within
    <2> QED
      BY <2>2, <2>7
  <1>3. H \in SUBSET (0..n) /\ n \in 0..n
    OBVIOUS
  <1> HIDE DEF H
  <1>4. n \in H
    BY <1>1, <1>2, <1>3, UpTo
  <1> QED
    BY <1>4 DEF H

\* There are at most as many bars between two as their times say.
LEMMA BarsBetween ==
    ASSUME NEW tp, NEW n, TapeOK(tp, n), NEW i \in DOMAIN tp, NEW j \in DOMAIN tp, i < j
    PROVE  j - i <= tp[j].open - tp[i].open
  <1> DEFINE m == j - i
             H == {k \in 0..m : k <= tp[i + k].open - tp[i].open}
  <1>1. i \in Nat /\ j \in Nat /\ m \in Nat /\ DOMAIN tp = 1..Len(tp) /\ Len(tp) \in Nat
        /\ \A k \in DOMAIN tp : tp[k].open \in Nat
    <2>1. \A k \in DOMAIN tp : tp[k].open \in Nat
      BY BarOf
    <2>2. DOMAIN tp = 1..Len(tp) /\ Len(tp) \in Nat
      BY DEF TapeOK
    <2>3. i \in Nat /\ j \in Nat
      BY <2>2
    <2> QED
      BY <2>1, <2>2, <2>3
  <1>2. 0 \in H
    BY <1>1
  <1>3. ASSUME NEW k \in 0..m, k \in H, k < m
        PROVE  k + 1 \in H
    <2>1. i + k \in DOMAIN tp /\ i + k + 1 \in DOMAIN tp /\ k + 1 \in 0..m
      BY <1>1, <1>3
    <2>2. i + k < i + k + 1
      BY <1>1
    <2>3. tp[i + k].open < tp[i + k + 1].open
      BY <2>1, <2>2 DEF TapeOK
    <2>4. tp[i + k].open \in Nat /\ tp[i + k + 1].open \in Nat /\ tp[i].open \in Nat
      BY <1>1, <2>1
    <2>5. k <= tp[i + k].open - tp[i].open
      BY <1>3
    <2>6. k + 1 <= tp[i + (k + 1)].open - tp[i].open
      <3>1. i + (k + 1) = i + k + 1
        BY <1>1
      <3> QED
        BY <2>3, <2>4, <2>5, <3>1
    <2> QED
      BY <2>1, <2>6
  <1>4. H \in SUBSET (0..m) /\ m \in 0..m
    BY <1>1
  <1> HIDE DEF H
  <1>5. m \in H
    <2> HIDE DEF m
    <2> QED
      BY <1>1, <1>2, <1>3, <1>4, UpTo
  <1>6. m <= tp[i + m].open - tp[i].open /\ i + m = j
    BY <1>1, <1>5 DEF H
  <1> QED
    BY <1>6

\* An excursion is at least the entry itself.
LEMMA ExcursionsAre ==
    ASSUME NEW tp, NEW n, TapeOK(tp, n), NEW first \in Nat, NEW last \in DOMAIN tp,
           0 < first, NEW side, NEW price \in Int
    PROVE  LET run == Excursions(side, price, {tp[i].quote : i \in first..last})
           IN run.mae \in Int /\ run.mfe \in Int /\ run.mae >= 0 /\ run.mfe >= 0
  <1> DEFINE Q == {tp[i].quote : i \in first..last}
             L == {q.low : q \in Q} \cup {price}
             U == {q.high : q \in Q} \cup {price}
             N == Len(tp)
             lows == [i \in 1..N |-> tp[i].quote.low]
             highs == [i \in 1..N |-> tp[i].quote.high]
  <1>1. N \in Nat /\ DOMAIN tp = 1..N /\ last \in 1..N
    BY DEF TapeOK
  <1>2. \A q \in AllQuotes : q.low \in Int /\ q.high \in Int
    BY QuotesAssumption
  <1>3. \A i \in 1..N : lows[i] \in Int /\ highs[i] \in Int
    BY <1>1, <1>2, BarOf
  <1> HIDE DEF lows, highs
  <1>4. PICK low \in Int, h1 \in Int : \A i \in 1..N : low <= lows[i] /\ lows[i] <= h1
    BY <1>1, <1>3, BoundsOf
  <1>5. PICK l2 \in Int, high \in Int : \A i \in 1..N : l2 <= highs[i] /\ highs[i] <= high
    BY <1>1, <1>3, BoundsOf
  <1>6. \A i \in first..last : i \in 1..N
    BY <1>1
  <1>7. \A q \in Q : \E i \in 1..N : q.low = lows[i] /\ q.high = highs[i]
    BY <1>6 DEF lows, highs
  <1>8. /\ L \subseteq Int /\ price \in L /\ U \subseteq Int /\ price \in U
        /\ \A v \in L : v = price \/ low <= v
        /\ \A v \in U : v = price \/ v <= high
    BY <1>3, <1>4, <1>5, <1>7
  <1> HIDE DEF L, U
  <1>9. PICK l3 \in Int : l3 <= low /\ l3 <= price
    <2>1. (low <= low /\ low <= price) \/ (price <= low /\ price <= price)
      OBVIOUS
    <2> QED
      BY <2>1
  <1>10. PICK h3 \in Int : high <= h3 /\ price <= h3
    <2>1. (high <= high /\ price <= high) \/ (high <= price /\ price <= price)
      OBVIOUS
    <2> QED
      BY <2>1
  <1>11. \A v \in L : l3 <= v
    BY <1>8, <1>9
  <1>12. \A v \in U : v <= h3
    BY <1>8, <1>10
  <1>13. Smallest(L) \in Int /\ Smallest(L) <= price
    BY <1>8, <1>11, SmallestIs
  <1>14. Largest(U) \in Int /\ price <= Largest(U)
    BY <1>8, <1>12, LargestIs
  <1> DEFINE run == Excursions(side, price, Q)
  <1>15. run.mae \in Int /\ run.mfe \in Int /\ run.mae >= 0 /\ run.mfe >= 0
    BY <1>13, <1>14 DEF Excursions, L, U
  <1> QED
    BY <1>15

-----------------------------------------------------------------------------
(* The ADR and the session of an entry.                                    *)

\* What was traded on a date, from some of its bars.
LEMMA SpanIs ==
    ASSUME NEW tp, NEW n, TapeOK(tp, n), NEW B, B \subseteq DOMAIN tp, B # {}
    PROVE  /\ Largest({tp[i].quote.high : i \in B}) \in Int
           /\ Smallest({tp[i].quote.low : i \in B}) \in Int
           /\ Smallest({tp[i].quote.low : i \in B}) < Largest({tp[i].quote.high : i \in B})
  <1> DEFINE N == Len(tp)
             L == {tp[i].quote.low : i \in B}
             U == {tp[i].quote.high : i \in B}
             lows == [i \in 1..N |-> tp[i].quote.low]
             highs == [i \in 1..N |-> tp[i].quote.high]
  <1>1. N \in Nat /\ DOMAIN tp = 1..N
    BY DEF TapeOK
  <1>2. \A q \in AllQuotes : q.low \in Int /\ q.high \in Int /\ q.low < q.high
    <2>1. \A q \in AllQuotes : q.low \in Int /\ q.high \in Int /\ q.low < q.high
      BY QuotesAssumption
    <2> QED
      BY <2>1
  <1>3. \A i \in 1..N : lows[i] \in Int /\ highs[i] \in Int /\ lows[i] < highs[i]
    BY <1>1, <1>2, BarOf
  <1>4. L = {lows[i] : i \in B} /\ U = {highs[i] : i \in B}
    BY <1>1
  <1> HIDE DEF lows, highs, L, U
  <1>5. PICK low \in Int, h1 \in Int : \A i \in 1..N : low <= lows[i] /\ lows[i] <= h1
    BY <1>1, <1>3, BoundsOf
  <1>6. PICK l2 \in Int, high \in Int : \A i \in 1..N : l2 <= highs[i] /\ highs[i] <= high
    BY <1>1, <1>3, BoundsOf
  <1>7. /\ L \subseteq Int /\ L # {} /\ \A v \in L : low <= v
        /\ U \subseteq Int /\ U # {} /\ \A v \in U : v <= high
    BY <1>1, <1>3, <1>4, <1>5, <1>6
  <1>8. Smallest(L) \in L /\ \A v \in L : Smallest(L) <= v
    BY <1>7, SmallestIs
  <1>9. Largest(U) \in U /\ \A v \in U : v <= Largest(U)
    BY <1>7, LargestIs
  <1>10. PICK i \in B : TRUE
    OBVIOUS
  <1>11. lows[i] \in L /\ highs[i] \in U /\ lows[i] < highs[i]
    BY <1>1, <1>3, <1>4
  <1>12. Smallest(L) \in Int /\ Largest(U) \in Int /\ Smallest(L) < Largest(U)
    <2>1. Smallest(L) \in Int /\ Largest(U) \in Int /\ lows[i] \in Int /\ highs[i] \in Int
      BY <1>7, <1>8, <1>9, <1>11
    <2>2. Smallest(L) <= lows[i] /\ highs[i] <= Largest(U)
      BY <1>8, <1>9, <1>11
    <2> QED
      BY <1>11, <2>1, <2>2
  <1> QED
    BY <1>12 DEF L, U

LEMMA RangeIs ==
    ASSUME NEW tp, NEW n, TapeOK(tp, n), NEW date, DailyRange(tp, date) # None
    PROVE  DailyRange(tp, date) \in Nat \ {0}
  <1> DEFINE B == BarsOf(tp, date)
  <1>1. B # {}
    <2>1. Cardinality({}) = 0 /\ DayBars # 0
      BY FS_EmptySet, DayAssumption
    <2> QED
      BY <2>1 DEF DailyRange
  <1>2. B \subseteq DOMAIN tp
    BY DEF BarsOf
  <1> HIDE DEF B
  <1>3. /\ Largest({tp[i].quote.high : i \in B}) \in Int
        /\ Smallest({tp[i].quote.low : i \in B}) \in Int
        /\ Smallest({tp[i].quote.low : i \in B}) < Largest({tp[i].quote.high : i \in B})
    BY <1>1, <1>2, SpanIs
  <1>4. DailyRange(tp, date)
          = Largest({tp[i].quote.high : i \in B}) - Smallest({tp[i].quote.low : i \in B})
    BY DEF DailyRange, B
  <1> QED
    BY <1>3, <1>4

LEMMA TotalIs ==
    ASSUME NEW ranges, NEW last \in Int,
           \A d \in (last - Lookback + 1)..last : ranges[d] \in Nat \ {0}
    PROVE  Total(ranges, last) \in Nat \ {0}
  <1> DEFINE N == Lookback
             Is(f, n) == f = [k \in 0..n |-> IF k = 0 THEN 0
                                             ELSE f[k - 1] + ranges[last - Lookback + k]]
             H == {n \in 0..N : \E f : Is(f, n) /\ f[n] \in Nat}
  <1>0. N \in Nat \ {0}
    BY DayAssumption
  <1>1. 0 \in H
    <2>1. Is([k \in 0..0 |-> 0], 0) /\ [k \in 0..0 |-> 0][0] \in Nat /\ 0 \in 0..N
      BY <1>0
    <2> HIDE DEF Is
    <2> QED
      BY <2>1
  <1>2. ASSUME NEW n \in 0..N, n \in H, n < N
        PROVE  n + 1 \in H
    <2>1. PICK f : Is(f, n) /\ f[n] \in Nat
      BY <1>2
    <2> DEFINE v == f[n] + ranges[last - Lookback + (n + 1)]
               g == [k \in 0..n + 1 |-> IF k = n + 1 THEN v ELSE f[k]]
    <2>2. v \in Nat
      <3>1. last - Lookback + (n + 1) \in (last - Lookback + 1)..last
        BY <1>0, <1>2
      <3> QED
        BY <2>1, <3>1
    <2>3. ASSUME NEW k \in 0..n + 1
          PROVE  g[k] = IF k = 0 THEN 0 ELSE g[k - 1] + ranges[last - Lookback + k]
      BY <2>1, <1>2
    <2>4. Is(g, n + 1)
      BY <2>3
    <2>5. n + 1 \in 0..N /\ g[n + 1] \in Nat
      <3>1. n + 1 \in 0..N /\ n + 1 \in 0..n + 1
        BY <1>0, <1>2
      <3>2. g[n + 1] = v
        BY <3>1
      <3> QED
        BY <2>2, <3>1, <3>2
    <2> HIDE DEF g, Is
    <2> QED
      BY <2>4, <2>5
  <1>3. \E f : Is(f, N)
    <2>1. H \in SUBSET (0..N)
      OBVIOUS
    <2> HIDE DEF H, N
    <2>2. N \in H
      BY <1>0, <1>1, <1>2, <2>1, UpTo
    <2> QED
      BY <2>2 DEF H
  <1> DEFINE F == CHOOSE f : Is(f, N)
  <1>4. Is(F, N)
    BY <1>3
  <1>5. Total(ranges, last) = F[N]
    BY DEF Total
  <1> HIDE DEF F
  <1> DEFINE G == {n \in 0..N : F[n] \in Nat /\ (n # 0 => F[n] # 0)}
  <1>6. 0 \in G
    BY <1>0, <1>4
  <1>7. ASSUME NEW n \in 0..N, n \in G, n < N
        PROVE  n + 1 \in G
    <2>1. F[n + 1] = F[n] + ranges[last - Lookback + (n + 1)]
      BY <1>0, <1>4, <1>7
    <2>2. last - Lookback + (n + 1) \in (last - Lookback + 1)..last
      BY <1>0, <1>7
    <2>3. ranges[last - Lookback + (n + 1)] \in Nat \ {0} /\ F[n] \in Nat
      BY <1>7, <2>2
    <2>4. F[n + 1] \in Nat /\ F[n + 1] # 0
      BY <2>1, <2>3
    <2>5. n + 1 \in 0..N
      BY <1>0, <1>7
    <2> QED
      BY <2>4, <2>5
  <1>8. G \in SUBSET (0..N) /\ N \in 0..N
    BY <1>0
  <1>9. N \in G
    <2> HIDE DEF G, N
    <2> QED
      BY <1>0, <1>6, <1>7, <1>8, UpTo
  <1> QED
    BY <1>0, <1>5, <1>9

LEMMA AdrAvailable ==
    ASSUME NEW tp, NEW n, TapeOK(tp, n), NEW date \in Int,
           \A d \in PriorDates(date) : DailyRange(tp, d) # None
    PROVE  /\ AdrContext(tp, date).status = "available" /\ AdrContext(tp, date).adr # None
           /\ AdrContext(tp, date).adr[1] \in Nat \ {0} /\ AdrContext(tp, date).adr[2] = Lookback
  <1> DEFINE P == PriorDates(date)
             ranges == [d \in P |-> DailyRange(tp, d)]
  <1>1. Lookback \in Nat \ {0}
    BY DayAssumption
  <1>2. P = (date - Lookback)..(date - 1)
    BY DEF PriorDates
  <1>3. Largest(P) = date - 1
    <2>0. P = (date - Lookback)..(date - 1)
      BY <1>2
    <2> HIDE DEF P
    <2>1. P \subseteq Int /\ P # {} /\ (\A d \in P : d <= date - 1) /\ date - 1 \in Int
          /\ date - 1 \in P
      BY <1>1, <2>0
    <2>2. Largest(P) \in P /\ \A d \in P : d <= Largest(P)
      BY <2>1, LargestIs
    <2>3. Largest(P) \in Int /\ Largest(P) <= date - 1 /\ date - 1 <= Largest(P)
      BY <2>1, <2>2
    <2> QED
      BY <2>1, <2>3
  <1>4. /\ \A d \in P : ranges[d] # None
        /\ AdrContext(tp, date).status = "available"
        /\ AdrContext(tp, date).adr = <<Total(ranges, Largest(P)), Lookback>>
    BY DEF AdrContext
  <1>5. \A d \in P : ranges[d] \in Nat \ {0}
    BY <1>4, RangeIs
  <1> HIDE DEF ranges
  <1>6. Total(ranges, date - 1) \in Nat \ {0}
    <2>1. \A d \in ((date - 1) - Lookback + 1)..(date - 1) : ranges[d] \in Nat \ {0}
      BY <1>1, <1>2, <1>5
    <2>2. date - 1 \in Int
      OBVIOUS
    <2> QED
      BY <2>1, <2>2, TotalIs
  <1>7. AdrContext(tp, date).adr # None
    <2> DEFINE v == Total(ranges, date - 1)
    <2>1. AdrContext(tp, date).adr = <<v, Lookback>> /\ v \in Int /\ Lookback \in Int
      BY <1>1, <1>3, <1>4, <1>6
    <2> HIDE DEF v
    <2>2. <<v, Lookback>> \in Seq(Int)
      BY <2>1
    <2> QED
      BY <2>1, <2>2, NoneAssumption
  <1> QED
    BY <1>3, <1>4, <1>6, <1>7

LEMMA AdrIs ==
    ASSUME NEW tp, NEW n, TapeOK(tp, n), NEW date \in Int
    PROVE  /\ AdrContext(tp, date).status = "available" <=> AdrContext(tp, date).adr # None
           /\ AdrContext(tp, date).adr # None =>
                 AdrContext(tp, date).adr[1] \in Nat \ {0} /\ AdrContext(tp, date).adr[2] = Lookback
  <1>1. CASE \A d \in PriorDates(date) : DailyRange(tp, d) # None
    BY <1>1, AdrAvailable
  <1>2. CASE \E d \in PriorDates(date) : DailyRange(tp, d) = None
    <2>1. AdrContext(tp, date).adr = None
      BY <1>2 DEF AdrContext
    <2>2. AdrContext(tp, date).status \in {"incomplete_prior_session", "warmup"}
      BY <1>2 DEF AdrContext
    <2> QED
      BY <2>1, <2>2
  <1> QED
    BY <1>1, <1>2

LEMMA SessionIs ==
    ASSUME NEW tp, NEW n, TapeOK(tp, n), NEW i \in DOMAIN tp, Session(tp, i) # None
    PROVE  Session(tp, i).high \in Int /\ Session(tp, i).low \in Int
  <1> DEFINE s == Session(tp, i)
             B == {j \in BarsOf(tp, Date(tp[i])) : j <= i}
  <1>1. /\ Cardinality(B) = (tp[i].open % DayBars) + 1
        /\ s = [high |-> Largest({tp[j].quote.high : j \in B}),
                low |-> Smallest({tp[j].quote.low : j \in B})]
    BY DEF Session
  <1>2. B # {}
    <2>1. tp[i].open % DayBars >= 0 /\ tp[i].open % DayBars \in Int
      BY BarOf, DayAssumption
    <2>2. Cardinality({}) = 0
      BY FS_EmptySet
    <2> HIDE DEF B, s
    <2>3. Cardinality(B) # 0
      BY <1>1, <2>1
    <2> QED
      BY <2>2, <2>3
  <1>3. B \subseteq DOMAIN tp
    BY DEF BarsOf
  <1> HIDE DEF B
  <1>4. /\ Largest({tp[j].quote.high : j \in B}) \in Int
        /\ Smallest({tp[j].quote.low : j \in B}) \in Int
    BY <1>2, <1>3, SpanIs
  <1> HIDE DEF s
  <1>5. s.high \in Int /\ s.low \in Int
    BY <1>1, <1>4
  <1> QED
    BY <1>5 DEF s

\* An entry has an extension if it has a session and an ADR, with a positive
\* denominator; and its ADR has the status that says so.
LEMMA ExtensionIs ==
    ASSUME NEW tp, NEW n, TapeOK(tp, n), NEW i \in DOMAIN tp, NEW side,
           NEW f, f = EntryFeatures(tp, i, side)
    PROVE  /\ f.extension # None <=> f.prefix /\ f.context.adr # None
           /\ f.context.status = "available" <=> f.context.adr # None
           /\ f.extension # None =>
                 /\ f.extension = <<f.extension[1], f.extension[2]>>
                 /\ f.extension[1] \in Int /\ f.extension[2] \in Nat \ {0}
  <1> DEFINE s == Session(tp, i)
             context == AdrContext(tp, Date(tp[i]))
             adr == context.adr
             c == tp[i].quote.close
             v == IF side = "long" THEN c - s.low ELSE s.high - c
  <1>1. /\ f.extension = Extension(s, adr, side, c) /\ f.context = context
        /\ f.prefix <=> s # None
    BY DEF EntryFeatures
  <1>2. Date(tp[i]) \in Int
    <2>1. tp[i].open \in Nat
      BY BarOf
    <2> QED
      BY <2>1, QuotientGrows, DayAssumption DEF Date
  <1>3. /\ context.status = "available" <=> adr # None
        /\ adr # None => adr[1] \in Nat \ {0} /\ adr[2] = Lookback
    BY <1>2, AdrIs
  <1>4. c \in Int /\ Lookback \in Nat
    <2>1. tp[i].quote \in AllQuotes
      BY BarOf
    <2> QED
      BY <2>1, QuotesAssumption, DayAssumption
  <1>5. s # None => s.high \in Int /\ s.low \in Int
    BY SessionIs
  <1>6. s = None \/ adr = None => f.extension = None
    BY <1>1 DEF Extension
  <1>7. s # None /\ adr # None => f.extension = <<v * adr[2], adr[1]>>
    BY <1>1 DEF Extension
  <1> HIDE DEF s, adr, c
  <1>8. s # None => v \in Int
    BY <1>4, <1>5
  <1> HIDE DEF v, context
  <1>9. ASSUME s # None, adr # None
        PROVE  /\ f.extension # None /\ f.extension = <<f.extension[1], f.extension[2]>>
               /\ f.extension[1] \in Int /\ f.extension[2] \in Nat \ {0}
    <2>1. v * adr[2] \in Int /\ adr[1] \in Nat \ {0} /\ f.extension = <<v * adr[2], adr[1]>>
      BY <1>3, <1>4, <1>7, <1>8, <1>9
    <2>2. f.extension \in Seq(Int)
      BY <2>1
    <2>3. f.extension # None
      BY <2>2, NoneAssumption
    <2>4. f.extension[1] = v * adr[2] /\ f.extension[2] = adr[1]
      BY <2>1
    <2> QED
      BY <2>1, <2>3, <2>4
  <1> QED
    BY <1>1, <1>3, <1>6, <1>9 DEF adr


\* The row of a trade passes the checks of the metrics.
LEMMA RowIsValid ==
    ASSUME NEW tp, NEW n, NEW sl, NEW d, Consistent(tp, n, sl, d), NEW k \in DOMAIN d.trades,
           NEW x, x = d.trades[k]
    PROVE  /\ Closes(tp, k) = {} => x.state # "closed" /\ ValidCensored(x)
           /\ Closes(tp, k) # {} => /\ x.state = "closed" /\ ValidClosed(x)
                                    /\ x.mfe = None \/ x.mfe \in Int
  <1> DEFINE e == Collected(tp).entries[k]
             f == EntryFeatures(tp, e.at, e.trade.side)
             o == OutcomeOf(tp, e)
  <1>1. /\ x = TradeRow(tp, e) /\ e.trade.id = k /\ e.at \in DOMAIN tp /\ e.trade \in Openings
        /\ x.features = f /\ x.features.decision = Finalized(tp[e.at])
    BY RowOf
  <1>2. DOMAIN o = OutcomeFields
    BY OutcomeIs
  <1>3. x = Join(Entered(e, f, o), o)
    BY <1>1, RowFromParts
  <1>4. /\ Closes(tp, k) = {} => o = NoOutcome
        /\ \A close : Closes(tp, k) = {close} => o = Outcome(tp, e, close[1], close[2])
    BY <1>1, OutcomeIs
  <1>5. /\ TapeOK(tp, n) /\ tp \in Seq(Bars) /\ EventsOK(tp, Collected(tp).entries, sl)
    BY DEF Consistent, TapeOK
  <1>6. \A close \in Closes(tp, k) : /\ close[1] \in DOMAIN tp /\ e.at < close[1]
                                     /\ close[2].r \in Int /\ close[2].reasons # <<>>
                                     /\ Closes(tp, k) = {close}
    BY <1>5, ClosesIs
  <1>7. e.at \in Nat /\ e.trade.price \in Int
    BY <1>1, <1>5 DEF Openings
  <1> HIDE DEF e, f, o
  <1>8. /\ x.state = o.state /\ x.exit = o.exit /\ x.reasons = o.reasons
        /\ x.stopHit = o.stopHit /\ x.r = o.r /\ x.mae = o.mae /\ x.mfe = o.mfe
        /\ x.observed = o.observed /\ x.expected = o.expected /\ x.elapsed = o.elapsed
        /\ x.flags = Entered(e, f, o).flags
    BY <1>2, <1>3, Joined
  <1>9. CASE Closes(tp, k) = {}
    <2>1. o = NoOutcome
      BY <1>4, <1>9
    <2>2. x.state = "censored"
      BY <1>8, <2>1 DEF NoOutcome
    <2>3. \A field \in OutcomeFields : x[field] = o[field]
      BY <1>8 DEF OutcomeFields
    <2>4. ValidCensored(x)
      BY <1>2, <2>1, <2>3 DEF ValidCensored
    <2> QED
      BY <1>9, <2>2, <2>4
  <1>10. CASE Closes(tp, k) # {}
    <2>1. PICK close \in Closes(tp, k) : TRUE
      BY <1>10
    <2> DEFINE last == close[1]
               observed == last - e.at
               expected == tp[last].open - tp[e.at].open
               run == Excursions(e.trade.side, e.trade.price,
                                 {tp[i].quote : i \in (e.at + 1)..last})
               contiguous == observed = expected
    <2>2. o = Outcome(tp, e, close[1], close[2])
      BY <1>4, <1>6, <2>1
    <2>3. /\ o.state = "closed" /\ o.exit = Finalized(tp[last]) /\ o.reasons = close[2].reasons
          /\ o.stopHit = ("exit_stop" \in Range(close[2].reasons)) /\ o.r = close[2].r
          /\ o.mae = IF contiguous THEN run.mae ELSE None
          /\ o.mfe = IF contiguous THEN run.mfe ELSE None
          /\ o.observed = observed /\ o.expected = expected
          /\ o.elapsed = Finalized(tp[last]) - Finalized(tp[e.at])
      BY <2>2 DEF Outcome
    <2>4. last \in DOMAIN tp /\ e.at < last /\ close[2].r \in Int /\ close[2].reasons # <<>>
      BY <1>6, <2>1
    <2>5. tp[last].open \in Nat /\ tp[e.at].open \in Nat /\ last \in Nat
      BY <1>1, <1>5, <2>4, BarOf
    <2>6. observed \in Int /\ expected \in Int /\ observed <= expected
      BY <1>1, <1>5, <1>7, <2>4, <2>5, BarsBetween
    <2>7. run.mae \in Int /\ run.mfe \in Int /\ run.mae >= 0 /\ run.mfe >= 0
      <3> DEFINE first == e.at + 1
                 price == e.trade.price
      <3>1. first \in Nat /\ 0 < first /\ price \in Int /\ last \in DOMAIN tp
        BY <1>7, <2>4
      <3> HIDE DEF first, price, last
      <3>2. LET r == Excursions(e.trade.side, price, {tp[i].quote : i \in first..last})
            IN r.mae \in Int /\ r.mfe \in Int /\ r.mae >= 0 /\ r.mfe >= 0
        BY <1>5, <3>1, ExcursionsAre
      <3> QED
        BY <3>2 DEF first, price
    <2>8. /\ Finalized(tp[last]) \in Nat /\ Finalized(tp[e.at]) \in Nat
          /\ Finalized(tp[last]) - Finalized(tp[e.at]) = expected
          /\ Finalized(tp[e.at]) < Finalized(tp[last])
      <3>1. tp[e.at].open < tp[last].open
        BY <1>1, <1>5, <2>4 DEF TapeOK
      <3> QED
        BY <2>5, <3>1 DEF Finalized
    <2>9. None \notin Int
      BY NoneAssumption
    <2> HIDE DEF last, observed, expected, run
    <2>10. "post_entry_15m_gap" \in x.flags <=> ~contiguous
      <3>1. x.flags = (IF o.state = "closed" /\ o.mfe = None
                       THEN {"post_entry_15m_gap"} ELSE {})
                      \cup (IF f.prefix THEN {} ELSE {"incomplete_utc_session_prefix"})
                      \cup (IF f.context.adr = None THEN {"adr_unavailable"} ELSE {})
        BY <1>8 DEF Entered
      <3>2. (o.mfe = None) <=> ~contiguous
        BY <2>3, <2>7, <2>9
      <3> QED
        BY <2>3, <3>1, <3>2
    <2>11. /\ x.exit # None /\ x.r # None /\ x.reasons # <<>>
           /\ x.exit >= x.features.decision
           /\ x.elapsed = x.exit - x.features.decision
           /\ x.expected = x.elapsed /\ x.observed <= x.expected
      BY <1>1, <1>8, <2>3, <2>4, <2>6, <2>8, <2>9
    <2>12. x.stopHit = ("exit_stop" \in Range(x.reasons))
      BY <1>8, <2>3
    <2>13. IF x.mae = None /\ x.mfe = None
           THEN "post_entry_15m_gap" \in x.flags /\ x.observed < x.expected
           ELSE /\ x.mae # None /\ x.mfe # None
                /\ "post_entry_15m_gap" \notin x.flags /\ x.observed = x.expected
                /\ x.mae >= 0 /\ x.mfe >= 0
      <3>1. CASE contiguous
        BY <1>8, <2>3, <2>7, <2>9, <2>10, <3>1
      <3>2. CASE ~contiguous
        BY <1>8, <2>3, <2>6, <2>10, <3>2
      <3> QED
        BY <3>1, <3>2
    <2>14. ValidClosed(x)
      BY <2>11, <2>12, <2>13 DEF ValidClosed
    <2>15. x.mfe = None \/ x.mfe \in Int
      BY <1>8, <2>3, <2>7
    <2> QED
      BY <1>8, <1>10, <2>3, <2>14, <2>15
  <1> QED
    BY <1>9, <1>10

LEMMA TracesAreValid ==
    ASSUME NEW tp, NEW n, NEW sl, NEW d, Consistent(tp, n, sl, d)
    PROVE  ValidTraces(tp)
  <1> DEFINE entries == Collected(tp).entries
             opened == EventsOf(tp, "trade_opened")
             closed == EventsOf(tp, "trade_closed")
  <1>1. TapeOK(tp, n) /\ EventsOK(tp, entries, sl)
    BY DEF Consistent
  <1>2. \A k \in DOMAIN entries : EntryOK(Collected(tp), tp, k)
    BY DEF Consistent, BookOK
  <1>3. \A k \in DOMAIN entries : entries[k].trade.id = k /\ entries[k].at \in Nat
    <2>1. entries \in Seq([trade : Openings, at : Nat])
      BY DataIs
    <2>3. \A k \in DOMAIN entries : entries[k].trade.id = k
      BY <1>2 DEF EntryOK
    <2> HIDE DEF entries
    <2>2. \A k \in DOMAIN entries : entries[k] \in [trade : Openings, at : Nat]
      <3> DEFINE S == [trade : Openings, at : Nat]
      <3>1. entries \in Seq(S)
        BY <2>1
      <3> HIDE DEF S
      <3>2. \A k \in DOMAIN entries : entries[k] \in S
        BY <3>1
      <3> QED
        BY <3>2 DEF S
    <2> QED
      BY <2>2, <2>3
  <1> HIDE DEF entries
  <1>4. opened = {<<entries[k].at, OpenedBy(entries[k])>> : k \in DOMAIN entries}
    BY <1>1 DEF EventsOK
  <1>5. \A k \in DOMAIN entries : OpenedBy(entries[k]).trade.id = k
    BY <1>3 DEF OpenedBy
  <1>6. \A i \in 2..Len(tp) : tp[i - 1].open < tp[i].open
    <2>1. DOMAIN tp = 1..Len(tp) /\ Len(tp) \in Nat
      BY <1>1 DEF TapeOK
    <2>2. \A i \in 2..Len(tp) : i - 1 \in DOMAIN tp /\ i \in DOMAIN tp /\ i - 1 < i
      BY <2>1
    <2> QED
      BY <1>1, <2>2 DEF TapeOK
  <1> DEFINE Open(k) == <<entries[k].at, OpenedBy(entries[k])>>
  <1>7. \A x \in opened : x[2].trade.id \in DOMAIN entries /\ x = Open(x[2].trade.id)
    BY <1>4, <1>5
  <1>8. \A k \in DOMAIN entries : /\ Open(k) \in opened /\ Open(k)[1] = entries[k].at
                                  /\ Open(k)[2].trade.id = k
    BY <1>4, <1>5
  <1> HIDE DEF Open, opened
  <1>9. \A x \in opened, y \in opened : x[2].trade.id = y[2].trade.id => x = y
    BY <1>7
  <1>10. \A x \in closed, y \in closed : x[2].trade = y[2].trade => x = y
    BY <1>1 DEF EventsOK
  <1>11. \A x \in closed : \E y \in opened : y[2].trade.id = x[2].trade /\ y[1] <= x[1]
    <2> SUFFICES ASSUME NEW x \in closed
                 PROVE  \E y \in opened : y[2].trade.id = x[2].trade /\ y[1] <= x[1]
      OBVIOUS
    <2>1. x[2].trade \in DOMAIN entries /\ entries[x[2].trade].at < x[1] /\ x[1] \in DOMAIN tp
      BY <1>1 DEF EventsOK
    <2>2. x[1] \in Nat /\ entries[x[2].trade].at \in Nat
      BY <1>1, <1>3, <2>1, BarOf
    <2>3. Open(x[2].trade) \in opened /\ Open(x[2].trade)[2].trade.id = x[2].trade
          /\ Open(x[2].trade)[1] <= x[1]
      BY <1>8, <2>1, <2>2
    <2> QED
      BY <2>3
  <1> QED
    BY <1>6, <1>9, <1>10, <1>11 DEF ValidTraces, opened

\* What a row says of the bars its trade is open over is what the events say.
LEMMA HeldRow ==
    ASSUME NEW tp, NEW n, NEW sl, NEW d, Consistent(tp, n, sl, d), NEW k \in DOMAIN d.trades,
           NEW o
    PROVE  /\ HeldOver(d.trades[k], o) <=> HeldAt(tp, Collected(tp).entries, k, o)
           /\ d.trades[k].features.side = Collected(tp).entries[k].trade.side
  <1> DEFINE entries == Collected(tp).entries
             x == d.trades[k]
             e == entries[k]
  <1>1. /\ x.features.decision = Finalized(tp[e.at]) /\ x.features.side = e.trade.side
        /\ Closes(tp, k) = {} => x.state = "censored"
        /\ \A close \in Closes(tp, k) :
              x.state = "closed" /\ x.exit = Finalized(tp[close[1]])
    <2> HIDE DEF x, e
    <2>1. x = d.trades[k] /\ e = Collected(tp).entries[k]
      BY DEF x, e
    <2> QED
      BY <2>1, RowOf
  <1>2. \A close \in Closes(tp, k) : Closes(tp, k) = {close}
    <2>1. tp \in Seq(Bars) /\ EventsOK(tp, entries, sl)
      BY DEF Consistent, TapeOK
    <2> HIDE DEF entries
    <2> QED
      BY <2>1, ClosesIs
  <1>3. HeldAt(tp, entries, k, o) <=>
           /\ Finalized(tp[e.at]) < o
           /\ \A close \in Closes(tp, k) : o < Finalized(tp[close[1]])
    BY DEF HeldAt, Closes
  <1> HIDE DEF x, entries
  <1>4. HeldOver(x, o) <=> HeldAt(tp, entries, k, o)
    <2>1. CASE Closes(tp, k) = {}
      BY <1>1, <1>3, <2>1 DEF HeldOver
    <2>2. CASE Closes(tp, k) # {}
      <3>1. PICK close \in Closes(tp, k) : TRUE
        BY <2>2
      <3>2. Closes(tp, k) = {close} /\ x.state = "closed" /\ x.exit = Finalized(tp[close[1]])
        BY <1>1, <1>2
      <3> QED
        BY <1>1, <1>3, <3>2 DEF HeldOver
    <2> QED
      BY <2>1, <2>2
  <1>5. x.features.side = e.trade.side
    BY <1>1
  <1> QED
    BY <1>4, <1>5 DEF x, entries


\* The part of RowsAgree that is about the setup at o.
RowAgrees(o) ==
    LET s == data.setups[o]
    IN /\ (s.status = "opened") = (\E x \in Trades(data) : x.origin = o)
       /\ s.eligible = (s.status # "rejected")
       /\ (s.status = "armed") = (slot.phase = "armed" /\ slot.origin = o)
       /\ (s.reason = None) = (\E x \in Trades(data) : HeldOver(x, o))
       /\ \A x \in Trades(data) : HeldOver(x, o) => x.features.side = s.features.side

\* No build raises: the first pass knows every setup and trade it is asked for,
\* and no ADR is zero, since every bar has a range.
LEMMA NeverRaised ==
    ASSUME ResearchIInv
    PROVE  ~data.raised
  <1> DEFINE b == Collected(tape)
             trades == [k \in DOMAIN b.entries |-> TradeRow(tape, b.entries[k])]
  <1>1. Consistent(tape, now, slot, data)
    BY ConsistentIs
  <1>2. /\ data = Build(tape) /\ TapeOK(tape, now) /\ ~b.raised /\ data.setups = b.setups
        /\ DOMAIN data.trades = DOMAIN b.entries
        /\ \A k \in DOMAIN data.trades : data.trades[k] = TradeRow(tape, b.entries[k])
    BY <1>1, DataIs DEF Consistent
  <1>3. ASSUME NEW i \in DOMAIN tape, NEW side
        PROVE  ~DividesByZero(EntryFeatures(tape, i, side))
    BY <1>2, ExtensionIs DEF DividesByZero
  <1>4. ASSUME NEW o \in DOMAIN b.setups
        PROVE  ~DividesByZero(b.setups[o].features)
    <2>1. PICK i \in DOMAIN tape :
              b.setups[o].features = EntryFeatures(tape, i, b.setups[o].features.side)
      BY <1>1 DEF Consistent, BookOK, SetupOK
    <2> QED
      BY <1>3, <2>1
  <1>5. ASSUME NEW k \in DOMAIN b.entries
        PROVE  ~DividesByZero(trades[k].features)
    <2>1. data.trades[k].features = EntryFeatures(tape, b.entries[k].at, b.entries[k].trade.side)
          /\ b.entries[k].at \in DOMAIN tape
      BY <1>1, <1>2, RowOf
    <2>2. trades[k] = data.trades[k]
      BY <1>2
    <2> QED
      BY <1>3, <2>1, <2>2
  <1>6. data.raised <=> \/ b.raised
                        \/ \E row \in Range(b.setups) \cup Range(trades) :
                              DividesByZero(row.features)
    BY <1>2 DEF Build
  <1> HIDE DEF b
  <1>7. \A row \in Range(b.setups) : ~DividesByZero(row.features)
    BY <1>4 DEF Range
  <1>8. \A row \in Range(trades) : ~DividesByZero(row.features)
    <2>1. DOMAIN trades = DOMAIN b.entries
      OBVIOUS
    <2> HIDE DEF trades
    <2> QED
      BY <1>5, <2>1 DEF Range
  <1> QED
    BY <1>2, <1>6, <1>7, <1>8

\* A trade and its setup know each other, a setup's status is that of the slot,
\* every row passes the checks that the metrics make of it, and a setup is
\* without a reason exactly if a trade was held over its bar.
LEMMA RowsAgreeAlways ==
    ASSUME ResearchIInv
    PROVE  RowsAgree
  <1> DEFINE b == Collected(tape)
  <1>1. Consistent(tape, now, slot, data)
    BY ConsistentIs
  <1>2. /\ data.setups = b.setups /\ DOMAIN data.trades = DOMAIN b.entries
        /\ Trades(data) = {data.trades[k] : k \in DOMAIN data.trades}
    BY <1>1, DataIs
  <1>3. ValidTraces(tape)
    BY <1>1, TracesAreValid
  <1>4. \A k \in DOMAIN data.trades :
           /\ data.trades[k].id = k /\ data.trades[k].origin \in DOMAIN data.setups
           /\ data.setups[data.trades[k].origin].trade = k
           /\ data.setups[data.trades[k].origin].status = "opened"
           /\ data.trades[k].origin = b.entries[k].trade.origin
    BY <1>1, RowOf
  <1>5. \A k \in DOMAIN data.trades :
           /\ data.trades[k].state = "closed" => ValidClosed(data.trades[k])
           /\ data.trades[k].state # "closed" => ValidCensored(data.trades[k])
    BY <1>1, RowIsValid
  <1>6. ValidRows(Trades(data))
    <2>1. \A x \in Trades(data) : x.id \in DOMAIN data.trades /\ x = data.trades[x.id]
      BY <1>2, <1>4
    <2>2. \A x \in Trades(data), y \in Trades(data) : x.id = y.id => x = y
      BY <2>1
    <2>3. \A x \in Trades(data) : IF x.state = "closed" THEN ValidClosed(x) ELSE ValidCensored(x)
      BY <1>2, <1>5
    <2> QED
      BY <2>2, <2>3 DEF ValidRows
  <1>7. \A x \in Trades(data) :
          x.origin \in DOMAIN data.setups /\ data.setups[x.origin].trade = x.id
    BY <1>2, <1>4
  <1> HIDE DEF b
  <1>8. ASSUME NEW o \in DOMAIN data.setups
        PROVE  RowAgrees(o)
    <2>0. PICK s : s = data.setups[o]
      OBVIOUS
    <2>1. SetupOK(b, tape, slot, 0, o) /\ TapeOK(tape, now) /\ s = b.setups[o]
          /\ o \in DOMAIN b.setups
      BY <1>1, <1>2, <2>0 DEF Consistent, BookOK, b
    <2>2. o \in Nat /\ 0 < o
      BY <2>1, OriginIsNat
    <2>3. /\ s.eligible = (s.status # "rejected")
          /\ (s.status = "armed") = (slot.phase = "armed" /\ slot.origin = o)
          /\ s.status = "opened" =>
                s.trade \in DOMAIN b.entries /\ b.entries[s.trade].trade.origin = o
      BY <2>1 DEF SetupOK
    <2>4. /\ (s.reason = None) <=> (\E x \in Trades(data) : HeldOver(x, o))
          /\ \A x \in Trades(data) : HeldOver(x, o) => x.features.side = s.features.side
      <3>1. ReasonOK(tape, b.entries, s, o)
        BY <2>1, <2>2 DEF SetupOK
      <3>2. \A k \in DOMAIN data.trades :
               /\ HeldOver(data.trades[k], o) <=> HeldAt(tape, b.entries, k, o)
               /\ data.trades[k].features.side = b.entries[k].trade.side
        BY <1>1, HeldRow DEF b
      <3> HIDE DEF HeldOver, HeldAt
      <3> QED
        BY <1>2, <3>1, <3>2 DEF ReasonOK
    <2>5. s.status = "opened" => \E x \in Trades(data) : x.origin = o
      BY <1>2, <1>4, <2>3
    <2>6. (\E x \in Trades(data) : x.origin = o) => s.status = "opened"
      BY <1>2, <1>4, <2>0
    <2> HIDE DEF HeldOver
    <2> QED
      BY <2>0, <2>3, <2>4, <2>5, <2>6 DEF RowAgrees
  <1> QED
    BY <1>2, <1>3, <1>6, <1>7, <1>8, NeverRaised DEF RowsAgree, RowAgrees

-----------------------------------------------------------------------------
(* The windows.                                                            *)

\* A time lies in a window if its date does.
LEMMA InsideIs ==
    ASSUME NEW w, w.start \in Int, w.end \in Int, NEW t \in Nat
    PROVE  /\ Inside(w, t) <=> w.start <= t \div DayBars /\ t \div DayBars <= w.end
           /\ t \div DayBars \in Int
  <1> DEFINE D == DayBars
             q == t \div D
             r == t % D
  <1>1. D \in Nat \ {0}
    BY DayAssumption
  <1>2. q \in Int /\ r \in Int /\ t = D * q + r /\ 0 <= r /\ r < D
    BY <1>1
  <1> HIDE DEF D, q, r
  <1>3. ASSUME NEW s \in Int
        PROVE  s * D <= t <=> s <= q
    <2>1. CASE s <= q
      <3>1. PICK k \in Nat : q = s + k
        <4>1. q - s \in Nat /\ q = s + (q - s)
          BY <1>2, <2>1
        <4> QED
          BY <4>1
      <3>2. D * q = s * D + D * k /\ D * k >= 0 /\ s * D \in Int /\ D * k \in Int
        BY <1>1, <3>1
      <3> QED
        BY <1>2, <2>1, <3>2
    <2>2. CASE s > q
      <3>1. PICK k \in Nat : s = q + 1 + k
        <4>1. s - q - 1 \in Nat /\ s = q + 1 + (s - q - 1)
          BY <1>2, <2>2
        <4> QED
          BY <4>1
      <3>2. /\ s * D = D * q + D + D * k /\ D * k >= 0
            /\ s * D \in Int /\ D * k \in Int /\ D * q \in Int
        BY <1>1, <1>2, <3>1
      <3> QED
        BY <1>1, <1>2, <2>2, <3>2
    <2> QED
      BY <1>2, <2>1, <2>2
  <1>4. w.start * D <= t <=> w.start <= q
    BY <1>3
  <1>5. (w.end + 1) * D <= t <=> w.end + 1 <= q
    BY <1>3
  <1>6. (w.end + 1) * D \in Int
    BY <1>1
  <1>7. Inside(w, t) <=> w.start <= q /\ q <= w.end
    BY <1>2, <1>4, <1>5, <1>6 DEF Inside, D
  <1> QED
    BY <1>2, <1>7 DEF q, D

\* The first two buckets hold what lies below one half; every extension lies
\* in one of the four.
LEMMA BucketsAre ==
    ASSUME NEW v, v[1] \in Int, v[2] \in Nat
    PROVE  /\ Less(v, Half) <=> Bucket(1, v) \/ Bucket(2, v)
           /\ ~(Bucket(1, v) /\ Bucket(2, v))
           /\ Bucket(1, v) \/ Bucket(2, v) \/ Bucket(3, v) \/ Bucket(4, v)
  <1>1. /\ Less(v, Quarter) <=> v[1] * 4 < v[2]
        /\ Less(v, Half) <=> v[1] * 2 < v[2]
    BY DEF Less, Quarter, Half
  <1>2. Less(v, Quarter) => Less(v, Half)
    BY <1>1
  <1>3. /\ Bucket(1, v) <=> Less(v, Quarter)
        /\ Bucket(2, v) <=> ~Less(v, Quarter) /\ Less(v, Half)
        /\ Bucket(3, v) <=> ~Less(v, Half) /\ ~Less(One, v)
        /\ Bucket(4, v) <=> Less(One, v)
    BY DEF Bucket
  <1> QED
    BY <1>2, <1>3

\* What the windows ask of a trade.
LEMMA TradeIs ==
    ASSUME NEW tp, NEW n, NEW sl, NEW d, Consistent(tp, n, sl, d), NEW x \in Trades(d)
    PROVE  /\ x.origin \in DOMAIN d.setups /\ d.setups[x.origin].eligible
           /\ d.setups[x.origin].features.decision = Decision(d, x)
           /\ Decision(d, x) \in Nat /\ x.features.decision \in Nat
           /\ \/ x.state = "closed" /\ x.exit # None /\ x.exit \in Nat
              \/ x.state = "censored" /\ x.exit = None
           /\ x.features.extension # None =>
                 /\ x.features.extension[1] \in Int
                 /\ x.features.extension[2] \in Nat
  <1>1. PICK k \in DOMAIN d.trades : x = d.trades[k]
    BY DataIs
  <1> DEFINE e == Collected(tp).entries[k]
  <1>2. /\ e.at \in DOMAIN tp
        /\ x.origin \in DOMAIN d.setups /\ d.setups[x.origin].status = "opened"
        /\ x.features = EntryFeatures(tp, e.at, e.trade.side)
        /\ x.features.decision \in Nat
        /\ Closes(tp, k) = {} => x.state = "censored" /\ x.exit = None
        /\ \A close \in Closes(tp, k) :
              x.state = "closed" /\ x.exit \in Nat /\ x.exit # None
    BY <1>1, RowOf
  <1>3. d.setups[x.origin].eligible
    <2>1. d.setups = Collected(tp).setups
      BY DataIs
    <2>2. SetupOK(Collected(tp), tp, sl, 0, x.origin)
      BY <1>2, <2>1 DEF Consistent, BookOK
    <2> QED
      BY <1>2, <2>1, <2>2 DEF SetupOK
  <1>4. Decision(d, x) = x.origin /\ x.origin \in Nat
    BY <1>1, DecisionIs
  <1>5. d.setups[x.origin].features.decision = Decision(d, x)
    BY DEF Decision
  <1>6. \/ x.state = "closed" /\ x.exit # None /\ x.exit \in Nat
        \/ x.state = "censored" /\ x.exit = None
    <2>1. CASE Closes(tp, k) = {}
      BY <1>2, <2>1
    <2>2. CASE Closes(tp, k) # {}
      BY <1>2, <2>2
    <2> QED
      BY <2>1, <2>2
  <1>7. TapeOK(tp, n)
    BY DEF Consistent
  <1> HIDE DEF e
  <1>8. x.features.extension # None =>
           x.features.extension[1] \in Int /\ x.features.extension[2] \in Nat
    BY <1>2, <1>7, ExtensionIs
  <1> QED
    BY <1>2, <1>3, <1>4, <1>5, <1>6, <1>8

\* A part of a window lies in it, and a time of the window in one of its parts.
LEMMA PartIs ==
    ASSUME NEW role \in Roles, NEW t \in Nat
    PROVE  /\ \A part \in Parts[role] : Inside(part, t) => Inside(Windows[role], t)
           /\ Inside(Windows[role], t) =>
                 Cardinality({part \in Parts[role] : Inside(part, t)}) = 1
  <1> DEFINE w == Windows[role]
             day == t \div DayBars
  <1>1. w.start \in Int /\ w.end \in Int
    BY EvidenceAssumption DEF WindowsAssumption
  <1>2. \A part \in Parts[role] :
           part.start \in Int /\ part.end \in Int /\ w.start <= part.start /\ part.end <= w.end
    BY EvidenceAssumption DEF PartsAssumption
  <1>3. (Inside(w, t) <=> w.start <= day /\ day <= w.end) /\ day \in Int
    BY <1>1, InsideIs
  <1>4. \A part \in Parts[role] : Inside(part, t) <=> part.start <= day /\ day <= part.end
    BY <1>2, InsideIs
  <1>5. \A c \in w.start..w.end :
           Cardinality({part \in Parts[role] : part.start <= c /\ c <= part.end}) = 1
    BY EvidenceAssumption DEF PartsAssumption
  <1> HIDE DEF w, day
  <1>6. \A part \in Parts[role] : Inside(part, t) => Inside(w, t)
    <2> SUFFICES ASSUME NEW part \in Parts[role], Inside(part, t)
                 PROVE  Inside(w, t)
      OBVIOUS
    <2>1. part.start <= day /\ day <= part.end
      BY <1>4
    <2>2. part.start \in Int /\ part.end \in Int /\ w.start <= part.start /\ part.end <= w.end
      BY <1>2
    <2> QED
      BY <1>1, <1>3, <2>1, <2>2
  <1>7. ASSUME Inside(w, t)
        PROVE  Cardinality({part \in Parts[role] : Inside(part, t)}) = 1
    <2>1. day \in w.start..w.end
      BY <1>1, <1>3, <1>7
    <2>2. {part \in Parts[role] : Inside(part, t)}
            = {part \in Parts[role] : part.start <= day /\ day <= part.end}
      BY <1>4
    <2>3. Cardinality({part \in Parts[role] : part.start <= day /\ day <= part.end}) = 1
      BY <1>5, <2>1
    <2> QED
      BY <2>2, <2>3
  <1> QED
    BY <1>6, <1>7 DEF w

\* The trades of a window are the same ones by each of the four definitions.
LEMMA SameTrades ==
    ASSUME NEW tp, NEW n, NEW sl, NEW d, Consistent(tp, n, sl, d), NEW w
    PROVE  /\ ClosedTrades(d, w) = LinkedTrades(d, w)
           /\ ClosedTrades(d, w) = Treated(d, w, "included")
           /\ ClosedTrades(d, w) = {x \in Trades(d) : Partition(w, x) = "included"
                                                     /\ Inside(w, Decision(d, x))}
  <1>1. \A x \in Trades(d) :
           /\ x.origin \in DOMAIN d.setups /\ d.setups[x.origin].eligible
           /\ d.setups[x.origin].features.decision = Decision(d, x)
           /\ \/ x.state = "closed" /\ x.exit # None
              \/ x.state = "censored" /\ x.exit = None
    BY TradeIs
  <1>2. \A x \in Trades(d) :
           x.origin \in EligibleSetups(d, w) <=> Inside(w, Decision(d, x))
    BY <1>1 DEF EligibleSetups
  <1>3. ClosedTrades(d, w) = LinkedTrades(d, w)
    BY <1>2 DEF ClosedTrades, LinkedTrades
  <1>4. \A x \in Trades(d) :
           Treatment(d, w, x) = "included"
             <=> /\ x.state = "closed"
                 /\ Inside(w, Decision(d, x)) /\ Inside(w, x.features.decision)
                 /\ Inside(w, x.exit)
    BY <1>1 DEF Treatment
  <1>5. \A x \in Trades(d) :
           Partition(w, x) = "included"
             <=> x.state = "closed" /\ Inside(w, x.features.decision) /\ Inside(w, x.exit)
    BY <1>1 DEF Partition
  <1> QED
    BY <1>3, <1>4, <1>5 DEF ClosedTrades, Treated

\* The four definitions of a window's trades select the same ones, its parts
\* divide what its setups lead to, and the buckets divide its trades.
LEMMA WindowsAgreeAlways ==
    ASSUME ResearchIInv
    PROVE  WindowsAgree
  <1> SUFFICES ASSUME NEW role \in Roles, NEW w, w = Windows[role],
                      NEW rows, rows = ClosedTrades(data, w)
               PROVE  /\ rows = LinkedTrades(data, w)
                      /\ rows = Treated(data, w, "included")
                      /\ rows = {x \in Trades(data) : Partition(w, x) = "included"
                                                      /\ Inside(w, Decision(data, x))}
                      /\ \A x \in rows :
                            /\ x.features.extension = None
                               \/ \E n \in 1 .. 4 : x \in Bucketed(rows, n)
                            /\ Cardinality({part \in Parts[role] :
                                              x \in OriginPart(data, rows, part)}) = 1
                      /\ Kept(rows) = Bucketed(rows, 1) \cup Bucketed(rows, 2)
                      /\ \A part \in Parts[role] :
                            WholeIn(rows, data, part) = LinkedTrades(data, part)
    BY DEF WindowsAgree
  <1>1. Consistent(tape, now, slot, data)
    BY ConsistentIs
  <1>2. /\ rows = LinkedTrades(data, w)
        /\ rows = Treated(data, w, "included")
        /\ rows = {x \in Trades(data) : Partition(w, x) = "included"
                                        /\ Inside(w, Decision(data, x))}
    BY <1>1, SameTrades
  <1>3. \A x \in rows : /\ x \in Trades(data) /\ x.state = "closed"
                        /\ Inside(w, Decision(data, x)) /\ Inside(w, x.features.decision)
                        /\ Inside(w, x.exit)
    BY DEF ClosedTrades
  <1>4. \A x \in rows : x.features.extension # None =>
           x.features.extension[1] \in Int /\ x.features.extension[2] \in Nat
    BY <1>1, <1>3, TradeIs
  <1>5. Kept(rows) = Bucketed(rows, 1) \cup Bucketed(rows, 2)
    BY <1>4, BucketsAre DEF Kept, Bucketed
  <1>6. ASSUME NEW x \in rows
        PROVE  x.features.extension = None \/ \E n \in 1..4 : x \in Bucketed(rows, n)
    <2>1. x.features.extension # None =>
             \E n \in 1..4 : Bucket(n, x.features.extension)
      BY <1>4, BucketsAre
    <2> QED
      BY <2>1 DEF Bucketed
  <1>7. ASSUME NEW x \in rows
        PROVE  Cardinality({part \in Parts[role] : x \in OriginPart(data, rows, part)}) = 1
    <2>1. Decision(data, x) \in Nat
      BY <1>1, <1>3, TradeIs
    <2>2. {part \in Parts[role] : x \in OriginPart(data, rows, part)}
            = {part \in Parts[role] : Inside(part, Decision(data, x))}
      BY DEF OriginPart
    <2>3. Cardinality({part \in Parts[role] : Inside(part, Decision(data, x))}) = 1
      BY <1>3, <2>1, PartIs
    <2> QED
      BY <2>2, <2>3
  <1>8. ASSUME NEW part \in Parts[role]
        PROVE  WholeIn(rows, data, part) = LinkedTrades(data, part)
    <2>1. ClosedTrades(data, part) = LinkedTrades(data, part)
      BY <1>1, SameTrades
    <2>2. \A x \in ClosedTrades(data, part) : x \in rows
      <3> SUFFICES ASSUME NEW x \in ClosedTrades(data, part)
                   PROVE  x \in ClosedTrades(data, w)
        OBVIOUS
      <3>1. /\ x \in Trades(data) /\ x.state = "closed"
            /\ Inside(part, Decision(data, x)) /\ Inside(part, x.features.decision)
            /\ Inside(part, x.exit)
        BY DEF ClosedTrades
      <3>2. Decision(data, x) \in Nat /\ x.features.decision \in Nat /\ x.exit \in Nat
        BY <1>1, <3>1, TradeIs
      <3>3. /\ Inside(w, Decision(data, x)) /\ Inside(w, x.features.decision)
            /\ Inside(w, x.exit)
        BY <3>1, <3>2, PartIs
      <3> QED
        BY <3>1, <3>3 DEF ClosedTrades
    <2>3. WholeIn(rows, data, part) = ClosedTrades(data, part)
      BY <1>3, <2>2 DEF WholeIn, ClosedTrades
    <2> QED
      BY <2>1, <2>3
  <1> QED
    BY <1>2, <1>5, <1>6, <1>7, <1>8

-----------------------------------------------------------------------------
(* The sum of the results of some trades.                                  *)

\* What holds of a finite set if it holds of each of its subsets with one
\* element less.
LEMMA SetsUpTo ==
    ASSUME NEW S, IsFiniteSet(S), NEW H \in SUBSET (SUBSET S),
           {} \in H,
           \A T \in SUBSET S : T # {} /\ (\A x \in T : T \ {x} \in H) => T \in H
    PROVE  H = SUBSET S
  <1> DEFINE n == Cardinality(S)
             K == {m \in 0..n : \A T \in SUBSET S : Cardinality(T) <= m => T \in H}
  <1>1. n \in Nat
    BY FS_CardinalityType
  <1>2. \A T \in SUBSET S : /\ IsFiniteSet(T) /\ Cardinality(T) \in Nat
                            /\ Cardinality(T) <= n
                            /\ \A x \in T : /\ IsFiniteSet(T \ {x})
                                            /\ Cardinality(T \ {x}) = Cardinality(T) - 1
    BY FS_Subset, FS_CardinalityType, FS_RemoveElement
  <1>3. \A T \in SUBSET S : Cardinality(T) = 0 => T = {}
    BY <1>2, FS_EmptySet
  <1> HIDE DEF n
  <1>4. 0 \in K
    <2>1. \A T \in SUBSET S : Cardinality(T) <= 0 => Cardinality(T) = 0
      BY <1>2
    <2>2. \A T \in SUBSET S : Cardinality(T) <= 0 => T \in H
      BY <1>3, <2>1
    <2>3. 0 \in 0..n
      BY <1>1
    <2> QED
      BY <2>2, <2>3
  <1>5. ASSUME NEW m \in 0..n, m \in K, m < n
        PROVE  m + 1 \in K
    <2>1. m + 1 \in 0..n /\ m \in Nat
      BY <1>1, <1>5
    <2>2. ASSUME NEW T \in SUBSET S, Cardinality(T) <= m + 1
          PROVE  T \in H
      <3>1. CASE T = {}
        BY <3>1
      <3>2. CASE T # {}
        <4>1. ASSUME NEW x \in T
              PROVE  T \ {x} \in H
          <5>1. Cardinality(T \ {x}) = Cardinality(T) - 1 /\ Cardinality(T) \in Nat
            BY <1>2
          <5>2. Cardinality(T \ {x}) <= m /\ T \ {x} \in SUBSET S
            BY <2>1, <2>2, <5>1
          <5> QED
            BY <1>5, <5>2
        <4> QED
          BY <3>2, <4>1
      <3> QED
        BY <3>1, <3>2
    <2> QED
      BY <2>1, <2>2
  <1>6. K \in SUBSET (0..n) /\ n \in 0..n
    BY <1>1
  <1> HIDE DEF K
  <1>7. n \in K
    BY <1>1, <1>4, <1>5, <1>6, UpTo
  <1>8. \A T \in SUBSET S : T \in H
    BY <1>2, <1>7 DEF K
  <1> QED
    BY <1>8

SumOf(f, S) ==
    IF S = {} THEN 0 ELSE LET x == CHOOSE y \in S : TRUE IN x.r + f[S \ {x}]

Sums(f, A) == f = [S \in SUBSET A |-> SumOf(f, S)]

LEMMA SumsAre ==
    ASSUME NEW S
    PROVE  SumR(S) = (CHOOSE f : Sums(f, S))[S]
  BY DEF SumR, Sums, SumOf

\* Two functions that add up results agree where both do.
LEMMA SumsAgree ==
    ASSUME NEW A, IsFiniteSet(A), NEW B, A \subseteq B,
           NEW f, Sums(f, A), NEW g, Sums(g, B)
    PROVE  f[A] = g[A]
  <1> DEFINE H == {T \in SUBSET A : f[T] = g[T]}
  <1>1. \A T \in SUBSET A : f[T] = SumOf(f, T) /\ g[T] = SumOf(g, T)
    <2>1. \A T \in SUBSET A : f[T] = SumOf(f, T)
      BY DEF Sums
    <2>2. \A T \in SUBSET B : g[T] = SumOf(g, T)
      BY DEF Sums
    <2> QED
      BY <2>1, <2>2
  <1>2. {} \in H
    BY <1>1 DEF SumOf
  <1>3. ASSUME NEW T \in SUBSET A, T # {}, \A x \in T : T \ {x} \in H
        PROVE  T \in H
    <2> DEFINE c == CHOOSE y \in T : TRUE
    <2>1. c \in T
      BY <1>3
    <2>2. SumOf(f, T) = c.r + f[T \ {c}] /\ SumOf(g, T) = c.r + g[T \ {c}]
      BY <1>3 DEF SumOf
    <2> HIDE DEF c
    <2>3. f[T \ {c}] = g[T \ {c}]
      BY <1>3, <2>1
    <2> QED
      BY <1>1, <2>2, <2>3
  <1>4. H \in SUBSET (SUBSET A)
    OBVIOUS
  <1> HIDE DEF H
  <1>5. H = SUBSET A
    BY <1>2, <1>3, <1>4, SetsUpTo
  <1> QED
    BY <1>5 DEF H

\* The sum is that of its recursive definition.
LEMMA SumIs ==
    ASSUME NEW S, IsFiniteSet(S)
    PROVE  /\ SumR({}) = 0
           /\ S # {} => LET x == CHOOSE y \in S : TRUE IN SumR(S) = x.r + SumR(S \ {x})
  <1> DEFINE Rec(T) == SumR(T) = IF T = {} THEN 0 ELSE LET x == CHOOSE y \in T : TRUE
                                                       IN x.r + SumR(T \ {x})
             Sub(T) == \A U \in SUBSET T : Rec(U)
             H == {T \in SUBSET S : Sub(T)}
  <1>1. SumR({}) = 0
    <2> DEFINE F == CHOOSE f : Sums(f, {})
    <2>1. \E f : Sums(f, {})
      <3> DEFINE g == [T \in SUBSET {} |-> 0]
      <3>1. \A T \in SUBSET {} : g[T] = SumOf(g, T)
        BY DEF SumOf
      <3>2. Sums(g, {})
        BY <3>1 DEF Sums
      <3> HIDE DEF g
      <3> QED
        BY <3>2
    <2>2. Sums(F, {})
      BY <2>1
    <2>3. SumR({}) = F[{}]
      BY SumsAre
    <2> HIDE DEF F
    <2> QED
      BY <2>2, <2>3 DEF Sums, SumOf
  <1>2. {} \in H
    BY <1>1
  <1>3. ASSUME NEW T \in SUBSET S, T # {}, \A x \in T : T \ {x} \in H
        PROVE  T \in H
    <2> DEFINE c == CHOOSE y \in T : TRUE
               h == [U \in SUBSET T |-> IF U = T THEN c.r + SumR(T \ {c}) ELSE SumR(U)]
               F == CHOOSE f : Sums(f, T)
    <2>1. c \in T
      BY <1>3
    <2>2. \A U \in SUBSET T : U # T => Rec(U)
      <3> SUFFICES ASSUME NEW U \in SUBSET T, U # T
                   PROVE  Rec(U)
        OBVIOUS
      <3>1. PICK x \in T : x \notin U
        OBVIOUS
      <3>2. U \in SUBSET (T \ {x}) /\ Sub(T \ {x})
        BY <1>3, <3>1
      <3> HIDE DEF Rec
      <3> QED
        BY <3>2
    <2>3. Sums(h, T)
      <3>1. ASSUME NEW U \in SUBSET T
            PROVE  h[U] = SumOf(h, U)
        <4>1. CASE U = T
          <5>1. h[T \ {c}] = SumR(T \ {c})
            BY <2>1
          <5>2. SumOf(h, T) = c.r + h[T \ {c}]
            <6> HIDE DEF h
            <6> QED
              BY <1>3 DEF SumOf
          <5> QED
            BY <4>1, <5>1, <5>2
        <4>2. CASE U # T /\ U = {}
          BY <1>1, <4>2 DEF SumOf
        <4>3. CASE U # T /\ U # {}
          <5> DEFINE x == CHOOSE y \in U : TRUE
          <5>1. x \in U
            BY <4>3
          <5>2. SumOf(h, U) = x.r + h[U \ {x}]
            <6> HIDE DEF h
            <6> QED
              BY <4>3 DEF SumOf
          <5>3. SumR(U) = x.r + SumR(U \ {x})
            BY <2>2, <4>3
          <5> HIDE DEF x
          <5>4. h[U] = SumR(U) /\ h[U \ {x}] = SumR(U \ {x})
            BY <4>3, <5>1
          <5> HIDE DEF h
          <5> QED
            BY <5>2, <5>3, <5>4
        <4> QED
          BY <4>1, <4>2, <4>3
      <3>2. h = [U \in SUBSET T |-> h[U]]
        OBVIOUS
      <3> HIDE DEF h
      <3> QED
        BY <3>1, <3>2 DEF Sums
    <2>4. Sums(F, T)
      <3> HIDE DEF h
      <3> QED
        BY <2>3
    <2>5. SumR(T) = F[T]
      BY SumsAre
    <2> HIDE DEF F, c, h
    <2>6. SumR(T) = c.r + F[T \ {c}]
      <3>1. F[T] = SumOf(F, T)
        BY <2>4 DEF Sums
      <3>2. SumOf(F, T) = c.r + F[T \ {c}]
        BY <1>3 DEF SumOf, c
      <3> QED
        BY <2>5, <3>1, <3>2
    <2>7. F[T \ {c}] = SumR(T \ {c})
      <3> DEFINE R == T \ {c}
                 G == CHOOSE f : Sums(f, R)
                 g == [U \in SUBSET R |-> SumR(U)]
      <3>1. \A U \in SUBSET R : g[U] = SumOf(g, U)
        <4> SUFFICES ASSUME NEW U \in SUBSET R
                     PROVE  g[U] = SumOf(g, U)
          OBVIOUS
        <4>1. U # T /\ U \in SUBSET T
          BY <2>1
        <4>2. CASE U = {}
          BY <1>1, <4>2 DEF SumOf
        <4>3. CASE U # {}
          <5> DEFINE x == CHOOSE y \in U : TRUE
          <5>1. x \in U
            BY <4>3
          <5>2. SumOf(g, U) = x.r + g[U \ {x}]
            <6> HIDE DEF g
            <6> QED
              BY <4>3 DEF SumOf
          <5>3. SumR(U) = x.r + SumR(U \ {x})
            BY <2>2, <4>1, <4>3
          <5> HIDE DEF x
          <5>4. g[U] = SumR(U) /\ g[U \ {x}] = SumR(U \ {x})
            BY <5>1
          <5> HIDE DEF g
          <5> QED
            BY <5>2, <5>3, <5>4
        <4> QED
          BY <4>2, <4>3
      <3>2. Sums(g, R)
        <4>1. g = [U \in SUBSET R |-> g[U]]
          OBVIOUS
        <4> HIDE DEF g, R
        <4> QED
          BY <3>1, <4>1 DEF Sums
      <3>3. IsFiniteSet(R) /\ R \subseteq T
        BY FS_Subset
      <3>4. g[R] = SumR(R)
        OBVIOUS
      <3> HIDE DEF R, g, G
      <3>5. g[R] = F[R]
        BY <2>4, <3>2, <3>3, SumsAgree
      <3> QED
        BY <3>4, <3>5 DEF R
    <2>8. Rec(T)
      BY <1>3, <2>6, <2>7 DEF c
    <2> HIDE DEF Rec
    <2>9. Sub(T)
      BY <2>2, <2>8
    <2> QED
      BY <2>9
  <1>4. H \in SUBSET (SUBSET S)
    OBVIOUS
  <1>5. H = SUBSET S
    <2> HIDE DEF H
    <2> QED
      BY <1>2, <1>3, <1>4, SetsUpTo
  <1>6. Rec(S)
    <2>1. Sub(S)
      BY <1>5
    <2> HIDE DEF Rec
    <2> QED
      BY <2>1
  <1> QED
    BY <1>1, <1>6

\* Whichever trade is taken first, the sum is the same.
LEMMA SumAny ==
    ASSUME NEW S, IsFiniteSet(S), \A x \in S : x.r \in Int
    PROVE  SumR(S) \in Int /\ \A x \in S : SumR(S) = x.r + SumR(S \ {x})
  <1> DEFINE Ok(T) == SumR(T) \in Int /\ \A x \in T : SumR(T) = x.r + SumR(T \ {x})
             Sub(T) == \A U \in SUBSET T : Ok(U)
             H == {T \in SUBSET S : Sub(T)}
  <1>1. {} \in H
    <2>1. SumR({}) = 0
      BY SumIs
    <2>2. Ok({})
      BY <2>1
    <2>3. SUBSET {} = {{}}
      OBVIOUS
    <2> HIDE DEF Ok
    <2>4. Sub({})
      BY <2>2, <2>3
    <2> QED
      BY <2>4
  <1>2. ASSUME NEW T \in SUBSET S, T # {}, \A x \in T : T \ {x} \in H
        PROVE  T \in H
    <2> DEFINE c == CHOOSE y \in T : TRUE
    <2>1. c \in T /\ IsFiniteSet(T)
      BY <1>2, FS_Subset
    <2>2. SumR(T) = c.r + SumR(T \ {c})
      BY <1>2, <2>1, SumIs
    <2> HIDE DEF c
    <2>3. \A x \in T : \A U \in SUBSET (T \ {x}) : Ok(U)
      BY <1>2
    <2>4. \A U \in SUBSET T : U # T => Ok(U)
      <3> SUFFICES ASSUME NEW U \in SUBSET T, U # T
                   PROVE  Ok(U)
        OBVIOUS
      <3>1. PICK x \in T : U \in SUBSET (T \ {x})
        OBVIOUS
      <3> HIDE DEF Ok
      <3> QED
        BY <2>3, <3>1
    <2>5. SumR(T \ {c}) \in Int
      BY <2>1, <2>4
    <2>6. SumR(T) \in Int
      BY <2>1, <2>2, <2>5
    <2>7. ASSUME NEW x \in T
          PROVE  SumR(T) = x.r + SumR(T \ {x})
      <3>1. CASE x = c
        BY <2>2, <3>1
      <3>2. CASE x # c
        <4> DEFINE A == T \ {c}
                   B == T \ {x}
                   C == T \ {c, x}
        <4>1. /\ A \in SUBSET T /\ A # T /\ x \in A /\ A \ {x} = C
              /\ B \in SUBSET T /\ B # T /\ c \in B /\ B \ {c} = C
          BY <2>1, <3>2
        <4>2. Ok(A) /\ Ok(B) /\ SumR(C) \in Int
          <5>1. C \in SUBSET T /\ C # T
            BY <2>1
          <5> HIDE DEF A, B, C
          <5> QED
            BY <2>4, <4>1, <5>1
        <4> HIDE DEF A, B, C
        <4>3. SumR(A) = x.r + SumR(C) /\ SumR(B) = c.r + SumR(C)
          BY <4>1, <4>2
        <4>4. x.r \in Int /\ c.r \in Int
          BY <2>1
        <4>5. SumR(T) = c.r + SumR(A)
          BY <2>2 DEF A
        <4>6. SumR(T) = x.r + SumR(B)
          BY <4>2, <4>3, <4>4, <4>5
        <4> QED
          BY <4>6 DEF B
      <3> QED
        BY <3>1, <3>2
    <2>8. Ok(T)
      BY <2>6, <2>7
    <2> HIDE DEF Ok
    <2>9. Sub(T)
      BY <2>4, <2>8
    <2> QED
      BY <2>9
  <1>3. H \in SUBSET (SUBSET S)
    OBVIOUS
  <1>4. H = SUBSET S
    <2> HIDE DEF H
    <2> QED
      BY <1>1, <1>2, <1>3, SetsUpTo
  <1>5. Ok(S)
    <2>1. Sub(S)
      BY <1>4
    <2> HIDE DEF Ok
    <2> QED
      BY <2>1
  <1> QED
    BY <1>5

\* The results of two groups of trades add up.
LEMMA SumUnion ==
    ASSUME NEW A, NEW B, IsFiniteSet(A), IsFiniteSet(B), A \cap B = {},
           \A x \in A \cup B : x.r \in Int
    PROVE  /\ SumR(A \cup B) = SumR(A) + SumR(B)
           /\ Cardinality(A \cup B) = Cardinality(A) + Cardinality(B)
  <1> DEFINE H == {T \in SUBSET A : SumR(T \cup B) = SumR(T) + SumR(B)}
  <1>1. \A T \in SUBSET A : /\ IsFiniteSet(T) /\ IsFiniteSet(T \cup B)
                            /\ SumR(T) \in Int
                            /\ \A x \in T : SumR(T) = x.r + SumR(T \ {x})
                            /\ \A x \in T \cup B : SumR(T \cup B) = x.r + SumR((T \cup B) \ {x})
    <2> SUFFICES ASSUME NEW T \in SUBSET A
                 PROVE  /\ IsFiniteSet(T) /\ IsFiniteSet(T \cup B)
                        /\ SumR(T) \in Int
                        /\ \A x \in T : SumR(T) = x.r + SumR(T \ {x})
                        /\ \A x \in T \cup B :
                              SumR(T \cup B) = x.r + SumR((T \cup B) \ {x})
      OBVIOUS
    <2>1. IsFiniteSet(T) /\ IsFiniteSet(T \cup B)
      BY FS_Subset, FS_Union
    <2>2. (\A x \in T : x.r \in Int) /\ (\A x \in T \cup B : x.r \in Int)
      OBVIOUS
    <2> QED
      BY <2>1, <2>2, SumAny
  <1>2. SumR(B) \in Int
    BY SumAny
  <1>3. {} \in H
    <2>1. SumR({}) = 0 /\ {} \cup B = B
      BY SumIs
    <2> QED
      BY <1>2, <2>1
  <1>4. ASSUME NEW T \in SUBSET A, T # {}, \A x \in T : T \ {x} \in H
        PROVE  T \in H
    <2>1. PICK x \in T : TRUE
      BY <1>4
    <2> DEFINE R == T \ {x}
    <2>2. (T \cup B) \ {x} = R \cup B /\ x \in T \cup B /\ R \in SUBSET A /\ x.r \in Int
      OBVIOUS
    <2>3. SumR(T) = x.r + SumR(R)
      BY <1>1
    <2>4. SumR(T \cup B) = x.r + SumR(R \cup B)
      <3>1. SumR(T \cup B) = x.r + SumR((T \cup B) \ {x})
        BY <1>1
      <3> HIDE DEF R
      <3> QED
        BY <2>2, <3>1
    <2>5. SumR(R \cup B) = SumR(R) + SumR(B)
      BY <1>4
    <2>6. SumR(R) \in Int
      BY <1>1, <2>2
    <2> HIDE DEF R
    <2>7. SumR(T \cup B) = SumR(T) + SumR(B)
      BY <1>2, <2>2, <2>3, <2>4, <2>5, <2>6
    <2> QED
      BY <2>7
  <1>5. H \in SUBSET (SUBSET A)
    OBVIOUS
  <1>6. H = SUBSET A
    <2> HIDE DEF H
    <2> QED
      BY <1>3, <1>4, <1>5, SetsUpTo
  <1>7. SumR(A \cup B) = SumR(A) + SumR(B)
    BY <1>6
  <1>8. Cardinality(A \cup B) = Cardinality(A) + Cardinality(B)
    <2>1. Cardinality(A \cup B) = Cardinality(A) + Cardinality(B) - Cardinality(A \cap B)
      BY FS_Union
    <2>2. Cardinality(A \cap B) = 0 /\ Cardinality(A) \in Nat /\ Cardinality(B) \in Nat
      BY FS_EmptySet, FS_CardinalityType
    <2> QED
      BY <2>1, <2>2
  <1> QED
    BY <1>7, <1>8

-----------------------------------------------------------------------------
(* The stages of the candidate.                                            *)

LEMMA ResultIs ==
    ASSUME NEW tp, NEW n, NEW sl, NEW d, Consistent(tp, n, sl, d), NEW x \in Trades(d),
           x.state = "closed"
    PROVE  x.r \in Int
  <1>1. PICK k \in DOMAIN d.trades : x = d.trades[k]
    BY DataIs
  <1> DEFINE e == Collected(tp).entries[k]
             f == EntryFeatures(tp, e.at, e.trade.side)
             o == OutcomeOf(tp, e)
  <1>2. /\ x = TradeRow(tp, e)
        /\ Closes(tp, k) = {} => x.state = "censored"
        /\ \A close \in Closes(tp, k) : o = Outcome(tp, e, close[1], close[2])
    BY <1>1, RowOf
  <1>3. PICK close \in Closes(tp, k) : TRUE
    BY <1>2
  <1>4. EventsOK(tp, Collected(tp).entries, sl) /\ tp \in Seq(Bars)
    BY DEF Consistent, TapeOK
  <1>5. close[2].r \in Int
    BY <1>3, <1>4, ClosesIs
  <1>6. o.r = close[2].r
    <2>1. o = Outcome(tp, e, close[1], close[2])
      BY <1>2, <1>3
    <2>2. Outcome(tp, e, close[1], close[2]).r = close[2].r
      BY DEF Outcome
    <2> HIDE DEF o, e
    <2> QED
      BY <2>1, <2>2
  <1>7. x = Join(Entered(e, f, o), o) /\ DOMAIN o = OutcomeFields
    BY <1>2, RowFromParts, OutcomeIs
  <1> HIDE DEF e, f, o
  <1>8. x.r = o.r
    BY <1>7, Joined
  <1> QED
    BY <1>5, <1>6, <1>8

LEMMA TradesFinite ==
    ASSUME NEW tp, NEW n, NEW sl, NEW d, Consistent(tp, n, sl, d)
    PROVE  /\ IsFiniteSet(Trades(d))
           /\ \A w : IsFiniteSet(ClosedTrades(d, w)) /\ ClosedTrades(d, w) \subseteq Trades(d)
           /\ \A w : \A x \in ClosedTrades(d, w) : x.r \in Int
  <1> DEFINE f == d.trades
             m == Len(Collected(tp).entries)
  <1>1. DOMAIN f = 1..m /\ m \in Nat /\ Trades(d) = {f[k] : k \in 1..m}
    BY DataIs
  <1> HIDE DEF f, m
  <1>2. IsFiniteSet(1..m)
    BY <1>1, FS_Interval
  <1> DEFINE S == Trades(d)
             g == [k \in 1..m |-> f[k]]
  <1>3. g \in Surjection(1..m, S)
    BY <1>1 DEF Surjection
  <1>4. IsFiniteSet(S)
    <2> HIDE DEF S, g
    <2> QED
      BY <1>2, <1>3, FS_Surjection
  <1>5. \A w : ClosedTrades(d, w) \subseteq S
    BY DEF ClosedTrades
  <1>6. \A w : IsFiniteSet(ClosedTrades(d, w))
    <2> HIDE DEF S
    <2> QED
      BY <1>4, <1>5, FS_Subset
  <1>7. \A w : \A x \in ClosedTrades(d, w) : x \in Trades(d) /\ x.state = "closed"
    BY DEF ClosedTrades
  <1> QED
    BY <1>4, <1>5, <1>6, <1>7, ResultIs

\* The canonical development report passes the checks of the registration.
LEMMA RegisterIs ==
    ASSUME NEW tp, NEW n, NEW sl, NEW d, Consistent(tp, n, sl, d)
    PROVE  LET w == Windows["development"]
               rows == ClosedTrades(d, w)
           IN Register(d, DevelopmentReport(d))
                = [source |-> d.source, report |-> DevelopmentReport(d),
                   candidate |-> Metrics(Kept(rows), EligibleSetups(d, w), rows)]
  <1> DEFINE w == Windows["development"]
             rows == ClosedTrades(d, w)
             setups == EligibleSetups(d, w)
             report == DevelopmentReport(d)
             candidate == Metrics(Kept(rows), setups, rows)
             A == Bucketed(rows, 1)
             B == Bucketed(rows, 2)
  <1>1. \A x \in rows : x \in Trades(d)
    BY DEF ClosedTrades
  <1>2. \A x \in rows : x.features.extension # None =>
           x.features.extension[1] \in Int /\ x.features.extension[2] \in Nat
    BY <1>1, TradeIs
  <1>3. IsFiniteSet(rows) /\ \A x \in rows : x.r \in Int
    BY TradesFinite
  <1>4. /\ report.baseline = Metrics(rows, setups, rows)
        /\ report.buckets[1] = Metrics(A, setups, rows)
        /\ report.buckets[2] = Metrics(B, setups, rows)
    BY DEF DevelopmentReport
  <1>5. Register(d, report)
          = IF \/ report # DevelopmentReport(d)
               \/ Cardinality(setups) # report.baseline.setups
               \/ Cardinality(rows) # report.baseline.count
               \/ candidate.count # report.buckets[1].count + report.buckets[2].count
               \/ candidate.total # report.buckets[1].total + report.buckets[2].total
            THEN Refused
            ELSE [source |-> d.source, report |-> report, candidate |-> candidate]
    BY DEF Register
  <1> HIDE DEF rows, setups
  <1>6. Kept(rows) = A \cup B /\ A \cap B = {} /\ A \subseteq rows /\ B \subseteq rows
    BY <1>2, BucketsAre DEF Kept, Bucketed
  <1>7. IsFiniteSet(A) /\ IsFiniteSet(B)
    BY <1>3, <1>6, FS_Subset
  <1> HIDE DEF A, B
  <1>8. /\ SumR(A \cup B) = SumR(A) + SumR(B)
        /\ Cardinality(A \cup B) = Cardinality(A) + Cardinality(B)
    BY <1>3, <1>6, <1>7, SumUnion
  <1>9. \A S : LET m == Metrics(S, setups, rows)
               IN /\ m.count = Cardinality(S) /\ m.setups = Cardinality(setups)
                  /\ m.total = SumR(S)
    BY DEF Metrics
  <1>10. candidate.count = report.buckets[1].count + report.buckets[2].count
    BY <1>4, <1>6, <1>8, <1>9
  <1>11. candidate.total = report.buckets[1].total + report.buckets[2].total
    BY <1>4, <1>6, <1>8, <1>9
  <1>12. Cardinality(setups) = report.baseline.setups /\ Cardinality(rows) = report.baseline.count
    BY <1>4, <1>9
  <1>13. report = DevelopmentReport(d)
    OBVIOUS
  <1> HIDE DEF report, candidate
  <1>14. Register(d, report)
           = [source |-> d.source, report |-> report, candidate |-> candidate]
    BY <1>5, <1>10, <1>11, <1>12, <1>13
  <1> QED
    BY <1>14 DEF report, candidate, setups, rows

\* What an evaluation says.
LEMMA EvaluateIs ==
    ASSUME NEW d, NEW registration, NEW role
    PROVE  LET e == Evaluate(d, registration, role)
               rows == ClosedTrades(d, Windows[role])
           IN /\ registration.source # d.source => e = Refused
              /\ registration.source = d.source =>
                    /\ e # Refused /\ "improved" \in DOMAIN e
                    /\ e.improved \in BOOLEAN
                    /\ e.improved => e.candidate.total > e.baseline.total
                    /\ e.baseline.count = Cardinality(rows)
  <1> DEFINE w == Windows[role]
             rows == ClosedTrades(d, w)
             setups == EligibleSetups(d, w)
             base == Metrics(rows, setups, rows)
             candidate == Metrics(Kept(rows), setups, rows)
             missing == Cardinality(Missing(rows))
             improved == Improved(base, candidate)
             r == [role |-> role, registration |-> registration, source |-> d.source,
                   baseline |-> base, candidate |-> candidate, missing |-> missing,
                   improved |-> improved]
             e == Evaluate(d, registration, role)
  <1>1. e = IF registration.source # d.source THEN Refused ELSE r
    BY DEF Evaluate
  <1>2. base.count = Cardinality(rows)
    BY DEF Metrics
  <1>3. improved \in BOOLEAN /\ (improved => candidate.total > base.total)
    BY DEF Improved, BetterPerSetup
  <1> HIDE DEF base, candidate, missing, improved, rows
  <1>4. "improved" \in DOMAIN r /\ r.improved = improved /\ r.candidate = candidate
        /\ r.baseline = base /\ "refused" \notin DOMAIN r
    OBVIOUS
  <1>5. "refused" \in DOMAIN Refused
    BY DEF Refused
  <1> HIDE DEF r, e
  <1>6. r # Refused
    BY <1>4, <1>5
  <1>7. /\ registration.source # d.source => e = Refused
        /\ registration.source = d.source =>
              /\ e # Refused /\ "improved" \in DOMAIN e
              /\ e.improved \in BOOLEAN
              /\ e.improved => e.candidate.total > e.baseline.total
              /\ e.baseline.count = Cardinality(rows)
    BY <1>1, <1>2, <1>3, <1>4, <1>6
  <1> QED
    BY <1>7 DEF e, rows

\* A finalist whose candidate was registered from other data is refused.
LEMMA StaleIsRefused ==
    ASSUME NEW d, NEW finalist, finalist.candidate.source # d.source
    PROVE  FinalOos(d, finalist) = Refused
  <1>1. Validation(d, finalist.candidate) = Refused
    BY EvaluateIs DEF Validation
  <1> QED
    BY <1>1 DEF FinalOos

\* The last window opens only to the finalist that the validation of the same
\* data supports.
LEMMA UnlockedIs ==
    ASSUME NEW tp, NEW n, NEW sl, NEW d, Consistent(tp, n, sl, d),
           NEW c, c.source = d.source,
           NEW v, v \in BOOLEAN,
           NEW e, e = [candidate |-> c, validation |-> Validation(d, c)],
           NEW finalist, finalist = [e EXCEPT !.validation.improved = v]
    PROVE  /\ FinalOos(d, finalist) # Refused =>
                 /\ finalist = Finalist(d, e.candidate, e.validation)
                 /\ e.validation.candidate.total > e.validation.baseline.total
                 /\ FinalOos(d, finalist).baseline.count >= TradeFloor
           /\ Finalist(d, e.candidate, e.validation) = Refused
                 <=> Rejection(d, e.candidate, e.validation) # Refused
  <1> DEFINE V == Validation(d, c)
             V2 == [V EXCEPT !.improved = v]
             rows == ClosedTrades(d, Windows["final_oos"])
             last == Evaluate(d, c, "final_oos")
  <1>1. /\ V # Refused /\ "improved" \in DOMAIN V /\ V.improved \in BOOLEAN
        /\ V.improved => V.candidate.total > V.baseline.total
    BY EvaluateIs DEF Validation
  <1>2. last.baseline.count = Cardinality(rows)
    BY EvaluateIs
  <1>3. V2.improved = v
    BY <1>1
  <1>4. Cardinality(rows) \in Nat /\ TradeFloor \in Nat
    <2>1. IsFiniteSet(rows)
      BY TradesFinite
    <2> HIDE DEF rows
    <2> QED
      BY <2>1, FS_CardinalityType, EvidenceAssumption DEF ConfigAssumption
  <1>5. e = [candidate |-> c, validation |-> V]
    OBVIOUS
  <1> HIDE DEF V, rows, last
  <1>6. finalist = [candidate |-> c, validation |-> V2]
    BY <1>5
  <1> HIDE DEF V2
  <1>7. finalist.candidate = c /\ finalist.validation = V2 /\ e.candidate = c
        /\ e.validation = V
    BY <1>5, <1>6
  <1>8. FinalOos(d, finalist)
          = IF \/ Cardinality(rows) < TradeFloor
               \/ V2 # V
               \/ V = Refused \/ ~V.improved
            THEN Refused ELSE last
    BY <1>7 DEF FinalOos, V, rows, last
  <1>9. Finalist(d, c, V) = IF ~V.improved THEN Refused
                            ELSE [candidate |-> c, validation |-> V]
    BY DEF Finalist, V
  <1>10. Rejection(d, c, V)
           = IF V.improved THEN Refused
             ELSE [candidate |-> c, validation |-> V, unlocked |-> FALSE]
    BY DEF Rejection, V
  <1>11. [candidate |-> c, validation |-> V] # Refused
         /\ [candidate |-> c, validation |-> V, unlocked |-> FALSE] # Refused
    <2>1. "refused" \in DOMAIN Refused
      BY DEF Refused
    <2>2. "refused" \notin DOMAIN [candidate |-> c, validation |-> V]
      OBVIOUS
    <2>3. "refused" \notin DOMAIN [candidate |-> c, validation |-> V, unlocked |-> FALSE]
      OBVIOUS
    <2> QED
      BY <2>1, <2>2, <2>3
  <1>12. ASSUME FinalOos(d, finalist) # Refused
         PROVE  /\ finalist = Finalist(d, c, V)
                /\ V.candidate.total > V.baseline.total
                /\ FinalOos(d, finalist).baseline.count >= TradeFloor
    <2>1. ~(Cardinality(rows) < TradeFloor) /\ V2 = V /\ V.improved
          /\ FinalOos(d, finalist) = last
      BY <1>8, <1>12
    <2> QED
      BY <1>1, <1>2, <1>4, <1>6, <1>9, <2>1
  <1>13. Finalist(d, c, V) = Refused <=> Rejection(d, c, V) # Refused
    BY <1>1, <1>9, <1>10, <1>11
  <1> QED
    BY <1>7, <1>12, <1>13

\* The evidence of a dataset is that of the registration of its own report.
LEMMA EvidenceIs ==
    ASSUME NEW tp, NEW n, NEW sl, NEW d, Consistent(tp, n, sl, d)
    PROVE  \E c : /\ c.source = d.source /\ c # Refused
                  /\ Register(d, DevelopmentReport(d)) = c
                  /\ Evidence(d) = {[candidate |-> c, validation |-> Validation(d, c)]}
  <1> DEFINE w == Windows["development"]
             rows == ClosedTrades(d, w)
             report == DevelopmentReport(d)
             candidate == Metrics(Kept(rows), EligibleSetups(d, w), rows)
             c == Register(d, report)
  <1>1. c = [source |-> d.source, report |-> report, candidate |-> candidate]
    BY RegisterIs
  <1>2. Evidence(d) = {[candidate |-> c, validation |-> Validation(d, c)]}
    BY DEF Evidence
  <1>3. Register(d, DevelopmentReport(d)) = c
    OBVIOUS
  <1> HIDE DEF report, candidate, c
  <1>4. c.source = d.source
    BY <1>1
  <1>5. c # Refused
    <2>1. "refused" \in DOMAIN Refused
      BY DEF Refused
    <2>2. "refused" \notin DOMAIN c
      BY <1>1
    <2> QED
      BY <2>1, <2>2
  <1> QED
    BY <1>2, <1>3, <1>4, <1>5

\* UnlockedByValidation: the last window stays closed to a candidate that the
\* validation window of the same data does not support, also to one that was
\* registered from an earlier export or whose outcome was forged; and a
\* validation leads to exactly one verdict (candidates.py, register_finalist,
\* reject_after_validation, final_oos_report).
THEOREM UnlockedOnlyByValidation == Spec => UnlockedByValidation
<1> DEFINE Unlocked ==
        \A e \in Evidence(data') :
          /\ \A finalist \in Presentable({e} \cup Evidence(data)) :
                FinalOos(data', finalist) # Refused =>
                    /\ finalist = Finalist(data', e.candidate, e.validation)
                    /\ e.validation.candidate.total > e.validation.baseline.total
                    /\ FinalOos(data', finalist).baseline.count >= TradeFloor
          /\ (Finalist(data', e.candidate, e.validation) = Refused)
                # (Rejection(data', e.candidate, e.validation) = Refused)
<1>1. ASSUME ResearchIInv, [Next]_vars
      PROVE  Unlocked
  <2>1. \/ data' = data
        \/ data'.source # data.source
    <3>1. CASE Grown
      <4>1. \E bar \in Bars : tape' = Append(tape, bar)
        BY <3>1 DEF Grown
      <4>2. tape \in Seq(Bars)
        BY <1>1 DEF ResearchIInv, TapeOK
      <4>3. Len(tape') = Len(tape) + 1 /\ Len(tape) \in Nat
        BY <4>1, <4>2, Appended
      <4>4. Consistent(tape, now, slot, data) /\ Consistent(tape', now', slot', data')
        BY <1>1, <3>1, ConsistentIs DEF Grown
      <4>5. data.source = Len(tape) /\ data'.source = Len(tape')
        BY <4>4, DataIs
      <4> QED
        BY <4>3, <4>5
    <3> QED
      BY <1>1, <3>1, ResearchStep
  <2>2. Consistent(tape, now, slot, data) /\ Consistent(tape', now', slot', data')
    BY <1>1, ResearchStep, ConsistentIs DEF Grown
  <2>3. PICK c : /\ c.source = data.source
                 /\ Evidence(data) = {[candidate |-> c, validation |-> Validation(data, c)]}
    BY <2>2, EvidenceIs
  <2>4. PICK k : /\ k.source = data'.source
                 /\ Evidence(data') = {[candidate |-> k, validation |-> Validation(data', k)]}
    BY <2>2, EvidenceIs
  <2> DEFINE old == [candidate |-> c, validation |-> Validation(data, c)]
             e == [candidate |-> k, validation |-> Validation(data', k)]
  <2>5. \A x \in Evidence(data') : x = e
    BY <2>4
  <2>6. Evidence(data) = {old}
    BY <2>3
  <2>7. data' = data => old = e
    BY <2>3, <2>4
  <2>8. old.candidate = c
    OBVIOUS
  <2>9. \A v \in BOOLEAN : [old EXCEPT !.validation.improved = v].candidate = c
    OBVIOUS
  <2> HIDE DEF old
  <2>10. e = [candidate |-> k, validation |-> Validation(data', k)]
    OBVIOUS
  <2> HIDE DEF e
  <2>11. \A v \in BOOLEAN :
            LET f == [e EXCEPT !.validation.improved = v]
            IN FinalOos(data', f) # Refused =>
                  /\ f = Finalist(data', e.candidate, e.validation)
                  /\ e.validation.candidate.total > e.validation.baseline.total
                  /\ FinalOos(data', f).baseline.count >= TradeFloor
    BY <2>2, <2>4, <2>10, UnlockedIs
  <2>12. (Finalist(data', e.candidate, e.validation) = Refused)
            # (Rejection(data', e.candidate, e.validation) = Refused)
    <3>1. PICK v \in BOOLEAN : TRUE
      OBVIOUS
    <3> DEFINE f == [e EXCEPT !.validation.improved = v]
    <3>2. f = [e EXCEPT !.validation.improved = v]
      OBVIOUS
    <3> HIDE DEF f
    <3>3. Finalist(data', e.candidate, e.validation) = Refused
             <=> Rejection(data', e.candidate, e.validation) # Refused
      BY <2>2, <2>4, <2>10, <3>1, <3>2, UnlockedIs
    <3> QED
      BY <3>3
  <2>13. ASSUME NEW f \in Presentable({e} \cup Evidence(data)),
                FinalOos(data', f) # Refused
         PROVE  /\ f = Finalist(data', e.candidate, e.validation)
                /\ e.validation.candidate.total > e.validation.baseline.total
                /\ FinalOos(data', f).baseline.count >= TradeFloor
    <3>1. PICK v \in BOOLEAN : \/ f = [e EXCEPT !.validation.improved = v]
                               \/ f = [old EXCEPT !.validation.improved = v]
      BY <2>6 DEF Presentable
    <3>2. CASE f = [e EXCEPT !.validation.improved = v]
      BY <2>11, <2>13, <3>2
    <3>3. CASE f = [old EXCEPT !.validation.improved = v] /\ data' = data
      <4>1. f = [e EXCEPT !.validation.improved = v]
        BY <2>7, <3>3
      <4> QED
        BY <2>11, <2>13, <4>1
    <3>4. CASE f = [old EXCEPT !.validation.improved = v] /\ data'.source # data.source
      <4>1. f.candidate.source # data'.source
        BY <2>3, <2>9, <3>4
      <4>2. FinalOos(data', f) = Refused
        BY <4>1, StaleIsRefused
      <4> QED
        BY <2>13, <4>2
    <3> QED
      BY <2>1, <3>1, <3>2, <3>3, <3>4
  <2> QED
    BY <2>5, <2>12, <2>13
<1>2. ResearchIInv /\ [Next]_vars => [Unlocked]_vars
  BY <1>1
<1>3. QED
  BY <1>2, ResearchInvariant, PTL DEF Spec, UnlockedByValidation

-----------------------------------------------------------------------------
(* What the rows, the populations and the registration agree on.           *)

\* register_development_candidate accepts the canonical development report.
LEMMA RegistrationAlwaysPasses ==
    ASSUME ResearchIInv
    PROVE  RegistrationPasses
  <1>1. Consistent(tape, now, slot, data)
    BY ConsistentIs
  <1>2. PICK c : c # Refused /\ Register(data, DevelopmentReport(data)) = c
    BY <1>1, EvidenceIs
  <1> QED
    BY <1>2 DEF RegistrationPasses

-----------------------------------------------------------------------------
(* A trade that leaves at its stop loses.                                  *)

\* The stop of the slot's trade lies where the trade loses.
StopBehind(sl) ==
    sl.phase = "open" =>
        IF sl.side = "long" THEN sl.stop < sl.price ELSE sl.price < sl.stop

LosesAtStop(e) == "exit_stop" \in Range(e.reasons) => e.r < 0

StopsLose ==
    /\ StopBehind(slot)
    /\ \A x \in EventsOf(tape, "trade_closed") : LosesAtStop(x[2])

LEMMA LossesGrow ==
    ASSUME ResearchIInv, StopsLose, NEW trend, NEW quote, NEW events,
           Bar(trend, quote, events), StopBehind(slot'),
           \A e \in Range(events) : e.type = "trade_closed" => LosesAtStop(e)
    PROVE  StopsLose'
  <1> DEFINE bar == BarWith(trend, quote, events)
  <1>1. tape \in Seq(Bars)
    BY DEF ResearchIInv, TapeOK
  <1>2. tape' = Append(tape, bar) /\ bar.events = events
    BY DEF Bar, BarWith
  <1> HIDE DEF bar
  <1>3. EventsOf(tape', "trade_closed")
          = EventsOf(tape, "trade_closed") \cup LateEvents(tape, bar, "trade_closed")
    BY <1>1, <1>2, EventsGrow
  <1>4. \A x \in LateEvents(tape, bar, "trade_closed") : LosesAtStop(x[2])
    BY <1>2 DEF LateEvents, NewEvents
  <1>5. \A x \in EventsOf(tape', "trade_closed") : LosesAtStop(x[2])
    BY <1>3, <1>4 DEF StopsLose
  <1> QED
    BY <1>5 DEF StopsLose

LEMMA StopIsBehind ==
    ASSUME NEW side \in Sides, NEW id, NEW q \in Quotes,
           NEW sl, sl = [phase |-> "open", side |-> side, id |-> id, price |-> q.close,
                         stop |-> StopOf(side, q)]
    PROVE  StopBehind(sl)
  <1>1. q.close \in Int /\ q.stopDistance \in Int /\ q.stopDistance > 0
    BY QuotesAssumption DEF AllQuotes
  <1> QED
    BY <1>1 DEF StopBehind, StopOf, Sides

LEMMA EmptyIsBehind == StopBehind(Empty)
  BY DEF StopBehind, Empty

LEMMA NoRange == Range(<<>>) = {}
  BY DEF Range

LEMMA RangeOfOne ==
    ASSUME NEW x
    PROVE  Range(<<x>>) = {x}
  BY DEF Range

LEMMA RangeOfTwo ==
    ASSUME NEW x, NEW y
    PROVE  Range(<<x, y>>) = {x, y}
  BY DEF Range

LEMMA RangeOfThree ==
    ASSUME NEW x, NEW y, NEW z
    PROVE  Range(<<x, y, z>>) = {x, y, z}
  BY DEF Range

\* The events of a bar with a flip, the last of them excepted, close no trade.
LEMMA FlipClosesNothing ==
    ASSUME NEW side, NEW z, z.type # "trade_closed",
           NEW e \in Range(<<Flip(side)>> \o Cancelled \o <<z>>)
    PROVE  e.type # "trade_closed"
  <1>1. Flip(side).type # "trade_closed"
    BY DEF Flip, Event
  <1> DEFINE c == Event("setup_cancelled", slot.side)
  <1>2. c.type # "trade_closed"
    BY DEF Event
  <1>3. Cancelled = <<>> \/ Cancelled = <<c>>
    BY DEF Cancelled
  <1> HIDE DEF c
  <1>4. CASE Cancelled = <<>>
    <2>1. <<Flip(side)>> \o <<>> = <<Flip(side)>> /\ <<Flip(side)>> \o <<z>> = <<Flip(side), z>>
      BY TwoEvents
    <2>2. e \in {Flip(side), z}
      BY <1>4, <2>1, RangeOfTwo
    <2> QED
      BY <1>1, <2>2
  <1>5. CASE Cancelled = <<c>>
    <2> DEFINE f == Flip(side)
    <2> HIDE DEF f
    <2>1. <<f>> \o <<c>> = <<f, c>>
      BY TwoEvents, ZenonT(60)
    <2>2. <<f, c>> \o <<z>> = <<f, c, z>>
      BY ThreeEvents, ZenonT(60)
    <2>3. <<f>> \o <<c>> \o <<z>> = <<f, c, z>>
      BY <2>1, <2>2
    <2>4. <<Flip(side)>> \o <<c>> \o <<z>> = <<Flip(side), c, z>>
      BY <2>3 DEF f
    <2>5. e \in {Flip(side), c, z}
      BY <1>5, <2>4, RangeOfThree
    <2> QED
      BY <1>1, <1>2, <2>5
  <1> QED
    BY <1>3, <1>4, <1>5

LEMMA ClosedLoses ==
    ASSUME ResearchIInv, StopsLose, slot.phase = "open", NEW q \in ExitQuotes,
           NEW reasons \in Seq(Reasons), "exit_stop" \notin Range(reasons)
    PROVE  LosesAtStop(Closed(q, reasons))
  <1>1. slot.side \in Sides /\ slot.price \in Int /\ slot.stop \in Int
    BY PhaseIs DEF ResearchIInv, Holds
  <1> DEFINE stopped == Stopped(slot.side, slot.stop, q)
             e == Closed(q, reasons)
  <1>2. CASE stopped
    <2>1. e.r = IF slot.side = "long" THEN slot.stop - slot.price ELSE slot.price - slot.stop
      BY <1>2 DEF Closed
    <2>2. e.r < 0
      BY <1>1, <2>1 DEF StopsLose, StopBehind
    <2> QED
      BY <2>2 DEF LosesAtStop
  <1>3. CASE ~stopped
    <2>1. e.reasons = <<>> \o reasons
      BY <1>3 DEF Closed
    <2>2. e.reasons = reasons
      BY <2>1
    <2> QED
      BY <2>2 DEF LosesAtStop
  <1> QED
    BY <1>2, <1>3

LEMMA StopsStep ==
    ASSUME ResearchIInv, StopsLose, Next
    PROVE  StopsLose'
  <1>0. \A type, side : Event(type, side).type = type
    BY DEF Event
  <1>1. CASE Quiet
    <2>1. PICK q \in QuietQuotes, trend \in Sides : Bar(trend, q, <<>>)
      BY <1>1 DEF Quiet
    <2>2. Range(<<>>) = {} /\ slot' = slot
      BY <1>1, NoRange DEF Quiet
    <2> QED
      BY <2>1, <2>2, LossesGrow DEF StopsLose
  <1>2. CASE MissingBar
    BY <1>2 DEF MissingBar, StopsLose
  <1>3. CASE FlipRejected
    <2> DEFINE Z(side) == Event("decision_rejected", side)
    <2>1. PICK side \in Sides, trend \in Sides, q \in QuietQuotes :
              Bar(trend, q, <<Flip(side)>> \o Cancelled \o <<Z(side)>>)
      BY <1>3 DEF FlipRejected
    <2> DEFINE z == Z(side)
               evs == <<Flip(side)>> \o Cancelled \o <<z>>
    <2>2. z.type # "trade_closed"
      BY <1>0
    <2> HIDE DEF z
    <2>3. \A e \in Range(evs) : e.type # "trade_closed"
      BY <2>2, FlipClosesNothing
    <2>4. Bar(trend, q, evs) /\ slot' = Empty
      BY <1>3, <2>1 DEF FlipRejected, z
    <2> HIDE DEF evs
    <2> QED
      BY <2>3, <2>4, LossesGrow, EmptyIsBehind
  <1>4. CASE FlipArms
    <2> DEFINE Z(side) == Event("setup_armed", side)
    <2>1. PICK side \in Sides, q \in QuietQuotes :
              /\ Bar(Opposite(side), q, <<Flip(side)>> \o Cancelled \o <<Z(side)>>)
              /\ slot' = [phase |-> "armed", side |-> side, origin |-> now + 1]
      BY <1>4 DEF FlipArms
    <2> DEFINE z == Z(side)
               evs == <<Flip(side)>> \o Cancelled \o <<z>>
    <2>2. z.type # "trade_closed"
      BY <1>0
    <2> HIDE DEF z
    <2>3. \A e \in Range(evs) : e.type # "trade_closed"
      BY <2>2, FlipClosesNothing
    <2>4. StopBehind(slot')
      BY <2>1 DEF StopBehind
    <2>5. Bar(Opposite(side), q, evs)
      BY <2>1 DEF z
    <2> HIDE DEF evs
    <2> QED
      BY <2>3, <2>4, <2>5, LossesGrow
  <1>5. CASE FlipEnters
    <2> DEFINE id == Len(data.trades) + 1
               Op(side, q) == Opened(side, now + 1, id, q.close)
    <2>1. PICK side \in Sides, q \in Quotes :
              /\ Bar(side, q, (<<Flip(side)>> \o Cancelled) \o <<Op(side, q)>>)
              /\ slot' = [phase |-> "open", side |-> side, id |-> id, price |-> q.close,
                          stop |-> StopOf(side, q)]
      BY <1>5 DEF FlipEnters, Enter
    <2> DEFINE z == Op(side, q)
               evs == <<Flip(side)>> \o Cancelled \o <<z>>
    <2>2. z.type # "trade_closed"
      BY DEF Opened
    <2>3. StopBehind(slot')
      BY <2>1, StopIsBehind
    <2> HIDE DEF z
    <2>4. \A e \in Range(evs) : e.type # "trade_closed"
      BY <2>2, FlipClosesNothing
    <2>5. Bar(side, q, evs)
      BY <2>1 DEF z
    <2> HIDE DEF evs
    <2> QED
      BY <2>3, <2>4, <2>5, LossesGrow
  <1>6. CASE SetupConfirmed
    <2> DEFINE id == Len(data.trades) + 1
               Op(q) == Opened(slot.side, slot.origin, id, q.close)
    <2>1. PICK q \in Quotes :
              /\ Bar(slot.side, q, <<>> \o <<Op(q)>>)
              /\ slot' = [phase |-> "open", side |-> slot.side, id |-> id, price |-> q.close,
                          stop |-> StopOf(slot.side, q)]
      BY <1>6 DEF SetupConfirmed, Enter
    <2> DEFINE z == Op(q)
    <2>2. z.type # "trade_closed"
      BY DEF Opened
    <2>3. slot.side \in Sides
      BY <1>6, PhaseIs DEF ResearchIInv, SetupConfirmed
    <2>4. StopBehind(slot')
      BY <2>1, <2>3, StopIsBehind
    <2> HIDE DEF z
    <2>5. <<>> \o <<z>> = <<z>> /\ Range(<<z>>) = {z}
      BY RangeOfOne
    <2>6. Bar(slot.side, q, <<>> \o <<z>>)
      BY <2>1 DEF z
    <2> QED
      BY <2>2, <2>4, <2>5, <2>6, LossesGrow
  <1>7. CASE SetupCancelled
    <2> DEFINE z == Event("setup_cancelled", slot.side)
    <2>1. Cancelled = <<z>> /\ slot' = Empty
      BY <1>7 DEF SetupCancelled, Cancelled
    <2>2. PICK q \in QuietQuotes, trend \in Sides : Bar(trend, q, Cancelled)
      BY <1>7 DEF SetupCancelled
    <2>3. z.type # "trade_closed"
      BY <1>0
    <2> HIDE DEF z
    <2>4. Range(<<z>>) = {z}
      BY RangeOfOne
    <2>5. Bar(trend, q, <<z>>)
      BY <2>1, <2>2
    <2> QED
      BY <2>1, <2>3, <2>4, <2>5, LossesGrow, EmptyIsBehind
  <1>8. CASE FlipHeld
    <2>1. PICK q \in QuietQuotes, trend \in Sides : Bar(trend, q, <<Flip(slot.side)>>)
      BY <1>8 DEF FlipHeld
    <2> DEFINE z == Flip(slot.side)
    <2>2. z.type # "trade_closed"
      BY <1>0 DEF Flip
    <2> HIDE DEF z
    <2>3. Range(<<z>>) = {z}
      BY RangeOfOne
    <2>4. Bar(trend, q, <<z>>) /\ slot' = slot
      BY <1>8, <2>1 DEF FlipHeld, z
    <2> QED
      BY <2>2, <2>3, <2>4, LossesGrow DEF StopsLose
  <1>9. CASE TradeExits
    <2>1. PICK q \in ExitQuotes, trend \in Sides, reasons \in Reversals(<<>>) :
              Leave(trend, q, reasons, <<>>, <<>>)
      BY <1>9 DEF TradeExits
    <2> DEFINE z == Closed(q, reasons)
    <2>2. Bar(trend, q, <<>> \o <<z>> \o <<>>) /\ slot' = Empty /\ slot.phase = "open"
      BY <1>9, <2>1 DEF TradeExits, Leave
    <2>3. reasons \in Seq(Reasons) /\ "exit_stop" \notin Range(reasons)
      BY ReversalsAre
    <2>4. LosesAtStop(z)
      BY <2>2, <2>3, ClosedLoses
    <2> HIDE DEF z
    <2>5. <<>> \o <<z>> \o <<>> = <<z>> /\ Range(<<z>>) = {z}
      BY RangeOfOne
    <2> QED
      BY <2>2, <2>4, <2>5, LossesGrow, EmptyIsBehind
  <1>10. CASE TradeExitsOnFlip
    <2> DEFINE Why(side) == IF side = slot.side THEN <<>> ELSE <<"exit_hema_flip">>
               z == Event("decision_rejected", None)
    <2>1. PICK side \in Sides, trend \in Sides, q \in ExitQuotes :
              \E reasons \in Reversals(Why(side)) : Leave(trend, q, reasons, <<Flip(side)>>, <<z>>)
      BY <1>10 DEF TradeExitsOnFlip
    <2>2. PICK reasons \in Reversals(Why(side)) : Leave(trend, q, reasons, <<Flip(side)>>, <<z>>)
      BY <2>1
    <2> DEFINE x == Flip(side)
               y == Closed(q, reasons)
    <2>3. /\ Bar(trend, q, <<x>> \o <<y>> \o <<z>>) /\ slot' = Empty
          /\ slot.phase = "open"
      BY <1>10, <2>2 DEF TradeExitsOnFlip, Leave
    <2>4. x.type # "trade_closed" /\ z.type # "trade_closed"
      BY <1>0 DEF Flip
    <2>5. reasons \in Seq(Reasons) /\ "exit_stop" \notin Range(reasons)
      <3> DEFINE why == Why(side)
      <3>1. (why = <<>> \/ why = <<"exit_hema_flip">>) /\ reasons \in Reversals(why)
        BY <2>2
      <3> HIDE DEF why
      <3> QED
        BY <3>1, ReversalsAre
    <2>6. LosesAtStop(y)
      BY <2>3, <2>5, ClosedLoses
    <2> HIDE DEF x, y, z
    <2>7. Range(<<x, y, z>>) = {x, y, z}
      BY RangeOfThree
    <2>8. <<x>> \o <<y>> \o <<z>> = <<x, y, z>>
      <3>1. <<x>> \o <<y>> = <<x, y>>
        BY TwoEvents
      <3>2. <<x, y>> \o <<z>> = <<x, y, z>>
        BY ThreeEvents
      <3> QED
        BY <3>1, <3>2, Zenon
    <2> QED
      BY <2>3, <2>4, <2>6, <2>7, <2>8, LossesGrow, EmptyIsBehind
  <1> QED
    BY <1>1, <1>2, <1>3, <1>4, <1>5, <1>6, <1>7, <1>8, <1>9, <1>10 DEF Next

\* StopsLose: the account (backtest/accounting.py, close_trade) fills a stop at
\* its price, which lies on the losing side of the entry, so every close with the
\* reason exit_stop has a negative result.
THEOREM StopsAlwaysLose == Spec => []StopsLose
<1>1. Init => StopsLose
  <2>1. ASSUME Init
        PROVE  StopsLose
    <3>1. tape = <<>> /\ slot = Empty
      BY <2>1 DEF Init
    <3>2. EventsOf(tape, "trade_closed") = {}
      BY <3>1 DEF EventsOf
    <3> QED
      BY <3>1, <3>2, EmptyIsBehind DEF StopsLose
  <2> QED
    BY <2>1
<1>2. ResearchIInv /\ StopsLose /\ [Next]_vars => StopsLose'
  <2>1. ASSUME ResearchIInv, StopsLose, UNCHANGED vars
        PROVE  StopsLose'
    BY <2>1 DEF vars, StopsLose
  <2> QED
    BY <2>1, StopsStep
<1> QED
  BY <1>1, <1>2, ResearchInvariant, PTL DEF Spec

-----------------------------------------------------------------------------
(* What the reports ask of a trade.                                        *)

\* The data_quality_flags of a trade say what is missing of it.
LEMMA FlagsAre ==
    ASSUME NEW tp, NEW n, NEW sl, NEW d, Consistent(tp, n, sl, d), NEW x \in Trades(d)
    PROVE  /\ "post_entry_15m_gap" \in x.flags <=> x.state = "closed" /\ x.mfe = None
           /\ "incomplete_utc_session_prefix" \in x.flags <=> ~x.features.prefix
           /\ "adr_unavailable" \in x.flags <=> x.features.context.adr = None
           /\ x.features.extension # None <=>
                 x.features.prefix /\ x.features.context.adr # None
           /\ x.features.context.status = "available" <=> x.features.context.adr # None
  <1>1. PICK k \in DOMAIN d.trades : x = d.trades[k]
    BY DataIs
  <1> DEFINE e == Collected(tp).entries[k]
             f == EntryFeatures(tp, e.at, e.trade.side)
             o == OutcomeOf(tp, e)
  <1>2. x = TradeRow(tp, e) /\ e.at \in DOMAIN tp /\ x.features = f
    BY <1>1, RowOf
  <1>3. x = Join(Entered(e, f, o), o) /\ DOMAIN o = OutcomeFields
    BY <1>2, RowFromParts, OutcomeIs
  <1>4. TapeOK(tp, n)
    BY DEF Consistent
  <1>5. /\ f.extension # None <=> f.prefix /\ f.context.adr # None
        /\ f.context.status = "available" <=> f.context.adr # None
    BY <1>2, <1>4, ExtensionIs
  <1> HIDE DEF e, f, o
  <1>6. /\ x.state = o.state /\ x.mfe = o.mfe /\ x.flags = Entered(e, f, o).flags
    BY <1>3, Joined
  <1>7. x.flags = (IF o.state = "closed" /\ o.mfe = None THEN {"post_entry_15m_gap"} ELSE {})
                  \cup (IF f.prefix THEN {} ELSE {"incomplete_utc_session_prefix"})
                  \cup (IF f.context.adr = None THEN {"adr_unavailable"} ELSE {})
    BY <1>6 DEF Entered
  <1>8. /\ "post_entry_15m_gap" \in x.flags <=> o.state = "closed" /\ o.mfe = None
        /\ "incomplete_utc_session_prefix" \in x.flags <=> ~f.prefix
        /\ "adr_unavailable" \in x.flags <=> f.context.adr = None
    BY <1>7
  <1> QED
    BY <1>2, <1>5, <1>6, <1>8

\* The outcome of a closed trade, in the fields a failure mode is made of.
LEMMA LossIs ==
    ASSUME ResearchIInv, StopsLose, NEW x \in Trades(data)
    PROVE  /\ x.state = "closed" \/ x.state = "censored"
           /\ x.state = "censored" => x.mfe = None
           /\ x.state = "closed" =>
                 /\ x.r \in Int /\ x.stopHit \in BOOLEAN
                 /\ x.stopHit => x.r < 0
                 /\ x.mfe = None \/ (x.mfe \in Int /\ x.mfe >= 0)
  <1>0. Consistent(tape, now, slot, data)
    BY ConsistentIs
  <1>1. PICK k \in DOMAIN data.trades : x = data.trades[k]
    BY <1>0, DataIs
  <1>2. x.state = "closed" \/ x.state = "censored"
    BY <1>0, TradeIs
  <1>3. /\ Closes(tape, k) = {} => x.state # "closed" /\ ValidCensored(x)
        /\ Closes(tape, k) # {} => /\ x.state = "closed" /\ ValidClosed(x)
                                   /\ x.mfe = None \/ x.mfe \in Int
    BY <1>0, <1>1, RowIsValid
  <1>4. CASE Closes(tape, k) = {}
    <2>1. x.mfe = None
      BY <1>3, <1>4 DEF ValidCensored, NoOutcome
    <2> QED
      BY <1>2, <1>3, <1>4, <2>1
  <1>5. CASE Closes(tape, k) # {}
    <2>1. PICK close \in Closes(tape, k) : TRUE
      BY <1>5
    <2> DEFINE e == Collected(tape).entries[k]
               o == OutcomeOf(tape, e)
    <2>2. x = TradeRow(tape, e) /\ o = Outcome(tape, e, close[1], close[2])
      BY <1>0, <1>1, <2>1, RowOf
    <2>3. /\ x = Join(Entered(e, EntryFeatures(tape, e.at, e.trade.side), o), o)
          /\ DOMAIN o = OutcomeFields
      BY <2>2, RowFromParts, OutcomeIs
    <2>4. o.reasons = close[2].reasons /\ o.r = close[2].r
      BY <2>2 DEF Outcome
    <2> HIDE DEF e, o
    <2>5. x.reasons = close[2].reasons /\ x.r = close[2].r
      BY <2>3, <2>4, Joined
    <2>6. close \in EventsOf(tape, "trade_closed")
      BY <2>1 DEF Closes
    <2>7. "exit_stop" \in Range(x.reasons) => x.r < 0
      BY <2>5, <2>6 DEF StopsLose, LosesAtStop
    <2>8. x.state = "closed" /\ ValidClosed(x) /\ (x.mfe = None \/ x.mfe \in Int)
      BY <1>3, <1>5
    <2>9. x.stopHit \in BOOLEAN /\ (x.stopHit => x.r < 0)
      <3> DEFINE hit == "exit_stop" \in Range(x.reasons)
      <3>1. x.stopHit = hit
        BY <2>8 DEF ValidClosed
      <3>2. hit \in BOOLEAN
        OBVIOUS
      <3>3. hit => x.r < 0
        BY <2>7
      <3> HIDE DEF hit
      <3> QED
        BY <3>1, <3>2, <3>3
    <2>10. x.mfe = None \/ (x.mfe \in Int /\ x.mfe >= 0)
      BY <2>8 DEF ValidClosed
    <2>11. x.r \in Int
      BY <1>0, <2>8, ResultIs
    <2> QED
      BY <2>8, <2>9, <2>10, <2>11
  <1> QED
    BY <1>4, <1>5

\* The label of a closed trade.
LEMMA ModeIs ==
    ASSUME NEW x, x.r \in Int, x.stopHit \in BOOLEAN, x.stopHit => x.r < 0,
           x.mfe = None \/ (x.mfe \in Int /\ x.mfe >= 0)
    PROVE  /\ FailureMode(x) = Raises <=> x.stopHit /\ x.mfe = None
           /\ FailureMode(x) = "F1" <=> x.stopHit /\ x.mfe # None /\ 4 * x.mfe < Risk
           /\ FailureMode(x) = "F2" <=> /\ x.stopHit /\ x.mfe # None
                                        /\ 4 * x.mfe >= Risk /\ x.mfe < Risk
           /\ FailureMode(x) = "F3" <=> x.stopHit /\ x.mfe # None /\ x.mfe >= Risk
           /\ FailureMode(x) = "F4" <=> ~x.stopHit /\ x.r < 0
           /\ FailureMode(x) \in FailureModes <=> x.r < 0 /\ ~(x.stopHit /\ x.mfe = None)
  <1>1. /\ None # Raises /\ None \notin FailureModes /\ Raises \notin FailureModes
        /\ None # "F1" /\ None # "F2" /\ None # "F3" /\ None # "F4"
    BY LabelAssumption DEF FailureModes, Raises
  <1>2. Risk \in Nat \ {0} /\ None \notin Int
    BY DayAssumption, NoneAssumption
  <1>3. CASE x.r >= 0
    <2>1. FailureMode(x) = None
      BY <1>3 DEF FailureMode
    <2> QED
      BY <1>1, <1>3, <2>1
  <1>4. CASE x.r < 0 /\ ~x.stopHit
    <2>1. FailureMode(x) = "F4"
      BY <1>4 DEF FailureMode
    <2> QED
      BY <1>4, <2>1 DEF FailureModes, Raises
  <1>5. CASE x.stopHit /\ x.mfe = None
    <2>1. FailureMode(x) = Raises
      BY <1>5 DEF FailureMode
    <2> QED
      BY <1>5, <2>1 DEF FailureModes, Raises
  <1>6. CASE x.stopHit /\ x.mfe # None
    <2>1. x.r < 0 /\ x.mfe \in Int /\ x.mfe >= 0
      BY <1>6
    <2>2. FailureMode(x) = IF 4 * x.mfe < Risk THEN "F1" ELSE IF x.mfe < Risk THEN "F2" ELSE "F3"
      BY <1>6, <2>1 DEF FailureMode
    <2>3. FailureMode(x) \in FailureModes /\ FailureMode(x) # Raises /\ FailureMode(x) # "F4"
      BY <2>2 DEF FailureModes, Raises
    <2>4. x.mfe >= Risk => 4 * x.mfe >= Risk
      BY <1>2, <2>1
    <2> QED
      BY <1>2, <1>6, <2>1, <2>2, <2>3, <2>4
  <1> QED
    BY <1>3, <1>4, <1>5, <1>6

-----------------------------------------------------------------------------
(* The reports add up.                                                     *)

\* The labels divide the losses that have one, and the transfer study counts
\* the same trades.
LEMMA LabelsAddUp ==
    ASSUME ResearchIInv, StopsLose,
           NEW closed, closed = {x \in Trades(data) : x.state = "closed"},
           NEW labelled, labelled = {x \in closed : ~Unlabelled(x)},
           NEW modes, modes = FailurePartition(labelled)
    PROVE  /\ (FailurePartition(closed) = Refused) <=> labelled # closed
           /\ modes = TransferFailures(closed)
           /\ UNION {modes[label] : label \in FailureModes} = Losses(labelled)
           /\ \A x \in labelled : Cardinality({l \in FailureModes : x \in modes[l]}) <= 1
  <1>1. ASSUME NEW x \in closed
        PROVE  /\ x.r \in Int /\ x.stopHit \in BOOLEAN /\ (x.stopHit => x.r < 0)
               /\ x.mfe = None \/ (x.mfe \in Int /\ x.mfe >= 0)
               /\ Unlabelled(x) <=> x.stopHit /\ x.mfe = None
    <2>1. x \in Trades(data) /\ x.state = "closed"
      OBVIOUS
    <2>2. /\ x.r \in Int /\ x.stopHit \in BOOLEAN /\ (x.stopHit => x.r < 0)
          /\ x.mfe = None \/ (x.mfe \in Int /\ x.mfe >= 0)
      BY <2>1, LossIs
    <2>3. "post_entry_15m_gap" \in x.flags <=> x.mfe = None
      BY <2>1, ConsistentIs, FlagsAre
    <2>4. Unlabelled(x) <=> x.stopHit /\ x.mfe = None
      BY <2>2, <2>3 DEF Unlabelled
    <2> QED
      BY <2>2, <2>4
  <1>2. ASSUME NEW x \in closed
        PROVE  /\ FailureMode(x) = Raises <=> x.stopHit /\ x.mfe = None
               /\ FailureMode(x) = "F1" <=> x.stopHit /\ x.mfe # None /\ 4 * x.mfe < Risk
               /\ FailureMode(x) = "F2" <=> /\ x.stopHit /\ x.mfe # None
                                            /\ 4 * x.mfe >= Risk /\ x.mfe < Risk
               /\ FailureMode(x) = "F3" <=> x.stopHit /\ x.mfe # None /\ x.mfe >= Risk
               /\ FailureMode(x) = "F4" <=> ~x.stopHit /\ x.r < 0
               /\ FailureMode(x) \in FailureModes <=> x.r < 0 /\ ~(x.stopHit /\ x.mfe = None)
    BY <1>1, ModeIs
  <1>3. labelled = {x \in closed : ~(x.stopHit /\ x.mfe = None)} /\ labelled \subseteq closed
    BY <1>1
  <1>4. \A x \in closed : FailureMode(x) = Raises <=> x \notin labelled
    BY <1>2, <1>3
  <1> DEFINE parts(S) == [label \in FailureModes |-> {x \in S : FailureMode(x) = label}]
  <1>5. \A S : FailurePartition(S) = IF \E x \in S : FailureMode(x) = Raises THEN Refused ELSE parts(S)
    BY DEF FailurePartition
  <1>6. \A S : parts(S) # Refused
    <2>1. \A S : DOMAIN parts(S) = FailureModes
      OBVIOUS
    <2>2. DOMAIN Refused = {"refused"} /\ FailureModes # {"refused"}
      BY DEF Refused, FailureModes
    <2> HIDE DEF parts
    <2> QED
      BY <2>1, <2>2
  <1>7. (FailurePartition(closed) = Refused) <=> labelled # closed
    <2> HIDE DEF parts
    <2> QED
      BY <1>3, <1>4, <1>5, <1>6
  <1>8. modes = parts(labelled)
    <2> HIDE DEF parts
    <2> QED
      BY <1>3, <1>4, <1>5
  <1>9. \A label \in FailureModes :
           modes[label] = {x \in labelled : FailureMode(x) = label}
    BY <1>8
  <1>10. modes = TransferFailures(closed)
    <2> DEFINE stopped == {x \in closed : x.stopHit /\ x.mfe # None}
               is(label) == CASE label = "F1" -> {x \in stopped : 4 * x.mfe < Risk}
                              [] label = "F2" -> {x \in stopped : 4 * x.mfe >= Risk /\ x.mfe < Risk}
                              [] label = "F3" -> {x \in stopped : x.mfe >= Risk}
                              [] label = "F4" -> {x \in closed : ~x.stopHit /\ x.r < 0}
    <2>1. TransferFailures(closed) = [label \in FailureModes |-> is(label)]
      BY DEF TransferFailures
    <2>2. /\ is("F1") = {x \in stopped : 4 * x.mfe < Risk}
          /\ is("F2") = {x \in stopped : 4 * x.mfe >= Risk /\ x.mfe < Risk}
          /\ is("F3") = {x \in stopped : x.mfe >= Risk}
          /\ is("F4") = {x \in closed : ~x.stopHit /\ x.r < 0}
      OBVIOUS
    <2> HIDE DEF is
    <2>3. {x \in labelled : FailureMode(x) = "F1"} = is("F1")
      BY <1>2, <1>3, <2>2
    <2>4. {x \in labelled : FailureMode(x) = "F2"} = is("F2")
      BY <1>2, <1>3, <2>2
    <2>5. {x \in labelled : FailureMode(x) = "F3"} = is("F3")
      BY <1>2, <1>3, <2>2
    <2>6. {x \in labelled : FailureMode(x) = "F4"} = is("F4")
      BY <1>2, <1>3, <2>2
    <2>7. \A label \in FailureModes : {x \in labelled : FailureMode(x) = label} = is(label)
      BY <2>3, <2>4, <2>5, <2>6 DEF FailureModes
    <2> QED
      BY <1>8, <2>1, <2>7
  <1>11. UNION {modes[label] : label \in FailureModes} = Losses(labelled)
    <2>1. \A x : x \in UNION {modes[label] : label \in FailureModes}
                    <=> x \in labelled /\ FailureMode(x) \in FailureModes
      BY <1>9
    <2>2. \A x \in labelled : FailureMode(x) \in FailureModes <=> x.r < 0
      BY <1>2, <1>3
    <2>3. \A x : x \in Losses(labelled) <=> x \in labelled /\ x.r < 0
      BY DEF Losses
    <2> QED
      BY <2>1, <2>2, <2>3
  <1>12. ASSUME NEW x \in labelled
         PROVE  Cardinality({l \in FailureModes : x \in modes[l]}) <= 1
    <2> DEFINE S == {l \in FailureModes : x \in modes[l]}
               m == FailureMode(x)
    <2>1. S \subseteq {m}
      BY <1>9
    <2> HIDE DEF S, m
    <2>2. IsFiniteSet({m}) /\ Cardinality({m}) = 1
      BY FS_Singleton
    <2>3. Cardinality(S) <= Cardinality({m})
      BY <2>1, <2>2, FS_Subset
    <2> QED
      BY <2>2, <2>3 DEF S
  <1> QED
    BY <1>7, <1>10, <1>11, <1>12

\* What is missing of a trade is accounted for by its flags.
LEMMA FlagsAddUp ==
    ASSUME ResearchIInv, StopsLose, NEW report, report = BaselineReport(data)
    PROVE  /\ report.missingExcursions = report.censored \cup report.gaps
           /\ report.missingExtension = report.incompletePrefix \cup report.adrUnavailable
           /\ AdrCount(TradeFeatures(data), "available")
                 = {x.features : x \in Trades(data) \ report.adrUnavailable}
  <1> DEFINE T == Trades(data)
  <1>1. ASSUME NEW x \in T
        PROVE  /\ x.mfe = None <=> x.state = "censored" \/ "post_entry_15m_gap" \in x.flags
               /\ x.features.extension = None
                     <=> \/ "incomplete_utc_session_prefix" \in x.flags
                         \/ "adr_unavailable" \in x.flags
               /\ x.features.context.status = "available" <=> "adr_unavailable" \notin x.flags
    <2>1. /\ x.state = "closed" \/ x.state = "censored"
          /\ x.state = "censored" => x.mfe = None
      BY LossIs
    <2>2. /\ "post_entry_15m_gap" \in x.flags <=> x.state = "closed" /\ x.mfe = None
          /\ "incomplete_utc_session_prefix" \in x.flags <=> ~x.features.prefix
          /\ "adr_unavailable" \in x.flags <=> x.features.context.adr = None
          /\ x.features.extension # None <=>
                x.features.prefix /\ x.features.context.adr # None
          /\ x.features.context.status = "available" <=> x.features.context.adr # None
      BY ConsistentIs, FlagsAre
    <2> HIDE DEF T
    <2>3. x.mfe = None <=> x.state = "censored" \/ "post_entry_15m_gap" \in x.flags
      BY <2>1, <2>2
    <2>4. x.features.extension = None
             <=> \/ "incomplete_utc_session_prefix" \in x.flags
                 \/ "adr_unavailable" \in x.flags
      BY <2>2
    <2>5. x.features.context.status = "available" <=> "adr_unavailable" \notin x.flags
      BY <2>2
    <2> QED
      BY <2>3, <2>4, <2>5
  <1>2. /\ report.censored = {x \in T : x.state = "censored"}
        /\ report.gaps = {x \in T : "post_entry_15m_gap" \in x.flags}
        /\ report.missingExcursions = {x \in T : x.mfe = None}
        /\ report.missingExtension = {x \in T : x.features.extension = None}
        /\ report.incompletePrefix = {x \in T : "incomplete_utc_session_prefix" \in x.flags}
        /\ report.adrUnavailable = {x \in T : "adr_unavailable" \in x.flags}
    BY DEF BaselineReport
  <1>3. AdrCount(TradeFeatures(data), "available")
          = {f \in {x.features : x \in T} : f.context.status = "available"}
    BY DEF AdrCount, TradeFeatures
  <1> HIDE DEF T
  <1>4. report.missingExcursions = report.censored \cup report.gaps
    BY <1>1, <1>2
  <1>5. report.missingExtension = report.incompletePrefix \cup report.adrUnavailable
    BY <1>1, <1>2
  <1>6. AdrCount(TradeFeatures(data), "available")
          = {x.features : x \in T \ report.adrUnavailable}
    <2>1. T \ report.adrUnavailable = {x \in T : x.features.context.status = "available"}
      BY <1>1, <1>2
    <2> QED
      BY <1>3, <2>1
  <1> QED
    BY <1>4, <1>5, <1>6 DEF T

\* A setup's row, as the reports of a window read it.
LEMMA SetupIs ==
    ASSUME ResearchIInv, NEW o \in DOMAIN data.setups, NEW s, s = data.setups[o]
    PROVE  /\ s.status \in Statuses /\ s.eligible \in BOOLEAN /\ s.armed \in BOOLEAN
           /\ s.eligible <=> s.status # "rejected"
           /\ s.armed => s.eligible
           /\ s.status = "cancelled" => s.armed
           /\ s.features.decision = o /\ o \in Nat
           /\ s.status = "opened" <=> \E x \in Trades(data) : x.origin = o
  <1>1. Consistent(tape, now, slot, data)
    BY ConsistentIs
  <1>2. data.setups = Collected(tape).setups
    BY <1>1, DataIs
  <1>3. SetupOK(Collected(tape), tape, slot, 0, o) /\ TapeOK(tape, now)
    BY <1>1, <1>2 DEF Consistent, BookOK
  <1>4. s.features.decision = o /\ o \in Nat
    BY <1>2, <1>3, OriginIsNat
  <1>5. /\ s.status \in Statuses /\ s.armed \in BOOLEAN
        /\ s.eligible = (s.status # "rejected")
        /\ s.armed => s.eligible
        /\ s.status = "cancelled" => s.armed
    BY <1>2, <1>3 DEF SetupOK
  <1>6. s.eligible \in BOOLEAN /\ (s.eligible <=> s.status # "rejected")
    BY <1>5
  <1>7. (s.status = "opened") <=> (\E x \in Trades(data) : x.origin = o)
    BY RowsAgreeAlways DEF RowsAgree
  <1> QED
    BY <1>4, <1>5, <1>6, <1>7

LEMMA SetupsAddUp ==
    ASSUME ResearchIInv, NEW report, report = BaselineReport(data)
    PROVE  report.cancelled \subseteq report.armed /\ report.armed \subseteq report.eligible
  <1>1. \A o \in DOMAIN data.setups :
           /\ data.setups[o].armed => data.setups[o].eligible
           /\ data.setups[o].status = "cancelled" => data.setups[o].armed
    BY SetupIs
  <1>2. /\ report.eligible = {o \in DOMAIN data.setups : data.setups[o].eligible}
        /\ report.armed = {o \in DOMAIN data.setups : data.setups[o].armed}
        /\ report.cancelled = {o \in DOMAIN data.setups : data.setups[o].status = "cancelled"}
    BY DEF BaselineReport, WithStatus
  <1> QED
    BY <1>1, <1>2

\* A window of the pipeline lies within all of them.
LEMMA WindowWithin ==
    ASSUME NEW role \in Roles, NEW t \in Nat, Inside(Windows[role], t)
    PROVE  /\ Windows["development"].start * DayBars <= t
           /\ t < (Windows["final_oos"].end + 1) * DayBars
  <1> DEFINE w == Windows[role]
             all == [start |-> Windows["development"].start, end |-> Windows["final_oos"].end]
             day == t \div DayBars
  <1>1. /\ role \in {"development", "validation", "final_oos"}
        /\ \A r \in {"development", "validation", "final_oos"} :
              /\ Windows[r].start \in Int /\ Windows[r].end \in Int
              /\ Windows[r].start <= Windows[r].end
        /\ Windows["development"].end < Windows["validation"].start
        /\ Windows["validation"].end < Windows["final_oos"].start
    BY EvidenceAssumption DEF WindowsAssumption
  <1>2. /\ all.start \in Int /\ all.end \in Int /\ w.start \in Int /\ w.end \in Int
        /\ all.start <= w.start /\ w.end <= all.end
    BY <1>1
  <1>3. day \in Int /\ w.start <= day /\ day <= w.end
    BY <1>2, InsideIs
  <1>4. all.start <= day /\ day <= all.end
    <2> HIDE DEF day, all, w
    <2> QED
      BY <1>2, <1>3
  <1>5. Inside(all, t)
    <2> HIDE DEF all
    <2> QED
      BY <1>2, <1>4, InsideIs DEF day
  <1> QED
    BY <1>5 DEF Inside

\* What a window report counts.
LEMMA WindowIs ==
    ASSUME NEW d, NEW w, NEW seen, seen = WindowReport(d, w)
    PROVE  /\ seen.observed = {o \in DOMAIN d.setups : Inside(w, d.setups[o].features.decision)}
           /\ seen.opened = {o \in seen.observed : d.setups[o].status = "opened"}
           /\ seen.cancelled = {o \in seen.observed : d.setups[o].status = "cancelled"}
           /\ seen.eligible = {o \in seen.observed : d.setups[o].eligible}
           /\ seen.included = Treated(d, w, "included")
           /\ seen.censored = Treated(d, w, "censored")
           /\ seen.purged_entry_exit = Treated(d, w, "purged_entry_exit")
  BY DEF WindowReport, WithStatus

\* A window's opened setups are its trades of every treatment, and its eligible
\* ones have been opened or cancelled or still wait.
LEMMA WindowAddsUp ==
    ASSUME ResearchIInv, NEW role \in Roles, NEW w, w = Windows[role],
           NEW seen, seen = WindowReport(data, w)
    PROVE  /\ seen.opened = {x.origin : x \in {y \in seen.included \cup seen.censored
                                                     \cup seen.purged_entry_exit :
                                            Inside(w, Decision(data, y))}}
           /\ seen.eligible \ seen.opened
                 = seen.cancelled \cup {o \in seen.observed : data.setups[o].status = "armed"}
           /\ {data.setups[o].features : o \in seen.observed}
                 \subseteq Effective(SetupFeatures(data)).within
  <1> DEFINE T == Trades(data)
             touched == seen.included \cup seen.censored \cup seen.purged_entry_exit
  <1>0. Consistent(tape, now, slot, data)
    BY ConsistentIs
  <1>1. \A o \in DOMAIN data.setups :
           /\ data.setups[o].status \in Statuses
           /\ data.setups[o].eligible <=> data.setups[o].status # "rejected"
           /\ data.setups[o].features.decision = o /\ o \in Nat
           /\ data.setups[o].status = "opened" <=> \E x \in T : x.origin = o
    BY SetupIs
  <1>2. \A x \in T :
           /\ x.origin \in DOMAIN data.setups
           /\ data.setups[x.origin].features.decision = Decision(data, x)
           /\ \/ x.state = "closed" /\ x.exit # None
              \/ x.state = "censored" /\ x.exit = None
    BY <1>0, TradeIs
  <1>3. /\ seen.observed = {o \in DOMAIN data.setups : Inside(w, data.setups[o].features.decision)}
        /\ seen.opened = {o \in seen.observed : data.setups[o].status = "opened"}
        /\ seen.cancelled = {o \in seen.observed : data.setups[o].status = "cancelled"}
        /\ seen.eligible = {o \in seen.observed : data.setups[o].eligible}
        /\ seen.included = {x \in T : Treatment(data, w, x) = "included"}
        /\ seen.censored = {x \in T : Treatment(data, w, x) = "censored"}
        /\ seen.purged_entry_exit = {x \in T : Treatment(data, w, x) = "purged_entry_exit"}
    BY WindowIs DEF Treated
  <1>4. ASSUME NEW x \in T, Inside(w, Decision(data, x))
        PROVE  x \in touched
    <2>1. Treatment(data, w, x) \in {"included", "censored", "purged_entry_exit"}
      BY <1>4 DEF Treatment
    <2> QED
      BY <1>3, <2>1
  <1>5. touched \subseteq T
    BY <1>3
  <1> HIDE DEF T, touched
  <1>6. seen.opened = {x.origin : x \in {y \in touched : Inside(w, Decision(data, y))}}
    <2>1. ASSUME NEW o \in seen.opened
          PROVE  \E x \in touched : Inside(w, Decision(data, x)) /\ x.origin = o
      <3>1. o \in DOMAIN data.setups /\ data.setups[o].status = "opened"
            /\ Inside(w, data.setups[o].features.decision)
        BY <1>3
      <3>2. PICK x \in T : x.origin = o
        BY <1>1, <3>1
      <3>3. Inside(w, Decision(data, x))
        BY <1>2, <3>1, <3>2
      <3> QED
        BY <1>4, <3>2, <3>3
    <2>2. ASSUME NEW x \in touched, Inside(w, Decision(data, x))
          PROVE  x.origin \in seen.opened
      <3>1. x \in T /\ x.origin \in DOMAIN data.setups
            /\ data.setups[x.origin].features.decision = Decision(data, x)
        BY <1>2, <1>5
      <3>2. data.setups[x.origin].status = "opened"
        BY <1>1, <3>1
      <3>3. Inside(w, data.setups[x.origin].features.decision)
        BY <2>2, <3>1
      <3> QED
        BY <1>3, <3>1, <3>2, <3>3
    <2> QED
      BY <2>1, <2>2
  <1>7. seen.eligible \ seen.opened
          = seen.cancelled \cup {o \in seen.observed : data.setups[o].status = "armed"}
    <2>1. \A o \in seen.observed :
             /\ data.setups[o].status \in Statuses
             /\ data.setups[o].eligible <=> data.setups[o].status # "rejected"
      BY <1>1, <1>3
    <2>2. \A o \in seen.observed :
             data.setups[o].eligible /\ data.setups[o].status # "opened"
                <=> data.setups[o].status = "cancelled" \/ data.setups[o].status = "armed"
      BY <2>1 DEF Statuses
    <2> QED
      BY <1>3, <2>2
  <1>8. ASSUME NEW o \in seen.observed
        PROVE  data.setups[o].features \in Effective(SetupFeatures(data)).within
    <2>1. o \in DOMAIN data.setups /\ Inside(w, o) /\ o \in Nat
          /\ data.setups[o].features.decision = o
      BY <1>1, <1>3
    <2>2. /\ Windows["development"].start * DayBars <= o
          /\ o < (Windows["final_oos"].end + 1) * DayBars
      BY <2>1, WindowWithin
    <2>3. data.setups[o].features \in SetupFeatures(data)
      BY <2>1 DEF SetupFeatures
    <2> QED
      BY <2>1, <2>2, <2>3 DEF Effective
  <1> QED
    BY <1>6, <1>7, <1>8 DEF touched

\* compare_candidate asks nothing of a better total that the comparison of the
\* totals does not already imply.
LEMMA ImprovedIsEconomical ==
    ASSUME ResearchIInv, NEW role \in Roles, NEW rows,
           rows = Treated(data, Windows[role], "included"),
           NEW setups, NEW base, base = Metrics(rows, setups, rows),
           NEW kept, kept = Metrics(Kept(rows), setups, rows), Improved(base, kept)
    PROVE  EconomicallyImproved(base, kept)
  <1>1. Consistent(tape, now, slot, data)
    BY ConsistentIs
  <1>2. rows = ClosedTrades(data, Windows[role])
    BY <1>1, SameTrades
  <1>3. IsFiniteSet(rows) /\ \A x \in rows : x.r \in Int
    BY <1>1, <1>2, TradesFinite
  <1>4. Kept(rows) \subseteq rows
    BY DEF Kept
  <1>5. IsFiniteSet(Kept(rows)) /\ \A x \in Kept(rows) : x.r \in Int
    BY <1>3, <1>4, FS_Subset
  <1>6. SumR(rows) \in Int /\ SumR(Kept(rows)) \in Int
    BY <1>3, <1>5, SumAny
  <1>7. base.total = SumR(rows) /\ kept.total = SumR(Kept(rows))
    BY DEF Metrics
  <1>8. /\ BetterExpectancy(base, kept) /\ BetterPerSetup(base, kept)
        /\ NoWorseProfitFactor(base, kept)
    BY DEF Improved
  <1>9. kept.total > base.total
    BY <1>8 DEF BetterPerSetup
  <1>10. base.total <= 0 \/ 10 * kept.total >= 8 * base.total
    BY <1>6, <1>7, <1>9
  <1> QED
    BY <1>8, <1>10 DEF EconomicallyImproved

LEMMA ReportsAlwaysAddUp ==
    ASSUME ResearchIInv, StopsLose
    PROVE  ReportsAddUp
  <1> DEFINE report == BaselineReport(data)
             labelled == {x \in report.closed : ~Unlabelled(x)}
             modes == FailurePartition(labelled)
             seen(w) == WindowReport(data, w)
             base(w) == Metrics(seen(w).included, seen(w).eligible, seen(w).included)
             kept(w) == Metrics(Kept(seen(w).included), seen(w).eligible, seen(w).included)
  <1>1. report.closed = {x \in Trades(data) : x.state = "closed"}
    BY DEF BaselineReport
  <1>2. /\ (FailurePartition(report.closed) = Refused) <=> labelled # report.closed
        /\ modes = TransferFailures(report.closed)
        /\ UNION {modes[label] : label \in FailureModes} = Losses(labelled)
        /\ \A x \in labelled : Cardinality({l \in FailureModes : x \in modes[l]}) <= 1
    <2> DEFINE closed == report.closed
    <2>1. /\ closed = {x \in Trades(data) : x.state = "closed"}
          /\ labelled = {x \in closed : ~Unlabelled(x)}
          /\ modes = FailurePartition(labelled)
      BY <1>1
    <2> HIDE DEF closed, labelled, modes
    <2>2. /\ (FailurePartition(closed) = Refused) <=> labelled # closed
          /\ modes = TransferFailures(closed)
          /\ UNION {modes[label] : label \in FailureModes} = Losses(labelled)
          /\ \A x \in labelled : Cardinality({l \in FailureModes : x \in modes[l]}) <= 1
      BY <2>1, LabelsAddUp
    <2> QED
      BY <2>2 DEF closed
  <1>3. /\ report.missingExcursions = report.censored \cup report.gaps
        /\ report.missingExtension = report.incompletePrefix \cup report.adrUnavailable
        /\ AdrCount(TradeFeatures(data), "available")
              = {x.features : x \in Trades(data) \ report.adrUnavailable}
    BY FlagsAddUp
  <1>4. report.cancelled \subseteq report.armed /\ report.armed \subseteq report.eligible
    BY SetupsAddUp
  <1>5. ASSUME NEW role \in Roles, NEW w, w = Windows[role]
        PROVE  /\ seen(w).opened
                     = {x.origin : x \in {y \in seen(w).included \cup seen(w).censored
                                                \cup seen(w).purged_entry_exit :
                                      Inside(w, Decision(data, y))}}
               /\ seen(w).eligible \ seen(w).opened
                     = seen(w).cancelled
                       \cup {o \in seen(w).observed : data.setups[o].status = "armed"}
               /\ {data.setups[o].features : o \in seen(w).observed}
                     \subseteq Effective(SetupFeatures(data)).within
    BY <1>5, WindowAddsUp
  <1>6. ASSUME NEW role \in Roles, NEW w, w = Windows[role], Improved(base(w), kept(w))
        PROVE  EconomicallyImproved(base(w), kept(w))
    <2> DEFINE rows == seen(w).included
               setups == seen(w).eligible
    <2>1. rows = Treated(data, Windows[role], "included")
      BY <1>6, WindowIs
    <2>2. base(w) = Metrics(rows, setups, rows) /\ kept(w) = Metrics(Kept(rows), setups, rows)
      OBVIOUS
    <2> HIDE DEF rows, setups, base, kept
    <2> QED
      BY <1>6, <2>1, <2>2, ImprovedIsEconomical
  <1>7. (FailurePartition(report.closed) = Refused) = (labelled # report.closed)
    BY <1>2
  <1> HIDE DEF report, labelled, modes, seen, base, kept
  <1>8. \A role \in Roles :
           LET w == Windows[role]
           IN /\ seen(w).opened
                    = {x.origin : x \in {y \in seen(w).included \cup seen(w).censored
                                               \cup seen(w).purged_entry_exit :
                                     Inside(w, Decision(data, y))}}
              /\ seen(w).eligible \ seen(w).opened
                    = seen(w).cancelled
                      \cup {o \in seen(w).observed : data.setups[o].status = "armed"}
              /\ {data.setups[o].features : o \in seen(w).observed}
                    \subseteq Effective(SetupFeatures(data)).within
              /\ Improved(base(w), kept(w)) => EconomicallyImproved(base(w), kept(w))
    BY <1>5, <1>6
  <1> QED
    BY <1>2, <1>3, <1>4, <1>7, <1>8
       DEF ReportsAddUp, report, labelled, modes, seen, base, kept


-----------------------------------------------------------------------------
(* Sums of results that are told apart by their signs.                     *)

LEMMA SumZero ==
    ASSUME NEW S, IsFiniteSet(S), \A x \in S : x.r = 0
    PROVE  SumR(S) = 0
  <1> DEFINE H == {T \in SUBSET S : SumR(T) = 0}
  <1>1. {} \in H
    BY SumIs
  <1>2. ASSUME NEW T \in SUBSET S, T # {}, \A x \in T : T \ {x} \in H
        PROVE  T \in H
    <2>1. IsFiniteSet(T) /\ \A x \in T : x.r \in Int /\ x.r = 0
      BY FS_Subset
    <2>2. PICK x \in T : TRUE
      BY <1>2
    <2>3. SumR(T) = x.r + SumR(T \ {x})
      BY <2>1, SumAny
    <2>4. SumR(T \ {x}) = 0
      BY <1>2
    <2> QED
      BY <2>1, <2>3, <2>4
  <1>3. H \in SUBSET (SUBSET S)
    OBVIOUS
  <1> HIDE DEF H
  <1>4. H = SUBSET S
    BY <1>1, <1>2, <1>3, SetsUpTo
  <1> QED
    BY <1>4 DEF H

LEMMA SumNegative ==
    ASSUME NEW S, IsFiniteSet(S), S # {}, \A x \in S : x.r \in Int /\ x.r < 0
    PROVE  SumR(S) < 0
  <1> DEFINE H == {T \in SUBSET S : T # {} => SumR(T) < 0}
  <1>1. {} \in H
    OBVIOUS
  <1>2. ASSUME NEW T \in SUBSET S, T # {}, \A x \in T : T \ {x} \in H
        PROVE  T \in H
    <2>1. IsFiniteSet(T) /\ \A x \in T : x.r \in Int /\ x.r < 0
      BY FS_Subset
    <2>2. PICK x \in T : TRUE
      BY <1>2
    <2>3. SumR(T) = x.r + SumR(T \ {x})
      BY <2>1, SumAny
    <2>4. IsFiniteSet(T \ {x})
      BY <2>1, FS_Subset
    <2>5. SumR(T \ {x}) \in Int
      BY <2>1, <2>4, SumAny
    <2>6. T \ {x} = {} => SumR(T \ {x}) = 0
      BY SumIs, FS_EmptySet
    <2>7. T \ {x} # {} => SumR(T \ {x}) < 0
      BY <1>2
    <2> QED
      BY <2>1, <2>3, <2>5, <2>6, <2>7
  <1>3. H \in SUBSET (SUBSET S)
    OBVIOUS
  <1> HIDE DEF H
  <1>4. H = SUBSET S
    BY <1>1, <1>2, <1>3, SetsUpTo
  <1> QED
    BY <1>4 DEF H

\* Gains and losses add up to the result.
LEMMA SumSplit ==
    ASSUME NEW S, IsFiniteSet(S), \A x \in S : x.r \in Int
    PROVE  /\ SumR({x \in S : x.r > 0}) \in Int /\ SumR({x \in S : x.r < 0}) \in Int
           /\ SumR({x \in S : x.r > 0}) + SumR({x \in S : x.r < 0}) = SumR(S)
  <1> DEFINE P == {x \in S : x.r > 0}
             N == {x \in S : x.r < 0}
             Z == {x \in S : x.r = 0}
  <1>1. IsFiniteSet(P) /\ IsFiniteSet(N) /\ IsFiniteSet(Z)
    BY FS_Subset
  <1>2. P \cap N = {} /\ (P \cup N) \cap Z = {} /\ (P \cup N) \cup Z = S
    OBVIOUS
  <1>3. \A x \in P \cup N \cup Z : x.r \in Int
    OBVIOUS
  <1>4. \A x \in Z : x.r = 0
    OBVIOUS
  <1> HIDE DEF P, N, Z
  <1>5. IsFiniteSet(P \cup N)
    BY <1>1, FS_Union
  <1>6. SumR(P \cup N) = SumR(P) + SumR(N)
    BY <1>1, <1>2, <1>3, SumUnion
  <1>7. SumR(S) = SumR(P \cup N) + SumR(Z)
    <2>1. SumR((P \cup N) \cup Z) = SumR(P \cup N) + SumR(Z)
      BY <1>1, <1>2, <1>3, <1>5, SumUnion
    <2> QED
      BY <1>2, <2>1
  <1>8. SumR(Z) = 0
    BY <1>1, <1>4, SumZero
  <1>9. SumR(P) \in Int /\ SumR(N) \in Int
    BY <1>1, <1>3, SumAny
  <1> QED
    BY <1>6, <1>7, <1>8, <1>9 DEF P, N

LEMMA ImageFinite ==
    ASSUME NEW S, IsFiniteSet(S), NEW f
    PROVE  IsFiniteSet({f[x] : x \in S})
  <1> DEFINE T == {f[x] : x \in S}
             g == [x \in S |-> f[x]]
  <1>1. g \in Surjection(S, T)
    BY DEF Surjection
  <1> HIDE DEF T, g
  <1>2. IsFiniteSet(T)
    BY <1>1, FS_Surjection
  <1> QED
    BY <1>2 DEF T

\* The sum of rows that carry the results of others.
LEMMA SumMapped ==
    ASSUME NEW A, IsFiniteSet(A), \A x \in A : x.r \in Int,
           NEW f, \A x \in A : f[x].r = x.r, \A x, y \in A : f[x] = f[y] => x = y
    PROVE  SumR({f[x] : x \in A}) = SumR(A)
  <1> DEFINE Image(T) == {f[x] : x \in T}
             H == {T \in SUBSET A : SumR(Image(T)) = SumR(T)}
  <1>1. {} \in H
    <2>1. Image({}) = {}
      OBVIOUS
    <2> QED
      BY <2>1
  <1>2. ASSUME NEW T \in SUBSET A, T # {}, \A x \in T : T \ {x} \in H
        PROVE  T \in H
    <2>1. IsFiniteSet(T) /\ \A x \in T : x.r \in Int
      BY FS_Subset
    <2>2. IsFiniteSet(Image(T))
      BY <2>1, ImageFinite
    <2>3. \A y \in Image(T) : y.r \in Int
      OBVIOUS
    <2>4. PICK x \in T : TRUE
      BY <1>2
    <2>5. SumR(T) = x.r + SumR(T \ {x})
      BY <2>1, SumAny
    <2>6. f[x] \in Image(T) /\ f[x].r = x.r
      OBVIOUS
    <2>7. Image(T) \ {f[x]} = Image(T \ {x})
      OBVIOUS
    <2>8. SumR(Image(T \ {x})) = SumR(T \ {x})
      BY <1>2
    <2> HIDE DEF Image
    <2>9. SumR(Image(T)) = f[x].r + SumR(Image(T) \ {f[x]})
      BY <2>2, <2>3, <2>6, SumAny
    <2> QED
      BY <2>5, <2>6, <2>7, <2>8, <2>9
  <1>3. H \in SUBSET (SUBSET A)
    OBVIOUS
  <1> HIDE DEF H
  <1>4. H = SUBSET A
    BY <1>1, <1>2, <1>3, SetsUpTo
  <1> QED
    BY <1>4 DEF H

-----------------------------------------------------------------------------
(* The records of the attribution.                                         *)

\* A setup leads to one trade.
LEMMA LinkedIs ==
    ASSUME ResearchIInv, NEW x \in Trades(data)
    PROVE  LinkedTo(data, x.origin) = {x}
  <1>1. \A y \in Trades(data) : data.setups[y.origin].trade = y.id
    BY RowsAgreeAlways DEF RowsAgree
  <1>2. \A y, z \in Trades(data) : y.id = z.id => y = z
    BY RowsAgreeAlways DEF RowsAgree, ValidRows
  <1> QED
    BY <1>1, <1>2 DEF LinkedTo

LEMMA SetupsFinite ==
    ASSUME ResearchIInv
    PROVE  IsFiniteSet(DOMAIN data.setups)
  <1>1. Consistent(tape, now, slot, data) /\ TapeOK(tape, now)
    BY ConsistentIs DEF Consistent
  <1>2. data.setups = Collected(tape).setups
    BY <1>1, DataIs
  <1> DEFINE f == [i \in DOMAIN tape |-> Finalized(tape[i])]
             T == {f[i] : i \in DOMAIN tape}
  <1>3. \A o \in DOMAIN data.setups : \E i \in DOMAIN tape : Finalized(tape[i]) = o
    BY <1>1, <1>2 DEF Consistent, BookOK, SetupOK
  <1>4. DOMAIN data.setups \subseteq T
    BY <1>3
  <1>5. IsFiniteSet(DOMAIN tape)
    <2>1. Len(tape) \in Nat /\ DOMAIN tape = 1..Len(tape)
      BY <1>1 DEF TapeOK
    <2> QED
      BY <2>1, FS_Interval
  <1>6. IsFiniteSet(T)
    <2> HIDE DEF f
    <2> QED
      BY <1>5, ImageFinite
  <1> HIDE DEF T
  <1> QED
    BY <1>4, <1>6, FS_Subset

\* A record has the trade of its setup, and every trade has its record.
LEMMA RecordIs ==
    ASSUME ResearchIInv, NEW records, records = Records(data, tape)
    PROVE  /\ \A r \in records :
                 /\ r.setup \in DOMAIN data.setups
                 /\ r.trades \subseteq Trades(data)
                 /\ \A x \in r.trades : r.trades = {x} /\ TradeOf(r) = x /\ x.origin = r.setup
           /\ \A x \in Trades(data) : \E r \in records : r.trades = {x} /\ r.setup = x.origin
           /\ \A r, s \in records : r.setup = s.setup => r = s
           /\ IsFiniteSet(records)
  <1> DEFINE S == {o \in DOMAIN data.setups : data.setups[o].eligible}
             f == [o \in S |-> [setup |-> o, trades |-> LinkedTo(data, o),
                                feature |-> RegimeRow(tape, data.setups[o])]]
  <1>1. records = {f[o] : o \in S}
    BY DEF Records
  <1>2. \A o \in S : f[o].setup = o /\ f[o].trades = LinkedTo(data, o)
    OBVIOUS
  <1>3. IsFiniteSet(S)
    BY SetupsFinite, FS_Subset
  <1>4. \A x \in Trades(data) : x.origin \in S
    BY ConsistentIs, TradeIs
  <1>5. S \subseteq DOMAIN data.setups
    OBVIOUS
  <1> HIDE DEF S, f
  <1>6. IsFiniteSet(records)
    BY <1>1, <1>3, ImageFinite
  <1>7. ASSUME NEW r \in records
        PROVE  /\ r.setup \in DOMAIN data.setups
               /\ r.trades \subseteq Trades(data)
               /\ \A x \in r.trades : r.trades = {x} /\ TradeOf(r) = x /\ x.origin = r.setup
    <2>1. PICK o \in S : r = f[o]
      BY <1>1
    <2>2. r.setup = o /\ r.trades = LinkedTo(data, o)
      BY <1>2, <2>1
    <2>3. \A x \in r.trades : x \in Trades(data) /\ x.origin = o
      BY <2>2 DEF LinkedTo
    <2>4. ASSUME NEW x \in r.trades
          PROVE  r.trades = {x} /\ TradeOf(r) = x
      <3>1. r.trades = {x}
        BY <2>2, <2>3, LinkedIs
      <3> QED
        BY <3>1 DEF TradeOf
    <2> QED
      BY <1>5, <2>2, <2>3, <2>4
  <1>8. ASSUME NEW x \in Trades(data)
        PROVE  \E r \in records : r.trades = {x} /\ r.setup = x.origin
    <2>1. f[x.origin] \in records /\ f[x.origin].setup = x.origin
      BY <1>1, <1>2, <1>4
    <2>2. f[x.origin].trades = {x}
      BY <1>2, <1>4, LinkedIs
    <2> QED
      BY <2>1, <2>2
  <1>9. ASSUME NEW r \in records, NEW s \in records, r.setup = s.setup
        PROVE  r = s
    BY <1>1, <1>2, <1>9
  <1> QED
    BY <1>6, <1>7, <1>8, <1>9

\* The trades of some records, and the closed ones among them.
LEMMA TradesOfIs ==
    ASSUME ResearchIInv, NEW R, R \subseteq Records(data, tape)
    PROVE  /\ IsFiniteSet(R)
           /\ \A r \in ClosedRecords(R) :
                 /\ r \in R /\ r.trades # {} /\ TradeOf(r) \in Trades(data)
                 /\ r.trades = {TradeOf(r)} /\ TradeOf(r).state = "closed"
           /\ TradesOf(R) = {TradeOf(r) : r \in OpenedRecords(R)}
           /\ TradesOf(R) \subseteq Trades(data)
           /\ TradesOf(ClosedRecords(R)) = {x \in TradesOf(R) : x.state = "closed"}
           /\ TradesOf(ClosedRecords(R)) = {TradeOf(r) : r \in ClosedRecords(R)}
           /\ IsFiniteSet(TradesOf(R))
           /\ IsFiniteSet(TradesOf(ClosedRecords(R)))
           /\ \A x \in TradesOf(ClosedRecords(R)) : x.r \in Int
  <1> DEFINE records == Records(data, tape)
             O == OpenedRecords(R)
             C == ClosedRecords(R)
  <1>1. /\ \A r \in records : r.trades \subseteq Trades(data)
        /\ \A r \in records : \A x \in r.trades : r.trades = {x} /\ TradeOf(r) = x
        /\ IsFiniteSet(records)
    BY RecordIs
  <1>2. IsFiniteSet(R)
    BY <1>1, FS_Subset
  <1> HIDE DEF records
  <1>3. \A r \in R : r.trades # {} => r.trades = {TradeOf(r)} /\ TradeOf(r) \in Trades(data)
    BY <1>1 DEF records
  <1>4. O = {r \in R : r.trades # {}} /\ C = {r \in R : r.trades # {} /\ TradeOf(r).state = "closed"}
    BY DEF OpenedRecords, ClosedRecords
  <1> HIDE DEF O, C
  <1>5. TradesOf(R) = {TradeOf(r) : r \in O} /\ TradesOf(C) = {TradeOf(r) : r \in C}
    BY <1>3, <1>4 DEF TradesOf
  <1>6. TradesOf(R) \subseteq Trades(data)
    BY <1>3, <1>4, <1>5
  <1>7. TradesOf(C) = {x \in TradesOf(R) : x.state = "closed"}
    BY <1>4, <1>5
  <1>8. \A x \in Trades(data) : x.state = "closed" => x.r \in Int
    BY ConsistentIs, ResultIs
  <1>9. IsFiniteSet(TradesOf(R)) /\ IsFiniteSet(TradesOf(C))
    <2>1. IsFiniteSet(Trades(data))
      BY ConsistentIs, TradesFinite
    <2> QED
      BY <1>6, <1>7, <2>1, FS_Subset
  <1>10. \A r \in C : /\ r \in R /\ r.trades # {} /\ TradeOf(r) \in Trades(data)
                      /\ r.trades = {TradeOf(r)} /\ TradeOf(r).state = "closed"
    BY <1>3, <1>4
  <1> QED
    BY <1>2, <1>5, <1>6, <1>7, <1>8, <1>9, <1>10 DEF O, C

LEMMA BridgeHolds ==
    ASSUME ResearchIInv, NEW records, records = Records(data, tape)
    PROVE  Bridged(data, records)
  <1> DEFINE Closing(R) == {x \in TradesOf(R) : x.state = "closed"}
             I == {r \in records : PathBucket(data, r) = "immediate_opened"}
             A == {r \in records : PathBucket(data, r) = "armed_opened"}
  <1>1. ASSUME NEW R, R \subseteq records
        PROVE  /\ IsFiniteSet(TradesOf(R)) /\ IsFiniteSet(Closing(R))
               /\ \A x \in Closing(R) : x.r \in Int
               /\ PopulationOf(R).opened = Cardinality(TradesOf(R))
               /\ PopulationOf(R).closed = Cardinality(Closing(R))
               /\ PopulationOf(R).total = SumR(Closing(R))
               /\ PopulationOf(R).positive = SumR({x \in Closing(R) : x.r > 0})
               /\ PopulationOf(R).negative = 0 - SumR({x \in Closing(R) : x.r < 0})
    <2>1. /\ TradesOf(ClosedRecords(R)) = Closing(R)
          /\ IsFiniteSet(TradesOf(R)) /\ IsFiniteSet(Closing(R))
          /\ \A x \in Closing(R) : x.r \in Int
      BY <1>1, TradesOfIs
    <2> HIDE DEF Closing
    <2> QED
      BY <2>1 DEF PopulationOf
  <1>2. \A r \in records :
           /\ r.setup \in DOMAIN data.setups /\ r.trades \subseteq Trades(data)
           /\ \A x \in r.trades : r.trades = {x} /\ x.origin = r.setup
    BY RecordIs
  <1>3. \A r, s \in records : r.setup = s.setup => r = s
    BY RecordIs
  <1>4. \A r \in records : r.trades # {} => (r \in I \/ r \in A) /\ ~(r \in I /\ r \in A)
    <2> SUFFICES ASSUME NEW r \in records, r.trades # {}
                 PROVE  (r \in I \/ r \in A) /\ ~(r \in I /\ r \in A)
      OBVIOUS
    <2>1. data.setups[r.setup].armed \in BOOLEAN
      BY <1>2, SetupIs
    <2>2. CASE data.setups[r.setup].armed
      <3>1. PathBucket(data, r) = "armed_opened"
        BY <2>2 DEF PathBucket
      <3> QED
        BY <3>1
    <2>3. CASE ~data.setups[r.setup].armed
      <3>1. PathBucket(data, r) = "immediate_opened"
        BY <2>3 DEF PathBucket
      <3> QED
        BY <3>1
    <2> QED
      BY <2>1, <2>2, <2>3
  <1>5. I \subseteq records /\ A \subseteq records
    OBVIOUS
  <1> HIDE DEF I, A
  <1>6. TradesOf(records) = TradesOf(I) \cup TradesOf(A) /\ TradesOf(I) \cap TradesOf(A) = {}
    <2>1. \A r, s \in records : \A x \in r.trades : x \in s.trades => r = s
      BY <1>2, <1>3
    <2>2. TradesOf(records) = TradesOf(I) \cup TradesOf(A)
      BY <1>4, <1>5 DEF TradesOf
    <2>3. TradesOf(I) \cap TradesOf(A) = {}
      BY <1>4, <1>5, <2>1 DEF TradesOf
    <2> QED
      BY <2>2, <2>3
  <1>7. /\ Closing(records) = Closing(I) \cup Closing(A)
        /\ Closing(I) \cap Closing(A) = {}
    BY <1>6
  <1>8. /\ IsFiniteSet(TradesOf(I)) /\ IsFiniteSet(TradesOf(A))
        /\ IsFiniteSet(Closing(I)) /\ IsFiniteSet(Closing(A)) /\ IsFiniteSet(Closing(records))
        /\ \A x \in Closing(I) \cup Closing(A) : x.r \in Int
        /\ \A x \in Closing(records) : x.r \in Int
    BY <1>1, <1>5
  <1> HIDE DEF Closing
  <1>9. Cardinality(TradesOf(records)) = Cardinality(TradesOf(I)) + Cardinality(TradesOf(A))
    <2>1. Cardinality(TradesOf(I) \cap TradesOf(A)) = 0
      BY <1>6, FS_EmptySet
    <2>2. Cardinality(TradesOf(I)) \in Nat /\ Cardinality(TradesOf(A)) \in Nat
      BY <1>8, FS_CardinalityType
    <2> DEFINE i == TradesOf(I)
               a == TradesOf(A)
    <2>3. IsFiniteSet(i) /\ IsFiniteSet(a)
      BY <1>8
    <2> HIDE DEF i, a
    <2>4. Cardinality(i \cup a) = Cardinality(i) + Cardinality(a) - Cardinality(i \cap a)
      BY <2>3, FS_Union
    <2>5. Cardinality(i \cup a) = Cardinality(i) + Cardinality(a)
      BY <2>1, <2>2, <2>4 DEF i, a
    <2> QED
      BY <1>6, <2>5 DEF i, a
  <1>10. /\ SumR(Closing(records)) = SumR(Closing(I)) + SumR(Closing(A))
         /\ Cardinality(Closing(records)) = Cardinality(Closing(I)) + Cardinality(Closing(A))
    BY <1>7, <1>8, SumUnion
  <1> DEFINE pos == SumR({x \in Closing(records) : x.r > 0})
             neg == SumR({x \in Closing(records) : x.r < 0})
  <1>11. pos \in Int /\ neg \in Int /\ pos + neg = SumR(Closing(records))
    BY <1>8, SumSplit
  <1>12. /\ PopulationOf(records).opened = Cardinality(TradesOf(records))
         /\ PopulationOf(records).closed = Cardinality(Closing(records))
         /\ PopulationOf(records).total = SumR(Closing(records))
         /\ PopulationOf(records).positive = pos /\ PopulationOf(records).negative = 0 - neg
    BY <1>1
  <1>13. \A R \in {I, A} : /\ PopulationOf(R).opened = Cardinality(TradesOf(R))
                           /\ PopulationOf(R).closed = Cardinality(Closing(R))
                           /\ PopulationOf(R).total = SumR(Closing(R))
    BY <1>1, <1>5
  <1> HIDE DEF pos, neg
  <1>14. pos - (0 - neg) = SumR(Closing(records))
    BY <1>11
  <1>15. /\ PopulationOf(records).positive - PopulationOf(records).negative
              = PopulationOf(records).total
         /\ PopulationOf(I).opened + PopulationOf(A).opened = PopulationOf(records).opened
         /\ PopulationOf(I).closed + PopulationOf(A).closed = PopulationOf(records).closed
         /\ PopulationOf(I).total + PopulationOf(A).total = PopulationOf(records).total
    BY <1>9, <1>10, <1>12, <1>13, <1>14
  <1> QED
    BY <1>15 DEF Bridged, I, A

\* The reasons of an exit are known.
LEMMA ExitIsKnown ==
    ASSUME ResearchIInv, NEW x \in Trades(data), x.state = "closed"
    PROVE  /\ ExitBucket(x) # "other_or_missing"
           /\ x.observed \in Nat
  <1>0. Consistent(tape, now, slot, data)
    BY ConsistentIs
  <1>1. PICK k \in DOMAIN data.trades : x = data.trades[k]
    BY <1>0, DataIs
  <1> DEFINE e == Collected(tape).entries[k]
             o == OutcomeOf(tape, e)
  <1>2. x = TradeRow(tape, e) /\ (Closes(tape, k) = {} => x.state = "censored")
    BY <1>0, <1>1, RowOf
  <1>3. PICK close \in Closes(tape, k) : TRUE
    BY <1>2
  <1>4. o = Outcome(tape, e, close[1], close[2]) /\ e.at \in DOMAIN tape
        /\ close[1] \in DOMAIN tape /\ e.at < close[1]
    BY <1>0, <1>1, <1>3, RowOf
  <1>5. /\ x = Join(Entered(e, EntryFeatures(tape, e.at, e.trade.side), o), o)
        /\ DOMAIN o = OutcomeFields
    BY <1>2, RowFromParts, OutcomeIs
  <1>6. /\ o.reasons = close[2].reasons /\ o.observed = close[1] - e.at
        /\ o.stopHit = ("exit_stop" \in Range(close[2].reasons))
    BY <1>4 DEF Outcome
  <1>7. EventsOK(tape, Collected(tape).entries, slot) /\ tape \in Seq(Bars)
    BY <1>0 DEF Consistent, TapeOK
  <1>8. close[2].reasons \in Seq(Reasons) /\ close[2].reasons # <<>>
    BY <1>3, <1>7, ClosesIs
  <1>9. o.observed \in Nat
    <2>1. DOMAIN tape \subseteq Nat
      BY <1>7
    <2> QED
      BY <1>4, <1>6, <2>1
  <1> DEFINE rs == close[2].reasons
             hit == "exit_stop" \in Range(rs)
             strategy == \E reason \in Range(rs) : reason # "exit_stop"
  <1> HIDE DEF e, o
  <1>10. x.reasons = rs /\ x.stopHit = hit /\ x.observed = o.observed
    BY <1>5, <1>6, Joined
  <1>11. Range(rs) # {}
    <2>1. 1 \in DOMAIN rs
      BY <1>8
    <2> QED
      BY <2>1 DEF Range
  <1>12. hit \/ strategy
    BY <1>11
  <1>13. hit \in BOOLEAN /\ strategy \in BOOLEAN
    OBVIOUS
  <1>14. ExitBucket(x) = CASE x.stopHit /\ ~strategy -> "stop_only"
                           [] ~x.stopHit /\ strategy -> "strategy_only"
                           [] x.stopHit /\ strategy -> "stop_and_strategy_same_bar"
                           [] OTHER -> "other_or_missing"
    BY <1>10 DEF ExitBucket
  <1> HIDE DEF rs, hit, strategy
  <1>15. ExitBucket(x) \in {"stop_only", "strategy_only", "stop_and_strategy_same_bar"}
    BY <1>10, <1>12, <1>13, <1>14
  <1> QED
    BY <1>9, <1>10, <1>15

\* A window reconciles with the baseline report unless it has no loss or an open
\* trade whose setup lies outside.
LEMMA WindowIsReconciled ==
    ASSUME ResearchIInv, NEW records, records = Records(data, tape), NEW w
    PROVE  WindowReconciles(data, records, w)
             = (~StrayCensored(w) /\ Losses(ClosedTrades(data, w)) # {})
  <1> DEFINE inside == {r \in ClosedRecords(records) :
                           /\ Inside(w, Decision(data, TradeOf(r)))
                           /\ Inside(w, TradeOf(r).features.decision)
                           /\ Inside(w, TradeOf(r).exit)}
             item == PopulationOf(inside)
             frozen == WindowReport(data, w)
             observed == {o \in DOMAIN data.setups : Inside(w, data.setups[o].features.decision)}
             rows == ClosedTrades(data, w)
             entering == {x \in Trades(data) : x.state = "censored"
                                               /\ Inside(w, x.features.decision)}
             lost == {x \in rows : x.r < 0}
  <1>0. Consistent(tape, now, slot, data)
    BY ConsistentIs
  <1>1. /\ observed = frozen.observed
        /\ {o \in observed : data.setups[o].eligible} = frozen.eligible
        /\ {o \in observed : data.setups[o].status = "opened"} = frozen.opened
        /\ frozen.included = rows /\ frozen.censored = Treated(data, w, "censored")
    <2>1. /\ frozen.observed = observed
          /\ frozen.opened = {o \in frozen.observed : data.setups[o].status = "opened"}
          /\ frozen.eligible = {o \in frozen.observed : data.setups[o].eligible}
          /\ frozen.included = Treated(data, w, "included")
          /\ frozen.censored = Treated(data, w, "censored")
      BY WindowIs
    <2>2. rows = Treated(data, w, "included")
      BY <1>0, SameTrades
    <2> HIDE DEF frozen, observed, rows
    <2> QED
      BY <2>1, <2>2
  <1>2. /\ inside \subseteq records /\ ClosedRecords(inside) = inside
        /\ TradesOf(ClosedRecords(inside)) = rows
    <2>1. /\ \A r \in ClosedRecords(records) :
                /\ r \in records /\ r.trades # {} /\ TradeOf(r) \in Trades(data)
                /\ r.trades = {TradeOf(r)} /\ TradeOf(r).state = "closed"
      BY TradesOfIs
    <2>2. inside \subseteq records
      BY <2>1
    <2>3. ClosedRecords(inside) = inside
      BY <2>1 DEF ClosedRecords, OpenedRecords
    <2>4. TradesOf(ClosedRecords(inside)) = {TradeOf(r) : r \in inside}
      BY <2>2, <2>3, TradesOfIs
    <2>5. ASSUME NEW x \in rows
          PROVE  \E r \in inside : TradeOf(r) = x
      <3>1. /\ x \in Trades(data) /\ x.state = "closed" /\ Inside(w, Decision(data, x))
            /\ Inside(w, x.features.decision) /\ Inside(w, x.exit)
        BY DEF ClosedTrades
      <3>2. PICK r \in records : r.trades = {x}
        BY <3>1, RecordIs
      <3>3. TradeOf(r) = x
        BY <3>2 DEF TradeOf
      <3>4. r \in ClosedRecords(records)
        BY <3>1, <3>2, <3>3 DEF ClosedRecords, OpenedRecords
      <3> QED
        BY <3>1, <3>3, <3>4
    <2>6. \A r \in inside : TradeOf(r) \in rows
      BY <2>1 DEF ClosedTrades
    <2>7. {TradeOf(r) : r \in inside} = rows
      BY <2>5, <2>6
    <2> QED
      BY <2>2, <2>3, <2>4, <2>7
  <1>3. IsFiniteSet(rows) /\ \A x \in rows : x.r \in Int
    BY <1>0, TradesFinite
  <1>4. /\ item.closed = Cardinality(rows) /\ item.total = SumR(rows)
        /\ item.negative = 0 - SumR(lost)
    <2> HIDE DEF inside, rows
    <2> QED
      BY <1>2 DEF PopulationOf
  <1>5. Cardinality(entering) = Cardinality(Treated(data, w, "censored")) <=> ~StrayCensored(w)
    <2> DEFINE C == Treated(data, w, "censored")
    <2>1. \A x \in Trades(data) :
             \/ x.state = "closed" /\ x.exit # None
             \/ x.state = "censored" /\ x.exit = None
      BY <1>0, TradeIs
    <2>2. \A x \in Trades(data) :
             Treatment(data, w, x) = "censored"
               <=> /\ x.state = "censored" /\ Inside(w, Decision(data, x))
                   /\ Inside(w, x.features.decision)
      BY <2>1 DEF Treatment
    <2>3. C = {x \in entering : Inside(w, Decision(data, x))}
      BY <2>2 DEF Treated
    <2>4. IsFiniteSet(entering)
      <3>1. IsFiniteSet(Trades(data))
        BY <1>0, TradesFinite
      <3> QED
        BY <3>1, FS_Subset
    <2>5. StrayCensored(w) <=> \E x \in entering : ~Inside(w, Decision(data, x))
      BY DEF StrayCensored
    <2> HIDE DEF entering, C
    <2>6. C \subseteq entering
      BY <2>3
    <2>7. Cardinality(entering) = Cardinality(C) <=> entering = C
      BY <2>4, <2>6, FS_Subset
    <2> QED
      BY <2>3, <2>5, <2>7 DEF C
  <1>6. item.closed > 0 /\ item.negative > 0 <=> lost # {}
    <2>1. IsFiniteSet(lost) /\ \A x \in lost : x.r \in Int /\ x.r < 0
      BY <1>3, FS_Subset
    <2>2. SumR(lost) \in Int
      BY <2>1, SumAny
    <2>3. lost = {} => SumR(lost) = 0
      BY SumIs, FS_EmptySet
    <2>4. lost # {} => SumR(lost) < 0
      BY <2>1, SumNegative
    <2>5. lost # {} => Cardinality(rows) > 0
      <3>1. lost # {} => rows # {}
        OBVIOUS
      <3> HIDE DEF rows, lost
      <3>2. Cardinality(rows) \in Nat /\ (Cardinality(rows) = 0 <=> rows = {})
        BY <1>3, FS_EmptySet, FS_CardinalityType
      <3> QED
        BY <3>1, <3>2
    <2> HIDE DEF lost, item, rows
    <2> QED
      BY <1>4, <2>2, <2>3, <2>4, <2>5
  <1>7. lost = Losses(rows)
    BY DEF Losses
  <1> HIDE DEF inside, item, frozen, observed, rows, entering, lost
  <1>8. WindowReconciles(data, records, w)
          = (/\ observed = frozen.observed
             /\ {o \in observed : data.setups[o].eligible} = frozen.eligible
             /\ {o \in observed : data.setups[o].status = "opened"} = frozen.opened
             /\ item.closed = Cardinality(frozen.included)
             /\ item.total = SumR(frozen.included)
             /\ Cardinality(entering) = Cardinality(frozen.censored)
             /\ item.closed > 0 /\ item.negative > 0)
    BY DEF WindowReconciles, inside, item, frozen, observed, rows, entering
  <1>9. StrayCensored(w) \in BOOLEAN
    BY DEF StrayCensored
  <1>10. WindowReconciles(data, records, w) <=> ~StrayCensored(w) /\ lost # {}
    BY <1>1, <1>4, <1>5, <1>6, <1>8
  <1>11. WindowReconciles(data, records, w) = (~StrayCensored(w) /\ lost # {})
    BY <1>8, <1>9, <1>10
  <1> QED
    BY <1>7, <1>11 DEF rows

LEMMA CountMapped ==
    ASSUME NEW A, IsFiniteSet(A), NEW f, \A x, y \in A : f[x] = f[y] => x = y
    PROVE  Cardinality({f[x] : x \in A}) = Cardinality(A)
  <1> DEFINE B == {f[x] : x \in A}
             g == [x \in A |-> f[x]]
  <1>1. g \in Bijection(A, B)
    BY DEF Bijection, Injection, Surjection, IsInjective
  <1> HIDE DEF g, B
  <1>2. ExistsBijection(A, B)
    BY <1>1 DEF ExistsBijection
  <1>3. Cardinality(B) = Cardinality(A)
    BY <1>2, FS_Bijection
  <1> QED
    BY <1>3 DEF B

\* A table whose labels divide a universe of records exhausts it and reconciles.
LEMMA TableIsSound ==
    ASSUME ResearchIInv, NEW U, U \subseteq Records(data, tape), NEW labels, NEW c,
           \A r \in U : c[r] \in labels,
           NEW table, table = TableOf(U, labels, c)
    PROVE  Exhaustive(table) /\ CrossTabReconciles(table)
  <1> DEFINE B(l) == {r \in U : c[r] = l}
             g == [r \in U |-> <<c[r], r>>]
             period(r) == r.setup \div DayBars
             closed(r) == r.trades # {} /\ TradeOf(r).state = "closed"
             entries == UNION {{<<b.label, r>> : r \in b.records} : b \in table.buckets}
             Counted(d) == {e \in entries : period(e[2]) = d}
             Closing(d) == {e \in Counted(d) : closed(e[2])}
             Within(d) == {r \in table.universe : period(r) = d}
             Won(d) == {r \in Within(d) : closed(r)}
             Reconciled(d) ==
                 /\ Cardinality(Counted(d)) = Cardinality(Within(d))
                 /\ Cardinality(Closing(d)) = Cardinality(Won(d))
                 /\ SumR({[of |-> e, r |-> TradeOf(e[2]).r] : e \in Closing(d)})
                       = SumR(TradesOf(Won(d)))
  <1>1. table.universe = U /\ table.buckets = {[label |-> l, records |-> B(l)] : l \in labels}
    <2>1. ASSUME NEW l
          PROVE  {x[2] : x \in {y \in {<<c[r], r>> : r \in U} : y[1] = l}} = B(l)
      <3> DEFINE P == {y \in {<<c[r], r>> : r \in U} : y[1] = l}
      <3>1. \A y \in P : \E r \in U : y = <<c[r], r>> /\ y[1] = l
        OBVIOUS
      <3>2. \A y \in P : y[2] \in B(l)
        BY <3>1
      <3>3. \A r \in B(l) : <<c[r], r>> \in P /\ <<c[r], r>>[2] = r
        OBVIOUS
      <3> HIDE DEF P, B
      <3>4. {x[2] : x \in P} = B(l)
        BY <3>2, <3>3
      <3> QED
        BY <3>4 DEF P
    <2> HIDE DEF B
    <2> QED
      BY <2>1 DEF TableOf
  <1>2. UNION {b.records : b \in table.buckets} = U
    <2>1. \A b \in table.buckets : b.records \subseteq U
      BY <1>1
    <2>2. ASSUME NEW r \in U
          PROVE  \E b \in table.buckets : r \in b.records
      <3>1. [label |-> c[r], records |-> B(c[r])] \in table.buckets
        BY <1>1
      <3>2. r \in B(c[r])
        OBVIOUS
      <3> QED
        BY <3>1, <3>2
    <2> QED
      BY <2>1, <2>2
  <1>3. entries = {g[r] : r \in U}
    <2>1. ASSUME NEW e \in entries
          PROVE  \E r \in U : e = g[r]
      <3>1. PICK b \in table.buckets : e \in {<<b.label, r>> : r \in b.records}
        OBVIOUS
      <3>2. PICK l \in labels : b = [label |-> l, records |-> B(l)]
        BY <1>1
      <3>3. b.label = l /\ b.records = B(l)
        BY <3>2
      <3>4. PICK r \in B(l) : e = <<l, r>>
        BY <3>1, <3>3
      <3> QED
        BY <3>4
    <2>2. ASSUME NEW r \in U
          PROVE  g[r] \in entries
      <3> DEFINE b == [label |-> c[r], records |-> B(c[r])]
      <3>1. b \in table.buckets
        BY <1>1
      <3>2. r \in b.records /\ b.label = c[r] /\ g[r] = <<c[r], r>>
        OBVIOUS
      <3>3. g[r] \in {<<b.label, s>> : s \in b.records}
        BY <3>2
      <3> HIDE DEF b
      <3> QED
        BY <3>1, <3>3
    <2> HIDE DEF entries, g
    <2> QED
      BY <2>1, <2>2
  <1>4. \A r \in U : g[r][2] = r
    OBVIOUS
  <1>5. \A r, s \in U : g[r] = g[s] => r = s
    BY <1>4
  <1>6. /\ IsFiniteSet(U)
        /\ \A r, s \in U : r.setup = s.setup => r = s
        /\ \A r \in U : /\ r.trades \subseteq Trades(data)
                        /\ \A x \in r.trades :
                              r.trades = {x} /\ TradeOf(r) = x /\ x.origin = r.setup
    <2>1. IsFiniteSet(U)
      BY TradesOfIs
    <2>2. PICK all : all = Records(data, tape)
      OBVIOUS
    <2>3. U \subseteq all
      BY <2>2
    <2>4. /\ \A r, s \in all : r.setup = s.setup => r = s
          /\ \A r \in all : /\ r.trades \subseteq Trades(data)
                            /\ \A x \in r.trades :
                                  r.trades = {x} /\ TradeOf(r) = x /\ x.origin = r.setup
      BY <2>2, RecordIs
    <2> QED
      BY <2>1, <2>3, <2>4
  <1> HIDE DEF B, g, entries
  <1>7. ASSUME NEW d
        PROVE  Reconciled(d)
    <2> DEFINE records == Within(d)
               trades == Won(d)
               counted == Counted(d)
               closing == Closing(d)
    <2>0. /\ records = {r \in U : period(r) = d} /\ trades = {r \in records : closed(r)}
          /\ counted = {e \in entries : period(e[2]) = d}
          /\ closing = {e \in counted : closed(e[2])}
      BY <1>1
    <2> HIDE DEF records, trades, counted, closing
    <2>1. counted = {g[r] : r \in records}
      BY <1>3, <1>4, <2>0
    <2>2. closing = {g[r] : r \in trades}
      <3>1. \A r \in records : g[r][2] = r
        BY <1>4, <2>0
      <3> HIDE DEF closed
      <3> QED
        BY <2>0, <2>1, <3>1
    <2>3. records \subseteq U /\ trades \subseteq U
      BY <2>0
    <2>4. IsFiniteSet(records) /\ IsFiniteSet(trades)
      BY <1>6, <2>3, FS_Subset
    <2>5. Cardinality(counted) = Cardinality(records)
      BY <1>5, <2>1, <2>3, <2>4, CountMapped
    <2>6. Cardinality(closing) = Cardinality(trades)
      BY <1>5, <2>2, <2>3, <2>4, CountMapped
    <2> DEFINE X == TradesOf(trades)
               R(x) == CHOOSE r \in trades : x \in r.trades
               f == [x \in X |-> [of |-> g[R(x)], r |-> x.r]]
    <2>7. \A r \in trades : r.trades = {TradeOf(r)} /\ TradeOf(r) \in Trades(data)
                            /\ TradeOf(r).origin = r.setup
      BY <1>6, <2>0, <2>3
    <2>8. X = {TradeOf(r) : r \in trades}
      BY <2>7 DEF TradesOf
    <2>9. \A r \in trades : R(TradeOf(r)) = r
      <3> SUFFICES ASSUME NEW r \in trades
                   PROVE  R(TradeOf(r)) = r
        OBVIOUS
      <3>1. \A s \in trades : TradeOf(r) \in s.trades => s = r
        BY <1>6, <2>3, <2>7
      <3>2. TradeOf(r) \in r.trades
        BY <2>7
      <3> QED
        BY <3>1, <3>2
    <2>10. IsFiniteSet(X) /\ \A x \in X : x.r \in Int
      <3>1. trades \subseteq Records(data, tape)
        BY <2>3
      <3>2. ClosedRecords(trades) = trades
        BY <2>0 DEF ClosedRecords, OpenedRecords
      <3> QED
        BY <3>1, <3>2, TradesOfIs
    <2> HIDE DEF R, X
    <2>11. \A x \in X : f[x].r = x.r /\ f[x].of = g[R(x)]
      OBVIOUS
    <2>12. \A x, y \in X : f[x] = f[y] => x = y
      <3> SUFFICES ASSUME NEW x \in X, NEW y \in X, f[x] = f[y]
                   PROVE  x = y
        OBVIOUS
      <3>1. g[R(x)] = g[R(y)]
        BY <2>11
      <3>2. PICK r \in trades, s \in trades : x = TradeOf(r) /\ y = TradeOf(s)
        BY <2>8
      <3>3. R(x) = r /\ R(y) = s
        BY <2>9, <3>2
      <3>4. r = s
        BY <1>5, <2>3, <3>1, <3>3
      <3> QED
        BY <3>2, <3>4
    <2>13. SumR({f[x] : x \in X}) = SumR(X)
      <3> HIDE DEF f
      <3> QED
        BY <2>10, <2>11, <2>12, SumMapped
    <2>14. {[of |-> e, r |-> TradeOf(e[2]).r] : e \in closing} = {f[x] : x \in X}
      <3>1. \A r \in trades : /\ g[r][2] = r
                              /\ TradeOf(r) \in X
                              /\ f[TradeOf(r)] = [of |-> g[r], r |-> TradeOf(r).r]
        BY <1>4, <2>3, <2>8, <2>9
      <3> DEFINE h(e) == [of |-> e, r |-> TradeOf(e[2]).r]
      <3>2. \A r \in trades : h(g[r]) = f[TradeOf(r)] /\ g[r] \in closing
        BY <2>2, <3>1
      <3> HIDE DEF f, h
      <3>3. \A r \in trades : TradeOf(r) \in X
        BY <3>1
      <3>4. ASSUME NEW e \in closing
            PROVE  \E x \in X : h(e) = f[x]
        <4>1. PICK r \in trades : e = g[r]
          BY <2>2
        <4> QED
          BY <3>2, <3>3, <4>1
      <3>5. \A x \in X : \E e \in closing : h(e) = f[x]
        BY <2>8, <3>2
      <3>6. {h(e) : e \in closing} = {f[x] : x \in X}
        BY <3>4, <3>5
      <3> QED
        BY <3>6 DEF h
    <2> QED
      BY <2>5, <2>6, <2>13, <2>14 DEF X, records, trades, counted, closing
  <1>8. Exhaustive(table)
    BY <1>1, <1>2 DEF Exhaustive
  <1>9. CrossTabReconciles(table)
    <2> HIDE DEF entries, Reconciled
    <2>1. \A es \in {entries} : \A d \in {period(r) : r \in table.universe} : Reconciled(d)
      BY <1>7
    <2> QED
      BY <2>1, ZenonT(60) DEF CrossTabReconciles, Reconciled, entries, SumOver
  <1> QED
    BY <1>8, <1>9

\* The labels of the attribution's tables.
LEMMA AgeIs ==
    ASSUME NEW bars, bars = None \/ bars \in Int
    PROVE  AgeBucket(bars) \in AgeLabels
  <1>1. CASE bars = None
    BY <1>1 DEF AgeBucket, AgeLabels
  <1>2. CASE bars # None
    <2>1. bars < 0 \/ bars = 0 \/ bars = 1 \/ bars \in 2..4 \/ bars > 4
      BY <1>2
    <2> QED
      BY <1>2, <2>1 DEF AgeBucket, AgeLabels
  <1> QED
    BY <1>1, <1>2

LEMMA DurationIs ==
    ASSUME NEW bars \in Nat
    PROVE  DurationBucket(bars)
             \in {"zero", "one_bar", "two_to_four", "five_to_eight", "nine_to_sixteen",
                  "seventeen_plus", "missing"}
  <1>1. bars = 0 \/ bars = 1 \/ bars \in 2..4 \/ bars \in 5..8 \/ bars \in 9..16 \/ bars > 16
    OBVIOUS
  <1> QED
    BY <1>1 DEF DurationBucket

LEMMA ExtensionLabelIs ==
    ASSUME NEW v
    PROVE  ExtensionBucket(v)
             \in {"lt_0.25", "gte_0.25_lt_0.5", "gte_0.5_lte_1", "gt_1", "missing"}
  BY DEF ExtensionBucket

LEMMA NumericLabelIs ==
    ASSUME NEW v, NEW edges
    PROVE  NumericBucket(v, edges) \in QuartileLabels(edges)
  <1>1. CASE v = None
    BY <1>1 DEF NumericBucket, QuartileLabels
  <1>2. CASE v # None /\ edges = <<>>
    BY <1>2 DEF NumericBucket, QuartileLabels
  <1>3. CASE v # None /\ edges # <<>>
    BY <1>3 DEF NumericBucket, QuartileLabels
  <1> QED
    BY <1>1, <1>2, <1>3

\* The `kalman' entry of a bar and side.
LEMMA KalmanIs ==
    ASSUME NEW tp, NEW n, TapeOK(tp, n), NEW i \in DOMAIN tp, NEW side
    PROVE  KalmanRun(tp, i, side).since = None \/ KalmanRun(tp, i, side).since \in Nat
  <1> DEFINE turns == {j \in 1..i : tp[j].turn = side}
             begun == IF turns = {} THEN 1 ELSE Largest(turns)
             bars == {j \in begun..i : tp[j].trend = side}
  <1>1. i \in Nat /\ DOMAIN tp = 1..Len(tp) /\ Len(tp) \in Nat
    BY DEF TapeOK
  <1>2. turns # {} => begun \in turns
    <2>1. turns \subseteq Int /\ i \in Int /\ \A j \in turns : j <= i
      BY <1>1
    <2> HIDE DEF turns
    <2> QED
      BY <2>1, LargestIs
  <1>3. turns # {} => begun \in DOMAIN tp
    BY <1>1, <1>2
  <1>4. turns # {} => Finalized(tp[begun]) \in Nat
    BY <1>3, TimesOf
  <1>5. \/ KalmanRun(tp, i, side).since = None
        \/ turns = {} /\ KalmanRun(tp, i, side).since = 0
        \/ turns # {} /\ KalmanRun(tp, i, side).since = Finalized(tp[begun])
    <2>1. KalmanRun(tp, i, side)
            = IF bars = {} THEN [since |-> None, bars |-> None]
              ELSE [since |-> IF turns = {} THEN 0 ELSE Finalized(tp[begun]),
                    bars |-> Cardinality(bars)]
      BY DEF KalmanRun
    <2> HIDE DEF turns, begun, bars
    <2> QED
      BY <2>1
  <1> QED
    BY <1>4, <1>5

\* The ages of a trade.
LEMMA AgesAre ==
    ASSUME ResearchIInv, NEW x \in Trades(data), NEW f, f = x.features
    PROVE  /\ x.age \in Int
           /\ f.kalman.since = None \/ f.decision - f.kalman.since \in Int
  <1>0. Consistent(tape, now, slot, data) /\ TapeOK(tape, now)
    BY ConsistentIs DEF Consistent
  <1>1. PICK k \in DOMAIN data.trades : x = data.trades[k]
    BY <1>0, DataIs
  <1> DEFINE e == Collected(tape).entries[k]
             o == OutcomeOf(tape, e)
  <1>2. /\ x = TradeRow(tape, e) /\ e.at \in DOMAIN tape /\ e.trade \in Openings
        /\ f = EntryFeatures(tape, e.at, e.trade.side)
        /\ f.decision \in Nat
    BY <1>0, <1>1, RowOf
  <1>3. /\ x = Join(Entered(e, EntryFeatures(tape, e.at, e.trade.side), o), o)
        /\ DOMAIN o = OutcomeFields
    BY <1>2, RowFromParts, OutcomeIs
  <1>4. f.kalman = KalmanRun(tape, e.at, e.trade.side)
    BY <1>2 DEF EntryFeatures
  <1>5. f.kalman.since = None \/ f.kalman.since \in Nat
    BY <1>0, <1>2, <1>4, KalmanIs
  <1>6. e.trade.origin \in Nat
    BY <1>2 DEF Openings
  <1> HIDE DEF e, o
  <1>7. x.age = f.decision - e.trade.origin
    BY <1>2, <1>3, Joined
  <1> QED
    BY <1>2, <1>5, <1>6, <1>7

\* A table that labels each record of its universe: by the side, the path, the
\* ages, the extension, the duration, the exit, the trend, or a feature.
Labelled(records, table) ==
    \E U, labels, c :
        U \subseteq records /\ table = TableOf(U, labels, c) /\ \A r \in U : c[r] \in labels

LEMMA TableIs ==
    ASSUME ResearchIInv, NEW records, records = Records(data, tape), NEW development,
           NEW table \in Tables(data, records, development)
    PROVE  Labelled(records, table)
  <1> DEFINE O == OpenedRecords(records)
             C == ClosedRecords(records)
             paths == {"immediate_opened", "armed_opened", "armed_cancelled",
                       "eligible_no_trade_other"}
             extensions == {"lt_0.25", "gte_0.25_lt_0.5", "gte_0.5_lte_1", "gt_1", "missing"}
             durations == {"zero", "one_bar", "two_to_four", "five_to_eight",
                           "nine_to_sixteen", "seventeen_plus", "missing"}
             exits == {"stop_only", "strategy_only", "stop_and_strategy_same_bar",
                       "other_or_missing"}
             Turn(r) == TurnAge(TradeOf(r))
             side == [r \in records |-> data.setups[r.setup].features.side]
             path == [r \in records |-> PathBucket(data, r)]
             age == [r \in O |-> AgeBucket(TradeOf(r).age)]
             turn == [r \in O |-> AgeBucket(Turn(r))]
             extension == [r \in O |-> ExtensionBucket(TradeOf(r).features.extension)]
             duration == [r \in C |-> DurationBucket(TradeOf(r).observed)]
             exit == [r \in C |-> ExitBucket(TradeOf(r))]
             aligned == [r \in records |-> IF r.feature.aligned THEN "true" ELSE "false"]
             edges(name) == Edges(development, name)
             numeric(name) == [r \in records |-> NumericBucket(r.feature[name], edges(name))]
  <1>1. \/ table = TableOf(records, Sides, side)
        \/ table = TableOf(records, paths, path)
        \/ table = TableOf(O, AgeLabels, age)
        \/ table = TableOf(O, AgeLabels, turn)
        \/ table = TableOf(O, extensions, extension)
        \/ table = TableOf(C, durations, duration)
        \/ table = TableOf(C, exits, exit)
        \/ table = TableOf(records, {"true", "false"}, aligned)
        \/ \E name \in NumericFeatures :
              table = TableOf(records, QuartileLabels(edges(name)), numeric(name))
    BY DEF Tables
  <1>2. O \subseteq records /\ C \subseteq records
    BY DEF OpenedRecords, ClosedRecords
  <1>3. ASSUME NEW r \in records
        PROVE  side[r] \in Sides /\ path[r] \in paths
    <2>1. r.setup \in DOMAIN data.setups
      BY RecordIs
    <2>2. SetupOK(Collected(tape), tape, slot, 0, r.setup)
      BY <2>1, ConsistentIs, DataIs DEF Consistent, BookOK
    <2>3. data.setups = Collected(tape).setups
      BY ConsistentIs, DataIs
    <2>4. data.setups[r.setup].features.side \in Sides
      BY <2>2, <2>3 DEF SetupOK
    <2>5. data.setups[r.setup].armed \in BOOLEAN
      BY <2>1, SetupIs
    <2>6. PathBucket(data, r) \in paths
      BY <2>5 DEF PathBucket
    <2> QED
      BY <2>4, <2>6
  <1>4. ASSUME NEW r \in O
        PROVE  age[r] \in AgeLabels /\ turn[r] \in AgeLabels /\ extension[r] \in extensions
    <2>1. TradeOf(r) \in Trades(data)
      <3>1. r \in records /\ r.trades # {}
        BY DEF OpenedRecords
      <3> QED
        BY <3>1, RecordIs
    <2>2. TradeOf(r).age \in Int /\ (Turn(r) = None \/ Turn(r) \in Int)
      BY <2>1, AgesAre DEF TurnAge
    <2>3. AgeBucket(TradeOf(r).age) \in AgeLabels /\ AgeBucket(Turn(r)) \in AgeLabels
      <3> HIDE DEF Turn
      <3> QED
        BY <2>2, AgeIs
    <2> QED
      BY <2>3, ExtensionLabelIs
  <1>5. ASSUME NEW r \in C
        PROVE  duration[r] \in durations /\ exit[r] \in exits
    <2>1. TradeOf(r) \in Trades(data) /\ TradeOf(r).state = "closed"
      BY TradesOfIs
    <2>2. TradeOf(r).observed \in Nat
      BY <2>1, ExitIsKnown
    <2>3. ExitBucket(TradeOf(r)) \in exits
      BY DEF ExitBucket
    <2> QED
      BY <2>2, <2>3, DurationIs
  <1>6. \A r \in records : aligned[r] \in {"true", "false"}
    OBVIOUS
  <1>7. \A name \in NumericFeatures : \A r \in records :
           numeric(name)[r] \in QuartileLabels(edges(name))
    BY NumericLabelIs
  <1>8. records \subseteq records
    OBVIOUS
  <1> HIDE DEF O, C, paths, extensions, durations, exits, side, path, age, turn,
               extension, duration, exit, aligned, edges, numeric
  <1> QED
    BY <1>1, <1>2, <1>3, <1>4, <1>5, <1>6, <1>7, <1>8 DEF Labelled

\* The attribution tables exhaust their records, whatever the quartiles, and
\* reconcile; and the report exists if every stopped loss has its excursion.
LEMMA AttributionAlwaysReconciles ==
    ASSUME ResearchIInv, StopsLose
    PROVE  AttributionReconciles
  <1> DEFINE records == Records(data, tape)
             closed == {x \in Trades(data) : x.state = "closed"}
  <1>1. Bridged(data, records)
    BY BridgeHolds
  <1>2. \A r \in ClosedRecords(records) : ExitBucket(TradeOf(r)) # "other_or_missing"
    BY TradesOfIs, ExitIsKnown
  <1>3. ASSUME NEW rows, NEW table \in Tables(data, records, rows)
        PROVE  Exhaustive(table) /\ CrossTabReconciles(table)
    <2>1. Labelled(records, table)
      BY <1>3, TableIs
    <2> QED
      BY <2>1, TableIsSound DEF Labelled
  <1>4. TradesOf(ClosedRecords(records)) = closed
    <2>1. TradesOf(records) = Trades(data)
      <3>1. \A x \in Trades(data) : \E r \in records : r.trades = {x}
        BY RecordIs
      <3>2. \A r \in records : r.trades \subseteq Trades(data)
        BY RecordIs
      <3> HIDE DEF records
      <3> QED
        BY <3>1, <3>2 DEF TradesOf
    <2> QED
      BY <2>1, TradesOfIs
  <1>5. (FailureReport(records) = Refused)
          = (\E x \in Trades(data) : x.state = "closed" /\ Unlabelled(x))
    <2> DEFINE labelled == {x \in closed : ~Unlabelled(x)}
    <2>1. (FailurePartition(closed) = Refused) <=> labelled # closed
      BY LabelsAddUp
    <2>2. labelled # closed <=> \E x \in Trades(data) : x.state = "closed" /\ Unlabelled(x)
      OBVIOUS
    <2>3. FailureReport(records) = FailurePartition(closed)
      BY <1>4 DEF FailureReport
    <2> HIDE DEF labelled, closed, records
    <2> QED
      BY <2>1, <2>2, <2>3
  <1>6. \A role \in Roles :
           WindowReconciles(data, records, Windows[role])
             = (~StrayCensored(Windows[role]) /\ Losses(ClosedTrades(data, Windows[role])) # {})
    BY WindowIsReconciled
  <1> HIDE DEF records
  <1> QED
    BY <1>1, <1>2, <1>3, <1>5, <1>6 DEF AttributionReconciles, records

-----------------------------------------------------------------------------
(* What is counted of the parts of something.                              *)

\* The measures m of the parts S[v], each with its name h[v].
Measured(P, h, S, m) == {[of |-> h[v], r |-> m[S[v]]] : v \in P}

\* A measure of the subsets of U: a number that adds up over disjoint ones.
Adds(m, U) ==
    /\ \A A \in SUBSET U : m[A] \in Int
    /\ m[{}] = 0
    /\ \A A, B \in SUBSET U : A \cap B = {} => m[A \cup B] = m[A] + m[B]

\* The parts of U are finitely many, and disjoint.
Parted(V, U, part) ==
    /\ IsFiniteSet(V)
    /\ \A v \in V : part[v] \subseteq U
    /\ \A v, u \in V : v # u => part[v] \cap part[u] = {}

\* The sum of a measure over disjoint parts is the measure of the whole.
LEMMA PartsAddUp ==
    ASSUME NEW V, NEW U, NEW part, Parted(V, U, part), NEW size, Adds(size, U),
           NEW named, \A v, u \in V : named[v] = named[u] => v = u
    PROVE  SumR(Measured(V, named, part, size)) = size[UNION {part[v] : v \in V}]
  <1> DEFINE Entry(v) == [of |-> named[v], r |-> size[part[v]]]
             E(T) == {Entry(v) : v \in T}
             Whole(T) == UNION {part[v] : v \in T}
             H == {T \in SUBSET V : SumR(E(T)) = size[Whole(T)]}
  <1> USE DEF Adds, Parted
  <1>1. {} \in H
    <2>1. E({}) = {} /\ Whole({}) = {}
      OBVIOUS
    <2>2. SumR({}) = 0
      BY SumIs, FS_EmptySet
    <2> QED
      BY <2>1, <2>2
  <1>2. ASSUME NEW T \in SUBSET V, T # {}, \A v \in T : T \ {v} \in H
        PROVE  T \in H
    <2>1. PICK v \in T : TRUE
      BY <1>2
    <2>2. IsFiniteSet(T)
      BY FS_Subset
    <2>3. \A u \in T : Entry(u) = Entry(v) => u = v
      <3>1. \A u \in T : Entry(u).of = named[u]
        OBVIOUS
      <3> HIDE DEF Entry
      <3> QED
        BY <3>1
    <2>4. \A u \in T : Entry(u).r \in Int
      OBVIOUS
    <2>5. Entry(v).r = size[part[v]]
      OBVIOUS
    <2>6. size[part[v]] \in Int /\ size[Whole(T \ {v})] \in Int
      OBVIOUS
    <2>7. part[v] \cap Whole(T \ {v}) = {} /\ Whole(T) = part[v] \cup Whole(T \ {v})
      OBVIOUS
    <2>8. size[Whole(T)] = size[part[v]] + size[Whole(T \ {v})]
      <3>1. part[v] \in SUBSET U /\ Whole(T \ {v}) \in SUBSET U
        OBVIOUS
      <3> HIDE DEF Whole
      <3> QED
        BY <2>7, <3>1
    <2> HIDE DEF Entry
    <2>9. IsFiniteSet(E(T))
      <3> DEFINE f == [u \in T |-> Entry(u)]
      <3>1. E(T) = {f[u] : u \in T}
        OBVIOUS
      <3> HIDE DEF f, E
      <3> QED
        BY <2>2, <3>1, ImageFinite
    <2>10. \A e \in E(T) : e.r \in Int
      BY <2>4
    <2>11. Entry(v) \in E(T) /\ E(T) \ {Entry(v)} = E(T \ {v})
      BY <2>3
    <2>12. SumR(E(T \ {v})) = size[Whole(T \ {v})]
      BY <1>2
    <2> HIDE DEF E, Whole
    <2>13. SumR(E(T)) = Entry(v).r + SumR(E(T) \ {Entry(v)})
      BY <2>9, <2>10, <2>11, SumAny
    <2> QED
      BY <2>5, <2>6, <2>8, <2>11, <2>12, <2>13
  <1>3. H \in SUBSET (SUBSET V)
    OBVIOUS
  <1> HIDE DEF H
  <1>4. H = SUBSET V
    BY <1>1, <1>2, <1>3, SetsUpTo
  <1> QED
    BY <1>4 DEF H, Measured

\* The measures: how many, and what they won.
LEMMA CountAdds ==
    ASSUME NEW U, IsFiniteSet(U)
    PROVE  /\ \A A \in SUBSET U : IsFiniteSet(A) /\ Cardinality(A) \in Int
           /\ Cardinality({}) = 0
           /\ \A A, B \in SUBSET U : A \cap B = {} =>
                 Cardinality(A \cup B) = Cardinality(A) + Cardinality(B)
  <1>1. \A A \in SUBSET U : IsFiniteSet(A) /\ Cardinality(A) \in Nat
    BY FS_Subset, FS_CardinalityType
  <1>2. Cardinality({}) = 0
    BY FS_EmptySet
  <1>3. ASSUME NEW A \in SUBSET U, NEW B \in SUBSET U, A \cap B = {}
        PROVE  Cardinality(A \cup B) = Cardinality(A) + Cardinality(B)
    <2>1. Cardinality(A \cup B) = Cardinality(A) + Cardinality(B) - Cardinality(A \cap B)
      BY <1>1, FS_Union
    <2> QED
      BY <1>1, <1>2, <1>3, <2>1
  <1> QED
    BY <1>1, <1>2, <1>3

LEMMA ResultAdds ==
    ASSUME NEW U, IsFiniteSet(U), \A x \in U : x.r \in Int
    PROVE  /\ \A A \in SUBSET U : SumR(A) \in Int
           /\ SumR({}) = 0
           /\ \A A, B \in SUBSET U : A \cap B = {} => SumR(A \cup B) = SumR(A) + SumR(B)
  <1>1. \A A \in SUBSET U : IsFiniteSet(A) /\ \A x \in A : x.r \in Int
    BY FS_Subset
  <1>2. \A A \in SUBSET U : SumR(A) \in Int
    BY <1>1, SumAny
  <1>3. SumR({}) = 0
    BY SumIs, FS_EmptySet
  <1>4. ASSUME NEW A \in SUBSET U, NEW B \in SUBSET U, A \cap B = {}
        PROVE  SumR(A \cup B) = SumR(A) + SumR(B)
    <2>1. \A x \in A \cup B : x.r \in Int
      OBVIOUS
    <2> QED
      BY <1>1, <1>4, <2>1, SumUnion
  <1> QED
    BY <1>2, <1>3, <1>4

-----------------------------------------------------------------------------
(* The populations of the regime studies.                                  *)

\* The setups of a window, and the trades included with them.
LEMMA PopulationIs ==
    ASSUME ResearchIInv, NEW w, NEW rows, rows = Population(data, tape, w)
    PROVE  /\ {r.setup : r \in rows} = EligibleSetups(data, w)
           /\ \A r, s \in rows : r.setup = s.setup => r = s
           /\ \A r \in rows :
                 /\ r.category = Category(data, w, r.setup)
                 /\ r.features = RegimeRow(tape, data.setups[r.setup])
                 /\ r.trades = IF r.category = "included_closed"
                               THEN LinkedTo(data, r.setup) ELSE {}
           /\ \A r \in rows : r.trades = {x \in ClosedTrades(data, w) : x.origin = r.setup}
           /\ Included(rows) = ClosedTrades(data, w)
  <1> DEFINE S == EligibleSetups(data, w)
             Row(o) == [setup |-> o, category |-> Category(data, w, o),
                        features |-> RegimeRow(tape, data.setups[o]),
                        trades |-> IF Category(data, w, o) = "included_closed"
                                   THEN LinkedTo(data, o) ELSE {}]
             rs == ClosedTrades(data, w)
  <1>1. rows = {Row(o) : o \in S}
    BY DEF Population
  <1>2. \A o : /\ Row(o).setup = o /\ Row(o).category = Category(data, w, o)
               /\ Row(o).features = RegimeRow(tape, data.setups[o])
               /\ Row(o).trades = IF Row(o).category = "included_closed"
                                  THEN LinkedTo(data, o) ELSE {}
    OBVIOUS
  <1> HIDE DEF Row
  <1>3. {r.setup : r \in rows} = S
    BY <1>1, <1>2
  <1>4. \A r, s \in rows : r.setup = s.setup => r = s
    BY <1>1, <1>2
  <1>5. \A r \in rows :
           /\ r.setup \in S /\ r.category = Category(data, w, r.setup)
           /\ r.features = RegimeRow(tape, data.setups[r.setup])
           /\ r.trades = IF r.category = "included_closed"
                         THEN LinkedTo(data, r.setup) ELSE {}
    BY <1>1, <1>2
  <1>6. rs = {x \in Trades(data) : /\ x.state = "closed" /\ x.origin \in S
                                   /\ Inside(w, x.features.decision) /\ Inside(w, x.exit)}
    BY ConsistentIs, SameTrades DEF LinkedTrades
  <1>7. ASSUME NEW r \in rows
        PROVE  r.trades = {x \in rs : x.origin = r.setup}
    <2>1. CASE LinkedTo(data, r.setup) = {}
      <3>1. \A x \in Trades(data) : x.origin # r.setup
        BY <2>1 DEF LinkedTo
      <3>2. r.trades = {}
        BY <1>5, <2>1
      <3> QED
        BY <1>6, <3>1, <3>2
    <2>2. CASE LinkedTo(data, r.setup) # {}
      <3>1. PICK x \in Trades(data) : x.origin = r.setup
        BY <2>2 DEF LinkedTo
      <3>2. LinkedTo(data, r.setup) = {x}
        BY <3>1, LinkedIs
      <3>3. (CHOOSE y \in LinkedTo(data, r.setup) : TRUE) = x
        BY <3>2
      <3>4. x.state = "closed" \/ x.state = "censored"
        BY <3>1, ConsistentIs, TradeIs
      <3>5. Category(data, w, r.setup) = "included_closed"
              <=> x.state = "closed" /\ Inside(w, x.features.decision) /\ Inside(w, x.exit)
        BY <2>2, <3>3, <3>4 DEF Category
      <3>6. x \in rs <=> x.state = "closed" /\ Inside(w, x.features.decision)
                           /\ Inside(w, x.exit)
        BY <1>5, <1>6, <3>1
      <3>7. \A y \in rs : y.origin = r.setup => y = x
        BY <1>6, <3>2 DEF LinkedTo
      <3> HIDE DEF rs
      <3>8. CASE x \in rs
        BY <1>5, <3>1, <3>2, <3>5, <3>6, <3>7, <3>8
      <3>9. CASE x \notin rs
        BY <1>5, <3>5, <3>6, <3>7, <3>9
      <3> QED
        BY <3>8, <3>9
    <2> QED
      BY <2>1, <2>2
  <1>8. Included(rows) = rs
    <2>1. \A x \in rs : x.origin \in S
      BY <1>6
    <2>2. \A o \in S : \E r \in rows : r.setup = o
      BY <1>1, <1>2
    <2> HIDE DEF rs, S
    <2> QED
      BY <1>7, <2>1, <2>2 DEF Included
  <1> QED
    BY <1>3, <1>4, <1>5, <1>7, <1>8

Keeps(kept, closed) == {x \in closed : x.origin \in kept}

LEMMA KeptMetricsAre ==
    ASSUME NEW setups, NEW closed, NEW kept
    PROVE  /\ KeptMetrics(setups, closed, kept).setups = Cardinality(setups)
           /\ KeptMetrics(setups, closed, kept).baseline = Cardinality(closed)
           /\ KeptMetrics(setups, closed, kept).closed = Cardinality(Keeps(kept, closed))
           /\ KeptMetrics(setups, closed, kept).total = SumR(Keeps(kept, closed))
  BY DEF KeptMetrics, Keeps

LEMMA RetainedIs ==
    ASSUME NEW setups, NEW closed, NEW kept
    PROVE  KeptMetrics(setups, closed, kept).retained = Cardinality(setups \cap kept)
  BY DEF KeptMetrics

\* The parts of a window divide what a candidate keeps of its setups and trades.
LEMMA PartsDivide ==
    ASSUME ResearchIInv, NEW role \in Roles, NEW w, w = Windows[role],
           NEW rows, rows = Population(data, tape, w), NEW spec,
           NEW result, result = CandidateResult(data, rows, w, Parts[role], spec)
    PROVE  Partitioned(result)
  <1> DEFINE Linked == LinkedTrades(data, w)
             Setups == {r.setup : r \in rows}
             Accepted == {r.setup : r \in {q \in rows : Accepts(spec, q.features)}}
  <1>a. PICK P, setups, closed, kept :
           P = Parts[role] /\ setups = Setups /\ closed = Linked /\ kept = Accepted
    OBVIOUS
  <1>b. PICK S, C :
           /\ S = [v \in P |-> {o \in setups : Inside(v, data.setups[o].features.decision)}]
           /\ C = [v \in P |-> OriginPart(data, closed, v)]
    OBVIOUS
  <1> DEFINE Entry(v) == [window |-> v, baseline |-> KeptMetrics(S[v], C[v], S[v]),
                          candidate |-> KeptMetrics(S[v], C[v], kept)]
  <1>c. PICK h : h = [v \in P |-> Entry(v)]
    OBVIOUS
  <1>1. /\ result.baseline = KeptMetrics(setups, closed, setups)
        /\ result.candidate = KeptMetrics(setups, closed, kept)
        /\ result.windows = {h[v] : v \in P}
    <2>1. {h[v] : v \in P}
            = {[window |-> v,
                baseline |-> KeptMetrics({o \in Setups :
                                  Inside(v, data.setups[o].features.decision)},
                               OriginPart(data, Linked, v),
                               {o \in Setups : Inside(v, data.setups[o].features.decision)}),
                candidate |-> KeptMetrics({o \in Setups :
                                  Inside(v, data.setups[o].features.decision)},
                               OriginPart(data, Linked, v), Accepted)] : v \in P}
      <3> HIDE DEF Setups, Linked, Accepted
      <3>1. \A v \in P : h[v] = [window |-> v,
               baseline |-> KeptMetrics({o \in Setups :
                                  Inside(v, data.setups[o].features.decision)},
                               OriginPart(data, Linked, v),
                               {o \in Setups : Inside(v, data.setups[o].features.decision)}),
               candidate |-> KeptMetrics({o \in Setups :
                                  Inside(v, data.setups[o].features.decision)},
                               OriginPart(data, Linked, v), Accepted)]
        BY <1>a, <1>b, <1>c
      <3> QED
        BY <3>1
    <2> QED
      BY <1>a, <2>1 DEF CandidateResult
  <1>2. setups = EligibleSetups(data, w) /\ closed = ClosedTrades(data, w)
    BY <1>a, PopulationIs, ConsistentIs, SameTrades
  <1>3. IsFiniteSet(setups) /\ IsFiniteSet(closed) /\ IsFiniteSet(P)
        /\ \A x \in closed : x.r \in Int
    <2>1. IsFiniteSet(setups)
      BY <1>2, SetupsFinite, FS_Subset DEF EligibleSetups
    <2>2. IsFiniteSet(closed) /\ \A x \in closed : x.r \in Int
      BY <1>2, ConsistentIs, TradesFinite
    <2>3. IsFiniteSet(P)
      BY <1>a, EvidenceAssumption DEF PartsAssumption
    <2> QED
      BY <2>1, <2>2, <2>3
  <1>4. \A x \in closed : x.origin \in setups
    BY <1>2, ConsistentIs, SameTrades DEF LinkedTrades
  <1>5. \A v \in P : S[v] \subseteq setups /\ C[v] \subseteq closed
    BY <1>b DEF OriginPart
  <1> HIDE DEF Setups, Linked, Accepted
  <1>6. ASSUME NEW t \in Nat, Inside(w, t)
        PROVE  \E v \in P : \A u \in P : Inside(u, t) <=> u = v
    <2>1. Cardinality({v \in P : Inside(v, t)}) = 1
      BY <1>a, <1>6, PartIs
    <2>2. IsFiniteSet({v \in P : Inside(v, t)})
      BY <1>3, FS_Subset
    <2>3. PICK v : {u \in P : Inside(u, t)} = {v}
      BY <2>1, <2>2, FS_Singleton
    <2> QED
      BY <2>3
  <1>7. /\ \A o \in setups : \E v \in P : \A u \in P : o \in S[u] <=> u = v
        /\ \A x \in closed : \E v \in P : \A u \in P : x \in C[u] <=> u = v
    <2>1. ASSUME NEW o \in setups
          PROVE  \E v \in P : \A u \in P : o \in S[u] <=> u = v
      <3>1. o \in DOMAIN data.setups /\ Inside(w, data.setups[o].features.decision)
        BY <1>2 DEF EligibleSetups
      <3>2. data.setups[o].features.decision \in Nat
        BY <3>1, SetupIs
      <3> QED
        BY <1>b, <1>6, <3>1, <3>2
    <2>2. ASSUME NEW x \in closed
          PROVE  \E v \in P : \A u \in P : x \in C[u] <=> u = v
      <3>1. x \in Trades(data) /\ Inside(w, Decision(data, x))
        BY <1>2 DEF ClosedTrades
      <3>2. Decision(data, x) \in Nat
        BY <3>1, ConsistentIs, TradeIs
      <3> QED
        BY <1>b, <1>6, <3>1, <3>2 DEF OriginPart
    <2> QED
      BY <2>1, <2>2
  <1>8. \A v, u \in P : h[v] = h[u] => v = u
    <2>1. \A v \in P : h[v].window = v
      BY <1>c
    <2> QED
      BY <2>1
  <1>9. \A v \in P : \A x \in C[v] : x.origin \in S[v]
    <2>1. \A x \in closed : data.setups[x.origin].features.decision = Decision(data, x)
      BY DEF Decision
    <2> QED
      BY <1>b, <1>4, <2>1 DEF OriginPart
  <1>10. \A v \in P : /\ h[v].baseline = KeptMetrics(S[v], C[v], S[v])
                       /\ h[v].candidate = KeptMetrics(S[v], C[v], kept)
    BY <1>c
  <1> HIDE DEF Entry
  <1>11. ASSUME NEW v \in P
         PROVE  /\ h[v].baseline.setups = Cardinality(S[v])
                /\ h[v].baseline.baseline = Cardinality(C[v])
                /\ h[v].candidate.retained = Cardinality(S[v] \cap kept)
                /\ h[v].candidate.closed = Cardinality(Keeps(kept, C[v]))
                /\ h[v].candidate.total = SumR(Keeps(kept, C[v]))
                /\ h[v].baseline.total = SumR(C[v])
    <2>1. Keeps(S[v], C[v]) = C[v]
      BY <1>9 DEF Keeps
    <2>2. /\ h[v].baseline.setups = Cardinality(S[v])
          /\ h[v].baseline.baseline = Cardinality(C[v])
          /\ h[v].baseline.total = SumR(Keeps(S[v], C[v]))
      BY <1>10, KeptMetricsAre
    <2>3. /\ h[v].candidate.closed = Cardinality(Keeps(kept, C[v]))
          /\ h[v].candidate.total = SumR(Keeps(kept, C[v]))
      BY <1>10, KeptMetricsAre
    <2>4. h[v].candidate.retained = Cardinality(S[v] \cap kept)
      BY <1>10, RetainedIs
    <2> QED
      BY <2>1, <2>2, <2>3, <2>4
  <1>12. /\ result.baseline.setups = Cardinality(setups)
         /\ result.baseline.baseline = Cardinality(closed)
         /\ result.candidate.retained = Cardinality(setups \cap kept)
         /\ result.candidate.closed = Cardinality(Keeps(kept, closed))
         /\ result.candidate.total = SumR(Keeps(kept, closed))
         /\ result.baseline.total = SumR(closed)
    <2>1. Keeps(setups, closed) = closed
      BY <1>4 DEF Keeps
    <2>2. /\ result.baseline.setups = Cardinality(setups)
          /\ result.baseline.baseline = Cardinality(closed)
          /\ result.baseline.total = SumR(Keeps(setups, closed))
      BY <1>1, KeptMetricsAre
    <2>3. /\ result.candidate.closed = Cardinality(Keeps(kept, closed))
          /\ result.candidate.total = SumR(Keeps(kept, closed))
      BY <1>1, KeptMetricsAre
    <2>4. result.candidate.retained = Cardinality(setups \cap kept)
      BY <1>1, RetainedIs
    <2> QED
      BY <2>1, <2>2, <2>3, <2>4
  <1>13. ASSUME NEW m, Adds(m, setups)
         PROVE  SumR(Measured(P, h, S, m)) = m[setups]
    <2>1. Parted(P, setups, S)
      BY <1>3, <1>5, <1>7 DEF Parted
    <2>2. UNION {S[v] : v \in P} = setups
      BY <1>5, <1>7
    <2>3. SumR(Measured(P, h, S, m)) = m[UNION {S[v] : v \in P}]
      BY <1>8, <1>13, <2>1, PartsAddUp
    <2> QED
      BY <2>2, <2>3
  <1>14. ASSUME NEW m, Adds(m, closed)
         PROVE  SumR(Measured(P, h, C, m)) = m[closed]
    <2>1. Parted(P, closed, C)
      BY <1>3, <1>5, <1>7 DEF Parted
    <2>2. UNION {C[v] : v \in P} = closed
      BY <1>5, <1>7
    <2>3. SumR(Measured(P, h, C, m)) = m[UNION {C[v] : v \in P}]
      BY <1>8, <1>14, <2>1, PartsAddUp
    <2> QED
      BY <2>2, <2>3
  <1>15. SumR({[of |-> x, r |-> x.baseline.setups] : x \in result.windows})
           = result.baseline.setups
    <2> DEFINE m == [A \in SUBSET setups |-> Cardinality(A)]
    <2>1. \A A \in SUBSET setups : m[A] = Cardinality(A)
      OBVIOUS
    <2> HIDE DEF m
    <2>2. Adds(m, setups)
      <3>1. \A A, B \in SUBSET setups : A \cup B \in SUBSET setups
        OBVIOUS
      <3>2. {} \in SUBSET setups
        OBVIOUS
      <3> QED
        BY <1>3, <2>1, <3>1, <3>2, CountAdds DEF Adds
    <2>3. SumR(Measured(P, h, S, m)) = m[setups]
      BY <1>13, <2>2
    <2>4. Measured(P, h, S, m) = {[of |-> x, r |-> x.baseline.setups] : x \in result.windows}
      <3>1. \A v \in P : m[S[v]] = h[v].baseline.setups
        BY <1>5, <1>11, <2>1
      <3> QED
        BY <1>1, <3>1 DEF Measured
    <2> QED
      BY <1>12, <2>1, <2>3, <2>4
  <1>16. SumR({[of |-> x, r |-> x.baseline.baseline] : x \in result.windows})
           = result.baseline.baseline
    <2> DEFINE m == [A \in SUBSET closed |-> Cardinality(A)]
    <2>1. \A A \in SUBSET closed : m[A] = Cardinality(A)
      OBVIOUS
    <2> HIDE DEF m
    <2>2. Adds(m, closed)
      <3>1. \A A, B \in SUBSET closed : A \cup B \in SUBSET closed
        OBVIOUS
      <3>2. {} \in SUBSET closed
        OBVIOUS
      <3> QED
        BY <1>3, <2>1, <3>1, <3>2, CountAdds DEF Adds
    <2>3. SumR(Measured(P, h, C, m)) = m[closed]
      BY <1>14, <2>2
    <2>4. Measured(P, h, C, m) = {[of |-> x, r |-> x.baseline.baseline] : x \in result.windows}
      <3>1. \A v \in P : m[C[v]] = h[v].baseline.baseline
        BY <1>5, <1>11, <2>1
      <3> QED
        BY <1>1, <3>1 DEF Measured
    <2> QED
      BY <1>12, <2>1, <2>3, <2>4
  <1>17. SumR({[of |-> x, r |-> x.candidate.retained] : x \in result.windows})
           = result.candidate.retained
    <2> DEFINE m == [A \in SUBSET setups |-> Cardinality(A \cap kept)]
    <2>1. \A A \in SUBSET setups : m[A] = Cardinality(A \cap kept)
      OBVIOUS
    <2> HIDE DEF m
    <2>2. Adds(m, setups)
      <3>1. \A A, B \in SUBSET setups : A \cup B \in SUBSET setups
        OBVIOUS
      <3>2. {} \in SUBSET setups
        OBVIOUS
      <3>3. \A A \in SUBSET setups : A \cap kept \in SUBSET setups
        OBVIOUS
      <3>4. {} \cap kept = {}
        OBVIOUS
      <3>5. \A A, B : A \cap B = {} => /\ (A \cap kept) \cap (B \cap kept) = {}
                                        /\ (A \cup B) \cap kept = (A \cap kept) \cup (B \cap kept)
        OBVIOUS
      <3>6. ASSUME NEW A \in SUBSET setups, NEW B \in SUBSET setups, A \cap B = {}
            PROVE  Cardinality((A \cap kept) \cup (B \cap kept))
                      = Cardinality(A \cap kept) + Cardinality(B \cap kept)
        <4>1. PICK a, b : a = A \cap kept /\ b = B \cap kept
          OBVIOUS
        <4>2. a \in SUBSET setups /\ b \in SUBSET setups /\ a \cap b = {}
          BY <3>6, <4>1
        <4>3. Cardinality(a \cup b) = Cardinality(a) + Cardinality(b)
          BY <1>3, <4>2, CountAdds
        <4>4. (A \cap kept) \cup (B \cap kept) = a \cup b
          BY <4>1
        <4>5. Cardinality(A \cap kept) = Cardinality(a)
              /\ Cardinality(B \cap kept) = Cardinality(b)
          BY <4>1
        <4> QED
          BY <4>3, <4>4, <4>5
      <3>7. \A A \in SUBSET setups : m[A] \in Int
        BY <1>3, <2>1, <3>3, CountAdds
      <3>8. m[{}] = 0
        BY <1>3, <2>1, <3>2, <3>4, CountAdds
      <3>9. ASSUME NEW A \in SUBSET setups, NEW B \in SUBSET setups, A \cap B = {}
            PROVE  m[A \cup B] = m[A] + m[B]
        <4>1. m[A \cup B] = Cardinality((A \cup B) \cap kept)
          BY <2>1, <3>1
        <4>2. m[A] = Cardinality(A \cap kept) /\ m[B] = Cardinality(B \cap kept)
          BY <2>1
        <4>3. (A \cup B) \cap kept = (A \cap kept) \cup (B \cap kept)
          BY <3>5, <3>9
        <4> QED
          BY <3>6, <3>9, <4>1, <4>2, <4>3
      <3> QED
        BY <3>7, <3>8, <3>9 DEF Adds
    <2>3. SumR(Measured(P, h, S, m)) = m[setups]
      BY <1>13, <2>2
    <2>4. Measured(P, h, S, m) = {[of |-> x, r |-> x.candidate.retained] : x \in result.windows}
      <3>1. \A v \in P : m[S[v]] = h[v].candidate.retained
        BY <1>5, <1>11, <2>1
      <3> QED
        BY <1>1, <3>1 DEF Measured
    <2> QED
      BY <1>12, <2>1, <2>3, <2>4
  <1>18. SumR({[of |-> x, r |-> x.candidate.closed] : x \in result.windows})
           = result.candidate.closed
    <2> DEFINE m == [A \in SUBSET closed |-> Cardinality(Keeps(kept, A))]
    <2>1. \A A \in SUBSET closed : m[A] = Cardinality(Keeps(kept, A))
      OBVIOUS
    <2> HIDE DEF m
    <2>2. Adds(m, closed)
      <3>1. \A A, B \in SUBSET closed : A \cup B \in SUBSET closed
        OBVIOUS
      <3>2. {} \in SUBSET closed
        OBVIOUS
      <3>3. \A A \in SUBSET closed : Keeps(kept, A) \in SUBSET closed
        BY DEF Keeps
      <3>4. Keeps(kept, {}) = {}
        BY DEF Keeps
      <3>5. \A A, B : A \cap B = {} => /\ Keeps(kept, A) \cap Keeps(kept, B) = {}
                                        /\ Keeps(kept, A \cup B) = Keeps(kept, A) \cup Keeps(kept, B)
        BY DEF Keeps
      <3>6. ASSUME NEW A \in SUBSET closed, NEW B \in SUBSET closed, A \cap B = {}
            PROVE  Cardinality(Keeps(kept, A) \cup Keeps(kept, B))
                      = Cardinality(Keeps(kept, A)) + Cardinality(Keeps(kept, B))
        <4>1. /\ Keeps(kept, A) \in SUBSET closed /\ Keeps(kept, B) \in SUBSET closed
              /\ Keeps(kept, A) \cap Keeps(kept, B) = {}
          BY <3>3, <3>5, <3>6
        <4> QED
          BY <1>3, <4>1, CountAdds
      <3>7. \A A \in SUBSET closed : m[A] \in Int
        BY <1>3, <2>1, <3>3, CountAdds
      <3>8. m[{}] = 0
        BY <1>3, <2>1, <3>2, <3>4, CountAdds
      <3>9. ASSUME NEW A \in SUBSET closed, NEW B \in SUBSET closed, A \cap B = {}
            PROVE  m[A \cup B] = m[A] + m[B]
        <4>1. m[A \cup B] = Cardinality(Keeps(kept, A \cup B))
          BY <2>1, <3>1
        <4>2. m[A] = Cardinality(Keeps(kept, A)) /\ m[B] = Cardinality(Keeps(kept, B))
          BY <2>1
        <4>3. Keeps(kept, A \cup B) = Keeps(kept, A) \cup Keeps(kept, B)
          BY <3>5, <3>9
        <4> QED
          BY <3>6, <3>9, <4>1, <4>2, <4>3
      <3> QED
        BY <3>7, <3>8, <3>9 DEF Adds
    <2>3. SumR(Measured(P, h, C, m)) = m[closed]
      BY <1>14, <2>2
    <2>4. Measured(P, h, C, m) = {[of |-> x, r |-> x.candidate.closed] : x \in result.windows}
      <3>1. \A v \in P : m[C[v]] = h[v].candidate.closed
        BY <1>5, <1>11, <2>1
      <3> QED
        BY <1>1, <3>1 DEF Measured
    <2> QED
      BY <1>12, <2>1, <2>3, <2>4
  <1>19. SumR({[of |-> x, r |-> x.candidate.total - x.baseline.total] : x \in result.windows})
           = result.candidate.total - result.baseline.total
    <2> DEFINE m == [A \in SUBSET closed |-> SumR(Keeps(kept, A)) - SumR(A)]
    <2>1. \A A \in SUBSET closed : m[A] = SumR(Keeps(kept, A)) - SumR(A)
      OBVIOUS
    <2> HIDE DEF m
    <2>2. Adds(m, closed)
      <3>1. \A A, B \in SUBSET closed : A \cup B \in SUBSET closed
        OBVIOUS
      <3>2. {} \in SUBSET closed
        OBVIOUS
      <3>3. \A A \in SUBSET closed : Keeps(kept, A) \in SUBSET closed
        BY DEF Keeps
      <3>4. Keeps(kept, {}) = {}
        BY DEF Keeps
      <3>5. \A A, B : A \cap B = {} => /\ Keeps(kept, A) \cap Keeps(kept, B) = {}
                                        /\ Keeps(kept, A \cup B) = Keeps(kept, A) \cup Keeps(kept, B)
        BY DEF Keeps
      <3>6. ASSUME NEW A \in SUBSET closed, NEW B \in SUBSET closed, A \cap B = {}
            PROVE  /\ SumR(Keeps(kept, A) \cup Keeps(kept, B))
                         = SumR(Keeps(kept, A)) + SumR(Keeps(kept, B))
                   /\ SumR(A \cup B) = SumR(A) + SumR(B)
        <4>1. /\ Keeps(kept, A) \in SUBSET closed /\ Keeps(kept, B) \in SUBSET closed
              /\ Keeps(kept, A) \cap Keeps(kept, B) = {}
          BY <3>3, <3>5, <3>6
        <4> QED
          BY <1>3, <3>6, <4>1, ResultAdds
      <3>7. \A A \in SUBSET closed : /\ m[A] \in Int /\ SumR(A) \in Int
                                       /\ SumR(Keeps(kept, A)) \in Int
        BY <1>3, <2>1, <3>3, ResultAdds
      <3>8. m[{}] = 0
        BY <1>3, <2>1, <3>2, <3>4, ResultAdds
      <3>9. ASSUME NEW A \in SUBSET closed, NEW B \in SUBSET closed, A \cap B = {}
            PROVE  m[A \cup B] = m[A] + m[B]
        <4>1. m[A \cup B] = SumR(Keeps(kept, A) \cup Keeps(kept, B)) - SumR(A \cup B)
          BY <2>1, <3>1, <3>5, <3>9
        <4>2. /\ m[A] = SumR(Keeps(kept, A)) - SumR(A)
              /\ m[B] = SumR(Keeps(kept, B)) - SumR(B)
          BY <2>1
        <4>3. /\ SumR(A) \in Int /\ SumR(Keeps(kept, A)) \in Int
              /\ SumR(B) \in Int /\ SumR(Keeps(kept, B)) \in Int
          BY <3>7
        <4>4. /\ SumR(Keeps(kept, A) \cup Keeps(kept, B))
                     = SumR(Keeps(kept, A)) + SumR(Keeps(kept, B))
              /\ SumR(A \cup B) = SumR(A) + SumR(B)
          BY <3>6, <3>9
        <4> QED
          BY <4>1, <4>2, <4>3, <4>4
      <3> QED
        BY <3>7, <3>8, <3>9 DEF Adds
    <2>3. SumR(Measured(P, h, C, m)) = m[closed]
      BY <1>14, <2>2
    <2>4. Measured(P, h, C, m) = {[of |-> x, r |-> x.candidate.total - x.baseline.total] : x \in result.windows}
      <3>1. \A v \in P : m[C[v]] = h[v].candidate.total - h[v].baseline.total
        BY <1>5, <1>11, <2>1
      <3> QED
        BY <1>1, <3>1 DEF Measured
    <2> QED
      BY <1>12, <2>1, <2>3, <2>4
  <1> QED
    BY <1>15, <1>16, <1>17, <1>18, <1>19 DEF Partitioned, SumOver

-----------------------------------------------------------------------------
(* The regime studies and the dataset.                                     *)

\* The boundary audit and the treatment of a trade.
LEMMA AuditMatches ==
    ASSUME ResearchIInv, NEW w, NEW x \in Trades(data), NEW audit, audit = Boundary(data, w, x)
    PROVE  IF audit = "untouched"
           THEN Treatment(data, w, x) \in {"outside", "purged_entry_exit"}
           ELSE Treatment(data, w, x) = AuditOf[audit]
  <1>1. \/ x.state = "closed" /\ x.exit # None
        \/ x.state = "censored" /\ x.exit = None
    BY ConsistentIs, TradeIs
  <1> DEFINE setup == Inside(w, Decision(data, x))
             entry == Inside(w, x.features.decision)
             exit == Inside(w, x.exit)
  <1>2. /\ ~setup /\ ~entry => audit = "untouched"
        /\ ~setup /\ entry => audit = "setup_out_entry_in"
        /\ setup /\ ~entry => audit = "setup_in_entry_out"
        /\ setup /\ entry /\ x.state = "censored"
              => audit = "setup_entry_in_censored_unresolved"
        /\ setup /\ entry /\ x.state = "closed"
              => audit = IF exit THEN "setup_entry_exit_included" ELSE "setup_entry_in_exit_out"
    BY DEF Boundary
  <1>3. /\ ~setup /\ ~entry => Treatment(data, w, x) \in {"outside", "purged_entry_exit"}
        /\ ~setup /\ entry => Treatment(data, w, x) = "purged_setup"
        /\ setup /\ ~entry => Treatment(data, w, x) = "purged_entry_exit"
        /\ setup /\ entry /\ x.state = "censored" => Treatment(data, w, x) = "censored"
        /\ setup /\ entry /\ x.state = "closed"
              => Treatment(data, w, x) = IF exit THEN "included" ELSE "purged_entry_exit"
    BY <1>1 DEF Treatment
  <1> HIDE DEF setup, entry, exit
  <1> QED
    BY <1>1, <1>2, <1>3 DEF AuditOf

\* How far the closes of a tape lie apart is at most the way they went.
LEMMA WayIsLonger ==
    ASSUME NEW a \in Int, NEW n \in Nat, NEW c, \A k \in a..(a + n) : c[k] \in Int
    PROVE  Distance(c[a + n], c[a])
              <= SumR({[of |-> k, r |-> Distance(c[k], c[k - 1])] : k \in (a + 1)..(a + n)})
  <1> DEFINE Step(k) == Distance(c[k], c[k - 1])
             Entry(k) == [of |-> k, r |-> Step(k)]
             Steps(m) == {Entry(k) : k \in (a + 1)..(a + m)}
             H == {m \in 0..n : /\ IsFiniteSet(Steps(m)) /\ SumR(Steps(m)) \in Int
                                /\ Distance(c[a + m], c[a]) <= SumR(Steps(m))}
  <1>1. \A k \in (a + 1)..(a + n) : Step(k) \in Int
    <2>1. \A k \in (a + 1)..(a + n) : k \in a..(a + n) /\ k - 1 \in a..(a + n)
      OBVIOUS
    <2> QED
      BY <2>1 DEF Distance
  <1>2. 0 \in H
    <2>1. (a + 1)..(a + 0) = {} /\ Steps(0) = {}
      OBVIOUS
    <2>2. SumR({}) = 0 /\ IsFiniteSet({})
      BY SumIs, FS_EmptySet
    <2>3. a + 0 = a /\ a \in a..(a + n)
      OBVIOUS
    <2>4. Distance(c[a], c[a]) = 0
      BY <2>3 DEF Distance
    <2> QED
      BY <2>1, <2>2, <2>3, <2>4
  <1>3. ASSUME NEW m \in 0..n, m \in H, m < n
        PROVE  m + 1 \in H
    <2> DEFINE j == a + (m + 1)
    <2>1. /\ j \in (a + 1)..(a + n) /\ j - 1 = a + m /\ j \in Int
          /\ (a + 1)..j = ((a + 1)..(a + m)) \cup {j} /\ j \notin (a + 1)..(a + m)
          /\ a \in a..(a + n) /\ a + m \in a..(a + n) /\ j \in a..(a + n)
          /\ m + 1 \in 0..n
      BY <1>3
    <2>2. \A k \in Int : Entry(k).of = k /\ Entry(k).r = Step(k)
      OBVIOUS
    <2>3. \A k \in (a + 1)..j : k \in (a + 1)..(a + n) /\ k \in Int
      BY <2>1
    <2>4. IsFiniteSet(Steps(m)) /\ SumR(Steps(m)) \in Int
          /\ Distance(c[a + m], c[a]) <= SumR(Steps(m))
      BY <1>3
    <2>5. c[a] \in Int /\ c[a + m] \in Int /\ c[j] \in Int
      BY <2>1
    <2>6. /\ Step(j) = Distance(c[j], c[a + m]) /\ Step(j) \in Int
          /\ Distance(c[j], c[a]) <= Step(j) + Distance(c[a + m], c[a])
          /\ Distance(c[j], c[a]) \in Int /\ Distance(c[a + m], c[a]) \in Int
      BY <2>1, <2>5 DEF Distance
    <2> HIDE DEF Entry, Step, j
    <2>7. Steps(m + 1) = Steps(m) \cup {Entry(j)} /\ Entry(j) \notin Steps(m)
      BY <2>1, <2>2, <2>3 DEF j
    <2> HIDE DEF Steps
    <2>8. Steps(m + 1) \ {Entry(j)} = Steps(m) /\ Entry(j) \in Steps(m + 1)
      BY <2>7
    <2>9. IsFiniteSet(Steps(m + 1))
      BY <2>4, <2>7, FS_AddElement
    <2>10. \A s \in Steps(m + 1) : s.r \in Int
      BY <1>1, <2>1, <2>2, <2>3 DEF Steps, j
    <2>11. SumR(Steps(m + 1)) = Entry(j).r + SumR(Steps(m)) /\ SumR(Steps(m + 1)) \in Int
      BY <2>8, <2>9, <2>10, SumAny
    <2>12. Distance(c[j], c[a]) <= SumR(Steps(m + 1))
      BY <2>1, <2>2, <2>4, <2>6, <2>11
    <2> QED
      BY <2>1, <2>9, <2>11, <2>12 DEF j
  <1>4. H = 0..n
    <2> HIDE DEF H
    <2>1. H \in SUBSET (0..n)
      BY DEF H
    <2> QED
      BY <1>2, <1>3, <2>1, UpTo
  <1>5. n \in H
    <2> HIDE DEF H
    <2> QED
      BY <1>4
  <1> QED
    BY <1>5

\* A directional efficiency is a share.
LEMMA EfficiencyIsShare ==
    ASSUME ResearchIInv, NEW o \in DOMAIN data.setups, NEW n \in EfficiencyBars,
           NEW part, part = RegimeRow(tape, data.setups[o]).efficiency[n], part # None
    PROVE  part[1] <= part[2]
  <1>1. TapeOK(tape, now) /\ Consistent(tape, now, slot, data)
    BY ConsistentIs DEF Consistent
  <1>2. PICK i : i = CHOOSE k \in DOMAIN tape :
                         Finalized(tape[k]) = data.setups[o].features.decision
    OBVIOUS
  <1>3. i \in DOMAIN tape
    <2>1. data.setups = Collected(tape).setups
      BY <1>1, DataIs
    <2>2. \E k \in DOMAIN tape : Finalized(tape[k]) = o
      BY <1>1, <2>1 DEF Consistent, BookOK, SetupOK
    <2>3. data.setups[o].features.decision = o
      BY SetupIs
    <2> QED
      BY <1>2, <2>2, <2>3
  <1>4. part = Efficiency(tape, i, n)
    BY <1>2 DEF RegimeRow
  <1>5. n \in Nat \ {0} /\ i \in Nat /\ i \in 1..Len(tape) /\ DOMAIN tape = 1..Len(tape)
        /\ Len(tape) \in Nat
    BY <1>1, <1>3, BarOf, RegimeAssumption DEF TapeOK
  <1> DEFINE close(k) == tape[k].quote.close
             way == SumOver((i - n + 1)..i, LAMBDA k : Distance(close(k), close(k - 1)))
  <1>6. Consecutive(tape, i, n)
    BY <1>4 DEF Efficiency
  <1>7. n < i
    BY <1>6 DEF Consecutive
  <1>8. PICK a, c : a = i - n /\ c = [k \in DOMAIN tape |-> close(k)]
    OBVIOUS
  <1>9. /\ a \in Int /\ a + n = i /\ a + 1 = i - n + 1
        /\ \A k \in a..(a + n) : k \in DOMAIN tape /\ c[k] = close(k)
        /\ \A k \in (a + 1)..(a + n) : k - 1 \in a..(a + n) /\ k \in a..(a + n)
        /\ a \in a..(a + n) /\ a + n \in a..(a + n)
    BY <1>5, <1>7, <1>8
  <1>10. \A k \in a..(a + n) : c[k] \in Int
    <2>1. \A k \in DOMAIN tape : tape[k].quote \in AllQuotes
      BY <1>1, BarOf
    <2>2. \A q \in AllQuotes : q.close \in Int
      BY QuotesAssumption
    <2> QED
      BY <1>9, <2>1, <2>2
  <1>11. way = SumR({[of |-> k, r |-> Distance(c[k], c[k - 1])] : k \in (a + 1)..(a + n)})
    <2>1. \A k \in (a + 1)..(a + n) : c[k] = close(k) /\ c[k - 1] = close(k - 1)
      BY <1>9
    <2>2. {[of |-> k, r |-> Distance(close(k), close(k - 1))] : k \in (a + 1)..(a + n)}
            = {[of |-> k, r |-> Distance(c[k], c[k - 1])] : k \in (a + 1)..(a + n)}
      BY <2>1
    <2> QED
      BY <1>9, <2>2 DEF SumOver
  <1>12. Distance(close(i), close(i - n)) <= way
    <2>1. Distance(c[a + n], c[a])
            <= SumR({[of |-> k, r |-> Distance(c[k], c[k - 1])] : k \in (a + 1)..(a + n)})
      BY <1>5, <1>9, <1>10, WayIsLonger
    <2>2. c[a + n] = close(i) /\ c[a] = close(i - n)
      BY <1>8, <1>9
    <2> QED
      BY <1>11, <2>1, <2>2
  <1>13. part = IF way = 0 THEN <<0, 1>> ELSE <<Distance(close(i), close(i - n)), way>>
    BY <1>4, <1>6 DEF Efficiency
  <1> HIDE DEF way, close
  <1>14. CASE way = 0
    BY <1>13, <1>14
  <1>15. CASE way # 0
    BY <1>12, <1>13, <1>15
  <1> QED
    BY <1>14, <1>15

\* A trade can be replayed exactly if no bar of it is missing.
LEMMA ReplayableIs ==
    ASSUME ResearchIInv, NEW x \in Trades(data), x.state = "closed"
    PROVE  Replayable(tape, x) = ("post_entry_15m_gap" \notin x.flags)
  <1>1. Consistent(tape, now, slot, data) /\ TapeOK(tape, now)
    BY ConsistentIs DEF Consistent
  <1>2. PICK k \in DOMAIN data.trades : x = data.trades[k]
    BY <1>1, DataIs
  <1>3. PICK e : e = Collected(tape).entries[k]
    OBVIOUS
  <1>4. /\ x = TradeRow(tape, e) /\ e.trade.id = k /\ e.at \in DOMAIN tape
        /\ x.features = EntryFeatures(tape, e.at, e.trade.side)
        /\ x.state = OutcomeOf(tape, e).state
    BY <1>1, <1>2, <1>3, RowOf
  <1>5. Closes(tape, k) # {}
    BY <1>1, <1>2, RowIsValid
  <1>6. ValidClosed(x)
    BY <1>1, <1>2, <1>5, RowIsValid
  <1>7. PICK close \in Closes(tape, k) : TRUE
    BY <1>5
  <1>8. /\ Closes(tape, k) = {close} /\ close[1] \in DOMAIN tape /\ e.at < close[1]
    <2>1. tape \in Seq(Bars) /\ EventsOK(tape, Collected(tape).entries, slot)
      BY <1>1 DEF Consistent, TapeOK
    <2> QED
      BY <1>3, <1>7, <2>1, ClosesIs
  <1>9. PICK at, last : at = e.at /\ last = close[1]
    OBVIOUS
  <1>10. OutcomeOf(tape, e) = Outcome(tape, e, last, close[2])
    BY <1>4, <1>8, <1>9, OutcomeIs
  <1>11. /\ x.observed = last - at /\ x.expected = tape[last].open - tape[at].open
         /\ x.exit = Finalized(tape[last])
    <2> DEFINE f == EntryFeatures(tape, e.at, e.trade.side)
               out == OutcomeOf(tape, e)
    <2>1. DOMAIN out = OutcomeFields
      BY OutcomeIs
    <2>2. x = Join(Entered(e, f, out), out)
      BY <1>4, RowFromParts
    <2>3. /\ out.observed = last - at /\ out.expected = tape[last].open - tape[at].open
          /\ out.exit = Finalized(tape[last])
      BY <1>9, <1>10 DEF Outcome
    <2> HIDE DEF f, out
    <2>4. x.observed = out.observed /\ x.expected = out.expected /\ x.exit = out.exit
      BY <2>1, <2>2, Joined
    <2> QED
      BY <2>3, <2>4
  <1>12. x.features.open = tape[at].open
    BY <1>4, <1>9 DEF EntryFeatures
  <1>0. PICK t0, t1 : t0 = tape[at].open /\ t1 = tape[last].open
    OBVIOUS
  <1> DEFINE opens == (t0 + 1)..(t0 + (t1 - t0))
             Opens == {tape[i].open : i \in DOMAIN tape}
  <1>13. /\ at \in DOMAIN tape /\ last \in DOMAIN tape /\ at < last
         /\ at \in Nat /\ last \in Nat /\ t0 \in Nat /\ t1 \in Nat /\ t0 < t1
         /\ DOMAIN tape = 1..Len(tape) /\ Len(tape) \in Nat
         /\ \A i \in DOMAIN tape : tape[i].open \in Nat
    <2>1. at \in DOMAIN tape /\ last \in DOMAIN tape /\ at < last
      BY <1>4, <1>8, <1>9
    <2>2. t0 < t1
      BY <1>0, <1>1, <2>1 DEF TapeOK
    <2>3. \A i \in DOMAIN tape : tape[i].open \in Nat /\ i \in Nat
      BY <1>1, BarOf
    <2>4. DOMAIN tape = 1..Len(tape) /\ Len(tape) \in Nat
      BY <1>1 DEF TapeOK
    <2> QED
      BY <1>0, <2>1, <2>2, <2>3, <2>4
  <1>14. Largest(opens) + 1 = x.exit
    <2>1. /\ opens \subseteq Int /\ opens # {} /\ t1 \in opens
          /\ \A t \in opens : t <= t1
      <3>1. t0 \in Nat /\ t1 \in Nat /\ t0 < t1 /\ t0 + (t1 - t0) = t1
        BY <1>13
      <3>2. opens = (t0 + 1)..t1
        BY <3>1
      <3> HIDE DEF opens
      <3>3. opens \subseteq Int /\ \A t \in opens : t <= t1
        BY <3>1, <3>2
      <3>4. t1 \in opens
        BY <3>1, <3>2
      <3> QED
        BY <3>3, <3>4
    <2> HIDE DEF opens
    <2>2. Largest(opens) \in opens /\ \A t \in opens : t <= Largest(opens)
      BY <1>13, <2>1, LargestIs
    <2>3. ASSUME NEW top, top \in opens, \A t \in opens : t <= top
          PROVE  top = t1
      <3>1. top \in Int /\ t1 \in Int /\ top <= t1 /\ t1 <= top
        BY <1>13, <2>1, <2>3
      <3> QED
        BY <3>1
    <2>4. Largest(opens) = t1
      BY <2>2, <2>3
    <2> QED
      BY <1>0, <1>11, <2>4 DEF Finalized
  <1>15. Replayable(tape, x) <=> opens \subseteq Opens
    BY <1>0, <1>11, <1>12, <1>14 DEF Replayable
  <1>16. "post_entry_15m_gap" \notin x.flags <=> x.observed = x.expected
    <2>1. x.observed \in Int /\ x.expected \in Int
      BY <1>0, <1>11, <1>13
    <2>2. /\ x.mae = None /\ x.mfe = None
              => "post_entry_15m_gap" \in x.flags /\ x.observed < x.expected
          /\ ~(x.mae = None /\ x.mfe = None)
              => "post_entry_15m_gap" \notin x.flags /\ x.observed = x.expected
      BY <1>6 DEF ValidClosed
    <2> QED
      BY <2>1, <2>2
  <1>17. ASSUME last - at = t1 - t0, NEW t \in opens
         PROVE  t \in Opens
    <2>1. PICK i : i = at + (t - t0)
      OBVIOUS
    <2>2. /\ i \in DOMAIN tape /\ at < i /\ i <= last /\ i \in Nat /\ t \in Int
      BY <1>13, <1>17, <2>1
    <2>3. i - at <= tape[i].open - t0
      BY <1>0, <1>1, <1>13, <2>2, BarsBetween
    <2>4. CASE i = last
      <3>1. t = t1
        BY <1>13, <1>17, <2>1, <2>2, <2>4
      <3> QED
        BY <1>0, <1>13, <3>1
    <2>5. CASE i < last
      <3>1. last - i <= t1 - tape[i].open
        BY <1>0, <1>1, <1>13, <2>2, <2>5, BarsBetween
      <3>2. tape[i].open \in Int
        BY <1>13, <2>2
      <3>3. PICK u \in Int : u = tape[i].open
        BY <3>2
      <3>4. i - at <= u - t0 /\ last - i <= t1 - u
        BY <2>3, <3>1, <3>3
      <3>5. u = t
        BY <1>13, <1>17, <2>1, <2>2, <3>4
      <3> QED
        BY <2>2, <3>3, <3>5
    <2> QED
      BY <1>13, <2>2, <2>4, <2>5
  <1>18. ASSUME opens \subseteq Opens
         PROVE  last - at = t1 - t0
    <2> DEFINE H == {m \in 0..(last - at) : tape[at + m].open = t0 + m}
    <2>1. 0 \in H
      BY <1>0, <1>13
    <2>2. ASSUME NEW m \in 0..(last - at), m \in H, m < last - at
          PROVE  m + 1 \in H
      <3> DEFINE i == at + m
                 j == at + (m + 1)
      <3>1. /\ i \in DOMAIN tape /\ j \in DOMAIN tape /\ i < j /\ j = i + 1 /\ j <= last
            /\ i \in Nat /\ j \in Nat /\ m \in Nat /\ m + 1 \in 0..(last - at)
        BY <1>13, <2>2
      <3>2. tape[i].open = t0 + m
        BY <2>2
      <3>3. tape[i].open < tape[j].open /\ (j < last => tape[j].open < t1)
        BY <1>0, <1>1, <1>13, <3>1 DEF TapeOK
      <3>4. tape[j].open <= t1 /\ tape[j].open \in Nat /\ tape[i].open \in Nat
        <4> HIDE DEF i, j, H
        <4>1. tape[j].open \in Nat /\ tape[i].open \in Nat /\ t1 \in Nat
          BY <1>13, <3>1
        <4>2. j \in Nat /\ last \in Nat /\ (j = last \/ j < last)
          BY <1>13, <3>1
        <4>3. CASE j = last
          <5>1. tape[j].open = t1
            BY <1>0, <1>13, <4>3
          <5> QED
            BY <4>1, <5>1
        <4>4. CASE j < last
          BY <3>3, <4>1, <4>4
        <4> QED
          BY <4>1, <4>2, <4>3, <4>4
      <3>5. t0 + m + 1 \in opens
        <4>1. t0 \in Nat /\ t1 \in Nat /\ m \in Nat
          BY <1>13, <3>1
        <4>2. t0 + m + 1 <= t1
          BY <3>2, <3>3, <3>4, <4>1
        <4> QED
          BY <4>1, <4>2
      <3>6. PICK k0 \in DOMAIN tape : tape[k0].open = t0 + m + 1
        BY <1>18, <3>5
      <3> HIDE DEF i, j
      <3>7. k0 \in Nat /\ (k0 < i \/ k0 = i \/ k0 = j \/ j < k0)
        BY <1>13, <3>1
      <3>8. tape[j].open = t0 + m + 1
        <4>1. CASE k0 < i
          <5>1. tape[k0].open < tape[i].open
            BY <1>1, <3>1, <4>1 DEF TapeOK
          <5> QED
            BY <1>13, <3>1, <3>2, <3>6, <5>1
        <4>2. CASE k0 = i
          BY <1>13, <3>1, <3>2, <3>6, <4>2
        <4>3. CASE k0 = j
          BY <3>6, <4>3
        <4>4. CASE j < k0
          <5>1. tape[j].open < tape[k0].open
            BY <1>1, <3>1, <4>4 DEF TapeOK
          <5> QED
            BY <1>13, <3>1, <3>2, <3>3, <3>4, <3>6, <5>1
        <4> QED
          BY <3>7, <4>1, <4>2, <4>3, <4>4
      <3>9. t0 + (m + 1) = t0 + m + 1
        <4>1. t0 \in Nat /\ m \in Nat
          BY <1>13, <3>1
        <4> QED
          BY <4>1
      <3> QED
        BY <3>1, <3>8, <3>9 DEF j
    <2>3. last - at \in Nat /\ at + (last - at) = last
      BY <1>13
    <2>4. H \in SUBSET (0..(last - at))
      OBVIOUS
    <2> HIDE DEF H
    <2>5. H = 0..(last - at)
      BY <2>1, <2>2, <2>3, <2>4, UpTo
    <2>6. last - at \in H
      BY <2>3, <2>5
    <2>7. t1 = t0 + (last - at)
      BY <1>0, <2>3, <2>6 DEF H
    <2> QED
      BY <1>13, <2>7
  <1>19. Replayable(tape, x) <=> "post_entry_15m_gap" \notin x.flags
    <2> HIDE DEF opens, Opens
    <2>1. last - at = t1 - t0 <=> opens \subseteq Opens
      BY <1>17, <1>18
    <2> QED
      BY <1>0, <1>11, <1>15, <1>16, <2>1
  <1>20. Replayable(tape, x) \in BOOLEAN
    BY DEF Replayable
  <1> QED
    BY <1>19, <1>20

LEMMA PopulationsAlwaysAgree == ResearchIInv => PopulationsAgree
  <1> SUFFICES ASSUME ResearchIInv PROVE PopulationsAgree
    OBVIOUS
  <1>1. ASSUME NEW role \in {"development", "validation"}
        PROVE  \A rows \in {Population(data, tape, Windows[role])} :
                 /\ Included(rows) = Treated(data, Windows[role], "included")
                 /\ \A spec \in Specs :
                      \A result \in {CandidateResult(data, rows, Windows[role],
                                                      Parts[role], spec)} :
                          Partitioned(result)
    <2>1. PICK w : w = Windows[role]
      OBVIOUS
    <2> SUFFICES ASSUME NEW rows, rows = Population(data, tape, w)
                 PROVE  /\ Included(rows) = Treated(data, w, "included")
                        /\ \A spec \in Specs :
                              \A result \in {CandidateResult(data, rows, w, Parts[role], spec)} :
                                  Partitioned(result)
      BY <2>1
    <2>2. Included(rows) = Treated(data, w, "included")
      BY PopulationIs, ConsistentIs, SameTrades
    <2>3. role \in Roles
      BY EvidenceAssumption DEF Roles, WindowsAssumption
    <2>4. \A spec \in Specs : \A result : result = CandidateResult(data, rows, w, Parts[role], spec)
                                              => Partitioned(result)
      BY <2>1, <2>3, PartsDivide
    <2> QED
      BY <2>2, <2>4
  <1> QED
    BY <1>1, AuditMatches, EfficiencyIsShare, ReplayableIs DEF PopulationsAgree

\* PipelineConsistent: a trade and its setup know each other, the status of a
\* setup is that of the slot, it is without a reason exactly if a trade was held
\* over its bar (step of strategy/engine.py answers a flip to the side of the open
\* trade with no event), no build raises, and every row passes the checks of
\* metrics.py and of dataset.py, _validate_build; candidates.py, exit_experiments.py, pipeline.py
\* and splits.py select the same trades of a window, the buckets of experiments.py
\* divide them and the parts of regime_candidates.py divide what its setups lead
\* to; register_development_candidate accepts every canonical report; the reports
\* of pipeline.py, failure_modes.py and market_transfer.py add up; the population
\* and the boundary audit of regime_diagnosis.py tell the same story as the
\* baseline report, the parts of _evaluate add up to the window, and
\* exit_experiments.py finds every bar of a trade exactly if its row has no gap;
\* and edge_attribution.py reconciles its tables and its windows exactly when it
\* should.
THEOREM PipelineAlwaysConsistent == Spec => []PipelineConsistent
<1>1. ResearchIInv /\ StopsLose => PipelineConsistent
  BY RowsAgreeAlways, WindowsAgreeAlways, RegistrationAlwaysPasses, ReportsAlwaysAddUp,
     PopulationsAlwaysAgree, AttributionAlwaysReconciles
     DEF PipelineConsistent
<1> QED
  BY <1>1, ResearchInvariant, StopsAlwaysLose, PTL
=============================================================================
