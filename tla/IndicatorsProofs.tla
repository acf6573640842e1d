--------------------------- MODULE IndicatorsProofs ---------------------------
(***************************************************************************)
(* Proofs about Indicators, for any lengths, weights, factor and candles.  *)
(***************************************************************************)
EXTENDS Indicators, WellFoundedInduction, TLAPS

-----------------------------------------------------------------------------
(* Numbers.                                                                *)

\* A non-empty set of natural numbers has a least element.
LEMMA LeastNat ==
    ASSUME NEW S, S \subseteq Nat, S # {}
    PROVE  \E n \in S : \A m \in S : n <= m
  <1> DEFINE R == OpToRel(<, Nat)
  <1>1. \E n \in S : \A m \in S : ~ (<<m, n>> \in R)
    <2> HIDE DEF R
    <2> QED
      BY NatLessThanWellFounded, WFMin DEF R
  <1>2. PICK n \in S : \A m \in S : ~ (<<m, n>> \in R)
    BY <1>1
  <1>3. ASSUME NEW m \in S
        PROVE  n <= m
    <2>1. <<m, n>> \in Nat \X Nat /\ ~ (<<m, n>> \in R)
      BY <1>2
    <2>2. ~ (m < n)
      BY <2>1 DEF OpToRel
    <2> QED
      BY <2>2
  <1> QED
    BY <1>3

\* What holds at 0 and is passed on by every step up to n holds up to n.
LEMMA UpTo ==
    ASSUME NEW n \in Nat, NEW H \in SUBSET (0..n), 0 \in H,
           \A i \in 0..n : i \in H /\ i < n => i + 1 \in H
    PROVE  H = 0..n
  <1> SUFFICES ASSUME (0..n) \ H # {}
               PROVE  FALSE
    OBVIOUS
  <1>1. PICK i \in (0..n) \ H : \A j \in (0..n) \ H : i <= j
    <2> DEFINE S == (0..n) \ H
    <2>1. S \subseteq Nat /\ S # {}
      OBVIOUS
    <2> HIDE DEF S
    <2>2. \E i \in S : \A j \in S : i <= j
      BY <2>1, LeastNat
    <2> QED
      BY <2>2 DEF S
  <1>2. i # 0 /\ i \in 0..n
    BY <1>1
  <1>3. i - 1 \in 0..n /\ i - 1 < n /\ ~(i <= i - 1) /\ (i - 1) + 1 = i
    BY <1>2
  <1>4. i - 1 \in H
    BY <1>1, <1>3
  <1>5. i \in H
    BY <1>3, <1>4
  <1> QED
    BY <1>1, <1>5

\* The largest of a few numbers.
LEMMA MaxPair ==
    ASSUME NEW a \in Int, NEW b \in Int
    PROVE  Max({a, b}) = IF a >= b THEN a ELSE b
<1> DEFINE m == IF a >= b THEN a ELSE b
<1>1. m \in {a, b} /\ \A y \in {a, b} : m >= y
  OBVIOUS
<1>2. \A x \in {a, b} : (\A y \in {a, b} : x >= y) => x = m
  OBVIOUS
<1> HIDE DEF m
<1>3. Max({a, b}) = m
  BY <1>1, <1>2 DEF Max
<1> QED BY <1>3 DEF m

LEMMA MaxTriple ==
    ASSUME NEW a \in Int, NEW b \in Int, NEW c \in Int
    PROVE  Max({a, b, c}) \in Int /\ Max({a, b, c}) >= a
<1> DEFINE S == {a, b, c}
<1>1. \E x \in S : \A y \in S : x >= y
  <2>1. CASE a >= b /\ a >= c
    BY <2>1
  <2>2. CASE b >= a /\ b >= c
    BY <2>2
  <2>3. CASE c >= a /\ c >= b
    BY <2>3
  <2> QED BY <2>1, <2>2, <2>3
<1>2. a \in S /\ S \subseteq Int
  OBVIOUS
<1> HIDE DEF S
<1>3. Max(S) \in S /\ \A y \in S : Max(S) >= y
  BY <1>1, Zenon DEF Max
<1>4. Max(S) \in Int /\ Max(S) >= a
  BY <1>2, <1>3
<1> QED BY <1>4 DEF S

LEMMA MaxUpTo ==
    ASSUME NEW n \in Nat, NEW S, S \subseteq 1..n, S # {}
    PROVE  Max(S) \in S
<1> DEFINE T == {n - x : x \in S}
<1>1. T \subseteq Nat /\ T # {}
  <2>1. ASSUME NEW x \in S
        PROVE  n - x \in Nat
    <3>1. x \in 1..n
      OBVIOUS
    <3> QED BY <3>1
  <2>2. PICK x : x \in S
    OBVIOUS
  <2>3. n - x \in T
    BY <2>2
  <2> QED BY <2>1, <2>3
<1>2. \E d \in T : \A e \in T : d <= e
  <2> HIDE DEF T
  <2> QED BY <1>1, LeastNat
<1>3. \E x \in S : \A y \in S : n - x <= n - y
  BY <1>2
<1>4. \E x \in S : \A y \in S : x >= y
  <2>1. PICK x \in S : \A y \in S : n - x <= n - y
    BY <1>3
  <2>2. ASSUME NEW y \in S
        PROVE  x >= y
    <3>1. x \in 1..n /\ y \in 1..n /\ n - x <= n - y
      BY <2>1
    <3> QED BY <3>1
  <2> QED BY <2>1, <2>2
<1> QED BY <1>4, Zenon DEF Max

\* The lengths of the EMAs of a HEMA.
LEMMA LengthsIs ==
    ASSUME NEW n \in Nat, n > 0
    PROVE  RoundedHalf(n) \in 1..n /\ RoundedRoot(n) \in 1..n
<1>1. PICK h \in Int : h = (n + 1) \div 2 /\ 2 * h <= n + 1 /\ n + 1 < 2 * h + 2
  OBVIOUS
<1>2. RoundedHalf(n) \in 1..n
  <2>1. Max({1, h}) = IF 1 >= h THEN 1 ELSE h
    BY MaxPair
  <2> QED BY <1>1, <2>1 DEF RoundedHalf
<1>3. RoundedRoot(n) \in 1..n
  <2> DEFINE S == {1} \cup {r \in 1..n : (2 * r - 1) * (2 * r - 1) <= 4 * n}
  <2>1. S \subseteq 1..n /\ S # {}
    OBVIOUS
  <2>2. RoundedRoot(n) = Max(S)
    BY DEF RoundedRoot
  <2> HIDE DEF S
  <2> QED BY <2>1, <2>2, MaxUpTo
<1> QED BY <1>2, <1>3

\* The sum of whole, or of natural numbers is one.
LEMMA SumIs ==
    ASSUME NEW S \in {Int, Nat}, NEW amounts \in Seq(S)
    PROVE  Sum(amounts) \in S
<1> DEFINE n == Len(amounts)
           Is(f, k) == f = [i \in 0..k |-> IF i = 0 THEN 0 ELSE f[i - 1] + amounts[i]]
           Sums(f, k) == Is(f, k) /\ \A i \in 0..k : f[i] \in S
           H == {k \in 0..n : \E f : Sums(f, k)}
<1>1. n \in Nat /\ 0 \in S /\ (\A a, b \in S : a + b \in S) /\ \A i \in 1..n : amounts[i] \in S
  OBVIOUS
<1> HIDE DEF n
<1>2. 0 \in H
  <2>1. Is([i \in 0..0 |-> 0], 0)
    OBVIOUS
  <2>2. 0 \in 0..n /\ \A i \in 0..0 : [j \in 0..0 |-> 0][i] \in S
    BY <1>1
  <2> HIDE DEF Is
  <2> QED BY <2>1, <2>2
<1>3. ASSUME NEW k \in 0..n, k \in H, k < n
      PROVE  k + 1 \in H
  <2>1. PICK f : Sums(f, k)
    BY <1>3
  <2> DEFINE g == [i \in 0..k + 1 |-> IF i = k + 1 THEN f[k] + amounts[k + 1] ELSE f[i]]
  <2>2. ASSUME NEW i \in 0..k + 1
        PROVE  g[i] = (IF i = 0 THEN 0 ELSE g[i - 1] + amounts[i]) /\ g[i] \in S
    <3>1. f[k] \in S /\ amounts[k + 1] \in S /\ k + 1 \in 1..n
      BY <1>1, <1>3, <2>1
    <3>2. f[k] + amounts[k + 1] \in S
      BY <1>1, <3>1
    <3>3. CASE i = k + 1
      BY <1>1, <1>3, <3>2, <3>3
    <3>4. CASE i # k + 1
      <4>1. i \in 0..k
        BY <1>1, <1>3, <3>4
      <4>2. g[i] = f[i] /\ f[i] \in S
        BY <1>1, <1>3, <2>1, <3>4, <4>1
      <4>3. CASE i = 0
        <5>1. f[0] = 0
          BY <1>3, <2>1, <4>1, <4>3
        <5> QED BY <4>2, <4>3, <5>1
      <4>4. CASE i # 0
        <5>1. i - 1 \in 0..k /\ i - 1 \in 0..k + 1 /\ i - 1 # k + 1
          BY <1>1, <1>3, <4>1, <4>4
        <5>2. g[i - 1] = f[i - 1] /\ f[i] = f[i - 1] + amounts[i]
          BY <2>1, <4>1, <4>4, <5>1
        <5> QED BY <4>2, <4>4, <5>2
      <4> QED BY <4>3, <4>4
    <3> QED BY <3>3, <3>4
  <2>3. Is(g, k + 1)
    BY <2>2
  <2>4. k + 1 \in 0..n
    BY <1>1, <1>3
  <2>5. \A i \in 0..k + 1 : g[i] \in S
    BY <2>2
  <2> HIDE DEF g, Is
  <2> QED BY <2>3, <2>4, <2>5
<1>4. n \in H
  <2> HIDE DEF H
  <2>1. H \in SUBSET (0..n)
    BY DEF H
  <2>2. H = 0..n
    BY <1>1, <1>2, <1>3, <2>1, UpTo
  <2> QED BY <1>1, <2>2
<1>5. PICK f : Sums(f, n)
  BY <1>4
<1> DEFINE upTo == CHOOSE g : Is(g, n)
<1>6. Is(upTo, n)
  <2>1. \E g : Is(g, n)
    BY <1>5
  <2> HIDE DEF Is
  <2> QED BY <2>1
<1>7. Sum(amounts) = upTo[n]
  BY DEF Sum, n
<1> HIDE DEF upTo
<1> DEFINE G == {k \in 0..n : upTo[k] \in S}
<1>8. 0 \in G /\ \A k \in 0..n : k \in G /\ k < n => k + 1 \in G
  <2>1. upTo[0] = 0 /\ \A i \in 1..n : upTo[i] = upTo[i - 1] + amounts[i]
    BY <1>1, <1>6
  <2>2. ASSUME NEW k \in 0..n, upTo[k] \in S, k < n
        PROVE  upTo[k + 1] \in S /\ k + 1 \in 0..n
    <3>1. k + 1 \in 1..n /\ (k + 1) - 1 = k
      BY <1>1, <2>2
    <3>2. upTo[k + 1] = upTo[k] + amounts[k + 1] /\ amounts[k + 1] \in S
      BY <1>1, <2>1, <3>1
    <3>3. upTo[k] + amounts[k + 1] \in S
      BY <1>1, <2>2, <3>2
    <3> QED BY <3>1, <3>2, <3>3
  <2> QED BY <1>1, <2>1, <2>2
<1>9. G = 0..n
  <2> HIDE DEF G
  <2>1. G \in SUBSET (0..n)
    BY DEF G
  <2> QED BY <1>1, <1>8, <2>1, UpTo
<1>10. n \in G
  <2>1. n \in 0..n
    BY <1>1
  <2> HIDE DEF G
  <2> QED BY <1>9, <2>1
<1> QED BY <1>7, <1>10
-----------------------------------------------------------------------------
(* Averages: what a series of n observations leaves, whole or not negative. *)

AverageOK(S, avg, length, n) ==
    /\ avg = [length |-> length, value |-> avg.value, seeds |-> avg.seeds, observations |-> n]
    /\ n < length => avg.value = NA /\ avg.seeds \in Seq(S) /\ Len(avg.seeds) = n
    /\ n >= length => avg.value \in S /\ avg.seeds = <<>>

LEMMA NewAverageOK ==
    ASSUME NEW S \in {Int, Nat}, NEW length \in Nat \ {0}
    PROVE  AverageOK(S, NewAverage(length), length, 0)
BY DEF AverageOK, NewAverage

\* Weights that are not negative keep numbers that are not negative.
LEMMA SmoothedIs ==
    ASSUME NEW S \in {Int, Nat}, NEW weight \in Nat, NEW whole \in Nat \ {0}, weight <= whole,
           NEW a \in S, NEW b \in S
    PROVE  (weight * a + (whole - weight) * b) \div whole \in S
<1>1. CASE S = Int
  <2> DEFINE x == weight * a + (whole - weight) * b
  <2>1. x \in Int
    BY <1>1
  <2> HIDE DEF x
  <2>2. x \div whole \in Int
    BY <2>1
  <2> QED BY <1>1, <2>2 DEF x
<1>2. CASE S = Nat
  <2> DEFINE x == weight * a
             y == (whole - weight) * b
  <2>1. x \in Nat /\ y \in Nat
    BY <1>2
  <2> HIDE DEF x, y
  <2>2. (x + y) \div whole \in Nat
    BY <2>1
  <2> QED BY <1>2, <2>2 DEF x, y
<1> QED BY <1>1, <1>2

LEMMA MeanIs ==
    ASSUME NEW S \in {Int, Nat}, NEW seeds \in Seq(S), NEW length \in Nat \ {0}
    PROVE  Sum(seeds) \div length \in S
<1>1. Sum(seeds) \in S
  BY SumIs
<1> DEFINE x == Sum(seeds)
<1> HIDE DEF x
<1>2. CASE S = Int
  BY <1>1, <1>2 DEF x
<1>3. CASE S = Nat
  <2>1. x \in Nat
    BY <1>1, <1>3 DEF x
  <2>2. x \div length \in Nat
    BY <2>1
  <2> QED BY <1>3, <2>2 DEF x
<1> QED BY <1>2, <1>3

LEMMA AveragedOK ==
    ASSUME NEW S \in {Int, Nat}, NEW avg, NEW length \in Nat \ {0}, NEW n \in Nat,
           AverageOK(S, avg, length, n), NEW source \in S,
           NEW weight \in Nat, NEW whole \in Nat \ {0}, weight <= whole
    PROVE  AverageOK(S, Averaged(avg, source, weight, whole), length, n + 1)
<1> DEFINE value == avg.value
           seeds == avg.seeds
           next == Averaged(avg, source, weight, whole)
           more == Append(seeds, source)
<1>1. avg = [length |-> length, value |-> value, seeds |-> seeds, observations |-> n]
  BY DEF AverageOK
<1>2. source # NA /\ NA \notin S
  BY NaAssumption
<1> HIDE DEF value, seeds, more
<1>3. CASE n >= length
  <2> DEFINE mean == (weight * source + (whole - weight) * value) \div whole
  <2>1. value \in S /\ seeds = <<>>
    BY <1>3 DEF AverageOK, value, seeds
  <2>2. mean \in S
    BY <2>1, SmoothedIs
  <2>3. value # NA
    BY <1>2, <2>1
  <2>4. next = [length |-> length, value |-> mean, seeds |-> <<>>, observations |-> n + 1]
    BY <1>1, <1>2, <2>1, <2>3 DEF Averaged
  <2>5. n + 1 >= length /\ ~(n + 1 < length)
    BY <1>3
  <2> HIDE DEF mean, next
  <2>6. AverageOK(S, next, length, n + 1)
    BY <2>2, <2>4, <2>5 DEF AverageOK
  <2> QED BY <2>6 DEF next
<1>4. CASE n < length
  <2>1. value = NA /\ seeds \in Seq(S) /\ Len(seeds) = n
    BY <1>4 DEF AverageOK, value, seeds
  <2>2. more \in Seq(S) /\ Len(more) = n + 1
    BY <2>1 DEF more
  <2>3. CASE n + 1 < length
    <3>1. next = [length |-> length, value |-> NA, seeds |-> more, observations |-> n + 1]
      BY <1>1, <1>2, <2>1, <2>2, <2>3 DEF Averaged, more
    <3>2. ~(n + 1 >= length)
      BY <2>3
    <3> HIDE DEF next
    <3>3. AverageOK(S, next, length, n + 1)
      BY <2>2, <2>3, <3>1, <3>2 DEF AverageOK
    <3> QED BY <3>3 DEF next
  <2>4. CASE n + 1 = length
    <3> DEFINE mean == Sum(more) \div length
    <3>1. mean \in S
      BY <2>2, MeanIs
    <3>2. next = [length |-> length, value |-> mean, seeds |-> <<>>, observations |-> n + 1]
      <4>1. avg.value = NA /\ avg.length = length /\ ~(Len(more) < length)
        BY <1>1, <2>1, <2>2, <2>4
      <4>2. next = [[avg EXCEPT !.observations = @ + 1] EXCEPT !.seeds = <<>>, !.value = mean]
        BY <1>2, <4>1 DEF Averaged, more, seeds
      <4> HIDE DEF next, mean
      <4> QED BY <1>1, <4>2
    <3>3. n + 1 >= length /\ ~(n + 1 < length)
      BY <2>4
    <3> HIDE DEF next, mean
    <3>4. AverageOK(S, next, length, n + 1)
      BY <3>1, <3>2, <3>3 DEF AverageOK
    <3> QED BY <3>4 DEF next
  <2> QED BY <1>4, <2>3, <2>4
<1> QED BY <1>3, <1>4

LEMMA EMAOK ==
    ASSUME NEW avg, NEW length \in Nat \ {0}, NEW n \in Nat, AverageOK(Int, avg, length, n)
    PROVE  /\ EMA(avg, NA) = avg
           /\ \A source \in Int : AverageOK(Int, EMA(avg, source), length, n + 1)
<1>1. EMA(avg, NA) = avg
  BY DEF EMA, Averaged
<1>2. avg.length = length
  BY DEF AverageOK
<1>3. 2 \in Nat /\ length + 1 \in Nat \ {0} /\ 2 <= length + 1
  OBVIOUS
<1>4. ASSUME NEW source \in Int
      PROVE  AverageOK(Int, EMA(avg, source), length, n + 1)
  <2>1. AverageOK(Int, Averaged(avg, source, 2, length + 1), length, n + 1)
    BY <1>3, AveragedOK
  <2> QED BY <1>2, <2>1 DEF EMA
<1> QED BY <1>1, <1>4

LEMMA RMAOK ==
    ASSUME NEW avg, NEW length \in Nat \ {0}, NEW n \in Nat, AverageOK(Nat, avg, length, n),
           NEW source \in Nat
    PROVE  AverageOK(Nat, RMA(avg, source), length, n + 1)
<1>1. avg.length = length
  BY DEF AverageOK
<1>2. AverageOK(Nat, Averaged(avg, source, 1, length), length, n + 1)
  BY AveragedOK
<1> QED BY <1>1, <1>2 DEF RMA

\* A checkpoint of an average is accepted, and restored to the average.
LEMMA AverageSurvives ==
    ASSUME NEW S \in {Int, Nat}, NEW avg, NEW length \in Nat \ {0}, NEW n \in Nat,
           AverageOK(S, avg, length, n)
    PROVE  /\ AverageRestored(AverageDump(avg)) = avg
           /\ AverageValid(AverageDump(avg), length)
<1> DEFINE value == avg.value
           seeds == avg.seeds
           dumped == [i \in DOMAIN seeds |-> JsonSafe(seeds[i])]
<1>1. avg = [length |-> length, value |-> value, seeds |-> seeds, observations |-> n]
  BY DEF AverageOK
<1>2. (value = NA \/ value \in Int) /\ seeds \in Seq(Int)
  <2>1. (value = NA \/ value \in S) /\ seeds \in Seq(S)
    <3>1. CASE n < length
      BY <3>1 DEF AverageOK
    <3>2. CASE n >= length
      <4>1. value \in S /\ seeds = <<>>
        BY <3>2 DEF AverageOK
      <4>2. <<>> \in Seq(S)
        OBVIOUS
      <4> HIDE DEF value, seeds
      <4> QED BY <4>1, <4>2
    <3> QED BY <3>1, <3>2
  <2>2. S \subseteq Int
    OBVIOUS
  <2> HIDE DEF value, seeds
  <2> QED BY <2>1, <2>2
<1> HIDE DEF value, seeds
<1>3. \A i \in DOMAIN seeds : seeds[i] \in Int /\ JsonSafe(seeds[i]) = seeds[i]
  BY <1>2, NaAssumption DEF JsonSafe
<1>4. dumped = seeds
  BY <1>2, <1>3
<1> HIDE DEF dumped
<1>5. Float(JsonSafe(value)) = value
  BY <1>2, NaAssumption DEF Float, JsonSafe
<1>6. AverageDump(avg) = [length |-> length, value |-> JsonSafe(value), seeds |-> seeds, observations |-> n]
  <2>1. AverageDump(avg) = [length |-> length, value |-> JsonSafe(value), seeds |-> dumped, observations |-> n]
    <3>1. AverageDump(avg) = [avg EXCEPT !.value = JsonSafe(@), !.seeds = dumped]
      BY DEF AverageDump, dumped, seeds
    <3> QED BY <1>1, <3>1
  <2> QED BY <1>4, <2>1
<1>7. AverageRestored(AverageDump(avg)) = avg
  BY <1>1, <1>5, <1>6 DEF AverageRestored
<1>8. \A i \in DOMAIN seeds : seeds[i] # Null
  BY <1>3, NaAssumption
<1>9. AverageValid(AverageDump(avg), length)
  BY <1>6, <1>8 DEF AverageValid
<1> QED BY <1>7, <1>9
-----------------------------------------------------------------------------
(* HEMAs and the trend they make.                                          *)

HEMAOK(h, length, n) ==
    /\ h = [half |-> h.half, full |-> h.full, final |-> h.final]
    /\ AverageOK(Int, h.half, RoundedHalf(length), n)
    /\ AverageOK(Int, h.full, length, n)
    /\ AverageOK(Int, h.final, RoundedRoot(length), IF n < length THEN 0 ELSE n - length + 1)

\* The line of a HEMA begins with the bar that completes both of its averages.
LineOK(value, length, n) ==
    /\ n < length + RoundedRoot(length) - 1 => value = NA
    /\ n >= length + RoundedRoot(length) - 1 => value \in Int

LEMMA NewHEMAOK ==
    ASSUME NEW length \in Nat \ {0}
    PROVE  HEMAOK(NewHEMA(length), length, 0)
<1>1. RoundedHalf(length) \in Nat \ {0} /\ RoundedRoot(length) \in Nat \ {0}
  BY LengthsIs
<1>2. /\ AverageOK(Int, NewAverage(RoundedHalf(length)), RoundedHalf(length), 0)
      /\ AverageOK(Int, NewAverage(length), length, 0)
      /\ AverageOK(Int, NewAverage(RoundedRoot(length)), RoundedRoot(length), 0)
  BY <1>1, NewAverageOK
<1> QED BY <1>2 DEF HEMAOK, NewHEMA

LEMMA HEMAStepOK ==
    ASSUME NEW h, NEW length \in Nat \ {0}, NEW n \in Nat, HEMAOK(h, length, n),
           NEW source \in Int
    PROVE  HEMAOK(HEMA(h, source), length, n + 1)
<1> DEFINE a == RoundedHalf(length)
           c == RoundedRoot(length)
           half == EMA(h.half, source)
           full == EMA(h.full, source)
           difference == IF Known(half.value, full.value) THEN 2 * half.value - full.value ELSE NA
           final == EMA(h.final, difference)
           m == IF n < length THEN 0 ELSE n - length + 1
           next == IF n + 1 < length THEN 0 ELSE (n + 1) - length + 1
<1>1. a \in Nat \ {0} /\ c \in Nat \ {0} /\ a <= length
  BY LengthsIs
<1>2. HEMA(h, source) = [half |-> half, full |-> full, final |-> final]
  BY DEF HEMA
<1>3. AverageOK(Int, h.half, a, n) /\ AverageOK(Int, h.full, length, n) /\ AverageOK(Int, h.final, c, m)
  BY DEF HEMAOK
<1>4. m \in Nat /\ next \in Nat
  OBVIOUS
<1> HIDE DEF a, c
<1>5. AverageOK(Int, half, a, n + 1) /\ AverageOK(Int, full, length, n + 1)
  BY <1>1, <1>3, EMAOK
<1> HIDE DEF half, full
<1>6. CASE n + 1 < length
  <2>1. full.value = NA
    BY <1>5, <1>6 DEF AverageOK
  <2>2. difference = NA
    BY <2>1 DEF Known
  <2> HIDE DEF difference, m, next
  <2>3. final = h.final
    BY <1>1, <1>3, <1>4, <2>2, EMAOK
  <2>4. m = 0 /\ next = 0
    BY <1>6 DEF m, next
  <2> QED BY <1>3, <2>3, <2>4, <1>2, <1>5 DEF HEMAOK, a, c, next
<1>7. CASE n + 1 >= length
  <2>1. half.value \in Int /\ full.value \in Int
    <3>1. n + 1 \in Int /\ n + 1 >= a
      BY <1>1, <1>7
    <3> QED BY <1>5, <1>7, <3>1 DEF AverageOK
  <2>2. difference \in Int
    <3>1. half.value # NA /\ full.value # NA
      BY <2>1, NaAssumption
    <3>2. difference = 2 * half.value - full.value
      BY <3>1 DEF Known
    <3> QED BY <2>1, <3>2
  <2>3. next = m + 1
    BY <1>7
  <2> HIDE DEF difference, m, next
  <2>4. AverageOK(Int, final, c, m + 1)
    BY <1>1, <1>3, <1>4, <2>2, EMAOK
  <2> HIDE DEF final
  <2>5. AverageOK(Int, final, c, next)
    BY <2>3, <2>4
  <2> QED BY <2>5, <1>2, <1>5 DEF HEMAOK, a, c, next
<1> QED BY <1>6, <1>7

LEMMA HEMALine ==
    ASSUME NEW h, NEW length \in Nat \ {0}, NEW n \in Nat, HEMAOK(h, length, n)
    PROVE  LineOK(h.final.value, length, n)
<1> DEFINE c == RoundedRoot(length)
           value == h.final.value
           m == IF n < length THEN 0 ELSE n - length + 1
<1>1. c \in Nat \ {0}
  BY LengthsIs
<1>2. (m < c => value = NA) /\ (m >= c => value \in Int)
  BY DEF HEMAOK, AverageOK
<1> HIDE DEF value, c
<1>3. (n < length + c - 1 => m < c) /\ (n >= length + c - 1 => m >= c)
  BY <1>1
<1> QED BY <1>2, <1>3 DEF LineOK, value, c

TrendOK(t, n) ==
    /\ t = [fast |-> t.fast, slow |-> t.slow,
            previousFast |-> t.previousFast, previousSlow |-> t.previousSlow]
    /\ HEMAOK(t.fast, FastLength, n) /\ HEMAOK(t.slow, SlowLength, n)
    /\ t.previousFast = t.fast.final.value /\ t.previousSlow = t.slow.final.value

LEMMA LengthsAreNat ==
    /\ FastLength \in Nat \ {0} /\ SlowLength \in Nat \ {0} /\ AtrPeriod \in Nat \ {0}
    /\ Scale \in Nat \ {0} /\ V3 \in Nat /\ Drift \in Nat /\ V3 + Drift > 0 /\ Factor \in Int
BY ConfigAssumption, GainAssumption DEF LegalConfig

LEMMA NewTrendOK == TrendOK(NewHemaTrend, 0)
<1>1. HEMAOK(NewHEMA(FastLength), FastLength, 0) /\ HEMAOK(NewHEMA(SlowLength), SlowLength, 0)
  BY LengthsAreNat, NewHEMAOK
<1>2. NewHEMA(FastLength).final.value = NA /\ NewHEMA(SlowLength).final.value = NA
  BY DEF NewHEMA, NewAverage
<1> QED BY <1>1, <1>2 DEF TrendOK, NewHemaTrend

LEMMA TrendStepOK ==
    ASSUME NEW t, NEW n \in Nat, TrendOK(t, n), NEW close \in Int
    PROVE  TrendOK(HemaTrend(t, close), n + 1)
<1> DEFINE fast == HEMA(t.fast, close)
           slow == HEMA(t.slow, close)
<1>1. HEMAOK(fast, FastLength, n + 1) /\ HEMAOK(slow, SlowLength, n + 1)
  BY LengthsAreNat, HEMAStepOK DEF TrendOK
<1>2. HemaTrend(t, close) = [fast |-> fast, slow |-> slow, previousFast |-> fast.final.value,
                             previousSlow |-> slow.final.value]
  BY DEF HemaTrend
<1> HIDE DEF fast, slow
<1> QED BY <1>1, <1>2 DEF TrendOK

LEMMA TrendLines ==
    ASSUME NEW t, NEW n \in Nat, TrendOK(t, n)
    PROVE  LineOK(t.previousFast, FastLength, n) /\ LineOK(t.previousSlow, SlowLength, n)
BY LengthsAreNat, HEMALine DEF TrendOK
\* A checkpoint of a trend is accepted, and restored to the trend.
LEMMA HEMASurvives ==
    ASSUME NEW h, NEW length \in Nat \ {0}, NEW n \in Nat, HEMAOK(h, length, n)
    PROVE  HEMARestored(HEMADump(h)) = h /\ HEMAValid(HEMADump(h), length)
<1> DEFINE m == IF n < length THEN 0 ELSE n - length + 1
           half == h.half
           full == h.full
           final == h.final
<1>1. h = [half |-> half, full |-> full, final |-> final]
  BY DEF HEMAOK
<1>2. /\ AverageOK(Int, half, RoundedHalf(length), n) /\ AverageOK(Int, full, length, n)
      /\ AverageOK(Int, final, RoundedRoot(length), m)
  BY DEF HEMAOK
<1>3. m \in Nat /\ RoundedHalf(length) \in Nat \ {0} /\ RoundedRoot(length) \in Nat \ {0}
  BY LengthsIs
<1> HIDE DEF half, full, final, m
<1>4. /\ AverageRestored(AverageDump(half)) = half /\ AverageValid(AverageDump(half), RoundedHalf(length))
      /\ AverageRestored(AverageDump(full)) = full /\ AverageValid(AverageDump(full), length)
      /\ AverageRestored(AverageDump(final)) = final /\ AverageValid(AverageDump(final), RoundedRoot(length))
  BY <1>2, <1>3, AverageSurvives
<1>5. HEMADump(h) = [half |-> AverageDump(half), full |-> AverageDump(full), final |-> AverageDump(final)]
  BY <1>1 DEF HEMADump
<1>6. HEMARestored(HEMADump(h))
        = [half |-> AverageRestored(AverageDump(half)), full |-> AverageRestored(AverageDump(full)),
           final |-> AverageRestored(AverageDump(final))]
  BY <1>5 DEF HEMARestored
<1> QED BY <1>1, <1>4, <1>5, <1>6 DEF HEMAValid

LEMMA KnownSurvives ==
    ASSUME NEW x, x = NA \/ x \in Int
    PROVE  Float(JsonSafe(x)) = x
BY NaAssumption DEF Float, JsonSafe

LEMMA TrendSurvives ==
    ASSUME NEW t, NEW n \in Nat, TrendOK(t, n)
    PROVE  HemaTrendRestored(HemaTrendDump(t)) = t /\ HemaTrendValid(HemaTrendDump(t))
<1> DEFINE fast == t.fast
           slow == t.slow
           a == t.previousFast
           b == t.previousSlow
<1>1. t = [fast |-> fast, slow |-> slow, previousFast |-> a, previousSlow |-> b]
  BY DEF TrendOK
<1>2. HEMAOK(fast, FastLength, n) /\ HEMAOK(slow, SlowLength, n)
  BY DEF TrendOK
<1>3. (a = NA \/ a \in Int) /\ (b = NA \/ b \in Int)
  <2>1. LineOK(a, FastLength, n) /\ LineOK(b, SlowLength, n)
    BY TrendLines
  <2>2. RoundedRoot(FastLength) \in Nat /\ RoundedRoot(SlowLength) \in Nat
    BY LengthsAreNat, LengthsIs
  <2> HIDE DEF a, b
  <2> QED BY <2>1, <2>2, LengthsAreNat DEF LineOK
<1> HIDE DEF fast, slow, a, b
<1>4. /\ HEMARestored(HEMADump(fast)) = fast /\ HEMAValid(HEMADump(fast), FastLength)
      /\ HEMARestored(HEMADump(slow)) = slow /\ HEMAValid(HEMADump(slow), SlowLength)
  BY <1>2, LengthsAreNat, HEMASurvives
<1>5. Float(JsonSafe(a)) = a /\ Float(JsonSafe(b)) = b
  BY <1>3, KnownSurvives
<1>6. HemaTrendDump(t) = [fast |-> HEMADump(fast), slow |-> HEMADump(slow),
                          previousFast |-> JsonSafe(a), previousSlow |-> JsonSafe(b)]
  BY <1>1 DEF HemaTrendDump
<1>7. HemaTrendRestored(HemaTrendDump(t)) = t
  BY <1>1, <1>4, <1>5, <1>6 DEF HemaTrendRestored
<1>8. HemaTrendValid(HemaTrendDump(t))
  BY <1>4, <1>6 DEF HemaTrendValid
<1> QED BY <1>7, <1>8

\* The relation is there from the bar the longer warm-up needs.
LEMMA WarmUpIs ==
    /\ WarmUp \in Int
    /\ WarmUp = IF FastLength + RoundedRoot(FastLength) - 1 >= SlowLength + RoundedRoot(SlowLength) - 1
                THEN FastLength + RoundedRoot(FastLength) - 1
                ELSE SlowLength + RoundedRoot(SlowLength) - 1
<1> DEFINE a == FastLength + RoundedRoot(FastLength) - 1
           b == SlowLength + RoundedRoot(SlowLength) - 1
<1>1. a \in Int /\ b \in Int
  BY LengthsAreNat, LengthsIs
<1>2. {n + RoundedRoot(n) - 1 : n \in {FastLength, SlowLength}} = {a, b}
  OBVIOUS
<1> HIDE DEF a, b
<1>3. WarmUp = IF a >= b THEN a ELSE b
  BY <1>1, <1>2, MaxPair DEF WarmUp
<1>4. WarmUp \in Int
  BY <1>1, <1>3
<1> QED BY <1>3, <1>4 DEF a, b

LEMMA RelationIs ==
    ASSUME NEW t, (t.previousFast = NA \/ t.previousFast \in Int),
           (t.previousSlow = NA \/ t.previousSlow \in Int)
    PROVE  LET a == t.previousFast  b == t.previousSlow IN
           /\ Relation(t) = "unavailable" <=> a = NA \/ b = NA
           /\ Relation(t) = "above" <=> a # NA /\ b # NA /\ a > b
           /\ Relation(t) = "below" <=> a # NA /\ b # NA /\ a < b
           /\ Relation(t) = "equal" <=> a # NA /\ b # NA /\ a = b
<1> DEFINE a == t.previousFast
           b == t.previousSlow
<1>1. Relation(t) = CASE ~(a # NA /\ b # NA) -> "unavailable"
                      [] a # NA /\ b # NA /\ a > b -> "above"
                      [] a # NA /\ b # NA /\ a < b -> "below"
                      [] OTHER -> "equal"
  BY DEF Relation, Known, Gt, Lt
<1> HIDE DEF a, b
<1>2. (a = NA \/ a \in Int) /\ (b = NA \/ b \in Int)
  BY DEF a, b
<1> DEFINE r == Relation(t)
<1>3. CASE a = NA \/ b = NA
  <2>1. r = "unavailable"
    BY <1>1, <1>3
  <2> HIDE DEF r
  <2>2. /\ r = "unavailable" <=> a = NA \/ b = NA
        /\ r = "above" <=> a # NA /\ b # NA /\ a > b
        /\ r = "below" <=> a # NA /\ b # NA /\ a < b
        /\ r = "equal" <=> a # NA /\ b # NA /\ a = b
    BY <1>3, <2>1
  <2> QED BY <2>2 DEF r, a, b
<1>4. CASE a # NA /\ b # NA
  <2>1. a \in Int /\ b \in Int
    BY <1>2, <1>4
  <2>2. /\ a > b => r = "above"
        /\ a < b => r = "below"
        /\ a = b => r = "equal"
    BY <1>1, <1>4, <2>1
  <2> HIDE DEF r
  <2>3. /\ r = "unavailable" <=> a = NA \/ b = NA
        /\ r = "above" <=> a # NA /\ b # NA /\ a > b
        /\ r = "below" <=> a # NA /\ b # NA /\ a < b
        /\ r = "equal" <=> a # NA /\ b # NA /\ a = b
    BY <1>4, <2>1, <2>2
  <2> QED BY <2>3 DEF r, a, b
<1> QED BY <1>3, <1>4

LEMMA TrendReady ==
    ASSUME NEW t, NEW n \in Nat, TrendOK(t, n)
    PROVE  /\ t.previousFast = NA \/ t.previousFast \in Int
           /\ t.previousSlow = NA \/ t.previousSlow \in Int
           /\ Relation(t) = "unavailable" <=> n < WarmUp
<1> DEFINE a == t.previousFast
           b == t.previousSlow
           u == FastLength + RoundedRoot(FastLength) - 1
           v == SlowLength + RoundedRoot(SlowLength) - 1
<1>1. u \in Int /\ v \in Int
  BY LengthsAreNat, LengthsIs
<1>2. /\ n < u => a = NA
      /\ n >= u => a \in Int
      /\ n < v => b = NA
      /\ n >= v => b \in Int
  <2>1. LineOK(a, FastLength, n) /\ LineOK(b, SlowLength, n)
    BY TrendLines
  <2> HIDE DEF a, b
  <2> QED BY <2>1 DEF LineOK
<1>3. WarmUp = IF u >= v THEN u ELSE v
  BY WarmUpIs
<1> HIDE DEF u, v
<1>4. (a = NA \/ a \in Int) /\ (b = NA \/ b \in Int)
  <2> HIDE DEF a, b
  <2> QED BY <1>1, <1>2
<1>5. Relation(t) = "unavailable" <=> a = NA \/ b = NA
  BY <1>4, RelationIs
<1> HIDE DEF a, b
<1>6. a = NA \/ b = NA <=> n < WarmUp
  BY <1>1, <1>2, <1>3, NaAssumption
<1> QED BY <1>4, <1>5, <1>6 DEF a, b

\* A flip is a relation that becomes strict.
LEMMA FlipIs ==
    ASSUME NEW old, NEW new,
           old.previousFast = NA \/ old.previousFast \in Int,
           old.previousSlow = NA \/ old.previousSlow \in Int,
           new.previousFast = NA \/ new.previousFast \in Int,
           new.previousSlow = NA \/ new.previousSlow \in Int
    PROVE  /\ Flip(old, new) = "long"
                <=> Relation(new) = "above" /\ Relation(old) \in {"below", "equal"}
           /\ Flip(old, new) = "short"
                <=> Relation(new) = "below" /\ Relation(old) \in {"above", "equal"}
<1> DEFINE a == old.previousFast
           b == old.previousSlow
           c == new.previousFast
           d == new.previousSlow
           ups == (c # NA /\ d # NA) /\ c > d /\ (a # NA /\ b # NA) /\ a <= b
           downs == (d # NA /\ c # NA) /\ d > c /\ (b # NA /\ a # NA) /\ b <= a
<1>1. Flip(old, new) = IF ups THEN "long" ELSE IF downs THEN "short" ELSE "none"
  BY DEF Flip, Crossover, Crossunder, Gt, Known
<1>2. /\ Relation(old) = "above" <=> a # NA /\ b # NA /\ a > b
      /\ Relation(old) = "below" <=> a # NA /\ b # NA /\ a < b
      /\ Relation(old) = "equal" <=> a # NA /\ b # NA /\ a = b
  BY RelationIs
<1>3. /\ Relation(new) = "above" <=> c # NA /\ d # NA /\ c > d
      /\ Relation(new) = "below" <=> c # NA /\ d # NA /\ c < d
  BY RelationIs
<1>4. /\ (a = NA \/ a \in Int) /\ (b = NA \/ b \in Int)
      /\ (c = NA \/ c \in Int) /\ (d = NA \/ d \in Int)
  OBVIOUS
<1> HIDE DEF a, b, c, d
<1>5. ups <=> Relation(new) = "above" /\ Relation(old) \in {"below", "equal"}
  BY <1>2, <1>3, <1>4
<1>6. downs <=> Relation(new) = "below" /\ Relation(old) \in {"above", "equal"}
  BY <1>2, <1>3, <1>4
<1>7. ~(ups /\ downs)
  BY <1>4
<1> HIDE DEF ups, downs
<1>8. (Flip(old, new) = "long" <=> ups) /\ (Flip(old, new) = "short" <=> downs)
  BY <1>1, <1>7
<1> QED BY <1>5, <1>6, <1>8
-----------------------------------------------------------------------------
(* The Kalman filter, the ATR and the step made of them.                   *)

\* Numbers that are there from bar `from' on.
From(x, n, from) ==
    /\ n < from => x = NA
    /\ n >= from => x \in Int

LEMMA FromEither ==
    ASSUME NEW x, NEW n \in Nat, NEW from \in Nat, From(x, n, from)
    PROVE  x = NA \/ x \in Int
BY DEF From

KalmanOK(f, n) ==
    /\ f = [v1 |-> f.v1, v2 |-> f.v2, v4 |-> f.v4, v5 |-> f.v5, previousClose |-> f.previousClose]
    /\ f.v2 \in Nat /\ f.v2 + V3 > 0 /\ f.v4 \in Nat
    /\ From(f.v1, n, 2) /\ From(f.v5, n, 2) /\ From(f.previousClose, n, 1)

\* The gain is at most 1, and the next one has no zero to be divided by.
LEMMA GainIs ==
    ASSUME NEW v \in Nat, v + V3 > 0
    PROVE  LET gain == (Scale * v) \div (v + V3)
               next == ((Scale - gain) * v) \div Scale + Drift
           IN  gain \in Nat /\ gain <= Scale /\ next \in Nat /\ next + V3 > 0
<1> DEFINE d == v + V3
           s == Scale
           x == s * v
           gain == x \div d
<1>1. s \in Nat \ {0} /\ d \in Nat \ {0} /\ v <= d /\ Drift \in Nat
  BY LengthsAreNat
<1>2. x \in Nat /\ x <= s * d
  BY <1>1
<1>3. s * d = d * s
  BY <1>1
<1> HIDE DEF x, s, d
<1>4. gain \in Nat /\ d * gain <= x
  BY <1>1, <1>2
<1> HIDE DEF gain
<1>5. gain <= s
  <2>1. SUFFICES ASSUME gain >= s + 1
                 PROVE  FALSE
    BY <1>1, <1>4
  <2>2. d * gain >= d * (s + 1)
    BY <1>1, <1>4, <2>1
  <2>3. d * (s + 1) = d * s + d
    BY <1>1
  <2> QED BY <1>1, <1>2, <1>3, <1>4, <2>2, <2>3
<1>6. (s - gain) * v \in Nat
  BY <1>1, <1>4, <1>5
<1> DEFINE y == (s - gain) * v
<1> HIDE DEF y
<1>7. y \div s + Drift \in Nat /\ y \div s + Drift + V3 > 0
  <2>1. y \div s \in Nat /\ Drift \in Nat /\ V3 \in Nat /\ V3 + Drift > 0
    BY <1>1, <1>6, LengthsAreNat DEF y
  <2> HIDE DEF y, s
  <2> QED BY <2>1
<1> QED BY <1>4, <1>5, <1>7 DEF y, gain, x, s, d

LEMMA NewKalmanOK == KalmanOK(NewKalman, 0)
BY LengthsAreNat DEF KalmanOK, NewKalman, From

LEMMA KalmanFilterOK ==
    ASSUME NEW f, NEW n \in Nat, KalmanOK(f, n), NEW close \in Int
    PROVE  KalmanOK(Kalman(f, close), n + 1)
<1> DEFINE x == f.v1
           p == f.previousClose
           y == IF x = NA THEN p ELSE x
           gain == (Scale * f.v2) \div (f.v2 + V3)
           estimate == IF y = NA THEN NA ELSE y + (gain * (close - y)) \div Scale
           next == ((Scale - gain) * f.v2) \div Scale + Drift
<1>1. gain \in Nat /\ next \in Nat /\ next + V3 > 0
  <2>1. f.v2 \in Nat /\ f.v2 + V3 > 0
    BY DEF KalmanOK
  <2> QED BY <2>1, GainIs
<1>2. Kalman(f, close) = [v1 |-> estimate, v2 |-> next, v4 |-> gain, v5 |-> y, previousClose |-> close]
  BY DEF Kalman
<1>3. From(x, n, 2) /\ From(p, n, 1)
  BY DEF KalmanOK
<1> HIDE DEF gain, next, x, p
<1>4. (x = NA \/ x \in Int) /\ (p = NA \/ p \in Int)
  BY <1>3, FromEither
<1>5. From(y, n + 1, 2)
  <2>1. CASE n >= 2
    BY <1>3, <2>1, NaAssumption DEF From
  <2>2. CASE n = 1
    BY <1>3, <2>2, NaAssumption DEF From
  <2>3. CASE n = 0
    BY <1>3, <2>3, NaAssumption DEF From
  <2> QED BY <2>1, <2>2, <2>3
<1> HIDE DEF y
<1>6. From(estimate, n + 1, 2)
  <2>1. CASE n + 1 >= 2
    <3>1. y \in Int /\ y # NA
      BY <1>5, <2>1, NaAssumption DEF From
    <3> DEFINE z == gain * (close - y)
    <3>2. z \in Int
      BY <1>1, <3>1
    <3> HIDE DEF z
    <3>3. y + z \div Scale \in Int
      BY <3>1, <3>2, LengthsAreNat
    <3>4. estimate \in Int
      BY <3>1, <3>3 DEF z
    <3> HIDE DEF estimate
    <3> QED BY <2>1, <3>4 DEF From
  <2>2. CASE n + 1 < 2
    <3>1. estimate = NA
      BY <1>5, <2>2 DEF From
    <3> HIDE DEF estimate
    <3> QED BY <2>2, <3>1 DEF From
  <2> QED BY <2>1, <2>2
<1> HIDE DEF estimate
<1>7. From(close, n + 1, 1)
  BY DEF From
<1> QED BY <1>1, <1>2, <1>5, <1>6, <1>7 DEF KalmanOK

ATROK(a, n) ==
    /\ a = [rma |-> a.rma, previousClose |-> a.previousClose]
    /\ AverageOK(Nat, a.rma, AtrPeriod, n)
    /\ From(a.previousClose, n, 1)

LEMMA NewATROK == ATROK(NewATR, 0)
<1>1. AverageOK(Nat, NewAverage(AtrPeriod), AtrPeriod, 0)
  BY LengthsAreNat, NewAverageOK
<1> QED BY <1>1 DEF ATROK, NewATR, From

LEMMA QuoteIs ==
    ASSUME NEW q \in Quotes
    PROVE  /\ q.high \in Int /\ q.low \in Int /\ q.close \in Int
           /\ q.low <= q.high
BY QuoteAssumption

\* A true range is never negative.
LEMMA TrueRangeIs ==
    ASSUME NEW q \in Quotes, NEW p, p = NA \/ p \in Int
    PROVE  TrueRange(q, p) \in Nat
<1> DEFINE a == q.high - q.low
           b == IF q.high - p < 0 THEN -(q.high - p) ELSE q.high - p
           c == IF q.low - p < 0 THEN -(q.low - p) ELSE q.low - p
<1>1. a \in Nat
  BY QuoteIs
<1>2. CASE p = NA
  <2>1. {a} \cup {} = {a, a}
    OBVIOUS
  <2>2. TrueRange(q, p) = Max({a, a})
    BY <1>2, <2>1 DEF TrueRange
  <2> HIDE DEF a
  <2>3. Max({a, a}) = a
    BY <1>1, MaxPair
  <2> QED BY <1>1, <2>2, <2>3
<1>3. CASE p # NA
  <2>1. b \in Int /\ c \in Int
    BY <1>3, QuoteIs
  <2>2. TrueRange(q, p) = Max({a} \cup {b, c})
    BY <1>3 DEF TrueRange
  <2> HIDE DEF a, b, c
  <2>3. {a} \cup {b, c} = {a, b, c}
    OBVIOUS
  <2>4. Max({a, b, c}) \in Int /\ Max({a, b, c}) >= a
    BY <1>1, <2>1, MaxTriple
  <2> QED BY <1>1, <2>2, <2>3, <2>4
<1> QED BY <1>2, <1>3

LEMMA ATRStepOK ==
    ASSUME NEW a, NEW n \in Nat, ATROK(a, n), NEW q \in Quotes
    PROVE  ATROK(ATR(a, q), n + 1)
<1>1. From(a.previousClose, n, 1) /\ AverageOK(Nat, a.rma, AtrPeriod, n)
  BY DEF ATROK
<1>2. TrueRange(q, a.previousClose) \in Nat
  BY <1>1, FromEither, TrueRangeIs
<1> DEFINE rma == RMA(a.rma, TrueRange(q, a.previousClose))
<1>3. AverageOK(Nat, rma, AtrPeriod, n + 1)
  BY <1>1, <1>2, RMAOK, LengthsAreNat
<1>4. ATR(a, q) = [rma |-> rma, previousClose |-> q.close]
  BY DEF ATR
<1>5. From(q.close, n + 1, 1)
  BY QuoteIs DEF From
<1> HIDE DEF rma
<1> QED BY <1>3, <1>4, <1>5 DEF ATROK
\* The bar that completes the ATR and the estimate.
Ready == IF AtrPeriod >= 2 THEN AtrPeriod ELSE 2

LEMMA ReadyIs == Ready \in Nat /\ Ready >= AtrPeriod /\ Ready >= 2 /\ Ready = Max({AtrPeriod, 2})
<1>1. AtrPeriod \in Int /\ 2 \in Int
  BY LengthsAreNat
<1>2. Max({AtrPeriod, 2}) = IF AtrPeriod >= 2 THEN AtrPeriod ELSE 2
  BY <1>1, MaxPair
<1> QED BY <1>2, LengthsAreNat DEF Ready

\* On which side of its bands an estimate is, and what a bar may do to them.
Side(direction, k, lower, upper) ==
    /\ direction = -1 => k >= lower
    /\ direction = 1 => k <= upper

Ratchet(direction, lower, upper, nextDirection, nextK, nextLower, nextUpper) ==
    /\ direction = -1 /\ nextDirection = -1 => nextLower >= lower
    /\ direction = 1 /\ nextDirection = 1 => nextUpper <= upper
    /\ direction = 1 /\ nextDirection = -1 => nextK > upper
    /\ direction = -1 /\ nextDirection = 1 => nextK < lower \/ lower = upper

\* The bands l and u that an estimate k and a distance d make of pl and pu, and
\* the direction that follows.
Banded(pk, pl, pu, k, d, l, u) ==
    /\ l = IF k - d > pl \/ pk < pl THEN k - d ELSE pl
    /\ u = IF k + d < pu \/ pk > pu THEN k + d ELSE pu

Directed(dir, pl, pu, k, l, u, next) ==
    next = IF (IF dir = -1 THEN pl ELSE pu) = pu
           THEN IF k > u THEN -1 ELSE 1
           ELSE IF k < l THEN 1 ELSE -1

LEMMA BandStep ==
    ASSUME NEW dir \in {1, -1}, NEW pk \in Int, NEW pl \in Int, NEW pu \in Int,
           NEW k \in Int, NEW d \in Int, d >= 0, NEW l, NEW u, NEW next,
           Banded(pk, pl, pu, k, d, l, u), Directed(dir, pl, pu, k, l, u, next)
    PROVE  /\ next \in {1, -1}
           /\ Side(next, k, l, u)
           /\ Side(dir, pk, pl, pu) => Ratchet(dir, pl, pu, next, k, l, u)
<1> USE DEF Banded, Directed
<1>1. l \in Int /\ u \in Int /\ next \in {1, -1}
  OBVIOUS
<1>2. l <= k \/ (l = pl /\ pk >= pl)
  OBVIOUS
<1>3. u >= k \/ (u = pu /\ pk <= pu)
  OBVIOUS
<1>4. Side(next, k, l, u)
  <2>1. CASE next = -1
    BY <1>1, <1>2, <1>3, <2>1 DEF Side
  <2>2. CASE next = 1
    BY <1>1, <1>2, <1>3, <2>2 DEF Side
  <2> QED BY <1>1, <2>1, <2>2
<1>5. ASSUME Side(dir, pk, pl, pu)
      PROVE  Ratchet(dir, pl, pu, next, k, l, u)
  <2>1. CASE dir = -1
    <3>1. pk >= pl
      BY <1>5, <2>1 DEF Side
    <3>2. l >= pl
      BY <3>1
    <3>3. next = 1 => k < pl \/ pl = pu
      BY <1>1, <1>2, <2>1, <3>1
    <3> QED BY <2>1, <3>2, <3>3 DEF Ratchet
  <2>2. CASE dir = 1
    <3>1. pk <= pu
      BY <1>5, <2>2 DEF Side
    <3>2. u <= pu
      BY <3>1
    <3>3. next = -1 => k > pu
      BY <1>1, <1>3, <2>2, <3>1
    <3> QED BY <2>2, <3>2, <3>3 DEF Ratchet
  <2> QED BY <2>1, <2>2
<1> QED BY <1>1, <1>4, <1>5

StepOK(s, n) ==
    /\ s = [kalman |-> s.kalman, atr |-> s.atr, previousK |-> s.previousK,
            previousAtr |-> s.previousAtr, previousLower |-> s.previousLower,
            previousUpper |-> s.previousUpper, previousSupertrend |-> s.previousSupertrend,
            previousDirection |-> s.previousDirection]
    /\ KalmanOK(s.kalman, n) /\ ATROK(s.atr, n)
    /\ s.previousK = s.kalman.v1 /\ s.previousAtr = s.atr.rma.value
    /\ (s.previousLower = NA \/ s.previousLower \in Int)
    /\ (s.previousUpper = NA \/ s.previousUpper \in Int)
    /\ n >= Ready => s.previousLower \in Int /\ s.previousUpper \in Int
    /\ s.previousDirection \in IF n = 0 THEN {NA} ELSE {1, -1}
    /\ s.previousSupertrend = IF s.previousDirection = -1 THEN s.previousLower ELSE s.previousUpper
    /\ BandsInOrder /\ n > Ready =>
          Side(s.previousDirection, s.previousK, s.previousLower, s.previousUpper)

LEMMA NewStepOK == StepOK(NewKalmanStep, 0)
<1>1. KalmanOK(NewKalman, 0) /\ ATROK(NewATR, 0) /\ NewKalman.v1 = NA /\ NewATR.rma.value = NA
  BY NewKalmanOK, NewATROK DEF NewKalman, NewATR, NewAverage
<1>2. ~(0 >= Ready) /\ ~(0 > Ready) /\ NA # -1
  BY ReadyIs, NaAssumption
<1> QED BY <1>1, <1>2 DEF StepOK, NewKalmanStep

\* The ATR, whatever it is, and its value once there is one.
LEMMA AtrIs ==
    ASSUME NEW a, NEW n \in Nat, ATROK(a, n)
    PROVE  /\ a.rma.value = NA \/ a.rma.value \in Nat
           /\ a.rma.value = NA <=> n < AtrPeriod
<1> DEFINE v == a.rma.value
<1>1. (n < AtrPeriod => v = NA) /\ (n >= AtrPeriod => v \in Nat)
  BY DEF ATROK, AverageOK
<1> HIDE DEF v
<1>2. (v = NA \/ v \in Nat) /\ (v = NA <=> n < AtrPeriod)
  BY <1>1, LengthsAreNat, NaAssumption
<1> QED BY <1>2 DEF v

\* A band is a raw one, or the band it replaces.
LEMMA BandIs ==
    ASSUME NEW raw, (raw = NA \/ raw \in Int), NEW previous \in Int, NEW pk, NEW k
    PROVE  LET l == LowerBand(raw, previous, pk, k)
               u == UpperBand(raw, previous, pk, k)
           IN  /\ (l = NA \/ l \in Int) /\ (u = NA \/ u \in Int)
               /\ raw \in Int => l \in Int /\ u \in Int
               /\ raw \in Int /\ pk \in Int =>
                     /\ l = IF raw > previous \/ pk < previous THEN raw ELSE previous
                     /\ u = IF raw < previous \/ pk > previous THEN raw ELSE previous
BY NaAssumption DEF LowerBand, UpperBand, Gt, Lt, Known

LEMMA DirectionIs ==
    ASSUME NEW s, NEW k, NEW l, NEW u
    PROVE  Direction(s, k, l, u) \in {1, -1}
BY DEF Direction
LEMMA DirectionOf ==
    ASSUME NEW s, NEW k \in Int, NEW l \in Int, NEW u \in Int, s.previousAtr # NA,
           NEW pl \in Int, NEW pu \in Int, NEW dir,
           s.previousUpper = pu, NEW st, st = IF dir = -1 THEN pl ELSE pu,
           s.previousSupertrend = st
    PROVE  Directed(dir, pl, pu, k, l, u, Direction(s, k, l, u))
<1>1. st \in Int /\ st # NA /\ k # NA /\ l # NA /\ u # NA /\ pu # NA
  BY NaAssumption
<1>2. Nz(s.previousUpper) = pu
  BY <1>1 DEF Nz
<1>3. Direction(s, k, l, u) = IF st = pu THEN IF k > u THEN -1 ELSE 1 ELSE IF k < l THEN 1 ELSE -1
  BY <1>1, <1>2 DEF Direction, Gt, Lt, Known
<1> QED BY <1>3 DEF Directed

LEMMA KalmanStepOK ==
    ASSUME NEW s, NEW n \in Nat, StepOK(s, n), NEW q \in Quotes
    PROVE  LET new == KalmanStep(s, q) IN
           /\ StepOK(new, n + 1)
           /\ BandsInOrder /\ n > Ready =>
                 Ratchet(s.previousDirection, s.previousLower, s.previousUpper,
                         new.previousDirection, new.previousK,
                         new.previousLower, new.previousUpper)
<1> DEFINE kalman == Kalman(s.kalman, q.close)
           atr == ATR(s.atr, q)
           k == kalman.v1
           v == atr.rma.value
           distance == IF v = NA THEN NA ELSE Factor * v
           minus == IF distance = NA THEN NA ELSE -distance
           rawLower == Offset(k, minus)
           rawUpper == Offset(k, distance)
           low == Nz(s.previousLower)
           high == Nz(s.previousUpper)
           lower == LowerBand(rawLower, low, s.previousK, k)
           upper == UpperBand(rawUpper, high, s.previousK, k)
           direction == Direction(s, k, lower, upper)
           new == KalmanStep(s, q)
<1>1. new = [kalman |-> kalman, atr |-> atr, previousK |-> k, previousAtr |-> v,
             previousLower |-> lower, previousUpper |-> upper,
             previousSupertrend |-> IF direction = -1 THEN lower ELSE upper,
             previousDirection |-> direction]
  BY DEF KalmanStep
<1>2. KalmanOK(kalman, n + 1) /\ ATROK(atr, n + 1)
  <2>1. KalmanOK(s.kalman, n) /\ ATROK(s.atr, n) /\ q.close \in Int
    BY QuoteIs DEF StepOK
  <2> QED BY <2>1, KalmanFilterOK, ATRStepOK
<1> HIDE DEF kalman, atr
<1>3. /\ From(k, n + 1, 2)
      /\ v = NA \/ v \in Nat
      /\ v = NA <=> n + 1 < AtrPeriod
  <2>1. n + 1 \in Nat
    OBVIOUS
  <2> QED BY <1>2, <2>1, AtrIs DEF KalmanOK
<1> HIDE DEF k, v
<1>4. /\ k = NA \/ k \in Int
      /\ distance = NA \/ distance \in Int
      /\ n + 1 >= Ready => k \in Int /\ distance \in Int
      /\ n + 1 >= Ready /\ BandsInOrder => distance >= 0
  <2>1. k = NA \/ k \in Int
    BY <1>3, FromEither
  <2>2. v \in Nat => Factor * v \in Int /\ (BandsInOrder => Factor * v >= 0)
    BY LengthsAreNat DEF BandsInOrder
  <2>3. distance = NA \/ distance \in Int
    BY <1>3, <2>2
  <2>4. ASSUME n + 1 >= Ready
        PROVE  k \in Int /\ distance \in Int /\ (BandsInOrder => distance >= 0)
    <3>1. n + 1 >= 2 /\ n + 1 >= AtrPeriod
      BY <2>4, ReadyIs, LengthsAreNat
    <3>2. k \in Int
      BY <1>3, <3>1 DEF From
    <3>3. v \in Nat /\ v # NA
      BY <1>3, <3>1, LengthsAreNat
    <3> QED BY <2>2, <3>2, <3>3
  <2> QED BY <2>1, <2>3, <2>4
<1> HIDE DEF distance
<1>5. /\ rawLower = NA \/ rawLower \in Int
      /\ rawUpper = NA \/ rawUpper \in Int
      /\ n + 1 >= Ready => rawLower = k - distance /\ rawUpper = k + distance
  BY <1>4, NaAssumption DEF Offset, Known
<1> HIDE DEF minus, rawLower, rawUpper
<1>6. low \in Int /\ high \in Int
  <2>1. /\ s.previousLower = NA \/ s.previousLower \in Int
        /\ s.previousUpper = NA \/ s.previousUpper \in Int
    BY DEF StepOK
  <2> QED BY <2>1 DEF Nz
<1> HIDE DEF low, high
<1>7. /\ lower = NA \/ lower \in Int
      /\ upper = NA \/ upper \in Int
      /\ rawLower \in Int => lower \in Int
      /\ rawUpper \in Int => upper \in Int
  BY <1>5, <1>6, BandIs
<1>8. direction \in {1, -1}
  BY DirectionIs
<1> DEFINE old == s.previousDirection
           pk == s.previousK
           pl == s.previousLower
           pu == s.previousUpper
<1>9. ASSUME n >= Ready, BandsInOrder
      PROVE  /\ Side(direction, k, lower, upper)
             /\ Side(old, pk, pl, pu) => Ratchet(old, pl, pu, direction, k, lower, upper)
  <2>1. pl \in Int /\ pu \in Int /\ s.previousSupertrend = IF old = -1 THEN pl ELSE pu
    BY <1>9 DEF StepOK
  <2>2. n >= 2 /\ n >= AtrPeriod /\ n # 0 /\ n + 1 >= Ready
    BY <1>9, ReadyIs, LengthsAreNat
  <2>3. old \in {1, -1}
    BY <2>2 DEF StepOK
  <2>4. pk \in Int
    <3>1. pk = s.kalman.v1 /\ From(s.kalman.v1, n, 2)
      BY DEF StepOK, KalmanOK
    <3> HIDE DEF pk
    <3> QED BY <2>2, <3>1 DEF From
  <2>5. s.previousAtr # NA
    <3>1. s.previousAtr = s.atr.rma.value /\ ATROK(s.atr, n)
      BY DEF StepOK
    <3>2. s.atr.rma.value # NA
      BY <2>2, <3>1, AtrIs, LengthsAreNat
    <3> QED BY <3>1, <3>2
  <2>6. k \in Int /\ distance \in Int /\ distance >= 0 /\ rawLower = k - distance /\ rawUpper = k + distance
    BY <1>4, <1>5, <1>9, <2>2
  <2>7. rawLower \in Int /\ rawUpper \in Int
    BY <2>6
  <2>8. low = pl /\ high = pu
    BY <2>1, NaAssumption DEF low, high, Nz
  <2>9. /\ lower = IF rawLower > low \/ pk < low THEN rawLower ELSE low
        /\ upper = IF rawUpper < high \/ pk > high THEN rawUpper ELSE high
    <3>1. pk # NA /\ low # NA /\ high # NA /\ rawLower # NA /\ rawUpper # NA
      BY <1>6, <2>4, <2>7, NaAssumption
    <3>2. s.previousK = pk
      OBVIOUS
    <3> HIDE DEF pk, pl, pu, old
    <3> QED BY <3>1, <3>2 DEF LowerBand, UpperBand, Gt, Lt, Known
  <2>10. lower \in Int /\ upper \in Int
    BY <1>7, <2>7
  <2> HIDE DEF old, pl, pu, pk, lower, upper
  <2> DEFINE st == IF old = -1 THEN pl ELSE pu
  <2>11. Directed(old, pl, pu, k, lower, upper, direction)
    <3>1. s.previousUpper = pu /\ s.previousSupertrend = st
      BY <2>1 DEF pu
    <3>2. st = IF old = -1 THEN pl ELSE pu
      OBVIOUS
    <3> HIDE DEF st
    <3> QED BY <2>1, <2>5, <2>6, <2>10, <3>1, <3>2, DirectionOf
  <2> HIDE DEF direction
  <2>12. Banded(pk, pl, pu, k, distance, lower, upper)
    BY <2>6, <2>8, <2>9 DEF Banded
  <2> QED BY <2>1, <2>3, <2>4, <2>6, <2>11, <2>12, BandStep, ZenonT(60)
<1> HIDE DEF lower, upper, direction
<1>10. n + 1 >= Ready => lower \in Int /\ upper \in Int
  <2>1. SUFFICES ASSUME n + 1 >= Ready
                 PROVE  lower \in Int /\ upper \in Int
    OBVIOUS
  <2>2. rawLower \in Int /\ rawUpper \in Int
    BY <1>4, <1>5, <2>1
  <2> QED BY <1>7, <2>2
<1>11. n + 1 > Ready <=> n >= Ready
  BY ReadyIs
<1>12. n + 1 # 0
  OBVIOUS
<1> HIDE DEF new
<1>13. StepOK(new, n + 1)
  BY <1>1, <1>2, <1>7, <1>8, <1>9, <1>10, <1>11, <1>12 DEF StepOK, k, v
<1>14. ASSUME n > Ready, BandsInOrder
       PROVE  Ratchet(old, pl, pu, direction, k, lower, upper)
  <2>1. Side(old, pk, pl, pu) /\ n >= Ready
    BY <1>14, ReadyIs DEF StepOK
  <2> QED BY <1>9, <1>14, <2>1
<1>15. /\ new.previousDirection = direction /\ new.previousK = k
       /\ new.previousLower = lower /\ new.previousUpper = upper
  BY <1>1
<1> QED BY <1>13, <1>14, <1>15 DEF new
\* A checkpoint of a step is accepted, and restored to the step.
LEMMA KalmanSurvives ==
    ASSUME NEW f, NEW n \in Nat, KalmanOK(f, n)
    PROVE  /\ KalmanRestored(KalmanDump(f)) = f
           /\ KalmanDump(f).v2 # Null /\ KalmanDump(f).v4 # Null
<1> DEFINE v1 == f.v1
           v2 == f.v2
           v4 == f.v4
           v5 == f.v5
           p == f.previousClose
<1>1. f = [v1 |-> v1, v2 |-> v2, v4 |-> v4, v5 |-> v5, previousClose |-> p]
  BY DEF KalmanOK
<1>2. v2 \in Nat /\ v4 \in Nat /\ From(v1, n, 2) /\ From(v5, n, 2) /\ From(p, n, 1)
  BY DEF KalmanOK
<1> HIDE DEF v1, v2, v4, v5, p
<1>3. (v1 = NA \/ v1 \in Int) /\ (v5 = NA \/ v5 \in Int) /\ (p = NA \/ p \in Int)
  BY <1>2, FromEither
<1>4. Float(JsonSafe(v1)) = v1 /\ Float(JsonSafe(v5)) = v5 /\ Float(JsonSafe(p)) = p
  BY <1>3, KnownSurvives
<1>5. JsonSafe(v2) = v2 /\ JsonSafe(v4) = v4 /\ v2 # Null /\ v4 # Null
  BY <1>2, NaAssumption DEF JsonSafe
<1>6. KalmanDump(f) = [v1 |-> JsonSafe(v1), v2 |-> JsonSafe(v2), v4 |-> JsonSafe(v4),
                       v5 |-> JsonSafe(v5), previousClose |-> JsonSafe(p)]
  BY <1>1 DEF KalmanDump
<1>7. KalmanRestored(KalmanDump(f))
        = [v1 |-> Float(JsonSafe(v1)), v2 |-> JsonSafe(v2), v4 |-> JsonSafe(v4),
           v5 |-> Float(JsonSafe(v5)), previousClose |-> Float(JsonSafe(p))]
  BY <1>6 DEF KalmanRestored
<1>8. KalmanRestored(KalmanDump(f)) = f
  BY <1>1, <1>4, <1>5, <1>7
<1>9. KalmanDump(f).v2 # Null /\ KalmanDump(f).v4 # Null
  BY <1>5, <1>6
<1> QED BY <1>8, <1>9

LEMMA ATRSurvives ==
    ASSUME NEW a, NEW n \in Nat, ATROK(a, n)
    PROVE  /\ ATRRestored(ATRDump(a)) = a
           /\ AverageValid(ATRDump(a).rma, AtrPeriod)
<1> DEFINE rma == a.rma
           p == a.previousClose
<1>1. a = [rma |-> rma, previousClose |-> p] /\ AverageOK(Nat, rma, AtrPeriod, n) /\ From(p, n, 1)
  BY DEF ATROK
<1> HIDE DEF rma, p
<1>2. AverageRestored(AverageDump(rma)) = rma /\ AverageValid(AverageDump(rma), AtrPeriod)
  BY <1>1, LengthsAreNat, AverageSurvives
<1>3. Float(JsonSafe(p)) = p
  BY <1>1, FromEither, KnownSurvives
<1>4. ATRDump(a) = [rma |-> AverageDump(rma), previousClose |-> JsonSafe(p)]
  BY <1>1 DEF ATRDump
<1>5. ATRRestored(ATRDump(a)) = a
  BY <1>1, <1>2, <1>3, <1>4 DEF ATRRestored
<1> QED BY <1>2, <1>4, <1>5

LEMMA StepSurvives ==
    ASSUME NEW s, NEW n \in Nat, StepOK(s, n)
    PROVE  KalmanStepRestored(KalmanStepDump(s)) = s /\ KalmanStepValid(KalmanStepDump(s))
<1> DEFINE kalman == s.kalman
           atr == s.atr
           k == s.previousK
           v == s.previousAtr
           l == s.previousLower
           u == s.previousUpper
           st == s.previousSupertrend
           dir == s.previousDirection
<1>1. s = [kalman |-> kalman, atr |-> atr, previousK |-> k, previousAtr |-> v,
           previousLower |-> l, previousUpper |-> u, previousSupertrend |-> st,
           previousDirection |-> dir]
  BY DEF StepOK
<1>2. KalmanOK(kalman, n) /\ ATROK(atr, n) /\ k = kalman.v1 /\ v = atr.rma.value
  BY DEF StepOK
<1>3. /\ l = NA \/ l \in Int
      /\ u = NA \/ u \in Int
      /\ dir = NA \/ dir \in Int
      /\ st = l \/ st = u
  <2>1. dir = NA \/ dir \in {1, -1}
    BY DEF StepOK
  <2> HIDE DEF dir
  <2>2. dir = NA \/ dir \in Int
    BY <2>1
  <2> QED BY <2>2 DEF StepOK, dir
<1> HIDE DEF kalman, atr, k, v, l, u, st, dir
<1>4. (k = NA \/ k \in Int) /\ (v = NA \/ v \in Int)
  <2>1. From(k, n, 2)
    BY <1>2 DEF KalmanOK
  <2>2. v = NA \/ v \in Nat
    BY <1>2, AtrIs
  <2> QED BY <2>1, <2>2, FromEither
<1>5. /\ Float(JsonSafe(k)) = k /\ Float(JsonSafe(v)) = v /\ Float(JsonSafe(l)) = l
      /\ Float(JsonSafe(u)) = u /\ Float(JsonSafe(st)) = st /\ Float(JsonSafe(dir)) = dir
  BY <1>3, <1>4, KnownSurvives
<1>6. KalmanStepDump(s)
        = [kalman |-> KalmanDump(kalman), atr |-> ATRDump(atr), previousK |-> JsonSafe(k),
           previousAtr |-> JsonSafe(v), previousLower |-> JsonSafe(l),
           previousUpper |-> JsonSafe(u), previousSupertrend |-> JsonSafe(st),
           previousDirection |-> JsonSafe(dir)]
  BY <1>1 DEF KalmanStepDump
<1>7. KalmanStepRestored(KalmanStepDump(s))
        = [kalman |-> KalmanRestored(KalmanDump(kalman)), atr |-> ATRRestored(ATRDump(atr)),
           previousK |-> Float(JsonSafe(k)), previousAtr |-> Float(JsonSafe(v)),
           previousLower |-> Float(JsonSafe(l)), previousUpper |-> Float(JsonSafe(u)),
           previousSupertrend |-> Float(JsonSafe(st)), previousDirection |-> Float(JsonSafe(dir))]
  BY <1>6 DEF KalmanStepRestored
<1>8. /\ KalmanRestored(KalmanDump(kalman)) = kalman /\ ATRRestored(ATRDump(atr)) = atr
      /\ KalmanDump(kalman).v2 # Null /\ KalmanDump(kalman).v4 # Null
      /\ AverageValid(ATRDump(atr).rma, AtrPeriod)
  BY <1>2, KalmanSurvives, ATRSurvives
<1>9. KalmanStepRestored(KalmanStepDump(s)) = s
  BY <1>1, <1>5, <1>7, <1>8
<1>10. KalmanStepValid(KalmanStepDump(s))
  BY <1>6, <1>8 DEF KalmanStepValid
<1> QED BY <1>9, <1>10

-----------------------------------------------------------------------------
(* An uninterrupted series, candle by candle.                              *)

IsHema(f, candles, n) ==
    f = [i \in 0..n |-> IF i = 0 THEN NewHemaTrend ELSE HemaTrend(f[i - 1], candles[i].close)]

IsKalman(f, candles, n) ==
    f = [i \in 0..n |-> IF i = 0 THEN NewKalmanStep ELSE KalmanStep(f[i - 1], candles[i])]

LEMMA HemaExists ==
    ASSUME NEW candles, NEW n \in Nat
    PROVE  \E f : IsHema(f, candles, n)
<1> DEFINE H == {k \in 0..n : \E f : IsHema(f, candles, k)}
<1>1. 0 \in H
  <2>1. IsHema([i \in 0..0 |-> NewHemaTrend], candles, 0)
    BY DEF IsHema
  <2> QED BY <2>1
<1>2. ASSUME NEW k \in 0..n, k \in H, k < n
      PROVE  k + 1 \in H
  <2>1. PICK f : IsHema(f, candles, k)
    BY <1>2
  <2> DEFINE g == [i \in 0..k + 1 |-> IF i = k + 1 THEN HemaTrend(f[k], candles[k + 1].close) ELSE f[i]]
  <2>2. k \in Nat /\ k + 1 \in 0..n
    BY <1>2
  <2>3. ASSUME NEW i \in 0..k + 1
        PROVE  g[i] = IF i = 0 THEN NewHemaTrend ELSE HemaTrend(g[i - 1], candles[i].close)
    <3>1. CASE i = k + 1
      <4>1. i # 0 /\ i - 1 = k /\ k \in 0..k + 1 /\ k # k + 1
        BY <2>2, <3>1
      <4>2. g[i] = HemaTrend(f[k], candles[k + 1].close) /\ g[k] = f[k]
        BY <3>1, <4>1
      <4> HIDE DEF g
      <4> QED BY <3>1, <4>1, <4>2
    <3>2. CASE i # k + 1
      <4>1. i \in 0..k
        BY <2>2, <3>2
      <4>2. g[i] = f[i] /\ f[i] = IF i = 0 THEN NewHemaTrend ELSE HemaTrend(f[i - 1], candles[i].close)
        BY <2>1, <3>2, <4>1 DEF IsHema
      <4>3. i # 0 => i - 1 \in 0..k + 1 /\ i - 1 # k + 1
        BY <2>2, <4>1
      <4>4. i # 0 => g[i - 1] = f[i - 1]
        BY <4>3
      <4> HIDE DEF g
      <4> QED BY <4>2, <4>4
    <3> QED BY <3>1, <3>2
  <2>4. IsHema(g, candles, k + 1)
    BY <2>3 DEF IsHema
  <2> HIDE DEF g
  <2> QED BY <2>2, <2>4
<1>3. H = 0..n
  <2>1. H \in SUBSET (0..n)
    OBVIOUS
  <2> HIDE DEF H
  <2> QED BY <1>1, <1>2, <2>1, UpTo
<1> QED BY <1>3

LEMMA KalmanExists ==
    ASSUME NEW candles, NEW n \in Nat
    PROVE  \E f : IsKalman(f, candles, n)
<1> DEFINE H == {k \in 0..n : \E f : IsKalman(f, candles, k)}
<1>1. 0 \in H
  <2>1. IsKalman([i \in 0..0 |-> NewKalmanStep], candles, 0)
    BY DEF IsKalman
  <2> QED BY <2>1
<1>2. ASSUME NEW k \in 0..n, k \in H, k < n
      PROVE  k + 1 \in H
  <2>1. PICK f : IsKalman(f, candles, k)
    BY <1>2
  <2> DEFINE g == [i \in 0..k + 1 |-> IF i = k + 1 THEN KalmanStep(f[k], candles[k + 1]) ELSE f[i]]
  <2>2. k \in Nat /\ k + 1 \in 0..n
    BY <1>2
  <2>3. ASSUME NEW i \in 0..k + 1
        PROVE  g[i] = IF i = 0 THEN NewKalmanStep ELSE KalmanStep(g[i - 1], candles[i])
    <3>1. CASE i = k + 1
      <4>1. i # 0 /\ i - 1 = k /\ k \in 0..k + 1 /\ k # k + 1
        BY <2>2, <3>1
      <4>2. g[i] = KalmanStep(f[k], candles[k + 1]) /\ g[k] = f[k]
        BY <3>1, <4>1
      <4> HIDE DEF g
      <4> QED BY <3>1, <4>1, <4>2
    <3>2. CASE i # k + 1
      <4>1. i \in 0..k
        BY <2>2, <3>2
      <4>2. g[i] = f[i] /\ f[i] = IF i = 0 THEN NewKalmanStep ELSE KalmanStep(f[i - 1], candles[i])
        BY <2>1, <3>2, <4>1 DEF IsKalman
      <4>3. i # 0 => i - 1 \in 0..k + 1 /\ i - 1 # k + 1
        BY <2>2, <4>1
      <4>4. i # 0 => g[i - 1] = f[i - 1]
        BY <4>3
      <4> HIDE DEF g
      <4> QED BY <4>2, <4>4
    <3> QED BY <3>1, <3>2
  <2>4. IsKalman(g, candles, k + 1)
    BY <2>3 DEF IsKalman
  <2> HIDE DEF g
  <2> QED BY <2>2, <2>4
<1>3. H = 0..n
  <2>1. H \in SUBSET (0..n)
    OBVIOUS
  <2> HIDE DEF H
  <2> QED BY <1>1, <1>2, <2>1, UpTo
<1> QED BY <1>3

\* The series after one more candle.
LEMMA HemaBatchIs ==
    /\ HemaBatch(<<>>) = NewHemaTrend
    /\ \A p \in Seq(Quotes), q \in Quotes : HemaBatch(Append(p, q)) = HemaTrend(HemaBatch(p), q.close)
<1>1. ASSUME NEW candles \in Seq(Quotes)
      PROVE  \E f : IsHema(f, candles, Len(candles)) /\ HemaBatch(candles) = f[Len(candles)]
  <2> DEFINE n == Len(candles)
             f == CHOOSE g : IsHema(g, candles, n)
  <2>1. \E g : IsHema(g, candles, n)
    BY HemaExists
  <2>2. IsHema(f, candles, n)
    BY <2>1
  <2>3. HemaBatch(candles) = f[n]
    BY DEF HemaBatch, IsHema
  <2> HIDE DEF f
  <2> QED BY <2>2, <2>3
<1>2. HemaBatch(<<>>) = NewHemaTrend
  <2>1. <<>> \in Seq(Quotes) /\ Len(<<>>) = 0
    OBVIOUS
  <2>2. PICK f : IsHema(f, <<>>, 0) /\ HemaBatch(<<>>) = f[0]
    BY <1>1, <2>1
  <2> QED BY <2>2 DEF IsHema
<1>3. ASSUME NEW p \in Seq(Quotes), NEW q \in Quotes
      PROVE  HemaBatch(Append(p, q)) = HemaTrend(HemaBatch(p), q.close)
  <2> DEFINE r == Append(p, q)
             n == Len(p)
  <2>1. r \in Seq(Quotes) /\ n \in Nat /\ Len(r) = n + 1 /\ r[n + 1] = q /\ \A i \in 1..n : r[i] = p[i]
    OBVIOUS
  <2> HIDE DEF r, n
  <2>2. PICK f : IsHema(f, p, n) /\ HemaBatch(p) = f[n]
    BY <1>1 DEF n
  <2>3. PICK g : IsHema(g, r, n + 1) /\ HemaBatch(r) = g[n + 1]
    BY <1>1, <2>1
  <2> DEFINE H == {k \in 0..n : g[k] = f[k]}
  <2>4. 0 \in H
    BY <2>1, <2>2, <2>3 DEF IsHema
  <2>5. ASSUME NEW k \in 0..n, k \in H, k < n
        PROVE  k + 1 \in H
    <3>1. k + 1 \in 1..n /\ k + 1 \in 0..n /\ k + 1 \in 0..n + 1 /\ k + 1 # 0 /\ (k + 1) - 1 = k
      BY <2>1, <2>5
    <3>2. g[k + 1] = HemaTrend(g[k], r[k + 1].close)
      BY <2>3, <3>1 DEF IsHema
    <3>3. f[k + 1] = HemaTrend(f[k], p[k + 1].close)
      BY <2>2, <3>1 DEF IsHema
    <3> QED BY <2>1, <2>5, <3>1, <3>2, <3>3
  <2>6. H = 0..n
    <3>1. H \in SUBSET (0..n)
      OBVIOUS
    <3> HIDE DEF H
    <3> QED BY <2>1, <2>4, <2>5, <3>1, UpTo
  <2>7. g[n] = f[n]
    BY <2>1, <2>6
  <2>8. g[n + 1] = HemaTrend(g[n], r[n + 1].close)
    <3>1. n + 1 \in 0..n + 1 /\ n + 1 # 0 /\ (n + 1) - 1 = n
      BY <2>1
    <3> QED BY <2>3, <3>1 DEF IsHema
  <2> QED BY <2>1, <2>2, <2>3, <2>7, <2>8 DEF r
<1> QED BY <1>2, <1>3

LEMMA KalmanBatchIs ==
    /\ KalmanBatch(<<>>) = NewKalmanStep
    /\ \A p \in Seq(Quotes), q \in Quotes : KalmanBatch(Append(p, q)) = KalmanStep(KalmanBatch(p), q)
<1>1. ASSUME NEW candles \in Seq(Quotes)
      PROVE  \E f : IsKalman(f, candles, Len(candles)) /\ KalmanBatch(candles) = f[Len(candles)]
  <2> DEFINE n == Len(candles)
             f == CHOOSE g : IsKalman(g, candles, n)
  <2>1. \E g : IsKalman(g, candles, n)
    BY KalmanExists
  <2>2. IsKalman(f, candles, n)
    BY <2>1
  <2>3. KalmanBatch(candles) = f[n]
    BY DEF KalmanBatch, IsKalman
  <2> HIDE DEF f
  <2> QED BY <2>2, <2>3
<1>2. KalmanBatch(<<>>) = NewKalmanStep
  <2>1. <<>> \in Seq(Quotes) /\ Len(<<>>) = 0
    OBVIOUS
  <2>2. PICK f : IsKalman(f, <<>>, 0) /\ KalmanBatch(<<>>) = f[0]
    BY <1>1, <2>1
  <2> QED BY <2>2 DEF IsKalman
<1>3. ASSUME NEW p \in Seq(Quotes), NEW q \in Quotes
      PROVE  KalmanBatch(Append(p, q)) = KalmanStep(KalmanBatch(p), q)
  <2> DEFINE r == Append(p, q)
             n == Len(p)
  <2>1. r \in Seq(Quotes) /\ n \in Nat /\ Len(r) = n + 1 /\ r[n + 1] = q /\ \A i \in 1..n : r[i] = p[i]
    OBVIOUS
  <2> HIDE DEF r, n
  <2>2. PICK f : IsKalman(f, p, n) /\ KalmanBatch(p) = f[n]
    BY <1>1 DEF n
  <2>3. PICK g : IsKalman(g, r, n + 1) /\ KalmanBatch(r) = g[n + 1]
    BY <1>1, <2>1
  <2> DEFINE H == {k \in 0..n : g[k] = f[k]}
  <2>4. 0 \in H
    BY <2>1, <2>2, <2>3 DEF IsKalman
  <2>5. ASSUME NEW k \in 0..n, k \in H, k < n
        PROVE  k + 1 \in H
    <3>1. k + 1 \in 1..n /\ k + 1 \in 0..n /\ k + 1 \in 0..n + 1 /\ k + 1 # 0 /\ (k + 1) - 1 = k
      BY <2>1, <2>5
    <3>2. g[k + 1] = KalmanStep(g[k], r[k + 1])
      BY <2>3, <3>1 DEF IsKalman
    <3>3. f[k + 1] = KalmanStep(f[k], p[k + 1])
      BY <2>2, <3>1 DEF IsKalman
    <3> QED BY <2>1, <2>5, <3>1, <3>2, <3>3
  <2>6. H = 0..n
    <3>1. H \in SUBSET (0..n)
      OBVIOUS
    <3> HIDE DEF H
    <3> QED BY <2>1, <2>4, <2>5, <3>1, UpTo
  <2>7. g[n] = f[n]
    BY <2>1, <2>6
  <2>8. g[n + 1] = KalmanStep(g[n], r[n + 1])
    <3>1. n + 1 \in 0..n + 1 /\ n + 1 # 0 /\ (n + 1) - 1 = n
      BY <2>1
    <3> QED BY <2>3, <3>1 DEF IsKalman
  <2> QED BY <2>1, <2>2, <2>3, <2>7, <2>8 DEF r
<1> QED BY <1>2, <1>3
-----------------------------------------------------------------------------
(* The inductive invariant: the checkpoints are those of an uninterrupted  *)
(* series, which is as far as its candles take it.                         *)

IInv ==
    /\ path \in Seq(Quotes)
    /\ TrendOK(HemaBatch(path), Len(path))
    /\ StepOK(KalmanBatch(path), Len(path))
    /\ ltfHema = HemaTrendDump(HemaBatch(path))
    /\ ltfKalman = KalmanStepDump(KalmanBatch(path))
    /\ signals.relation = Relation(HemaBatch(path))

LEMMA InitIInv == Init => IInv
<1> SUFFICES ASSUME Init
             PROVE  IInv
  OBVIOUS
<1>1. path = <<>> /\ <<>> \in Seq(Quotes) /\ Len(<<>>) = 0
  BY DEF Init
<1>2. HemaBatch(path) = NewHemaTrend /\ KalmanBatch(path) = NewKalmanStep
  BY <1>1, HemaBatchIs, KalmanBatchIs
<1>3. Relation(NewHemaTrend) = "unavailable"
  <2>1. NewHemaTrend.previousFast = NA /\ NewHemaTrend.previousSlow = NA
    BY DEF NewHemaTrend
  <2> QED BY <2>1, RelationIs
<1> QED BY <1>1, <1>2, <1>3, NewTrendOK, NewStepOK DEF Init, IInv, NoSignals

LEMMA StutterIInv == IInv /\ UNCHANGED vars => IInv'
BY DEF IInv, vars

\* What one candle does, in terms of the uninterrupted series.
LEMMA StepIs ==
    ASSUME IInv, NEW q \in Quotes, Step(q)
    PROVE  LET t == HemaBatch(path)  s == KalmanBatch(path)  n == Len(path)
               hema == HemaTrend(t, q.close)  kalman == KalmanStep(s, q)
           IN  /\ n \in Nat /\ path' \in Seq(Quotes) /\ Len(path') = n + 1
               /\ HemaBatch(path') = hema /\ KalmanBatch(path') = kalman
               /\ TrendOK(hema, n + 1) /\ StepOK(kalman, n + 1)
               /\ ltfHema' = HemaTrendDump(hema) /\ ltfKalman' = KalmanStepDump(kalman)
               /\ signals' = [relation |-> Relation(hema), flip |-> Flip(t, hema),
                              direction |-> kalman.previousDirection, atr |-> kalman.previousAtr]
<1> DEFINE t == HemaBatch(path)
           s == KalmanBatch(path)
           n == Len(path)
           hema == HemaTrend(t, q.close)
           kalman == KalmanStep(s, q)
<1>1. path \in Seq(Quotes) /\ n \in Nat /\ TrendOK(t, n) /\ StepOK(s, n)
  BY DEF IInv
<1>2. HemaTrendRestored(ltfHema) = t /\ KalmanStepRestored(ltfKalman) = s
  BY <1>1, TrendSurvives, StepSurvives DEF IInv
<1>3. path' = Append(path, q) /\ path' \in Seq(Quotes) /\ Len(path') = n + 1
  BY <1>1 DEF Step
<1>4. HemaBatch(path') = hema /\ KalmanBatch(path') = kalman
  BY <1>1, <1>3, HemaBatchIs, KalmanBatchIs
<1>5. TrendOK(hema, n + 1) /\ StepOK(kalman, n + 1)
  <2>1. q.close \in Int
    BY QuoteIs
  <2> HIDE DEF t, s, n
  <2> QED BY <1>1, <2>1, TrendStepOK, KalmanStepOK
<1>6. /\ ltfHema' = HemaTrendDump(hema) /\ ltfKalman' = KalmanStepDump(kalman)
      /\ signals' = [relation |-> Relation(hema), flip |-> Flip(t, hema),
                     direction |-> kalman.previousDirection, atr |-> kalman.previousAtr]
  <2> HIDE DEF t, s
  <2> QED BY <1>2 DEF Step
<1> QED BY <1>1, <1>3, <1>4, <1>5, <1>6

LEMMA NextIInv == IInv /\ [Next]_vars => IInv'
<1> SUFFICES ASSUME IInv, [Next]_vars
             PROVE  IInv'
  OBVIOUS
<1>1. CASE UNCHANGED vars
  BY <1>1, StutterIInv
<1>2. ASSUME NEW q \in Quotes, Step(q)
      PROVE  IInv'
  <2> DEFINE t == HemaTrend(HemaBatch(path), q.close)
             s == KalmanStep(KalmanBatch(path), q)
  <2>1. /\ path' \in Seq(Quotes) /\ Len(path') = Len(path) + 1
        /\ HemaBatch(path') = t /\ KalmanBatch(path') = s
        /\ TrendOK(t, Len(path) + 1) /\ StepOK(s, Len(path) + 1)
        /\ ltfHema' = HemaTrendDump(t) /\ ltfKalman' = KalmanStepDump(s)
        /\ signals'.relation = Relation(t)
    BY <1>2, StepIs
  <2> HIDE DEF t, s
  <2> QED BY <2>1 DEF IInv
<1> QED BY <1>1, <1>2 DEF Next

\* Indicators keep the invariant for any configuration whose gains are shares, a
\* factor of either sign, and any candles (HemaTrend.update, KalmanStep.update).
THEOREM IndicatorsIInv == Spec => []IInv
<1> QED BY InitIInv, NextIInv, PTL DEF Spec

-----------------------------------------------------------------------------
(* What the runs check.                                                    *)

LEMMA PersistableIfIInv == IInv => Persistable
<1> SUFFICES ASSUME IInv
             PROVE  Persistable
  OBVIOUS
<1> DEFINE t == HemaBatch(path)
           s == KalmanBatch(path)
           n == Len(path)
<1>1. n \in Nat /\ TrendOK(t, n) /\ StepOK(s, n)
  BY DEF IInv
<1>2. ltfHema = HemaTrendDump(t) /\ ltfKalman = KalmanStepDump(s)
  BY DEF IInv
<1> HIDE DEF t, s, n
<1>3. /\ HemaTrendRestored(ltfHema) = t /\ HemaTrendValid(ltfHema)
      /\ KalmanStepRestored(ltfKalman) = s /\ KalmanStepValid(ltfKalman)
  BY <1>1, <1>2, TrendSurvives, StepSurvives
<1> QED BY <1>2, <1>3 DEF Persistable, t, s

\* A checkpoint taken after any candle holds exactly what an uninterrupted
\* series has, and is accepted (to_checkpoint and from_checkpoint of both
\* indicators, restored by ReplayEngine.step on every bar).
THEOREM IndicatorsPersistable == Spec => []Persistable
<1> QED BY IndicatorsIInv, PersistableIfIInv, PTL

LEMMA TrendIs ==
    ASSUME IInv
    PROVE  /\ Trend = KalmanBatch(path) /\ Len(path) \in Nat
           /\ StepOK(Trend, Len(path))
           /\ Seeded <=> Len(path) > Ready
<1>1. Len(path) \in Nat /\ StepOK(KalmanBatch(path), Len(path))
  BY DEF IInv
<1>2. Trend = KalmanBatch(path)
  BY <1>1, StepSurvives DEF IInv, Trend
<1>3. Seeded <=> Len(path) > Ready
  BY ReadyIs DEF Seeded
<1> QED BY <1>1, <1>2, <1>3

LEMMA TrendSideIfIInv == IInv /\ BandsInOrder => TrendSide
<1> SUFFICES ASSUME IInv, BandsInOrder, Seeded
             PROVE  IF Trend.previousDirection = -1
                    THEN Trend.previousK >= Trend.previousLower
                    ELSE Trend.previousK <= Trend.previousUpper
  BY DEF TrendSide
<1> DEFINE n == Len(path)
<1>1. StepOK(Trend, n) /\ n > Ready /\ n \in Nat
  BY TrendIs
<1> HIDE DEF n
<1>2. n # 0
  BY <1>1, ReadyIs
<1>3. /\ Trend.previousDirection \in {1, -1}
      /\ Side(Trend.previousDirection, Trend.previousK, Trend.previousLower, Trend.previousUpper)
  BY <1>1, <1>2 DEF StepOK
<1> QED BY <1>3 DEF Side

\* With a factor that is not negative, which ReplayConfig does not ask for, the
\* Kalman estimate is behind the warm-up on the side of the active band that
\* KalmanStep.update reports as the direction.
THEOREM IndicatorsTrendSide ==
    ASSUME BandsInOrder
    PROVE  Spec => []TrendSide
<1>1. IInv => TrendSide
  BY TrendSideIfIInv
<1> QED BY <1>1, IndicatorsIInv, PTL

LEMMA StepFeeds ==
    ASSUME IInv, NEW q \in Quotes, Step(q)
    PROVE  LET old == signals.relation  new == signals'.relation IN
           /\ new = "unavailable" <=> Len(path') < WarmUp
           /\ signals'.atr = NA <=> Len(path') < AtrPeriod
           /\ signals'.flip = "long" <=> new = "above" /\ old \in {"below", "equal"}
           /\ signals'.flip = "short" <=> new = "below" /\ old \in {"above", "equal"}
<1> DEFINE t == HemaBatch(path)
           n == Len(path)
           hema == HemaTrend(t, q.close)
           kalman == KalmanStep(KalmanBatch(path), q)
<1>1. /\ n \in Nat /\ Len(path') = n + 1
      /\ TrendOK(hema, n + 1) /\ StepOK(kalman, n + 1)
      /\ signals' = [relation |-> Relation(hema), flip |-> Flip(t, hema),
                     direction |-> kalman.previousDirection, atr |-> kalman.previousAtr]
  BY StepIs
<1>2. TrendOK(t, n) /\ signals.relation = Relation(t)
  BY DEF IInv
<1> HIDE DEF t, n, hema, kalman
<1>3. /\ signals'.relation = Relation(hema) /\ signals'.flip = Flip(t, hema)
      /\ signals'.atr = kalman.previousAtr
  BY <1>1
<1>4. n + 1 \in Nat
  BY <1>1
<1>5. /\ t.previousFast = NA \/ t.previousFast \in Int
      /\ t.previousSlow = NA \/ t.previousSlow \in Int
  BY <1>1, <1>2, TrendReady
<1>6. /\ hema.previousFast = NA \/ hema.previousFast \in Int
      /\ hema.previousSlow = NA \/ hema.previousSlow \in Int
      /\ Relation(hema) = "unavailable" <=> n + 1 < WarmUp
  BY <1>1, <1>4, TrendReady
<1>7. kalman.previousAtr = NA <=> n + 1 < AtrPeriod
  <2>1. kalman.previousAtr = kalman.atr.rma.value /\ ATROK(kalman.atr, n + 1)
    BY <1>1 DEF StepOK
  <2> QED BY <1>4, <2>1, AtrIs
<1>8. /\ Flip(t, hema) = "long"
           <=> Relation(hema) = "above" /\ Relation(t) \in {"below", "equal"}
      /\ Flip(t, hema) = "short"
           <=> Relation(hema) = "below" /\ Relation(t) \in {"above", "equal"}
  BY <1>5, <1>6, FlipIs
<1>9. /\ signals'.relation = "unavailable" <=> Len(path') < WarmUp
      /\ signals'.atr = NA <=> Len(path') < AtrPeriod
  BY <1>1, <1>3, <1>6, <1>7
<1>10. /\ signals'.flip = "long"
            <=> signals'.relation = "above" /\ signals.relation \in {"below", "equal"}
       /\ signals'.flip = "short"
            <=> signals'.relation = "below" /\ signals.relation \in {"above", "equal"}
  BY <1>2, <1>3, <1>8
<1> QED BY <1>9, <1>10

\* What ReplayEngine.step takes for granted of its indicators: when relation
\* and ATR are there, and which crossings are reported.
THEOREM IndicatorsFeedReplay == Spec => FeedsReplay
<1>1. ASSUME IInv, [Next]_vars
      PROVE  [ LET old == signals.relation  new == signals'.relation IN
               /\ new = "unavailable" <=> Len(path') < WarmUp
               /\ signals'.atr = NA <=> Len(path') < AtrPeriod
               /\ signals'.flip = "long" <=> new = "above" /\ old \in {"below", "equal"}
               /\ signals'.flip = "short" <=> new = "below" /\ old \in {"above", "equal"}
             ]_vars
  <2>1. ASSUME NEW q \in Quotes, Step(q)
        PROVE  LET old == signals.relation  new == signals'.relation IN
               /\ new = "unavailable" <=> Len(path') < WarmUp
               /\ signals'.atr = NA <=> Len(path') < AtrPeriod
               /\ signals'.flip = "long" <=> new = "above" /\ old \in {"below", "equal"}
               /\ signals'.flip = "short" <=> new = "below" /\ old \in {"above", "equal"}
    BY <1>1, <2>1, StepFeeds
  <2> QED BY <1>1, <2>1 DEF Next
<1> QED BY <1>1, IndicatorsIInv, PTL DEF Spec, FeedsReplay

LEMMA StepRatchets ==
    ASSUME IInv, BandsInOrder, NEW q \in Quotes, Step(q), Seeded
    PROVE  LET s == Trend  n == Trend' IN
           CASE s.previousDirection = -1 /\ n.previousDirection = -1 -> n.previousLower >= s.previousLower
             [] s.previousDirection = 1 /\ n.previousDirection = 1 -> n.previousUpper <= s.previousUpper
             [] s.previousDirection = 1 /\ n.previousDirection = -1 -> n.previousK > s.previousUpper
             [] s.previousDirection = -1 /\ n.previousDirection = 1 ->
                   n.previousK < s.previousLower \/ s.previousLower = s.previousUpper
<1> DEFINE s == Trend
           n == Trend'
           m == Len(path)
           new == KalmanStep(KalmanBatch(path), q)
<1>1. s = KalmanBatch(path) /\ m \in Nat /\ StepOK(s, m) /\ m > Ready
  BY TrendIs
<1>2. n = new
  <2>1. StepOK(new, m + 1) /\ ltfKalman' = KalmanStepDump(new) /\ m + 1 \in Nat
    BY StepIs
  <2> HIDE DEF new, m
  <2>2. KalmanStepRestored(KalmanStepDump(new)) = new
    BY <2>1, StepSurvives
  <2> QED BY <2>1, <2>2 DEF Trend
<1>3. StepOK(n, m + 1)
  BY <1>2, StepIs
<1>4. n = KalmanStep(s, q)
  BY <1>1, <1>2
<1> HIDE DEF s, n, m, new
<1>5. Ratchet(s.previousDirection, s.previousLower, s.previousUpper,
              n.previousDirection, n.previousK, n.previousLower, n.previousUpper)
  BY <1>1, <1>4, KalmanStepOK
<1>6. m # 0 /\ m + 1 # 0
  BY <1>1, ReadyIs
<1>7. s.previousDirection \in {1, -1} /\ n.previousDirection \in {1, -1}
  BY <1>1, <1>3, <1>6 DEF StepOK
<1>8. CASE s.previousDirection = -1 /\ n.previousDirection = -1
  BY <1>5, <1>8 DEF Ratchet, s, n
<1>9. CASE s.previousDirection = 1 /\ n.previousDirection = 1
  BY <1>5, <1>9 DEF Ratchet, s, n
<1>10. CASE s.previousDirection = 1 /\ n.previousDirection = -1
  BY <1>5, <1>10 DEF Ratchet, s, n
<1>11. CASE s.previousDirection = -1 /\ n.previousDirection = 1
  BY <1>5, <1>11 DEF Ratchet, s, n
<1> QED BY <1>7, <1>8, <1>9, <1>10, <1>11

\* With a factor that is not negative, which ReplayConfig does not ask for, a
\* band only tightens while its trend lasts, and a trend ends only on a bar
\* whose estimate breaks the active band (KalmanStep.update).
THEOREM IndicatorsRatchet ==
    ASSUME BandsInOrder
    PROVE  Spec => Ratchets
<1>1. ASSUME IInv, [Next]_vars
      PROVE  [ Seeded =>
               LET s == Trend  n == Trend' IN
               CASE s.previousDirection = -1 /\ n.previousDirection = -1 -> n.previousLower >= s.previousLower
                 [] s.previousDirection = 1 /\ n.previousDirection = 1 -> n.previousUpper <= s.previousUpper
                 [] s.previousDirection = 1 /\ n.previousDirection = -1 -> n.previousK > s.previousUpper
                 [] s.previousDirection = -1 /\ n.previousDirection = 1 ->
                       n.previousK < s.previousLower \/ s.previousLower = s.previousUpper
             ]_vars
  <2>1. CASE UNCHANGED vars
    BY <2>1
  <2>2. CASE ~Seeded
    BY <2>2
  <2>3. ASSUME Seeded, NEW q \in Quotes, Step(q)
        PROVE  LET s == Trend  n == Trend' IN
               CASE s.previousDirection = -1 /\ n.previousDirection = -1 -> n.previousLower >= s.previousLower
                 [] s.previousDirection = 1 /\ n.previousDirection = 1 -> n.previousUpper <= s.previousUpper
                 [] s.previousDirection = 1 /\ n.previousDirection = -1 -> n.previousK > s.previousUpper
                 [] s.previousDirection = -1 /\ n.previousDirection = 1 ->
                       n.previousK < s.previousLower \/ s.previousLower = s.previousUpper
    BY <1>1, <2>3, StepRatchets
  <2> QED BY <1>1, <2>1, <2>2, <2>3 DEF Next
<1> QED BY <1>1, IndicatorsIInv, PTL DEF Spec, Ratchets
=============================================================================
