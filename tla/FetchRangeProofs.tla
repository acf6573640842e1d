--------------------------- MODULE FetchRangeProofs ---------------------------
(***************************************************************************)
(* A range is returned whole or not at all, for every page size, retry     *)
(* budget, range and answer of the exchange.                               *)
(***************************************************************************)
EXTENDS FetchRange, SequenceTheorems, TLAPS

\* What is collected is always the beginning of the range, up to the page
\* being fetched or to the open candle.
IInv ==
    /\ TypeOK
    /\ collected = Upto(first, Smaller(pageStart, current))
    /\ pc = "start" => pageStart = first
    /\ pc = "done" => pageStart > current

-----------------------------------------------------------------------------
\* A stretch of open times is a sequence of the expected length.
LEMMA UptoIsSeq ==
    ASSUME NEW a \in Nat, NEW b \in Nat, a <= b
    PROVE  /\ Upto(a, b) \in Seq(Nat) /\ Len(Upto(a, b)) = b - a
           /\ \A i \in 1..(b - a) : Upto(a, b)[i] = a + i - 1
  <1>1. Upto(a, b) \in [1..(b - a) -> Nat]
    BY DEF Upto
  <1>2. Upto(a, b) \in Seq(Nat)
    BY <1>1, SeqDef
  <1>3. DOMAIN Upto(a, b) = 1..(b - a)
    BY DEF Upto
  <1>4. Len(Upto(a, b)) = b - a
    BY <1>2, <1>3, LenProperties
  <1>. QED
    BY <1>2, <1>4 DEF Upto

\* Two adjoining stretches make one.
LEMMA UptoJoins ==
    ASSUME NEW a \in Nat, NEW b \in Nat, NEW c \in Nat, a <= b, b <= c
    PROVE  Upto(a, b) \o Upto(b, c) = Upto(a, c)
  <1>. DEFINE s == Upto(a, b)
              t == Upto(b, c)
              u == Upto(a, c)
  <1>1. s \in Seq(Nat) /\ Len(s) = b - a /\ \A i \in 1..(b - a) : s[i] = a + i - 1
    BY UptoIsSeq
  <1>2. t \in Seq(Nat) /\ Len(t) = c - b /\ \A i \in 1..(c - b) : t[i] = b + i - 1
    BY UptoIsSeq
  <1>3. a <= c
    OBVIOUS
  <1>4. u \in Seq(Nat) /\ Len(u) = c - a /\ \A i \in 1..(c - a) : u[i] = a + i - 1
    BY <1>3, UptoIsSeq
  <1>5. /\ s \in Seq(Nat) /\ Len(s) = b - a /\ \A i \in 1..(b - a) : s[i] = a + i - 1
        /\ t \in Seq(Nat) /\ Len(t) = c - b /\ \A i \in 1..(c - b) : t[i] = b + i - 1
        /\ u \in Seq(Nat) /\ Len(u) = c - a /\ \A i \in 1..(c - a) : u[i] = a + i - 1
    BY <1>1, <1>2, <1>4
  <1>. HIDE DEF s, t, u
  <1>6. /\ s \o t \in Seq(Nat)
        /\ Len(s \o t) = Len(s) + Len(t)
        /\ \A i \in 1..Len(s) + Len(t) :
              (s \o t)[i] = IF i <= Len(s) THEN s[i] ELSE t[i - Len(s)]
    BY <1>5, ConcatProperties
  <1>7. Len(s \o t) = Len(u)
    BY <1>5, <1>6
  <1>8. \A i \in 1..Len(s \o t) : (s \o t)[i] = u[i]
    <2>. TAKE i \in 1..Len(s \o t)
    <2>1. CASE i <= b - a
      BY <1>5, <1>6, <2>1
    <2>2. CASE ~(i <= b - a)
      <3>. DEFINE j == i - (b - a)
      <3>1. j \in 1..(c - b) /\ i \in 1..(c - a) /\ i \in 1..Len(s) + Len(t)
        BY <1>5, <1>6, <2>2
      <3>2. (s \o t)[i] = t[j]
        BY <1>5, <1>6, <2>2, <3>1
      <3>. HIDE DEF j
      <3>3. t[j] = b + j - 1 /\ u[i] = a + i - 1
        BY <1>5, <3>1
      <3>4. b + j - 1 = a + i - 1
        BY <3>1 DEF j
      <3>. QED
        BY <3>2, <3>3, <3>4
    <2>. QED
      BY <2>1, <2>2
  <1>9. s \o t = u
    BY <1>5, <1>6, <1>7, <1>8, SeqEqual
  <1>. QED
    BY <1>9 DEF s, t, u

\* A complete page begins with the required candles.
LEMMA CompletePage ==
    ASSUME TypeOK, pageStart <= current, NEW rows \in Seq(Int), Complete(rows)
    PROVE  /\ SubSeq(rows, 1, Len(Required)) = Required
           /\ PageEnd \in pageStart..current
           /\ Smaller(PageEnd + 1, current) \in pageStart..current
  <1>1. PageEnd \in pageStart..current
    BY ConfigAssumption DEF TypeOK, PageEnd, Smaller
  <1>2. Smaller(PageEnd + 1, current) \in pageStart..current
    BY <1>1 DEF TypeOK, Smaller
  <1>3. pageStart \in Nat /\ Smaller(PageEnd + 1, current) \in Nat
    BY <1>2 DEF TypeOK
  <1>4. Required \in Seq(Nat)
    BY <1>2, <1>3, UptoIsSeq DEF Required
  <1>5. SubSeq(Required, 1, Len(Required)) = Required
    BY <1>4, SubSeqFull
  <1>6. SubSeq(Required \o <<current>>, 1, Len(Required)) = Required
    BY <1>4 DEF TypeOK
  <1>. QED
    BY <1>1, <1>2, <1>5, <1>6 DEF Complete

-----------------------------------------------------------------------------
LEMMA InitIInv == Init => IInv
  BY ConfigAssumption, RowsAssumption DEF Init, IInv, TypeOK, Upto, Smaller

\* An accepted page extends what is collected up to its own end.
LEMMA PageTaken ==
    ASSUME IInv, NEW rows \in Rows, TakePage(rows)
    PROVE  IInv'
  <1>. DEFINE z == Smaller(PageEnd + 1, current)
  <1>1. /\ rows \in Seq(Int) /\ pageStart <= current /\ Complete(rows)
        /\ pageStart' = PageEnd + 1 /\ attempt' = 0 /\ UNCHANGED <<first, current, pc>>
        /\ requests' = requests + 1 /\ pc = "page"
        /\ collected' = collected \o SubSeq(rows, 1, Len(Required))
    BY RowsAssumption DEF TakePage, Ask, range
  <1>2. TypeOK
    BY DEF IInv
  <1>3. /\ SubSeq(rows, 1, Len(Required)) = Upto(pageStart, z)
        /\ PageEnd \in pageStart..current
        /\ z \in pageStart..current
    BY <1>1, <1>2, CompletePage DEF Required
  <1>4. collected = Upto(first, pageStart)
    BY <1>1 DEF IInv, Smaller
  <1>5. collected' = Upto(first, pageStart) \o Upto(pageStart, z)
    BY <1>1, <1>3, <1>4
  <1>6. /\ first \in Nat /\ pageStart \in Nat /\ z \in Nat /\ first <= pageStart
        /\ pageStart <= z /\ first <= z
    BY <1>2, <1>3 DEF TypeOK
  <1>7. Upto(first, pageStart) \o Upto(pageStart, z) = Upto(first, z)
    <2>. HIDE DEF z
    <2>. QED
      BY <1>6, UptoJoins
  <1>8. Upto(first, z) \in Seq(Nat)
    <2>. HIDE DEF z
    <2>. QED
      BY <1>6, UptoIsSeq
  <1>9. z = Smaller(pageStart', current')
    BY <1>1
  <1>10. collected' \in Seq(Nat)
    BY <1>5, <1>7, <1>8
  <1>11. pageStart' \in first..current + 1 /\ requests' \in Nat /\ 0 \in 0..Attempts - 1
    BY <1>1, <1>2, <1>3, ConfigAssumption DEF TypeOK
  <1>12. /\ first' = first /\ current' = current /\ pc' = "page" /\ attempt' = 0
    BY <1>1
  <1>13. TypeOK'
    BY <1>2, <1>10, <1>11, <1>12 DEF TypeOK
  <1>. QED
    BY <1>1, <1>5, <1>7, <1>9, <1>13 DEF IInv

LEMMA NextIInv == IInv /\ [Next]_vars => IInv'
  <1>. SUFFICES ASSUME IInv, [Next]_vars PROVE IInv'
    OBVIOUS
  <1>. USE ConfigAssumption DEF IInv, TypeOK, range
  <1>1. CASE Begin
    BY <1>1 DEF Begin, Upto, Smaller
  <1>2. ASSUME NEW rows \in Rows, TakePage(rows) PROVE IInv'
    BY <1>2, PageTaken
  <1>3. ASSUME NEW rows \in Rows, RejectPage(rows) PROVE IInv'
    BY <1>3 DEF RejectPage, Ask, Fail
  <1>4. CASE Denied
    BY <1>4 DEF Denied, Ask, Fail
  <1>5. CASE Retry
    BY <1>5 DEF Retry, Ask
  <1>6. CASE GiveUp
    BY <1>6 DEF GiveUp, Ask, Fail
  <1>7. CASE Finish
    BY <1>7 DEF Finish
  <1>8. CASE UNCHANGED vars
    BY <1>8 DEF vars
  <1>. QED
    BY <1>1, <1>2, <1>3, <1>4, <1>5, <1>6, <1>7, <1>8 DEF Next

\* The loop's invariant, for every answer of the exchange.
THEOREM FetchIInv == Spec => []IInv
  BY InitIInv, NextIInv, PTL DEF Spec

\* _fetch_complete_range returns exactly the range it was asked for, or raises.
THEOREM FetchExactRange == Spec => []ExactRange
  <1>1. IInv => ExactRange
    BY DEF IInv, TypeOK, ExactRange, Smaller
  <1>. QED
    BY <1>1, FetchIInv, PTL
-----------------------------------------------------------------------------
(* The budget of requests.                                                 *)

\* A fetch that has taken p pages has asked at most Attempts times for each of
\* them, and once more than its failed attempts for the page it stopped at.
PaidUpTo(p) ==
    /\ p \in Nat
    /\ pageStart <= current =>
          /\ pageStart = first + p * PageSize
          /\ requests <= Attempts * p + attempt + (IF pc = "failed" THEN 1 ELSE 0)
    /\ pageStart > current =>
          /\ requests <= Attempts * p
          /\ p = 0 \/ first + (p - 1) * PageSize <= current

Budget == IInv /\ \E p \in Nat : PaidUpTo(p)

LEMMA WholePages ==
    ASSUME NEW d \in Nat, NEW size \in Nat \ {0}, NEW p \in Nat, p * size <= d
    PROVE  p <= d \div size
  <1>. DEFINE q == d \div size
  <1>1. q \in Nat /\ d < (q + 1) * size
    OBVIOUS
  <1>. HIDE DEF q
  <1>2. SUFFICES ASSUME q + 1 <= p
                 PROVE  FALSE
    BY <1>1 DEF q
  <1>3. (q + 1) * size <= p * size
    BY <1>1, <1>2
  <1>. QED
    BY <1>1, <1>3

LEMMA InitBudget == Init => Budget
  <1>. SUFFICES ASSUME Init PROVE Budget
    OBVIOUS
  <1>1. IInv
    BY InitIInv
  <1>2. PaidUpTo(0)
    BY <1>1, ConfigAssumption DEF Init, IInv, TypeOK, PaidUpTo
  <1>. QED
    BY <1>1, <1>2 DEF Budget

LEMMA NextBudget == Budget /\ [Next]_vars => Budget'
  <1>. SUFFICES ASSUME Budget, [Next]_vars PROVE Budget'
    OBVIOUS
  <1>1. TypeOK /\ IInv'
    BY NextIInv DEF Budget, IInv
  <1>2. PICK p \in Nat : PaidUpTo(p)
    BY DEF Budget
  <1>3. /\ first \in Nat /\ current \in Nat /\ pageStart \in Nat /\ attempt \in Nat
        /\ attempt + 1 <= Attempts /\ requests \in Nat
        /\ Attempts \in Nat \ {0} /\ PageSize \in Nat \ {0}
    BY <1>1, ConfigAssumption DEF TypeOK
  <1>4. /\ Attempts * p \in Nat /\ p * PageSize \in Nat
        /\ Attempts * (p + 1) = Attempts * p + Attempts
        /\ (p + 1) * PageSize = p * PageSize + PageSize
    BY <1>3
  <1>5. ASSUME Begin \/ Finish \/ UNCHANGED vars
        PROVE  PaidUpTo(p)'
    BY <1>2, <1>3, <1>4, <1>5 DEF Begin, Finish, vars, range, PaidUpTo
  <1>6. ASSUME NEW rows \in Rows, TakePage(rows)
        PROVE  PaidUpTo(p + 1)'
    <2>1. /\ pageStart <= current /\ requests' = requests + 1 /\ pc = "page"
          /\ first' = first /\ current' = current /\ pc' = pc
          /\ pageStart' = PageEnd + 1 /\ attempt' = 0
      BY <1>6 DEF TakePage, Ask, range
    <2>2. /\ pageStart = first + p * PageSize
          /\ requests <= Attempts * p + attempt
      BY <1>2, <1>3, <1>4, <2>1 DEF PaidUpTo
    <2>3. requests' <= Attempts * (p + 1)
      BY <1>3, <1>4, <2>1, <2>2
    <2>4. pageStart' <= current => pageStart' = first + (p + 1) * PageSize
      BY <1>3, <1>4, <2>1, <2>2 DEF PageEnd, Smaller
    <2>5. first + ((p + 1) - 1) * PageSize <= current
      BY <1>3, <2>1, <2>2
    <2>. QED
      BY <1>3, <1>4, <2>1, <2>3, <2>4, <2>5 DEF PaidUpTo
  <1>7. ASSUME Ask /\ Fail
        PROVE  PaidUpTo(p)'
    BY <1>2, <1>3, <1>4, <1>7 DEF Ask, Fail, range, PaidUpTo
  <1>8. CASE Retry
    <2>1. PaidUpTo(p)'
      BY <1>2, <1>3, <1>4, <1>8 DEF Retry, Ask, range, PaidUpTo
    <2>. QED
      BY <1>1, <2>1 DEF Budget
  <1>9. (\E q \in Nat : PaidUpTo(q)') => Budget'
    BY <1>1 DEF Budget
  <1>10. CASE Begin \/ Finish \/ UNCHANGED vars
    BY <1>5, <1>9, <1>10
  <1>11. ASSUME NEW rows \in Rows, TakePage(rows) PROVE Budget'
    BY <1>6, <1>9, <1>11
  <1>12. ASSUME NEW rows \in Rows, RejectPage(rows) PROVE Budget'
    BY <1>7, <1>9, <1>12 DEF RejectPage
  <1>13. CASE Denied \/ GiveUp
    BY <1>7, <1>9, <1>13 DEF Denied, GiveUp
  <1>. QED
    BY <1>8, <1>10, <1>11, <1>12, <1>13 DEF Next

\* _fetch_page is asked at most RetryPolicy.max_attempts times for each page of
\* the range, whatever the exchange answers.
THEOREM FetchRequestsBounded == Spec => []RequestsBounded
  <1>1. Budget => RequestsBounded
    <2>. SUFFICES ASSUME Budget PROVE RequestsBounded
      OBVIOUS
    <2>1. PICK p \in Nat : PaidUpTo(p)
      BY DEF Budget
    <2>2. /\ first \in Nat /\ current \in Nat /\ first <= current /\ pageStart \in Nat
          /\ attempt \in Nat /\ attempt + 1 <= Attempts /\ requests \in Nat
          /\ Attempts \in Nat \ {0} /\ PageSize \in Nat \ {0}
      BY ConfigAssumption DEF Budget, IInv, TypeOK
    <2>. DEFINE q == (current - first) \div PageSize + 1
    <2>3. \A n \in Nat : n * PageSize <= current - first => n + 1 <= q
      <3>1. current - first \in Nat
        BY <2>2
      <3>. QED
        BY <2>2, <3>1, WholePages
    <2>4. q \in Nat
      BY <2>2
    <2>. HIDE DEF q
    <2>5. \A n \in Nat : n <= q => Attempts * n <= Attempts * q
      BY <2>2, <2>4
    <2>6. CASE pageStart <= current
      <3>1. p + 1 <= q
        BY <2>1, <2>2, <2>3, <2>6 DEF PaidUpTo
      <3>2. requests <= Attempts * (p + 1)
        BY <2>1, <2>2, <2>6 DEF PaidUpTo
      <3>3. Attempts * (p + 1) <= Attempts * q
        BY <2>5, <3>1
      <3>. QED
        BY <2>2, <2>4, <3>2, <3>3 DEF RequestsBounded, q
    <2>7. CASE pageStart > current
      <3>1. p <= q
        <4>1. CASE p = 0
          BY <2>4, <4>1
        <4>2. CASE p # 0 /\ first + (p - 1) * PageSize <= current
          <5>1. p - 1 \in Nat /\ (p - 1) * PageSize \in Nat
            BY <2>2, <4>2
          <5>2. (p - 1) * PageSize <= current - first
            BY <2>2, <4>2, <5>1
          <5>3. (p - 1) + 1 <= q
            BY <2>3, <5>1, <5>2
          <5>. QED
            BY <5>3
        <4>. QED
          BY <2>1, <2>7, <4>1, <4>2 DEF PaidUpTo
      <3>2. requests <= Attempts * p /\ Attempts * p <= Attempts * q
        BY <2>1, <2>5, <2>7, <3>1 DEF PaidUpTo
      <3>. QED
        BY <2>2, <2>4, <3>2 DEF RequestsBounded, q
    <2>. QED
      BY <2>2, <2>6, <2>7
  <1>. QED
    BY <1>1, InitBudget, NextBudget, PTL DEF Spec
=============================================================================
