------------------------------ MODULE FetchRange ------------------------------
(***************************************************************************)
(* LiveRuntime._fetch_complete_range over BinanceUSDMClient.fetch_bars:    *)
(* one range of candles of one timeframe, asked for page by page, each     *)
(* page tried again after a transient failure and checked when it arrives. *)
(*                                                                         *)
(* The unit of time is the timeframe and a candle is its open time.  The   *)
(* range is every candle from first up to, not including, the open candle  *)
(* current; it is empty only when no candle was ever final.  The exchange  *)
(* may answer with any rows.                                               *)
(***************************************************************************)
EXTENDS Integers, Sequences

CONSTANTS
    PageSize,       \* RuntimeConfig.request_page_size
    Attempts,       \* RuntimeConfig.retry_attempts
    MaxBars,        \* how many candles the caller allows
    Horizon,        \* bound on the open times
    Rows            \* the rows, by open time, that an answer may hold

ASSUME ConfigAssumption == {PageSize, Attempts, MaxBars} \subseteq Nat \ {0}

ASSUME RowsAssumption == Horizon \in Nat /\ Rows \subseteq Seq(Int)

VARIABLES
    first, current,     \* the range asked for (fixed)
    pc,                 \* "start", "page", "done" or "failed"
    pageStart,          \* where the page being fetched begins
    attempt,            \* failed attempts at this page
    collected,          \* the candles accepted so far
    requests            \* history: how many requests were made

range == <<first, current>>
vars == <<range, pc, pageStart, attempt, collected, requests>>

-----------------------------------------------------------------------------
\* The open times from a up to, not including, b.
Upto(a, b) == [i \in 1..(b - a) |-> a + i - 1]

Smaller(m, n) == IF m <= n THEN m ELSE n

PageEnd == Smaller(current, pageStart + PageSize - 1)

\* The final candles the page must begin with: all but the open one.
Required == Upto(pageStart, Smaller(PageEnd + 1, current))

\* What _canonicalize and the checks before it let through; anything else is
\* a malformed response.
Canonical(rows) ==
    /\ \A i \in DOMAIN rows : pageStart <= rows[i] /\ rows[i] <= PageEnd
    /\ \A i, j \in DOMAIN rows : i < j => rows[i] < rows[j]

\* Mutant: enough candles are taken for the right candles.
Complete_CountOnly(rows) == Len(rows) >= Len(Required)

\* The required candles without a hole, and after them at most the open one.
Complete(rows) == rows \in {Required, Required \o <<current>>}

-----------------------------------------------------------------------------
Init ==
    /\ current \in 0..Horizon
    /\ first \in 0..current
    /\ first = current => current = 0
    /\ pc = "start"
    /\ pageStart = first
    /\ attempt = 0
    /\ collected = <<>>
    /\ requests = 0

Begin ==
    /\ pc = "start"
    /\ pc' = IF current - first > MaxBars THEN "failed" ELSE "page"
    /\ UNCHANGED <<range, pageStart, attempt, collected, requests>>

\* A request is made and one of its outcomes follows.
Ask ==
    /\ pc = "page" /\ pageStart <= current
    /\ requests' = requests + 1
    /\ UNCHANGED range

TakePage(rows) ==
    /\ Ask
    /\ Canonical(rows) /\ Complete(rows)
    /\ collected' = collected \o SubSeq(rows, 1, Len(Required))
    /\ pageStart' = PageEnd + 1
    /\ attempt' = 0
    /\ UNCHANGED pc

Fail == pc' = "failed" /\ UNCHANGED <<pageStart, attempt, collected>>

\* Malformed rows and holes are permanent: they are not asked for again.
RejectPage(rows) ==
    /\ Ask
    /\ ~(Canonical(rows) /\ Complete(rows))
    /\ Fail

\* Any other 4xx, and a body that is not JSON.
Denied == Ask /\ Fail

\* Mutant: the first attempt is not counted.
Retry_OneMore ==
    /\ Ask
    /\ attempt < Attempts
    /\ attempt' = attempt + 1
    /\ UNCHANGED <<pc, pageStart, collected>>

\* 408, 429, 5xx and transport failures.
Retry ==
    /\ Ask
    /\ attempt + 1 < Attempts
    /\ attempt' = attempt + 1
    /\ UNCHANGED <<pc, pageStart, collected>>

GiveUp == Ask /\ attempt + 1 = Attempts /\ Fail

Finish ==
    /\ pc = "page" /\ pageStart > current
    /\ pc' = IF Len(collected) = current - first THEN "done" ELSE "failed"
    /\ UNCHANGED <<range, pageStart, attempt, collected, requests>>

Next ==
    \/ Begin
    \/ \E rows \in Rows : TakePage(rows) \/ RejectPage(rows)
    \/ Denied \/ Retry \/ GiveUp \/ Finish

Spec == Init /\ [][Next]_vars

-----------------------------------------------------------------------------
\* Type invariant of the loop and of what it collected.
TypeOK ==
    /\ first \in Nat /\ current \in Nat /\ first <= current
    /\ pc \in {"start", "page", "done", "failed"}
    /\ pageStart \in first..current + 1
    /\ attempt \in 0..Attempts - 1
    /\ collected \in Seq(Nat)
    /\ requests \in Nat

\* Whatever the exchange answers, page by page and attempt by attempt, a range
\* is returned whole or not at all: no hole, no repetition at a page boundary,
\* and never the candle that is still open, although every last page asks for
\* it and an answer may hold it in place of a missing one.
ExactRange == pc = "done" => collected = Upto(first, current)

\* However busy the exchange is, a fetch comes to an end, after at most the
\* budgeted attempts for each page of the range.
RequestsBounded == requests <= Attempts * ((current - first) \div PageSize + 1)
=============================================================================
