----------------------------- MODULE MCFetchRange -----------------------------
EXTENDS FetchRange

\* Every answer of up to PageSize + 1 rows, rows outside the page included.
MCRows == UNION {[1..n -> 0..Horizon + 1] : n \in 0..PageSize + 1}
=============================================================================
