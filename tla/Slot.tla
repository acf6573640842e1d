--------------------------------- MODULE Slot ---------------------------------
(***************************************************************************)
(* What a caller of SQLiteCheckpointStore may rely on: each call that      *)
(* answers took effect at one instant between its beginning and its end.   *)
(* There is one row; a save replaces it only by a row of the same          *)
(* configuration that is not older.                                        *)
(***************************************************************************)
EXTENDS Integers

CONSTANTS
    Procs,          \* callers
    Configs,        \* configuration fingerprints
    Cursors,        \* chronology cursors; 0 is the cursor of a fresh state
    NoRow           \* the slot holds nothing

VARIABLES
    row,            \* the slot
    asked,          \* the requests that every caller waits for, one at most
    answer          \* every caller's last answer

vars == <<row, asked, answer>>

StoredRows == [config : Configs, cursor : Cursors]

Requests ==
    [op : {"save"}, config : Configs, cursor : Cursors]
        \cup [op : {"load", "delete"}, config : Configs, cursor : {0}]

\* An answer of some kind; only a load that finds its row brings one.
Plain(kind) == [kind |-> kind, row |-> NoRow]
Loaded(r) == [kind |-> "loaded", row |-> r]

RowOf(r) == [config |-> r.config, cursor |-> r.cursor]

Mismatch(r, stored) == stored # NoRow /\ stored.config # r.config
Regression(r, stored) == stored # NoRow /\ r.cursor < stored.cursor

-----------------------------------------------------------------------------
Init ==
    /\ row = NoRow
    /\ asked = [p \in Procs |-> {}]
    /\ answer = [p \in Procs |-> Plain("none")]

Ask(p) ==
    /\ asked[p] = {}
    /\ \E r \in Requests : asked' = [asked EXCEPT ![p] = {r}]
    /\ answer' = [answer EXCEPT ![p] = Plain("none")]
    /\ UNCHANGED row

Reply(p, a) ==
    /\ asked' = [asked EXCEPT ![p] = {}]
    /\ answer' = [answer EXCEPT ![p] = a]

Save(p) == \E r \in asked[p] :
    /\ r.op = "save"
    /\ ~Mismatch(r, row) /\ ~Regression(r, row)
    /\ row' = RowOf(r)
    /\ Reply(p, Plain("saved"))

\* A save of an older state, or any call with another configuration.
Refuse(p) == \E r \in asked[p] :
    /\ \/ Mismatch(r, row) /\ Reply(p, Plain("mismatch"))
       \/ r.op = "save" /\ Regression(r, row) /\ Reply(p, Plain("regression"))
    /\ UNCHANGED row

Load(p) == \E r \in asked[p] :
    /\ r.op = "load"
    /\ row # NoRow /\ ~Mismatch(r, row)
    /\ Reply(p, Loaded(row))
    /\ UNCHANGED row

Absent(p) == \E r \in asked[p] :
    /\ r.op # "save" /\ row = NoRow
    /\ Reply(p, Plain("absent"))
    /\ UNCHANGED row

\* Whatever is there goes, for the row that was compared may have been replaced.
Delete(p) == \E r \in asked[p] :
    /\ r.op = "delete" /\ row # NoRow
    /\ row' = NoRow
    /\ Reply(p, Plain("deleted"))

\* An error, or the caller's crash, leaves the row.
Fail(p) ==
    /\ \E kind \in {"none", "failed", "corrupt", "schema"} : Reply(p, Plain(kind))
    /\ UNCHANGED row

Next == \E p \in Procs :
    Ask(p) \/ Save(p) \/ Refuse(p) \/ Load(p) \/ Absent(p) \/ Delete(p) \/ Fail(p)

Spec == Init /\ [][Next]_vars
=============================================================================
