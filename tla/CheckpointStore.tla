--------------------------- MODULE CheckpointStore ----------------------------
(***************************************************************************)
(* SQLiteCheckpointStore: several processes save, load and delete the row  *)
(* of one slot.  A save works inside BEGIN IMMEDIATE ... COMMIT; a load    *)
(* reads with one statement after another, and a delete looks at the row   *)
(* before it begins its transaction.                                       *)
(*                                                                         *)
(* The file is touched by this code alone, so its schema is right whenever *)
(* it has one, and the payload is the one that was saved with its columns. *)
(***************************************************************************)
EXTENDS Integers

CONSTANTS Procs, Configs, Cursors, NoRow, Nobody

VARIABLES
    file,       \* "missing", "empty" (no schema yet) or "ready"
    row,        \* the committed row of the slot, or NoRow
    writer,     \* who is inside BEGIN IMMEDIATE
    pc,         \* where every process is in its call
    call,       \* and what it was called with
    answer      \* every process's last answer

vars == <<file, row, writer, pc, call, answer>>

StoredRows == [config : Configs, cursor : Cursors]

Requests ==
    [op : {"save"}, config : Configs, cursor : Cursors]
        \cup [op : {"load", "delete"}, config : Configs, cursor : {0}]

ASSUME CheckpointAssumption ==
    /\ Cursors \subseteq Nat /\ 0 \in Cursors /\ Configs # {}
    /\ NoRow \notin StoredRows
    /\ Nobody \notin Procs

\* The states of a call: waiting to begin; save: locked, writing; load and
\* delete: between the statements that read; delete: checked, deleting.
Places == {"idle", "opening", "locked", "writing", "tables", "schema", "row",
           "checked", "deleting"}

Plain(kind) == [kind |-> kind, row |-> NoRow]
Loaded(r) == [kind |-> "loaded", row |-> r]

Answers ==
    {Plain(kind) : kind \in {"none", "saved", "absent", "deleted", "mismatch",
                             "regression", "failed", "corrupt", "schema"}}
        \cup {Loaded(r) : r \in StoredRows}

-----------------------------------------------------------------------------
Init ==
    /\ file \in {"missing", "empty"}
    /\ row = NoRow
    /\ writer = Nobody
    /\ pc = [p \in Procs |-> "idle"]
    /\ call \in [Procs -> {r \in Requests : r.op = "load"}]
    /\ answer = [p \in Procs |-> Plain("none")]

Goto(p, place) == pc' = [pc EXCEPT ![p] = place] /\ UNCHANGED <<call, answer>>

Return(p, a) ==
    /\ pc' = [pc EXCEPT ![p] = "idle"]
    /\ answer' = [answer EXCEPT ![p] = a]
    /\ UNCHANGED call

Call(p, r) ==
    /\ pc[p] = "idle"
    /\ pc' = [pc EXCEPT ![p] = "opening"]
    /\ call' = [call EXCEPT ![p] = r]
    /\ answer' = [answer EXCEPT ![p] = Plain("none")]
    /\ UNCHANGED <<file, row, writer>>

-----------------------------------------------------------------------------
\* save_checkpoint

\* Mutant: BEGIN without IMMEDIATE does not exclude another writer.
BeginSave_Deferred(p) ==
    /\ pc[p] = "opening" /\ call[p].op = "save"
    /\ file' = IF file = "missing" THEN "empty" ELSE file
    /\ writer' = p
    /\ Goto(p, "locked")
    /\ UNCHANGED row

\* Only a save may create the file.
BeginSave(p) ==
    /\ pc[p] = "opening" /\ call[p].op = "save"
    /\ writer = Nobody
    /\ file' = IF file = "missing" THEN "empty" ELSE file
    /\ writer' = p
    /\ Goto(p, "locked")
    /\ UNCHANGED row

Mismatch(p) == row # NoRow /\ row.config # call[p].config
Regression(p) == row # NoRow /\ call[p].cursor < row.cursor

\* The prior row is read and compared.
AcceptSave(p) ==
    /\ pc[p] = "locked"
    /\ ~Mismatch(p) /\ ~Regression(p)
    /\ Goto(p, "writing")
    /\ UNCHANGED <<file, row, writer>>

RefuseSave(p) ==
    /\ pc[p] = "locked"
    /\ \/ Mismatch(p) /\ Return(p, Plain("mismatch"))
       \/ ~Mismatch(p) /\ Regression(p) /\ Return(p, Plain("regression"))
    /\ writer' = Nobody
    /\ UNCHANGED <<file, row>>

CommitSave(p) ==
    /\ pc[p] = "writing"
    /\ file' = "ready"
    /\ row' = [config |-> call[p].config, cursor |-> call[p].cursor]
    /\ writer' = Nobody
    /\ Return(p, Plain("saved"))

-----------------------------------------------------------------------------
\* load_checkpoint and delete_checkpoint read alike

BeginRead(p) ==
    /\ pc[p] = "opening" /\ call[p].op # "save"
    /\ IF file = "missing" THEN Return(p, Plain("absent")) ELSE Goto(p, "tables")
    /\ UNCHANGED <<file, row, writer>>

\* PRAGMA user_version finds 0, then sqlite_master may show that another
\* process has created the schema in between.
ReadVersion(p) ==
    /\ pc[p] = "tables"
    /\ Goto(p, IF file = "ready" THEN "row" ELSE "schema")
    /\ UNCHANGED <<file, row, writer>>

ReadTables(p) ==
    /\ pc[p] = "schema"
    /\ Return(p, Plain(IF file = "ready" THEN "schema" ELSE "absent"))
    /\ UNCHANGED <<file, row, writer>>

ReadRow(p) ==
    /\ pc[p] = "row"
    /\ \/ row = NoRow /\ Return(p, Plain("absent"))
       \/ Mismatch(p) /\ Return(p, Plain("mismatch"))
       \/ /\ row # NoRow /\ ~Mismatch(p)
          /\ \/ call[p].op = "load" /\ Return(p, Loaded(row))
             \/ call[p].op = "delete" /\ Goto(p, "checked")
    /\ UNCHANGED <<file, row, writer>>

\* The lock is taken after the row was compared.
BeginDelete(p) ==
    /\ pc[p] = "checked"
    /\ writer = Nobody
    /\ writer' = p
    /\ Goto(p, "deleting")
    /\ UNCHANGED <<file, row>>

CommitDelete(p) ==
    /\ pc[p] = "deleting"
    /\ row' = NoRow
    /\ writer' = Nobody
    /\ Return(p, Plain(IF row = NoRow THEN "absent" ELSE "deleted"))
    /\ UNCHANGED file

-----------------------------------------------------------------------------
Unlock(p) == writer' = IF writer = p THEN Nobody ELSE writer

\* Any statement may fail, a lock that is not granted in time included; the
\* transaction is rolled back.  A read that fails is reported as corruption.
SQLError(p) ==
    /\ pc[p] # "idle"
    /\ pc[p] = "opening" => call[p].op = "save" \/ file # "missing"
    /\ Return(p, Plain(IF call[p].op = "load" THEN "corrupt" ELSE "failed"))
    /\ Unlock(p)
    /\ UNCHANGED <<file, row>>

\* The process dies, perhaps before its caller saw an answer.
Crash(p) ==
    /\ Return(p, Plain("none"))
    /\ Unlock(p)
    /\ UNCHANGED <<file, row>>

Next == \E p \in Procs :
    \/ \E r \in Requests : Call(p, r)
    \/ BeginSave(p) \/ AcceptSave(p) \/ RefuseSave(p) \/ CommitSave(p)
    \/ BeginRead(p) \/ ReadVersion(p) \/ ReadTables(p) \/ ReadRow(p)
    \/ BeginDelete(p) \/ CommitDelete(p)
    \/ SQLError(p) \/ Crash(p)

Spec == Init /\ [][Next]_vars

-----------------------------------------------------------------------------
\* Type invariant; a row is only in a file that has its table.
TypeOK ==
    /\ file \in {"missing", "empty", "ready"}
    /\ row \in StoredRows \cup {NoRow}
    /\ row # NoRow => file = "ready"
    /\ writer \in Procs \cup {Nobody}
    /\ pc \in [Procs -> Places]
    /\ call \in [Procs -> Requests]
    /\ answer \in [Procs -> Answers]

\* However calls of several processes interleave, fail and crash, each one that
\* answers took effect at one instant: a save replaces what it compared itself
\* with, and what a load or a refusal reports was in the slot during the call.
Atomic == INSTANCE Slot WITH
    asked <- [p \in Procs |-> IF pc[p] = "idle" THEN {} ELSE {call[p]}]

ImplementsSlot == Atomic!Spec

\* The stored state is never replaced by an older one or by one of another
\* configuration: only a delete makes room for those.
SlotKept == [][
    row # NoRow /\ row' # NoRow =>
        row'.config = row.config /\ row.cursor <= row'.cursor]_vars

\* delete_checkpoint removes only the checkpoint of the identity it is given
\* and raises ConfigMismatchError for any other (test_persistence.py:185).
DeletesOwn == [][
    row # NoRow /\ row' = NoRow =>
        \E p \in Procs : /\ pc[p] = "deleting" /\ pc'[p] = "idle"
                         /\ call[p].config = row.config]_vars
=============================================================================
