------------------------ MODULE CheckpointStoreProofs -------------------------
(***************************************************************************)
(* The checkpoint store answers as the atomic Slot does, for any number of *)
(* processes, configurations and cursors.                                  *)
(***************************************************************************)
EXTENDS CheckpointStore, TLAPS

\* Where a call is determines what was called.
CallFits == \A p \in Procs :
    /\ pc[p] \in {"locked", "writing"} => call[p].op = "save"
    /\ pc[p] \in {"tables", "schema", "row"} => call[p].op # "save"
    /\ pc[p] \in {"checked", "deleting"} => call[p].op = "delete"

\* Only one process is inside a transaction, so what a save compared itself
\* with is still there when it commits.
Exclusive == \A p \in Procs : pc[p] \in {"locked", "writing", "deleting"} => writer = p

Prepared == \A p \in Procs : pc[p] = "writing" => ~Mismatch(p) /\ ~Regression(p)

IInv == TypeOK /\ CallFits /\ Exclusive /\ Prepared

-----------------------------------------------------------------------------
\* A request has an operation, a configuration and a cursor, and names a row.
LEMMA RequestParts ==
    ASSUME NEW r \in Requests
    PROVE  /\ r.op \in {"save", "load", "delete"}
           /\ r.config \in Configs
           /\ r.cursor \in Cursors /\ r.cursor \in Nat
           /\ [config |-> r.config, cursor |-> r.cursor] \in StoredRows
  BY CheckpointAssumption DEF Requests, StoredRows

LEMMA InitIInv == Init => IInv
  BY CheckpointAssumption
  DEF Init, IInv, TypeOK, CallFits, Exclusive, Prepared, Places, Answers

\* A step that leaves the row and the calls, and moves one process without
\* disturbing the others' transactions, keeps the invariant.
LEMMA Moves ==
    ASSUME IInv, NEW p \in Procs, NEW place \in Places, NEW a \in Answers,
           row' = row, call' = call,
           pc' = [pc EXCEPT ![p] = place],
           answer' = answer \/ answer' = [answer EXCEPT ![p] = a],
           file' \in {"missing", "empty", "ready"}, file = "ready" => file' = "ready",
           writer' \in Procs \cup {Nobody},
           writer' # writer => writer = Nobody \/ writer = p,
           place \in {"locked", "writing"} => call[p].op = "save",
           place \in {"tables", "schema", "row"} => call[p].op # "save",
           place \in {"checked", "deleting"} => call[p].op = "delete",
           place \in {"locked", "writing", "deleting"} => writer' = p,
           place = "writing" => ~Mismatch(p) /\ ~Regression(p)
    PROVE  IInv'
  <1>1. TypeOK'
    BY DEF IInv, TypeOK
  <1>2. \A q \in Procs : pc'[q] = IF q = p THEN place ELSE pc[q]
    BY DEF IInv, TypeOK
  <1>3. CallFits'
    BY <1>2 DEF IInv, CallFits
  <1>4. Exclusive'
    BY <1>2, CheckpointAssumption DEF IInv, Exclusive
  <1>5. Prepared'
    BY <1>2 DEF IInv, Prepared, Mismatch, Regression
  <1>. QED
    BY <1>1, <1>3, <1>4, <1>5 DEF IInv

\* A commit ends the only transaction there is.
LEMMA Commits ==
    ASSUME IInv, NEW p \in Procs, NEW a \in Answers,
           pc[p] \in {"writing", "deleting"},
           row' \in StoredRows \cup {NoRow}, row' # NoRow => file' = "ready",
           call' = call, pc' = [pc EXCEPT ![p] = "idle"],
           answer' = [answer EXCEPT ![p] = a],
           file' \in {"missing", "empty", "ready"},
           writer' = Nobody
    PROVE  IInv'
  <1>1. TypeOK'
    BY DEF IInv, TypeOK, Places
  <1>2. \A q \in Procs : pc'[q] = IF q = p THEN "idle" ELSE pc[q]
    BY DEF IInv, TypeOK
  <1>3. \A q \in Procs : pc'[q] \notin {"locked", "writing", "deleting"}
    BY <1>2 DEF IInv, Exclusive
  <1>. QED
    BY <1>1, <1>2, <1>3 DEF IInv, CallFits, Exclusive, Prepared

LEMMA NextIInv == IInv /\ [Next]_vars => IInv'
  <1>. SUFFICES ASSUME IInv, [Next]_vars PROVE IInv'
    OBVIOUS
  <1>1. CASE UNCHANGED vars
    BY <1>1 DEF vars, IInv, TypeOK, CallFits, Exclusive, Prepared, Mismatch, Regression
  <1>2. ASSUME NEW p \in Procs, NEW r \in Requests, Call(p, r) PROVE IInv'
    <2>1. TypeOK'
      BY <1>2 DEF Call, IInv, TypeOK, Places, Answers
    <2>2. \A q \in Procs : /\ pc'[q] = IF q = p THEN "opening" ELSE pc[q]
                           /\ call'[q] = IF q = p THEN r ELSE call[q]
      BY <1>2 DEF Call, IInv, TypeOK
    <2>. QED
      BY <1>2, <2>1, <2>2
      DEF Call, IInv, CallFits, Exclusive, Prepared, Mismatch, Regression
  <1>3. ASSUME NEW p \in Procs, BeginSave(p) PROVE IInv'
    BY <1>3, Moves DEF BeginSave, Goto, IInv, TypeOK, Places, Answers
  <1>4. ASSUME NEW p \in Procs, AcceptSave(p) PROVE IInv'
    <2>1. call[p].op = "save" /\ writer = p
      BY <1>4 DEF AcceptSave, IInv, CallFits, Exclusive
    <2>. QED
      BY <1>4, <2>1, Moves DEF AcceptSave, Goto, IInv, TypeOK, Places, Answers
  <1>5. ASSUME NEW p \in Procs, RefuseSave(p) PROVE IInv'
    <2>1. writer = p
      BY <1>5 DEF RefuseSave, IInv, Exclusive
    <2>. QED
      BY <1>5, <2>1, Moves DEF RefuseSave, Return, IInv, TypeOK, Places, Answers
  <1>6. ASSUME NEW p \in Procs, CommitSave(p) PROVE IInv'
    <2>1. [config |-> call[p].config, cursor |-> call[p].cursor] \in StoredRows
      BY RequestParts DEF IInv, TypeOK
    <2>. QED
      BY <1>6, <2>1, Commits DEF CommitSave, Return, Answers
  <1>7. ASSUME NEW p \in Procs, BeginRead(p) PROVE IInv'
    <2>1. CASE file = "missing"
      BY <1>7, <2>1, Moves DEF BeginRead, Return, IInv, TypeOK, Places, Answers
    <2>2. CASE file # "missing"
      BY <1>7, <2>2, Moves DEF BeginRead, Goto, IInv, TypeOK, Places, Answers
    <2>. QED
      BY <2>1, <2>2
  <1>8. ASSUME NEW p \in Procs, ReadVersion(p) PROVE IInv'
    <2>1. call[p].op # "save"
      BY <1>8 DEF ReadVersion, IInv, CallFits
    <2>. QED
      BY <1>8, <2>1, Moves DEF ReadVersion, Goto, IInv, TypeOK, Places, Answers
  <1>9. ASSUME NEW p \in Procs, ReadTables(p) PROVE IInv'
    BY <1>9, Moves DEF ReadTables, Return, IInv, TypeOK, Places, Answers
  <1>10. ASSUME NEW p \in Procs, ReadRow(p) PROVE IInv'
    <2>1. call[p] \in Requests /\ call[p].op # "save"
      BY <1>10 DEF ReadRow, IInv, TypeOK, CallFits
    <2>2. CASE row = NoRow
      BY <1>10, <2>2, Moves DEF ReadRow, Return, IInv, TypeOK, Places, Answers, Mismatch
    <2>3. CASE Mismatch(p)
      <3>1. Return(p, Plain("mismatch"))
        BY <1>10, <2>3 DEF ReadRow, Mismatch
      <3>2. UNCHANGED <<file, row, writer>> /\ Plain("mismatch") \in Answers
        BY <1>10 DEF ReadRow, Answers
      <3>. QED
        BY <3>1, <3>2, Moves DEF Return, IInv, TypeOK, Places
    <2>4. CASE row # NoRow /\ ~Mismatch(p) /\ call[p].op = "load"
      <3>1. Loaded(row) \in Answers
        BY <2>4 DEF IInv, TypeOK, Answers
      <3>. QED
        BY <1>10, <2>4, <3>1, Moves DEF ReadRow, Return, IInv, TypeOK, Places
    <2>5. CASE row # NoRow /\ ~Mismatch(p) /\ call[p].op # "load"
      <3>1. call[p].op = "delete"
        BY <2>1, <2>5, RequestParts
      <3>. QED
        BY <1>10, <2>5, <3>1, Moves DEF ReadRow, Goto, IInv, TypeOK, Places, Answers
    <2>. QED
      BY <2>2, <2>3, <2>4, <2>5
  <1>11. ASSUME NEW p \in Procs, BeginDelete(p) PROVE IInv'
    <2>1. call[p].op = "delete"
      BY <1>11 DEF BeginDelete, IInv, CallFits
    <2>. QED
      BY <1>11, <2>1, Moves DEF BeginDelete, Goto, IInv, TypeOK, Places, Answers
  <1>12. ASSUME NEW p \in Procs, CommitDelete(p) PROVE IInv'
    <2>1. Plain(IF row = NoRow THEN "absent" ELSE "deleted") \in Answers
      BY DEF Answers
    <2>2. file \in {"missing", "empty", "ready"}
      BY DEF IInv, TypeOK
    <2>. QED
      BY <1>12, <2>1, <2>2, Commits DEF CommitDelete, Return
  <1>13. ASSUME NEW p \in Procs, SQLError(p) PROVE IInv'
    <2>. DEFINE a == Plain(IF call[p].op = "load" THEN "corrupt" ELSE "failed")
    <2>1. a \in Answers
      BY DEF Answers
    <2>2. /\ UNCHANGED <<row, call, file>> /\ pc' = [pc EXCEPT ![p] = "idle"]
          /\ answer' = [answer EXCEPT ![p] = a]
          /\ writer' = IF writer = p THEN Nobody ELSE writer
      BY <1>13 DEF SQLError, Return, Unlock
    <2>3. writer \in Procs \cup {Nobody} /\ file \in {"missing", "empty", "ready"}
      BY DEF IInv, TypeOK
    <2>. HIDE DEF a
    <2>. QED
      BY <2>1, <2>2, <2>3, Moves DEF Places
  <1>14. ASSUME NEW p \in Procs, Crash(p) PROVE IInv'
    BY <1>14, Moves DEF Crash, Return, Unlock, IInv, TypeOK, Places, Answers
  <1>. QED
    BY <1>1, <1>2, <1>3, <1>4, <1>5, <1>6, <1>7, <1>8, <1>9, <1>10, <1>11,
       <1>12, <1>13, <1>14 DEF Next

\* The invariant of the store: types, one writer, and a save that was compared
\* with the row is compared with that row until it commits.
THEOREM CheckpointIInv == Spec => []IInv
  BY InitIInv, NextIInv, PTL DEF Spec

\* Type correctness of the store.
THEOREM CheckpointTypeOK == Spec => []TypeOK
  BY CheckpointIInv, PTL DEF IInv

-----------------------------------------------------------------------------
LEMMA StepSlotKept ==
    ASSUME IInv, [Next]_vars, row # NoRow, row' # NoRow
    PROVE  row'.config = row.config /\ row.cursor <= row'.cursor
  <1>1. row.cursor \in Nat
    BY CheckpointAssumption DEF IInv, TypeOK, StoredRows
  <1>2. ASSUME NEW p \in Procs, CommitSave(p)
        PROVE  row'.config = row.config /\ row.cursor <= row'.cursor
    <2>1. ~(row.config # call[p].config) /\ ~(call[p].cursor < row.cursor)
      BY <1>2 DEF CommitSave, IInv, Prepared, Mismatch, Regression
    <2>2. call[p].cursor \in Nat
      BY RequestParts DEF IInv, TypeOK
    <2>3. row'.config = call[p].config /\ row'.cursor = call[p].cursor
      BY <1>2 DEF CommitSave
    <2>. QED
      BY <1>1, <2>1, <2>2, <2>3
  <1>3. ASSUME NEW p \in Procs, CommitDelete(p) PROVE FALSE
    BY <1>3 DEF CommitDelete
  <1>4. CASE UNCHANGED row
    BY <1>1, <1>4
  <1>. QED
    BY <1>2, <1>3, <1>4
    DEF Next, vars, Call, BeginSave, AcceptSave, RefuseSave, BeginRead, ReadVersion,
        ReadTables, ReadRow, BeginDelete, SQLError, Crash

\* No step of any process puts an older row, or one of another configuration, in
\* the place of a stored one: save_checkpoint compares and commits under one lock.
THEOREM CheckpointSlotKept == Spec => SlotKept
  <1>1. IInv /\ [Next]_vars =>
          [row # NoRow /\ row' # NoRow =>
             row'.config = row.config /\ row.cursor <= row'.cursor]_vars
    BY StepSlotKept
  <1>. QED
    BY <1>1, CheckpointIInv, PTL DEF Spec, SlotKept

-----------------------------------------------------------------------------
\* What the store's calls look like to the abstract slot.
asked == [p \in Procs |-> IF pc[p] = "idle" THEN {} ELSE {call[p]}]

\* The step of one call that has begun, seen from outside.
LEMMA Answered ==
    ASSUME IInv, NEW p \in Procs, NEW a, pc[p] # "idle", Return(p, a)
    PROVE  Atomic!Reply(p, a)
  <1>1. \A q \in Procs : pc'[q] = IF q = p THEN "idle" ELSE pc[q]
    BY DEF IInv, TypeOK, Return
  <1>. QED
    BY <1>1 DEF Return, Atomic!Reply

\* A step inside a call is not seen.
LEMMA Hidden ==
    ASSUME IInv, NEW p \in Procs, pc[p] # "idle", NEW place, place # "idle",
           Goto(p, place), UNCHANGED row
    PROVE  UNCHANGED Atomic!vars
  <1>1. \A q \in Procs : pc'[q] = IF q = p THEN place ELSE pc[q]
    BY DEF IInv, TypeOK, Goto
  <1>. QED
    BY <1>1 DEF Goto, Atomic!vars

LEMMA InitImplements == Init => Atomic!Init
  BY DEF Init, Atomic!Init, Plain, Atomic!Plain

LEMMA NextImplements == IInv /\ [Next]_vars => [Atomic!Next]_(Atomic!vars)
  <1>. SUFFICES ASSUME IInv, [Next]_vars PROVE [Atomic!Next]_(Atomic!vars)
    OBVIOUS
  <1>. USE DEF Plain, Loaded, Atomic!Plain, Atomic!Loaded
  <1>1. CASE UNCHANGED vars
    BY <1>1 DEF vars, Atomic!vars
  <1>2. ASSUME NEW p \in Procs, NEW r \in Requests, Call(p, r) PROVE Atomic!Ask(p)
    <2>1. \A q \in Procs : /\ pc'[q] = IF q = p THEN "opening" ELSE pc[q]
                           /\ call'[q] = IF q = p THEN r ELSE call[q]
      BY <1>2 DEF Call, IInv, TypeOK
    <2>2. asked' = [asked EXCEPT ![p] = {r}] /\ asked[p] = {}
      <3>1. pc[p] = "idle"
        BY <1>2 DEF Call
      <3>. QED
        BY <2>1, <3>1 DEF asked
    <2>. QED
      BY <1>2, <2>2 DEF Call, Atomic!Ask, asked, Requests, Atomic!Requests
  <1>3. ASSUME NEW p \in Procs,
               BeginSave(p) \/ AcceptSave(p) \/ ReadVersion(p) \/ BeginDelete(p)
        PROVE  UNCHANGED Atomic!vars
    BY <1>3, Hidden DEF BeginSave, AcceptSave, ReadVersion, BeginDelete
  <1>4. ASSUME NEW p \in Procs, RefuseSave(p) PROVE Atomic!Refuse(p)
    <2>1. pc[p] # "idle" /\ call[p].op = "save" /\ UNCHANGED row
      BY <1>4 DEF RefuseSave, IInv, CallFits
    <2>. QED
      BY <1>4, <2>1, Answered
      DEF RefuseSave, Atomic!Refuse, Mismatch, Regression, Atomic!Mismatch,
          Atomic!Regression
  <1>5. ASSUME NEW p \in Procs, CommitSave(p) PROVE Atomic!Save(p)
    <2>1. /\ pc[p] # "idle" /\ call[p].op = "save"
          /\ ~Mismatch(p) /\ ~Regression(p)
      BY <1>5 DEF CommitSave, IInv, CallFits, Prepared
    <2>. QED
      BY <1>5, <2>1, Answered
      DEF CommitSave, Atomic!Save, Mismatch, Regression, Atomic!Mismatch,
          Atomic!Regression, Atomic!RowOf
  <1>6. ASSUME NEW p \in Procs, BeginRead(p)
        PROVE  Atomic!Absent(p) \/ UNCHANGED Atomic!vars
    <2>1. pc[p] # "idle" /\ call[p].op # "save" /\ UNCHANGED row
      BY <1>6 DEF BeginRead
    <2>2. CASE file = "missing"
      <3>1. row = NoRow
        BY <2>2 DEF IInv, TypeOK
      <3>. QED
        BY <1>6, <2>1, <2>2, <3>1, Answered DEF BeginRead, Atomic!Absent
    <2>3. CASE file # "missing"
      BY <1>6, <2>1, <2>3, Hidden DEF BeginRead
    <2>. QED
      BY <2>2, <2>3
  <1>7. ASSUME NEW p \in Procs, ReadTables(p) PROVE Atomic!Absent(p) \/ Atomic!Fail(p)
    <2>1. pc[p] # "idle" /\ call[p].op # "save" /\ UNCHANGED row
      BY <1>7 DEF ReadTables, IInv, CallFits
    <2>2. CASE file = "ready"
      BY <1>7, <2>1, <2>2, Answered DEF ReadTables, Atomic!Fail
    <2>3. CASE file # "ready"
      <3>1. row = NoRow
        BY <2>3 DEF IInv, TypeOK
      <3>. QED
        BY <1>7, <2>1, <2>3, <3>1, Answered DEF ReadTables, Atomic!Absent
    <2>. QED
      BY <2>2, <2>3
  <1>8. ASSUME NEW p \in Procs, ReadRow(p)
        PROVE  Atomic!Absent(p) \/ Atomic!Refuse(p) \/ Atomic!Load(p) \/ UNCHANGED Atomic!vars
    <2>1. pc[p] # "idle" /\ call[p].op # "save" /\ UNCHANGED row
      BY <1>8 DEF ReadRow, IInv, CallFits
    <2>2. CASE row = NoRow
      BY <1>8, <2>1, <2>2, Answered DEF ReadRow, Atomic!Absent, Mismatch
    <2>3. CASE Mismatch(p)
      <3>1. Return(p, Plain("mismatch"))
        BY <1>8, <2>3 DEF ReadRow, Mismatch
      <3>. QED
        BY <2>1, <2>3, <3>1, Answered DEF Atomic!Refuse, Mismatch, Atomic!Mismatch
    <2>4. CASE row # NoRow /\ ~Mismatch(p) /\ call[p].op = "load"
      <3>1. Return(p, Loaded(row))
        BY <1>8, <2>4 DEF ReadRow, Mismatch
      <3>2. asked' = [asked EXCEPT ![p] = {}] /\ answer' = [answer EXCEPT ![p] = Loaded(row)]
        <4>1. \A q \in Procs : pc'[q] = IF q = p THEN "idle" ELSE pc[q]
          BY <3>1 DEF Return, IInv, TypeOK
        <4>. QED
          BY <3>1, <4>1 DEF Return, asked
      <3>3. asked[p] = {call[p]}
        BY <2>1 DEF asked
      <3>. QED
        BY <2>1, <2>4, <3>2, <3>3
        DEF Atomic!Load, Mismatch, Atomic!Mismatch, Atomic!Reply, asked
    <2>5. CASE row # NoRow /\ ~Mismatch(p) /\ call[p].op # "load"
      BY <1>8, <2>1, <2>5, Hidden DEF ReadRow
    <2>. QED
      BY <2>2, <2>3, <2>4, <2>5
  <1>9. ASSUME NEW p \in Procs, CommitDelete(p) PROVE Atomic!Delete(p) \/ Atomic!Absent(p)
    <2>1. pc[p] # "idle" /\ call[p].op = "delete"
      BY <1>9 DEF CommitDelete, IInv, CallFits
    <2>. QED
      BY <1>9, <2>1, Answered DEF CommitDelete, Atomic!Delete, Atomic!Absent
  <1>10. ASSUME NEW p \in Procs, SQLError(p) PROVE Atomic!Fail(p)
    BY <1>10, Answered DEF SQLError, Atomic!Fail
  <1>11. ASSUME NEW p \in Procs, Crash(p) PROVE Atomic!Fail(p)
    <2>1. \A q \in Procs : pc'[q] = IF q = p THEN "idle" ELSE pc[q]
      BY <1>11 DEF Crash, Return, IInv, TypeOK
    <2>. QED
      BY <1>11, <2>1, ZenonT(60) DEF Crash, Return, Atomic!Fail, Atomic!Reply
  <1>. QED
    BY <1>1, <1>2, <1>3, <1>4, <1>5, <1>6, <1>7, <1>8, <1>9, <1>10, <1>11
    DEF Next, Atomic!Next

\* SQLiteCheckpointStore implements the atomic slot.
THEOREM CheckpointImplementsSlot == Spec => ImplementsSlot
  BY InitImplements, NextImplements, CheckpointIInv, PTL
  DEF Spec, ImplementsSlot, Atomic!Spec
=============================================================================
