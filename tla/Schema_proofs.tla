--------------------------- MODULE Schema_proofs ---------------------------
(***************************************************************************)
(* Theorems about Schema, for any number of processes, members, columns    *)
(* and faults.                                                             *)
(***************************************************************************)
EXTENDS Schema, TLAPS

-----------------------------------------------------------------------------
(***************************************************************************)
(* Type correctness                                                        *)
(***************************************************************************)

\* A statement that raises ends the start and changes no table.
LEMMA RaiseType ==
    ASSUME TypeOK, NEW p \in Procs, Raise(p)
    PROVE  /\ pc' = [pc EXCEPT ![p] = "idle"]
           /\ pc' \in [Procs -> {"idle", "alter", "look", "rename", "index", "ready"} \cup Migrating]
           /\ broken' \in BOOLEAN
BY DEF Raise, Goto, TypeOK

\* Schema.tla's TypeOK: every statement, failure and tool call keeps the
\* shapes; a table that is not there has no rows.
THEOREM SchemaTypeCorrect == Spec => []TypeOK
<1>1. Init => TypeOK
  <2> SUFFICES ASSUME Init PROVE TypeOK
    OBVIOUS
  <2>1. /\ members \in Tables /\ legacy \in Tables
        /\ members.shape = "none" => members.rows = {}
        /\ legacy.rows = {} /\ kept \subseteq Rows
    BY DEF Init, Tables, NoTable, Shapes, OldShapes
  <2>2. made \in BOOLEAN /\ cols \subseteq Columns
    BY DEF Init
  <2>3. 1 \in 1 .. MaxCol + 1 /\ 0 \in 0 .. MaxFaults
    BY SchemaAssumption
  <2> QED BY <2>1, <2>2, <2>3 DEF Init, TypeOK, Shapes, Migrating, Rebuilding
<1>2. TypeOK /\ [Next]_vars => TypeOK'
  <2> SUFFICES ASSUME TypeOK, [Next]_vars PROVE TypeOK'
    OBVIOUS
  <2> USE SchemaAssumption DEF Tables, NoTable, Canonical, Shapes, OldShapes, Migrating, Rebuilding
  <2>1. ASSUME NEW p \in Procs, Create(p) PROVE TypeOK'
    BY <2>1 DEF TypeOK, Create, Goto, aux, Columns
  <2>2. ASSUME NEW p \in Procs, Alter(p) PROVE TypeOK'
    <3>1. CASE cursor[p] > MaxCol
      BY <2>2, <3>1 DEF TypeOK, Alter, Goto
    <3>2. CASE ~(cursor[p] > MaxCol)
      <4>1. cursor[p] \in Columns /\ cursor' = [cursor EXCEPT ![p] = @ + 1]
        BY <2>2, <3>2 DEF TypeOK, Alter, Columns
      <4>2. cursor' \in [Procs -> 1 .. MaxCol + 1]
        BY <4>1 DEF TypeOK, Columns
      <4>3. faults' \in 0 .. MaxFaults
        BY <2>2, <3>2 DEF TypeOK, Alter
      <4> QED BY <2>2, <3>2, <4>1, <4>2, <4>3 DEF TypeOK, Alter
    <3> QED BY <3>1, <3>2
  <2>3. ASSUME NEW p \in Procs, Look(p) PROVE TypeOK'
    BY <2>3 DEF TypeOK, Look, Goto, store, aux
  <2>4. ASSUME NEW p \in Procs, Rename(p) PROVE TypeOK'
    BY <2>4, RaiseType DEF TypeOK, Rename, Goto
  <2>5. ASSUME NEW p \in Procs, Recreate(p) PROVE TypeOK'
    BY <2>5, RaiseType DEF TypeOK, Recreate, Goto
  <2>6. ASSUME NEW p \in Procs, Copy(p) PROVE TypeOK'
    BY <2>6, RaiseType DEF TypeOK, Copy, Goto
  <2>7. ASSUME NEW p \in Procs, Drop(p) PROVE TypeOK'
    BY <2>7 DEF TypeOK, Drop, Goto, aux
  <2>8. ASSUME NEW p \in Procs, Index(p) PROVE TypeOK'
    BY <2>8, RaiseType DEF TypeOK, Index, Goto, store
  <2>9. ASSUME NEW p \in Procs, Record(p) PROVE TypeOK'
    BY <2>9 DEF TypeOK, Record, local
  <2>10. ASSUME NEW p \in Procs, Delete(p) PROVE TypeOK'
    BY <2>10 DEF TypeOK, Delete, local
  <2>11. ASSUME NEW p \in Procs, Timeout(p) PROVE TypeOK'
    BY <2>11, RaiseType DEF TypeOK, Timeout, store
  <2>12. ASSUME NEW p \in Procs, Crash(p) PROVE TypeOK'
    BY <2>12, RaiseType DEF TypeOK, Crash, store
  <2>13. CASE UNCHANGED vars
    BY <2>13 DEF TypeOK, vars, store, local, aux
  <2> QED
    BY <2>1, <2>2, <2>3, <2>4, <2>5, <2>6, <2>7, <2>8, <2>9, <2>10, <2>11, <2>12, <2>13
       DEF Next, Start
<1> QED BY <1>1, <1>2, PTL DEF Spec

-----------------------------------------------------------------------------
(***************************************************************************)
(* One rebuild at a time, and nothing destroyed                            *)
(***************************************************************************)

\* Who rebuilds has the old table under the legacy name.
Held == \A p \in Procs : pc[p] \in Migrating => legacy.shape # "none"

\* What is about to be dropped was copied.
Copied == \A p \in Procs : pc[p] = "drop" => legacy.rows \cap kept \subseteq members.rows

RebuildInv == MigrationExclusive /\ Held /\ Copied /\ NothingDestroyed

\* The rebuild's part of every step: RENAME needs the legacy name to be free,
\* DROP is of the process that took it and comes after a copy that succeeded.
LEMMA RebuildStep == TypeOK /\ RebuildInv /\ [Next]_vars => RebuildInv'
<1> SUFFICES ASSUME TypeOK, RebuildInv, [Next]_vars PROVE RebuildInv'
  OBVIOUS
<1> USE DEF RebuildInv, MigrationExclusive, Held, Copied, NothingDestroyed,
            Migrating, Rebuilding, Canonical, NoTable, Tables
<1>1. ASSUME NEW p \in Procs, Create(p) PROVE RebuildInv'
  BY <1>1 DEF Create, Goto, aux, TypeOK
<1>2. ASSUME NEW p \in Procs, Alter(p) PROVE RebuildInv'
  BY <1>2 DEF Alter, Goto, TypeOK
<1>3. ASSUME NEW p \in Procs, Look(p) PROVE RebuildInv'
  BY <1>3 DEF Look, Goto, store, aux, TypeOK
<1>4. ASSUME NEW p \in Procs, Rename(p) PROVE RebuildInv'
  BY <1>4 DEF Rename, Raise, Goto, TypeOK
<1>5. ASSUME NEW p \in Procs, Recreate(p) PROVE RebuildInv'
  BY <1>5 DEF Recreate, Raise, Goto, TypeOK
<1>6. ASSUME NEW p \in Procs, Copy(p) PROVE RebuildInv'
  BY <1>6 DEF Copy, Raise, Goto, TypeOK
<1>7. ASSUME NEW p \in Procs, Drop(p) PROVE RebuildInv'
  BY <1>7 DEF Drop, Goto, aux, TypeOK
<1>8. ASSUME NEW p \in Procs, Index(p) PROVE RebuildInv'
  BY <1>8 DEF Index, Raise, Goto, store, TypeOK
<1>9. ASSUME NEW p \in Procs, Record(p) PROVE RebuildInv'
  BY <1>9 DEF Record, local, TypeOK
<1>10. ASSUME NEW p \in Procs, Delete(p) PROVE RebuildInv'
  BY <1>10 DEF Delete, local, TypeOK
<1>11. ASSUME NEW p \in Procs, Timeout(p) PROVE RebuildInv'
  BY <1>11 DEF Timeout, Raise, Goto, store, TypeOK
<1>12. ASSUME NEW p \in Procs, Crash(p) PROVE RebuildInv'
  BY <1>12 DEF Crash, Raise, Goto, store, TypeOK
<1>13. CASE UNCHANGED vars
  BY <1>13 DEF vars, store, local, aux
<1> QED
  BY <1>1, <1>2, <1>3, <1>4, <1>5, <1>6, <1>7, <1>8, <1>9, <1>10, <1>11, <1>12, <1>13
     DEF Next, Start

LEMMA RebuildAlways == Spec => []RebuildInv
<1>1. Init => RebuildInv
  BY DEF Init, RebuildInv, MigrationExclusive, Held, Copied, NothingDestroyed, Migrating, Rebuilding
<1> QED BY <1>1, RebuildStep, SchemaTypeCorrect, PTL DEF Spec

\* _db.py:145-196: the legacy name is a lock. Of any number of starts that
\* saw an old shape, one at a time is between its RENAME and its DROP.
THEOREM OneRebuildAtATime == Spec => []MigrationExclusive
<1>1. RebuildInv => MigrationExclusive
  BY DEF RebuildInv
<1> QED BY <1>1, RebuildAlways, PTL

\* _db.py:163-196: whatever raises, dies or overtakes, a member is in one of
\* the two tables until a tool deletes it.
THEOREM NothingDestroyedAlways == Spec => []NothingDestroyed
<1>1. RebuildInv => NothingDestroyed
  BY DEF RebuildInv
<1> QED BY <1>1, RebuildAlways, PTL

-----------------------------------------------------------------------------
(***************************************************************************)
(* When the migration is complete                                          *)
(***************************************************************************)

\* Past its look, a process never finds an old shape again.
Current ==
    \A p \in Procs : pc[p] \in {"index", "ready"} \cup Migrating => members.shape \notin OldShapes

CompleteInv == Current /\ MigrationComplete

LEMMA CompleteStep == TypeOK /\ RebuildInv /\ CompleteInv /\ [Next]_vars => CompleteInv'
<1> SUFFICES ASSUME TypeOK, RebuildInv, CompleteInv, [Next]_vars PROVE CompleteInv'
  OBVIOUS
<1> USE DEF CompleteInv, Current, MigrationComplete, Migrating, Rebuilding, OldShapes, Shapes,
            Canonical, NoTable, Tables
<1>1. ASSUME NEW p \in Procs, Create(p) PROVE CompleteInv'
  BY <1>1 DEF Create, Goto, aux, TypeOK
<1>2. ASSUME NEW p \in Procs, Alter(p) PROVE CompleteInv'
  BY <1>2 DEF Alter, Goto, TypeOK
<1>3. ASSUME NEW p \in Procs, Look(p) PROVE CompleteInv'
  BY <1>3 DEF Look, Goto, store, aux, TypeOK
<1>4. ASSUME NEW p \in Procs, Rename(p) PROVE CompleteInv'
  BY <1>4 DEF Rename, Raise, Goto, TypeOK
<1>5. ASSUME NEW p \in Procs, Recreate(p) PROVE CompleteInv'
  <2>1. CASE members.shape = "none"
    <3>1. pc'[p] = "copy" /\ members'.shape = "canonical"
      BY <1>5, <2>1 DEF Recreate, Goto, TypeOK
    <3> QED BY <1>5, <2>1, <3>1 DEF Recreate, Goto, TypeOK
  <2>2. CASE members.shape # "none"
    <3>1. broken'
      BY <1>5, <2>2 DEF Recreate, Raise
    <3> QED BY <1>5, <2>2, <3>1 DEF Recreate, Raise, Goto, TypeOK
  <2> QED BY <2>1, <2>2
<1>6. ASSUME NEW p \in Procs, Copy(p) PROVE CompleteInv'
  <2>1. CASE Copyable(p)
    <3>1. kept \subseteq members'.rows /\ members'.shape = "canonical"
      BY <1>6, <2>1 DEF Copy, RebuildInv, NothingDestroyed
    <3> QED BY <1>6, <2>1, <3>1 DEF Copy, Goto, TypeOK
  <2>2. CASE ~Copyable(p)
    BY <1>6, <2>2 DEF Copy, Raise, Goto, TypeOK
  <2> QED BY <2>1, <2>2
<1>7. ASSUME NEW p \in Procs, Drop(p) PROVE CompleteInv'
  BY <1>7 DEF Drop, Goto, aux, TypeOK
<1>8. ASSUME NEW p \in Procs, Index(p) PROVE CompleteInv'
  BY <1>8 DEF Index, Raise, Goto, store, TypeOK
<1>9. ASSUME NEW p \in Procs, Record(p) PROVE CompleteInv'
  BY <1>9 DEF Record, local, TypeOK
<1>10. ASSUME NEW p \in Procs, Delete(p) PROVE CompleteInv'
  BY <1>10 DEF Delete, local, TypeOK
<1>11. ASSUME NEW p \in Procs, Timeout(p) PROVE CompleteInv'
  BY <1>11 DEF Timeout, Raise, Goto, store, TypeOK
<1>12. ASSUME NEW p \in Procs, Crash(p) PROVE CompleteInv'
  BY <1>12 DEF Crash, Raise, Goto, store, TypeOK
<1>13. CASE UNCHANGED vars
  BY <1>13 DEF vars, store, local, aux
<1> QED
  BY <1>1, <1>2, <1>3, <1>4, <1>5, <1>6, <1>7, <1>8, <1>9, <1>10, <1>11, <1>12, <1>13
     DEF Next, Start

\* _db.py:126-140: once nobody is between RENAME and copy, every member is in
\* the current table, unless a start ended just there. Both windows in which
\* it may are the disjuncts of MigrationComplete; there is no third.
THEOREM MigrationCompleteAlways == Spec => []MigrationComplete
<1>1. Init => CompleteInv
  BY DEF Init, CompleteInv, Current, MigrationComplete, Migrating, Rebuilding, NoTable
<1>2. CompleteInv => MigrationComplete
  BY DEF CompleteInv
<1> QED BY <1>1, <1>2, CompleteStep, RebuildAlways, SchemaTypeCorrect, PTL DEF Spec

-----------------------------------------------------------------------------
(***************************************************************************)
(* The columns                                                             *)
(***************************************************************************)

\* What a process has seen to when it is at its next ALTER, and after it.
Altered ==
    \A p \in Procs :
       /\ pc[p] # "idle" => made
       /\ pc[p] = "alter" => 1 .. cursor[p] - 1 \subseteq cols \cup skipped
       /\ pc[p] \notin {"idle", "alter"} => Columns \subseteq cols \cup skipped

LEMMA AlteredStep == TypeOK /\ Altered /\ [Next]_vars => Altered'
<1> SUFFICES ASSUME TypeOK, Altered, [Next]_vars PROVE Altered'
  OBVIOUS
<1> USE SchemaAssumption DEF Altered, Columns
<1>1. ASSUME NEW p \in Procs, Create(p) PROVE Altered'
  BY <1>1 DEF Create, Goto, aux, TypeOK
<1>2. ASSUME NEW p \in Procs, Alter(p) PROVE Altered'
  <2>1. CASE cursor[p] > MaxCol
    <3>1. Columns \subseteq cols \cup skipped
      BY <1>2, <2>1 DEF Alter, TypeOK
    <3> QED BY <1>2, <2>1, <3>1 DEF Alter, Goto, TypeOK
  <2>2. CASE ~(cursor[p] > MaxCol)
    <3>1. cols \cup skipped \cup {cursor[p]} \subseteq cols' \cup skipped'
      BY <1>2, <2>2 DEF Alter
    <3>2. 1 .. cursor'[p] - 1 \subseteq cols' \cup skipped'
      BY <1>2, <2>2, <3>1 DEF Alter, TypeOK
    <3> QED BY <1>2, <2>2, <3>1, <3>2 DEF Alter, TypeOK
  <2> QED BY <2>1, <2>2
<1>3. ASSUME NEW p \in Procs, Look(p) PROVE Altered'
  BY <1>3 DEF Look, Goto, store, aux, TypeOK
<1>4. ASSUME NEW p \in Procs, Rename(p) PROVE Altered'
  BY <1>4 DEF Rename, Raise, Goto, TypeOK
<1>5. ASSUME NEW p \in Procs, Recreate(p) PROVE Altered'
  BY <1>5 DEF Recreate, Raise, Goto, TypeOK
<1>6. ASSUME NEW p \in Procs, Copy(p) PROVE Altered'
  BY <1>6 DEF Copy, Raise, Goto, TypeOK
<1>7. ASSUME NEW p \in Procs, Drop(p) PROVE Altered'
  BY <1>7 DEF Drop, Goto, aux, TypeOK
<1>8. ASSUME NEW p \in Procs, Index(p) PROVE Altered'
  BY <1>8 DEF Index, Raise, Goto, store, TypeOK
<1>9. ASSUME NEW p \in Procs, Record(p) PROVE Altered'
  BY <1>9 DEF Record, local, TypeOK
<1>10. ASSUME NEW p \in Procs, Delete(p) PROVE Altered'
  BY <1>10 DEF Delete, local, TypeOK
<1>11. ASSUME NEW p \in Procs, Timeout(p) PROVE Altered'
  BY <1>11 DEF Timeout, Raise, Goto, store, TypeOK
<1>12. ASSUME NEW p \in Procs, Crash(p) PROVE Altered'
  BY <1>12 DEF Crash, Raise, Goto, store, TypeOK
<1>13. CASE UNCHANGED vars
  BY <1>13 DEF vars, store, local, aux
<1> QED
  BY <1>1, <1>2, <1>3, <1>4, <1>5, <1>6, <1>7, <1>8, <1>9, <1>10, <1>11, <1>12, <1>13
     DEF Next, Start

\* _db.py:87-115: a process that is ready has every column whose ALTER no
\* lock timeout skipped, whoever created the table and in which order starts
\* interleave.
THEOREM ColumnsAlwaysThere == Spec => []ColumnsThere
<1>1. Init => Altered
  BY DEF Init, Altered
<1>2. Altered => ColumnsThere
  BY DEF Altered, ColumnsThere
<1> QED BY <1>1, <1>2, AlteredStep, SchemaTypeCorrect, PTL DEF Spec

=============================================================================
