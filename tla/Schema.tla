------------------------------- MODULE Schema -------------------------------
(***************************************************************************)
(* The first db() call of a process: _init_db brings the one database file *)
(* to the current schema, _migrate_warroom_members rebuilds                *)
(* warroom_members by way of warroom_members_legacy.  Every MCP server,    *)
(* hook and script is a process of its own, so starts run side by side.    *)
(*                                                                         *)
(* Grain.  executescript and DDL outside a transaction commit statement by *)
(* statement, so each statement is a step of its own.  A statement that    *)
(* fails raises out of db(); the flag _db_initialized stays down and the   *)
(* next call starts over.                                                  *)
(*                                                                         *)
(* Abstractions.  A member is a row identity; the columns of the agents    *)
(* and warrooms tables that came later are numbered in the order of their  *)
(* ALTERs, and the last is the one the CREATE does not have (token_usage). *)
(* A room is one member, whose deletion cascades from warrooms into both   *)
(* tables.  Processes of an older version of the code are gone.            *)
(***************************************************************************)
EXTENDS Naturals

CONSTANTS
    Procs,      \* processes that open the database
    Rows,       \* warroom members
    MaxCol,     \* columns added by ALTER
    MaxFaults,  \* bound: crashes and lock timeouts
    Events      \* faults in play: see FaultKinds

FaultKinds ==
    { "crash"    \* a process dies
    , "busy" }   \* a statement waits in vain for another writer's lock

ASSUME SchemaAssumption ==
    /\ MaxCol \in Nat \ {0} /\ MaxFaults \in Nat
    /\ Events \subseteq FaultKinds

Columns == 1 .. MaxCol

\* The shapes warroom_members has had, and none.
OldShapes == {"composite", "stable"}
Shapes    == OldShapes \cup {"canonical", "none"}
Tables    == [shape : Shapes, rows : SUBSET Rows]
NoTable   == [shape |-> "none", rows |-> {}]
Canonical(rows) == [shape |-> "canonical", rows |-> rows]

VARIABLES
    members,    \* warroom_members
    legacy,     \* warroom_members_legacy
    made,       \* whether the agents table exists
    cols,       \* its added columns
    pc,         \* what each process executes next
    cursor,     \* its next ALTER
    seen,       \* the shape its PRAGMA showed
    faults,     \* crashes and lock timeouts so far
    kept,       \* auxiliary: members recorded and not deleted
    skipped,    \* auxiliary: columns whose ALTER met a lock
    broken      \* auxiliary: a rebuild ended between its RENAME and its copy

store == <<members, legacy, made, cols>>
local == <<pc, cursor, seen>>
aux   == <<kept, skipped, broken>>
vars  == <<store, local, faults, aux>>

\* An empty file, or what an older version left.
Init ==
    /\ members \in {NoTable} \cup [shape : OldShapes \cup {"canonical"}, rows : SUBSET Rows]
    /\ legacy = NoTable
    /\ made \in BOOLEAN
    /\ cols \in IF made THEN SUBSET Columns ELSE {{}}
    /\ pc = [p \in Procs |-> "idle"]
    /\ cursor = [p \in Procs |-> 1]
    /\ seen = [p \in Procs |-> "none"]
    /\ faults = 0
    /\ kept = members.rows
    /\ skipped = {}
    /\ broken = FALSE

\* Where a process has taken the old table away and not copied it yet.
Rebuilding == {"recreate", "copy"}
Migrating  == Rebuilding \cup {"drop"}

Goto(p, l) == pc' = [pc EXCEPT ![p] = l]

\* A statement of p raises, and p with it.
Raise(p) ==
    /\ Goto(p, "idle")
    /\ broken' = (broken \/ pc[p] \in Rebuilding)

(***************************************************************************)
(* _init_db                                                                *)
(***************************************************************************)

\* Mutated form: warroom_members is left to the migration to create.
CreateWithoutMembers(p) ==
    /\ pc[p] = "idle"
    /\ made' = TRUE
    /\ cols' = IF made THEN cols ELSE Columns \ {MaxCol}
    /\ cursor' = [cursor EXCEPT ![p] = 1]
    /\ Goto(p, "alter")
    /\ UNCHANGED <<members, legacy, seen, faults, aux>>

\* CREATE TABLE IF NOT EXISTS.
Create(p) ==
    /\ pc[p] = "idle"
    /\ members' = IF members.shape = "none" THEN Canonical({}) ELSE members
    /\ made' = TRUE
    /\ cols' = IF made THEN cols ELSE Columns \ {MaxCol}
    /\ cursor' = [cursor EXCEPT ![p] = 1]
    /\ Goto(p, "alter")
    /\ UNCHANGED <<legacy, seen, faults, aux>>

\* Mutated form: one suppress() around all the ALTERs.
AlterTogether(p) ==
    /\ pc[p] = "alter"
    /\ IF cursor[p] > MaxCol \/ cursor[p] \in cols
       THEN Goto(p, "look") /\ UNCHANGED <<cols, cursor>>
       ELSE /\ cols' = cols \cup {cursor[p]}
            /\ cursor' = [cursor EXCEPT ![p] = @ + 1]
            /\ UNCHANGED pc
    /\ UNCHANGED <<members, legacy, made, seen, faults, aux>>

\* ALTER TABLE ADD COLUMN: that the column is there already is suppressed,
\* and with it every other OperationalError, a lock that is not released too.
Alter(p) ==
    /\ pc[p] = "alter"
    /\ IF cursor[p] > MaxCol
       THEN Goto(p, "look") /\ UNCHANGED <<cols, cursor, faults, skipped>>
       ELSE /\ cursor' = [cursor EXCEPT ![p] = @ + 1]
            /\ \/ cols' = cols \cup {cursor[p]} /\ UNCHANGED <<faults, skipped>>
               \/ /\ "busy" \in Events /\ faults < MaxFaults
                  /\ cursor[p] \notin cols
                  /\ faults' = faults + 1
                  /\ skipped' = skipped \cup {cursor[p]}
                  /\ UNCHANGED cols
            /\ UNCHANGED pc
    /\ UNCHANGED <<members, legacy, made, seen, kept, broken>>

\* CREATE INDEX on warroom_members(spawn_order), then the flag goes up.
Index(p) ==
    /\ pc[p] = "index"
    /\ IF members.shape \in {"none", "composite"}
       THEN Raise(p)
       ELSE Goto(p, "ready") /\ UNCHANGED broken
    /\ UNCHANGED <<store, cursor, seen, faults, kept, skipped>>

(***************************************************************************)
(* _migrate_warroom_members                                                *)
(***************************************************************************)

\* Mutated form: a table with member ids is taken for a current one.
LookForIds(p) ==
    /\ pc[p] = "look"
    /\ seen' = [seen EXCEPT ![p] = members.shape]
    /\ Goto(p, IF members.shape = "composite" THEN "rename" ELSE "index")
    /\ UNCHANGED <<store, cursor, faults, aux>>

\* Mutated form: that the table may be missing is not looked for.
LookUnguarded(p) ==
    /\ pc[p] = "look"
    /\ seen' = [seen EXCEPT ![p] = members.shape]
    /\ Goto(p, IF members.shape # "canonical" THEN "rename" ELSE "index")
    /\ UNCHANGED <<store, cursor, faults, aux>>

Look(p) ==
    /\ pc[p] = "look"
    /\ seen' = [seen EXCEPT ![p] = members.shape]
    /\ Goto(p, IF members.shape \in OldShapes THEN "rename" ELSE "index")
    /\ UNCHANGED <<store, cursor, faults, aux>>

\* Mutated form: a legacy table in the way is dropped first.
RenameOver(p) ==
    /\ pc[p] = "rename"
    /\ IF members.shape # "none"
       THEN /\ legacy' = members /\ members' = NoTable
            /\ Goto(p, "recreate") /\ UNCHANGED broken
       ELSE Raise(p) /\ UNCHANGED <<members, legacy>>
    /\ UNCHANGED <<made, cols, cursor, seen, faults, kept, skipped>>

\* The table may have got another shape since p looked, or be gone.
Rename(p) ==
    /\ pc[p] = "rename"
    /\ IF members.shape # "none" /\ legacy.shape = "none"
       THEN /\ legacy' = members /\ members' = NoTable
            /\ Goto(p, "recreate") /\ UNCHANGED broken
       ELSE Raise(p) /\ UNCHANGED <<members, legacy>>
    /\ UNCHANGED <<made, cols, cursor, seen, faults, kept, skipped>>

\* Without IF NOT EXISTS: a start that came in between has created it.
Recreate(p) ==
    /\ pc[p] = "recreate"
    /\ IF members.shape = "none"
       THEN members' = Canonical({}) /\ Goto(p, "copy") /\ UNCHANGED broken
       ELSE Raise(p) /\ UNCHANGED members
    /\ UNCHANGED <<legacy, made, cols, cursor, seen, faults, kept, skipped>>

\* INSERT INTO ... SELECT names the columns of the shape p saw.
Copyable(p) ==
    /\ members.shape = "canonical"
    /\ legacy.shape = seen[p]
    /\ seen[p] = "stable" => members.rows \cap legacy.rows = {}

\* Mutated form: a copy that fails is suppressed.
CopySuppressed(p) ==
    /\ pc[p] = "copy"
    /\ members' = IF Copyable(p) THEN Canonical(members.rows \cup legacy.rows) ELSE members
    /\ Goto(p, "drop")
    /\ UNCHANGED <<legacy, made, cols, cursor, seen, faults, aux>>

Copy(p) ==
    /\ pc[p] = "copy"
    /\ IF Copyable(p)
       THEN members' = Canonical(members.rows \cup legacy.rows) /\ Goto(p, "drop") /\ UNCHANGED broken
       ELSE Raise(p) /\ UNCHANGED members
    /\ UNCHANGED <<legacy, made, cols, cursor, seen, faults, kept, skipped>>

Drop(p) ==
    /\ pc[p] = "drop"
    /\ legacy' = NoTable
    /\ Goto(p, "index")
    /\ UNCHANGED <<members, made, cols, cursor, seen, faults, aux>>

(***************************************************************************)
(* Processes that are past their start, and failure                        *)
(***************************************************************************)

\* The tools of a process that is ready record a member, or delete one.
Record(p) ==
    /\ pc[p] = "ready"
    /\ members.shape = "canonical"
    /\ \E r \in Rows \ (members.rows \cup legacy.rows) :
          /\ members' = Canonical(members.rows \cup {r})
          /\ kept' = kept \cup {r}
    /\ UNCHANGED <<legacy, made, cols, local, faults, skipped, broken>>

Delete(p) ==
    /\ pc[p] = "ready"
    /\ members.shape = "canonical"
    /\ \E r \in kept :
          /\ members' = Canonical(members.rows \ {r})
          /\ legacy' = [legacy EXCEPT !.rows = @ \ {r}]
          /\ kept' = kept \ {r}
    /\ UNCHANGED <<made, cols, local, faults, skipped, broken>>

\* A lock timeout outside the ALTERs raises.
Timeout(p) ==
    /\ "busy" \in Events /\ faults < MaxFaults
    /\ pc[p] \in {"rename", "index"} \cup Migrating
    /\ Raise(p)
    /\ faults' = faults + 1
    /\ UNCHANGED <<store, cursor, seen, kept, skipped>>

Crash(p) ==
    /\ "crash" \in Events /\ faults < MaxFaults
    /\ pc[p] # "idle"
    /\ Raise(p)
    /\ faults' = faults + 1
    /\ UNCHANGED <<store, cursor, seen, kept, skipped>>

(***************************************************************************)
(* Specification                                                           *)
(***************************************************************************)
Start(p) ==
    \/ Create(p) \/ Alter(p) \/ Look(p) \/ Rename(p)
    \/ Recreate(p) \/ Copy(p) \/ Drop(p) \/ Index(p)

Next == \E p \in Procs : Start(p) \/ Record(p) \/ Delete(p) \/ Timeout(p) \/ Crash(p)

Spec == Init /\ [][Next]_vars

\* A start goes on, and one that raised is repeated by the next call.
FairSpec == Spec /\ \A p \in Procs : WF_vars(Start(p))

(***************************************************************************)
(* Properties                                                              *)
(***************************************************************************)

\* The shape of every variable; a table that is not there has no rows, and a
\* rebuild is of a table that was seen in an old shape.
TypeOK ==
    /\ members \in Tables /\ legacy \in Tables
    /\ members.shape = "none" => members.rows = {}
    /\ legacy.shape = "none" => legacy.rows = {}
    /\ made \in BOOLEAN /\ cols \subseteq Columns
    /\ pc \in [Procs -> {"idle", "alter", "look", "rename", "index", "ready"} \cup Migrating]
    /\ cursor \in [Procs -> 1 .. MaxCol + 1]
    /\ seen \in [Procs -> Shapes]
    /\ \A p \in Procs : pc[p] \in {"rename"} \cup Migrating => seen[p] \in OldShapes
    /\ faults \in 0 .. MaxFaults
    /\ kept \subseteq Rows /\ skipped \subseteq Columns /\ broken \in BOOLEAN

\* The legacy table is the lock of the migration: of any number of starts
\* that saw an old shape, one at a time rebuilds.
MigrationExclusive ==
    \A p, q \in Procs : pc[p] \in Migrating /\ pc[q] \in Migrating => p = q

\* Whatever fails, and however starts interleave, no member is destroyed: it
\* is in one of the two tables until a tool deletes it.
NothingDestroyed == kept \subseteq members.rows \cup legacy.rows

\* "Both get rebuilt into the canonical shape": once nobody is in the middle
\* of it, every member is in the current table and a process that is ready
\* finds that in the current shape, unless a rebuild was broken off between
\* its RENAME and its copy.
MigrationComplete ==
    \/ broken
    \/ \E p \in Procs : pc[p] \in Rebuilding
    \/ /\ kept \subseteq members.rows
       /\ (\E p \in Procs : pc[p] = "ready") => members.shape = "canonical"

\* A process that is ready has every column, except those whose ALTER was
\* given up over a lock.
ColumnsThere == \A p \in Procs : pc[p] = "ready" => Columns \subseteq cols \cup skipped

\* No interrupted or overtaken migration bricks the database: in the end
\* every process gets through its start.
StartsSucceed == <>[](\A p \in Procs : pc[p] = "ready")

(***************************************************************************)
(* What the docstring claims and the code does not do                      *)
(***************************************************************************)

\* _db.py:136: prior shapes get rebuilt into the canonical shape, always.
AlwaysMigrated ==
    (\A p \in Procs : pc[p] = "ready") => kept \subseteq members.rows

=============================================================================
