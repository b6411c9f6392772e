--------------------------- MODULE Warroom_proofs ---------------------------
(***************************************************************************)
(* Theorems about Warroom, for any number of panes, rooms, addresses,      *)
(* servers, calls, re-indexings and messages: its types; an agent stays    *)
(* reachable through a re-keying; a kill takes no registration of a        *)
(* stranger; a probe's verdict on a window still holds when it is written. *)
(***************************************************************************)
EXTENDS Warroom, TLAPS

-----------------------------------------------------------------------------
(***************************************************************************)
(* The types of the calls in progress                                      *)
(***************************************************************************)
KillPcs   == {"window", "members", "delete"}
SpawnPcs  == {"first", "panes"}
\* From the read of the members on, an add owns its new pane.
RekeyPcs  == {"pids", "stage", "merge", "launch", "record", "commit"}
OwnPcs    == RekeyPcs \cup {"look", "rekey"}
AddPcs    == OwnPcs \cup {"split"}
RemovePcs == {"pane", "drop"}
Pcs       == KillPcs \cup SpawnPcs \cup AddPcs \cup RemovePcs
             \cup {"idle", "reap", "mark", "backfill", "fill"}

Batches   == [to : Ids, mail : SUBSET Panes]
Joins     == [pane : Panes, row : MaybeId]
CallRecords ==
    [pc : Pcs, room : Rooms \cup {NoRoom}, then : {"idle", "first"},
     repo : Repos \cup {NoId}, role : Roles \cup {NoId}, new : SUBSET Panes, left : Nat,
     todo : SUBSET Members, moves : SUBSET Moves, staged : SUBSET Batches,
     dirs : SUBSET Repos, doomed : SUBSET Rooms, joined : SUBSET Joins]

\* A call that works on a room knows it; one that starts runtimes knows what.
CallOK(k) ==
    /\ k \in CallRecords
    /\ k.pc \in KillPcs \cup SpawnPcs \cup AddPcs \cup RemovePcs => k.room \in Rooms
    /\ k.pc \in SpawnPcs \/ k.then = "first" => k.repo \in Repos
    /\ k.pc \in AddPcs => k.repo \in Repos /\ k.role \in Roles
CallsOK == call \in [Callers -> CallRecords] /\ \A c \in Callers : CallOK(call[c])

\* A registration in flight has read an id and an address.
Registrations == [id : MaybeId, target : MaybeAddr]
RegOK ==
    /\ reg \in [Panes -> Registrations]
    /\ \A p \in Panes : reg[p] # IdleReg => reg[p].id \in Ids /\ reg[p].target \in Addrs

\* A room that was recorded has a repo.
RoomsOK == \A r \in Rooms : Status(r) # "none" => rooms[r].repo \in Repos

\* What an add records belongs to its room.
RecordOK ==
    \A c \in Callers : call[c].pc = "record" => \A m \in call[c].todo : m.room = call[c].room

TypeInv == TypeOK /\ CallsOK /\ RegOK /\ RoomsOK /\ RecordOK

-----------------------------------------------------------------------------
(***************************************************************************)
(* Who has which pane                                                      *)
(***************************************************************************)

\* Panes a call has made and not recorded.
Fresh(c) ==
    IF call[c].pc \in SpawnPcs THEN {m.pane : m \in call[c].todo}
    ELSE IF call[c].pc \in OwnPcs THEN call[c].new ELSE {}

UniquePanes(S) == \A m, n \in S : m.pane = n.pane => m = n
UniqueMoves(M) == \A m, n \in M : m.member.pane = n.member.pane => m = n

\* What is in use has been created; nobody is in the window of a room before.
BornOK ==
    /\ up \subseteq 1 .. born
    /\ \A p \in Panes : p > born => wnd[p] = NoRoom /\ addr[p] = NoAddr
    /\ \A p \in Panes : reg[p] # IdleReg => p \in up
    /\ \A r \in agents : r.pane <= born
    /\ \A m \in members : m.pane <= born
    /\ \A c \in Callers : \A p \in Fresh(c) : p <= born

\* A pane is one member's at most, or one call's that has yet to record it.
OwnedOnce ==
    /\ UniquePanes(members)
    /\ \A c \in Callers : \A m \in members : m.pane \notin Fresh(c)
    /\ \A c, d \in Callers : c # d => Fresh(c) \cap Fresh(d) = {}
    /\ \A c \in Callers :
          /\ call[c].pc \in SpawnPcs \cup {"look", "record"} => UniquePanes(call[c].todo)
          /\ call[c].pc = "record" => \A m \in call[c].todo : m.pane \in call[c].new
          /\ UniqueMoves(call[c].moves)

\* Nothing runs or registers in the pane of an add before its launch.
NotStarted ==
    \A c \in Callers : call[c].pc \in OwnPcs \ {"record", "commit"} =>
        \A p \in call[c].new : p \notin up /\ RowsOf(p) = {}

OneRowPerPane == \A r, s \in agents : r.pane = s.pane => r = s

OwnInv == BornOK /\ OwnedOnce /\ NotStarted /\ OneRowPerPane

-----------------------------------------------------------------------------
(***************************************************************************)
(* Where a re-keying has got to                                            *)
(***************************************************************************)

\* The id that pid file and inbox of id i are taken to.
Target(mvs, i) ==
    IF \E m \in Renames(mvs) : m.old = i THEN (CHOOSE m \in Renames(mvs) : m.old = i).new ELSE i

\* Inboxes lie aside between the two loops only; a call without the lock has
\* nothing to re-key.
LockOK ==
    \A c \in Callers :
        /\ call[c].pc \in AddPcs \ {"merge"} => call[c].staged = {}
        /\ call[c].pc \in RekeyPcs /\ lock # c => call[c].moves = {} /\ call[c].staged = {}

\* What is left when late and parted agents are set aside.
Spared == Panes \ (late \cup parted)

Pid(p, i)      == p \in up => pidFile[p] = i
Box(p, i)      == \A j \in Ids : p \in mail[j] => j = i
Aboard(p, S, i) == \A s \in S : p \in s.mail => s.to = i

\* How far call c has taken the agent with row r on the way to id t.
Holds(c, r, t) ==
    /\ call[c].pc = "pids" => Pid(r.pane, r.id)
    /\ call[c].pc # "pids" => Pid(r.pane, t)
    /\ call[c].pc \in {"pids", "stage"} => Box(r.pane, r.id)
    /\ call[c].pc \notin {"pids", "stage"} => Box(r.pane, t)
    /\ call[c].pc = "merge" => Aboard(r.pane, call[c].staged, t)

\* Step by step, pid file, inbox and row of an agent come to agree again.
Underway ==
    lock # NoCaller => \A r \in agents : r.pane \in Spared =>
        Holds(lock, r, Target(call[lock].moves, r.id))

AtRest ==
    lock = NoCaller => \A r \in agents : r.pane \in Spared => Pid(r.pane, r.id) /\ Box(r.pane, r.id)

ReachInv == TypeInv /\ OwnInv /\ LockOK /\ Underway /\ AtRest

-----------------------------------------------------------------------------
\* A row that bears the id of a member in another pane is known to.
BearersKnown == Bearers(agents, members \cup Listed) \subseteq takers

\* The window of a room found dead is still gone, or was made again.
VerdictsHold ==
    \A c \in Callers : call[c].pc = "mark" =>
        \A r \in call[c].doomed : Window(r) = {} \/ r \in again[c]

-----------------------------------------------------------------------------
(***************************************************************************)
(* Who writes what                                                         *)
(***************************************************************************)
Acts(c) ==
    \/ KillTool(c) \/ SpawnTool(c) \/ AddTool(c) \/ RemoveTool(c) \/ StatusTool(c) \/ Crash(c)

LEMMA NextIs ==
    ASSUME [Next]_vars
    PROVE  \/ NewPane \/ ReIndex \/ Prune \/ Send \/ vars' = vars
           \/ \E p \in Panes : ClosePane(p) \/ Exit(p) \/ HookRead(p) \/ HookCommit(p) \/ HookKilled(p)
           \/ \E c \in Callers : Acts(c)
BY DEF Next, Environment, Hook, Acts

\* Rows are written by the hooks, the prunes and four kinds of call.
LEMMA AgentsBy ==
    ASSUME [Next]_vars
    PROVE  \/ agents' = agents
           \/ Prune
           \/ \E p \in Panes : Exit(p) \/ HookCommit(p)
           \/ \E c \in Callers : KillDelete(c) \/ AddCommit(c) \/ StatusStart(c)
<1>1. CASE NewPane \/ ReIndex \/ Send \/ vars' = vars
  BY <1>1 DEF NewPane, ReIndex, Send, vars, db
<1>2. ASSUME NEW p \in Panes, ClosePane(p) \/ HookRead(p) \/ HookKilled(p) PROVE agents' = agents
  BY <1>2 DEF ClosePane, HookRead, HookKilled, db
<1>3. ASSUME NEW c \in Callers,
              \/ KillStart(c) \/ KillWindow(c) \/ KillSelect(c) \/ SpawnTool(c)
              \/ RemoveTool(c)
      PROVE  agents' = agents
  BY <1>3 DEF KillStart, KillWindow, KillSelect, SpawnTool, SpawnStart, SpawnPane, SpawnRecord,
      RemoveTool, RemoveStart, RemoveKill, RemoveDelete, db
<1>4. ASSUME NEW c \in Callers,
              \/ AddStart(c) \/ AddSplit(c) \/ AddLook(c) \/ AddRekey(c) \/ AddPids(c)
              \/ AddStage(c) \/ AddMerge(c) \/ AddLaunch(c)
      PROVE  agents' = agents
  BY <1>4 DEF AddStart, AddSplit, AddLook, AddRekey, AddPids, AddStage, AddMerge, AddLaunch, db
<1>5. ASSUME NEW c \in Callers,
              \/ ReapProbe(c) \/ ReapMark(c) \/ BackfillSelect(c) \/ BackfillWrite(c)
              \/ Crash(c)
      PROVE  agents' = agents
  BY <1>5 DEF ReapProbe, ReapMark, BackfillSelect, BackfillWrite, Crash, db
<1> QED BY NextIs, <1>1, <1>2, <1>3, <1>4, <1>5 DEF Acts, KillTool, AddTool, StatusTool

\* Members are written by calls.
LEMMA MembersBy ==
    ASSUME [Next]_vars
    PROVE  \/ members' = members
           \/ \E c \in Callers : \/ KillDelete(c) \/ SpawnRecord(c) \/ AddCommit(c)
                                 \/ RemoveDelete(c) \/ StatusStart(c) \/ BackfillWrite(c)
<1>1. CASE NewPane \/ ReIndex \/ Prune \/ Send \/ vars' = vars
  BY <1>1 DEF NewPane, ReIndex, Prune, Send, vars, db
<1>2. ASSUME NEW p \in Panes,
              ClosePane(p) \/ Exit(p) \/ HookRead(p) \/ HookCommit(p) \/ HookKilled(p)
      PROVE  members' = members
  BY <1>2 DEF ClosePane, Exit, HookRead, HookCommit, HookKilled, db
<1>3. ASSUME NEW c \in Callers,
              \/ KillStart(c) \/ KillWindow(c) \/ KillSelect(c) \/ SpawnStart(c)
              \/ SpawnPane(c) \/ RemoveStart(c) \/ RemoveKill(c)
      PROVE  members' = members
  BY <1>3 DEF KillStart, KillWindow, KillSelect, SpawnStart, SpawnPane, RemoveStart, RemoveKill,
      db
<1>4. ASSUME NEW c \in Callers,
              \/ AddStart(c) \/ AddSplit(c) \/ AddLook(c) \/ AddRekey(c) \/ AddPids(c)
              \/ AddStage(c) \/ AddMerge(c) \/ AddLaunch(c)
      PROVE  members' = members
  BY <1>4 DEF AddStart, AddSplit, AddLook, AddRekey, AddPids, AddStage, AddMerge, AddLaunch, db
<1>5. ASSUME NEW c \in Callers,
              \/ ReapProbe(c) \/ ReapMark(c) \/ BackfillSelect(c) \/ Crash(c)
      PROVE  members' = members
  BY <1>5 DEF ReapProbe, ReapMark, BackfillSelect, Crash, db
<1> QED BY NextIs, <1>1, <1>2, <1>3, <1>4, <1>5 DEF Acts, KillTool, SpawnTool, AddTool,
    RemoveTool, StatusTool

\* Runtimes start in new panes or by a launch.
LEMMA UpBy ==
    ASSUME [Next]_vars
    PROVE  \/ up' = up
           \/ NewPane
           \/ \E p \in Panes : Exit(p)
           \/ \E c \in Callers : SpawnPane(c) \/ AddLaunch(c)
<1>1. CASE ReIndex \/ Prune \/ Send \/ vars' = vars
  BY <1>1 DEF ReIndex, Prune, Send, vars, tmux
<1>2. ASSUME NEW p \in Panes, ClosePane(p) \/ HookRead(p) \/ HookCommit(p) \/ HookKilled(p) PROVE up' = up
  BY <1>2 DEF ClosePane, HookRead, HookCommit, HookKilled, tmux
<1>3. ASSUME NEW c \in Callers,
              \/ KillTool(c) \/ SpawnStart(c) \/ SpawnRecord(c) \/ RemoveTool(c)
      PROVE  up' = up
  BY <1>3 DEF KillTool, KillStart, KillWindow, KillSelect, KillDelete, SpawnStart, SpawnRecord,
      RemoveTool, RemoveStart, RemoveKill, RemoveDelete, tmux
<1>4. ASSUME NEW c \in Callers,
              \/ AddStart(c) \/ AddSplit(c) \/ AddLook(c) \/ AddRekey(c) \/ AddPids(c)
              \/ AddStage(c) \/ AddMerge(c) \/ AddCommit(c)
      PROVE  up' = up
  BY <1>4 DEF AddStart, AddSplit, AddLook, AddRekey, AddPids, AddStage, AddMerge, AddCommit, tmux
<1>5. ASSUME NEW c \in Callers, StatusTool(c) \/ Crash(c) PROVE up' = up
  BY <1>5 DEF StatusTool, StatusStart, ReapProbe, ReapMark, BackfillSelect, BackfillWrite, Crash,
      tmux
<1> QED BY NextIs, <1>1, <1>2, <1>3, <1>4, <1>5 DEF Acts, SpawnTool, AddTool

\* Panes come, go and move.
LEMMA PanesBy ==
    ASSUME [Next]_vars
    PROVE  \/ UNCHANGED <<addr, wnd, born>>
           \/ NewPane
           \/ ReIndex
           \/ \E p \in Panes : ClosePane(p)
           \/ \E c \in Callers : KillWindow(c) \/ SpawnPane(c) \/ AddSplit(c) \/ RemoveKill(c)
<1>1. CASE Prune \/ Send \/ vars' = vars
  BY <1>1 DEF Prune, Send, vars, tmux
<1>2. ASSUME NEW p \in Panes, Exit(p) \/ HookRead(p) \/ HookCommit(p) \/ HookKilled(p) PROVE UNCHANGED <<addr, wnd, born>>
  BY <1>2 DEF Exit, HookRead, HookCommit, HookKilled, tmux
<1>3. ASSUME NEW c \in Callers,
              \/ KillStart(c) \/ KillSelect(c) \/ KillDelete(c) \/ SpawnStart(c)
              \/ SpawnRecord(c) \/ RemoveStart(c) \/ RemoveDelete(c)
      PROVE  UNCHANGED <<addr, wnd, born>>
  BY <1>3 DEF KillStart, KillSelect, KillDelete, SpawnStart, SpawnRecord, RemoveStart,
      RemoveDelete, tmux
<1>4. ASSUME NEW c \in Callers,
              \/ AddStart(c) \/ AddLook(c) \/ AddRekey(c) \/ AddPids(c) \/ AddStage(c)
              \/ AddMerge(c) \/ AddLaunch(c) \/ AddCommit(c)
      PROVE  UNCHANGED <<addr, wnd, born>>
  BY <1>4 DEF AddStart, AddLook, AddRekey, AddPids, AddStage, AddMerge, AddLaunch, AddCommit, tmux
<1>5. ASSUME NEW c \in Callers, StatusTool(c) \/ Crash(c) PROVE UNCHANGED <<addr, wnd, born>>
  BY <1>5 DEF StatusTool, StatusStart, ReapProbe, ReapMark, BackfillSelect, BackfillWrite, Crash,
      tmux
<1> QED BY NextIs, <1>1, <1>2, <1>3, <1>4, <1>5 DEF Acts, KillTool, SpawnTool, AddTool, RemoveTool

\* Pid files are written by hooks and by a re-keying.
LEMMA PidsBy ==
    ASSUME [Next]_vars
    PROVE  \/ pidFile' = pidFile
           \/ \E p \in Panes : Exit(p) \/ HookCommit(p)
           \/ \E c \in Callers : AddPids(c)
<1>1. CASE NewPane \/ ReIndex \/ Prune \/ Send \/ vars' = vars
  BY <1>1 DEF NewPane, ReIndex, Prune, Send, vars, file
<1>2. ASSUME NEW p \in Panes, ClosePane(p) \/ HookRead(p) \/ HookKilled(p) PROVE pidFile' = pidFile
  BY <1>2 DEF ClosePane, HookRead, HookKilled, file
<1>3. ASSUME NEW c \in Callers,
              \/ KillTool(c) \/ SpawnTool(c) \/ RemoveTool(c)
      PROVE  pidFile' = pidFile
  BY <1>3 DEF KillTool, KillStart, KillWindow, KillSelect, KillDelete, SpawnTool, SpawnStart,
      SpawnPane, SpawnRecord, RemoveTool, RemoveStart, RemoveKill, RemoveDelete, file
<1>4. ASSUME NEW c \in Callers,
              \/ AddStart(c) \/ AddSplit(c) \/ AddLook(c) \/ AddRekey(c) \/ AddStage(c)
              \/ AddMerge(c) \/ AddLaunch(c) \/ AddCommit(c)
      PROVE  pidFile' = pidFile
  BY <1>4 DEF AddStart, AddSplit, AddLook, AddRekey, AddStage, AddMerge, AddLaunch, AddCommit,
      file
<1>5. ASSUME NEW c \in Callers, StatusTool(c) \/ Crash(c) PROVE pidFile' = pidFile
  BY <1>5 DEF StatusTool, StatusStart, ReapProbe, ReapMark, BackfillSelect, BackfillWrite, Crash,
      file
<1> QED BY NextIs, <1>1, <1>2, <1>3, <1>4, <1>5 DEF Acts, AddTool

\* Inboxes are written by senders and by a re-keying.
LEMMA MailBy ==
    ASSUME [Next]_vars
    PROVE  \/ mail' = mail
           \/ Send
           \/ \E c \in Callers : AddStage(c) \/ AddMerge(c)
<1>1. CASE NewPane \/ ReIndex \/ Prune \/ vars' = vars
  BY <1>1 DEF NewPane, ReIndex, Prune, vars, file
<1>2. ASSUME NEW p \in Panes, ClosePane(p) \/ Exit(p) \/ HookRead(p) \/ HookCommit(p) \/ HookKilled(p) PROVE mail' = mail
  BY <1>2 DEF ClosePane, Exit, HookRead, HookCommit, HookKilled, file
<1>3. ASSUME NEW c \in Callers, KillTool(c) \/ SpawnTool(c) \/ RemoveTool(c) PROVE mail' = mail
  BY <1>3 DEF KillTool, KillStart, KillWindow, KillSelect, KillDelete, SpawnTool, SpawnStart,
      SpawnPane, SpawnRecord, RemoveTool, RemoveStart, RemoveKill, RemoveDelete, file
<1>4. ASSUME NEW c \in Callers,
              \/ AddStart(c) \/ AddSplit(c) \/ AddLook(c) \/ AddRekey(c) \/ AddPids(c)
              \/ AddLaunch(c) \/ AddCommit(c)
      PROVE  mail' = mail
  BY <1>4 DEF AddStart, AddSplit, AddLook, AddRekey, AddPids, AddLaunch, AddCommit, file
<1>5. ASSUME NEW c \in Callers, StatusTool(c) \/ Crash(c) PROVE mail' = mail
  BY <1>5 DEF StatusTool, StatusStart, ReapProbe, ReapMark, BackfillSelect, BackfillWrite, Crash,
      file
<1> QED BY NextIs, <1>1, <1>2, <1>3, <1>4, <1>5 DEF Acts, AddTool

\* The lock is a re-keying's.
LEMMA LockBy ==
    ASSUME [Next]_vars
    PROVE  \/ lock' = lock
           \/ \E c \in Callers : AddRekey(c) \/ AddCommit(c) \/ Crash(c)
<1>1. CASE NewPane \/ ReIndex \/ Prune \/ Send \/ vars' = vars
  BY <1>1 DEF NewPane, ReIndex, Prune, Send, vars, db
<1>2. ASSUME NEW p \in Panes, ClosePane(p) \/ Exit(p) \/ HookRead(p) \/ HookCommit(p) \/ HookKilled(p) PROVE lock' = lock
  BY <1>2 DEF ClosePane, Exit, HookRead, HookCommit, HookKilled, db
<1>3. ASSUME NEW c \in Callers, KillTool(c) \/ SpawnTool(c) \/ RemoveTool(c) PROVE lock' = lock
  BY <1>3 DEF KillTool, KillStart, KillWindow, KillSelect, KillDelete, SpawnTool, SpawnStart,
      SpawnPane, SpawnRecord, RemoveTool, RemoveStart, RemoveKill, RemoveDelete, db
<1>4. ASSUME NEW c \in Callers,
              \/ AddStart(c) \/ AddSplit(c) \/ AddLook(c) \/ AddPids(c) \/ AddStage(c)
              \/ AddMerge(c) \/ AddLaunch(c)
      PROVE  lock' = lock
  BY <1>4 DEF AddStart, AddSplit, AddLook, AddPids, AddStage, AddMerge, AddLaunch, db
<1>5. ASSUME NEW c \in Callers, StatusTool(c) PROVE lock' = lock
  BY <1>5 DEF StatusTool, StatusStart, ReapProbe, ReapMark, BackfillSelect, BackfillWrite, db
<1> QED BY NextIs, <1>1, <1>2, <1>3, <1>4, <1>5 DEF Acts, AddTool

\* Who is set aside.
LEMMA LateBy ==
    ASSUME [Next]_vars
    PROVE  \/ UNCHANGED <<late, parted>>
           \/ Send
           \/ \E p \in Panes : HookCommit(p)
           \/ \E c \in Callers : AddCommit(c) \/ Crash(c)
<1>1. CASE NewPane \/ ReIndex \/ Prune \/ vars' = vars
  BY <1>1 DEF NewPane, ReIndex, Prune, vars, aux
<1>2. ASSUME NEW p \in Panes, ClosePane(p) \/ Exit(p) \/ HookRead(p) \/ HookKilled(p) PROVE UNCHANGED <<late, parted>>
  BY <1>2 DEF ClosePane, Exit, HookRead, HookKilled, aux
<1>3. ASSUME NEW c \in Callers,
              \/ KillTool(c) \/ SpawnTool(c) \/ RemoveTool(c)
      PROVE  UNCHANGED <<late, parted>>
  BY <1>3 DEF KillTool, KillStart, KillWindow, KillSelect, KillDelete, SpawnTool, SpawnStart,
      SpawnPane, SpawnRecord, RemoveTool, RemoveStart, RemoveKill, RemoveDelete, aux
<1>4. ASSUME NEW c \in Callers,
              \/ AddStart(c) \/ AddSplit(c) \/ AddLook(c) \/ AddRekey(c) \/ AddPids(c)
              \/ AddStage(c) \/ AddMerge(c) \/ AddLaunch(c)
      PROVE  UNCHANGED <<late, parted>>
  BY <1>4 DEF AddStart, AddSplit, AddLook, AddRekey, AddPids, AddStage, AddMerge, AddLaunch, aux
<1>5. ASSUME NEW c \in Callers, StatusTool(c) PROVE UNCHANGED <<late, parted>>
  BY <1>5 DEF StatusTool, StatusStart, ReapProbe, ReapMark, BackfillSelect, BackfillWrite, aux
<1> QED BY NextIs, <1>1, <1>2, <1>3, <1>4, <1>5 DEF Acts, AddTool

\* Who bears the id of another.
LEMMA TakersBy ==
    ASSUME [Next]_vars
    PROVE  \/ takers' = takers
           \/ \E p \in Panes : HookCommit(p)
           \/ \E c \in Callers : AddCommit(c) \/ BackfillWrite(c)
<1>1. CASE NewPane \/ ReIndex \/ Prune \/ Send \/ vars' = vars
  BY <1>1 DEF NewPane, ReIndex, Prune, Send, vars, aux
<1>2. ASSUME NEW p \in Panes, ClosePane(p) \/ Exit(p) \/ HookRead(p) \/ HookKilled(p) PROVE takers' = takers
  BY <1>2 DEF ClosePane, Exit, HookRead, HookKilled, aux
<1>3. ASSUME NEW c \in Callers,
              \/ KillTool(c) \/ SpawnTool(c) \/ RemoveTool(c)
      PROVE  takers' = takers
  BY <1>3 DEF KillTool, KillStart, KillWindow, KillSelect, KillDelete, SpawnTool, SpawnStart,
      SpawnPane, SpawnRecord, RemoveTool, RemoveStart, RemoveKill, RemoveDelete, aux
<1>4. ASSUME NEW c \in Callers,
              \/ AddStart(c) \/ AddSplit(c) \/ AddLook(c) \/ AddRekey(c) \/ AddPids(c)
              \/ AddStage(c) \/ AddMerge(c) \/ AddLaunch(c)
      PROVE  takers' = takers
  BY <1>4 DEF AddStart, AddSplit, AddLook, AddRekey, AddPids, AddStage, AddMerge, AddLaunch, aux
<1>5. ASSUME NEW c \in Callers,
              \/ StatusStart(c) \/ ReapProbe(c) \/ ReapMark(c) \/ BackfillSelect(c)
              \/ Crash(c)
      PROVE  takers' = takers
  BY <1>5 DEF StatusStart, ReapProbe, ReapMark, BackfillSelect, Crash, aux
<1> QED BY NextIs, <1>1, <1>2, <1>3, <1>4, <1>5 DEF Acts, AddTool, StatusTool

\* Who made the window of a room again.
LEMMA AgainBy ==
    ASSUME [Next]_vars
    PROVE  \/ again' = again
           \/ \E c \in Callers : SpawnPane(c) \/ ReapMark(c) \/ Crash(c)
<1>1. CASE NewPane \/ ReIndex \/ Prune \/ Send \/ vars' = vars
  BY <1>1 DEF NewPane, ReIndex, Prune, Send, vars, aux
<1>2. ASSUME NEW p \in Panes, ClosePane(p) \/ Exit(p) \/ HookRead(p) \/ HookCommit(p) \/ HookKilled(p) PROVE again' = again
  BY <1>2 DEF ClosePane, Exit, HookRead, HookCommit, HookKilled, aux
<1>3. ASSUME NEW c \in Callers,
              \/ KillTool(c) \/ SpawnStart(c) \/ SpawnRecord(c) \/ RemoveTool(c)
      PROVE  again' = again
  BY <1>3 DEF KillTool, KillStart, KillWindow, KillSelect, KillDelete, SpawnStart, SpawnRecord,
      RemoveTool, RemoveStart, RemoveKill, RemoveDelete, aux
<1>4. ASSUME NEW c \in Callers, AddTool(c) PROVE again' = again
  BY <1>4 DEF AddTool, AddStart, AddSplit, AddLook, AddRekey, AddPids, AddStage, AddMerge,
      AddLaunch, AddCommit, aux
<1>5. ASSUME NEW c \in Callers,
              \/ StatusStart(c) \/ ReapProbe(c) \/ BackfillSelect(c) \/ BackfillWrite(c)
      PROVE  again' = again
  BY <1>5 DEF StatusStart, ReapProbe, BackfillSelect, BackfillWrite, aux
<1> QED BY NextIs, <1>1, <1>2, <1>3, <1>4, <1>5 DEF Acts, SpawnTool, StatusTool

\* Registrations are the hooks'.
LEMMA RegBy ==
    ASSUME [Next]_vars
    PROVE  \/ reg' = reg
           \/ \E p \in Panes : HookRead(p) \/ HookCommit(p) \/ HookKilled(p)
<1>1. CASE NewPane \/ ReIndex \/ Prune \/ Send \/ vars' = vars
  BY <1>1 DEF NewPane, ReIndex, Prune, Send, vars
<1>2. ASSUME NEW p \in Panes, ClosePane(p) \/ Exit(p) PROVE reg' = reg
  BY <1>2 DEF ClosePane, Exit
<1>3. ASSUME NEW c \in Callers, KillTool(c) \/ SpawnTool(c) \/ RemoveTool(c) PROVE reg' = reg
  BY <1>3 DEF KillTool, KillStart, KillWindow, KillSelect, KillDelete, SpawnTool, SpawnStart,
      SpawnPane, SpawnRecord, RemoveTool, RemoveStart, RemoveKill, RemoveDelete
<1>4. ASSUME NEW c \in Callers, AddTool(c) PROVE reg' = reg
  BY <1>4 DEF AddTool, AddStart, AddSplit, AddLook, AddRekey, AddPids, AddStage, AddMerge,
      AddLaunch, AddCommit
<1>5. ASSUME NEW c \in Callers, StatusTool(c) \/ Crash(c) PROVE reg' = reg
  BY <1>5 DEF StatusTool, StatusStart, ReapProbe, ReapMark, BackfillSelect, BackfillWrite, Crash
<1> QED BY NextIs, <1>1, <1>2, <1>3, <1>4, <1>5 DEF Acts

-----------------------------------------------------------------------------
(***************************************************************************)
(* Types                                                                   *)
(***************************************************************************)
LEMMA IdleCallOK == CallOK(IdleCall)
BY DEF CallOK, IdleCall, CallRecords, Pcs, KillPcs, SpawnPcs, AddPcs, OwnPcs, RekeyPcs, RemovePcs

LEMMA CanonicalIsId ==
    ASSUME NEW repo \in Repos, NEW role \in Roles, NEW a \in Addrs
    PROVE  Canonical(repo, role, a) \in Ids
BY DEF Canonical, Ids

LEMMA OldIsId == ASSUME NEW m \in Members PROVE OldId(m) \in Ids
BY CanonicalIsId DEF OldId, Members, MaybeId

LEMMA RowIds == ASSUME agents \subseteq Rows PROVE \A r \in agents : r.id \in Ids /\ r.id # NoId
BY WarroomAssumption DEF Rows

\* One call takes a step of its own.
LEMMA CallsSet ==
    ASSUME CallsOK, NEW c \in Callers, NEW k, CallOK(k), call' = [call EXCEPT ![c] = k]
    PROVE  CallsOK'
BY DEF CallsOK, CallOK

\* Rows that moves name are renamed or forgotten.
LEMMA MovesSet ==
    ASSUME NEW k, CallOK(k), NEW M \in SUBSET Moves
    PROVE  CallOK([k EXCEPT !.moves = M])
BY DEF CallOK, CallRecords

LEMMA SetPc ==
    ASSUME NEW k, CallOK(k), NEW pc \in Pcs,
           pc \in KillPcs \cup SpawnPcs \cup AddPcs \cup RemovePcs => k.room \in Rooms,
           pc \in SpawnPcs => k.repo \in Repos,
           pc \in AddPcs => k.repo \in Repos /\ k.role \in Roles
    PROVE  CallOK([k EXCEPT !.pc = pc])
BY DEF CallOK, CallRecords

LEMMA SetTodo ==
    ASSUME NEW k, CallOK(k), NEW S \in SUBSET Members PROVE CallOK([k EXCEPT !.todo = S])
BY DEF CallOK, CallRecords

LEMMA SetLeft == ASSUME NEW k, CallOK(k), NEW n \in Nat PROVE CallOK([k EXCEPT !.left = n])
BY DEF CallOK, CallRecords

LEMMA PcSets ==
    /\ \A pc \in KillPcs \cup SpawnPcs \cup AddPcs \cup RemovePcs : pc \in Pcs
    /\ KillPcs \cap (SpawnPcs \cup AddPcs) = {} /\ SpawnPcs \cap AddPcs = {}
    /\ RemovePcs \cap (SpawnPcs \cup AddPcs) = {}
    /\ {"idle", "reap", "mark", "backfill", "fill"} \subseteq Pcs
    /\ {"idle", "reap", "mark", "backfill", "fill"}
          \cap (KillPcs \cup SpawnPcs \cup AddPcs \cup RemovePcs) = {}
    /\ {"window", "members", "delete"} = KillPcs /\ {"first", "panes"} = SpawnPcs
    /\ {"pane", "drop"} = RemovePcs
    /\ {"split", "look", "rekey", "pids", "stage", "merge", "launch", "record", "commit"} = AddPcs
BY DEF Pcs, KillPcs, SpawnPcs, AddPcs, OwnPcs, RekeyPcs, RemovePcs

LEMMA RowSet == ASSUME NEW m \in Moves, NEW i \in MaybeId PROVE [m EXCEPT !.row = i] \in Moves
BY DEF Moves

LEMMA UnlinkOK ==
    ASSUME CallsOK, NEW ids
    PROVE  /\ Unlink(ids) \in [Callers -> CallRecords]
           /\ \A c \in Callers : CallOK(Unlink(ids)[c])
<1> DEFINE M(c) == {IF m.row \in ids THEN [m EXCEPT !.row = NoId] ELSE m : m \in call[c].moves}
<1>1. ASSUME NEW c \in Callers PROVE M(c) \in SUBSET Moves
  <2>1. call[c].moves \subseteq Moves
    BY DEF CallsOK, CallRecords
  <2>2. NoId \in MaybeId
    BY DEF MaybeId
  <2> QED BY <2>1, <2>2, RowSet
<1> DEFINE K(c) == [call[c] EXCEPT !.moves = M(c)]
<1>2. Unlink(ids) = [c \in Callers |-> K(c)]
  BY DEF Unlink
<1>3. ASSUME NEW c \in Callers PROVE CallOK(K(c))
  <2> HIDE DEF M
  <2> QED BY <1>1, MovesSet DEF CallsOK
<1> HIDE DEF K
<1> QED BY <1>2, <1>3 DEF CallOK

LEMMA RekeysAre == ASSUME NEW mvs \in SUBSET Moves PROVE Rekeys(mvs) \subseteq Moves
BY DEF Rekeys

LEMMA RenamedOK ==
    ASSUME CallsOK, NEW mvs \in SUBSET Moves
    PROVE  /\ Renamed(mvs) \in [Callers -> CallRecords]
           /\ \A c \in Callers : CallOK(Renamed(mvs)[c])
<1> DEFINE N(m) == (CHOOSE n \in Rekeys(mvs) : n.row = m.row).new
           G(m) == IF \E n \in Rekeys(mvs) : n.row = m.row THEN [m EXCEPT !.row = N(m)] ELSE m
           M(c) == {G(m) : m \in call[c].moves}
<1>1. ASSUME NEW m \in Moves PROVE G(m) \in Moves
  <2>1. CASE \E n \in Rekeys(mvs) : n.row = m.row
    <3>1. (CHOOSE n \in Rekeys(mvs) : n.row = m.row) \in Moves
      BY <2>1, RekeysAre
    <3>2. N(m) \in MaybeId
      BY <3>1 DEF Moves, MaybeId
    <3> HIDE DEF N
    <3> QED BY <3>2, RowSet
  <2> QED BY <2>1
<1>2. ASSUME NEW c \in Callers PROVE M(c) \in SUBSET Moves
  <2>1. call[c].moves \subseteq Moves
    BY DEF CallsOK, CallRecords
  <2> HIDE DEF G
  <2> QED BY <1>1, <2>1
<1> DEFINE K(c) == [call[c] EXCEPT !.moves = M(c)]
<1>3. Renamed(mvs) = [c \in Callers |-> K(c)]
  BY DEF Renamed
<1>4. ASSUME NEW c \in Callers PROVE CallOK(K(c))
  <2> HIDE DEF M
  <2> QED BY <1>2, MovesSet DEF CallsOK
<1> HIDE DEF K
<1> QED BY <1>3, <1>4 DEF CallOK

LEMMA CallsSetIn ==
    ASSUME NEW U \in [Callers -> CallRecords], \A d \in Callers : CallOK(U[d]),
           NEW c \in Callers, NEW k, CallOK(k), call' = [U EXCEPT ![c] = k]
    PROVE  CallsOK'
BY DEF CallsOK, CallOK

LEMMA UnlinkFields ==
    ASSUME CallsOK, NEW ids, NEW c \in Callers
    PROVE  \E M \in SUBSET Moves : Unlink(ids)[c] = [call[c] EXCEPT !.moves = M]
<1> DEFINE M == {IF m.row \in ids THEN [m EXCEPT !.row = NoId] ELSE m : m \in call[c].moves}
<1>1. M \in SUBSET Moves
  BY RowSet DEF CallsOK, CallRecords, MaybeId
<1>2. Unlink(ids)[c] = [call[c] EXCEPT !.moves = M]
  BY DEF Unlink
<1> HIDE DEF M
<1> QED BY <1>1, <1>2

LEMMA KillCalls ==
    ASSUME TypeInv, NEW c \in Callers, KillTool(c)
    PROVE  CallsOK'
<1> USE DEF TypeInv
<1>1. CASE KillStart(c)
  <2>1. PICK r \in Rooms : call' = [call EXCEPT ![c] = [IdleCall EXCEPT !.pc = "window", !.room = r]]
    BY <1>1 DEF KillStart
  <2>2. CallOK([IdleCall EXCEPT !.pc = "window", !.room = r])
    BY IdleCallOK DEF CallOK, CallRecords, IdleCall, Pcs, KillPcs, SpawnPcs, AddPcs, OwnPcs, RekeyPcs
  <2> QED BY <2>1, <2>2, CallsSet
<1>2. CASE KillWindow(c)
  <2>1. CallOK([call[c] EXCEPT !.pc = "members"])
    BY <1>2 DEF KillWindow, CallsOK, CallOK, CallRecords, Pcs, KillPcs, SpawnPcs, AddPcs, OwnPcs, RekeyPcs
  <2>2. call' = [call EXCEPT ![c] = [call[c] EXCEPT !.pc = "members"]]
    BY <1>2 DEF KillWindow, Goto
  <2> QED BY <2>1, <2>2, CallsSet
<1>3. CASE KillSelect(c)
  <2>1. MembersOf(call[c].room) \in SUBSET Members
    BY DEF MembersOf, TypeOK
  <2>2. PICK S \in SUBSET Members : S = MembersOf(call[c].room)
    BY <2>1
  <2> DEFINE k == [call[c] EXCEPT !.pc = "delete"]
  <2>3. CallOK(k)
    BY <1>3, PcSets, SetPc DEF KillSelect, CallsOK, CallOK
  <2>5. CallOK([k EXCEPT !.todo = S])
    BY <2>3, SetTodo
  <2>4. call' = [call EXCEPT ![c] = [call[c] EXCEPT !.pc = "delete", !.todo = S]]
    BY <1>3, <2>2 DEF KillSelect
  <2> QED BY <2>4, <2>5, CallsSet
<1>4. CASE KillDelete(c)
  <2> DEFINE ids == {r.id : r \in UNION {ReapedWith(m) : m \in call[c].todo}}
  <2>1. call' = [Unlink(ids) EXCEPT ![c] = IF call[c].then = "idle" THEN IdleCall
                        ELSE [@ EXCEPT !.pc = call[c].then, !.todo = {}]]
    BY <1>4 DEF KillDelete
  <2>2. call[c].pc = "delete"
    BY <1>4 DEF KillDelete
  <2> HIDE DEF ids
  <2>3. PICK U : U = Unlink(ids)
    OBVIOUS
  <2>4. U \in [Callers -> CallRecords] /\ \A d \in Callers : CallOK(U[d])
    BY <2>3, UnlinkOK
  <2>5. PICK M \in SUBSET Moves : U[c] = [call[c] EXCEPT !.moves = M]
    <3>1. \E M \in SUBSET Moves : Unlink(ids)[c] = [call[c] EXCEPT !.moves = M]
      BY UnlinkFields
    <3> QED BY <2>3, <3>1
  <2>6. U[c].then = call[c].then /\ U[c].pc = "delete"
    BY <2>2, <2>5 DEF CallsOK, CallRecords
  <2>7. ASSUME call[c].then # "idle" PROVE CallOK([U[c] EXCEPT !.pc = call[c].then, !.todo = {}])
    <3>1. CallOK(U[c]) /\ U[c].room \in Rooms /\ U[c].repo \in Repos
      BY <2>4, <2>6, <2>7, PcSets DEF CallOK, CallRecords
    <3>2. call[c].then = "first"
      BY <2>7 DEF CallsOK, CallRecords
    <3>3. CallOK([U[c] EXCEPT !.pc = "first"])
      BY <3>1, PcSets, SetPc
    <3> DEFINE k == [U[c] EXCEPT !.pc = "first"]
    <3>4. CallOK([k EXCEPT !.todo = {}])
      BY <3>3, SetTodo
    <3> QED BY <3>2, <3>4
  <2>8. CASE call[c].then = "idle"
    <3>1. call' = [U EXCEPT ![c] = IdleCall]
      BY <2>1, <2>3, <2>8
    <3> QED BY <2>4, <3>1, IdleCallOK, CallsSetIn
  <2>9. CASE call[c].then # "idle"
    <3>1. call' = [U EXCEPT ![c] = [U[c] EXCEPT !.pc = call[c].then, !.todo = {}]]
      BY <2>1, <2>3, <2>9
    <3> QED BY <2>4, <2>7, <2>9, <3>1, CallsSetIn
  <2> QED BY <2>8, <2>9
<1> QED BY <1>1, <1>2, <1>3, <1>4 DEF KillTool

\* An address that a split, a kill or a layout gives is one of tmux's.
LEMMA ReflowedOK ==
    ASSUME addr \in [Panes -> MaybeAddr], NEW S \in SUBSET Panes, NEW new \in Reflowed(S)
    PROVE  /\ new \in [Panes -> MaybeAddr]
           /\ \A p \in S : new[p] \in Addrs
           /\ \A p \in Panes \ S : new[p] = addr[p]
BY DEF Reflowed, MaybeAddr

LEMMA SplitOK ==
    ASSUME TypeOK, NEW r, Split(born + 1, r), born < MaxPane
    PROVE  /\ addr' \in [Panes -> MaybeAddr] /\ born + 1 \in Panes /\ addr'[born + 1] \in Addrs
           /\ born' = born + 1 /\ wnd' = [wnd EXCEPT ![born + 1] = r]
<1> DEFINE S == {q \in Panes : Live(q) /\ wnd[q] = r} \cup {born + 1}
<1>1. born + 1 \in Panes
  BY WarroomAssumption DEF TypeOK, Panes
<1>2. PICK new \in Reflowed(S) : addr' = new
  BY DEF Split
<1>3. S \in SUBSET Panes /\ born + 1 \in S
  BY <1>1
<1> HIDE DEF S
<1>4. new \in [Panes -> MaybeAddr] /\ new[born + 1] \in Addrs
  BY <1>2, <1>3, ReflowedOK DEF TypeOK
<1> QED BY <1>1, <1>2, <1>4 DEF Split

LEMMA SpawnCalls ==
    ASSUME TypeInv, NEW c \in Callers, SpawnTool(c)
    PROVE  CallsOK'
<1> USE DEF TypeInv
<1>1. CASE SpawnStart(c)
  <2>1. PICK r \in Rooms, repo \in Repos, n \in 1 .. MaxPane : \E dirs \in {{repo}, Repos} :
          call' = [call EXCEPT ![c] =
             [IdleCall EXCEPT !.pc = IF Status(r) = "none" THEN "first" ELSE "window",
                              !.then = "first", !.room = r, !.repo = repo, !.dirs = dirs,
                              !.left = n]]
    BY <1>1 DEF SpawnStart
  <2>2. PICK dirs \in SUBSET Repos : call' = [call EXCEPT ![c] =
             [IdleCall EXCEPT !.pc = IF Status(r) = "none" THEN "first" ELSE "window",
                              !.then = "first", !.room = r, !.repo = repo, !.dirs = dirs,
                              !.left = n]]
    BY <2>1
  <2>3. PICK pc \in {"first", "window"} : pc = IF Status(r) = "none" THEN "first" ELSE "window"
    OBVIOUS
  <2>4. CallOK([IdleCall EXCEPT !.pc = pc, !.then = "first", !.room = r, !.repo = repo,
                                !.dirs = dirs, !.left = n])
    <3> DEFINE k == [IdleCall EXCEPT !.then = "first", !.room = r, !.repo = repo,
                                    !.dirs = dirs, !.left = n]
    <3>1. n \in Nat /\ IdleCall \in CallRecords
      BY WarroomAssumption, IdleCallOK DEF CallOK
    <3>4. k \in CallRecords /\ k.room \in Rooms /\ k.repo \in Repos /\ k.pc = "idle"
      BY <3>1 DEF CallRecords, IdleCall
    <3>2. CallOK(k)
      <4> HIDE DEF k
      <4> QED BY <3>4, PcSets DEF CallOK
    <3>3. CallOK([k EXCEPT !.pc = pc])
      <4> HIDE DEF k
      <4> QED BY <3>4, <3>2, PcSets, SetPc
    <3> QED BY <3>3
  <2> QED BY <2>2, <2>3, <2>4, CallsSet
<1>2. CASE SpawnPane(c)
  <2>1. call[c].pc \in {"first", "panes"} /\ call[c].left > 0 /\ CallOK(call[c])
    BY <1>2 DEF SpawnPane, CallsOK
  <2> DEFINE n == call[c].left - 1
             k == [call[c] EXCEPT !.left = n]
  <2>5. n \in Nat
    BY <2>1 DEF CallOK, CallRecords
  <2>6. CallOK(k) /\ k.room \in Rooms /\ k.repo \in Repos
    <3> HIDE DEF n
    <3> QED BY <2>1, <2>5, PcSets DEF CallOK, CallRecords
  <2>2. CallOK([call[c] EXCEPT !.left = @ - 1, !.pc = "panes"])
    BY <2>6, PcSets, SetPc
  <2>3. CASE call' = [call EXCEPT ![c].left = @ - 1, ![c].pc = "panes"]
    BY <2>2, <2>3, CallsSet
  <2>4. CASE \E r : Split(born + 1, r) /\ born < MaxPane /\ \E role \in Roles, repo \in call[c].dirs :
                   call' = [call EXCEPT ![c].left = @ - 1, ![c].pc = "panes",
                         ![c].todo = @ \cup
                            {[pane |-> born + 1, room |-> call[c].room, repo |-> repo, role |-> role,
                              target |-> addr'[born + 1], inst |-> NoId, active |-> FALSE]}]
    <3>1. PICK role \in Roles, repo \in call[c].dirs :
                   call' = [call EXCEPT ![c].left = @ - 1, ![c].pc = "panes",
                         ![c].todo = @ \cup
                            {[pane |-> born + 1, room |-> call[c].room, repo |-> repo, role |-> role,
                              target |-> addr'[born + 1], inst |-> NoId, active |-> FALSE]}]
      BY <2>4
    <3>2. born + 1 \in Panes /\ addr'[born + 1] \in Addrs
      BY <2>4, SplitOK
    <3>3. PICK m : m = [pane |-> born + 1, room |-> call[c].room, repo |-> repo, role |-> role,
                              target |-> addr'[born + 1], inst |-> NoId, active |-> FALSE]
      OBVIOUS
    <3>4. m \in Members
      BY <2>1, <3>2, <3>3 DEF Members, MaybeId, CallOK, CallRecords, SpawnPcs
    <3>5. CallOK([call[c] EXCEPT !.left = @ - 1, !.pc = "panes", !.todo = @ \cup {m}])
      <4> DEFINE k2 == [call[c] EXCEPT !.left = @ - 1, !.pc = "panes"]
                 S  == call[c].todo \cup {m}
      <4>1. S \in SUBSET Members
        BY <2>1, <3>4 DEF CallOK, CallRecords
      <4>2. CallOK([k2 EXCEPT !.todo = S])
        BY <2>2, <4>1, SetTodo
      <4> QED BY <4>2
    <3> QED BY <3>1, <3>3, <3>5, CallsSet
  <2> QED BY <1>2, <2>3, <2>4 DEF SpawnPane
<1>3. CASE SpawnRecord(c)
  BY <1>3, IdleCallOK, CallsSet DEF SpawnRecord
<1> QED BY <1>1, <1>2, <1>3 DEF SpawnTool

LEMMA RemoveCalls ==
    ASSUME TypeInv, NEW c \in Callers, RemoveTool(c)
    PROVE  CallsOK'
<1> USE DEF TypeInv
<1>1. CASE RemoveStart(c)
  <2>1. PICK m \in members : call' = [call EXCEPT ![c] =
             [IdleCall EXCEPT !.pc = "pane", !.room = m.room, !.todo = {m}]]
    BY <1>1 DEF RemoveStart
  <2>2. CallOK([IdleCall EXCEPT !.pc = "pane", !.room = m.room, !.todo = {m}])
    <3>1. m \in Members /\ m.room \in Rooms
      BY DEF TypeOK, Members
    <3> QED BY <3>1, IdleCallOK DEF CallOK, CallRecords, IdleCall, Pcs, RemovePcs, SpawnPcs, AddPcs, OwnPcs, RekeyPcs
  <2> QED BY <2>1, <2>2, CallsSet
<1>2. CASE RemoveKill(c)
  <2>1. CallOK([call[c] EXCEPT !.pc = "drop"])
    BY <1>2 DEF RemoveKill, CallsOK, CallOK, CallRecords, Pcs, RemovePcs, SpawnPcs, AddPcs, OwnPcs, RekeyPcs
  <2>2. call' = [call EXCEPT ![c] = [call[c] EXCEPT !.pc = "drop"]]
    BY <1>2 DEF RemoveKill, Goto
  <2> QED BY <2>1, <2>2, CallsSet
<1>3. CASE RemoveDelete(c)
  BY <1>3, IdleCallOK, CallsSet DEF RemoveDelete
<1> QED BY <1>1, <1>2, <1>3 DEF RemoveTool

LEMMA SetField ==
    ASSUME NEW k, CallOK(k)
    PROVE  /\ \A S \in SUBSET Batches : CallOK([k EXCEPT !.staged = S])
           /\ \A S \in SUBSET Rooms   : CallOK([k EXCEPT !.doomed = S])
           /\ \A S \in SUBSET Joins   : CallOK([k EXCEPT !.joined = S])
           /\ \A S \in SUBSET Panes   : CallOK([k EXCEPT !.new = S])
BY DEF CallOK, CallRecords

\* What an add reads of its members are moves.
LEMMA LookMoves ==
    ASSUME TypeInv, NEW c \in Callers,
           NEW here, here = {m \in call[c].todo : Live(m.pane)},
           NEW row \in [here -> {r.id : r \in agents} \cup {NoId}]
    PROVE  {[member |-> m, target |-> addr[m.pane], old |-> OldId(m),
             new |-> Canonical(m.repo, m.role, addr[m.pane]),
             row |-> row[m], hit |-> row[m] # NoId] : m \in here} \in SUBSET Moves
<1> SUFFICES ASSUME NEW m \in here
             PROVE  [member |-> m, target |-> addr[m.pane], old |-> OldId(m),
                     new |-> Canonical(m.repo, m.role, addr[m.pane]),
                     row |-> row[m], hit |-> row[m] # NoId] \in Moves
  OBVIOUS
<1>1. m \in Members /\ Live(m.pane) /\ m.pane \in Panes /\ m.repo \in Repos /\ m.role \in Roles
  BY DEF TypeInv, CallsOK, CallRecords, Members
<1>2. addr[m.pane] \in Addrs
  BY <1>1 DEF TypeInv, TypeOK, MaybeAddr, Live
<1>3. OldId(m) \in Ids /\ Canonical(m.repo, m.role, addr[m.pane]) \in Ids
  BY <1>1, <1>2, OldIsId, CanonicalIsId
<1>4. row[m] \in MaybeId
  BY RowIds DEF TypeInv, TypeOK, MaybeId
<1> QED BY <1>1, <1>2, <1>3, <1>4 DEF Moves

LEMMA AddCalls ==
    ASSUME TypeInv, NEW c \in Callers, AddTool(c)
    PROVE  CallsOK'
<1> USE DEF TypeInv
<1>0. CallOK(call[c])
  BY DEF CallsOK
<1>1. CASE AddStart(c)
  <2>1. PICK r \in Rooms, repo \in Repos, role \in Roles : call' = [call EXCEPT ![c] =
                [IdleCall EXCEPT !.pc = "split", !.room = r, !.repo = repo, !.role = role]]
    BY <1>1 DEF AddStart
  <2> DEFINE k == [IdleCall EXCEPT !.room = r, !.repo = repo, !.role = role]
  <2>2. k \in CallRecords /\ k.room \in Rooms /\ k.repo \in Repos /\ k.role \in Roles /\ k.pc = "idle"
    BY IdleCallOK DEF CallOK, CallRecords, IdleCall
  <2>3. CallOK(k)
    <3> HIDE DEF k
    <3> QED BY <2>2, PcSets DEF CallOK
  <2>4. CallOK([k EXCEPT !.pc = "split"])
    <3> HIDE DEF k
    <3> QED BY <2>2, <2>3, PcSets, SetPc
  <2> QED BY <2>1, <2>4, CallsSet
<1>2. CASE AddSplit(c)
  <2>1. CASE call' = [call EXCEPT ![c] = IdleCall]
    BY <2>1, IdleCallOK, CallsSet
  <2>2. CASE /\ call' = [call EXCEPT ![c].pc = "look", ![c].new = {born + 1},
                                  ![c].todo = MembersOf(call[c].room)]
             /\ born < MaxPane
    <3>1. MembersOf(call[c].room) \in SUBSET Members
      BY DEF MembersOf, TypeOK
    <3>2. PICK S \in SUBSET Members : S = MembersOf(call[c].room)
      BY <3>1
    <3>3. {born + 1} \in SUBSET Panes
      BY <2>2, WarroomAssumption DEF TypeOK, Panes
    <3> DEFINE k1 == [call[c] EXCEPT !.pc = "look"]
               k2 == [k1 EXCEPT !.new = {born + 1}]
    <3>4. CallOK(k1)
      BY <1>0, <1>2, PcSets, SetPc DEF AddSplit, CallOK
    <3>5. CallOK(k2)
      BY <3>3, <3>4, SetField
    <3>6. CallOK([k2 EXCEPT !.todo = S])
      BY <3>5, SetTodo
    <3>7. call' = [call EXCEPT ![c] = [k2 EXCEPT !.todo = S]]
      BY <2>2, <3>2
    <3> QED BY <3>6, <3>7, CallsSet
  <2> QED BY <1>2, <2>1, <2>2 DEF AddSplit
<1>3. CASE AddLook(c)
  <2>1. PICK here : here = {m \in call[c].todo : Live(m.pane)}
    OBVIOUS
  <2>2. PICK row \in [here -> {r.id : r \in agents} \cup {NoId}] :
          call' = [call EXCEPT ![c].pc = "rekey", ![c].todo = {},
                ![c].moves = {[member |-> m, target |-> addr[m.pane], old |-> OldId(m),
                               new |-> Canonical(m.repo, m.role, addr[m.pane]),
                               row |-> row[m], hit |-> row[m] # NoId] : m \in here}]
    BY <1>3, <2>1 DEF AddLook
  <2> DEFINE N == {[member |-> m, target |-> addr[m.pane], old |-> OldId(m),
                     new |-> Canonical(m.repo, m.role, addr[m.pane]),
                     row |-> row[m], hit |-> row[m] # NoId] : m \in here}
  <2>7. N \in SUBSET Moves
    BY <2>1, LookMoves
  <2>3. PICK M \in SUBSET Moves : call' = [call EXCEPT ![c].pc = "rekey", ![c].todo = {}, ![c].moves = M]
    <3>1. call' = [call EXCEPT ![c].pc = "rekey", ![c].todo = {}, ![c].moves = N]
      BY <2>2
    <3> HIDE DEF N
    <3> QED BY <2>7, <3>1
  <2> DEFINE k1 == [call[c] EXCEPT !.pc = "rekey"]
             k2 == [k1 EXCEPT !.todo = {}]
  <2>4. CallOK(k1)
    BY <1>0, <1>3, PcSets, SetPc DEF AddLook, CallOK
  <2>5. CallOK(k2)
    BY <2>4, SetTodo
  <2>6. CallOK([k2 EXCEPT !.moves = M])
    BY <2>5, MovesSet
  <2> QED BY <2>3, <2>6, CallsSet
<1>4. ASSUME NEW pc \in AddPcs, call[c].pc \in AddPcs PROVE CallOK([call[c] EXCEPT !.pc = pc])
  BY <1>0, <1>4, PcSets, SetPc DEF CallOK
<1>5. CASE AddRekey(c)
  <2>1. \/ call' = [call EXCEPT ![c] = IdleCall]
        \/ call[c].pc = "rekey" /\ call' = [call EXCEPT ![c] = [call[c] EXCEPT !.pc = "pids"]]
    BY <1>5 DEF AddRekey, Goto
  <2> QED BY <1>4, <2>1, PcSets, IdleCallOK, CallsSet
<1>6. CASE AddPids(c)
  <2>1. call[c].pc = "pids" /\ call' = [call EXCEPT ![c] = [call[c] EXCEPT !.pc = "stage"]]
    BY <1>6 DEF AddPids, Goto
  <2> QED BY <1>4, <2>1, PcSets, CallsSet
<1>7. CASE AddStage(c)
  <2> DEFINE B == {[to |-> m.new, mail |-> mail[m.old]] : m \in Renames(call[c].moves)}
  <2>1. B \in SUBSET Batches
    BY DEF Batches, Renames, Moves, CallsOK, CallRecords, TypeOK
  <2>2. call[c].pc = "stage" /\ call' = [call EXCEPT ![c].pc = "merge", ![c].staged = B]
    BY <1>7 DEF AddStage
  <2> DEFINE k == [call[c] EXCEPT !.pc = "merge"]
  <2> HIDE DEF B
  <2>3. CallOK(k)
    BY <1>4, <2>2, PcSets
  <2>4. CallOK([k EXCEPT !.staged = B])
    BY <2>1, <2>3, SetField
  <2> QED BY <2>2, <2>4, CallsSet
<1>8. CASE AddMerge(c)
  <2>1. call[c].pc = "merge" /\ call' = [call EXCEPT ![c].pc = "launch", ![c].staged = {}]
    BY <1>8 DEF AddMerge
  <2> DEFINE k == [call[c] EXCEPT !.pc = "launch"]
  <2>2. CallOK(k)
    BY <1>4, <2>1, PcSets
  <2>3. CallOK([k EXCEPT !.staged = {}])
    BY <2>2, SetField
  <2> QED BY <2>1, <2>3, CallsSet
<1>9. CASE AddLaunch(c)
  <2>1. PICK p \in call[c].new :
          \/ /\ Live(p)
             /\ call' = [call EXCEPT ![c].pc = "record", ![c].todo =
                   {[pane |-> p, room |-> call[c].room, repo |-> call[c].repo,
                     role |-> call[c].role, target |-> addr[p], inst |-> NoId, active |-> FALSE]}]
          \/ call' = [call EXCEPT ![c] = [call[c] EXCEPT !.pc = "commit"]]
    BY <1>9 DEF AddLaunch, Goto
  <2>2. call[c].pc = "launch"
    BY <1>9 DEF AddLaunch
  <2>3. p \in Panes /\ call[c].room \in Rooms /\ call[c].repo \in Repos /\ call[c].role \in Roles
    BY <1>0, <2>2, PcSets DEF CallOK, CallRecords
  <2>4. ASSUME Live(p)
        PROVE  {[pane |-> p, room |-> call[c].room, repo |-> call[c].repo,
                 role |-> call[c].role, target |-> addr[p], inst |-> NoId, active |-> FALSE]}
               \in SUBSET Members
    <3>1. addr[p] \in Addrs
      BY <2>3, <2>4 DEF TypeOK, MaybeAddr, Live
    <3> QED BY <2>3, <3>1 DEF Members, MaybeId
  <2>5. CASE call' = [call EXCEPT ![c] = [call[c] EXCEPT !.pc = "commit"]]
    BY <1>4, <2>2, <2>5, PcSets, CallsSet
  <2>6. CASE \E S \in SUBSET Members : call' = [call EXCEPT ![c].pc = "record", ![c].todo = S]
    <3>1. PICK S \in SUBSET Members : call' = [call EXCEPT ![c].pc = "record", ![c].todo = S]
      BY <2>6
    <3> DEFINE k == [call[c] EXCEPT !.pc = "record"]
    <3>2. CallOK(k)
      BY <1>4, <2>2, PcSets
    <3>3. CallOK([k EXCEPT !.todo = S])
      BY <3>2, SetTodo
    <3> QED BY <3>1, <3>3, CallsSet
  <2> QED BY <2>1, <2>4, <2>5, <2>6
<1>10. CASE AddCommit(c)
  <2>1. \E U \in {call, Renamed(call[c].moves)} : call' = [U EXCEPT ![c] = IdleCall]
    BY <1>10 DEF AddCommit
  <2>2. PICK U \in {call, Renamed(call[c].moves)} : call' = [U EXCEPT ![c] = IdleCall]
    BY <2>1
  <2>3. call[c].moves \in SUBSET Moves
    BY DEF CallsOK, CallRecords
  <2>4. U \in [Callers -> CallRecords] /\ \A d \in Callers : CallOK(U[d])
    BY <2>2, <2>3, RenamedOK DEF CallsOK
  <2> QED BY <2>2, <2>4, IdleCallOK, CallsSetIn
<1> QED BY <1>1, <1>2, <1>3, <1>5, <1>6, <1>7, <1>8, <1>9, <1>10 DEF AddTool

LEMMA StatusCalls ==
    ASSUME TypeInv, NEW c \in Callers, StatusTool(c)
    PROVE  CallsOK'
<1> USE DEF TypeInv
<1>0. CallOK(call[c])
  BY DEF CallsOK
<1>1. ASSUME NEW pc \in {"idle", "reap", "mark", "backfill", "fill"},
             call[c].pc \in {"idle", "reap", "mark", "backfill", "fill"}
      PROVE  CallOK([call[c] EXCEPT !.pc = pc])
  BY <1>0, <1>1, PcSets, SetPc
<1>2. CASE StatusStart(c)
  <2>1. call[c].pc = "idle" /\ call' = [call EXCEPT ![c] = [call[c] EXCEPT !.pc = "reap"]]
    BY <1>2 DEF StatusStart, Goto
  <2> QED BY <1>1, <2>1, CallsSet
<1>3. CASE ReapProbe(c)
  <2>1. PICK dead \in SUBSET Rooms : call' = [call EXCEPT
            ![c].pc = IF dead = {} THEN "backfill" ELSE "mark", ![c].doomed = dead]
    BY <1>3 DEF ReapProbe
  <2>2. PICK pc \in {"backfill", "mark"} : pc = IF dead = {} THEN "backfill" ELSE "mark"
    OBVIOUS
  <2> DEFINE k == [call[c] EXCEPT !.pc = pc]
  <2>3. CallOK(k)
    BY <1>1, <1>3 DEF ReapProbe
  <2>4. CallOK([k EXCEPT !.doomed = dead])
    BY <2>3, SetField
  <2> QED BY <2>1, <2>2, <2>4, CallsSet
<1>4. CASE ReapMark(c)
  <2>1. call[c].pc = "mark" /\ call' = [call EXCEPT ![c].pc = "backfill", ![c].doomed = {}]
    BY <1>4 DEF ReapMark
  <2> DEFINE k == [call[c] EXCEPT !.pc = "backfill"]
  <2>2. CallOK(k)
    BY <1>1, <2>1
  <2>3. CallOK([k EXCEPT !.doomed = {}])
    BY <2>2, SetField
  <2> QED BY <2>1, <2>3, CallsSet
<1>5. CASE BackfillSelect(c)
  <2> DEFINE J == {[pane |-> m.pane, row |-> NoId] : m \in {n \in members : RowsOf(n.pane) = {}}}
                   \cup {[pane |-> r.pane, row |-> r.id] : r \in
                            {x \in agents : \E m \in members : m.pane = x.pane}}
  <2>1. J \in SUBSET Joins
    BY DEF Joins, TypeOK, Members, Rows, MaybeId
  <2>2. call[c].pc = "backfill" /\ call' = [call EXCEPT ![c].pc = "fill", ![c].joined = J]
    BY <1>5 DEF BackfillSelect
  <2> HIDE DEF J
  <2> DEFINE k == [call[c] EXCEPT !.pc = "fill"]
  <2>3. CallOK(k)
    BY <1>1, <2>2
  <2>4. CallOK([k EXCEPT !.joined = J])
    BY <2>1, <2>3, SetField
  <2> QED BY <2>2, <2>4, CallsSet
<1>6. CASE BackfillWrite(c)
  BY <1>6, IdleCallOK, CallsSet DEF BackfillWrite
<1> QED BY <1>2, <1>3, <1>4, <1>5, <1>6 DEF StatusTool

Outside == Environment \/ (\E p \in Panes : ClosePane(p) \/ Exit(p) \/ Hook(p)) \/ vars' = vars

\* What happens outside the calls can only make them lose rows.
LEMMA OutsideCalls ==
    ASSUME Outside
    PROVE  call' = call \/ (lock = NoCaller /\ \E ids : call' = Unlink(ids))
<1>1. CASE \E p \in Panes : Exit(p)
  BY <1>1 DEF Exit
<1>2. CASE \E p \in Panes : HookCommit(p)
  <2>1. PICK p \in Panes : HookCommit(p)
    BY <1>2
  <2> DEFINE taken == \E r \in agents : r.id = reg[p].id /\ r.pane # p /\ Live(r.pane)
             i     == IF taken THEN [reg[p].id EXCEPT !.sfx = p] ELSE reg[p].id
             losers == {r.pane : r \in {s \in agents : s.id = i}} \cup {p}
             gone  == {r \in agents : r.pane \in losers}
             ids   == {r.id : r \in gone}
  <2>2. call' = Unlink(ids) /\ lock = NoCaller
    BY <2>1 DEF HookCommit
  <2> HIDE DEF ids
  <2> QED BY <2>2
<1>3. CASE Prune
  <2> DEFINE ids == {r.id : r \in agents \ {r \in agents : Live(r.pane)}}
  <2>1. call' = Unlink(ids) /\ lock = NoCaller
    BY <1>3 DEF Prune
  <2> HIDE DEF ids
  <2> QED BY <2>1
<1>4. CASE ~Prune /\ \A p \in Panes : ~Exit(p) /\ ~HookCommit(p)
  BY <1>4
  DEF Outside, Environment, NewPane, ReIndex, Send, ClosePane, Hook, HookRead, HookKilled, vars
<1> QED BY <1>1, <1>2, <1>3, <1>4

LEMMA CallsStep == ASSUME TypeInv, [Next]_vars PROVE CallsOK'
<1> USE DEF TypeInv
<1>1. CASE \E c \in Callers : \/ KillTool(c) \/ SpawnTool(c) \/ AddTool(c)
                              \/ RemoveTool(c) \/ StatusTool(c)
  BY <1>1, KillCalls, SpawnCalls, AddCalls, RemoveCalls, StatusCalls
<1>2. CASE \E c \in Callers : Crash(c)
  BY <1>2, IdleCallOK, CallsSet DEF Crash
<1>3. CASE Outside
  BY <1>3, OutsideCalls, UnlinkOK DEF CallsOK
<1> QED BY <1>1, <1>2, <1>3 DEF Next, Outside

\* The write lock belongs to a call that is re-keying.
LockHeld == lock # NoCaller => call[lock].pc \in RekeyPcs

LEMMA UnlinkPc == ASSUME CallsOK, NEW ids, NEW c \in Callers PROVE Unlink(ids)[c].pc = call[c].pc
<1>1. PICK M \in SUBSET Moves : Unlink(ids)[c] = [call[c] EXCEPT !.moves = M]
  BY UnlinkFields
<1> QED BY <1>1 DEF CallsOK, CallRecords

LEMMA LockStep ==
    ASSUME TypeInv, [Next]_vars
    PROVE  lock' \in Callers \cup {NoCaller} /\ LockHeld'
<1> USE DEF TypeInv, RekeyPcs
<1>0. lock \in Callers \cup {NoCaller} /\ LockHeld
  BY DEF TypeOK, LockHeld
<1>1. ASSUME NEW c \in Callers, AddRekey(c) PROVE lock' \in Callers \cup {NoCaller} /\ LockHeld'
  <2>1. lock' = NoCaller \/ (lock' = c /\ call' = [call EXCEPT ![c].pc = "pids"])
    BY <1>1 DEF AddRekey, Goto
  <2> QED BY <2>1 DEF LockHeld, CallsOK, CallRecords
<1>2. ASSUME NEW c \in Callers, AddCommit(c) PROVE lock' \in Callers \cup {NoCaller} /\ LockHeld'
  BY <1>2 DEF LockHeld, AddCommit
<1>3. ASSUME NEW c \in Callers, Crash(c) PROVE lock' \in Callers \cup {NoCaller} /\ LockHeld'
  BY <1>0, <1>3 DEF LockHeld, Crash, CallsOK
<1>4. CASE Outside
  <2>1. lock' = lock
    <3>1. CASE Environment \/ vars' = vars
      BY <3>1 DEF Environment, NewPane, ReIndex, Prune, Send, vars, db
    <3>2. ASSUME NEW p \in Panes, ClosePane(p) \/ Exit(p) PROVE lock' = lock
      BY <3>2 DEF ClosePane, Exit, db
    <3>3. ASSUME NEW p \in Panes, Hook(p) PROVE lock' = lock
      BY <3>3 DEF Hook, HookRead, HookCommit, HookKilled, db
    <3> QED BY <1>4, <3>1, <3>2, <3>3 DEF Outside
  <2> QED BY <1>0, <1>4, <2>1, OutsideCalls, UnlinkPc DEF LockHeld
<1>5. ASSUME NEW c \in Callers, KillTool(c) \/ SpawnTool(c) \/ RemoveTool(c) \/ StatusTool(c)
      PROVE  lock' \in Callers \cup {NoCaller} /\ LockHeld'
  <2>1. call[c].pc \notin RekeyPcs /\ lock' = lock
    BY <1>5
    DEF KillTool, KillStart, KillWindow, KillSelect, KillDelete, SpawnTool, SpawnStart, SpawnPane,
        SpawnRecord, RemoveTool, RemoveStart, RemoveKill, RemoveDelete, StatusTool, StatusStart,
        ReapProbe, ReapMark, BackfillSelect, BackfillWrite, db
  <2>2. CASE KillDelete(c)
    BY <2>2 DEF KillDelete, LockHeld
  <2>3. CASE ~KillDelete(c)
    <3>1. \A d \in Callers \ {c} : call'[d] = call[d]
      BY <1>5, <2>3
      DEF KillTool, KillStart, KillWindow, KillSelect, SpawnTool, SpawnStart, SpawnPane,
          SpawnRecord, RemoveTool, RemoveStart, RemoveKill, RemoveDelete, StatusTool, StatusStart,
          ReapProbe, ReapMark, BackfillSelect, BackfillWrite, Goto, CallsOK
    <3> QED BY <1>0, <2>1, <3>1 DEF LockHeld
  <2> QED BY <1>0, <2>1, <2>2, <2>3 DEF LockHeld
<1>6. ASSUME NEW c \in Callers, \/ AddStart(c) \/ AddSplit(c) \/ AddLook(c) \/ AddPids(c)
                                \/ AddStage(c) \/ AddMerge(c) \/ AddLaunch(c)
      PROVE  lock' \in Callers \cup {NoCaller} /\ LockHeld'
  <2>1. lock' = lock
    BY <1>6 DEF AddStart, AddSplit, AddLook, AddPids, AddStage, AddMerge, AddLaunch, db
  <2>2. \A d \in Callers \ {c} : call'[d] = call[d]
    BY <1>6
    DEF AddStart, AddSplit, AddLook, AddPids, AddStage, AddMerge, AddLaunch, Goto, CallsOK
  <2>3. ASSUME call[c].pc \in RekeyPcs PROVE call'[c].pc \in RekeyPcs
    <3>1. call[c] \in CallRecords /\ call \in [Callers -> CallRecords]
      BY DEF CallsOK
    <3>2. ~AddStart(c) /\ ~AddSplit(c) /\ ~AddLook(c)
      BY <2>3 DEF AddStart, AddSplit, AddLook
    <3>3. CASE AddPids(c)
      BY <3>1, <3>3 DEF AddPids, Goto, CallRecords
    <3>4. CASE AddStage(c)
      <4> DEFINE B == {[to |-> m.new, mail |-> mail[m.old]] : m \in Renames(call[c].moves)}
      <4>1. call' = [call EXCEPT ![c].pc = "merge", ![c].staged = B]
        BY <3>4 DEF AddStage
      <4> HIDE DEF B
      <4> QED BY <3>1, <4>1 DEF CallRecords
    <3>5. CASE AddMerge(c)
      BY <3>1, <3>5 DEF AddMerge, CallRecords
    <3>6. CASE AddLaunch(c)
      <4>1. PICK S : \/ call' = [call EXCEPT ![c].pc = "record", ![c].todo = S]
                     \/ call' = [call EXCEPT ![c].pc = "commit"]
        BY <3>6 DEF AddLaunch, Goto
      <4> QED BY <3>1, <4>1 DEF CallRecords
    <3> QED BY <1>6, <3>2, <3>3, <3>4, <3>5, <3>6
  <2> QED BY <1>0, <2>1, <2>2, <2>3 DEF LockHeld
<1> QED BY <1>1, <1>2, <1>3, <1>4, <1>5, <1>6 DEF Next, AddTool, Outside

\* tmux and the runtimes.
WorldOK ==
    /\ addr \in [Panes -> MaybeAddr]
    /\ wnd \in [Panes -> Rooms \cup {NoRoom}]
    /\ title \in [Panes -> MaybeId]
    /\ born \in 0 .. MaxPane /\ moves \in 0 .. MaxMoves
    /\ sent \in 0 .. MaxMail /\ calls \in 0 .. MaxCalls
    /\ up \subseteq Panes

\* A tool's step takes care of the world's types, or leaves it alone.
World == <<addr, wnd, title, born, moves, sent, calls, up>>

LEMMA WorldKept == ASSUME WorldOK, World' = World PROVE WorldOK'
BY DEF WorldOK, World

LEMMA OutsideWorld == ASSUME TypeInv, Outside PROVE WorldOK'
<1> USE DEF TypeInv
<1>0. WorldOK
  BY DEF TypeOK, WorldOK
<1>1. CASE NewPane
  <2>1. born' = born + 1 /\ born + 1 \in Panes /\ up' = up \cup {born + 1}
    BY <1>0, <1>1, WarroomAssumption DEF NewPane, WorldOK, Panes
  <2>2. addr' \in [Panes -> MaybeAddr]
    BY <1>0, <1>1 DEF NewPane, WorldOK, Free, MaybeAddr
  <2>3. UNCHANGED <<wnd, title, moves, sent, calls>>
    BY <1>1 DEF NewPane, file
  <2> QED BY <1>0, <2>1, <2>2, <2>3, WarroomAssumption DEF WorldOK, Panes
<1>2. CASE ReIndex
  <2>1. addr' \in [Panes -> MaybeAddr]
    BY <1>2, ReflowedOK DEF ReIndex, TypeOK
  <2>2. moves' = moves + 1 /\ moves < MaxMoves /\ UNCHANGED <<wnd, title, born, sent, calls, up>>
    BY <1>2 DEF ReIndex, file
  <2> QED BY <1>0, <2>1, <2>2, WarroomAssumption DEF WorldOK
<1>3. CASE Send
  <2>1. sent' = sent + 1 /\ sent < MaxMail /\ UNCHANGED <<addr, wnd, title, born, moves, up, calls>>
    BY <1>3 DEF Send, tmux
  <2> QED BY <1>0, <2>1, WarroomAssumption DEF WorldOK
<1>4. ASSUME NEW p \in Panes, ClosePane(p) PROVE WorldOK'
  BY <1>0, <1>4 DEF ClosePane, file, WorldOK, MaybeAddr
<1>5. ASSUME NEW p \in Panes, Exit(p) PROVE WorldOK'
  BY <1>0, <1>5 DEF Exit, WorldOK
<1>6. CASE Prune \/ vars' = vars
  BY <1>0, <1>6, WorldKept DEF Prune, vars, tmux, file, World
<1>7. ASSUME NEW p \in Panes, Hook(p) PROVE WorldOK'
  BY <1>0, <1>7, WorldKept DEF Hook, HookRead, HookCommit, HookKilled, tmux, file, World
<1> QED BY <1>1, <1>2, <1>3, <1>4, <1>5, <1>6, <1>7 DEF Outside, Environment

LEMMA ToolWorld ==
    ASSUME TypeInv, NEW c \in Callers,
           \/ KillTool(c) \/ SpawnTool(c) \/ AddTool(c) \/ RemoveTool(c) \/ StatusTool(c) \/ Crash(c)
    PROVE  WorldOK'
<1> USE DEF TypeInv
<1>0. WorldOK
  BY DEF TypeOK, WorldOK
<1>1. CASE KillStart(c) \/ SpawnStart(c) \/ AddStart(c) \/ RemoveStart(c)
  <2>1. calls' = calls + 1 /\ calls < MaxCalls
    BY <1>1 DEF KillStart, SpawnStart, AddStart, RemoveStart
  <2>2. UNCHANGED <<addr, wnd, title, born, moves, sent, up>>
    BY <1>1 DEF KillStart, SpawnStart, AddStart, RemoveStart, tmux, file
  <2> QED BY <1>0, <2>1, <2>2, WarroomAssumption DEF WorldOK
<1>2. CASE KillWindow(c)
  BY <1>0, <1>2 DEF KillWindow, file, WorldOK, MaybeAddr
<1>3. CASE SpawnPane(c)
  <2>1. CASE UNCHANGED <<addr, wnd, born, title, up>>
    BY <1>0, <1>3, <2>1, WorldKept DEF SpawnPane, file, World
  <2>2. CASE ~UNCHANGED <<addr, wnd, born, title, up>>
    <3>1. PICK r \in IF call[c].pc = "first" THEN {call[c].room}
                     ELSE {wnd[q] : q \in Named(call[c].room)} : Split(born + 1, r)
      BY <1>3, <2>2 DEF SpawnPane
    <3>2. born < MaxPane /\ UNCHANGED <<moves, sent, calls>>
      BY <1>3, <2>2 DEF SpawnPane, file
    <3>3. r \in Rooms \cup {NoRoom}
      BY <1>0, <3>1 DEF Named, Window, WorldOK, CallsOK, CallRecords
    <3>4. /\ addr' \in [Panes -> MaybeAddr] /\ born + 1 \in Panes /\ addr'[born + 1] \in Addrs
          /\ born' = born + 1 /\ wnd' = [wnd EXCEPT ![born + 1] = r]
      BY <3>1, <3>2, SplitOK
    <3>5. title' \in [Panes -> MaybeId] /\ up' \subseteq Panes
      <4>1. CASE UNCHANGED <<title, up>>
        BY <1>0, <4>1 DEF WorldOK
      <4>2. CASE \E role \in Roles, repo \in call[c].dirs :
                   /\ title' = [title EXCEPT ![born + 1] = Canonical(repo, role, addr'[born + 1])]
                   /\ up' = up \cup {born + 1}
        <5>1. call[c].dirs \subseteq Repos
          BY DEF CallsOK, CallRecords
        <5> QED BY <1>0, <3>4, <4>2, <5>1, CanonicalIsId DEF WorldOK, MaybeId
      <4> QED BY <1>3, <2>2, <4>1, <4>2 DEF SpawnPane
    <3>6. born' \in 0 .. MaxPane
      BY <1>0, <3>2, <3>4, WarroomAssumption DEF WorldOK
    <3> QED BY <1>0, <3>2, <3>3, <3>4, <3>5, <3>6 DEF WorldOK
  <2> QED BY <2>1, <2>2
<1>4. CASE AddSplit(c)
  <2>0. UNCHANGED <<title, moves, sent, up, calls>>
    BY <1>4 DEF AddSplit, file
  <2>1. CASE UNCHANGED <<addr, wnd, born>>
    BY <1>0, <2>0, <2>1, WorldKept DEF World
  <2>2. CASE ~UNCHANGED <<addr, wnd, born>>
    <3>1. PICK q \in Named(call[c].room) : Split(born + 1, wnd[q])
      BY <1>4, <2>2 DEF AddSplit
    <3>2. born < MaxPane /\ q \in Panes
      BY <1>4, <2>2 DEF AddSplit, Named, Window
    <3>3. /\ addr' \in [Panes -> MaybeAddr] /\ born + 1 \in Panes
          /\ born' = born + 1 /\ wnd' = [wnd EXCEPT ![born + 1] = wnd[q]]
      BY <3>1, <3>2, SplitOK
    <3>4. born' \in 0 .. MaxPane
      BY <1>0, <3>2, <3>3, WarroomAssumption DEF WorldOK
    <3> QED BY <1>0, <2>0, <3>2, <3>3, <3>4 DEF WorldOK
  <2> QED BY <2>1, <2>2
<1>5. CASE AddRekey(c)
  <2>1. PICK mvs : mvs = call[c].moves
    OBVIOUS
  <2>2. PICK stamped \in SUBSET mvs : title' = [p \in Panes |->
                 IF \E m \in stamped : m.member.pane = p
                 THEN (CHOOSE m \in stamped : m.member.pane = p).new ELSE title[p]]
    BY <1>5, <2>1 DEF AddRekey
  <2>3. stamped \subseteq Moves
    BY <2>1 DEF CallsOK, CallRecords
  <2>4. ASSUME NEW p \in Panes, \E m \in stamped : m.member.pane = p
        PROVE  (CHOOSE m \in stamped : m.member.pane = p).new \in MaybeId
    <3>1. (CHOOSE m \in stamped : m.member.pane = p) \in Moves
      BY <2>3, <2>4
    <3> QED BY <3>1 DEF Moves, MaybeId
  <2>5. title' \in [Panes -> MaybeId]
    BY <1>0, <2>2, <2>4 DEF WorldOK
  <2>6. UNCHANGED <<addr, wnd, born, moves, sent, up, calls>>
    BY <1>5 DEF AddRekey, file
  <2> QED BY <1>0, <2>5, <2>6 DEF WorldOK
<1>6. CASE AddLaunch(c)
  <2>0. UNCHANGED <<addr, wnd, born, moves, sent, calls>> /\ call[c].pc = "launch"
    BY <1>6 DEF AddLaunch, file
  <2>1. PICK p \in call[c].new :
          \/ /\ Live(p)
             /\ title' = [title EXCEPT ![p] = Canonical(call[c].repo, call[c].role, addr[p])]
             /\ up' = up \cup {p}
          \/ UNCHANGED <<title, up>>
    BY <1>6 DEF AddLaunch
  <2>2. p \in Panes /\ call[c].repo \in Repos /\ call[c].role \in Roles
    BY <2>0, PcSets DEF CallsOK, CallOK, CallRecords
  <2>3. Live(p) => addr[p] \in Addrs
    BY <1>0, <2>2 DEF WorldOK, MaybeAddr, Live
  <2> QED BY <1>0, <2>0, <2>1, <2>2, <2>3, CanonicalIsId DEF WorldOK, MaybeId
<1>7. CASE RemoveKill(c)
  <2>0. UNCHANGED <<wnd, title, born, moves, sent, up, calls>>
    BY <1>7 DEF RemoveKill, file
  <2>1. addr' \in [Panes -> MaybeAddr]
    <3>1. CASE addr' = addr
      BY <1>0, <3>1 DEF WorldOK
    <3>2. CASE addr' # addr
      <4>1. PICK m \in call[c].todo :
               addr' \in {[new EXCEPT ![m.pane] = NoAddr] :
                           new \in Reflowed({p \in Panes : Live(p) /\ wnd[p] = wnd[m.pane]})}
        BY <1>7, <3>2 DEF RemoveKill
      <4>2. PICK new \in Reflowed({p \in Panes : Live(p) /\ wnd[p] = wnd[m.pane]}) :
               addr' = [new EXCEPT ![m.pane] = NoAddr]
        BY <4>1
      <4>3. new \in [Panes -> MaybeAddr]
        BY DEF Reflowed
      <4> QED BY <4>2, <4>3 DEF MaybeAddr
    <3> QED BY <3>1, <3>2
  <2> QED BY <1>0, <2>0, <2>1 DEF WorldOK
<1>8. CASE \/ KillSelect(c) \/ KillDelete(c) \/ SpawnRecord(c) \/ AddLook(c) \/ AddPids(c)
           \/ AddStage(c) \/ AddMerge(c) \/ AddCommit(c)
  <2>1. World' = World
    BY <1>8
    DEF KillSelect, KillDelete, SpawnRecord, AddLook, AddPids, AddStage, AddMerge, AddCommit, tmux,
        file, World
  <2> QED BY <1>0, <2>1, WorldKept
<1>9. CASE RemoveDelete(c) \/ StatusTool(c) \/ Crash(c)
  <2>1. World' = World
    BY <1>9
    DEF RemoveDelete, StatusTool, StatusStart, ReapProbe, ReapMark, BackfillSelect, BackfillWrite,
        Crash, tmux, file, World
  <2> QED BY <1>0, <2>1, WorldKept
<1> QED
  BY <1>1, <1>2, <1>3, <1>4, <1>5, <1>6, <1>7, <1>8, <1>9
  DEF KillTool, SpawnTool, AddTool, RemoveTool

-----------------------------------------------------------------------------
(***************************************************************************)
(* What a step leaves to the calls of others                               *)
(***************************************************************************)
MovesKept(M, N) ==
    \E g \in [M -> Moves] : N = {g[m] : m \in M} /\ \A m \in M : g[m].member = m.member

Same(k, l) ==
    /\ l.pc = k.pc /\ l.room = k.room /\ l.new = k.new /\ l.todo = k.todo
    /\ l.staged = k.staged /\ l.doomed = k.doomed
    /\ MovesKept(k.moves, l.moves)

LEMMA SameAsIs == ASSUME CallsOK, NEW c \in Callers PROVE Same(call[c], call[c])
<1> DEFINE g == [m \in call[c].moves |-> m]
<1>1. call[c].moves \subseteq Moves
  BY DEF CallsOK, CallRecords
<1>2. g \in [call[c].moves -> Moves] /\ call[c].moves = {g[m] : m \in call[c].moves}
  BY <1>1
<1>3. MovesKept(call[c].moves, call[c].moves)
  BY <1>2 DEF MovesKept
<1> QED BY <1>3 DEF Same

LEMMA SameButMoves ==
    ASSUME CallsOK, NEW c \in Callers, NEW M, MovesKept(call[c].moves, M)
    PROVE  Same(call[c], [call[c] EXCEPT !.moves = M])
<1>1. [call[c] EXCEPT !.moves = M].moves = M
  BY DEF CallsOK, CallRecords
<1> QED BY <1>1 DEF Same, CallsOK, CallRecords

LEMMA UnlinkSame == ASSUME CallsOK, NEW ids, NEW c \in Callers PROVE Same(call[c], Unlink(ids)[c])
<1> DEFINE G(m) == IF m.row \in ids THEN [m EXCEPT !.row = NoId] ELSE m
           g == [m \in call[c].moves |-> G(m)]
           M == {G(m) : m \in call[c].moves}
<1>1. call[c].moves \subseteq Moves
  BY DEF CallsOK, CallRecords
<1>2. ASSUME NEW m \in Moves PROVE G(m) \in Moves /\ G(m).member = m.member
  BY <1>2, RowSet DEF Moves, MaybeId
<1>3. Unlink(ids)[c] = [call[c] EXCEPT !.moves = M]
  BY DEF Unlink
<1> HIDE DEF G
<1>4. M = {g[m] : m \in call[c].moves} /\ g \in [call[c].moves -> Moves]
  BY <1>1, <1>2
<1>5. \A m \in call[c].moves : g[m].member = m.member
  BY <1>1, <1>2
<1> HIDE DEF g, M
<1>6. MovesKept(call[c].moves, M)
  BY <1>4, <1>5 DEF MovesKept
<1> QED BY <1>3, <1>6, SameButMoves

LEMMA RenamedSame ==
    ASSUME CallsOK, NEW mvs \in SUBSET Moves, NEW c \in Callers
    PROVE  Same(call[c], Renamed(mvs)[c])
<1> DEFINE N(m) == (CHOOSE n \in Rekeys(mvs) : n.row = m.row).new
           G(m) == IF \E n \in Rekeys(mvs) : n.row = m.row THEN [m EXCEPT !.row = N(m)] ELSE m
           g == [m \in call[c].moves |-> G(m)]
           M == {G(m) : m \in call[c].moves}
<1>1. call[c].moves \subseteq Moves
  BY DEF CallsOK, CallRecords
<1>2. ASSUME NEW m \in Moves PROVE G(m) \in Moves /\ G(m).member = m.member
  <2>1. CASE \E n \in Rekeys(mvs) : n.row = m.row
    <3>1. (CHOOSE n \in Rekeys(mvs) : n.row = m.row) \in Moves
      BY <2>1, RekeysAre
    <3>2. N(m) \in MaybeId
      BY <3>1 DEF Moves, MaybeId
    <3> HIDE DEF N
    <3> QED BY <2>1, <3>2, RowSet DEF Moves
  <2> QED BY <2>1
<1>3. Renamed(mvs)[c] = [call[c] EXCEPT !.moves = M]
  BY DEF Renamed
<1> HIDE DEF G
<1>4. M = {g[m] : m \in call[c].moves} /\ g \in [call[c].moves -> Moves]
  BY <1>1, <1>2
<1>5. \A m \in call[c].moves : g[m].member = m.member
  BY <1>1, <1>2
<1> HIDE DEF g, M
<1>6. MovesKept(call[c].moves, M)
  BY <1>4, <1>5 DEF MovesKept
<1> QED BY <1>3, <1>6, SameButMoves

LEMMA ToolsMind ==
    ASSUME CallsOK, NEW d \in Callers, Acts(d), ~KillDelete(d), ~AddCommit(d)
    PROVE  \A c \in Callers \ {d} : call'[c] = call[c]
<1> USE DEF CallsOK
<1>1. CASE KillStart(d) \/ KillWindow(d) \/ KillSelect(d) \/ SpawnTool(d)
  BY <1>1 DEF KillStart, KillWindow, KillSelect, SpawnTool, SpawnStart, SpawnPane, SpawnRecord, Goto
<1>2. CASE \/ AddStart(d) \/ AddSplit(d) \/ AddLook(d) \/ AddRekey(d)
           \/ AddPids(d) \/ AddStage(d) \/ AddMerge(d) \/ AddLaunch(d)
  BY <1>2 DEF AddStart, AddSplit, AddLook, AddRekey, AddPids, AddStage, AddMerge, AddLaunch, Goto
<1>3. CASE RemoveTool(d) \/ StatusTool(d) \/ Crash(d)
  BY <1>3
  DEF RemoveTool, RemoveStart, RemoveKill, RemoveDelete, StatusTool, StatusStart, ReapProbe,
      ReapMark, BackfillSelect, BackfillWrite, Crash, Goto
<1> QED BY <1>1, <1>2, <1>3 DEF Acts, KillTool, AddTool

\* A call that does not take this step stays where it is.
LEMMA CallKept ==
    ASSUME CallsOK, [Next]_vars, NEW c \in Callers, ~Acts(c)
    PROVE  Same(call[c], call'[c])
<1>1. CASE Outside
  BY <1>1, OutsideCalls, SameAsIs, UnlinkSame
<1>2. ASSUME NEW d \in Callers, KillDelete(d) PROVE Same(call[c], call'[c])
  <2> DEFINE ids == {r.id : r \in UNION {ReapedWith(m) : m \in call[d].todo}}
  <2>1. c # d
    BY <1>2 DEF Acts, KillTool
  <2>2. call'[c] = Unlink(ids)[c]
    BY <1>2, <2>1 DEF KillDelete, Unlink
  <2> HIDE DEF ids
  <2> QED BY <2>2, UnlinkSame
<1>3. ASSUME NEW d \in Callers, AddCommit(d) PROVE Same(call[c], call'[c])
  <2>1. c # d
    BY <1>3 DEF Acts, AddTool
  <2>2. call'[c] \in {call[c], Renamed(call[d].moves)[c]}
    BY <1>3, <2>1 DEF AddCommit, Renamed, CallsOK
  <2>3. call[d].moves \in SUBSET Moves
    BY DEF CallsOK, CallRecords
  <2> QED BY <2>2, <2>3, SameAsIs, RenamedSame
<1>4. ASSUME NEW d \in Callers, Acts(d), ~KillDelete(d), ~AddCommit(d) PROVE Same(call[c], call'[c])
  BY <1>4, ToolsMind, SameAsIs
<1> QED BY <1>1, <1>2, <1>3, <1>4 DEF Next, Outside, Acts

\* Where a step takes the call that takes it.
LEMMA KillAfter ==
    ASSUME CallsOK, NEW c \in Callers
    PROVE  /\ KillStart(c) => /\ call'[c].pc = "window" /\ call'[c].todo = {} /\ call'[c].new = {}
                              /\ call'[c].moves = {}
           /\ KillWindow(c) => /\ call'[c].pc = "members" /\ call'[c].todo = call[c].todo
                               /\ call'[c].moves = call[c].moves
           /\ KillSelect(c) => /\ call'[c].pc = "delete" /\ call'[c].todo = MembersOf(call[c].room)
                               /\ call'[c].moves = call[c].moves
           /\ KillDelete(c) => /\ call'[c].pc \in {"idle", "first"} /\ call'[c].todo = {}
                               /\ MovesKept(call[c].moves, call'[c].moves) \/ call'[c].moves = {}
<1> USE DEF CallsOK
<1>1. call[c] \in CallRecords
  OBVIOUS
<1>2. KillStart(c) => /\ call'[c].pc = "window" /\ call'[c].todo = {} /\ call'[c].new = {}
                      /\ call'[c].moves = {}
  BY <1>1 DEF KillStart, CallRecords, IdleCall
<1>3. KillWindow(c) => /\ call'[c].pc = "members" /\ call'[c].todo = call[c].todo
                       /\ call'[c].moves = call[c].moves
  BY <1>1 DEF KillWindow, Goto, CallRecords
<1>4. KillSelect(c) => /\ call'[c].pc = "delete" /\ call'[c].todo = MembersOf(call[c].room)
                       /\ call'[c].moves = call[c].moves
  <2> DEFINE S == MembersOf(call[c].room)
  <2> HIDE DEF S
  <2>1. SUFFICES ASSUME call' = [call EXCEPT ![c].pc = "delete", ![c].todo = S]
                 PROVE  /\ call'[c].pc = "delete" /\ call'[c].todo = S
                        /\ call'[c].moves = call[c].moves
    BY DEF KillSelect, S
  <2> QED BY <1>1, <2>1 DEF CallRecords
<1>5. ASSUME KillDelete(c)
      PROVE  /\ call'[c].pc \in {"idle", "first"} /\ call'[c].todo = {}
             /\ MovesKept(call[c].moves, call'[c].moves) \/ call'[c].moves = {}
  <2> DEFINE ids == {r.id : r \in UNION {ReapedWith(m) : m \in call[c].todo}}
  <2>1. call' = [Unlink(ids) EXCEPT ![c] = IF call[c].then = "idle" THEN IdleCall
                        ELSE [@ EXCEPT !.pc = call[c].then, !.todo = {}]]
    BY <1>5 DEF KillDelete
  <2> HIDE DEF ids
  <2>2. Unlink(ids)[c] \in CallRecords /\ Unlink(ids) \in [Callers -> CallRecords]
    BY UnlinkOK
  <2>3. MovesKept(call[c].moves, Unlink(ids)[c].moves)
    BY UnlinkSame DEF Same
  <2>4. PICK U : U = Unlink(ids)
    OBVIOUS
  <2>5. call[c].then \in {"idle", "first"}
    BY <1>1 DEF CallRecords
  <2>6. CASE call[c].then = "idle"
    <3>1. call'[c] = IdleCall
      BY <2>1, <2>2, <2>6
    <3> QED BY <3>1 DEF IdleCall
  <2>7. CASE call[c].then = "first"
    <3>1. call'[c] = [U[c] EXCEPT !.pc = "first", !.todo = {}]
      BY <2>1, <2>2, <2>4, <2>7
    <3> QED BY <2>2, <2>3, <2>4, <3>1 DEF CallRecords
  <2> QED BY <2>5, <2>6, <2>7
<1> QED BY <1>2, <1>3, <1>4, <1>5

LEMMA SpawnAfter ==
    ASSUME CallsOK, NEW c \in Callers
    PROVE  /\ SpawnStart(c) => /\ call'[c].pc \in {"first", "window"} /\ call'[c].todo = {}
                               /\ call'[c].moves = {}
           /\ SpawnPane(c) => /\ call'[c].pc = "panes" /\ call'[c].room = call[c].room
                              /\ call'[c].moves = call[c].moves
                              /\ \/ call'[c].todo = call[c].todo
                                 \/ /\ born < MaxPane /\ born' = born + 1
                                    /\ \E m : /\ call'[c].todo = call[c].todo \cup {m}
                                              /\ m.pane = born + 1 /\ m.inst = NoId
           /\ SpawnRecord(c) => call'[c] = IdleCall
<1> USE DEF CallsOK
<1>1. call[c] \in CallRecords
  OBVIOUS
<1>2. SpawnStart(c) => /\ call'[c].pc \in {"first", "window"} /\ call'[c].todo = {}
                       /\ call'[c].moves = {}
  BY <1>1 DEF SpawnStart, CallRecords, IdleCall
<1>3. ASSUME SpawnPane(c)
      PROVE  /\ call'[c].pc = "panes" /\ call'[c].room = call[c].room
             /\ call'[c].moves = call[c].moves
             /\ \/ call'[c].todo = call[c].todo
                \/ /\ born < MaxPane /\ born' = born + 1
                   /\ \E m : /\ call'[c].todo = call[c].todo \cup {m}
                             /\ m.pane = born + 1 /\ m.inst = NoId
  <2> DEFINE n == call[c].left - 1
  <2>1. \/ call' = [call EXCEPT ![c].left = n, ![c].pc = "panes"]
        \/ /\ born < MaxPane /\ born' = born + 1
           /\ \E role \in Roles, repo \in call[c].dirs :
                call' = [call EXCEPT ![c].left = n, ![c].pc = "panes",
                         ![c].todo = @ \cup
                            {[pane |-> born + 1, room |-> call[c].room, repo |-> repo, role |-> role,
                              target |-> addr'[born + 1], inst |-> NoId, active |-> FALSE]}]
    BY <1>3 DEF SpawnPane, Split
  <2>2. CASE call' = [call EXCEPT ![c].left = n, ![c].pc = "panes"]
    <3> HIDE DEF n
    <3> QED BY <1>1, <2>2 DEF CallRecords
  <2>3. CASE /\ born < MaxPane /\ born' = born + 1
             /\ \E role \in Roles, repo \in call[c].dirs :
                  call' = [call EXCEPT ![c].left = n, ![c].pc = "panes",
                         ![c].todo = @ \cup
                            {[pane |-> born + 1, room |-> call[c].room, repo |-> repo, role |-> role,
                              target |-> addr'[born + 1], inst |-> NoId, active |-> FALSE]}]
    <3>1. PICK role \in Roles, repo \in call[c].dirs :
             call' = [call EXCEPT ![c].left = n, ![c].pc = "panes",
                         ![c].todo = @ \cup
                            {[pane |-> born + 1, room |-> call[c].room, repo |-> repo, role |-> role,
                              target |-> addr'[born + 1], inst |-> NoId, active |-> FALSE]}]
      BY <2>3
    <3>2. PICK m : m = [pane |-> born + 1, room |-> call[c].room, repo |-> repo, role |-> role,
                        target |-> addr'[born + 1], inst |-> NoId, active |-> FALSE]
      OBVIOUS
    <3>3. m.pane = born + 1 /\ m.inst = NoId
      BY <3>2
    <3> DEFINE S == call[c].todo \cup {m}
    <3>4. call' = [call EXCEPT ![c].left = n, ![c].pc = "panes", ![c].todo = S]
      BY <3>1, <3>2
    <3> HIDE DEF n
    <3>5. /\ call'[c].pc = "panes" /\ call'[c].room = call[c].room
          /\ call'[c].moves = call[c].moves /\ call'[c].todo = S
      <4> HIDE DEF S
      <4> QED BY <1>1, <3>4 DEF CallRecords
    <3> QED BY <2>3, <3>3, <3>5
  <2> QED BY <2>1, <2>2, <2>3
<1>4. SpawnRecord(c) => call'[c] = IdleCall
  BY DEF SpawnRecord
<1> QED BY <1>2, <1>3, <1>4

LEMMA RemoveAfter ==
    ASSUME CallsOK, NEW c \in Callers
    PROVE  /\ RemoveStart(c) => /\ call'[c].pc = "pane" /\ call'[c].moves = {}
                                /\ \E m \in members : call'[c].todo = {m}
           /\ RemoveKill(c) => /\ call'[c].pc = "drop" /\ call'[c].todo = call[c].todo
                               /\ call'[c].moves = call[c].moves
           /\ RemoveDelete(c) => call'[c] = IdleCall
<1> USE DEF CallsOK
<1>1. call[c] \in CallRecords
  OBVIOUS
<1>2. RemoveStart(c) => /\ call'[c].pc = "pane" /\ call'[c].moves = {}
                        /\ \E m \in members : call'[c].todo = {m}
  BY <1>1 DEF RemoveStart, CallRecords, IdleCall
<1>3. RemoveKill(c) => /\ call'[c].pc = "drop" /\ call'[c].todo = call[c].todo
                       /\ call'[c].moves = call[c].moves
  BY <1>1 DEF RemoveKill, Goto, CallRecords
<1>4. RemoveDelete(c) => call'[c] = IdleCall
  BY DEF RemoveDelete
<1> QED BY <1>2, <1>3, <1>4

LEMMA StatusAfter ==
    ASSUME CallsOK, NEW c \in Callers
    PROVE  /\ StatusStart(c) => call'[c].pc = "reap"
           /\ ReapProbe(c) => call'[c].pc \in {"backfill", "mark"}
           /\ ReapMark(c) => call'[c].pc = "backfill"
           /\ BackfillSelect(c) => call'[c].pc = "fill"
           /\ BackfillWrite(c) => call'[c] = IdleCall
           /\ StatusTool(c) => \/ call'[c] = IdleCall
                               \/ /\ call'[c].todo = call[c].todo
                                  /\ call'[c].moves = call[c].moves
<1> USE DEF CallsOK
<1>1. call[c] \in CallRecords
  OBVIOUS
<1>2. StatusStart(c) => /\ call'[c].pc = "reap" /\ call'[c].todo = call[c].todo
                        /\ call'[c].moves = call[c].moves
  BY <1>1 DEF StatusStart, Goto, CallRecords
<1>3. ASSUME ReapProbe(c)
      PROVE  /\ call'[c].pc \in {"backfill", "mark"} /\ call'[c].todo = call[c].todo
             /\ call'[c].moves = call[c].moves
  <2>1. PICK dead : call' = [call EXCEPT
            ![c].pc = IF dead = {} THEN "backfill" ELSE "mark", ![c].doomed = dead]
    BY <1>3 DEF ReapProbe
  <2> QED BY <1>1, <2>1 DEF CallRecords
<1>4. ReapMark(c) => /\ call'[c].pc = "backfill" /\ call'[c].todo = call[c].todo
                     /\ call'[c].moves = call[c].moves
  BY <1>1 DEF ReapMark, CallRecords
<1>5. ASSUME BackfillSelect(c)
      PROVE  /\ call'[c].pc = "fill" /\ call'[c].todo = call[c].todo
             /\ call'[c].moves = call[c].moves
  <2>1. PICK J : call' = [call EXCEPT ![c].pc = "fill", ![c].joined = J]
    BY <1>5 DEF BackfillSelect
  <2> QED BY <1>1, <2>1 DEF CallRecords
<1>6. BackfillWrite(c) => call'[c] = IdleCall
  BY DEF BackfillWrite
<1> QED BY <1>2, <1>3, <1>4, <1>5, <1>6 DEF StatusTool

\* What an add moves aside.
Aside(c) == {[to |-> m.new, mail |-> mail[m.old]] : m \in Renames(call[c].moves)}

\* The member that an add launches.
Launched(c, p) ==
    [pane |-> p, room |-> call[c].room, repo |-> call[c].repo, role |-> call[c].role,
     target |-> addr[p], inst |-> NoId, active |-> FALSE]

LEMMA AddAfter ==
    ASSUME CallsOK, NEW c \in Callers
    PROVE  /\ AddStart(c) => /\ call'[c].pc = "split" /\ call'[c].todo = {} /\ call'[c].new = {}
                             /\ call'[c].moves = {}
           /\ AddSplit(c) => \/ call'[c] = IdleCall
                             \/ /\ call'[c].pc = "look" /\ call'[c].new = {born + 1}
                                /\ born' = born + 1 /\ born < MaxPane
                                /\ call'[c].todo = MembersOf(call[c].room)
                                /\ call'[c].moves = call[c].moves
           /\ AddLook(c) => /\ call'[c].pc = "rekey" /\ call'[c].todo = {}
                            /\ call'[c].new = call[c].new
           /\ AddRekey(c) => \/ call'[c] = IdleCall /\ lock' = NoCaller
                             \/ /\ call'[c] = [call[c] EXCEPT !.pc = "pids"]
                                /\ lock' = IF call[c].moves = {} THEN NoCaller ELSE c
           /\ AddPids(c) => call'[c] = [call[c] EXCEPT !.pc = "stage"]
           /\ AddStage(c) => call'[c] = [call[c] EXCEPT !.pc = "merge", !.staged = Aside(c)]
           /\ AddMerge(c) => call'[c] = [call[c] EXCEPT !.pc = "launch", !.staged = {}]
           /\ AddLaunch(c) => \/ call'[c] = [call[c] EXCEPT !.pc = "commit"]
                              \/ \E p \in call[c].new :
                                   call'[c] = [call[c] EXCEPT !.pc = "record", !.todo = {Launched(c, p)}]
           /\ AddCommit(c) => call'[c] = IdleCall
<1> USE DEF CallsOK
<1>1. call[c] \in CallRecords
  OBVIOUS
<1>2. AddStart(c) => /\ call'[c].pc = "split" /\ call'[c].todo = {} /\ call'[c].new = {}
                     /\ call'[c].moves = {}
  BY <1>1 DEF AddStart, CallRecords, IdleCall
<1>3. ASSUME AddSplit(c)
      PROVE  \/ call'[c] = IdleCall
             \/ /\ call'[c].pc = "look" /\ call'[c].new = {born + 1}
                /\ born' = born + 1 /\ born < MaxPane
                /\ call'[c].todo = MembersOf(call[c].room)
                /\ call'[c].moves = call[c].moves
  <2> DEFINE S == MembersOf(call[c].room)
  <2>1. CASE call' = [call EXCEPT ![c] = IdleCall]
    BY <2>1
  <2>2. CASE /\ call' = [call EXCEPT ![c].pc = "look", ![c].new = {born + 1}, ![c].todo = S]
             /\ born' = born + 1 /\ born < MaxPane
    <3> HIDE DEF S
    <3>1. /\ call'[c].pc = "look" /\ call'[c].new = {born + 1} /\ call'[c].todo = S
          /\ call'[c].moves = call[c].moves
      BY <1>1, <2>2 DEF CallRecords
    <3> QED BY <2>2, <3>1 DEF S
  <2> QED BY <1>3, <2>1, <2>2 DEF AddSplit, Split
<1>4. ASSUME AddLook(c)
      PROVE  /\ call'[c].pc = "rekey" /\ call'[c].todo = {} /\ call'[c].new = call[c].new
  <2>1. PICK M : call' = [call EXCEPT ![c].pc = "rekey", ![c].todo = {}, ![c].moves = M]
    BY <1>4 DEF AddLook
  <2> QED BY <1>1, <2>1 DEF CallRecords
<1>5. AddRekey(c) => \/ call'[c] = IdleCall /\ lock' = NoCaller
                     \/ /\ call'[c] = [call[c] EXCEPT !.pc = "pids"]
                        /\ lock' = IF call[c].moves = {} THEN NoCaller ELSE c
  BY DEF AddRekey, Goto
<1>6. AddPids(c) => call'[c] = [call[c] EXCEPT !.pc = "stage"]
  BY DEF AddPids, Goto
<1>7. AddStage(c) => call'[c] = [call[c] EXCEPT !.pc = "merge", !.staged = Aside(c)]
  BY DEF AddStage, Aside
<1>8. AddMerge(c) => call'[c] = [call[c] EXCEPT !.pc = "launch", !.staged = {}]
  BY DEF AddMerge
<1>9. AddLaunch(c) => \/ call'[c] = [call[c] EXCEPT !.pc = "commit"]
                      \/ \E p \in call[c].new :
                           call'[c] = [call[c] EXCEPT !.pc = "record", !.todo = {Launched(c, p)}]
  BY DEF AddLaunch, Goto, Launched
<1>10. AddCommit(c) => call'[c] = IdleCall
  <2>1. \A d \in Callers : Renamed(call[c].moves) = [x \in Callers |-> Renamed(call[c].moves)[x]]
    BY DEF Renamed
  <2> QED BY <2>1 DEF AddCommit
<1> QED BY <1>2, <1>3, <1>4, <1>5, <1>6, <1>7, <1>8, <1>9, <1>10

LEMMA IdleIs ==
    /\ IdleCall.pc = "idle" /\ IdleCall.todo = {} /\ IdleCall.new = {}
    /\ IdleCall.moves = {} /\ IdleCall.staged = {}
BY DEF IdleCall

LEMMA AddPc ==
    ASSUME CallsOK, NEW c \in Callers
    PROVE  /\ AddStart(c)  => call'[c].pc = "split"
           /\ AddSplit(c)  => call'[c].pc \in {"look", "idle"}
           /\ AddLook(c)   => call'[c].pc = "rekey"
           /\ AddRekey(c)  => call'[c].pc \in {"pids", "idle"}
           /\ AddPids(c)   => call'[c].pc = "stage"
           /\ AddStage(c)  => call'[c].pc = "merge"
           /\ AddMerge(c)  => call'[c].pc = "launch"
           /\ AddLaunch(c) => call'[c].pc \in {"record", "commit"}
           /\ AddCommit(c) => call'[c].pc = "idle"
<1>1. call[c] \in CallRecords
  BY DEF CallsOK
<1>2. AddStart(c) => call'[c].pc = "split"
  BY AddAfter
<1>3. AddSplit(c) => call'[c].pc \in {"look", "idle"}
  BY AddAfter, IdleIs
<1>4. AddLook(c) => call'[c].pc = "rekey"
  BY AddAfter
<1>5. ASSUME AddRekey(c) PROVE call'[c].pc \in {"pids", "idle"}
  <2>1. call'[c] = IdleCall \/ call'[c] = [call[c] EXCEPT !.pc = "pids"]
    BY <1>5, AddAfter
  <2> QED BY <1>1, <2>1 DEF IdleCall, CallRecords
<1>6. ASSUME AddPids(c) PROVE call'[c].pc = "stage"
  <2>1. call'[c] = [call[c] EXCEPT !.pc = "stage"]
    BY <1>6, AddAfter
  <2> QED BY <1>1, <2>1 DEF CallRecords
<1>7. ASSUME AddStage(c) PROVE call'[c].pc = "merge"
  <2>1. call'[c] = [call[c] EXCEPT !.pc = "merge", !.staged = Aside(c)]
    BY <1>7, AddAfter
  <2> QED BY <1>1, <2>1 DEF CallRecords
<1>8. ASSUME AddMerge(c) PROVE call'[c].pc = "launch"
  <2>1. call'[c] = [call[c] EXCEPT !.pc = "launch", !.staged = {}]
    BY <1>8, AddAfter
  <2> QED BY <1>1, <2>1 DEF CallRecords
<1>9. ASSUME AddLaunch(c) PROVE call'[c].pc \in {"record", "commit"}
  <2>1. PICK p : \/ call'[c] = [call[c] EXCEPT !.pc = "commit"]
                 \/ call'[c] = [call[c] EXCEPT !.pc = "record", !.todo = {Launched(c, p)}]
    BY <1>9, AddAfter
  <2> QED BY <1>1, <2>1 DEF CallRecords
<1>10. AddCommit(c) => call'[c].pc = "idle"
  BY AddAfter, IdleIs
<1> QED BY <1>2, <1>3, <1>4, <1>5, <1>6, <1>7, <1>8, <1>9, <1>10

LEMMA CrashAfter == ASSUME CallsOK, NEW c \in Callers, Crash(c) PROVE call'[c] = IdleCall
BY DEF Crash, CallsOK

\* The tables and the files.
AgentsOK  == agents \subseteq Rows
MembersOK == members \subseteq Members
RoomsType == rooms \in [Rooms -> [status : {"none", "active", "killed"}, repo : Repos \cup {NoId}]]
FilesOK   == pidFile \in [Panes -> MaybeId] /\ mail \in [Ids -> SUBSET Panes]
AuxOK     == /\ again \in [Callers -> SUBSET Rooms]
             /\ takers \subseteq Panes /\ late \subseteq Panes /\ parted \subseteq Panes

LEMMA RekeyedAgentsOK ==
    ASSUME AgentsOK, NEW mvs \in SUBSET Moves
    PROVE  RekeyedAgents(mvs) \subseteq Rows
<1> DEFINE M(r) == CHOOSE n \in Rekeys(mvs) : n.row = r.id
<1>1. ASSUME NEW r \in agents, \E m \in Rekeys(mvs) : m.row = r.id
      PROVE  [r EXCEPT !.id = M(r).new, !.target = M(r).target, !.role = M(r).member.role] \in Rows
  <2>1. M(r) \in Moves
    BY <1>1, RekeysAre
  <2>2. M(r).new \in Ids /\ M(r).target \in Addrs /\ M(r).member \in Members
    <3> HIDE DEF M
    <3> QED BY <2>1 DEF Moves
  <2>3. M(r).member.role \in Roles
    <3> HIDE DEF M
    <3> QED BY <2>2 DEF Members
  <2> HIDE DEF M
  <2> QED BY <2>2, <2>3 DEF AgentsOK, Rows
<1> QED BY <1>1 DEF RekeyedAgents, AgentsOK

LEMMA RekeyedMembersOK ==
    ASSUME MembersOK, NEW mvs \in SUBSET Moves
    PROVE  RekeyedMembers(mvs) \subseteq Members
<1> DEFINE M(x) == CHOOSE n \in mvs : n.member.pane = x.pane
<1>1. ASSUME NEW x \in members, \E m \in mvs : m.member.pane = x.pane
      PROVE  [x EXCEPT !.target = M(x).target, !.inst = IF M(x).hit THEN M(x).new ELSE NoId,
                       !.active = M(x).hit] \in Members
  <2>1. M(x) \in Moves
    BY <1>1
  <2>2. M(x).new \in Ids /\ M(x).target \in Addrs /\ M(x).hit \in BOOLEAN
    <3> HIDE DEF M
    <3> QED BY <2>1 DEF Moves
  <2> HIDE DEF M
  <2> QED BY <2>2 DEF MembersOK, Members, MaybeId
<1> QED BY <1>1 DEF RekeyedMembers, MembersOK

LEMMA AgentsStep == ASSUME TypeInv, [Next]_vars PROVE AgentsOK'
<1> USE DEF TypeInv
<1>0. AgentsOK
  BY DEF TypeOK, AgentsOK
<1>1. ASSUME NEW p \in Panes, HookCommit(p) PROVE AgentsOK'
  <2> DEFINE taken == \E r \in agents : r.id = reg[p].id /\ r.pane # p /\ Live(r.pane)
             i     == IF taken THEN [reg[p].id EXCEPT !.sfx = p] ELSE reg[p].id
  <2>1. reg[p].id \in Ids /\ reg[p].target \in Addrs
    BY <1>1 DEF HookCommit, RegOK
  <2>2. i \in Ids
    BY <2>1 DEF Ids
  <2>3. agents' \subseteq agents \cup {[id |-> i, pane |-> p, target |-> reg[p].target, role |-> i.role]}
    BY <1>1 DEF HookCommit
  <2> HIDE DEF i
  <2>4. i.role \in Roles
    BY <2>2 DEF Ids
  <2> QED BY <1>0, <2>1, <2>2, <2>3, <2>4 DEF AgentsOK, Rows
<1>2. ASSUME NEW r \in agents, Live(r.pane) PROVE [r EXCEPT !.target = addr[r.pane]] \in Rows
  <2>1. r \in Rows /\ addr[r.pane] \in Addrs
    BY <1>0, <1>2 DEF AgentsOK, Rows, TypeOK, MaybeAddr, Live
  <2> QED BY <2>1 DEF Rows
<1>3. CASE Prune
  BY <1>0, <1>2, <1>3 DEF Prune, AgentsOK
<1>4. ASSUME NEW c \in Callers, StatusStart(c) PROVE AgentsOK'
  BY <1>0, <1>2, <1>4 DEF StatusStart, AgentsOK
<1>5. ASSUME NEW c \in Callers, AddCommit(c) PROVE AgentsOK'
  <2>1. call[c].moves \in SUBSET Moves
    BY DEF CallsOK, CallRecords
  <2>2. agents' = agents \/ agents' = RekeyedAgents(call[c].moves)
    BY <1>5 DEF AddCommit
  <2> QED BY <1>0, <2>1, <2>2, RekeyedAgentsOK DEF AgentsOK
<1>6. ASSUME NEW p \in Panes, Exit(p) PROVE AgentsOK'
  BY <1>0, <1>6 DEF Exit, AgentsOK
<1>7. ASSUME NEW c \in Callers, KillDelete(c) PROVE AgentsOK'
  BY <1>0, <1>7 DEF KillDelete, AgentsOK
<1>8. CASE NewPane \/ ReIndex \/ Send \/ vars' = vars
  BY <1>0, <1>8 DEF NewPane, ReIndex, Send, vars, db, AgentsOK
<1>9. ASSUME NEW p \in Panes, ClosePane(p) \/ HookRead(p) \/ HookKilled(p) PROVE AgentsOK'
  BY <1>0, <1>9 DEF ClosePane, HookRead, HookKilled, db, AgentsOK
<1>10. ASSUME NEW c \in Callers, \/ KillStart(c) \/ KillWindow(c) \/ KillSelect(c) \/ SpawnTool(c)
                                 \/ RemoveTool(c) \/ Crash(c)
       PROVE  AgentsOK'
  BY <1>0, <1>10
  DEF KillStart, KillWindow, KillSelect, SpawnTool, SpawnStart, SpawnPane, SpawnRecord, RemoveTool,
      RemoveStart, RemoveKill, RemoveDelete, Crash, db, AgentsOK
<1>11. ASSUME NEW c \in Callers, \/ AddStart(c) \/ AddSplit(c) \/ AddLook(c) \/ AddRekey(c)
                                 \/ AddPids(c) \/ AddStage(c) \/ AddMerge(c) \/ AddLaunch(c)
       PROVE  AgentsOK'
  BY <1>0, <1>11
  DEF AddStart, AddSplit, AddLook, AddRekey, AddPids, AddStage, AddMerge, AddLaunch, db, AgentsOK
<1>12. ASSUME NEW c \in Callers, ReapProbe(c) \/ ReapMark(c) \/ BackfillSelect(c) \/ BackfillWrite(c)
       PROVE  AgentsOK'
  BY <1>0, <1>12 DEF ReapProbe, ReapMark, BackfillSelect, BackfillWrite, db, AgentsOK
<1> QED
  BY <1>1, <1>3, <1>4, <1>5, <1>6, <1>7, <1>8, <1>9, <1>10, <1>11, <1>12
  DEF Next, Environment, Hook, KillTool, AddTool, StatusTool

LEMMA MembersStep == ASSUME TypeInv, [Next]_vars PROVE MembersOK'
<1> USE DEF TypeInv
<1>0. MembersOK
  BY DEF TypeOK, MembersOK
<1>1. ASSUME NEW c \in Callers, SpawnRecord(c) PROVE MembersOK'
  <2>1. call[c].todo \subseteq Members
    BY DEF CallsOK, CallRecords
  <2> QED BY <1>0, <1>1, <2>1 DEF SpawnRecord, MembersOK
<1>2. ASSUME NEW c \in Callers, AddCommit(c) PROVE MembersOK'
  <2>1. call[c].moves \in SUBSET Moves /\ call[c].todo \subseteq Members
    BY DEF CallsOK, CallRecords
  <2> DEFINE new == IF call[c].pc = "record"
                    THEN {[m EXCEPT !.repo = rooms[m.room].repo] : m \in call[c].todo} ELSE {}
             ok  == new = {} \/ Status(call[c].room) # "none"
  <2>2. members' = IF ok THEN RekeyedMembers(call[c].moves) \cup new ELSE members
    BY <1>2 DEF AddCommit
  <2>3. CASE ~ok
    BY <1>0, <2>2, <2>3 DEF MembersOK
  <2>4. CASE new = {}
    BY <1>0, <2>1, <2>2, <2>4, RekeyedMembersOK DEF MembersOK
  <2>5. CASE new # {} /\ ok
    <3>1. Status(call[c].room) # "none" /\ call[c].pc = "record"
      BY <2>5
    <3>2. call[c].room \in Rooms
      BY <1>2, PcSets DEF AddCommit, CallsOK, CallOK
    <3>3. rooms[call[c].room].repo \in Repos
      BY <3>1, <3>2 DEF RoomsOK
    <3>4. ASSUME NEW m \in call[c].todo PROVE [m EXCEPT !.repo = rooms[m.room].repo] \in Members
      <4>1. m \in Members /\ rooms[m.room].repo \in Repos
        BY <2>1, <3>1, <3>3 DEF RecordOK
      <4> QED BY <4>1 DEF Members
    <3>5. new \subseteq Members
      BY <3>4
    <3> HIDE DEF new, ok
    <3> QED BY <1>0, <2>1, <2>2, <2>5, <3>5, RekeyedMembersOK DEF MembersOK
  <2> QED BY <2>3, <2>4, <2>5
<1>3. ASSUME NEW c \in Callers, StatusStart(c) PROVE MembersOK'
  <2>1. ASSUME NEW m \in members, Live(m.pane) PROVE [m EXCEPT !.target = addr[m.pane]] \in Members
    <3>1. m \in Members /\ addr[m.pane] \in Addrs
      BY <1>0, <2>1 DEF MembersOK, Members, TypeOK, MaybeAddr, Live
    <3> QED BY <3>1 DEF Members
  <2> QED BY <1>0, <1>3, <2>1 DEF StatusStart, MembersOK
<1>4. ASSUME NEW c \in Callers, BackfillWrite(c) PROVE MembersOK'
  <2> DEFINE I(m) == Reconciled(m, (CHOOSE k \in call[c].joined : k.pane = m.pane).row)
  <2>1. ASSUME NEW m \in members, \E j \in call[c].joined : j.pane = m.pane PROVE I(m) \in MaybeId
    <3>1. (CHOOSE k \in call[c].joined : k.pane = m.pane) \in Joins
      BY <2>1 DEF CallsOK, CallRecords
    <3> QED BY <3>1 DEF Joins, Reconciled, MaybeId
  <2>2. \A m \in members' : \/ m \in members
                            \/ \E n \in members : /\ I(n) \in MaybeId
                                                  /\ m = [n EXCEPT !.inst = I(n), !.active = I(n) # NoId]
    BY <1>4, <2>1 DEF BackfillWrite
  <2>3. ASSUME NEW n \in members, I(n) \in MaybeId
        PROVE  [n EXCEPT !.inst = I(n), !.active = I(n) # NoId] \in Members
    <3> HIDE DEF I
    <3> QED BY <1>0, <2>3 DEF MembersOK, Members
  <2> HIDE DEF I
  <2> QED BY <1>0, <2>2, <2>3 DEF MembersOK
<1>5. ASSUME NEW c \in Callers, KillDelete(c) \/ RemoveDelete(c) PROVE MembersOK'
  BY <1>0, <1>5 DEF KillDelete, RemoveDelete, MembersOK
<1>6. CASE Environment \/ vars' = vars
  BY <1>0, <1>6 DEF Environment, NewPane, ReIndex, Prune, Send, vars, db, MembersOK
<1>7. ASSUME NEW p \in Panes, ClosePane(p) \/ Exit(p) \/ Hook(p) PROVE MembersOK'
  BY <1>0, <1>7 DEF ClosePane, Exit, Hook, HookRead, HookCommit, HookKilled, db, MembersOK
<1>8. ASSUME NEW c \in Callers, \/ KillStart(c) \/ KillWindow(c) \/ KillSelect(c) \/ SpawnStart(c)
                                \/ SpawnPane(c) \/ RemoveStart(c) \/ RemoveKill(c) \/ Crash(c)
      PROVE  MembersOK'
  BY <1>0, <1>8
  DEF KillStart, KillWindow, KillSelect, SpawnStart, SpawnPane, RemoveStart, RemoveKill, Crash, db,
      MembersOK
<1>9. ASSUME NEW c \in Callers, \/ AddStart(c) \/ AddSplit(c) \/ AddLook(c) \/ AddRekey(c)
                                \/ AddPids(c) \/ AddStage(c) \/ AddMerge(c) \/ AddLaunch(c)
      PROVE  MembersOK'
  BY <1>0, <1>9
  DEF AddStart, AddSplit, AddLook, AddRekey, AddPids, AddStage, AddMerge, AddLaunch, db, MembersOK
<1>10. ASSUME NEW c \in Callers, ReapProbe(c) \/ ReapMark(c) \/ BackfillSelect(c) PROVE MembersOK'
  BY <1>0, <1>10 DEF ReapProbe, ReapMark, BackfillSelect, db, MembersOK
<1> QED
  BY <1>1, <1>2, <1>3, <1>4, <1>5, <1>6, <1>7, <1>8, <1>9, <1>10
  DEF Next, KillTool, SpawnTool, AddTool, RemoveTool, StatusTool

LEMMA RoomsStep == ASSUME TypeInv, [Next]_vars PROVE RoomsType' /\ RoomsOK'
<1> USE DEF TypeInv
<1>0. RoomsType /\ RoomsOK
  BY DEF TypeOK, RoomsType
<1>1. ASSUME NEW c \in Callers, SpawnRecord(c) PROVE RoomsType' /\ RoomsOK'
  <2>1. call[c].repo \in Repos
    BY <1>1, PcSets DEF SpawnRecord, CallsOK, CallOK
  <2> QED BY <1>0, <1>1, <2>1 DEF SpawnRecord, RoomsType, RoomsOK, Status
<1>2. ASSUME NEW c \in Callers, KillDelete(c) PROVE RoomsType' /\ RoomsOK'
  BY <1>0, <1>2 DEF KillDelete, RoomsType, RoomsOK, Status
<1>3. ASSUME NEW c \in Callers, RemoveDelete(c) PROVE RoomsType' /\ RoomsOK'
  <2>1. CASE rooms' = rooms
    BY <1>0, <2>1 DEF RoomsType, RoomsOK, Status
  <2>2. CASE rooms' # rooms
    <3>1. /\ rooms' = [rooms EXCEPT ![call[c].room].status = "killed"]
          /\ Status(call[c].room) # "none"
      BY <1>3, <2>2 DEF RemoveDelete
    <3>2. call[c].room \in Rooms
      BY <1>3, PcSets DEF RemoveDelete, CallsOK, CallOK
    <3> QED BY <1>0, <3>1, <3>2 DEF RoomsType, RoomsOK, Status
  <2> QED BY <2>1, <2>2
<1>4. ASSUME NEW c \in Callers, ReapMark(c) PROVE RoomsType' /\ RoomsOK'
  BY <1>0, <1>4 DEF ReapMark, RoomsType, RoomsOK, Status
<1>5. CASE rooms' = rooms
  BY <1>0, <1>5 DEF RoomsType, RoomsOK, Status
<1>6. CASE Environment \/ vars' = vars
  BY <1>5, <1>6 DEF Environment, NewPane, ReIndex, Prune, Send, vars, db
<1>7. ASSUME NEW p \in Panes, ClosePane(p) \/ Exit(p) \/ Hook(p) PROVE RoomsType' /\ RoomsOK'
  BY <1>5, <1>7 DEF ClosePane, Exit, Hook, HookRead, HookCommit, HookKilled, db
<1>8. ASSUME NEW c \in Callers, \/ KillStart(c) \/ KillWindow(c) \/ KillSelect(c) \/ SpawnStart(c)
                                \/ SpawnPane(c) \/ RemoveStart(c) \/ RemoveKill(c) \/ Crash(c)
      PROVE  RoomsType' /\ RoomsOK'
  BY <1>5, <1>8
  DEF KillStart, KillWindow, KillSelect, SpawnStart, SpawnPane, RemoveStart, RemoveKill, Crash, db
<1>9. ASSUME NEW c \in Callers, AddTool(c) PROVE RoomsType' /\ RoomsOK'
  BY <1>5, <1>9
  DEF AddTool, AddStart, AddSplit, AddLook, AddRekey, AddPids, AddStage, AddMerge, AddLaunch,
      AddCommit, db
<1>10. ASSUME NEW c \in Callers, \/ StatusStart(c) \/ ReapProbe(c) \/ BackfillSelect(c)
                                 \/ BackfillWrite(c)
       PROVE  RoomsType' /\ RoomsOK'
  BY <1>5, <1>10 DEF StatusStart, ReapProbe, BackfillSelect, BackfillWrite, db
<1> QED
  BY <1>1, <1>2, <1>3, <1>4, <1>6, <1>7, <1>8, <1>9, <1>10
  DEF Next, KillTool, SpawnTool, RemoveTool, StatusTool

LEMMA RegStep == ASSUME TypeInv, [Next]_vars PROVE RegOK'
<1> USE DEF TypeInv
<1>1. ASSUME NEW p \in Panes, HookRead(p) PROVE RegOK'
  <2>1. PICK i \in AskedIds(p) : reg' = [reg EXCEPT ![p] = [id |-> i, target |-> addr[p]]]
    BY <1>1 DEF HookRead
  <2>2. addr[p] \in Addrs
    <3>1. Live(p)
      BY <1>1 DEF HookRead
    <3> QED BY <3>1 DEF TypeOK, MaybeAddr, Live
  <2>3. i \in Ids
    BY <2>1, <2>2, RowIds, CanonicalIsId DEF AskedIds, TypeOK, MaybeId, RowsOf
  <2> QED BY <2>1, <2>2, <2>3 DEF RegOK, Registrations, MaybeId, MaybeAddr
<1>2. CASE \A p \in Panes : ~HookRead(p)
  <2>1. reg' = reg \/ \E p \in Panes : reg' = [reg EXCEPT ![p] = IdleReg]
    <3>1. CASE Outside
      BY <1>2, <3>1
      DEF Outside, Environment, NewPane, ReIndex, Prune, Send, ClosePane, Exit, Hook, HookCommit,
          HookKilled, vars
    <3>2. ASSUME NEW c \in Callers, KillTool(c) \/ SpawnTool(c) \/ RemoveTool(c) PROVE reg' = reg
      BY <3>2
      DEF KillTool, KillStart, KillWindow, KillSelect, KillDelete, SpawnTool, SpawnStart, SpawnPane,
          SpawnRecord, RemoveTool, RemoveStart, RemoveKill, RemoveDelete
    <3>3. ASSUME NEW c \in Callers, AddTool(c) PROVE reg' = reg
      BY <3>3
      DEF AddTool, AddStart, AddSplit, AddLook, AddRekey, AddPids, AddStage, AddMerge, AddLaunch,
          AddCommit
    <3>4. ASSUME NEW c \in Callers, StatusTool(c) \/ Crash(c) PROVE reg' = reg
      BY <3>4
      DEF StatusTool, StatusStart, ReapProbe, ReapMark, BackfillSelect, BackfillWrite, Crash
    <3> QED BY <3>1, <3>2, <3>3, <3>4 DEF Next, Outside
  <2> QED BY <2>1 DEF RegOK, IdleReg, Registrations, MaybeId, MaybeAddr
<1> QED BY <1>1, <1>2

LEMMA FilesStep == ASSUME TypeInv, [Next]_vars PROVE FilesOK'
<1> USE DEF TypeInv
<1>0. FilesOK
  BY DEF TypeOK, FilesOK
<1>1. ASSUME NEW p \in Panes, Exit(p) PROVE FilesOK'
  BY <1>0, <1>1 DEF Exit, FilesOK, MaybeId
<1>2. ASSUME NEW p \in Panes, HookCommit(p) PROVE FilesOK'
  <2> DEFINE taken == \E r \in agents : r.id = reg[p].id /\ r.pane # p /\ Live(r.pane)
             i     == IF taken THEN [reg[p].id EXCEPT !.sfx = p] ELSE reg[p].id
  <2>1. i \in Ids
    BY <1>2 DEF HookCommit, RegOK, Ids
  <2>2. pidFile' = [pidFile EXCEPT ![p] = i] /\ mail' = mail
    BY <1>2 DEF HookCommit
  <2> HIDE DEF i
  <2> QED BY <1>0, <2>1, <2>2 DEF FilesOK, MaybeId
<1>3. CASE Send
  BY <1>0, <1>3, RowIds DEF Send, FilesOK, TypeOK, Rows
<1>4. ASSUME NEW c \in Callers, AddPids(c) PROVE FilesOK'
  <2>1. Renames(call[c].moves) \subseteq Moves
    BY DEF Renames, CallsOK, CallRecords
  <2> DEFINE N(p) == (CHOOSE m \in Renames(call[c].moves) : m.old = pidFile[p]).new
  <2>2. ASSUME NEW p \in Panes, \E m \in Renames(call[c].moves) : m.old = pidFile[p]
        PROVE  N(p) \in MaybeId
    <3>1. (CHOOSE m \in Renames(call[c].moves) : m.old = pidFile[p]) \in Moves
      BY <2>1, <2>2
    <3> QED BY <3>1 DEF Moves, MaybeId
  <2>3. pidFile' = [p \in Panes |-> IF \E m \in Renames(call[c].moves) : m.old = pidFile[p]
                                    THEN N(p) ELSE pidFile[p]] /\ mail' = mail
    BY <1>4 DEF AddPids
  <2> HIDE DEF N
  <2> QED BY <1>0, <2>2, <2>3 DEF FilesOK
<1>5. ASSUME NEW c \in Callers, AddStage(c) PROVE FilesOK'
  BY <1>0, <1>5 DEF AddStage, FilesOK
<1>6. ASSUME NEW c \in Callers, AddMerge(c) PROVE FilesOK'
  <2>1. \A s \in call[c].staged : s.mail \subseteq Panes
    BY DEF CallsOK, CallRecords, Batches
  <2> QED BY <1>0, <1>6, <2>1 DEF AddMerge, FilesOK
<1>7. CASE UNCHANGED <<pidFile, mail>>
  BY <1>0, <1>7 DEF FilesOK
<1>8. CASE NewPane \/ ReIndex \/ Prune \/ vars' = vars
  BY <1>7, <1>8 DEF NewPane, ReIndex, Prune, vars, file
<1>9. ASSUME NEW p \in Panes, ClosePane(p) \/ HookRead(p) \/ HookKilled(p) PROVE FilesOK'
  BY <1>7, <1>9 DEF ClosePane, HookRead, HookKilled, file
<1>10. ASSUME NEW c \in Callers, KillTool(c) \/ SpawnTool(c) \/ RemoveTool(c) PROVE FilesOK'
  BY <1>7, <1>10
  DEF KillTool, KillStart, KillWindow, KillSelect, KillDelete, SpawnTool, SpawnStart, SpawnPane,
      SpawnRecord, RemoveTool, RemoveStart, RemoveKill, RemoveDelete, file
<1>11. ASSUME NEW c \in Callers, \/ AddStart(c) \/ AddSplit(c) \/ AddLook(c) \/ AddRekey(c)
                                 \/ AddLaunch(c) \/ AddCommit(c)
       PROVE  FilesOK'
  BY <1>7, <1>11 DEF AddStart, AddSplit, AddLook, AddRekey, AddLaunch, AddCommit, file
<1>12. ASSUME NEW c \in Callers, StatusTool(c) \/ Crash(c) PROVE FilesOK'
  BY <1>7, <1>12
  DEF StatusTool, StatusStart, ReapProbe, ReapMark, BackfillSelect, BackfillWrite, Crash, file
<1> QED
  BY <1>1, <1>2, <1>3, <1>4, <1>5, <1>6, <1>8, <1>9, <1>10, <1>11, <1>12
  DEF Next, Environment, Hook, AddTool

LEMMA AuxStep == ASSUME TypeInv, [Next]_vars PROVE AuxOK'
<1> USE DEF TypeInv
<1>0. AuxOK
  BY DEF TypeOK, AuxOK
<1>1. ASSUME NEW p \in Panes, HookCommit(p) PROVE AuxOK'
  <2>1. /\ takers' \in {takers, takers \cup {p}} /\ late' \in {late, late \cup {p}}
        /\ again' = again /\ parted' = parted
    BY <1>1 DEF HookCommit
  <2> QED BY <1>0, <2>1 DEF AuxOK
<1>2. CASE Send
  <2>1. PICK r \in agents : late' \in {late, late \cup {r.pane}}
    BY <1>2 DEF Send
  <2>2. again' = again /\ parted' = parted /\ takers' = takers
    BY <1>2 DEF Send
  <2> QED BY <1>0, <2>1, <2>2 DEF AuxOK, TypeOK, Rows
<1>3. ASSUME NEW c \in Callers, SpawnPane(c) PROVE AuxOK'
  <2>1. call[c].room \in Rooms
    BY <1>3, PcSets DEF SpawnPane, CallsOK, CallOK
  <2>2. again' = [d \in Callers |-> IF call[d].pc = "mark" THEN again[d] \cup {call[c].room} ELSE {}]
    BY <1>3 DEF SpawnPane
  <2>3. UNCHANGED <<takers, late, parted>>
    BY <1>3 DEF SpawnPane
  <2> QED BY <1>0, <2>1, <2>2, <2>3 DEF AuxOK
<1>4. ASSUME NEW rows, rows \subseteq Rows, NEW ms PROVE Bearers(rows, ms) \subseteq Panes
  BY <1>4 DEF Bearers, Rows
<1>5. ASSUME NEW c \in Callers, AddCommit(c) PROVE AuxOK'
  <2>1. agents' \subseteq Rows
    BY AgentsStep DEF AgentsOK
  <2>2. Stranded(call[c].moves) \subseteq Panes
    BY DEF Stranded, TypeOK, Rows
  <2>3. /\ late' \in {late, late \cup Panes}
        /\ parted' \in {parted, parted \cup Stranded(call[c].moves)}
        /\ takers' \in {takers, takers \cup Bearers(agents', members' \cup Listed)}
        /\ again' = again
    BY <1>5 DEF AddCommit
  <2> QED BY <1>0, <1>4, <2>1, <2>2, <2>3 DEF AuxOK
<1>6. ASSUME NEW c \in Callers, BackfillWrite(c) PROVE AuxOK'
  <2>1. /\ takers' = takers \cup Bearers(agents, members' \cup Listed)
        /\ UNCHANGED <<again, late, parted>>
    BY <1>6 DEF BackfillWrite
  <2> QED BY <1>0, <1>4, <2>1 DEF AuxOK, TypeOK
<1>7. ASSUME NEW c \in Callers, Crash(c) \/ ReapMark(c) PROVE AuxOK'
  BY <1>0, <1>7 DEF Crash, ReapMark, AuxOK
<1>8. CASE aux' = aux
  BY <1>0, <1>8 DEF AuxOK, aux
<1>9. CASE NewPane \/ ReIndex \/ Prune \/ vars' = vars
  BY <1>8, <1>9 DEF NewPane, ReIndex, Prune, vars
<1>10. ASSUME NEW p \in Panes, ClosePane(p) \/ Exit(p) \/ HookRead(p) \/ HookKilled(p) PROVE AuxOK'
  BY <1>8, <1>10 DEF ClosePane, Exit, HookRead, HookKilled
<1>11. ASSUME NEW c \in Callers, KillTool(c) \/ SpawnStart(c) \/ SpawnRecord(c) \/ RemoveTool(c)
       PROVE  AuxOK'
  BY <1>8, <1>11
  DEF KillTool, KillStart, KillWindow, KillSelect, KillDelete, SpawnStart, SpawnRecord, RemoveTool,
      RemoveStart, RemoveKill, RemoveDelete
<1>12. ASSUME NEW c \in Callers, \/ AddStart(c) \/ AddSplit(c) \/ AddLook(c) \/ AddRekey(c)
                                 \/ AddPids(c) \/ AddStage(c) \/ AddMerge(c) \/ AddLaunch(c)
       PROVE  AuxOK'
  BY <1>8, <1>12
  DEF AddStart, AddSplit, AddLook, AddRekey, AddPids, AddStage, AddMerge, AddLaunch
<1>13. ASSUME NEW c \in Callers, StatusStart(c) \/ ReapProbe(c) \/ BackfillSelect(c) PROVE AuxOK'
  BY <1>8, <1>13 DEF StatusStart, ReapProbe, BackfillSelect
<1> QED
  BY <1>1, <1>2, <1>3, <1>5, <1>6, <1>7, <1>9, <1>10, <1>11, <1>12, <1>13
  DEF Next, Environment, Hook, SpawnTool, AddTool, StatusTool

\* What an add records is what it launched in its room.
LEMMA RecordStep == ASSUME TypeInv, [Next]_vars PROVE RecordOK'
<1> USE DEF TypeInv
<1> SUFFICES ASSUME NEW c \in Callers, call'[c].pc = "record"
             PROVE  \A m \in call'[c].todo : m.room = call'[c].room
  BY DEF RecordOK
<1>1. CASE ~Acts(c)
  <2>1. Same(call[c], call'[c])
    BY <1>1, CallKept
  <2> QED BY <2>1 DEF Same, RecordOK
<1>2. CASE Acts(c)
  <2>1. AddLaunch(c)
    <3>2. ~KillTool(c) /\ ~SpawnTool(c) /\ ~RemoveTool(c) /\ ~StatusTool(c) /\ ~Crash(c)
      BY KillAfter, SpawnAfter, RemoveAfter, StatusAfter, CrashAfter
      DEF IdleCall, KillTool, SpawnTool, RemoveTool, StatusTool
    <3>3. /\ ~AddStart(c) /\ ~AddSplit(c) /\ ~AddLook(c) /\ ~AddRekey(c) /\ ~AddPids(c)
          /\ ~AddStage(c) /\ ~AddMerge(c) /\ ~AddCommit(c)
      BY AddPc
    <3> QED BY <1>2, <3>2, <3>3 DEF Acts, AddTool
  <2>2. PICK p \in call[c].new : call'[c] = [call[c] EXCEPT !.pc = "record", !.todo = {Launched(c, p)}]
    <3>1. call'[c] # [call[c] EXCEPT !.pc = "commit"]
      BY DEF CallsOK, CallRecords
    <3> QED BY <2>1, <3>1, AddAfter
  <2> QED BY <2>2 DEF CallsOK, CallRecords, Launched
<1> QED BY <1>1, <1>2

LEMMA TypeInit == ASSUME Init PROVE TypeInv
<1> USE DEF Init
<1>1. WorldOK
  BY WarroomAssumption DEF WorldOK, MaybeAddr, MaybeId
<1>2. AgentsOK /\ MembersOK /\ RoomsType /\ RoomsOK
  BY DEF AgentsOK, MembersOK, RoomsType, RoomsOK, Status
<1>3. FilesOK /\ AuxOK
  BY DEF FilesOK, AuxOK, MaybeId
<1>4. CallsOK
  BY IdleCallOK DEF CallsOK, CallOK
<1>5. RegOK
  BY DEF RegOK, Registrations, IdleReg, MaybeId, MaybeAddr
<1>6. RecordOK
  BY DEF RecordOK, IdleCall
<1>7. TypeOK
  BY <1>1, <1>2, <1>3, <1>4
  DEF TypeOK, WorldOK, AgentsOK, MembersOK, RoomsType, FilesOK, AuxOK, CallsOK, CallRecords
<1> QED BY <1>2, <1>4, <1>5, <1>6, <1>7 DEF TypeInv

LEMMA TypeStep == ASSUME TypeInv, [Next]_vars PROVE TypeInv'
<1>1. WorldOK'
  BY OutsideWorld, ToolWorld DEF Next, Outside
<1>2. CallsOK' /\ AgentsOK' /\ MembersOK' /\ RoomsType' /\ RoomsOK' /\ RegOK' /\ FilesOK' /\ AuxOK'
  BY CallsStep, AgentsStep, MembersStep, RoomsStep, RegStep, FilesStep, AuxStep
<1>3. RecordOK' /\ lock' \in Callers \cup {NoCaller} /\ LockHeld'
  BY RecordStep, LockStep
<1>4. TypeOK'
  BY <1>1, <1>2, <1>3
  DEF TypeOK, WorldOK, AgentsOK, MembersOK, RoomsType, FilesOK, AuxOK, LockHeld, RekeyPcs,
      CallsOK, CallRecords
<1> QED BY <1>2, <1>3, <1>4 DEF TypeInv

LEMMA TypeInvAlways == Spec => []TypeInv
<1>1. TypeInv /\ [Next]_vars => TypeInv'
  BY TypeStep
<1> QED BY <1>1, TypeInit, PTL DEF Spec

\* Warroom is type-correct: tables, files and tmux hold what they should, and
\* the write lock never outlives the re-keying that took it.
THEOREM WarroomTypeCorrect == Spec => []TypeOK
<1>1. TypeInv => TypeOK
  BY DEF TypeInv
<1> QED BY <1>1, TypeInvAlways, PTL

-----------------------------------------------------------------------------
(***************************************************************************)
(* Panes: who made them, who has them                                      *)
(***************************************************************************)

\* A step makes at most one pane, which has been nowhere before.
LEMMA BornStep ==
    ASSUME TypeInv, BornOK, [Next]_vars
    PROVE  /\ born' \in {born, born + 1}
           /\ \A p \in Panes : p > born' => wnd'[p] = NoRoom /\ addr'[p] = NoAddr
<1> USE DEF TypeInv
<1> DEFINE Goal == /\ born' \in {born, born + 1}
                   /\ \A p \in Panes : p > born' => wnd'[p] = NoRoom /\ addr'[p] = NoAddr
<1> SUFFICES Goal
  OBVIOUS
<1>0. /\ born \in Nat /\ addr \in [Panes -> MaybeAddr] /\ wnd \in [Panes -> Rooms \cup {NoRoom}]
      /\ Panes \subseteq Nat
  BY DEF TypeOK, Panes
<1>1. CASE UNCHANGED <<addr, wnd, born>>
  BY <1>1 DEF BornOK
<1>2. CASE NewPane
  <2>1. PICK a \in Free : addr' = [addr EXCEPT ![born + 1] = a]
    BY <1>2 DEF NewPane
  <2>2. born' = born + 1 /\ wnd' = wnd
    BY <1>2 DEF NewPane
  <2> QED BY <1>0, <2>1, <2>2 DEF BornOK
<1>3. CASE ReIndex
  <2>1. born' = born /\ wnd' = wnd /\ addr' \in Reflowed({p \in Panes : Live(p)})
    BY <1>3 DEF ReIndex
  <2> QED BY <2>1 DEF BornOK, Reflowed, Live
<1>4. ASSUME NEW p \in Panes, ClosePane(p) PROVE Goal
  BY <1>0, <1>4 DEF ClosePane, BornOK
<1>5. ASSUME NEW r, Split(born + 1, r), born < MaxPane PROVE Goal
  <2> DEFINE S == {q \in Panes : Live(q) /\ wnd[q] = r} \cup {born + 1}
  <2>1. PICK new \in Reflowed(S) : addr' = new
    BY <1>5 DEF Split
  <2>2. born' = born + 1 /\ wnd' = [wnd EXCEPT ![born + 1] = r]
    BY <1>5 DEF Split
  <2>3. \A p \in Panes : p > born + 1 => p \notin S
    BY <1>0 DEF BornOK, Live
  <2> HIDE DEF S
  <2> QED BY <1>0, <2>1, <2>2, <2>3 DEF BornOK, Reflowed
<1>6. ASSUME NEW c \in Callers, SpawnPane(c) \/ AddSplit(c) PROVE Goal
  BY <1>1, <1>5, <1>6 DEF SpawnPane, AddSplit
<1>7. ASSUME NEW c \in Callers, KillWindow(c) PROVE Goal
  BY <1>0, <1>7 DEF KillWindow, BornOK
<1>8. ASSUME NEW c \in Callers, RemoveKill(c) PROVE Goal
  <2>1. born' = born /\ wnd' = wnd
    BY <1>8 DEF RemoveKill
  <2>2. CASE addr' = addr
    BY <1>1, <2>1, <2>2
  <2>3. CASE addr' # addr
    <3>1. PICK m \in call[c].todo :
             addr' \in {[new EXCEPT ![m.pane] = NoAddr] :
                         new \in Reflowed({p \in Panes : Live(p) /\ wnd[p] = wnd[m.pane]})}
      BY <1>8, <2>3 DEF RemoveKill
    <3> DEFINE S == {p \in Panes : Live(p) /\ wnd[p] = wnd[m.pane]}
    <3>2. PICK new \in Reflowed(S) : addr' = [new EXCEPT ![m.pane] = NoAddr]
      BY <3>1
    <3>3. \A p \in Panes : p > born => p \notin S
      BY DEF BornOK, Live
    <3> HIDE DEF S
    <3>4. \A p \in Panes : p > born => addr'[p] = NoAddr
      BY <3>2, <3>3 DEF Reflowed, BornOK
    <3> QED BY <2>1, <3>4 DEF BornOK
  <2> QED BY <2>2, <2>3
<1> HIDE DEF Goal
<1> QED BY <1>1, <1>2, <1>3, <1>4, <1>6, <1>7, <1>8, PanesBy

LEMMA SameFresh ==
    ASSUME CallsOK, [Next]_vars, NEW c \in Callers, ~Acts(c) PROVE Fresh(c)' = Fresh(c)
BY CallKept DEF Same, Fresh

\* A call's own step gives it at most the pane that it makes.
LEMMA FreshStep ==
    ASSUME TypeInv, [Next]_vars, NEW c \in Callers, NEW p \in Fresh(c)'
    PROVE  p \in Fresh(c) \/ (p = born + 1 /\ born' = born + 1 /\ (SpawnPane(c) \/ AddSplit(c)))
<1> USE DEF TypeInv, SpawnPcs, OwnPcs, RekeyPcs
<1>1. CASE ~Acts(c)
  BY <1>1, SameFresh
<1>2. CASE KillTool(c)
  BY <1>2, KillAfter DEF KillTool, Fresh
<1>3. CASE SpawnStart(c) \/ SpawnRecord(c)
  BY <1>3, SpawnAfter, IdleIs DEF Fresh
<1>4. CASE SpawnPane(c)
  <2>1. call[c].pc \in SpawnPcs
    BY <1>4 DEF SpawnPane
  <2>2. call'[c].pc = "panes"
    BY <1>4, SpawnAfter
  <2>3. \/ call'[c].todo = call[c].todo
        \/ /\ born' = born + 1
           /\ \E m : call'[c].todo = call[c].todo \cup {m} /\ m.pane = born + 1
    BY <1>4, SpawnAfter
  <2> QED BY <1>4, <2>1, <2>2, <2>3 DEF Fresh, Acts, SpawnTool
<1>5. CASE RemoveTool(c) \/ StatusTool(c) \/ Crash(c)
  BY <1>5, RemoveAfter, StatusAfter, CrashAfter, IdleIs DEF RemoveTool, StatusTool, Fresh
<1>6. CASE AddStart(c) \/ AddCommit(c)
  BY <1>6, AddPc DEF Fresh
<1>7. CASE AddSplit(c)
  <2>1. CASE call'[c] = IdleCall
    BY <2>1, IdleIs DEF Fresh
  <2>2. CASE call'[c].pc = "look" /\ call'[c].new = {born + 1} /\ born' = born + 1
    BY <1>7, <2>2 DEF Fresh, Acts, AddTool
  <2> QED BY <1>7, <2>1, <2>2, AddAfter
<1>8. CASE \/ AddLook(c) \/ AddRekey(c) \/ AddPids(c) \/ AddStage(c) \/ AddMerge(c) \/ AddLaunch(c)
  <2>1. call[c].pc \in OwnPcs /\ call[c] \in CallRecords
    BY <1>8 DEF AddLook, AddRekey, AddPids, AddStage, AddMerge, AddLaunch, CallsOK
  <2>2. Fresh(c) = call[c].new
    BY <2>1 DEF Fresh
  <2>3. call'[c] = IdleCall \/ call'[c].new = call[c].new
    <3>1. CASE AddLook(c)
      BY <3>1, AddAfter
    <3>2. CASE AddRekey(c)
      <4>1. call'[c] = IdleCall \/ call'[c] = [call[c] EXCEPT !.pc = "pids"]
        BY <3>2, AddAfter
      <4> QED BY <2>1, <4>1 DEF CallRecords
    <3>3. CASE AddPids(c)
      <4>1. call'[c] = [call[c] EXCEPT !.pc = "stage"]
        BY <3>3, AddAfter
      <4> QED BY <2>1, <4>1 DEF CallRecords
    <3>4. CASE AddStage(c)
      <4>1. call'[c] = [call[c] EXCEPT !.pc = "merge", !.staged = Aside(c)]
        BY <3>4, AddAfter
      <4> QED BY <2>1, <4>1 DEF CallRecords
    <3>5. CASE AddMerge(c)
      <4>1. call'[c] = [call[c] EXCEPT !.pc = "launch", !.staged = {}]
        BY <3>5, AddAfter
      <4> QED BY <2>1, <4>1 DEF CallRecords
    <3>6. CASE AddLaunch(c)
      <4>1. PICK q : \/ call'[c] = [call[c] EXCEPT !.pc = "commit"]
                     \/ call'[c] = [call[c] EXCEPT !.pc = "record", !.todo = {Launched(c, q)}]
        BY <3>6, AddAfter
      <4> QED BY <2>1, <4>1 DEF CallRecords
    <3> QED BY <1>8, <3>1, <3>2, <3>3, <3>4, <3>5, <3>6
  <2>4. CASE call'[c].new = call[c].new
    <3>1. call'[c].pc \notin SpawnPcs
      BY <1>8, AddPc
    <3> QED BY <2>2, <2>4, <3>1 DEF Fresh
  <2> QED BY <2>3, <2>4, IdleIs DEF Fresh
<1> QED BY <1>1, <1>2, <1>3, <1>4, <1>5, <1>6, <1>7, <1>8 DEF Acts, SpawnTool, AddTool

\* Rows keep their panes; a new one is of a pane that registers.
LEMMA RowsFrom ==
    ASSUME TypeInv, [Next]_vars, NEW r \in agents'
    PROVE  \/ \E s \in agents : s.pane = r.pane
           \/ r.pane \in Panes /\ HookCommit(r.pane)
<1> USE DEF TypeInv
<1>0. agents \subseteq Rows
  BY DEF TypeOK
<1>1. ASSUME NEW p \in Panes, HookCommit(p)
      PROVE  r \in agents \/ r.pane = p
  <2> DEFINE taken == \E s \in agents : s.id = reg[p].id /\ s.pane # p /\ Live(s.pane)
             i     == IF taken THEN [reg[p].id EXCEPT !.sfx = p] ELSE reg[p].id
  <2>1. agents' \subseteq agents \cup {[id |-> i, pane |-> p, target |-> reg[p].target, role |-> i.role]}
    BY <1>1 DEF HookCommit
  <2> HIDE DEF i
  <2> QED BY <2>1
<1>2. ASSUME Prune \/ \E c \in Callers : StatusStart(c)
      PROVE  \E s \in agents : s.pane = r.pane
  <2>1. PICK s \in agents : r = s \/ r = [s EXCEPT !.target = addr[s.pane]]
    BY <1>2 DEF Prune, StatusStart
  <2>2. s \in Rows
    BY <1>0
  <2> QED BY <2>1, <2>2 DEF Rows
<1>3. ASSUME NEW c \in Callers, AddCommit(c) PROVE \E s \in agents : s.pane = r.pane
  <2>1. agents' = agents \/ agents' = RekeyedAgents(call[c].moves)
    BY <1>3 DEF AddCommit
  <2>2. ASSUME r \in RekeyedAgents(call[c].moves) PROVE \E s \in agents : s.pane = r.pane
    <3> DEFINE M(s) == CHOOSE n \in Rekeys(call[c].moves) : n.row = s.id
    <3>1. PICK s \in agents :
             \/ r = s
             \/ r = [s EXCEPT !.id = M(s).new, !.target = M(s).target, !.role = M(s).member.role]
      BY <2>2 DEF RekeyedAgents
    <3> HIDE DEF M
    <3>2. s \in Rows
      BY <1>0
    <3>3. r.pane = s.pane
      BY <3>1, <3>2 DEF Rows
    <3> QED BY <3>3
  <2> QED BY <2>1, <2>2
<1>4. ASSUME NEW p \in Panes, Exit(p) PROVE r \in agents
  BY <1>4 DEF Exit
<1>5. ASSUME NEW c \in Callers, KillDelete(c) PROVE r \in agents
  BY <1>5 DEF KillDelete
<1> QED BY <1>1, <1>2, <1>3, <1>4, <1>5, AgentsBy

\* Members keep their panes; a new one has a pane that its call just made.
LEMMA MembersFrom ==
    ASSUME TypeInv, OwnedOnce, [Next]_vars, NEW m \in members'
    PROVE  \/ \E n \in members : n.pane = m.pane
           \/ \E c \in Callers : (SpawnRecord(c) \/ AddCommit(c)) /\ m.pane \in Fresh(c)
<1> USE DEF TypeInv
<1>0. members \subseteq Members
  BY DEF TypeOK
<1>1. ASSUME NEW c \in Callers, SpawnRecord(c) PROVE m \in members \/ m.pane \in Fresh(c)
  BY <1>1 DEF SpawnRecord, Fresh, SpawnPcs
<1>2. ASSUME NEW c \in Callers, AddCommit(c)
      PROVE  (\E n \in members : n.pane = m.pane) \/ m.pane \in Fresh(c)
  <2> DEFINE new == IF call[c].pc = "record"
                    THEN {[x EXCEPT !.repo = rooms[x.room].repo] : x \in call[c].todo} ELSE {}
  <2>1. members' \subseteq members \cup RekeyedMembers(call[c].moves) \cup new
    BY <1>2 DEF AddCommit
  <2>2. ASSUME m \in RekeyedMembers(call[c].moves) PROVE \E n \in members : n.pane = m.pane
    <3> DEFINE M(x) == CHOOSE n \in call[c].moves : n.member.pane = x.pane
    <3>1. PICK x \in members :
             \/ m = x
             \/ m = [x EXCEPT !.target = M(x).target, !.inst = IF M(x).hit THEN M(x).new ELSE NoId,
                              !.active = M(x).hit]
      BY <2>2 DEF RekeyedMembers
    <3> HIDE DEF M
    <3>2. x \in Members
      BY <1>0
    <3>3. m.pane = x.pane
      BY <3>1, <3>2 DEF Members
    <3> QED BY <3>3
  <2>3. ASSUME m \in new PROVE m.pane \in Fresh(c)
    <3>1. call[c].pc = "record"
      BY <2>3
    <3>2. PICK x \in call[c].todo : m = [x EXCEPT !.repo = rooms[x.room].repo]
      BY <2>3, <3>1
    <3>3. x \in Members
      BY DEF CallsOK, CallRecords
    <3>4. m.pane = x.pane /\ x.pane \in call[c].new
      BY <3>1, <3>2, <3>3 DEF Members, OwnedOnce
    <3> QED BY <3>1, <3>4 DEF Fresh, SpawnPcs, OwnPcs, RekeyPcs
  <2> HIDE DEF new
  <2> QED BY <1>2, <2>1, <2>2, <2>3
<1>3. ASSUME NEW c \in Callers, StatusStart(c) PROVE \E n \in members : n.pane = m.pane
  <2>1. PICK n \in members : m = n \/ m = [n EXCEPT !.target = addr[n.pane]]
    BY <1>3 DEF StatusStart
  <2>2. n \in Members
    BY <1>0
  <2> QED BY <2>1, <2>2 DEF Members
<1>4. ASSUME NEW c \in Callers, BackfillWrite(c) PROVE \E n \in members : n.pane = m.pane
  <2> DEFINE I(x) == Reconciled(x, (CHOOSE k \in call[c].joined : k.pane = x.pane).row)
  <2>1. PICK n \in members : m = n \/ m = [n EXCEPT !.inst = I(n), !.active = I(n) # NoId]
    BY <1>4 DEF BackfillWrite
  <2> HIDE DEF I
  <2>2. n \in Members
    BY <1>0
  <2> QED BY <2>1, <2>2 DEF Members
<1>5. ASSUME NEW c \in Callers, KillDelete(c) \/ RemoveDelete(c) PROVE m \in members
  BY <1>5 DEF KillDelete, RemoveDelete
<1> QED BY <1>1, <1>2, <1>3, <1>4, <1>5, MembersBy

\* Runtimes start in panes that exist and that no other call has made.
LEMMA UpFrom ==
    ASSUME [Next]_vars, NEW p \in up'
    PROVE  \/ p \in up
           \/ p = born + 1 /\ born' = born + 1
           \/ \E c \in Callers : AddLaunch(c) /\ p \in call[c].new
<1>1. CASE NewPane
  BY <1>1 DEF NewPane
<1>2. ASSUME NEW c \in Callers, SpawnPane(c) PROVE p \in up \/ (p = born + 1 /\ born' = born + 1)
  BY <1>2 DEF SpawnPane, Split
<1>3. ASSUME NEW c \in Callers, AddLaunch(c) PROVE p \in up \/ p \in call[c].new
  BY <1>3 DEF AddLaunch
<1>4. ASSUME NEW q \in Panes, Exit(q) PROVE p \in up
  BY <1>4 DEF Exit
<1> QED BY <1>1, <1>2, <1>3, <1>4, UpBy

\* A registration in flight began in a pane whose runtime runs, and goes
\* before the runtime does.
LEMMA RegFrom ==
    ASSUME TypeInv, [Next]_vars, NEW p \in Panes, reg'[p] # IdleReg
    PROVE  \/ reg[p] # IdleReg /\ ~Exit(p)
           \/ HookRead(p)
<1> USE DEF TypeInv
<1>1. CASE \E q \in Panes : HookRead(q) \/ HookCommit(q) \/ HookKilled(q)
  <2>1. PICK q \in Panes : HookRead(q) \/ HookCommit(q) \/ HookKilled(q)
    BY <1>1
  <2>2. reg' = [reg EXCEPT ![q] = reg'[q]]
    BY <2>1 DEF HookRead, HookCommit, HookKilled, RegOK
  <2>3. HookCommit(q) \/ HookKilled(q) => reg'[q] = IdleReg
    BY DEF HookCommit, HookKilled, RegOK
  <2>4. ~Exit(p) \/ reg[p] = IdleReg
    BY DEF Exit
  <2> QED BY <2>1, <2>2, <2>3, <2>4 DEF RegOK
<1>2. CASE reg' = reg
  BY <1>2 DEF Exit
<1> QED BY <1>1, <1>2, RegBy

\* A runtime ends by Exit only.
LEMMA UpKept ==
    ASSUME [Next]_vars, NEW p \in up, ~Exit(p) PROVE p \in up'
<1>1. CASE NewPane
  BY <1>1 DEF NewPane
<1>2. ASSUME NEW q \in Panes, Exit(q) PROVE p \in up'
  BY <1>2 DEF Exit
<1>3. ASSUME NEW c \in Callers, SpawnPane(c) \/ AddLaunch(c) PROVE p \in up'
  BY <1>3 DEF SpawnPane, AddLaunch
<1> QED BY <1>1, <1>2, <1>3, UpBy

LEMMA FreshPanes ==
    ASSUME CallsOK, NEW c \in Callers PROVE Fresh(c) \subseteq Panes
BY DEF Fresh, CallsOK, CallRecords, Members

\* Nothing is used before it is made.
LEMMA BornOKStep ==
    ASSUME TypeInv, BornOK, OwnedOnce, [Next]_vars
    PROVE  BornOK'
<1> USE DEF TypeInv
<1> DEFINE Old(p) == p \in Panes /\ p <= born
           Made(p) == p \in Panes /\ p <= born'
<1>0. born' \in {born, born + 1} /\ born' \in Nat
  BY BornStep DEF TypeOK
<1>1. /\ \A c \in Callers : \A p \in Fresh(c) : Old(p)
      /\ \A p \in up : Old(p)
      /\ \A r \in agents : Old(r.pane)
      /\ \A m \in members : Old(m.pane)
      /\ \A p \in Panes : reg[p] # IdleReg => p \in up
  BY FreshPanes DEF BornOK, TypeOK, Rows, Members
<1>2. \A p : Old(p) => Made(p)
  BY <1>0 DEF Panes, TypeOK
<1>3. \A p : p = born + 1 /\ born' = born + 1 => p <= born'
  BY <1>0 DEF TypeOK
<1> HIDE DEF Old
<1>4. \A p \in up' : Made(p)
  <2>1. up' \subseteq Panes
    BY OutsideWorld, ToolWorld DEF Next, Outside, WorldOK
  <2>2. \A c \in Callers : AddLaunch(c) => Fresh(c) = call[c].new
    BY DEF AddLaunch, Fresh, SpawnPcs, OwnPcs, RekeyPcs
  <2> QED BY <1>1, <1>2, <1>3, <2>1, <2>2, UpFrom
<1>5. \A p \in Panes : p > born' => wnd'[p] = NoRoom /\ addr'[p] = NoAddr
  BY BornStep
<1>6. ASSUME NEW p \in Panes, reg'[p] # IdleReg PROVE p \in up'
  <2>1. p \in up /\ (~Exit(p) \/ HookRead(p))
    BY <1>1, <1>6, RegFrom DEF HookRead
  <2>2. HookRead(p) => up' = up
    BY DEF HookRead, tmux
  <2> QED BY <2>1, <2>2, UpKept
<1>7. ASSUME NEW r \in agents' PROVE Made(r.pane)
  <2>1. ASSUME r.pane \in Panes, HookCommit(r.pane) PROVE Old(r.pane)
    BY <1>1, <2>1 DEF HookCommit
  <2> QED BY <1>1, <1>2, <2>1, RowsFrom
<1>8. ASSUME NEW m \in members' PROVE Made(m.pane)
  BY <1>1, <1>2, MembersFrom
<1>9. ASSUME NEW c \in Callers, NEW p \in Fresh(c)' PROVE p <= born'
  BY <1>1, <1>2, <1>3, FreshStep
<1>10. up' \subseteq 1 .. born'
  BY <1>0, <1>4 DEF Panes
<1> QED BY <1>5, <1>6, <1>7, <1>8, <1>9, <1>10 DEF BornOK

\* Only the call that makes a pane has it.
LEMMA FreshApart ==
    ASSUME TypeInv, BornOK, OwnedOnce, [Next]_vars,
           NEW c \in Callers, NEW d \in Callers, c # d
    PROVE  Fresh(c)' \cap Fresh(d)' = {}
<1> USE DEF TypeInv
<1>1. born \in Nat /\ \A x \in Callers : \A p \in Fresh(x) : p # born + 1
  BY FreshPanes DEF BornOK, TypeOK, Panes
<1>2. Fresh(c) \cap Fresh(d) = {}
  BY DEF OwnedOnce
<1>3. ASSUME NEW x \in Callers, NEW y \in Callers, x # y, SpawnPane(x) \/ AddSplit(x)
      PROVE  Fresh(y)' = Fresh(y)
  <2>1. Acts(x) /\ ~KillDelete(x) /\ ~AddCommit(x)
    BY <1>3 DEF Acts, SpawnTool, AddTool, SpawnPane, AddSplit, KillDelete, AddCommit
  <2>2. call'[y] = call[y]
    BY <1>3, <2>1, ToolsMind
  <2> QED BY <2>2 DEF Fresh
<1> QED BY <1>1, <1>2, <1>3, FreshStep

LEMMA MembersApart ==
    ASSUME TypeInv, BornOK, OwnedOnce, [Next]_vars, NEW c \in Callers, NEW m \in members'
    PROVE  m.pane \notin Fresh(c)'
<1> USE DEF TypeInv
<1>1. born \in Nat /\ \A x \in Callers : \A p \in Fresh(x) : p # born + 1
  BY FreshPanes DEF BornOK, TypeOK, Panes
<1>2. CASE \E n \in members : n.pane = m.pane
  <2>1. m.pane \notin Fresh(c) /\ m.pane <= born /\ m.pane \in Panes
    BY <1>2 DEF OwnedOnce, BornOK, TypeOK, Members
  <2> QED BY <1>1, <2>1, FreshStep DEF Panes
<1>3. ASSUME NEW d \in Callers, SpawnRecord(d) \/ AddCommit(d), m.pane \in Fresh(d)
      PROVE  m.pane \notin Fresh(c)'
  <2>1. CASE c = d
    <3>1. call'[d] = IdleCall
      BY <1>3, SpawnAfter, AddAfter
    <3> QED BY <2>1, <3>1 DEF Fresh, IdleCall, SpawnPcs, OwnPcs, RekeyPcs
  <2>2. CASE c # d
    <3>1. m.pane \notin Fresh(c)
      BY <1>3, <2>2 DEF OwnedOnce
    <3> QED BY <1>1, <1>3, <3>1, FreshStep
  <2> QED BY <2>1, <2>2
<1> QED BY <1>2, <1>3, MembersFrom

LEMMA MembersUnique ==
    ASSUME TypeInv, OwnedOnce, [Next]_vars
    PROVE  UniquePanes(members')
<1> USE DEF TypeInv
<1>0. UniquePanes(members) /\ members \subseteq Members
  BY DEF OwnedOnce, TypeOK
<1>1. ASSUME NEW c \in Callers, SpawnRecord(c) PROVE UniquePanes(members')
  <2>1. UniquePanes(call[c].todo) /\ Fresh(c) = {m.pane : m \in call[c].todo}
    BY <1>1 DEF OwnedOnce, SpawnRecord, Fresh, SpawnPcs
  <2>2. \A m \in members, n \in call[c].todo : m.pane # n.pane
    BY <2>1 DEF OwnedOnce
  <2>3. members' \subseteq members \cup call[c].todo
    BY <1>1 DEF SpawnRecord
  <2> QED BY <1>0, <2>1, <2>2, <2>3 DEF UniquePanes
<1>2. ASSUME NEW c \in Callers, AddCommit(c) PROVE UniquePanes(members')
  <2> DEFINE new == IF call[c].pc = "record"
                    THEN {[x EXCEPT !.repo = rooms[x.room].repo] : x \in call[c].todo} ELSE {}
  <2>1. members' = members \/ members' = RekeyedMembers(call[c].moves) \cup new
    BY <1>2 DEF AddCommit
  <2> DEFINE M(x) == CHOOSE n \in call[c].moves : n.member.pane = x.pane
             F(x) == IF \E n \in call[c].moves : n.member.pane = x.pane
                     THEN [x EXCEPT !.target = M(x).target,
                                    !.inst = IF M(x).hit THEN M(x).new ELSE NoId,
                                    !.active = M(x).hit]
                     ELSE x
  <2>2. ASSUME NEW m \in RekeyedMembers(call[c].moves)
        PROVE  \E x \in members : m = F(x) /\ m.pane = x.pane
    <3>1. PICK x \in members : m = F(x)
      BY DEF RekeyedMembers
    <3>2. x \in Members
      BY <1>0
    <3> HIDE DEF M
    <3>3. F(x).pane = x.pane
      BY <3>2 DEF Members
    <3> HIDE DEF F
    <3> QED BY <3>1, <3>3
  <2>3. ASSUME NEW m \in new
        PROVE  /\ call[c].pc = "record"
               /\ \E x \in call[c].todo : /\ m = [x EXCEPT !.repo = rooms[x.room].repo]
                                          /\ m.pane = x.pane
    <3>1. call[c].pc = "record"
      OBVIOUS
    <3>2. PICK x \in call[c].todo : m = [x EXCEPT !.repo = rooms[x.room].repo]
      BY <3>1
    <3>3. x \in Members
      BY DEF CallsOK, CallRecords
    <3>4. m.pane = x.pane
      BY <3>2, <3>3 DEF Members
    <3> QED BY <3>1, <3>2, <3>4
  <2> HIDE DEF F, M, new
  <2>4. UniquePanes(RekeyedMembers(call[c].moves))
    BY <1>0, <2>2 DEF UniquePanes
  <2>5. UniquePanes(new)
    <3> SUFFICES ASSUME NEW m \in new, NEW n \in new, m.pane = n.pane PROVE m = n
      BY DEF UniquePanes
    <3>1. PICK x \in call[c].todo : m = [x EXCEPT !.repo = rooms[x.room].repo] /\ m.pane = x.pane
      BY <2>3
    <3>2. PICK y \in call[c].todo : n = [y EXCEPT !.repo = rooms[y.room].repo] /\ n.pane = y.pane
      BY <2>3
    <3>3. UniquePanes(call[c].todo)
      BY <2>3 DEF OwnedOnce
    <3>4. x = y
      BY <3>1, <3>2, <3>3 DEF UniquePanes
    <3> QED BY <3>1, <3>2, <3>4
  <2>6. \A m \in RekeyedMembers(call[c].moves), n \in new : m.pane # n.pane
    <3> SUFFICES ASSUME NEW m \in RekeyedMembers(call[c].moves), NEW n \in new PROVE m.pane # n.pane
      OBVIOUS
    <3>1. PICK x \in call[c].todo : n.pane = x.pane
      BY <2>3
    <3>2. x.pane \in Fresh(c)
      BY <2>3 DEF OwnedOnce, Fresh, SpawnPcs, OwnPcs, RekeyPcs
    <3>3. PICK y \in members : m.pane = y.pane
      BY <2>2
    <3> QED BY <3>1, <3>2, <3>3 DEF OwnedOnce
  <2> QED BY <1>0, <2>1, <2>4, <2>5, <2>6 DEF UniquePanes
<1>3. ASSUME NEW c \in Callers, StatusStart(c) PROVE UniquePanes(members')
  <2> DEFINE F(x) == IF Live(x.pane) THEN [x EXCEPT !.target = addr[x.pane]] ELSE x
  <2>1. members' = {F(x) : x \in members}
    BY <1>3 DEF StatusStart
  <2>2. ASSUME NEW x \in members PROVE F(x).pane = x.pane
    BY <1>0 DEF Members
  <2> HIDE DEF F
  <2> QED BY <1>0, <2>1, <2>2 DEF UniquePanes
<1>4. ASSUME NEW c \in Callers, BackfillWrite(c) PROVE UniquePanes(members')
  <2> DEFINE I(x) == Reconciled(x, (CHOOSE k \in call[c].joined : k.pane = x.pane).row)
             F(x) == IF \E j \in call[c].joined : j.pane = x.pane
                     THEN [x EXCEPT !.inst = I(x), !.active = I(x) # NoId] ELSE x
  <2>1. members' = {F(x) : x \in members}
    BY <1>4 DEF BackfillWrite
  <2>2. ASSUME NEW x \in members PROVE F(x).pane = x.pane
    <3> HIDE DEF I
    <3> QED BY <1>0 DEF Members
  <2> HIDE DEF F
  <2> QED BY <1>0, <2>1, <2>2 DEF UniquePanes
<1>5. ASSUME NEW c \in Callers, KillDelete(c) \/ RemoveDelete(c) PROVE UniquePanes(members')
  BY <1>0, <1>5 DEF KillDelete, RemoveDelete, UniquePanes
<1>6. CASE members' = members
  BY <1>0, <1>6
<1> QED BY <1>1, <1>2, <1>3, <1>4, <1>5, <1>6, MembersBy

LEMMA MovesUnique ==
    ASSUME NEW M, NEW N, UniqueMoves(M), MovesKept(M, N)
    PROVE  UniqueMoves(N)
<1>1. PICK g \in [M -> Moves] : N = {g[m] : m \in M} /\ \A m \in M : g[m].member = m.member
  BY DEF MovesKept
<1> QED BY <1>1 DEF UniqueMoves

\* What a call has read or made, it has once.
LEMMA TodoUnique ==
    ASSUME TypeInv, BornOK, OwnedOnce, [Next]_vars, NEW c \in Callers,
           call'[c].pc \in SpawnPcs \cup {"look", "record"}
    PROVE  /\ UniquePanes(call'[c].todo)
           /\ call'[c].pc = "record" => \A m \in call'[c].todo : m.pane \in call'[c].new
<1> USE DEF TypeInv
<1>0. born \in Nat /\ \A x \in Callers : \A p \in Fresh(x) : p # born + 1
  BY FreshPanes DEF BornOK, TypeOK, Panes
<1>1. CASE ~Acts(c)
  BY <1>1, CallKept DEF Same, OwnedOnce
<1>2. CASE KillTool(c) \/ SpawnStart(c)
  BY <1>2, KillAfter, SpawnAfter DEF KillTool, UniquePanes, SpawnPcs
<1>3. CASE SpawnPane(c)
  <2>1. call[c].pc \in SpawnPcs /\ call'[c].pc = "panes"
    BY <1>3, SpawnAfter DEF SpawnPane, SpawnPcs
  <2>2. UniquePanes(call[c].todo) /\ Fresh(c) = {m.pane : m \in call[c].todo}
    BY <2>1 DEF OwnedOnce, Fresh
  <2>3. \/ call'[c].todo = call[c].todo
        \/ \E m : call'[c].todo = call[c].todo \cup {m} /\ m.pane = born + 1
    BY <1>3, SpawnAfter
  <2> QED BY <1>0, <2>1, <2>2, <2>3 DEF UniquePanes
<1>4. CASE AddSplit(c)
  <2>1. call'[c].pc = "look" /\ call'[c].todo = MembersOf(call[c].room)
    BY <1>4, AddAfter, IdleIs DEF SpawnPcs
  <2> QED BY <2>1 DEF MembersOf, OwnedOnce, UniquePanes
<1>5. CASE AddLaunch(c)
  <2>1. PICK p \in call[c].new : call'[c] = [call[c] EXCEPT !.pc = "record", !.todo = {Launched(c, p)}]
    <3>1. call'[c] # [call[c] EXCEPT !.pc = "commit"]
      BY DEF CallsOK, CallRecords, SpawnPcs
    <3> QED BY <1>5, <3>1, AddAfter
  <2>2. call'[c].todo = {Launched(c, p)} /\ call'[c].new = call[c].new
    BY <2>1 DEF CallsOK, CallRecords
  <2>3. Launched(c, p).pane = p
    BY DEF Launched
  <2> QED BY <2>2, <2>3 DEF UniquePanes
<1>6. CASE \/ AddStart(c) \/ AddLook(c) \/ AddRekey(c) \/ AddPids(c) \/ AddStage(c) \/ AddMerge(c)
           \/ AddCommit(c)
  BY <1>6, AddPc DEF SpawnPcs
<1>7. CASE SpawnRecord(c) \/ RemoveTool(c) \/ StatusTool(c) \/ Crash(c)
  <2>1. ~StatusTool(c)
    BY StatusAfter, IdleIs DEF StatusTool, SpawnPcs
  <2>2. ~SpawnRecord(c) /\ ~RemoveTool(c) /\ ~Crash(c)
    BY SpawnAfter, RemoveAfter, CrashAfter, IdleIs DEF RemoveTool, SpawnPcs
  <2> QED BY <1>7, <2>1, <2>2
<1> QED BY <1>1, <1>2, <1>3, <1>4, <1>5, <1>6, <1>7 DEF Acts, SpawnTool, AddTool

\* One move for a member.
LEMMA MovesStayUnique ==
    ASSUME TypeInv, OwnedOnce, [Next]_vars, NEW c \in Callers
    PROVE  UniqueMoves(call'[c].moves)
<1> USE DEF TypeInv
<1>0. UniqueMoves(call[c].moves) /\ UniqueMoves({}) /\ call[c] \in CallRecords
  BY DEF OwnedOnce, UniqueMoves, CallsOK
<1>1. CASE ~Acts(c)
  BY <1>0, <1>1, CallKept, MovesUnique DEF Same
<1>2. CASE KillTool(c) \/ SpawnTool(c)
  BY <1>0, <1>2, KillAfter, SpawnAfter, IdleIs, MovesUnique DEF KillTool, SpawnTool
<1>3. CASE RemoveTool(c) \/ StatusTool(c) \/ Crash(c)
  BY <1>0, <1>3, RemoveAfter, StatusAfter, CrashAfter, IdleIs DEF RemoveTool
<1>4. CASE AddStart(c) \/ AddSplit(c) \/ AddCommit(c)
  BY <1>0, <1>4, AddAfter, IdleIs
<1>5. CASE AddLook(c)
  <2>0. PICK here : here = {m \in call[c].todo : Live(m.pane)}
    OBVIOUS
  <2>1. UniquePanes(here)
    BY <1>5, <2>0 DEF AddLook, OwnedOnce, UniquePanes
  <2>2. PICK row \in [here -> {r.id : r \in agents} \cup {NoId}] :
          call' = [call EXCEPT ![c].pc = "rekey", ![c].todo = {},
              ![c].moves = {[member |-> m, target |-> addr[m.pane], old |-> OldId(m),
                             new |-> Canonical(m.repo, m.role, addr[m.pane]),
                             row |-> row[m], hit |-> row[m] # NoId] : m \in here}]
    BY <1>5, <2>0 DEF AddLook
  <2>3. call'[c].moves = {[member |-> m, target |-> addr[m.pane], old |-> OldId(m),
                           new |-> Canonical(m.repo, m.role, addr[m.pane]),
                           row |-> row[m], hit |-> row[m] # NoId] : m \in here}
    <3> DEFINE S == {[member |-> m, target |-> addr[m.pane], old |-> OldId(m),
                           new |-> Canonical(m.repo, m.role, addr[m.pane]),
                           row |-> row[m], hit |-> row[m] # NoId] : m \in here}
    <3>1. call' = [call EXCEPT ![c].pc = "rekey", ![c].todo = {}, ![c].moves = S]
      BY <2>2
    <3> HIDE DEF S
    <3>2. call'[c].moves = S
      BY <1>0, <3>1 DEF CallsOK, CallRecords
    <3> QED BY <3>2 DEF S
  <2> QED BY <2>1, <2>3 DEF UniqueMoves, UniquePanes
<1>6. CASE AddRekey(c) \/ AddPids(c) \/ AddStage(c) \/ AddMerge(c) \/ AddLaunch(c)
  <2>1. CASE call'[c] = IdleCall
    BY <1>0, <2>1, IdleIs
  <2>2. CASE call'[c] # IdleCall
    <3>1. PICK p : \/ call'[c] = [call[c] EXCEPT !.pc = "pids"]
                   \/ call'[c] = [call[c] EXCEPT !.pc = "stage"]
                   \/ call'[c] = [call[c] EXCEPT !.pc = "merge", !.staged = Aside(c)]
                   \/ call'[c] = [call[c] EXCEPT !.pc = "launch", !.staged = {}]
                   \/ call'[c] = [call[c] EXCEPT !.pc = "commit"]
                   \/ call'[c] = [call[c] EXCEPT !.pc = "record", !.todo = {Launched(c, p)}]
      BY <1>6, <2>2, AddAfter
    <3>2. call'[c].moves = call[c].moves
      BY <1>0, <3>1 DEF CallRecords
    <3> QED BY <1>0, <3>2
  <2> QED BY <2>1, <2>2
<1> QED BY <1>1, <1>2, <1>3, <1>4, <1>5, <1>6 DEF Acts, AddTool

LEMMA OwnedOnceStep ==
    ASSUME TypeInv, BornOK, OwnedOnce, [Next]_vars
    PROVE  OwnedOnce'
<1>1. UniquePanes(members')
  BY MembersUnique
<1>2. \A c \in Callers : \A m \in members' : m.pane \notin Fresh(c)'
  BY MembersApart
<1>3. \A c, d \in Callers : c # d => Fresh(c)' \cap Fresh(d)' = {}
  BY FreshApart
<1>4. \A c \in Callers :
         /\ call'[c].pc \in SpawnPcs \cup {"look", "record"} => UniquePanes(call'[c].todo)
         /\ call'[c].pc = "record" => \A m \in call'[c].todo : m.pane \in call'[c].new
         /\ UniqueMoves(call'[c].moves)
  BY TodoUnique, MovesStayUnique
<1> QED BY <1>1, <1>2, <1>3, <1>4 DEF OwnedOnce, UniquePanes, UniqueMoves

\* The pane of an add stays empty until its launch.
LEMMA NotStartedStep ==
    ASSUME TypeInv, OwnInv, [Next]_vars
    PROVE  NotStarted'
<1> USE DEF TypeInv, OwnInv
<1> SUFFICES ASSUME NEW c \in Callers, call'[c].pc \in OwnPcs \ {"record", "commit"},
                    NEW p \in call'[c].new
             PROVE  p \notin up' /\ \A r \in agents' : r.pane # p
  BY DEF NotStarted, RowsOf
<1>0. born \in Nat /\ \A x \in Callers : \A q \in Fresh(x) : q # born + 1
  BY FreshPanes DEF BornOK, TypeOK, Panes
<1>1. p \in Fresh(c)'
  BY PcSets DEF Fresh, AddPcs
<1>2. HookCommit(p) /\ p \in Panes => p \in up
  BY DEF HookCommit, BornOK
<1>3. CASE p \in Fresh(c)
  <2>1. call[c].pc \in OwnPcs \ {"record", "commit"} /\ p \in call[c].new /\ ~AddLaunch(c)
    <3>1. CASE ~Acts(c)
      BY <1>3, <3>1, CallKept DEF Same, Fresh, Acts, AddTool
    <3>2. CASE KillTool(c) \/ SpawnTool(c)
      BY <3>2, KillAfter, SpawnAfter, IdleIs DEF KillTool, SpawnTool, OwnPcs, RekeyPcs
    <3>3. CASE RemoveTool(c) \/ Crash(c)
      BY <3>3, RemoveAfter, CrashAfter, IdleIs DEF RemoveTool, OwnPcs, RekeyPcs
    <3>4. CASE StatusTool(c)
      BY <3>4, StatusAfter, IdleIs DEF StatusTool, OwnPcs, RekeyPcs
    <3>5. CASE AddTool(c)
      <4>1. ~AddStart(c) /\ ~AddLaunch(c) /\ ~AddCommit(c)
        BY AddPc DEF OwnPcs, RekeyPcs
      <4>2. ~AddSplit(c)
        BY <1>3 DEF AddSplit, Fresh, SpawnPcs, OwnPcs, RekeyPcs
      <4>3. call[c].pc \in {"look", "rekey", "pids", "stage", "merge"}
        BY <3>5, <4>1, <4>2 DEF AddTool, AddLook, AddRekey, AddPids, AddStage, AddMerge
      <4> QED BY <1>3, <4>1, <4>3 DEF Fresh, SpawnPcs, OwnPcs, RekeyPcs
    <3> QED BY <3>1, <3>2, <3>3, <3>4, <3>5 DEF Acts
  <2>2. p \notin up /\ (\A r \in agents : r.pane # p)
    BY <2>1 DEF NotStarted, RowsOf
  <2>3. ASSUME NEW d \in Callers, AddLaunch(d), p \in call[d].new PROVE FALSE
    <3>1. d # c
      BY <2>1, <2>3
    <3>2. p \in Fresh(d)
      BY <2>3 DEF AddLaunch, Fresh, SpawnPcs, OwnPcs, RekeyPcs
    <3> QED BY <1>3, <3>1, <3>2 DEF OwnedOnce
  <2>4. p \notin up'
    BY <1>0, <1>3, <2>2, <2>3, UpFrom
  <2> QED BY <1>2, <2>2, <2>4, RowsFrom
<1>4. CASE p \notin Fresh(c)
  <2>1. p = born + 1 /\ (SpawnPane(c) \/ AddSplit(c))
    BY <1>1, <1>4, FreshStep
  <2>2. AddSplit(c)
    BY <2>1, SpawnAfter DEF OwnPcs, RekeyPcs
  <2>3. up' = up /\ agents' = agents
    BY <2>2 DEF AddSplit, db
  <2> QED BY <1>0, <2>1, <2>3 DEF BornOK, TypeOK, Rows, Panes
<1> QED BY <1>3, <1>4

LEMMA OneRowStep ==
    ASSUME TypeInv, OneRowPerPane, [Next]_vars
    PROVE  OneRowPerPane'
<1> USE DEF TypeInv
<1> DEFINE Goal == \A r, s \in agents' : r.pane = s.pane => r = s
<1> SUFFICES Goal
  BY DEF OneRowPerPane
<1>0. agents \subseteq Rows /\ \A r, s \in agents : r.pane = s.pane => r = s
  BY DEF TypeOK, OneRowPerPane
<1>1. CASE agents' \subseteq agents
  BY <1>0, <1>1
<1>2. ASSUME NEW p \in Panes, HookCommit(p) PROVE Goal
  <2> DEFINE taken == \E s \in agents : s.id = reg[p].id /\ s.pane # p /\ Live(s.pane)
             i     == IF taken THEN [reg[p].id EXCEPT !.sfx = p] ELSE reg[p].id
             losers == {r.pane : r \in {s \in agents : s.id = i}} \cup {p}
             new == [id |-> i, pane |-> p, target |-> reg[p].target, role |-> i.role]
  <2>1. agents' = (agents \ {r \in agents : r.pane \in losers}) \cup {new}
    BY <1>2 DEF HookCommit
  <2>2. new.pane = p /\ p \in losers
    OBVIOUS
  <2> HIDE DEF new, losers
  <2> QED BY <1>0, <2>1, <2>2
<1>4. CASE Prune \/ \E c \in Callers : StatusStart(c)
  <2> DEFINE F(r) == IF Live(r.pane) THEN [r EXCEPT !.target = addr[r.pane]] ELSE r
  <2>1. agents' \subseteq {F(r) : r \in agents}
    BY <1>4 DEF Prune, StatusStart
  <2>2. ASSUME NEW r \in agents PROVE F(r).pane = r.pane
    BY <1>0 DEF Rows
  <2> HIDE DEF F
  <2> QED BY <1>0, <2>1, <2>2
<1>5. ASSUME NEW c \in Callers, AddCommit(c) PROVE Goal
  <2> DEFINE M(r) == CHOOSE n \in Rekeys(call[c].moves) : n.row = r.id
             F(r) == IF \E m \in Rekeys(call[c].moves) : m.row = r.id
                     THEN [r EXCEPT !.id = M(r).new, !.target = M(r).target,
                                    !.role = M(r).member.role]
                     ELSE r
  <2>1. agents' = agents \/ agents' = {F(r) : r \in agents}
    BY <1>5 DEF AddCommit, RekeyedAgents
  <2>2. ASSUME NEW r \in agents PROVE F(r).pane = r.pane
    <3> HIDE DEF M
    <3> QED BY <1>0 DEF Rows
  <2> HIDE DEF F
  <2> QED BY <1>0, <2>1, <2>2
<1>6. ASSUME NEW p \in Panes, Exit(p) PROVE agents' \subseteq agents
  BY <1>6 DEF Exit
<1>7. ASSUME NEW c \in Callers, KillDelete(c) PROVE agents' \subseteq agents
  BY <1>7 DEF KillDelete
<1>8. agents' = agents => agents' \subseteq agents
  OBVIOUS
<1> HIDE DEF Goal
<1> QED BY <1>1, <1>2, <1>4, <1>5, <1>6, <1>7, <1>8, AgentsBy

LEMMA OwnStep ==
    ASSUME TypeInv, OwnInv, [Next]_vars
    PROVE  OwnInv'
BY BornOKStep, OwnedOnceStep, NotStartedStep, OneRowStep DEF OwnInv

LEMMA OwnInit == ASSUME Init PROVE OwnInv
<1>1. \A c \in Callers : call[c] = IdleCall /\ Fresh(c) = {}
  BY IdleIs DEF Init, Fresh, SpawnPcs, OwnPcs, RekeyPcs
<1>2. BornOK
  BY <1>1 DEF Init, BornOK
<1>3. OwnedOnce
  BY <1>1, IdleIs DEF Init, OwnedOnce, UniquePanes, UniqueMoves, SpawnPcs
<1>4. NotStarted /\ OneRowPerPane
  BY <1>1, IdleIs DEF Init, NotStarted, OneRowPerPane, OwnPcs, RekeyPcs
<1> QED BY <1>2, <1>3, <1>4 DEF OwnInv

LEMMA OwnInvAlways == Spec => [](TypeInv /\ OwnInv)
<1>1. TypeInv /\ OwnInv /\ [Next]_vars => TypeInv' /\ OwnInv'
  BY TypeStep, OwnStep
<1> QED BY <1>1, TypeInit, OwnInit, PTL DEF Spec


-----------------------------------------------------------------------------
(***************************************************************************)
(* An agent stays reachable                                                *)
(***************************************************************************)
LEMMA LockBelongs ==
    ASSUME TypeInv
    PROVE  /\ lock \in Callers \cup {NoCaller} /\ NoCaller \notin Callers
           /\ lock # NoCaller => lock \in Callers /\ call[lock].pc \in RekeyPcs
BY WarroomAssumption DEF TypeInv, TypeOK, RekeyPcs

\* A call that does not act loses nothing while it has the lock.
LEMMA LockedKept ==
    ASSUME TypeInv, [Next]_vars, lock \in Callers, ~Acts(lock)
    PROVE  call'[lock] = call[lock] /\ lock' = lock
<1> USE DEF TypeInv
<1>0. lock # NoCaller
  BY LockBelongs
<1>1. call'[lock] = call[lock]
  <2>1. CASE Outside
    BY <1>0, <2>1, OutsideCalls
  <2>2. ASSUME NEW d \in Callers, Acts(d) PROVE call'[lock] = call[lock]
    <3>1. d # lock
      BY <2>2
    <3>2. ~KillDelete(d) /\ ~AddCommit(d)
      BY <1>0, <3>1 DEF KillDelete, AddCommit
    <3> QED BY <2>2, <3>1, <3>2, ToolsMind
  <2> QED BY <2>1, <2>2 DEF Next, Outside, Acts
<1>2. lock' = lock
  <2>1. ASSUME NEW d \in Callers, AddRekey(d) \/ AddCommit(d) \/ Crash(d) PROVE lock' = lock
    <3>1. d # lock
      BY <2>1 DEF Acts, AddTool
    <3> QED BY <1>0, <2>1, <3>1 DEF AddRekey, AddCommit, Crash
  <2> QED BY <2>1, LockBy
<1> QED BY <1>1, <1>2

LEMMA LockOKStep ==
    ASSUME TypeInv, LockOK, [Next]_vars
    PROVE  LockOK'
<1> USE DEF TypeInv
<1> SUFFICES ASSUME NEW c \in Callers
             PROVE  /\ call'[c].pc \in AddPcs \ {"merge"} => call'[c].staged = {}
                    /\ call'[c].pc \in RekeyPcs /\ lock' # c =>
                         call'[c].moves = {} /\ call'[c].staged = {}
  BY DEF LockOK
<1>0. call[c] \in CallRecords /\ lock \in Callers \cup {NoCaller} /\ NoCaller \notin Callers
  BY LockBelongs DEF CallsOK
<1>1. CASE ~Acts(c)
  <2>1. Same(call[c], call'[c])
    BY <1>1, CallKept
  <2>2. lock' # c => lock # c
    BY <1>1, LockedKept
  <2>3. call[c].moves = {} => call'[c].moves = {}
    BY <2>1 DEF Same, MovesKept
  <2> QED BY <2>1, <2>2, <2>3 DEF Same, LockOK
<1>2. CASE KillTool(c) \/ SpawnTool(c) \/ RemoveTool(c) \/ StatusTool(c) \/ Crash(c)
  <2>1. call'[c].pc \notin AddPcs
    <3>1. KillTool(c) => call'[c].pc \in {"window", "members", "delete", "idle", "first"}
      BY KillAfter DEF KillTool
    <3>2. SpawnTool(c) => call'[c].pc \in {"window", "idle", "first", "panes"}
      BY SpawnAfter, IdleIs DEF SpawnTool
    <3>3. RemoveTool(c) => call'[c].pc \in {"pane", "drop", "idle"}
      BY RemoveAfter, IdleIs DEF RemoveTool
    <3>4. StatusTool(c) => call'[c].pc \in {"reap", "mark", "backfill", "fill", "idle"}
      BY StatusAfter, IdleIs DEF StatusTool
    <3>5. Crash(c) => call'[c].pc = "idle"
      BY CrashAfter, IdleIs
    <3> QED BY <1>2, <3>1, <3>2, <3>3, <3>4, <3>5 DEF AddPcs, OwnPcs, RekeyPcs
  <2> QED BY <2>1 DEF AddPcs, OwnPcs
<1>3. CASE AddStart(c)
  <2>1. PICK r, repo, role : call' = [call EXCEPT ![c] =
            [IdleCall EXCEPT !.pc = "split", !.room = r, !.repo = repo, !.role = role]]
    BY <1>3 DEF AddStart
  <2>2. call'[c].pc = "split" /\ call'[c].staged = {}
    BY <2>1 DEF CallsOK, IdleCall
  <2> QED BY <2>2 DEF RekeyPcs
<1>4. CASE AddSplit(c)
  <2> DEFINE S == MembersOf(call[c].room)
  <2>1. call'[c] = IdleCall \/ call' = [call EXCEPT ![c].pc = "look", ![c].new = {born + 1}, ![c].todo = S]
    BY <1>4 DEF AddSplit, CallsOK
  <2>2. call[c].staged = {}
    BY <1>4 DEF AddSplit, LockOK, AddPcs
  <2> HIDE DEF S
  <2>3. call'[c].pc \in {"idle", "look"} /\ call'[c].staged = {}
    BY <1>0, <2>1, <2>2, IdleIs DEF CallsOK, CallRecords
  <2> QED BY <2>3 DEF RekeyPcs
<1>5. CASE AddLook(c)
  <2>1. PICK M : call' = [call EXCEPT ![c].pc = "rekey", ![c].todo = {}, ![c].moves = M]
    BY <1>5 DEF AddLook
  <2>2. call[c].staged = {}
    BY <1>5 DEF AddLook, LockOK, AddPcs, OwnPcs
  <2>3. call'[c].pc = "rekey" /\ call'[c].staged = {}
    BY <1>0, <2>1, <2>2 DEF CallsOK, CallRecords
  <2> QED BY <2>3 DEF RekeyPcs
<1>6. CASE AddRekey(c)
  <2>1. call[c].staged = {}
    BY <1>6 DEF AddRekey, LockOK, AddPcs, OwnPcs
  <2>2. CASE call'[c] = IdleCall
    BY <2>2, IdleIs
  <2>3. CASE /\ call'[c] = [call[c] EXCEPT !.pc = "pids"]
             /\ lock' = IF call[c].moves = {} THEN NoCaller ELSE c
    BY <1>0, <2>1, <2>3 DEF CallRecords
  <2> QED BY <1>6, <2>2, <2>3, AddAfter
<1>7. CASE AddPids(c) \/ AddStage(c) \/ AddMerge(c) \/ AddLaunch(c)
  <2>1. call[c].pc \in RekeyPcs /\ lock' = lock
    BY <1>7 DEF AddPids, AddStage, AddMerge, AddLaunch, RekeyPcs, db
  <2>2. lock' # c => call[c].moves = {} /\ call[c].staged = {}
    BY <2>1 DEF LockOK
  <2>3. CASE AddPids(c)
    <3>1. call'[c] = [call[c] EXCEPT !.pc = "stage"]
      BY <2>3, AddAfter
    <3>2. call'[c].staged = call[c].staged /\ call'[c].moves = call[c].moves
      BY <1>0, <3>1 DEF CallRecords
    <3>3. call[c].staged = {}
      BY <2>3 DEF AddPids, LockOK, AddPcs, OwnPcs, RekeyPcs
    <3> QED BY <2>2, <3>2, <3>3
  <2>4. CASE AddStage(c)
    <3>1. call'[c] = [call[c] EXCEPT !.pc = "merge", !.staged = Aside(c)]
      BY <2>4, AddAfter
    <3>2. /\ call'[c].staged = Aside(c) /\ call'[c].moves = call[c].moves
          /\ call'[c].pc = "merge"
      BY <1>0, <3>1 DEF CallRecords
    <3>3. call[c].moves = {} => Aside(c) = {}
      BY DEF Aside, Renames
    <3> QED BY <2>2, <3>2, <3>3
  <2>5. CASE AddMerge(c)
    <3>1. call'[c] = [call[c] EXCEPT !.pc = "launch", !.staged = {}]
      BY <2>5, AddAfter
    <3>2. call'[c].staged = {} /\ call'[c].moves = call[c].moves
      BY <1>0, <3>1 DEF CallRecords
    <3> QED BY <2>2, <3>2
  <2>6. CASE AddLaunch(c)
    <3>1. PICK p : \/ call'[c] = [call[c] EXCEPT !.pc = "commit"]
                   \/ call'[c] = [call[c] EXCEPT !.pc = "record", !.todo = {Launched(c, p)}]
      BY <2>6, AddAfter
    <3>2. call'[c].staged = call[c].staged /\ call'[c].moves = call[c].moves
      BY <1>0, <3>1 DEF CallRecords
    <3>3. call[c].staged = {}
      BY <2>6 DEF AddLaunch, LockOK, AddPcs, OwnPcs, RekeyPcs
    <3> QED BY <2>2, <3>2, <3>3
  <2> QED BY <1>7, <2>3, <2>4, <2>5, <2>6
<1>8. CASE AddCommit(c)
  BY <1>8, AddAfter, IdleIs
<1> QED BY <1>1, <1>2, <1>3, <1>4, <1>5, <1>6, <1>7, <1>8 DEF Acts, AddTool

\* A call that re-keys without the lock re-keys nothing.
LEMMA IdleRekey ==
    ASSUME TypeInv, LockOK, NEW c \in Callers, lock # c,
           AddPids(c) \/ AddStage(c) \/ AddMerge(c)
    PROVE  pidFile' = pidFile /\ mail' = mail
<1> USE DEF TypeInv
<1>0. mail \in [Ids -> SUBSET Panes] /\ pidFile \in [Panes -> MaybeId]
  BY DEF TypeOK
<1>1. call[c].moves = {} /\ call[c].staged = {}
  BY DEF LockOK, AddPids, AddStage, AddMerge, RekeyPcs
<1>2. Renames(call[c].moves) = {}
  BY <1>1 DEF Renames
<1>3. CASE AddPids(c)
  BY <1>0, <1>2, <1>3 DEF AddPids
<1>4. CASE AddStage(c)
  BY <1>0, <1>2, <1>4 DEF AddStage
<1>5. CASE AddMerge(c)
  <2>1. \A i \in Ids : mail'[i] = mail[i] \cup UNION {s.mail : s \in {t \in {} : t.to = i}}
    BY <1>1, <1>5 DEF AddMerge
  <2>2. mail' = [i \in Ids |-> mail'[i]] /\ pidFile' = pidFile
    BY <1>5 DEF AddMerge
  <2>3. \A i \in Ids : mail'[i] = mail[i]
    BY <2>1
  <2> QED BY <1>0, <2>2, <2>3
<1> QED BY <1>3, <1>4, <1>5

\* Nothing starts in the pane of a row.
LEMMA RowsRun ==
    ASSUME TypeInv, OwnInv, [Next]_vars, NEW r \in agents, r.pane \in up'
    PROVE  r.pane \in up
<1> USE DEF TypeInv, OwnInv
<1>1. r.pane # born + 1
  BY DEF BornOK, TypeOK, Rows, Panes
<1>2. ASSUME NEW c \in Callers, AddLaunch(c), r.pane \in call[c].new PROVE FALSE
  BY <1>2 DEF NotStarted, AddLaunch, OwnPcs, RekeyPcs, RowsOf
<1> QED BY <1>1, <1>2, UpFrom

\* The pid file of an agent is written by its own hooks and by the call that
\* has the lock.
LEMMA PidKept ==
    ASSUME TypeInv, OwnInv, LockOK, [Next]_vars, NEW r \in agents, NEW i, Pid(r.pane, i),
           ~HookCommit(r.pane), \A c \in Callers : AddPids(c) => lock # c
    PROVE  Pid(r.pane, i)'
<1> DEFINE p == r.pane
<1>0. p \in Panes /\ pidFile \in [Panes -> MaybeId]
  BY DEF TypeInv, TypeOK, Rows
<1>1. p \in up' => p \in up
  BY RowsRun
<1>2. ASSUME NEW q \in Panes, Exit(q) PROVE p \notin up' \/ pidFile'[p] = pidFile[p]
  BY <1>0, <1>2 DEF Exit
<1>3. ASSUME NEW q \in Panes, HookCommit(q) PROVE pidFile'[p] = pidFile[p]
  BY <1>0, <1>3 DEF HookCommit
<1>4. ASSUME NEW c \in Callers, AddPids(c) PROVE pidFile' = pidFile
  BY <1>4, IdleRekey
<1>5. p \notin up' \/ pidFile'[p] = pidFile[p]
  BY <1>2, <1>3, <1>4, PidsBy
<1> QED BY <1>1, <1>5 DEF Pid

\* Its mail lies under its row's id, or was sent too late, or is moved by the
\* call that has the lock.
LEMMA BoxKept ==
    ASSUME TypeInv, OwnInv, LockOK, [Next]_vars, NEW r \in agents, NEW i, Box(r.pane, i),
           r.pane \notin late',
           \/ i = r.id
           \/ \E c \in Callers : call[c].pc \in {"merge", "launch", "record", "commit"},
           \A c \in Callers : AddStage(c) \/ AddMerge(c) => lock # c
    PROVE  Box(r.pane, i)'
<1> DEFINE p == r.pane
<1>0. mail \in [Ids -> SUBSET Panes]
  BY DEF TypeInv, TypeOK
<1>1. CASE mail' = mail
  BY <1>1 DEF Box
<1>2. ASSUME NEW c \in Callers, AddStage(c) \/ AddMerge(c) PROVE mail' = mail
  BY <1>2, IdleRekey
<1>3. CASE Send
  <2>1. PICK s \in agents :
           /\ mail' = [mail EXCEPT ![s.id] = @ \cup {s.pane}]
           /\ late' = IF \E c \in Callers : call[c].pc \in {"merge", "launch", "record", "commit"}
                      THEN late \cup {s.pane} ELSE late
    BY <1>3 DEF Send
  <2>2. CASE s = r
    <3>1. i = r.id
      BY <2>1, <2>2
    <3> QED BY <1>0, <2>1, <2>2, <3>1 DEF Box
  <2>3. CASE s # r
    <3>1. s.pane # p
      BY <2>3 DEF OwnInv, OneRowPerPane
    <3> QED BY <1>0, <2>1, <3>1 DEF Box
  <2> QED BY <2>2, <2>3
<1> QED BY <1>1, <1>2, <1>3, MailBy

LEMMA SparedKept ==
    ASSUME TypeInv, [Next]_vars PROVE Spared' \subseteq Spared
<1>1. late \subseteq late' /\ parted \subseteq parted'
  <2>1. ASSUME NEW p \in Panes, HookCommit(p) PROVE late \subseteq late' /\ parted' = parted
    BY <2>1 DEF HookCommit
  <2>2. CASE Send
    BY <2>2 DEF Send
  <2>3. ASSUME NEW c \in Callers, AddCommit(c) \/ Crash(c) PROVE late \subseteq late' /\ parted \subseteq parted'
    BY <2>3 DEF AddCommit, Crash
  <2> QED BY <2>1, <2>2, <2>3, LateBy
<1> QED BY <1>1 DEF Spared

\* A row has been there, or it is registered, or it is re-keyed.
LEMMA RowsKept ==
    ASSUME TypeInv, LockOK, [Next]_vars, NEW r \in agents',
           \A c \in Callers : AddCommit(c) => lock # c,
           \A p \in Panes : ~HookCommit(p)
    PROVE  \E s \in agents : s.pane = r.pane /\ s.id = r.id
<1> USE DEF TypeInv
<1>0. agents \subseteq Rows
  BY DEF TypeOK
<1>1. CASE agents' \subseteq agents
  BY <1>1
<1>2. CASE Prune \/ \E c \in Callers : StatusStart(c)
  <2>1. PICK s \in agents : r = s \/ r = [s EXCEPT !.target = addr[s.pane]]
    BY <1>2 DEF Prune, StatusStart
  <2>2. s \in Rows
    BY <1>0
  <2> QED BY <2>1, <2>2 DEF Rows
<1>3. ASSUME NEW c \in Callers, AddCommit(c) PROVE agents' = agents
  <2>1. call[c].moves = {}
    BY <1>3 DEF LockOK, AddCommit, RekeyPcs
  <2>2. RekeyedAgents({}) = agents
    BY DEF RekeyedAgents, Rekeys
  <2> QED BY <1>3, <2>1, <2>2 DEF AddCommit
<1>4. ASSUME NEW p \in Panes, Exit(p) PROVE agents' \subseteq agents
  BY <1>4 DEF Exit
<1>5. ASSUME NEW c \in Callers, KillDelete(c) PROVE agents' \subseteq agents
  BY <1>5 DEF KillDelete
<1> QED BY <1>1, <1>2, <1>3, <1>4, <1>5, AgentsBy

\* Where the mail of an id goes is decided by one rename.
LEMMA RenameOnce ==
    ASSUME NEW mvs \in SUBSET Moves, UniqueMoves(mvs),
           NEW m \in Renames(mvs), NEW n \in Renames(mvs), m.old = n.old
    PROVE  m = n
<1>1. m \in mvs /\ n \in mvs /\ m.member.pane \in Nat /\ n.member.pane \in Nat
  BY DEF Renames, Moves, Members, Panes
<1>2. m.member.pane <= n.member.pane /\ n.member.pane <= m.member.pane
  BY DEF Renames
<1>3. m.member.pane = n.member.pane
  BY <1>1, <1>2
<1> QED BY <1>1, <1>3 DEF UniqueMoves

LEMMA TargetIs ==
    ASSUME NEW mvs \in SUBSET Moves, UniqueMoves(mvs), NEW m \in Renames(mvs)
    PROVE  Target(mvs, m.old) = m.new
BY RenameOnce DEF Target

LEMMA RekeyOnce ==
    ASSUME NEW mvs \in SUBSET Moves, UniqueMoves(mvs),
           NEW m \in Rekeys(mvs), NEW n \in Rekeys(mvs), m.row = n.row
    PROVE  m = n
<1>1. m \in mvs /\ n \in mvs /\ m.member.pane \in Nat /\ n.member.pane \in Nat
  BY DEF Rekeys, Moves, Members, Panes
<1>2. m.member.pane <= n.member.pane /\ n.member.pane <= m.member.pane
  BY DEF Rekeys
<1>3. m.member.pane = n.member.pane
  BY <1>1, <1>2
<1> QED BY <1>1, <1>3 DEF UniqueMoves

\* Unless the look-up parted them, the row goes where the mail goes.
LEMMA RowGoesAlong ==
    ASSUME agents \subseteq Rows, NEW mvs \in SUBSET Moves, UniqueMoves(mvs),
           NEW r \in RekeyedAgents(mvs), r.pane \notin Stranded(mvs)
    PROVE  \E s \in agents : s.pane = r.pane /\ r.id = Target(mvs, s.id)
<1> DEFINE M(s) == CHOOSE n \in Rekeys(mvs) : n.row = s.id
<1>1. PICK s \in agents :
         r = IF \E m \in Rekeys(mvs) : m.row = s.id
             THEN [s EXCEPT !.id = M(s).new, !.target = M(s).target, !.role = M(s).member.role]
             ELSE s
  BY DEF RekeyedAgents
<1>2. s \in Rows
  OBVIOUS
<1>3. s.pane = r.pane
  <2> HIDE DEF M
  <2> QED BY <1>1, <1>2 DEF Rows
<1>4. RowGoes(mvs, s.id) = MailGoes(mvs, s.id)
  BY <1>3 DEF Stranded
<1>5. r.id = Target(mvs, s.id)
  <2>1. CASE \E m \in Rekeys(mvs) : m.row = s.id
    <3>1. PICK m : m = M(s)
      OBVIOUS
    <3>2. m \in Rekeys(mvs) /\ m.row = s.id
      BY <2>1, <3>1
    <3>3. r.id = m.new
      <4> HIDE DEF M
      <4> QED BY <1>1, <1>2, <2>1, <3>1 DEF Rows
    <3>4. CASE m.new = s.id
      <4>1. RowGoes(mvs, s.id) = {}
        BY <3>2, <3>4, RekeyOnce DEF RowGoes
      <4>2. \A n \in Renames(mvs) : n.old # s.id
        BY <1>4, <4>1 DEF MailGoes
      <4> QED BY <3>3, <3>4, <4>2 DEF Target
    <3>5. CASE m.new # s.id
      <4>1. m.new \in RowGoes(mvs, s.id)
        BY <3>2, <3>5 DEF RowGoes
      <4>2. PICK n \in Renames(mvs) : n.old = s.id /\ n.new = m.new
        BY <1>4, <4>1 DEF MailGoes
      <4> QED BY <3>3, <4>2, TargetIs
    <3> QED BY <3>4, <3>5
  <2>2. CASE ~\E m \in Rekeys(mvs) : m.row = s.id
    <3>1. RowGoes(mvs, s.id) = {}
      BY <2>2 DEF RowGoes
    <3>2. \A n \in Renames(mvs) : n.old # s.id
      BY <1>4, <3>1 DEF MailGoes
    <3> QED BY <1>1, <2>2, <3>2 DEF Target
  <2> QED BY <2>1, <2>2
<1> QED BY <1>3, <1>5

\* With the lock free, rows, pid files and inboxes agree.
LEMMA RestStep ==
    ASSUME TypeInv, OwnInv, LockOK, AtRest, [Next]_vars, lock = NoCaller, NEW r \in agents',
           r.pane \in Spared'
    PROVE  Pid(r.pane, r.id)' /\ Box(r.pane, r.id)'
<1> USE DEF TypeInv
<1>0. r.pane \in Spared /\ NoCaller \notin Callers
  BY SparedKept, LockBelongs
<1>1. CASE \A p \in Panes : ~HookCommit(p)
  <2>1. PICK s \in agents : s.pane = r.pane /\ s.id = r.id
    BY <1>0, <1>1, RowsKept
  <2>2. Pid(s.pane, s.id) /\ Box(s.pane, s.id)
    BY <1>0, <2>1 DEF AtRest
  <2>3. s.pane \in Panes /\ s.pane \notin late'
    BY <2>1 DEF TypeOK, Rows, Spared
  <2>4. Pid(s.pane, s.id)'
    BY <1>0, <1>1, <2>2, <2>3, PidKept
  <2>5. Box(s.pane, s.id)'
    BY <1>0, <2>2, <2>3, BoxKept
  <2> QED BY <2>1, <2>4, <2>5 DEF Pid, Box
<1>2. ASSUME NEW p \in Panes, HookCommit(p) PROVE Pid(r.pane, r.id)' /\ Box(r.pane, r.id)'
  <2> DEFINE taken == \E s \in agents : s.id = reg[p].id /\ s.pane # p /\ Live(s.pane)
             i     == IF taken THEN [reg[p].id EXCEPT !.sfx = p] ELSE reg[p].id
             losers == {x.pane : x \in {s \in agents : s.id = i}} \cup {p}
             new == [id |-> i, pane |-> p, target |-> reg[p].target, role |-> i.role]
  <2>1. /\ agents' = (agents \ {x \in agents : x.pane \in losers}) \cup {new}
        /\ pidFile' = [pidFile EXCEPT ![p] = i]
        /\ late' = IF \E j \in Ids \ {i} : p \in mail[j] THEN late \cup {p} ELSE late
        /\ mail' = mail /\ up' = up
    BY <1>2 DEF HookCommit, tmux
  <2>2. new.pane = p /\ new.id = i /\ p \in losers
    OBVIOUS
  <2>3. pidFile \in [Panes -> MaybeId] /\ r.pane \notin late'
    BY DEF TypeOK, Spared
  <2> HIDE DEF new, losers, i
  <2>4. CASE r = new
    BY <2>1, <2>2, <2>3, <2>4 DEF Pid, Box
  <2>5. CASE r # new
    <3>1. r \in agents /\ r.pane # p
      BY <2>1, <2>2, <2>5
    <3>2. Pid(r.pane, r.id) /\ Box(r.pane, r.id)
      BY <1>0, <3>1 DEF AtRest
    <3> QED BY <2>1, <2>3, <3>1, <3>2 DEF Pid, Box
  <2> QED BY <2>4, <2>5
<1> QED BY <1>1, <1>2

\* While a call has the lock, nobody else writes the tables.
LEMMA LockedRows ==
    ASSUME TypeInv, [Next]_vars, lock \in Callers
    PROVE  /\ \A p \in Panes : ~HookCommit(p)
           /\ \A c \in Callers : AddCommit(c) => c = lock
           /\ ~AddCommit(lock) => agents' = agents
<1>0. lock # NoCaller
  BY LockBelongs
<1>1. \A p \in Panes : ~HookCommit(p)
  BY <1>0 DEF HookCommit
<1>2. \A c \in Callers : AddCommit(c) => c = lock
  BY <1>0 DEF AddCommit
<1>3. ~Prune /\ \A c \in Callers : ~StatusStart(c) /\ ~KillDelete(c)
  BY <1>0 DEF Prune, StatusStart, KillDelete
<1>4. ASSUME NEW p \in Panes, Exit(p) PROVE agents' = agents
  BY <1>0, <1>4 DEF Exit
<1> QED BY <1>1, <1>2, <1>3, <1>4, AgentsBy

\* A re-keying begins with everything in agreement ...
LEMMA TakeStep ==
    ASSUME TypeInv, AtRest, [Next]_vars, lock = NoCaller, lock' # NoCaller
    PROVE  Underway'
<1> USE DEF TypeInv
<1>1. PICK c \in Callers : AddRekey(c) /\ lock' = c
  <2>1. ASSUME NEW c \in Callers, AddCommit(c) \/ Crash(c) PROVE FALSE
    BY <2>1, LockBelongs DEF AddCommit, Crash
  <2>2. PICK c \in Callers : AddRekey(c)
    BY <2>1, LockBy
  <2>3. lock' = c
    BY <2>2 DEF AddRekey
  <2> QED BY <2>2, <2>3
<1>2. UNCHANGED <<agents, up, pidFile, mail, late, parted>>
  BY <1>1 DEF AddRekey, file, aux
<1>3. call'[c].pc = "pids"
  BY <1>1, LockBelongs DEF AddRekey, Goto, CallsOK, CallRecords
<1>4. \A r \in agents : r.pane \in Spared => Pid(r.pane, r.id) /\ Box(r.pane, r.id)
  BY DEF AtRest
<1> QED BY <1>1, <1>2, <1>3, <1>4 DEF Underway, Holds, Spared, Pid, Box

\* ... and ends so, or with nobody spared.
LEMMA ReleaseStep ==
    ASSUME TypeInv, OwnInv, LockOK, Underway, [Next]_vars, lock \in Callers, lock' = NoCaller,
           NEW r \in agents', r.pane \in Spared'
    PROVE  Pid(r.pane, r.id)' /\ Box(r.pane, r.id)'
<1> USE DEF TypeInv
<1>0. lock # NoCaller /\ r.pane \in Panes /\ r.pane \in Spared /\ r.pane \notin late'
  BY LockBelongs, SparedKept DEF Spared
<1>1. AddCommit(lock) \/ Crash(lock)
  <2>1. \A c \in Callers : ~AddRekey(c)
    BY <1>0 DEF AddRekey
  <2>2. \A c \in Callers : AddCommit(c) => c = lock
    BY <1>0 DEF AddCommit
  <2>3. \A c \in Callers : Crash(c) => c = lock
    BY <1>0 DEF Crash
  <2> QED BY <1>0, <2>1, <2>2, <2>3, LockBy
<1>2. AddCommit(lock) /\ late' = late
  BY <1>0, <1>1 DEF AddCommit, Crash
<1> DEFINE mvs == call[lock].moves
           new == IF call[lock].pc = "record"
                  THEN {[m EXCEPT !.repo = rooms[m.room].repo] : m \in call[lock].todo} ELSE {}
           ok  == new = {} \/ Status(call[lock].room) # "none"
<1>3. /\ agents' = IF ok THEN RekeyedAgents(mvs) ELSE agents
      /\ late' = IF ok THEN late ELSE late \cup Panes
      /\ parted' = IF ok THEN parted \cup Stranded(mvs) ELSE parted
      /\ UNCHANGED <<up, pidFile, mail>>
    BY <1>2 DEF AddCommit, tmux, file
<1> HIDE DEF new, ok
<1>4. ok
  BY <1>0, <1>3
<1>5. r \in RekeyedAgents(mvs) /\ r.pane \notin Stranded(mvs)
  BY <1>3, <1>4 DEF Spared
<1>6. mvs \in SUBSET Moves /\ UniqueMoves(mvs) /\ agents \subseteq Rows
  BY DEF CallsOK, CallRecords, OwnInv, OwnedOnce, TypeOK
<1>7. PICK s \in agents : s.pane = r.pane /\ r.id = Target(mvs, s.id)
  BY <1>5, <1>6, RowGoesAlong
<1>8. Pid(s.pane, Target(mvs, s.id)) /\ Box(s.pane, Target(mvs, s.id))
  <2>1. call[lock].pc \in {"record", "commit"}
    BY <1>2 DEF AddCommit
  <2> QED BY <1>0, <1>7, <2>1 DEF Underway, Holds
<1> QED BY <1>3, <1>7, <1>8 DEF Pid, Box

\* In between, the call with the lock takes pid files and inboxes to the new
\* ids in step.
LEMMA HeldStep ==
    ASSUME TypeInv, OwnInv, LockOK, Underway, [Next]_vars,
           NEW c \in Callers, lock = c, lock' = c, NEW r \in agents', r.pane \in Spared',
           NEW t, t = Target(call[c].moves, r.id)
    PROVE  call'[c].moves = call[c].moves /\ Holds(c, r, t)'
<1> USE DEF TypeInv
<1>0. /\ lock # NoCaller /\ call[c].pc \in RekeyPcs /\ call[c] \in CallRecords
      /\ r.pane \in Spared /\ r.pane \notin late' /\ r.pane \in Panes
  BY LockBelongs, SparedKept DEF Spared, CallsOK
<1>1. ~AddCommit(c) /\ ~Crash(c) /\ agents' = agents
  BY <1>0, LockedRows DEF AddCommit, Crash
<1>2. Holds(c, r, t)
  BY <1>0, <1>1 DEF Underway
<1>3. /\ call[c].moves \in SUBSET Moves /\ UniqueMoves(call[c].moves)
      /\ r.id \in Ids /\ mail \in [Ids -> SUBSET Panes] /\ pidFile \in [Panes -> MaybeId]
  BY <1>1 DEF CallsOK, CallRecords, OwnInv, OwnedOnce, TypeOK, Rows
<1>4. CASE ~Acts(c)
  <2>1. call'[c] = call[c]
    BY <1>4, LockedKept
  <2>2. ~AddPids(c) /\ ~AddStage(c) /\ ~AddMerge(c) /\ ~HookCommit(r.pane)
    BY <1>0, <1>4, LockedRows DEF Acts, AddTool
  <2>3. r \in agents /\ \A d \in Callers : AddPids(d) \/ AddStage(d) \/ AddMerge(d) => lock # d
    BY <1>1, <2>2
  <2>4. \A i : Pid(r.pane, i) => Pid(r.pane, i)'
    BY <2>2, <2>3, PidKept
  <2>5. Box(r.pane, r.id) => Box(r.pane, r.id)'
    BY <1>0, <2>3, BoxKept
  <2>6. call[c].pc \notin {"pids", "stage"} /\ Box(r.pane, t) => Box(r.pane, t)'
    <3>1. call[c].pc \in {"pids", "stage"} \/ call[c].pc \in {"merge", "launch", "record", "commit"}
      BY <1>0 DEF RekeyPcs
    <3> QED BY <1>0, <2>3, <3>1, BoxKept
  <2> QED BY <1>2, <2>1, <2>4, <2>5, <2>6 DEF Holds
<1>5. CASE AddPids(c)
  <2>1. call[c].pc = "pids" /\ mail' = mail /\ up' = up
    BY <1>5 DEF AddPids, tmux
  <2>2. call'[c] = [call[c] EXCEPT !.pc = "stage"]
    BY <1>5, AddAfter DEF CallsOK
  <2>3. call'[c].pc = "stage" /\ call'[c].moves = call[c].moves
    BY <1>0, <2>2 DEF CallRecords
  <2>4. pidFile'[r.pane] = IF \E m \in Renames(call[c].moves) : m.old = pidFile[r.pane]
          THEN (CHOOSE m \in Renames(call[c].moves) : m.old = pidFile[r.pane]).new ELSE pidFile[r.pane]
    BY <1>0, <1>5 DEF AddPids
  <2>5. Pid(r.pane, r.id) /\ Box(r.pane, r.id)
    BY <1>2, <2>1 DEF Holds
  <2>6. Pid(r.pane, t)'
    BY <2>1, <2>4, <2>5 DEF Pid, Target
  <2>7. Box(r.pane, r.id)'
    BY <2>1, <2>5 DEF Box
  <2> QED BY <2>3, <2>6, <2>7 DEF Holds
<1>6. CASE AddStage(c)
  <2>1. call[c].pc = "stage" /\ pidFile' = pidFile /\ up' = up
    BY <1>6 DEF AddStage, tmux
  <2>2. call'[c] = [call[c] EXCEPT !.pc = "merge", !.staged = Aside(c)]
    BY <1>6, AddAfter DEF CallsOK
  <2>3. call'[c].pc = "merge" /\ call'[c].moves = call[c].moves /\ call'[c].staged = Aside(c)
    BY <1>0, <2>2 DEF CallRecords
  <2>4. \A i \in Ids : mail'[i] = IF \E m \in Renames(call[c].moves) : m.old = i THEN {} ELSE mail[i]
    BY <1>6 DEF AddStage
  <2>5. Box(r.pane, r.id) /\ Pid(r.pane, t)
    BY <1>2, <2>1 DEF Holds
  <2>6. Box(r.pane, t)'
    BY <2>4, <2>5 DEF Box, Target
  <2>7. Aboard(r.pane, Aside(c), t)
    <3> SUFFICES ASSUME NEW m \in Renames(call[c].moves), r.pane \in mail[m.old] PROVE m.new = t
      BY DEF Aboard, Aside
    <3>1. m.old \in Ids
      BY <1>3 DEF Renames, Moves
    <3>2. m.old = r.id
      BY <2>5, <3>1 DEF Box
    <3> QED BY <1>3, <3>2, TargetIs
  <2>8. Pid(r.pane, t)'
    BY <2>1, <2>5 DEF Pid
  <2> QED BY <2>3, <2>6, <2>7, <2>8 DEF Holds
<1>7. CASE AddMerge(c)
  <2>1. call[c].pc = "merge" /\ pidFile' = pidFile /\ up' = up
    BY <1>7 DEF AddMerge, tmux
  <2>2. call'[c] = [call[c] EXCEPT !.pc = "launch", !.staged = {}]
    BY <1>7, AddAfter DEF CallsOK
  <2>3. call'[c].pc = "launch" /\ call'[c].moves = call[c].moves
    BY <1>0, <2>2 DEF CallRecords
  <2>4. \A i \in Ids : mail'[i] = mail[i] \cup UNION {s.mail : s \in {x \in call[c].staged : x.to = i}}
    BY <1>7 DEF AddMerge
  <2>5. Box(r.pane, t) /\ Pid(r.pane, t) /\ Aboard(r.pane, call[c].staged, t)
    BY <1>2, <2>1 DEF Holds
  <2>6. Box(r.pane, t)'
    BY <2>4, <2>5 DEF Box, Aboard
  <2>7. Pid(r.pane, t)'
    BY <2>1, <2>5 DEF Pid
  <2> QED BY <2>3, <2>6, <2>7 DEF Holds
<1>8. CASE AddLaunch(c)
  <2>1. call[c].pc = "launch" /\ pidFile' = pidFile /\ mail' = mail
    BY <1>8 DEF AddLaunch, file
  <2>2. PICK p : \/ call'[c] = [call[c] EXCEPT !.pc = "commit"]
                 \/ call'[c] = [call[c] EXCEPT !.pc = "record", !.todo = {Launched(c, p)}]
    BY <1>8, AddAfter DEF CallsOK
  <2>3. call'[c].pc \in {"record", "commit"} /\ call'[c].moves = call[c].moves
    BY <1>0, <2>2 DEF CallRecords
  <2>4. r.pane \in up' => r.pane \in up
    BY <1>1, RowsRun
  <2>5. Pid(r.pane, t) /\ Box(r.pane, t)
    BY <1>2, <2>1 DEF Holds
  <2>6. Pid(r.pane, t)' /\ Box(r.pane, t)'
    BY <2>1, <2>4, <2>5 DEF Pid, Box
  <2> QED BY <2>3, <2>6 DEF Holds
<1>9. Acts(c) => AddPids(c) \/ AddStage(c) \/ AddMerge(c) \/ AddLaunch(c)
  <2>1. ~KillTool(c) /\ ~SpawnTool(c)
    BY <1>0
    DEF KillTool, KillStart, KillWindow, KillSelect, KillDelete, SpawnTool, SpawnStart, SpawnPane,
        SpawnRecord, RekeyPcs
  <2>2. ~RemoveTool(c) /\ ~StatusTool(c)
    BY <1>0
    DEF RemoveTool, RemoveStart, RemoveKill, RemoveDelete, StatusTool, StatusStart, ReapProbe,
        ReapMark, BackfillSelect, BackfillWrite, RekeyPcs
  <2>3. ~AddStart(c) /\ ~AddSplit(c) /\ ~AddLook(c) /\ ~AddRekey(c)
    BY <1>0 DEF AddStart, AddSplit, AddLook, AddRekey, RekeyPcs
  <2> QED BY <1>1, <2>1, <2>2, <2>3 DEF Acts, AddTool
<1> QED BY <1>4, <1>5, <1>6, <1>7, <1>8, <1>9

LEMMA ReachStep ==
    ASSUME ReachInv, [Next]_vars
    PROVE  ReachInv'
<1> USE DEF ReachInv
<1>0. lock \in Callers \cup {NoCaller} /\ NoCaller \notin Callers
  BY LockBelongs
<1>1. TypeInv' /\ OwnInv' /\ LockOK'
  BY TypeStep, OwnStep, LockOKStep
<1>2. CASE lock = NoCaller /\ lock' = NoCaller
  BY <1>1, <1>2, RestStep DEF AtRest, Underway
<1>3. CASE lock = NoCaller /\ lock' # NoCaller
  BY <1>1, <1>3, TakeStep DEF AtRest
<1>4. CASE lock \in Callers /\ lock' = NoCaller
  BY <1>1, <1>4, ReleaseStep DEF AtRest, Underway
<1>5. CASE lock \in Callers /\ lock' # NoCaller
  <2>1. lock' = lock
    <3>1. CASE Acts(lock)
      <4>1. ASSUME NEW d \in Callers, AddRekey(d) PROVE FALSE
        BY <1>0, <1>5, <4>1 DEF AddRekey
      <4>2. ASSUME NEW d \in Callers, AddCommit(d) PROVE FALSE
        BY <1>5, <4>2 DEF AddCommit
      <4>3. ASSUME NEW d \in Callers, Crash(d) PROVE lock' = lock
        BY <1>5, <4>3 DEF Crash
      <4> QED BY <4>1, <4>2, <4>3, LockBy
    <3>2. CASE ~Acts(lock)
      BY <1>5, <3>2, LockedKept
    <3> QED BY <3>1, <3>2
  <2>2. PICK c \in Callers : lock = c /\ lock' = c
    BY <1>5, <2>1
  <2>4. ASSUME NEW r \in agents', r.pane \in Spared'
        PROVE  Holds(lock, r, Target(call[lock].moves, r.id))'
    <3>1. PICK t : t = Target(call[c].moves, r.id)
      OBVIOUS
    <3>2. call'[c].moves = call[c].moves /\ Holds(c, r, t)'
      BY <2>2, <2>4, <3>1, HeldStep
    <3>3. Target(call[lock].moves, r.id)' = t
      BY <2>2, <3>1, <3>2 DEF Target, Renames
    <3> QED BY <2>2, <3>2, <3>3 DEF Holds
  <2>5. Underway'
    BY <2>4 DEF Underway
  <2>3. AtRest'
    BY <1>5 DEF AtRest
  <2> QED BY <1>1, <2>3, <2>5
<1> QED BY <1>0, <1>2, <1>3, <1>4, <1>5

LEMMA ReachInit == ASSUME Init PROVE ReachInv
<1>1. LockOK
  BY IdleIs DEF Init, LockOK, AddPcs, OwnPcs, RekeyPcs
<1>2. AtRest /\ Underway
  BY DEF Init, AtRest, Underway
<1> QED BY <1>1, <1>2, TypeInit, OwnInit DEF ReachInv

LEMMA ReachInvAlways == Spec => []ReachInv
<1>1. ReachInv /\ [Next]_vars => ReachInv'
  BY ReachStep
<1> QED BY <1>1, ReachInit, PTL DEF Spec

\* No warroom_add, however many members it re-keys and along whatever chain or
\* cycle of ids, parts an agent's row from its pid file or its inbox: only the
\* look-up does, and mail that comes while the call writes.
THEOREM AgentsStayReachableAlways == Spec => []AgentsStayReachable
<1>1. ReachInv => AgentsStayReachable
  <2> SUFFICES ASSUME ReachInv, ~Rekeying, NEW p \in Panes \ (late \cup parted) PROVE Reachable(p)
    BY DEF AgentsStayReachable
  <2>1. lock = NoCaller
    BY LockBelongs DEF ReachInv, Rekeying, RekeyPcs
  <2> QED BY <2>1 DEF ReachInv, AtRest, Spared, Reachable, RowsOf, Pid, Box
<1> QED BY <1>1, ReachInvAlways, PTL

-----------------------------------------------------------------------------
(***************************************************************************)
(* Whose registrations a kill takes                                        *)
(***************************************************************************)

\* Outside hooks and re-keyings a row keeps its id and its pane.
LEMMA RowsStay ==
    ASSUME TypeInv, [Next]_vars, NEW r \in agents',
           \A p \in Panes : ~HookCommit(p), \A c \in Callers : ~AddCommit(c)
    PROVE  \E s \in agents : s.id = r.id /\ s.pane = r.pane
<1> USE DEF TypeInv
<1>0. agents \subseteq Rows
  BY DEF TypeOK
<1>1. CASE Prune \/ \E c \in Callers : StatusStart(c)
  <2>1. PICK s \in agents : r = s \/ r = [s EXCEPT !.target = addr[s.pane]]
    BY <1>1 DEF Prune, StatusStart
  <2>2. s \in Rows
    BY <1>0
  <2> QED BY <2>1, <2>2 DEF Rows
<1>2. CASE agents' = agents
  BY <1>2
<1>3. ASSUME NEW p \in Panes, Exit(p) PROVE r \in agents
  BY <1>3 DEF Exit
<1>4. ASSUME NEW c \in Callers, KillDelete(c) PROVE r \in agents
  BY <1>4 DEF KillDelete
<1> QED BY <1>1, <1>2, <1>3, <1>4, AgentsBy

\* What calls have read they read from the table, or made themselves.
LEMMA ListedFrom ==
    ASSUME TypeInv, [Next]_vars, NEW m \in Listed', m.inst # NoId
    PROVE  m \in members \cup Listed
<1> USE DEF TypeInv
<1>1. PICK c \in Callers : m \in call'[c].todo
  BY DEF Listed
<1>2. call[c].todo \subseteq Listed
  BY DEF Listed
<1>3. CASE ~Acts(c)
  <2>1. m \in call[c].todo
    BY <1>1, <1>3, CallKept DEF Same
  <2> QED BY <1>2, <2>1
<1>4. CASE KillTool(c)
  BY <1>1, <1>2, <1>4, KillAfter DEF KillTool, MembersOf
<1>5. CASE SpawnTool(c)
  BY <1>1, <1>2, <1>5, SpawnAfter, IdleIs DEF SpawnTool
<1>6. CASE AddLaunch(c)
  <2>1. call[c] \in CallRecords
    BY DEF CallsOK
  <2>2. CASE call'[c] = [call[c] EXCEPT !.pc = "commit"]
    <3>1. call'[c].todo = call[c].todo
      BY <2>1, <2>2 DEF CallRecords
    <3> QED BY <1>1, <1>2, <3>1
  <2>3. ASSUME NEW p, call'[c] = [call[c] EXCEPT !.pc = "record", !.todo = {Launched(c, p)}]
        PROVE  FALSE
    <3>1. call'[c].todo = {Launched(c, p)}
      BY <2>1, <2>3 DEF CallRecords
    <3> QED BY <1>1, <3>1 DEF Launched
  <2> QED BY <1>6, <2>2, <2>3, AddAfter
<1>7. CASE AddRekey(c) \/ AddPids(c) \/ AddStage(c) \/ AddMerge(c)
  <2>1. call[c] \in CallRecords
    BY DEF CallsOK
  <2>2. \/ call'[c] = IdleCall
        \/ call'[c] = [call[c] EXCEPT !.pc = "pids"]
        \/ call'[c] = [call[c] EXCEPT !.pc = "stage"]
        \/ call'[c] = [call[c] EXCEPT !.pc = "merge", !.staged = Aside(c)]
        \/ call'[c] = [call[c] EXCEPT !.pc = "launch", !.staged = {}]
    BY <1>7, AddAfter
  <2>3. call'[c].todo = {} \/ call'[c].todo = call[c].todo
    BY <2>1, <2>2, IdleIs DEF CallRecords
  <2> QED BY <1>1, <1>2, <2>3
<1>8. CASE AddStart(c) \/ AddSplit(c) \/ AddLook(c) \/ AddCommit(c)
  BY <1>1, <1>2, <1>8, AddAfter, IdleIs DEF MembersOf
<1>9. CASE RemoveTool(c)
  BY <1>1, <1>2, <1>9, RemoveAfter, IdleIs DEF RemoveTool
<1>10. CASE StatusTool(c) \/ Crash(c)
  BY <1>1, <1>2, <1>10, StatusAfter, CrashAfter, IdleIs
<1> QED BY <1>3, <1>4, <1>5, <1>6, <1>7, <1>8, <1>9, <1>10 DEF Acts, AddTool

\* A call that ends the transaction reads no members for later.
LEMMA NothingListed ==
    ASSUME CallsOK, NEW c \in Callers, AddCommit(c) \/ BackfillWrite(c)
    PROVE  Listed' \subseteq Listed
<1>1. call'[c].todo = {}
  BY AddAfter, StatusAfter, IdleIs
<1>2. ASSUME NEW d \in Callers, d # c PROVE call'[d].todo = call[d].todo
  <2>1. CASE BackfillWrite(c)
    BY <1>2, <2>1 DEF BackfillWrite, CallsOK
  <2>2. CASE AddCommit(c)
    <3>1. call'[d] \in {call[d], Renamed(call[c].moves)[d]}
      BY <1>2, <2>2 DEF AddCommit, Renamed, CallsOK
    <3>2. call[c].moves \in SUBSET Moves
      BY DEF CallsOK, CallRecords
    <3> QED BY <3>1, <3>2, RenamedSame DEF Same
  <2> QED BY <2>1, <2>2
<1> QED BY <1>1, <1>2 DEF Listed

\* Members keep their pane and id but for a re-keying and a backfill.
LEMMA MembersStay ==
    ASSUME TypeInv, [Next]_vars, NEW m \in members',
           \A c \in Callers : ~AddCommit(c) /\ ~BackfillWrite(c)
    PROVE  \E n \in members \cup Listed : n.inst = m.inst /\ n.pane = m.pane
<1> USE DEF TypeInv
<1>1. ASSUME NEW c \in Callers, StatusStart(c) PROVE \E n \in members : n.inst = m.inst /\ n.pane = m.pane
  <2>1. PICK n \in members : m = n \/ m = [n EXCEPT !.target = addr[n.pane]]
    BY <1>1 DEF StatusStart
  <2>2. n \in Members
    BY DEF TypeOK
  <2> QED BY <2>1, <2>2 DEF Members
<1>2. ASSUME NEW c \in Callers, SpawnRecord(c) PROVE m \in members \cup Listed
  BY <1>2 DEF SpawnRecord, Listed
<1>3. ASSUME NEW c \in Callers, KillDelete(c) \/ RemoveDelete(c) PROVE m \in members
  BY <1>3 DEF KillDelete, RemoveDelete
<1> QED BY <1>1, <1>2, <1>3, MembersBy

LEMMA KnownStep ==
    ASSUME TypeInv, BearersKnown, [Next]_vars
    PROVE  BearersKnown'
<1> USE DEF TypeInv
<1>0. TypeInv'
  BY TypeStep
<1> SUFFICES ASSUME NEW r \in agents', NEW m \in members' \cup Listed',
                    m.inst = r.id, m.pane # r.pane
             PROVE  r.pane \in takers'
  BY DEF BearersKnown, Bearers
<1>1. takers \subseteq takers'
  <2>1. ASSUME NEW p \in Panes, HookCommit(p) PROVE takers \subseteq takers'
    BY <2>1 DEF HookCommit
  <2>2. ASSUME NEW c \in Callers, AddCommit(c) \/ BackfillWrite(c) PROVE takers \subseteq takers'
    BY <2>2 DEF AddCommit, BackfillWrite
  <2> QED BY <2>1, <2>2, TakersBy
<1>2. m.inst # NoId
  BY <1>0, RowIds, WarroomAssumption DEF TypeOK, Rows
<1>3. ASSUME NEW s \in agents, s.id = r.id, s.pane = r.pane,
             NEW n \in members \cup Listed, n.inst = m.inst, n.pane = m.pane
      PROVE  r.pane \in takers
  BY <1>3 DEF BearersKnown, Bearers
<1>4. ASSUME NEW c \in Callers, AddCommit(c) PROVE r.pane \in takers'
  <2>1. m \in members' \cup Listed
    BY <1>4, NothingListed
  <2>2. CASE /\ agents' = agents /\ members' = members
    BY <1>1, <1>3, <2>1, <2>2
  <2>3. CASE takers' = takers \cup Bearers(agents', members' \cup Listed)
    BY <2>1, <2>3 DEF Bearers
  <2> QED BY <1>4, <2>2, <2>3 DEF AddCommit
<1>5. ASSUME NEW c \in Callers, BackfillWrite(c) PROVE r.pane \in takers'
  <2>1. m \in members' \cup Listed
    BY <1>5, NothingListed
  <2>2. agents' = agents /\ takers' = takers \cup Bearers(agents, members' \cup Listed)
    BY <1>5 DEF BackfillWrite
  <2> QED BY <2>1, <2>2 DEF Bearers
<1>6. ASSUME NEW p \in Panes, HookCommit(p),
             \A c \in Callers : ~AddCommit(c) /\ ~BackfillWrite(c)
      PROVE  r.pane \in takers'
  <2>1. m \in members \cup Listed
    BY <1>2, <1>6, ListedFrom DEF HookCommit
  <2> DEFINE taken == \E s \in agents : s.id = reg[p].id /\ s.pane # p /\ Live(s.pane)
             i     == IF taken THEN [reg[p].id EXCEPT !.sfx = p] ELSE reg[p].id
  <2>2. agents' \subseteq agents \cup {[id |-> i, pane |-> p, target |-> reg[p].target, role |-> i.role]}
    BY <1>6 DEF HookCommit
  <2>3. (\E n \in members \cup Listed : n.inst = i /\ n.pane # p) => p \in takers'
    BY <1>6 DEF HookCommit
  <2> HIDE DEF i
  <2>4. CASE r \in agents
    BY <1>1, <1>3, <2>1, <2>4
  <2>5. CASE r.id = i /\ r.pane = p
    BY <2>1, <2>3, <2>5
  <2> QED BY <2>2, <2>4, <2>5
<1>7. ASSUME \A p \in Panes : ~HookCommit(p),
             \A c \in Callers : ~AddCommit(c) /\ ~BackfillWrite(c)
      PROVE  r.pane \in takers'
  <2>1. PICK s \in agents : s.id = r.id /\ s.pane = r.pane
    BY <1>7, RowsStay
  <2>2. \E n \in members \cup Listed : n.inst = m.inst /\ n.pane = m.pane
    BY <1>2, <1>7, ListedFrom, MembersStay
  <2> QED BY <1>1, <1>3, <2>1, <2>2
<1> QED BY <1>4, <1>5, <1>6, <1>7

LEMMA KnownInit == ASSUME Init PROVE BearersKnown
BY DEF Init, BearersKnown, Bearers

LEMMA KnownAlways == Spec => [](TypeInv /\ BearersKnown)
<1>1. TypeInv /\ BearersKnown /\ [Next]_vars => (TypeInv /\ BearersKnown)'
  BY TypeStep, KnownStep
<1> QED BY <1>1, TypeInit, KnownInit, PTL DEF Spec

\* A kill, of any room and however long after the window closed it comes to the
\* rows, takes a registration of a live pane outside the room only where that
\* row had come to bear the id of a member.
THEOREM KillSparesStrangersAlways == Spec => KillSparesStrangers
<1> DEFINE Spares ==
        \A c \in Callers : KillDelete(c) =>
          \A r \in agents \ agents' :
             Live(r.pane) => \/ r.pane \in takers
                             \/ \E m \in call[c].todo : m.pane = r.pane
<1>1. TypeInv /\ BearersKnown /\ [Next]_vars => [Spares]_vars
  <2> SUFFICES ASSUME BearersKnown, NEW c \in Callers, KillDelete(c), NEW r \in agents, r \notin agents'
               PROVE  r.pane \in takers \/ \E m \in call[c].todo : m.pane = r.pane
    OBVIOUS
  <2>1. PICK m \in call[c].todo : r.pane = m.pane \/ r.id = m.inst
    BY DEF KillDelete, ReapedWith
  <2>2. m \in Listed
    BY DEF Listed
  <2> QED BY <2>1, <2>2 DEF BearersKnown, Bearers
<1> HIDE DEF Spares
<1>2. Spec => [][Spares]_vars
  BY <1>1, KnownAlways, PTL DEF Spec
<1> QED BY <1>2 DEF KillSparesStrangers, Spares

-----------------------------------------------------------------------------
(***************************************************************************)
(* Whether a room found dead is dead when it is marked                     *)
(***************************************************************************)

\* Renumbering panes brings none to life but those it renumbers.
LEMMA ReflowedLive ==
    ASSUME NEW S \in SUBSET Panes, NEW new \in Reflowed(S), NEW p \in Panes, new[p] # NoAddr
    PROVE  p \in S \/ Live(p)
BY DEF Reflowed, Live

\* The window of a room comes into being with the first pane of a spawn only:
\* any other pane splits a window that is there.
LEMMA WindowsFrom ==
    ASSUME TypeInv, BornOK, [Next]_vars, NEW r \in Rooms, Window(r) = {}, NEW p \in Window(r)'
    PROVE  \E c \in Callers : SpawnPane(c) /\ call[c].pc = "first" /\ call[c].room = r
<1> USE DEF TypeInv
<1>0. /\ born \in Nat /\ addr \in [Panes -> MaybeAddr] /\ wnd \in [Panes -> Rooms \cup {NoRoom}]
      /\ p \in Panes /\ addr'[p] # NoAddr /\ wnd'[p] = r /\ r # NoRoom
  BY DEF TypeOK, Window, Live, Rooms, NoRoom
<1>1. ~Live(p) \/ wnd[p] # r
  BY <1>0 DEF Window
<1>2. CASE UNCHANGED <<addr, wnd, born>>
  BY <1>0, <1>1, <1>2 DEF Live
<1>3. CASE NewPane
  <2>1. PICK a \in Free : addr' = [addr EXCEPT ![born + 1] = a]
    BY <1>3 DEF NewPane
  <2>2. wnd' = wnd /\ (p = born + 1 => wnd[p] = NoRoom)
    BY <1>0, <1>3 DEF NewPane, BornOK
  <2> QED BY <1>0, <1>1, <2>1, <2>2 DEF Live
<1>4. CASE ReIndex
  <2>1. wnd' = wnd /\ addr' \in Reflowed({q \in Panes : Live(q)})
    BY <1>4 DEF ReIndex
  <2>2. Live(p)
    BY <1>0, <2>1, ReflowedLive
  <2> QED BY <1>0, <1>1, <2>1, <2>2
<1>5. ASSUME NEW q \in Panes, ClosePane(q) PROVE FALSE
  BY <1>0, <1>1, <1>5 DEF ClosePane, Live
<1>6. ASSUME NEW c \in Callers, KillWindow(c) PROVE FALSE
  BY <1>0, <1>1, <1>6 DEF KillWindow, Live
<1>7. ASSUME NEW s, Split(born + 1, s) PROVE s = r
  <2> DEFINE S == {q \in Panes : Live(q) /\ wnd[q] = s}
  <2>1. PICK new \in Reflowed(S \cup {born + 1}) : addr' = new
    BY <1>7 DEF Split
  <2>2. wnd' = [wnd EXCEPT ![born + 1] = s]
    BY <1>7 DEF Split
  <2>3. CASE p = born + 1
    BY <1>0, <2>2, <2>3
  <2>4. CASE p # born + 1
    <3>1. wnd[p] = r
      BY <1>0, <2>2, <2>4
    <3>2. p \in S \/ Live(p)
      BY <1>0, <2>1, <2>4 DEF Reflowed, Live
    <3> QED BY <1>1, <3>1, <3>2
  <2> QED BY <2>3, <2>4
<1>8. ASSUME NEW c \in Callers, AddSplit(c) PROVE FALSE
  <2>1. CASE UNCHANGED <<addr, wnd, born>>
    BY <1>0, <1>1, <2>1 DEF Live
  <2>2. ASSUME NEW q \in Named(call[c].room), Split(born + 1, wnd[q]) PROVE FALSE
    <3>1. wnd[q] = r
      BY <1>7, <2>2
    <3>2. q \in Panes /\ Live(q)
      BY DEF Named, Window
    <3> QED BY <3>1, <3>2 DEF Window
  <2> QED BY <1>8, <2>1, <2>2 DEF AddSplit
<1>9. ASSUME NEW c \in Callers, SpawnPane(c) PROVE call[c].pc = "first" /\ call[c].room = r
  <2>1. CASE UNCHANGED <<addr, wnd, born>>
    BY <1>0, <1>1, <2>1 DEF Live
  <2>2. ASSUME NEW q \in Named(call[c].room), Split(born + 1, wnd[q]) PROVE FALSE
    <3>1. wnd[q] = r
      BY <1>7, <2>2
    <3>2. q \in Panes /\ Live(q)
      BY DEF Named, Window
    <3> QED BY <3>1, <3>2 DEF Window
  <2>3. CASE call[c].pc = "first" /\ Split(born + 1, call[c].room)
    BY <1>7, <2>3
  <2> QED BY <1>9, <2>1, <2>2, <2>3 DEF SpawnPane
<1>10. ASSUME NEW c \in Callers, RemoveKill(c) PROVE FALSE
  <2>1. wnd' = wnd
    BY <1>10 DEF RemoveKill
  <2>2. CASE addr' = addr
    BY <1>0, <1>1, <2>1, <2>2 DEF Live
  <2>3. CASE addr' # addr
    <3>1. PICK m \in call[c].todo :
             addr' \in {[new EXCEPT ![m.pane] = NoAddr] :
                         new \in Reflowed({q \in Panes : Live(q) /\ wnd[q] = wnd[m.pane]})}
      BY <1>10, <2>3 DEF RemoveKill
    <3> DEFINE S == {q \in Panes : Live(q) /\ wnd[q] = wnd[m.pane]}
    <3>2. PICK new \in Reflowed(S) : addr' = [new EXCEPT ![m.pane] = NoAddr]
      BY <3>1
    <3>3. new[p] # NoAddr
      BY <1>0, <3>2 DEF Reflowed
    <3>4. p \in S \/ Live(p)
      BY <1>0, <3>3, ReflowedLive
    <3> QED BY <1>0, <1>1, <2>1, <3>4
  <2> QED BY <2>2, <2>3
<1> QED BY <1>2, <1>3, <1>4, <1>5, <1>6, <1>8, <1>9, <1>10, PanesBy

\* A call comes to a verdict by its probe, and leaves it in one step.
LEMMA MarkFrom ==
    ASSUME TypeInv, NEW c \in Callers, Acts(c), call'[c].pc = "mark"
    PROVE  ReapProbe(c)
<1> USE DEF TypeInv
<1>1. ~KillTool(c)
  BY KillAfter DEF KillTool
<1>2. ~SpawnTool(c)
  BY SpawnAfter, IdleIs DEF SpawnTool
<1>3. ~AddTool(c)
  BY AddPc DEF AddTool
<1>4. ~RemoveTool(c)
  BY RemoveAfter, IdleIs DEF RemoveTool
<1>5. ~Crash(c)
  BY CrashAfter, IdleIs
<1>6. StatusTool(c) => ReapProbe(c)
  BY StatusAfter, IdleIs DEF StatusTool
<1> QED BY <1>1, <1>2, <1>3, <1>4, <1>5, <1>6 DEF Acts

\* Rooms made again stay noted until the mark.
LEMMA AgainKept ==
    ASSUME TypeInv, [Next]_vars, NEW c \in Callers, ~Acts(c), call[c].pc = "mark"
    PROVE  /\ again[c] \subseteq again'[c]
           /\ \A d \in Callers : SpawnPane(d) => call[d].room \in again'[c]
<1> USE DEF TypeInv
<1>0. again \in [Callers -> SUBSET Rooms]
  BY DEF TypeOK
<1>1. ASSUME NEW d \in Callers, SpawnPane(d) PROVE again'[c] = again[c] \cup {call[d].room}
  BY <1>1 DEF SpawnPane
<1>2. ASSUME NEW d \in Callers, ReapMark(d) \/ Crash(d) PROVE again'[c] = again[c]
  <2>1. c # d
    BY <1>2 DEF Acts, StatusTool
  <2> QED BY <1>0, <1>2, <2>1 DEF ReapMark, Crash
<1> QED BY <1>1, <1>2, AgainBy

LEMMA VerdictsStep ==
    ASSUME "tmux" \notin Events, TypeInv, BornOK, VerdictsHold, [Next]_vars
    PROVE  VerdictsHold'
<1> USE DEF TypeInv
<1> SUFFICES ASSUME NEW c \in Callers, call'[c].pc = "mark", NEW r \in call'[c].doomed
             PROVE  Window(r)' = {} \/ r \in again'[c]
  BY DEF VerdictsHold
<1>1. CASE Acts(c)
  <2>1. ReapProbe(c)
    BY <1>1, MarkFrom
  <2>2. PICK dead : /\ \A s \in dead : Gone(s)
                    /\ call' = [call EXCEPT ![c].pc = IF dead = {} THEN "backfill" ELSE "mark",
                                            ![c].doomed = dead]
    BY <2>1 DEF ReapProbe
  <2>3. call'[c].doomed = dead
    BY <2>2 DEF CallsOK, CallRecords
  <2>4. Window(r) = {}
    BY <2>2, <2>3 DEF Gone, Named
  <2>5. UNCHANGED <<addr, wnd>>
    BY <2>1 DEF ReapProbe, tmux
  <2> QED BY <2>4, <2>5 DEF Window, Live
<1>2. CASE ~Acts(c)
  <2>1. call[c].pc = "mark" /\ r \in call[c].doomed
    BY <1>2, CallKept DEF Same
  <2>2. r \in Rooms
    BY <2>1 DEF CallsOK, CallRecords
  <2>3. Window(r) = {} \/ r \in again[c]
    BY <2>1 DEF VerdictsHold
  <2>4. again[c] \subseteq again'[c] /\ \A d \in Callers : SpawnPane(d) => call[d].room \in again'[c]
    BY <1>2, <2>1, AgainKept
  <2>5. CASE Window(r) = {} /\ Window(r)' # {}
    BY <2>2, <2>4, <2>5, WindowsFrom
  <2> QED BY <2>3, <2>4, <2>5
<1> QED BY <1>1, <1>2

LEMMA VerdictsInit == ASSUME Init PROVE VerdictsHold
BY IdleIs DEF Init, VerdictsHold

\* Whatever is spawned, closed or killed between the probe of the windows and
\* the UPDATE, no room is marked killed whose window is there, unless it was
\* spawned again meanwhile.  A tmux that fails or times out is read as a window
\* that is gone: that case is left out.
THEOREM ReapSparesLiveRoomsAlways ==
    ASSUME "tmux" \notin Events
    PROVE  Spec => ReapSparesLiveRooms
<1> DEFINE Inv == TypeInv /\ OwnInv /\ VerdictsHold
           Spares ==
        \A c \in Callers, r \in Rooms :
          ReapMark(c) /\ rooms[r].status = "active" /\ rooms'[r].status = "killed"
             => Window(r) = {} \/ r \in again[c]
<1>1. Init => Inv
  BY TypeInit, OwnInit, VerdictsInit
<1>2. Inv /\ [Next]_vars => Inv'
  BY TypeStep, OwnStep, VerdictsStep DEF OwnInv
<1>3. Inv /\ [Next]_vars => [Spares]_vars
  <2> SUFFICES ASSUME Inv, NEW c \in Callers, NEW r \in Rooms, ReapMark(c),
                      rooms[r].status = "active", rooms'[r].status = "killed"
               PROVE  Window(r) = {} \/ r \in again[c]
    OBVIOUS
  <2>1. r \in call[c].doomed
    BY DEF ReapMark
  <2>2. call[c].pc = "mark"
    BY DEF ReapMark
  <2> QED BY <2>1, <2>2 DEF VerdictsHold
<1> HIDE DEF Inv, Spares
<1>4. Spec => [][Spares]_vars
  BY <1>1, <1>2, <1>3, PTL DEF Spec
<1> QED BY <1>4 DEF ReapSparesLiveRooms, Spares

=============================================================================
