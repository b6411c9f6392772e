------------------------------ MODULE Warroom ------------------------------
(***************************************************************************)
(* Warrooms: tmux windows of agents, the tables warrooms and               *)
(* warroom_members, and the tools that keep them in step with tmux and     *)
(* with the registry:                                                      *)
(*   - warroom_spawn: kill the room of that name, split panes one by one,  *)
(*     record them,                                                        *)
(*   - warroom_add: split a pane, re-key every member that moved (row,     *)
(*     title, pid file, inbox), launch, record,                            *)
(*   - warroom_remove, warroom_kill,                                       *)
(*   - warroom_status: sync_pane_addresses, reap_dead_warrooms,            *)
(*     backfill_warroom_member_agent_ids.                                  *)
(*                                                                         *)
(* Grain.  A SELECT is a snapshot of its own, a tmux call is a step, the   *)
(* DMLs of one `with db()` block commit together.  A call that has written *)
(* keeps SQLite's write lock until it commits, through every tmux and file *)
(* operation in between; readers see the tables as they were.              *)
(*                                                                         *)
(* Abstractions.  A registration reads tmux, then writes its row and pid   *)
(* file; a prune is one step: AgentRegistry has the steps of both.  tmux   *)
(* numbers panes upwards, so a pane stands for the spawn_order of its      *)
(* member.  kill_all is a kill per room.  A rowid is not given out again   *)
(* during a call.  Unread mail is the set of panes it was meant for.       *)
(***************************************************************************)
EXTENDS Naturals, FiniteSets

CONSTANTS
    MaxPane,    \* bound: panes ever created
    MaxRoom,    \* room names 1 .. MaxRoom
    Addrs,      \* session:window.pane addresses
    Repos, Roles, \* the two parts of a name
    Callers,    \* MCP servers in a warroom tool
    NoAddr, NoId, NoCaller,
    MaxMoves,   \* bound: re-indexings
    MaxMail,    \* bound: messages sent
    MaxCalls,   \* bound: calls that change a room
    Tools,      \* tools in play: see ToolKinds
    Events      \* what else may happen: see EventKinds

ToolKinds == {"spawn", "add", "remove", "kill", "status"}
EventKinds ==
    { "adhoc"    \* panes and agents outside every room
    , "close"    \* somebody closes a pane
    , "exit"     \* a runtime ends, with or without its SessionEnd hook
    , "again"    \* a registered runtime registers again
    , "tmux"     \* a tmux command fails
    , "crash"    \* a server dies in a call
    , "prefix" } \* a room's name is the beginning of the next one's

Panes     == 1 .. MaxPane
NoPane    == 0
Rooms     == 1 .. MaxRoom
NoRoom    == 0
MaybeAddr == Addrs \cup {NoAddr}
Ids       == [repo : Repos, role : Roles, at : Addrs, sfx : Panes \cup {NoPane}]
MaybeId   == Ids \cup {NoId}
Rows      == [id : Ids, pane : Panes, target : Addrs, role : Roles]
Members   == [pane : Panes, room : Rooms, repo : Repos, role : Roles,
              target : Addrs, inst : MaybeId, active : BOOLEAN]
Moves     == [member : Members, target : Addrs, old : Ids, new : Ids, row : MaybeId, hit : BOOLEAN]

ASSUME WarroomAssumption ==
    /\ MaxPane \in Nat /\ MaxRoom \in Nat /\ MaxMoves \in Nat
    /\ MaxMail \in Nat /\ MaxCalls \in Nat
    /\ NoAddr \notin Addrs
    /\ NoId \notin Ids
    /\ NoCaller \notin Callers
    /\ Tools \subseteq ToolKinds
    /\ Events \subseteq EventKinds

VARIABLES
    addr,     \* tmux: address of each pane, NoAddr when it has none
    wnd,      \* tmux: the room whose window a pane is in, or NoRoom
    title,    \* tmux: identity in the pane title, or NoId
    born,     \* tmux: panes created so far
    moves,    \* re-indexings so far
    up,       \* panes whose runtime process runs
    agents,   \* the agents table
    members,  \* the warroom_members table
    rooms,    \* the warrooms table
    lock,     \* who has an uncommitted write
    pidFile,  \* the pids/ directory, by pane of the process
    mail,     \* inbox/<id>: whom the unread messages were meant for
    sent,     \* messages sent so far
    reg,      \* the registration in flight in each pane
    call,     \* the tool call in progress in each server
    calls,    \* calls that change a room, so far
    again,    \* auxiliary: rooms being spawned since a caller found their window gone
    takers,   \* auxiliary: panes whose row came to bear another member's id
    late,     \* auxiliary: panes with mail sent too late for a re-keying
    parted    \* auxiliary: panes whose row and inbox a re-keying parted

tmux == <<addr, wnd, title, born, moves, up>>
db   == <<agents, members, rooms, lock>>
file == <<pidFile, mail, sent>>
aux  == <<again, takers, late, parted>>
vars == <<tmux, db, file, reg, call, calls, aux>>

(***************************************************************************)
(* Reading tmux and the tables                                             *)
(***************************************************************************)
Live(p) == addr[p] # NoAddr
Free == {a \in Addrs : \A p \in Panes : addr[p] # a}
Window(r) == {p \in Panes : Live(p) /\ wnd[p] = r}

\* tmux finds a window by its exact name, else by the beginning of it; only
\* kill_window insists on the exact one.
Named(r) ==
    IF Window(r) # {} \/ "prefix" \notin Events THEN Window(r)
    ELSE UNION {Window(s) : s \in {n \in Rooms : n > r}}

Canonical(repo, role, a) == [repo |-> repo, role |-> role, at |-> a, sfx |-> NoPane]
RowsOf(p) == {r \in agents : r.pane = p}
MembersOf(r) == {m \in members : m.room = r}
Status(r) == rooms[r].status

\* Members that calls in progress have read.
Listed == UNION {call[c].todo : c \in Callers}

\* Panes whose row bears the id of a member in another pane.
Bearers(rows, ms) ==
    {r.pane : r \in {x \in rows : \E m \in ms : m.inst = x.id /\ m.pane # x.pane}}

IdleReg  == [id |-> NoId, target |-> NoAddr]
IdleCall == [pc |-> "idle", room |-> NoRoom, then |-> "idle", repo |-> NoId, role |-> NoId,
             new |-> {}, left |-> 0, todo |-> {}, moves |-> {}, staged |-> {},
             dirs |-> {}, doomed |-> {}, joined |-> {}]

Init ==
    /\ addr = [p \in Panes |-> NoAddr]
    /\ wnd = [p \in Panes |-> NoRoom]
    /\ title = [p \in Panes |-> NoId]
    /\ born = 0
    /\ moves = 0
    /\ up = {}
    /\ agents = {}
    /\ members = {}
    /\ rooms = [r \in Rooms |-> [status |-> "none", repo |-> NoId]]
    /\ lock = NoCaller
    /\ pidFile = [p \in Panes |-> NoId]
    /\ mail = [i \in Ids |-> {}]
    /\ sent = 0
    /\ reg = [p \in Panes |-> IdleReg]
    /\ call = [c \in Callers |-> IdleCall]
    /\ calls = 0
    /\ again = [c \in Callers |-> {}]
    /\ takers = {}
    /\ late = {}
    /\ parted = {}

\* UPDATE ... WHERE rowid: a move names its row by the id the row has now; a
\* row that was deleted or replaced is not found again.
Unlink(ids) ==
    [c \in Callers |-> [call[c] EXCEPT !.moves =
        {IF m.row \in ids THEN [m EXCEPT !.row = NoId] ELSE m : m \in @}]]

(***************************************************************************)
(* tmux, runtimes and mail: the environment                                *)
(***************************************************************************)

\* Splits, kills and layouts renumber the panes of one window.
Reflowed(S) ==
    {new \in [Panes -> MaybeAddr] :
        /\ \A p \in Panes : p \notin S => new[p] = addr[p]
        /\ \A p \in S : new[p] \in Free \cup {addr[q] : q \in S} /\ new[p] # NoAddr
        /\ \A p, q \in S : p # q => new[p] # new[q]}

NewPane ==
    /\ "adhoc" \in Events
    /\ born < MaxPane
    /\ \E a \in Free : addr' = [addr EXCEPT ![born + 1] = a]
    /\ born' = born + 1
    /\ up' = up \cup {born + 1}
    /\ UNCHANGED <<wnd, title, moves, db, file, reg, call, aux, calls>>

\* A window killed or moved elsewhere renumbers panes of every window.
ReIndex ==
    /\ moves < MaxMoves
    /\ addr' \in Reflowed({p \in Panes : Live(p)}) \ {addr}
    /\ moves' = moves + 1
    /\ UNCHANGED <<wnd, title, born, up, db, file, reg, call, aux, calls>>

ClosePane(p) ==
    /\ "close" \in Events
    /\ Live(p)
    /\ addr' = [addr EXCEPT ![p] = NoAddr]
    /\ UNCHANGED <<wnd, title, born, moves, up, db, file, reg, call, aux, calls>>

\* The runtime ends, its pane gone or not; its hook unregisters the id in
\* its pid file, or it dies without.
Exit(p) ==
    /\ "exit" \in Events \/ ~Live(p)
    /\ p \in up
    /\ reg[p] = IdleReg
    /\ up' = up \ {p}
    /\ pidFile' = [pidFile EXCEPT ![p] = NoId]
    /\ \/ /\ lock = NoCaller
          /\ agents' = {r \in agents : r.id # pidFile[p]}
          /\ call' = Unlink({pidFile[p]})
       \/ UNCHANGED <<agents, call>>
    /\ UNCHANGED <<addr, wnd, title, born, moves, members, rooms, lock, mail, sent, reg, aux, calls>>

\* SessionStart: a stamped title is the identity; without one the pane keeps
\* its row's id, or mints one from its address.
AskedIds(p) ==
    IF title[p] # NoId THEN {title[p]}
    ELSE IF RowsOf(p) # {} THEN {r.id : r \in RowsOf(p)}
    ELSE {Canonical(repo, role, addr[p]) : repo \in Repos, role \in Roles}

HookRead(p) ==
    /\ p \in up /\ Live(p)
    /\ pidFile[p] = NoId \/ "again" \in Events
    /\ reg[p] = IdleReg
    /\ \E i \in AskedIds(p) : reg' = [reg EXCEPT ![p] = [id |-> i, target |-> addr[p]]]
    /\ UNCHANGED <<tmux, db, file, call, aux, calls>>

\* A live claimant of the id keeps it, a dead one is evicted with the pane's
\* own earlier rows.
HookCommit(p) ==
    /\ reg[p] # IdleReg
    /\ lock = NoCaller
    /\ LET taken == \E r \in agents : r.id = reg[p].id /\ r.pane # p /\ Live(r.pane)
           i     == IF taken THEN [reg[p].id EXCEPT !.sfx = p] ELSE reg[p].id
           losers == {r.pane : r \in {s \in agents : s.id = i}} \cup {p}
           gone  == {r \in agents : r.pane \in losers}
       IN  /\ agents' = (agents \ gone)
                 \cup {[id |-> i, pane |-> p, target |-> reg[p].target, role |-> i.role]}
           /\ call' = Unlink({r.id : r \in gone})
           /\ pidFile' = [pidFile EXCEPT ![p] = i]
           /\ takers' = IF \E m \in members \cup Listed : m.inst = i /\ m.pane # p
                        THEN takers \cup {p} ELSE takers
           /\ late' = IF \E j \in Ids \ {i} : p \in mail[j] THEN late \cup {p} ELSE late
    /\ reg' = [reg EXCEPT ![p] = IdleReg]
    /\ UNCHANGED <<tmux, members, rooms, lock, mail, sent, again, parted, calls>>

\* The hook dies with its pane, or the watchdog kills it.
HookKilled(p) ==
    /\ reg[p] # IdleReg
    /\ ~Live(p) \/ "exit" \in Events
    /\ reg' = [reg EXCEPT ![p] = IdleReg]
    /\ UNCHANGED <<tmux, db, file, call, aux, calls>>

\* list_agents, and the tmux kill hook: rows of dead panes go, the others
\* get their pane's address.
Prune ==
    /\ lock = NoCaller
    /\ LET kept == {r \in agents : Live(r.pane)}
       IN  /\ agents' = {[r EXCEPT !.target = addr[r.pane]] : r \in kept}
           /\ agents' # agents
           /\ call' = Unlink({r.id : r \in agents \ kept})
    /\ UNCHANGED <<tmux, members, rooms, lock, file, reg, aux, calls>>

\* Mutated form: the recipient's pane title names the inbox.
SendByTitle ==
    /\ sent < MaxMail
    /\ \E r \in agents :
          /\ Live(r.pane) /\ title[r.pane] # NoId
          /\ mail' = [mail EXCEPT ![title[r.pane]] = @ \cup {r.pane}]
    /\ sent' = sent + 1
    /\ UNCHANGED <<tmux, db, pidFile, reg, call, aux, calls>>

\* send_message: the recipient's row names the inbox.
Send ==
    /\ sent < MaxMail
    /\ \E r \in agents :
          /\ Live(r.pane)
          /\ mail' = [mail EXCEPT ![r.id] = @ \cup {r.pane}]
          /\ late' = IF \E c \in Callers : call[c].pc \in {"merge", "launch", "record", "commit"}
                     THEN late \cup {r.pane} ELSE late
    /\ sent' = sent + 1
    /\ UNCHANGED <<tmux, db, pidFile, reg, call, again, takers, parted, calls>>

(***************************************************************************)
(* kill_warrooms: warroom_kill, and the first step of warroom_spawn        *)
(***************************************************************************)
Goto(c, pc) == call' = [call EXCEPT ![c].pc = pc]

KillStart(c) ==
    /\ "kill" \in Tools
    /\ call[c].pc = "idle" /\ calls < MaxCalls
    /\ \E r \in Rooms :
          /\ Status(r) # "none"
          /\ call' = [call EXCEPT ![c] = [IdleCall EXCEPT !.pc = "window", !.room = r]]
    /\ calls' = calls + 1
    /\ UNCHANGED <<tmux, db, file, reg, aux>>

\* kill-window is best effort.
KillWindow(c) ==
    /\ call[c].pc = "window"
    /\ \/ addr' = [p \in Panes |-> IF p \in Window(call[c].room) THEN NoAddr ELSE addr[p]]
       \/ "tmux" \in Events /\ addr' = addr
    /\ Goto(c, "members")
    /\ UNCHANGED <<wnd, title, born, moves, up, db, file, reg, aux, calls>>

KillSelect(c) ==
    /\ call[c].pc = "members"
    /\ call' = [call EXCEPT ![c].pc = "delete", ![c].todo = MembersOf(call[c].room)]
    /\ UNCHANGED <<tmux, db, file, reg, aux, calls>>

\* Mutated form: rows are matched by the member's address.
ReapedByTarget(m) == {r \in agents : r.target = m.target}

\* The registrations of a member: its pane's, and the one under the id it
\* was last reconciled to.
ReapedWith(m) == {r \in agents : r.pane = m.pane \/ r.id = m.inst}

KillDelete(c) ==
    /\ call[c].pc = "delete"
    /\ lock = NoCaller
    /\ LET gone == UNION {ReapedWith(m) : m \in call[c].todo}
       IN  /\ agents' = agents \ gone
           /\ call' = [Unlink({r.id : r \in gone}) EXCEPT
                 ![c] = IF call[c].then = "idle" THEN IdleCall
                        ELSE [@ EXCEPT !.pc = call[c].then, !.todo = {}]]
    /\ members' = members \ MembersOf(call[c].room)
    /\ rooms' = [rooms EXCEPT ![call[c].room] = [status |-> "none", repo |-> NoId]]
    /\ UNCHANGED <<tmux, lock, file, reg, aux, calls>>

(***************************************************************************)
(* warroom_spawn, warroom_spawn_repos                                      *)
(***************************************************************************)

\* spawn starts every pane in the room's directory, spawn_repos each one in
\* some repo; without a room of that name there is nothing to kill.
SpawnStart(c) ==
    /\ "spawn" \in Tools
    /\ call[c].pc = "idle" /\ calls < MaxCalls
    /\ born < MaxPane
    /\ \E r \in Rooms, repo \in Repos, n \in 1 .. MaxPane : \E dirs \in {{repo}, Repos} :
          call' = [call EXCEPT ![c] =
             [IdleCall EXCEPT !.pc = IF Status(r) = "none" THEN "first" ELSE "window",
                              !.then = "first", !.room = r, !.repo = repo, !.dirs = dirs,
                              !.left = n]]
    /\ calls' = calls + 1
    /\ UNCHANGED <<tmux, db, file, reg, aux>>

\* Pane p appears in window r, whose other panes may be renumbered.
Split(p, r) ==
    /\ \E new \in Reflowed({q \in Panes : Live(q) /\ wnd[q] = r} \cup {p}) : addr' = new
    /\ born' = p
    /\ wnd' = [wnd EXCEPT ![p] = r]

\* spawn_pane: the first one makes the window, the others split what tmux
\* finds under its name; then the title and the runtime.  A tmux failure
\* leaves no pane, or one that nothing runs in, and the loop goes on.
SpawnPane(c) ==
    /\ call[c].pc \in {"first", "panes"}
    /\ call[c].left > 0
    /\ \/ /\ born < MaxPane
          /\ \E r \in IF call[c].pc = "first" THEN {call[c].room} ELSE {wnd[q] : q \in Named(call[c].room)} :
                Split(born + 1, r)
          /\ LET p == born + 1 IN
             \/ \E role \in Roles, repo \in call[c].dirs :
                   /\ title' = [title EXCEPT ![p] = Canonical(repo, role, addr'[p])]
                   /\ up' = up \cup {p}
                   /\ call' = [call EXCEPT ![c].left = @ - 1, ![c].pc = "panes",
                         ![c].todo = @ \cup
                            {[pane |-> p, room |-> call[c].room, repo |-> repo, role |-> role,
                              target |-> addr'[p], inst |-> NoId, active |-> FALSE]}]
             \/ /\ "tmux" \in Events
                /\ call' = [call EXCEPT ![c].left = @ - 1, ![c].pc = "panes"]
                /\ UNCHANGED <<title, up>>
       \/ /\ \/ born = MaxPane
             \/ "tmux" \in Events
             \/ call[c].pc = "panes" /\ Named(call[c].room) = {}
          /\ call' = [call EXCEPT ![c].left = @ - 1, ![c].pc = "panes"]
          /\ UNCHANGED <<addr, wnd, born, title, up>>
    /\ again' = [d \in Callers |-> IF call[d].pc = "mark" THEN again[d] \cup {call[c].room} ELSE {}]
    /\ UNCHANGED <<moves, db, file, reg, takers, late, parted, calls>>

\* INSERT OR REPLACE of the room cascades to the members it had.
SpawnRecord(c) ==
    /\ call[c].pc = "panes"
    /\ call[c].left = 0
    /\ lock = NoCaller
    /\ rooms' = [rooms EXCEPT ![call[c].room] = [status |-> "active", repo |-> call[c].repo]]
    /\ members' = (members \ MembersOf(call[c].room)) \cup call[c].todo
    /\ call' = [call EXCEPT ![c] = IdleCall]
    /\ UNCHANGED <<tmux, agents, lock, file, reg, aux, calls>>

(***************************************************************************)
(* warroom_add                                                             *)
(***************************************************************************)
AddStart(c) ==
    /\ "add" \in Tools
    /\ call[c].pc = "idle" /\ calls < MaxCalls
    /\ born < MaxPane
    /\ \E r \in Rooms, repo \in Repos, role \in Roles :
          /\ Status(r) = "active"
          /\ call' = [call EXCEPT ![c] =
                [IdleCall EXCEPT !.pc = "split", !.room = r, !.repo = repo, !.role = role]]
    /\ calls' = calls + 1
    /\ UNCHANGED <<tmux, db, file, reg, aux>>

\* The pane appears without a title and without a runtime; the members are
\* read after it.
AddSplit(c) ==
    /\ call[c].pc = "split"
    /\ \/ /\ born < MaxPane
          /\ \E q \in Named(call[c].room) : Split(born + 1, wnd[q])
          /\ call' = [call EXCEPT ![c].pc = "look", ![c].new = {born + 1},
                                  ![c].todo = MembersOf(call[c].room)]
       \/ /\ "tmux" \in Events
          /\ born < MaxPane
          /\ \E q \in Named(call[c].room) : Split(born + 1, wnd[q])
          /\ call' = [call EXCEPT ![c] = IdleCall]
       \/ /\ Named(call[c].room) = {} \/ born = MaxPane \/ "tmux" \in Events
          /\ call' = [call EXCEPT ![c] = IdleCall]
          /\ UNCHANGED <<addr, wnd, born>>
    /\ UNCHANGED <<title, moves, up, db, file, reg, aux, calls>>

OldId(m) == IF m.inst # NoId THEN m.inst ELSE Canonical(m.repo, m.role, m.target)

\* _find_agent_registration: by id, else by the address and role it had.
Found(m) ==
    LET byId     == {r \in agents : r.id = OldId(m)}
        byTarget == {r \in agents : r.target = m.target /\ r.role = m.role}
    IN  IF byId # {} THEN {OldId(m)} ELSE {r.id : r \in byTarget}

\* Members whose pane tmux does not know are skipped.
AddLook(c) ==
    /\ call[c].pc = "look"
    /\ LET here == {m \in call[c].todo : Live(m.pane)} IN
       \E row \in [here -> {r.id : r \in agents} \cup {NoId}] :
          /\ \A m \in here : IF Found(m) = {} THEN row[m] = NoId ELSE row[m] \in Found(m)
          /\ call' = [call EXCEPT ![c].pc = "rekey", ![c].todo = {},
                ![c].moves = {[member |-> m, target |-> addr[m.pane], old |-> OldId(m),
                               new |-> Canonical(m.repo, m.role, addr[m.pane]),
                               row |-> row[m], hit |-> row[m] # NoId] : m \in here}]
    /\ UNCHANGED <<tmux, db, file, reg, aux, calls>>

\* The moves that rewrite a row: the first of those that found it.
Rekeys(mvs) ==
    {m \in mvs : /\ m.row # NoId
                 /\ \A n \in mvs : n.row = m.row => n.member.pane >= m.member.pane}

\* Every row to rewrite gets a temporary id first, so only the ids of other
\* rows can collide.
Colliding(mvs) ==
    {m \in Rekeys(mvs) : \E r \in agents : r.id = m.new /\ \A n \in Rekeys(mvs) : n.row # r.id}

\* A collision raises out of the call and rolls it back; titles stay.
AddRekey(c) ==
    /\ call[c].pc = "rekey"
    /\ lock = NoCaller
    /\ LET mvs == call[c].moves
           stamped == {m \in mvs : /\ Live(m.member.pane)
                                   /\ \A n \in Colliding(mvs) : m.member.pane < n.member.pane}
       IN  /\ title' = [p \in Panes |->
                 IF \E m \in stamped : m.member.pane = p
                 THEN (CHOOSE m \in stamped : m.member.pane = p).new ELSE title[p]]
           /\ IF Colliding(mvs) # {}
              THEN call' = [call EXCEPT ![c] = IdleCall] /\ lock' = NoCaller
              ELSE Goto(c, "pids") /\ lock' = IF mvs = {} THEN NoCaller ELSE c
    /\ UNCHANGED <<addr, wnd, born, moves, up, agents, members, rooms, file, reg, aux, calls>>

\* old_to_new: of two moves from one id the last counts.
Renames(mvs) ==
    {m \in mvs : /\ m.old # m.new
                 /\ \A n \in mvs : n.old = m.old /\ n.new # n.old => n.member.pane <= m.member.pane}

\* _rewrite_pid_mapping_batch: decided from what every file held before.
AddPids(c) ==
    /\ call[c].pc = "pids"
    /\ pidFile' = [p \in Panes |->
          IF \E m \in Renames(call[c].moves) : m.old = pidFile[p]
          THEN (CHOOSE m \in Renames(call[c].moves) : m.old = pidFile[p]).new ELSE pidFile[p]]
    /\ Goto(c, "stage")
    /\ UNCHANGED <<tmux, db, mail, sent, reg, aux, calls>>

\* _migrate_inbox_mapping_batch, first loop: the old inboxes move aside.
AddStage(c) ==
    /\ call[c].pc = "stage"
    /\ LET mvs == Renames(call[c].moves) IN
       /\ mail' = [i \in Ids |-> IF \E m \in mvs : m.old = i THEN {} ELSE mail[i]]
       /\ call' = [call EXCEPT ![c].pc = "merge",
             ![c].staged = {[to |-> m.new, mail |-> mail[m.old]] : m \in mvs}]
    /\ UNCHANGED <<tmux, db, pidFile, sent, reg, aux, calls>>

\* Second loop: renamed into place, or merged into what is there.
AddMerge(c) ==
    /\ call[c].pc = "merge"
    /\ mail' = [i \in Ids |-> mail[i] \cup UNION {s.mail : s \in {t \in call[c].staged : t.to = i}}]
    /\ call' = [call EXCEPT ![c].pc = "launch", ![c].staged = {}]
    /\ UNCHANGED <<tmux, db, pidFile, sent, reg, aux, calls>>

\* The title is stamped with the caller's directory, then the runtime is
\* started; a failure returns, and returning commits.
AddLaunch(c) ==
    /\ call[c].pc = "launch"
    /\ \E p \in call[c].new :
          \/ /\ Live(p)
             /\ title' = [title EXCEPT ![p] = Canonical(call[c].repo, call[c].role, addr[p])]
             /\ up' = up \cup {p}
             /\ call' = [call EXCEPT ![c].pc = "record", ![c].todo =
                   {[pane |-> p, room |-> call[c].room, repo |-> call[c].repo,
                     role |-> call[c].role, target |-> addr[p], inst |-> NoId, active |-> FALSE]}]
          \/ /\ ~Live(p) \/ "tmux" \in Events
             /\ Goto(c, "commit")
             /\ UNCHANGED <<title, up>>
    /\ UNCHANGED <<addr, wnd, born, moves, db, file, reg, aux, calls>>

\* The tables as the re-keying leaves them.
RekeyedAgents(mvs) ==
    {IF \E m \in Rekeys(mvs) : m.row = r.id
     THEN LET m == CHOOSE n \in Rekeys(mvs) : n.row = r.id
          IN  [r EXCEPT !.id = m.new, !.target = m.target, !.role = m.member.role]
     ELSE r : r \in agents}

RekeyedMembers(mvs) ==
    {IF \E m \in mvs : m.member.pane = x.pane
     THEN LET m == CHOOSE n \in mvs : n.member.pane = x.pane
          IN  [x EXCEPT !.target = m.target, !.inst = IF m.hit THEN m.new ELSE NoId,
                        !.active = m.hit]
     ELSE x : x \in members}

\* The calls that hold a rowid of a rewritten row find it under its new id.
Renamed(mvs) ==
    [d \in Callers |-> [call[d] EXCEPT !.moves =
        {IF \E n \in Rekeys(mvs) : n.row = m.row
         THEN [m EXCEPT !.row = (CHOOSE n \in Rekeys(mvs) : n.row = m.row).new] ELSE m : m \in @}]]

\* Panes whose row and inbox a re-keying takes to different ids.
RowGoes(mvs, i)  == {m.new : m \in {n \in Rekeys(mvs) : n.row = i /\ n.new # i}}
MailGoes(mvs, i) == {m.new : m \in {n \in Renames(mvs) : n.old = i}}
Stranded(mvs) == {r.pane : r \in {x \in agents : RowGoes(mvs, x.id) # MailGoes(mvs, x.id)}}

\* The INSERT needs the room to be there still; without it the call raises
\* and takes the re-keying back, files excepted.  The member's repo is the
\* room's, whatever directory its pane was started in.
AddCommit(c) ==
    /\ call[c].pc \in {"record", "commit"}
    /\ lock \in {NoCaller, c}
    /\ LET mvs == call[c].moves
           new == IF call[c].pc = "record"
                  THEN {[m EXCEPT !.repo = rooms[m.room].repo] : m \in call[c].todo} ELSE {}
           ok  == new = {} \/ Status(call[c].room) # "none"
       IN  /\ agents' = IF ok THEN RekeyedAgents(mvs) ELSE agents
           /\ members' = IF ok THEN RekeyedMembers(mvs) \cup new ELSE members
           /\ call' = [(IF ok THEN Renamed(mvs) ELSE call) EXCEPT ![c] = IdleCall]
           /\ late' = IF ok THEN late ELSE late \cup Panes
           /\ parted' = IF ok THEN parted \cup Stranded(mvs) ELSE parted
           /\ takers' = IF ok THEN takers \cup Bearers(agents', members' \cup Listed) ELSE takers
    /\ lock' = NoCaller
    /\ UNCHANGED <<tmux, rooms, file, reg, again, calls>>

(***************************************************************************)
(* warroom_remove                                                          *)
(***************************************************************************)
RemoveStart(c) ==
    /\ "remove" \in Tools
    /\ call[c].pc = "idle" /\ calls < MaxCalls
    /\ \E m \in members :
          call' = [call EXCEPT ![c] =
             [IdleCall EXCEPT !.pc = "pane", !.room = m.room, !.todo = {m}]]
    /\ calls' = calls + 1
    /\ UNCHANGED <<tmux, db, file, reg, aux>>

\* kill-pane is best effort; it renumbers what is left of the window.
RemoveKill(c) ==
    /\ call[c].pc = "pane"
    /\ \E m \in call[c].todo :
          \/ addr' \in {[new EXCEPT ![m.pane] = NoAddr] :
                           new \in Reflowed({p \in Panes : Live(p) /\ wnd[p] = wnd[m.pane]})}
          \/ "tmux" \in Events /\ addr' = addr
    /\ Goto(c, "drop")
    /\ UNCHANGED <<wnd, title, born, moves, up, db, file, reg, aux, calls>>

\* The member's registration is left to the hooks; the last member takes
\* the room with it.
RemoveDelete(c) ==
    /\ call[c].pc = "drop"
    /\ lock = NoCaller
    /\ members' = {m \in members : \A x \in call[c].todo : x.pane # m.pane}
    /\ rooms' = IF Status(call[c].room) = "none" \/ \E m \in members' : m.room = call[c].room
                THEN rooms ELSE [rooms EXCEPT ![call[c].room].status = "killed"]
    /\ call' = [call EXCEPT ![c] = IdleCall]
    /\ UNCHANGED <<tmux, agents, lock, file, reg, aux, calls>>

(***************************************************************************)
(* warroom_status                                                          *)
(***************************************************************************)

\* sync_pane_addresses, then the probe of every active room's window.
StatusStart(c) ==
    /\ "status" \in Tools
    /\ call[c].pc = "idle"
    /\ lock = NoCaller
    /\ agents' = {IF Live(r.pane) THEN [r EXCEPT !.target = addr[r.pane]] ELSE r : r \in agents}
    /\ members' = {IF Live(m.pane) THEN [m EXCEPT !.target = addr[m.pane]] ELSE m : m \in members}
    /\ Goto(c, "reap")
    /\ UNCHANGED <<tmux, rooms, lock, file, reg, aux, calls>>

\* Mutated form: a room is reaped when none of its members is registered.
GoneByMembers(r) == \A m \in MembersOf(r) : RowsOf(m.pane) = {}

\* Mutated form: a room is reaped when it has no members.
GoneWithoutMembers(r) == MembersOf(r) = {}

\* reap_dead_warrooms: a window tmux does not find ...
Gone(r) == Named(r) = {}

\* ... or does not answer for.
ReapProbe(c) ==
    /\ call[c].pc = "reap"
    /\ LET active == {r \in Rooms : Status(r) = "active"} IN
       \E dead \in SUBSET active :
          /\ {r \in active : Gone(r)} \subseteq dead
          /\ "tmux" \in Events \/ \A r \in dead : Gone(r)
          /\ call' = [call EXCEPT ![c].pc = IF dead = {} THEN "backfill" ELSE "mark",
                                  ![c].doomed = dead]
    /\ UNCHANGED <<tmux, db, file, reg, aux, calls>>

ReapMark(c) ==
    /\ call[c].pc = "mark"
    /\ lock = NoCaller
    /\ rooms' = [r \in Rooms |-> IF r \in call[c].doomed /\ Status(r) = "active"
                                 THEN [rooms[r] EXCEPT !.status = "killed"] ELSE rooms[r]]
    /\ call' = [call EXCEPT ![c].pc = "backfill", ![c].doomed = {}]
    /\ again' = [again EXCEPT ![c] = {}]
    /\ UNCHANGED <<tmux, agents, members, lock, file, reg, takers, late, parted, calls>>

\* backfill_warroom_member_agent_ids: the join of every member with the row
\* of its pane ...
BackfillSelect(c) ==
    /\ call[c].pc = "backfill"
    /\ call' = [call EXCEPT ![c].pc = "fill",
          ![c].joined = {[pane |-> m.pane, row |-> NoId] : m \in {n \in members : RowsOf(n.pane) = {}}}
                   \cup {[pane |-> r.pane, row |-> r.id] : r \in
                            {x \in agents : \E m \in members : m.pane = x.pane}}]
    /\ UNCHANGED <<tmux, db, file, reg, aux, calls>>

\* Mutated form: a registration that is gone is not cleared.
ReconciledUpward(m, row) == IF Live(m.pane) /\ row # NoId THEN row ELSE m.inst

Reconciled(m, row) == IF Live(m.pane) THEN row ELSE NoId

\* ... and the writes, each after a probe of the pane.
BackfillWrite(c) ==
    /\ call[c].pc = "fill"
    /\ lock = NoCaller
    /\ members' = {IF \E j \in call[c].joined : j.pane = m.pane
                   THEN LET j == CHOOSE k \in call[c].joined : k.pane = m.pane
                            i == Reconciled(m, j.row)
                        IN  [m EXCEPT !.inst = i, !.active = i # NoId]
                   ELSE m : m \in members}
    /\ takers' = takers \cup Bearers(agents, members' \cup Listed)
    /\ call' = [call EXCEPT ![c] = IdleCall]
    /\ UNCHANGED <<tmux, agents, rooms, lock, file, reg, again, late, parted, calls>>

(***************************************************************************)
(* Failure                                                                 *)
(***************************************************************************)

\* Mutated form: the write lock outlives the call.
CrashKeepingLock(c) ==
    /\ "crash" \in Events
    /\ call[c].pc # "idle"
    /\ call' = [call EXCEPT ![c] = IdleCall]
    /\ UNCHANGED <<tmux, db, file, reg, aux, calls>>

\* A server dies in a call: what it had not committed is rolled back, what
\* it did to tmux and to files stays.
Crash(c) ==
    /\ "crash" \in Events
    /\ call[c].pc # "idle"
    /\ call' = [call EXCEPT ![c] = IdleCall]
    /\ lock' = IF lock = c THEN NoCaller ELSE lock
    /\ late' = IF lock = c THEN late \cup Panes ELSE late
    /\ again' = [again EXCEPT ![c] = {}]
    /\ UNCHANGED <<tmux, agents, members, rooms, file, reg, takers, parted, calls>>

(***************************************************************************)
(* Specification                                                           *)
(***************************************************************************)
Hook(p) == HookRead(p) \/ HookCommit(p) \/ HookKilled(p)

KillTool(c)   == KillStart(c) \/ KillWindow(c) \/ KillSelect(c) \/ KillDelete(c)
SpawnTool(c)  == SpawnStart(c) \/ SpawnPane(c) \/ SpawnRecord(c)
AddTool(c)    == \/ AddStart(c) \/ AddSplit(c) \/ AddLook(c) \/ AddRekey(c) \/ AddPids(c)
                 \/ AddStage(c) \/ AddMerge(c) \/ AddLaunch(c) \/ AddCommit(c)
RemoveTool(c) == RemoveStart(c) \/ RemoveKill(c) \/ RemoveDelete(c)
StatusTool(c) == StatusStart(c) \/ ReapProbe(c) \/ ReapMark(c) \/ BackfillSelect(c) \/ BackfillWrite(c)

Environment == NewPane \/ ReIndex \/ Prune \/ Send

Next ==
    \/ Environment
    \/ \E p \in Panes : ClosePane(p) \/ Exit(p) \/ Hook(p)
    \/ \E c \in Callers : \/ KillTool(c) \/ SpawnTool(c) \/ AddTool(c)
                          \/ RemoveTool(c) \/ StatusTool(c) \/ Crash(c)

Spec == Init /\ [][Next]_vars

\* A call, once made, runs on; hooks run on or are killed; the runtime of a
\* dead pane ends; a server is asked for the status again and again.
Fairness ==
    /\ \A c \in Callers :
          /\ WF_vars(KillWindow(c) \/ KillSelect(c) \/ KillDelete(c))
          /\ WF_vars(SpawnPane(c) \/ SpawnRecord(c))
          /\ WF_vars(AddSplit(c) \/ AddLook(c) \/ AddRekey(c) \/ AddPids(c) \/ AddStage(c)
                     \/ AddMerge(c) \/ AddLaunch(c) \/ AddCommit(c))
          /\ WF_vars(RemoveKill(c) \/ RemoveDelete(c))
          /\ SF_vars(StatusStart(c))
          /\ WF_vars(ReapProbe(c) \/ ReapMark(c) \/ BackfillSelect(c) \/ BackfillWrite(c))
    /\ \A p \in Panes : WF_vars(HookCommit(p) \/ HookKilled(p))
    /\ \A p \in Panes : WF_vars(~Live(p) /\ Exit(p))

FairSpec == Spec /\ Fairness

(***************************************************************************)
(* Properties                                                              *)
(***************************************************************************)

\* Every variable holds a value of the shape the tables, the files and tmux
\* give it, and a write lock belongs to a call that is re-keying.
TypeOK ==
    /\ addr \in [Panes -> MaybeAddr]
    /\ wnd \in [Panes -> Rooms \cup {NoRoom}]
    /\ title \in [Panes -> MaybeId]
    /\ born \in 0 .. MaxPane /\ moves \in 0 .. MaxMoves
    /\ sent \in 0 .. MaxMail /\ calls \in 0 .. MaxCalls
    /\ up \subseteq Panes
    /\ agents \subseteq Rows
    /\ members \subseteq Members
    /\ rooms \in [Rooms -> [status : {"none", "active", "killed"}, repo : Repos \cup {NoId}]]
    /\ lock \in Callers \cup {NoCaller}
    /\ lock # NoCaller => call[lock].pc \in {"pids", "stage", "merge", "launch", "record", "commit"}
    /\ pidFile \in [Panes -> MaybeId]
    /\ mail \in [Ids -> SUBSET Panes]
    /\ \A c \in Callers : call[c].todo \subseteq Members /\ call[c].moves \subseteq Moves
    /\ again \in [Callers -> SUBSET Rooms]
    /\ takers \subseteq Panes /\ late \subseteq Panes /\ parted \subseteq Panes

\* Row, pid file and inbox name one id: what is sent to the agent lies where
\* it looks, and nowhere else.
Reachable(p) ==
    \A r \in RowsOf(p) :
       /\ p \in up => pidFile[p] = r.id
       /\ \A i \in Ids : p \in mail[i] => i = r.id
Rekeying == \E c \in Callers : call[c].pc \in {"pids", "stage", "merge", "launch", "record", "commit"}

\* "Move unread and archived mail from old agent ids to new agent ids": a row
\* that gets a new id has its inbox moved with it.
RekeyTakesMailAlong ==
    [][\A c \in Callers : AddCommit(c) /\ agents' # agents =>
          \A m \in Rekeys(call[c].moves) : m.new # m.row => m.new \in MailGoes(call[c].moves, m.row)]_vars

\* An agent stays reachable through a warroom_add that renumbers its window:
\* no chain or cycle of moves mixes two inboxes or pid files up or leaves one
\* behind.  Excepted are agents whose row and inbox the look-up parts, and
\* those that mail was sent to while the call was writing.
AgentsStayReachable == Rekeying \/ \A p \in Panes \ (late \cup parted) : Reachable(p)

\* warroom_kill and the kill before a spawn take no registration of a live
\* pane outside the room, except one whose row bears a member's id: addresses are
\* handed on to other panes all the time.
KillSparesStrangers ==
    [][\A c \in Callers : KillDelete(c) =>
          \A r \in agents \ agents' :
             Live(r.pane) => \/ r.pane \in takers
                             \/ \E m \in call[c].todo : m.pane = r.pane]_vars

\* A room is marked killed only when its window was gone, unless it was
\* being spawned again between the probe and the mark.
ReapSparesLiveRooms ==
    [][\A c \in Callers, r \in Rooms :
          ReapMark(c) /\ rooms[r].status = "active" /\ rooms'[r].status = "killed"
             => Window(r) = {} \/ r \in again[c]]_vars

\* Once the renumbering, the spawning and the dying are over, every member
\* carries its pane's address and the registration of its pane, or none.
MembersSettled ==
    \A m \in members :
       /\ Live(m.pane) => m.target = addr[m.pane]
       /\ m.inst = (IF Live(m.pane) /\ RowsOf(m.pane) # {}
                    THEN (CHOOSE r \in RowsOf(m.pane) : TRUE).id ELSE NoId)
       /\ m.active = (m.inst # NoId)
MembersSettle == <>[]MembersSettled

\* A room whose window is gone does not stay active.
DeadRoomsReaped == \A r \in Rooms : (Status(r) = "active" /\ Window(r) = {}) ~> (Status(r) # "active" \/ Window(r) # {})

=============================================================================
