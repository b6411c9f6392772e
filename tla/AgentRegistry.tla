--------------------------- MODULE AgentRegistry ---------------------------
(***************************************************************************)
(* The agents table of the bus, the tmux world it mirrors, and every       *)
(* process that writes it:                                                 *)
(*   - the SessionStart hook (bus-register.sh -> register_agent.py ->      *)
(*     agent_registry.register) of each pane's runtime,                    *)
(*   - the SessionEnd hook and wrapper trap (bus-unregister.sh),           *)
(*   - list_agents = sync_pane_addresses + prune_dead_agents,              *)
(*   - the tmux kill hook (bus-prune.sh),                                  *)
(*   - the register_agent and unregister_agent MCP tools called directly.  *)
(*                                                                         *)
(* Grain of atomicity.  Python's sqlite3 opens a transaction only before   *)
(* the first DML statement, so a SELECT is a snapshot of its own; a tmux   *)
(* call is a subprocess; the DMLs of one `with db()` block commit          *)
(* together.  Each SELECT, each tmux call and each commit is one step.     *)
(*                                                                         *)
(* Abstractions.  An id is the record it is formatted from: repo and role  *)
(* together (cwd), the address in it (at), and the pane suffix of a        *)
(* disambiguated id (sfx).  Timestamps, session ids, profiles and runtimes *)
(* are left out; `last_seen` order is arbitrary (any caller may heartbeat  *)
(* any id).  Process ids are not reused.  The inbox directory that         *)
(* register() creates is created again by every delivery and is left out.  *)
(***************************************************************************)
EXTENDS Naturals

CONSTANTS
    Panes,        \* stable tmux pane ids (%N), never reused by a tmux server
    Addrs,        \* session:window.pane addresses
    Cwds,         \* project directories a runtime can be launched in
    NoPane,       \* the empty pane_id
    NoAddr,       \* the empty tmux_target
    NoId,         \* no agent id
    NoRow,        \* no row in the agents table
    MaxGen,       \* bound: runtimes started in one pane, one after the other
    MaxMoves,     \* bound: tmux re-indexings
    Sources,      \* branches of resolve_agent_id in play
    Reconcilers,  \* "list_agents" and/or "bus_prune"
    Events        \* what may happen besides starts, hooks and kills: see EventKinds

SourceKinds == {"pane_title", "bare_title", "fallback"}
EventKinds ==
    { "session_end"  \* a runtime ends, or its wrapper traps the kill
    , "blind"     \* a tmux display-message fails: no title, no address
    , "timeout"   \* the 3 s watchdog kills the registration helper
    , "crash"     \* a runtime dies without running its SessionEnd hook
    , "flaky"     \* list-panes fails or times out on a live pane
    , "mcp" }     \* register_agent / unregister_agent called without pane_id

MaybePane == Panes \cup {NoPane}
MaybeAddr == Addrs \cup {NoAddr}
Ids  == [cwd : Cwds, at : MaybeAddr, sfx : MaybePane]
Pids == Panes \X (0 .. MaxGen)
Rows == [pane : MaybePane, target : MaybeAddr, cwd : Cwds, pid : Pids]

ASSUME RegistryAssumption ==
    /\ NoPane \notin Panes
    /\ NoAddr \notin Addrs
    /\ NoId \notin Ids \cup Cwds
    /\ NoRow \notin Rows
    /\ MaxGen \in Nat
    /\ MaxMoves \in Nat
    /\ Sources \subseteq SourceKinds
    /\ Reconcilers \subseteq {"list_agents", "bus_prune"}
    /\ Panes \cap Reconcilers = {}
    /\ Events \subseteq EventKinds

VARIABLES
    addr,     \* tmux: current address of each pane, NoAddr when it has none
    born,     \* tmux: panes created so far
    title,    \* tmux: canonical identity written in the pane title, or NoId
    moves,    \* number of re-indexings so far
    running,  \* panes whose runtime process is up
    gen,      \* number of runtimes started in each pane
    agents,   \* the agents table, keyed by agent_id
    pidFile,  \* the pids/ directory: pid |-> agent_id
    reg,      \* the SessionStart hook in flight in each pane
    unreg,    \* the SessionEnd hook in flight in each pane
    rec,      \* the reconciliation pass in flight
    fresh     \* auxiliary: panes that committed a row since an observer's read

tmux     == <<addr, born, title, moves>>
runtimes == <<running, gen>>
vars     == <<tmux, runtimes, agents, pidFile, reg, unreg, rec, fresh>>

(***************************************************************************)
(* Reading the world and the table                                         *)
(***************************************************************************)
Live(p) == addr[p] # NoAddr
Dead(p) == p \in born /\ ~Live(p)
PidOf(p) == <<p, gen[p]>>

\* A runtime's process outlives its session by its SessionEnd hook.
PidAlive(pid) ==
    /\ gen[pid[1]] = pid[2]
    /\ pid[1] \in running \/ unreg[pid[1]].pc # "idle"

Registered(i) == agents[i] # NoRow
RowsOf(p) == {i \in Ids : Registered(i) /\ agents[i].pane = p}

\* canonical_agent_id: {repo}:{type}:{target}, or {repo}:{type} off tmux.
Canonical(cwd, target) == [cwd |-> cwd, at |-> target, sfx |-> NoPane]

\* TmuxGateway.pane_alive: list-panes -t; a failed or slow call reads as dead.
SeenAlive(p) == Live(p)
SeenDead(p)  == ~Live(p) \/ "flaky" \in Events

\* A display-message about pane p prints its address, or nothing.
AddressRead(p) ==
    {addr[p]} \cup (IF "blind" \in Events THEN {NoAddr} ELSE {})

(***************************************************************************)
(* tmux and the runtimes: the environment                                  *)
(***************************************************************************)
IdleReg == [pc |-> "idle", id |-> NoId, src |-> "none", cwd |-> NoId,
            target |-> NoAddr, claimant |-> NoPane, evict |-> FALSE]
IdleUnreg == [pc |-> "idle", id |-> NoId]
IdleRec == [pc |-> "idle", snap |-> NoId, upd |-> {}, todo |-> {}, dead |-> {}]

Init ==
    /\ addr = [p \in Panes |-> NoAddr]
    /\ born = {}
    /\ title = [p \in Panes |-> NoId]
    /\ moves = 0
    /\ running = {}
    /\ gen = [p \in Panes |-> 0]
    /\ agents = [i \in Ids |-> NoRow]
    /\ pidFile = [pid \in Pids |-> NoId]
    /\ reg = [p \in Panes |-> IdleReg]
    /\ unreg = [p \in Panes |-> IdleUnreg]
    /\ rec = [r \in Reconcilers |-> IdleRec]
    /\ fresh = [o \in Panes \cup Reconcilers |-> {}]

\* A pane appears at a free address; warroom spawn stamps the identity of
\* that birth address in its title, an ad-hoc pane has no canonical title.
NewPane(p) ==
    /\ p \notin born
    /\ \E a \in Addrs, c \in Cwds, stamped \in BOOLEAN :
          /\ \A q \in Panes : addr[q] # a
          /\ stamped => "pane_title" \in Sources
          /\ addr' = [addr EXCEPT ![p] = a]
          /\ title' = [title EXCEPT ![p] = IF stamped THEN Canonical(c, a) ELSE NoId]
    /\ born' = born \cup {p}
    /\ UNCHANGED <<moves, runtimes, agents, pidFile, reg, unreg, rec, fresh>>

\* A window kill or a move renumbers the surviving panes.
ReIndex ==
    /\ moves < MaxMoves
    /\ \E new \in [Panes -> MaybeAddr] :
          /\ \A p \in Panes : new[p] = NoAddr <=> addr[p] = NoAddr
          /\ \A p, q \in Panes : p # q /\ new[p] = new[q] => new[p] = NoAddr
          /\ new # addr
          /\ addr' = new
    /\ moves' = moves + 1
    /\ UNCHANGED <<born, title, runtimes, agents, pidFile, reg, unreg, rec, fresh>>

\* kill-pane: the runtime goes with it; the wrapper's HUP trap may still run.
KillPane(p) ==
    /\ Live(p)
    /\ addr' = [addr EXCEPT ![p] = NoAddr]
    /\ running' = running \ {p}
    /\ \/ unreg' = unreg
       \/ /\ "session_end" \in Events
          /\ p \in running
          /\ unreg' = [unreg EXCEPT ![p] = [pc |-> "read", id |-> NoId]]
    /\ UNCHANGED <<born, title, moves, gen, agents, pidFile, reg, rec, fresh>>

StartRuntime(p) ==
    /\ Live(p)
    /\ p \notin running
    /\ gen[p] < MaxGen
    /\ reg[p].pc = "idle"
    /\ unreg[p].pc = "idle"
    /\ running' = running \cup {p}
    /\ gen' = [gen EXCEPT ![p] = @ + 1]
    /\ UNCHANGED <<tmux, agents, pidFile, reg, unreg, rec, fresh>>

\* SessionEnd for good: a /clear or compaction leaves bus-unregister.sh early.
SessionEnd(p) ==
    /\ "session_end" \in Events
    /\ p \in running
    /\ reg[p].pc = "idle"
    /\ running' = running \ {p}
    /\ unreg' = [unreg EXCEPT ![p] = [pc |-> "read", id |-> NoId]]
    /\ UNCHANGED <<tmux, gen, agents, pidFile, reg, rec, fresh>>

CrashRuntime(p) ==
    /\ "crash" \in Events
    /\ p \in running
    /\ running' = running \ {p}
    /\ UNCHANGED <<tmux, gen, agents, pidFile, reg, unreg, rec, fresh>>

(***************************************************************************)
(* SessionStart: bus-register.sh, register_agent.py, register()            *)
(***************************************************************************)

\* resolve_agent_id: a canonical title, else an id minted from the current
\* address; `--agent` titles and arguments (bare_title) count as strong.
HookResolve(p) ==
    /\ p \in running
    /\ reg[p].pc = "idle"
    /\ \E src \in Sources, cwd \in Cwds, here \in AddressRead(p) :
          /\ src = "pane_title" => title[p] # NoId
          /\ src # "pane_title" => title[p] = NoId \/ "blind" \in Events
          /\ reg' = [reg EXCEPT ![p] =
                [IdleReg EXCEPT !.pc = "target",
                                !.id = IF src = "pane_title" THEN title[p]
                                       ELSE Canonical(cwd, here),
                                !.src = src,
                                !.cwd = cwd]]
    /\ UNCHANGED <<tmux, runtimes, agents, pidFile, unreg, rec, fresh>>

\* TMUX_TARGET is read again, after the identity.
HookTarget(p) ==
    /\ reg[p].pc = "target"
    /\ \E here \in AddressRead(p) :
          reg' = [reg EXCEPT ![p] =
                    [@ EXCEPT !.pc = IF reg[p].src = "fallback" THEN "adopt" ELSE "claim",
                              !.target = here]]
    /\ UNCHANGED <<tmux, runtimes, agents, pidFile, unreg, rec, fresh>>

\* Mutated form: continuity ignored.
NotAdopted(p, i) == [id |-> reg[p].id, cwd |-> reg[p].cwd]

\* _continuity_identity: a weak id yields to the pane's latest row, unless
\* both the project directory and the process are new.
Adopted(p, i) ==
    IF agents[i].cwd = reg[p].cwd \/ agents[i].pid = PidOf(p)
    THEN [id |-> i, cwd |-> agents[i].cwd]
    ELSE [id |-> reg[p].id, cwd |-> reg[p].cwd]

RegAdopt(p) ==
    /\ reg[p].pc = "adopt"
    /\ \/ /\ RowsOf(p) = {}
          /\ reg' = [reg EXCEPT ![p] = [@ EXCEPT !.pc = "claim"]]
       \/ \E i \in RowsOf(p) :
             reg' = [reg EXCEPT ![p] =
                       [@ EXCEPT !.pc = "claim",
                                 !.id = Adopted(p, i).id,
                                 !.cwd = Adopted(p, i).cwd]]
    /\ UNCHANGED <<tmux, runtimes, agents, pidFile, unreg, rec, fresh>>

\* Mutated form: INSERT OR REPLACE without the takeover guard.
UncheckedClaimant(p) == NoPane

\* The other pane whose row already carries this id, if any.
Claimant(p) ==
    IF Registered(reg[p].id) /\ agents[reg[p].id].pane \notin {NoPane, p}
    THEN agents[reg[p].id].pane ELSE NoPane

RegClaimant(p) ==
    /\ reg[p].pc = "claim"
    /\ reg' = [reg EXCEPT ![p] =
                 [@ EXCEPT !.pc = IF Claimant(p) = NoPane THEN "commit" ELSE "probe",
                           !.claimant = Claimant(p)]]
    /\ fresh' = [fresh EXCEPT ![p] = {}]
    /\ UNCHANGED <<tmux, runtimes, agents, pidFile, unreg, rec>>

\* A live claimant keeps its id and ours gets our pane id appended.
RegProbe(p) ==
    /\ reg[p].pc = "probe"
    /\ \/ /\ SeenAlive(reg[p].claimant)
          /\ reg' = [reg EXCEPT ![p] = [@ EXCEPT !.pc = "commit", !.id.sfx = p]]
       \/ /\ SeenDead(reg[p].claimant)
          /\ reg' = [reg EXCEPT ![p] = [@ EXCEPT !.pc = "commit", !.evict = TRUE]]
    /\ UNCHANGED <<tmux, runtimes, agents, pidFile, unreg, rec, fresh>>

\* Mutated form: eviction keyed on the mutable address alone.
EvictedByAddress(i, p, t) ==
    {j \in Ids : t # NoAddr /\ j # i /\ Registered(j) /\ agents[j].target = t}

\* Rows the registration of id i in pane p at address t makes stale.
Evicted(i, p, t) ==
    {j \in Ids : /\ t # NoAddr /\ j # i /\ Registered(j)
                 /\ \/ p # NoPane /\ agents[j].pane = p
                    \/ agents[j].pane = NoPane /\ agents[j].target = t}

\* The table after deleting the rows `gone` and replacing row i.
Insert(i, row, gone) ==
    [j \in Ids |-> IF j = i THEN row ELSE IF j \in gone THEN NoRow ELSE agents[j]]

\* Between an observer's read of the table and the write it decides.
Observing(o) == IF o \in Panes THEN reg[o].pc \in {"probe", "commit"}
                ELSE rec[o].pc # "idle"

RegCommit(p) ==
    /\ reg[p].pc = "commit"
    /\ LET r == reg[p]
           gone == Evicted(r.id, p, r.target)
                     \cup (IF r.evict THEN RowsOf(r.claimant) ELSE {})
       IN  agents' = Insert(r.id, [pane |-> p, target |-> r.target,
                                   cwd |-> r.cwd, pid |-> PidOf(p)], gone)
    /\ reg' = [reg EXCEPT ![p] = [IdleReg EXCEPT !.pc = "publish", !.id = reg[p].id]]
    /\ fresh' = [o \in DOMAIN fresh |->
                    IF o # p /\ Observing(o) THEN fresh[o] \cup {p} ELSE {}]
    /\ UNCHANGED <<tmux, runtimes, pidFile, unreg, rec>>

\* Mutated form: the pid file gets the id the hook asked for.
PublishProvisional(p) ==
    /\ reg[p].pc = "publish"
    /\ pidFile' = [pidFile EXCEPT ![PidOf(p)] = [reg[p].id EXCEPT !.sfx = NoPane]]
    /\ reg' = [reg EXCEPT ![p] = [IdleReg EXCEPT !.pc = "sweep"]]
    /\ UNCHANGED <<tmux, runtimes, agents, unreg, rec, fresh>>

\* The pid file gets the id that was committed, after it was committed.
RegPublish(p) ==
    /\ reg[p].pc = "publish"
    /\ pidFile' = [pidFile EXCEPT ![PidOf(p)] = reg[p].id]
    /\ reg' = [reg EXCEPT ![p] = [IdleReg EXCEPT !.pc = "sweep"]]
    /\ UNCHANGED <<tmux, runtimes, agents, unreg, rec, fresh>>

\* Mutated form: the hook goes on to publish an id it never received.
TimeoutPublishes(p) ==
    /\ "timeout" \in Events
    /\ reg[p].pc \in {"adopt", "claim", "probe", "commit", "publish"}
    /\ reg' = [reg EXCEPT ![p] = [IdleReg EXCEPT !.pc = "publish"]]
    /\ UNCHANGED <<tmux, runtimes, agents, pidFile, unreg, rec, fresh>>

\* The watchdog kills the helper, or the helper fails: nothing is undone.
RegTimeout(p) ==
    /\ "timeout" \in Events
    /\ reg[p].pc \in {"adopt", "claim", "probe", "commit", "publish"}
    /\ reg' = [reg EXCEPT ![p] = [IdleReg EXCEPT !.pc = "sweep"]]
    /\ UNCHANGED <<tmux, runtimes, agents, pidFile, unreg, rec, fresh>>

\* Pid files of processes that are gone are removed.
Swept == [pid \in Pids |-> IF PidAlive(pid) THEN pidFile[pid] ELSE NoId]

RegSweep(p) ==
    /\ reg[p].pc = "sweep"
    /\ pidFile' = [Swept EXCEPT ![PidOf(p)] = pidFile[PidOf(p)]]
    /\ reg' = [reg EXCEPT ![p] = IdleReg]
    /\ UNCHANGED <<tmux, runtimes, agents, unreg, rec, fresh>>

\* The hook itself goes down with its pane.
HookKilled(p) ==
    /\ Dead(p)
    /\ reg[p].pc # "idle"
    /\ reg' = [reg EXCEPT ![p] = IdleReg]
    /\ UNCHANGED <<tmux, runtimes, agents, pidFile, unreg, rec, fresh>>

\* register_agent(pwd, tmux_target[, agent_id]) without pane_id: neither
\* continuity nor the claimant check applies, so it is one transaction.
McpRegister(p) ==
    /\ "mcp" \in Events
    /\ p \in running
    /\ \E cwd \in Cwds, t \in {addr[p], NoAddr} :
          \E i \in {Canonical(cwd, t), pidFile[PidOf(p)]} \ {NoId} :
             agents' = Insert(i, [pane |-> NoPane, target |-> t,
                                  cwd |-> cwd, pid |-> PidOf(p)],
                              Evicted(i, NoPane, t))
    /\ UNCHANGED <<tmux, runtimes, pidFile, reg, unreg, rec, fresh>>

(***************************************************************************)
(* SessionEnd: bus-unregister.sh; unregister_agent                         *)
(***************************************************************************)

\* The id comes from the pid file; failing that rows are matched by session
\* (id stays NoId); with neither, the id is resolved afresh.
UnregRead(p) ==
    /\ unreg[p].pc = "read"
    /\ reg[p].pc = "idle"
    /\ \E i \in IF pidFile[PidOf(p)] # NoId THEN {pidFile[PidOf(p)]}
                ELSE {NoId} \cup {Canonical(cwd, addr[p]) : cwd \in Cwds}
                            \cup (IF Live(p) THEN {title[p]} ELSE {}) :
          unreg' = [unreg EXCEPT ![p] = [pc |-> "delete", id |-> i]]
    /\ pidFile' = [pidFile EXCEPT ![PidOf(p)] = NoId]
    /\ UNCHANGED <<tmux, runtimes, agents, reg, rec, fresh>>

\* The table after deleting rows.
Without(gone) == [i \in Ids |-> IF i \in gone THEN NoRow ELSE agents[i]]

\* DELETE by agent_id, or by session_id: the rows this process committed,
\* unless a /clear gave the session a new id and its registration failed.
UnregDelete(p) ==
    /\ unreg[p].pc = "delete"
    /\ \/ /\ unreg[p].id # NoId
          /\ agents' = Without({unreg[p].id})
       \/ /\ unreg[p].id = NoId
          /\ \/ agents' = Without({i \in Ids : Registered(i) /\ agents[i].pid = PidOf(p)})
             \/ "timeout" \in Events /\ agents' = agents
    /\ unreg' = [unreg EXCEPT ![p] = IdleUnreg]
    /\ UNCHANGED <<tmux, runtimes, pidFile, reg, rec, fresh>>

McpUnregister(p) ==
    /\ "mcp" \in Events
    /\ p \in running
    /\ pidFile[PidOf(p)] # NoId
    /\ agents' = Without({pidFile[PidOf(p)]})
    /\ UNCHANGED <<tmux, runtimes, pidFile, reg, unreg, rec, fresh>>

(***************************************************************************)
(* Reconciliation: list_agents and bus-prune.sh                            *)
(***************************************************************************)

AfterApply(r) == IF r = "list_agents" THEN "prune" ELSE "pids"

\* pane_snapshot: every pane's address in one tmux call.  Without an answer
\* list_agents goes on to its prune, the hook can judge pane-less rows only.
RecSnapshot(r) ==
    /\ rec[r].pc = "idle"
    /\ \/ rec' = [rec EXCEPT ![r] = [IdleRec EXCEPT !.pc = "select", !.snap = addr]]
       \/ /\ "flaky" \in Events
          /\ rec' = [rec EXCEPT ![r] = [IdleRec EXCEPT !.pc = AfterApply(r)]]
    /\ fresh' = [fresh EXCEPT ![r] = {}]
    /\ UNCHANGED <<tmux, runtimes, agents, pidFile, reg, unreg>>

\* Mutated form: addresses are never refreshed.
NothingDrifted(snap) == {}

\* Rows whose pane is in the snapshot under another address.
Drifted(snap) ==
    {<<i, snap[agents[i].pane]>> : i \in
        {j \in Ids : /\ Registered(j)
                     /\ agents[j].pane # NoPane
                     /\ snap[agents[j].pane] \notin {NoAddr, agents[j].target}}}

\* Mutated form: rows judged by their address even when they have a pane.
GoneByAddress(snap) ==
    {i \in Ids : /\ Registered(i) /\ agents[i].target # NoAddr
                 /\ \A p \in Panes : snap[p] # agents[i].target}

\* Rows bus-prune.sh calls dead: pane, else address, else pid.
Gone(snap) ==
    {i \in Ids : /\ Registered(i)
                 /\ LET row == agents[i] IN
                    \/ row.pane # NoPane /\ snap[row.pane] = NoAddr
                    \/ /\ row.pane = NoPane /\ row.target # NoAddr
                       /\ \A p \in Panes : snap[p] # row.target
                    \/ /\ row.pane = NoPane /\ row.target = NoAddr
                       /\ ~PidAlive(row.pid)}

RecSelect(r) ==
    /\ rec[r].pc = "select"
    /\ LET upd  == Drifted(rec[r].snap)
           dead == IF r = "bus_prune" THEN Gone(rec[r].snap) ELSE {}
       IN  rec' = [rec EXCEPT ![r] =
              [IdleRec EXCEPT !.pc = IF upd = {} /\ dead = {} THEN AfterApply(r) ELSE "apply",
                              !.upd = upd,
                              !.dead = dead]]
    /\ UNCHANGED <<tmux, runtimes, agents, pidFile, reg, unreg, fresh>>

\* The UPDATEs go by agent_id, whoever owns the row by now; the hook's
\* DELETE commits with them.
Refreshed(upd, gone) ==
    [i \in Ids |->
        IF i \in gone THEN NoRow
        ELSE IF Registered(i) /\ \E u \in upd : u[1] = i
        THEN [agents[i] EXCEPT !.target = (CHOOSE u \in upd : u[1] = i)[2]]
        ELSE agents[i]]

RecApply(r) ==
    /\ rec[r].pc = "apply"
    /\ agents' = Refreshed(rec[r].upd, rec[r].dead)
    /\ rec' = [rec EXCEPT ![r] =
          [IdleRec EXCEPT !.pc = AfterApply(r)]]
    /\ UNCHANGED <<tmux, runtimes, pidFile, reg, unreg, fresh>>

\* prune_dead_agents, first SELECT: rows with an address, to be probed by
\* pane id when they have one.
Candidates ==
    {[id |-> i, pane |-> agents[i].pane, target |-> agents[i].target] :
        i \in {j \in Ids : Registered(j) /\ agents[j].target # NoAddr}}

PruneSelect(r) ==
    /\ rec[r].pc = "prune"
    /\ rec' = [rec EXCEPT ![r] = [IdleRec EXCEPT !.pc = "probe", !.todo = Candidates]]
    /\ UNCHANGED <<tmux, runtimes, agents, pidFile, reg, unreg, fresh>>

\* Mutated forms: liveness keyed on the mutable address.
HeldAddress(c) == \E p \in Panes : addr[p] = c.target
LostAddress(c) == ~HeldAddress(c)

\* Mutated form: a probe that has not answered yet counts as a dead pane.
NotYetAlive(c) == TRUE

\* A candidate is judged by its pane id, or by whoever holds its address.
CandidateAlive(c) ==
    IF c.pane # NoPane THEN SeenAlive(c.pane) ELSE \E p \in Panes : addr[p] = c.target
CandidateDead(c) ==
    IF c.pane # NoPane THEN SeenDead(c.pane) ELSE \A p \in Panes : addr[p] # c.target

PruneProbe(r) ==
    /\ rec[r].pc = "probe"
    /\ \E c \in rec[r].todo :
          \/ /\ CandidateAlive(c)
             /\ rec' = [rec EXCEPT ![r].todo = @ \ {c}]
          \/ /\ CandidateDead(c)
             /\ rec' = [rec EXCEPT ![r].todo = @ \ {c}, ![r].dead = @ \cup {c.id}]
    /\ UNCHANGED <<tmux, runtimes, agents, pidFile, reg, unreg, fresh>>

\* Second SELECT: rows without an address, judged by their pid.
Orphans ==
    {i \in Ids : /\ Registered(i)
                 /\ agents[i].target = NoAddr
                 /\ ~PidAlive(agents[i].pid)}

PruneSelectPids(r) ==
    /\ rec[r].pc = "probe"
    /\ rec[r].todo = {}
    /\ rec' = [rec EXCEPT ![r] =
                 [IdleRec EXCEPT !.pc = "delete", !.dead = rec[r].dead \cup Orphans]]
    /\ UNCHANGED <<tmux, runtimes, agents, pidFile, reg, unreg, fresh>>

PruneDelete(r) ==
    /\ rec[r].pc = "delete"
    /\ agents' = Without(rec[r].dead)
    /\ rec' = [rec EXCEPT ![r] = IdleRec]
    /\ UNCHANGED <<tmux, runtimes, pidFile, reg, unreg, fresh>>

\* bus-prune.sh ends with the pid files; without a snapshot it has only
\* looked at the rows that carry neither pane nor address.
PrunePids(r) ==
    /\ rec[r].pc = "pids"
    /\ pidFile' = Swept
    /\ rec' = [rec EXCEPT ![r] = IdleRec]
    /\ UNCHANGED <<tmux, runtimes, agents, reg, unreg, fresh>>

(***************************************************************************)
(* The specification                                                       *)
(***************************************************************************)
RegStep(p) ==
    \/ HookTarget(p) \/ RegAdopt(p) \/ RegClaimant(p) \/ RegProbe(p)
    \/ RegCommit(p) \/ RegPublish(p) \/ RegSweep(p)

UnregStep(p) == UnregRead(p) \/ UnregDelete(p)

RecStep(r) ==
    \/ RecSelect(r) \/ RecApply(r) \/ PruneSelect(r) \/ PruneProbe(r)
    \/ PruneSelectPids(r) \/ PruneDelete(r) \/ PrunePids(r)

PaneStep(p) ==
    \/ NewPane(p) \/ KillPane(p) \/ StartRuntime(p) \/ SessionEnd(p)
    \/ CrashRuntime(p) \/ HookResolve(p) \/ RegTimeout(p) \/ HookKilled(p)
    \/ McpRegister(p) \/ McpUnregister(p)

Next ==
    \/ ReIndex
    \/ \E p \in Panes : PaneStep(p) \/ RegStep(p) \/ UnregStep(p)
    \/ \E r \in Reconcilers : RecSnapshot(r) \/ RecStep(r)

Spec == Init /\ [][Next]_vars

\* Hooks in flight finish (the watchdog bounds them), a pass that began
\* ends, and agents keep calling list_agents.
Fairness ==
    /\ \A p \in Panes : WF_vars(RegStep(p)) /\ WF_vars(UnregStep(p))
    /\ \A r \in Reconcilers : WF_vars(RecStep(r))
    /\ \A r \in Reconcilers \cap {"list_agents"} : WF_vars(RecSnapshot(r))

FairSpec == Spec /\ Fairness

(***************************************************************************)
(* Properties                                                              *)
(***************************************************************************)

RegPcs == {"idle", "target", "adopt", "claim", "probe", "commit", "publish", "sweep"}
Asking == {"target", "adopt", "claim", "probe", "commit"}
RecPcs == {"idle", "select", "apply", "prune", "probe", "delete", "pids"}

WorldOK ==
    /\ addr \in [Panes -> MaybeAddr]
    /\ born \subseteq Panes
    /\ title \in [Panes -> Ids \cup {NoId}]
    /\ moves \in 0 .. MaxMoves
    /\ running \subseteq Panes
    /\ gen \in [Panes -> 0 .. MaxGen]

TableOK ==
    /\ agents \in [Ids -> Rows \cup {NoRow}]
    /\ pidFile \in [Pids -> Ids \cup {NoId}]

\* A hook that is asking has an id and a directory to ask with: "nothing to
\* continue" must never be taken for an identity.
RegRecords ==
    {r \in [pc : RegPcs, id : Ids \cup {NoId}, src : SourceKinds \cup {"none"}, cwd : Cwds \cup {NoId},
            target : MaybeAddr, claimant : MaybePane, evict : BOOLEAN] :
        /\ r.pc \notin {"idle", "sweep"} => r.id # NoId
        /\ r.pc \in Asking => r.cwd # NoId}

RegOK == reg \in [Panes -> RegRecords]

UnregOK == unreg \in [Panes -> [pc : {"idle", "read", "delete"}, id : Ids \cup {NoId}]]

RecRecords ==
    {r \in [pc : RecPcs, snap : [Panes -> MaybeAddr] \cup {NoId},
            upd : SUBSET (Ids \X Addrs),
            todo : SUBSET [id : Ids, pane : MaybePane, target : Addrs],
            dead : SUBSET Ids] :
        r.pc = "select" => r.snap \in [Panes -> MaybeAddr]}

RecOK == rec \in [Reconcilers -> RecRecords]

FreshOK == fresh \in [Panes \cup Reconcilers -> SUBSET Panes]

\* The shape of every variable.
TypeOK == WorldOK /\ TableOK /\ RegOK /\ UnregOK /\ RecOK /\ FreshOK

\* A tmux pane hosts at most one runtime at a time, so the registry holds at
\* most one row for a live pane: register() evicts what the pane left behind
\* under an earlier id, in whatever order the hooks interleave.
OneRowPerLivePane ==
    \A p \in Panes : Live(p) => \A i, j \in RowsOf(p) : i = j

\* The steps that write the table on behalf of a registration, a SessionEnd
\* and a reconciliation pass.
Commits(p)    == reg[p].pc = "commit" /\ reg'[p].pc = "publish"
Unregisters(p) == unreg[p].pc = "delete" /\ unreg'[p].pc = "idle"
Reconciles(r) == rec'[r] # rec[r]

\* Row i, of the live pane q, is deleted or handed to another pane.
Loses(q, i) ==
    /\ Live(q) /\ i \in RowsOf(q)
    /\ agents'[i] = NoRow \/ agents'[i].pane # q

\* The takeover guard of register(): a registration takes nothing from
\* another live pane, unless that pane registered the very same id after the
\* guard had looked for a claimant.
RegistrationSparesLivePanes ==
    [][\A p \in Panes : Commits(p) =>
          \A q \in Panes \ {p}, i \in Ids :
              Loses(q, i) => i = reg[p].id /\ q \in fresh[p]]_agents

\* Identity continuity: while a pane's row stands, a weak (address-minted)
\* registration of the same process keeps its bus id, through re-indexing,
\* /clear, and registrations and reconciliations of others.
WeakIdStable ==
    [][\A p \in Panes : Commits(p) /\ reg[p].src = "fallback" =>
          \A i \in RowsOf(p) : agents[i].pid = PidOf(p) => ~Loses(p, i)]_agents

\* Reconciliation evicts the row of a live pane only if that pane registered
\* after the pass began: what the pass saw alive, it leaves.
ReconcileSparesLivePanes ==
    [][\A r \in Reconcilers : Reconciles(r) =>
          \A q \in Panes, i \in Ids :
              Loses(q, i) /\ agents[i].target # NoAddr => q \in fresh[r]]_agents

\* A process's pid file and the row it registered name the same id, so that
\* whoami and the sender of its mail agree with the registry.
PidFileNamesRow ==
    \A p \in running : reg[p].pc = "idle" /\ pidFile[PidOf(p)] # NoId =>
        \A i \in RowsOf(p) : agents[i].pid = PidOf(p) => i = pidFile[PidOf(p)]

\* The row of a dead pane goes and stays away, also when a registration that
\* was in flight when the pane died commits after the kill hook has run.
DeadPanesForgotten ==
    \A p \in Panes : Dead(p) ~> [](RowsOf(p) = {})

\* Once tmux stops re-indexing, every live pane's row shows its address.
AddressesSettle ==
    <>[](\A p \in Panes : Live(p) => \A i \in RowsOf(p) : agents[i].target = addr[p])

(***************************************************************************)
(* What comments in the code claim and interleavings break                 *)
(***************************************************************************)

\* agent_registry.py:138-140: when the claimant's pane is alive the
\* registration disambiguates its own id instead of taking the row.
LiveRowsNeverTaken ==
    [][\A p \in Panes : Commits(p) =>
          \A q \in Panes \ {p}, i \in Ids : ~Loses(q, i)]_agents

\* bus-unregister.sh:4: the hook removes this runtime instance.
UnregisterRemovesOwnRow ==
    [][\A p \in Panes : Unregisters(p) =>
          \A q \in Panes \ {p}, i \in Ids : ~Loses(q, i)]_agents

\* bus-prune.sh:4: the hook removes agents whose panes no longer exist.
\* reconciliation.py:58: so does list_agents, which adds dead pids.
ReconcileEvictsOnlyDead ==
    [][\A r \in Reconcilers : Reconciles(r) =>
          \A q \in Panes, i \in Ids : Loses(q, i) => agents[i].target = NoAddr]_agents

=============================================================================
