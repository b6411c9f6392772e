------------------------------ MODULE Identity ------------------------------
(***************************************************************************)
(* In whose name an MCP server acts: _self_agent_id() beside everything    *)
(* that writes the registry.  Each send, get_messages and whoami starts    *)
(* with it, and so does each mail's "from".                                *)
(*                                                                         *)
(* Grain of atomicity.  The pid file, the display-message, each SELECT and *)
(* the shell resolver are a step each; nothing ties them together.         *)
(*                                                                         *)
(* Abstractions.  A resolution writes nothing, so resolutions of several   *)
(* servers do not interfere and one at a time is modelled, of any server.  *)
(* Of the ancestors of a server only its runtime is ever registered, so    *)
(* the walk up the process tree is one SELECT.  Nothing in the repository  *)
(* sets HELIOY_BUS_TMUX; it is taken as unset.                             *)
(***************************************************************************)
EXTENDS AgentRegistry

CONSTANTS
    Envs    \* "full": the server inherits TMUX and the pid variable of its
            \* runtime; "stripped": neither, as under Codex

ASSUME IdentityAssumption == Envs \subseteq {"full", "stripped"}

VARIABLES
    self    \* the resolution in progress; the code does not keep
            \* `known`, that its process has been registered all the while,
            \* nor `read`, how often tmux had re-indexed at its display-message

Unasked == [pc |-> "idle", pid |-> NoId, env |-> "none", target |-> NoAddr,
            id |-> NoId, tier |-> "none", known |-> FALSE, read |-> 0]

\* The rows of the process in pane p.
OwnRows(p) == {i \in RowsOf(p) : agents[i].pid = PidOf(p)}

Resolving(p) == p \in running /\ self.pid = PidOf(p)

Resolved(i, tier) == [self EXCEPT !.pc = "done", !.target = NoAddr, !.read = 0,
                                     !.id = i, !.tier = tier]

\* Tier 1: the pid file, when the environment tells which one.
SelfPidFile(p) ==
    /\ self.pc = "idle"
    /\ p \in running
    /\ \E env \in Envs :
          LET asked == [Unasked EXCEPT !.pid = PidOf(p), !.env = env,
                                         !.known = OwnRows(p) # {}]
              file  == pidFile[PidOf(p)]
          IN \/ /\ env = "full" /\ file # NoId
                /\ self' = [asked EXCEPT !.pc = "done", !.id = file, !.tier = "file"]
             \/ /\ env = "full" /\ file = NoId
                /\ self' = [asked EXCEPT !.pc = "tmux"]
             \/ /\ env = "stripped"
                /\ self' = [asked EXCEPT !.pc = "ancestors"]

\* Mutated form: without -t $TMUX_PANE, tmux answers for the active pane.
ActiveTarget(p) == {addr[q] : q \in Panes}

\* _resolve_tmux_target: the address of the server's own pane, if printed.
OwnTarget(p) == AddressRead(p)

SelfTarget(p) ==
    /\ self.pc = "tmux"
    /\ Resolving(p)
    /\ \E here \in OwnTarget(p) :
          self' = [self EXCEPT !.pc = IF here = NoAddr THEN "ancestors" ELSE "target",
                               !.target = here,
                               !.read = IF here = NoAddr THEN 0 ELSE moves]

\* Tier 2: any one row that shows this address, be it up to date or not.
SelfByTarget(p) ==
    /\ self.pc = "target"
    /\ Resolving(p)
    /\ LET found == {i \in Ids : Registered(i) /\ agents[i].target = self.target} IN
       \/ \E i \in found : self' = Resolved(i, "target")
       \/ found = {} /\ self' = [self EXCEPT !.pc = "ancestors", !.target = NoAddr, !.read = 0]

\* Tier 3: any one row with the pid of the runtime above this server.
SelfByAncestry(p) ==
    /\ self.pc = "ancestors"
    /\ Resolving(p)
    /\ LET found == {i \in Ids : Registered(i) /\ agents[i].pid = PidOf(p)} IN
       \/ \E i \in found : self' = Resolved(i, "ancestors")
       \/ found = {} /\ self' = [self EXCEPT !.pc = "resolver"]

\* Tier 4: the shell resolver, which reads title and address like the hook,
\* or the canonical form without an address when it fails.
SelfResolver(p) ==
    /\ self.pc = "resolver"
    /\ Resolving(p)
    /\ \E cwd \in Cwds :
       \/ self' = Resolved(Canonical(cwd, NoAddr), "resolver")
       \/ /\ self.env = "full" /\ title[p] # NoId
          /\ self' = Resolved(title[p], "resolver")
       \/ /\ self.env = "full" /\ (title[p] = NoId \/ "blind" \in Events)
          /\ \E here \in AddressRead(p) :
                self' = Resolved(Canonical(cwd, here), "resolver")

\* The tool goes on with the id; a server ends with its runtime.
SelfEnds ==
    /\ self.pc # "idle"
    /\ self.pc = "done" \/ \A p \in Panes : ~Resolving(p)
    /\ self' = Unasked

SelfStep(p) ==
    \/ SelfPidFile(p) \/ SelfTarget(p) \/ SelfByTarget(p)
    \/ SelfByAncestry(p) \/ SelfResolver(p)

IdentityInit == Init /\ self = Unasked

\* What others do meanwhile can only end a registration that held so far.
StillKnown ==
    self' = [self EXCEPT !.known = @ /\ \E p \in Panes : Resolving(p) /\ OwnRows(p)' # {}]

IdentityNext ==
    \/ Next /\ StillKnown
    \/ (SelfEnds \/ \E p \in Panes : SelfStep(p)) /\ UNCHANGED vars

IdentitySpec == IdentityInit /\ [][IdentityNext]_<<vars, self>>

(***************************************************************************)
(* Properties                                                              *)
(***************************************************************************)

\* The server of pane p has found an id to act under.
Signs(p) ==
    /\ self'.pc = "done" /\ self.pc # "done"
    /\ p \in running /\ self'.pid = PidOf(p)

\* A process that is registered all the while it asks acts under the id of
\* another live agent in two cases only: its next id is committed and
\* not in its pid file yet, or it has no pid file yet and tmux changed an
\* address after it was read here or before another row caught up with it.
SignsAsItself ==
    [][\A p \in Panes : Signs(p) /\ self'.known =>
          \A q \in Panes \ {p} : Live(q) /\ self'.id \in RowsOf(q) =>
              \/ self'.tier = "file" /\ reg[p].pc = "publish"
              \/ /\ self'.tier = "target"
                 /\ self.read # moves \/ agents[self'.id].target # addr[q]]_self

=============================================================================
