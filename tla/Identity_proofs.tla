---------------------------- MODULE Identity_proofs ----------------------------
(***************************************************************************)
(* The theorem about Identity, for any number of panes, addresses,         *)
(* directories, runtimes and re-indexings: a registered process that asks  *)
(* who it is gets its own id, whatever the others do meanwhile.            *)
(***************************************************************************)
EXTENDS Identity, RegistryRows_proofs

\* No two panes have one address.
AddrsApart == \A p, q \in Panes : Live(p) /\ addr[p] = addr[q] => p = q

\* A row names the process that runs in its pane, or ran there.
RowPids == \A i \in Ids : Registered(i) /\ agents[i].pane # NoPane => agents[i].pid[1] = agents[i].pane

SelfRecords ==
    [pc : {"idle", "tmux", "target", "ancestors", "resolver", "done"}, pid : Pids \cup {NoId},
     env : Envs \cup {"none"}, target : MaybeAddr, id : Ids \cup {NoId},
     tier : {"none", "file", "target", "ancestors", "resolver"}, known : BOOLEAN, read : 0 .. MaxMoves]

\* Who asks has started.  A process that is known still has its row; one that
\* needs the resolver is not known; an address that nothing has moved since it
\* was read is its own.
AskerOK ==
    /\ self \in SelfRecords /\ self.read <= moves
    /\ self.pc # "idle" => \E p \in Panes : \E g \in 0 .. gen[p] : self.pid = <<p, g>>
    /\ self.pc = "resolver" => ~self.known
    /\ \A p \in Panes : Resolving(p) =>
          /\ self.known => OwnRows(p) # {}
          /\ self.pc = "target" /\ self.read = moves => self.target = addr[p]

AskerInv == AddrsApart /\ RowPids /\ AskerOK

-----------------------------------------------------------------------------
(***************************************************************************)
(* What the others do                                                      *)
(***************************************************************************)

\* tmux numbers panes apart.
LEMMA ApartStep ==
    ASSUME TypeOK, AddrsApart, [Next]_vars
    PROVE  AddrsApart'
<1>1. CASE ReIndex
  BY <1>1 DEF ReIndex, AddrsApart, Live
<1>2. ASSUME NEW q \in Panes, NewPane(q) PROVE AddrsApart'
  <2>1. PICK a \in Addrs : (\A p \in Panes : addr[p] # a) /\ addr' = [addr EXCEPT ![q] = a]
    BY <1>2 DEF NewPane
  <2> QED BY <2>1 DEF AddrsApart, Live, TypeOK, WorldOK
<1>3. ASSUME NEW q \in Panes, KillPane(q) PROVE AddrsApart'
  BY <1>3 DEF KillPane, AddrsApart, Live, TypeOK, WorldOK
<1>4. CASE ~ReIndex /\ \A q \in Panes : ~NewPane(q) /\ ~KillPane(q)
  <2>1. addr' = addr
    BY <1>4
    DEF Next, PaneStep, RegStep, UnregStep, RecStep, StartRuntime, SessionEnd, CrashRuntime,
        HookResolve, RegTimeout, HookKilled, McpRegister, McpUnregister, HookTarget, RegAdopt,
        RegClaimant, RegProbe, RegCommit, RegPublish, RegSweep, UnregRead, UnregDelete,
        RecSnapshot, RecSelect, RecApply, PruneSelect, PruneProbe, PruneSelectPids, PruneDelete,
        PrunePids, vars, tmux
  <2> QED BY <2>1 DEF AddrsApart, Live
<1> QED BY <1>1, <1>2, <1>3, <1>4

\* Each re-indexing is counted; nothing else moves a pane that lives on.
LEMMA CountedStep ==
    ASSUME TypeOK, BornOK, [Next]_vars
    PROVE  /\ moves' \in {moves, moves + 1}
           /\ \A p \in running \cap running' : moves' = moves => addr'[p] = addr[p]
<1>0. moves \in Nat /\ running \subseteq Panes /\ running \subseteq born /\ addr \in [Panes -> MaybeAddr]
  BY RegistryAssumption DEF TypeOK, WorldOK, BornOK
<1>1. CASE ReIndex
  BY <1>0, <1>1 DEF ReIndex
<1>2. ASSUME NEW q \in Panes, NewPane(q)
      PROVE  moves' = moves /\ \A p \in running : addr'[p] = addr[p]
  <2>1. PICK a \in Addrs : addr' = [addr EXCEPT ![q] = a]
    BY <1>2 DEF NewPane
  <2>2. q \notin running /\ moves' = moves
    BY <1>0, <1>2 DEF NewPane
  <2> QED BY <1>0, <2>1, <2>2
<1>3. ASSUME NEW q \in Panes, KillPane(q)
      PROVE  moves' = moves /\ \A p \in running' : addr'[p] = addr[p]
  BY <1>0, <1>3 DEF KillPane
<1>4. CASE ~ReIndex /\ \A q \in Panes : ~NewPane(q) /\ ~KillPane(q)
  <2>1. addr' = addr /\ moves' = moves
    BY <1>4
    DEF Next, PaneStep, RegStep, UnregStep, RecStep, StartRuntime, SessionEnd, CrashRuntime,
        HookResolve, RegTimeout, HookKilled, McpRegister, McpUnregister, HookTarget, RegAdopt,
        RegClaimant, RegProbe, RegCommit, RegPublish, RegSweep, UnregRead, UnregDelete,
        RecSnapshot, RecSelect, RecApply, PruneSelect, PruneProbe, PruneSelectPids, PruneDelete,
        PrunePids, vars, tmux
  <2> QED BY <2>1
<1> QED BY <1>1, <1>2, <1>3, <1>4

\* Processes of a pane are numbered upwards.
LEMMA GenGrows ==
    ASSUME TypeOK, [Next]_vars, NEW p \in Panes
    PROVE  gen'[p] >= gen[p]
<1>1. ASSUME NEW q \in Panes, StartRuntime(q) PROVE gen'[p] >= gen[p]
  BY <1>1, RegistryAssumption DEF StartRuntime, TypeOK, WorldOK
<1>2. CASE \A q \in Panes : ~StartRuntime(q)
  <2>1. gen' = gen
    BY <1>2
    DEF Next, PaneStep, RegStep, UnregStep, RecStep, ReIndex, NewPane, KillPane, SessionEnd,
        CrashRuntime, HookResolve, RegTimeout, HookKilled, McpRegister, McpUnregister, HookTarget,
        RegAdopt, RegClaimant, RegProbe, RegCommit, RegPublish, RegSweep, UnregRead, UnregDelete,
        RecSnapshot, RecSelect, RecApply, PruneSelect, PruneProbe, PruneSelectPids, PruneDelete,
        PrunePids, vars, runtimes
  <2> QED BY <2>1 DEF TypeOK, WorldOK
<1> QED BY <1>1, <1>2

\* A row with a pane is written by that pane's process.
LEMMA RowPidsStep ==
    ASSUME TypeOK, TypeOK', RowPids, [Next]_vars
    PROVE  RowPids'
<1> SUFFICES ASSUME NEW i \in Ids, Registered(i)', agents'[i].pane # NoPane
             PROVE  agents'[i].pid[1] = agents'[i].pane
  BY DEF RowPids, Registered
<1>1. PICK p \in Panes : p = agents'[i].pane
  BY DEF TypeOK, TableOK, Rows, MaybePane, Registered
<1>2. i \in RowsOf(p)'
  BY <1>1 DEF RowsOf, Registered
<1>3. CASE RegCommit(p) /\ i = reg[p].id
  <2>1. PICK gone : agents' = Insert(reg[p].id, [pane |-> p, target |-> reg[p].target,
                                               cwd |-> reg[p].cwd, pid |-> PidOf(p)], gone)
    BY <1>3 DEF RegCommit
  <2>2. agents'[i].pid = PidOf(p)
    BY <1>3, <2>1 DEF Insert
  <2> QED BY <1>1, <2>2 DEF PidOf
<1>4. CASE RegCommit(p) /\ i # reg[p].id
  <2>1. agents'[i] = agents[i]
    BY <1>4 DEF RegCommit, Insert, Registered
  <2> QED BY <2>1 DEF RowPids, Registered
<1>5. CASE ~RegCommit(p)
  BY <1>1, <1>2, <1>5, PidStep, RegistryAssumption DEF RowPids, RowsOf
<1> QED BY <1>3, <1>4, <1>5

-----------------------------------------------------------------------------
(***************************************************************************)
(* The asker                                                               *)
(***************************************************************************)

\* One process asks at a time.
LEMMA OneAsker ==
    ASSUME NEW p \in Panes, NEW q \in Panes, Resolving(p), Resolving(q) PROVE p = q
BY DEF Resolving, PidOf

\* While others move, only its knowledge changes: the row that it had must
\* still be there.
LEMMA OthersMove ==
    ASSUME TypeOK, TypeOK', BornOK, AskerOK, [Next]_vars,
           StillKnown \/ UNCHANGED <<vars, self>>
    PROVE  AskerOK'
<1>0. self \in SelfRecords
  BY DEF AskerOK
<1>1. /\ self' \in SelfRecords
      /\ self'.pc = self.pc /\ self'.pid = self.pid /\ self'.target = self.target
      /\ self'.read = self.read
      /\ self'.known => self.known
  BY <1>0 DEF StillKnown, SelfRecords
<1>2. moves \in Nat /\ self.read \in Nat
  BY <1>0, RegistryAssumption DEF TypeOK, WorldOK, SelfRecords
<1>3. self'.read <= moves' /\ (self'.read = moves' => moves' = moves)
  BY <1>1, <1>2, CountedStep DEF AskerOK
<1>4. ASSUME NEW p \in Panes PROVE gen[p] \in Nat /\ gen'[p] \in Nat /\ gen'[p] >= gen[p]
  BY GenGrows DEF TypeOK, WorldOK
<1>5. self'.pc # "idle" => \E p \in Panes : \E g \in 0 .. gen'[p] : self'.pid = <<p, g>>
  BY <1>1, <1>4 DEF AskerOK
<1>6. ASSUME NEW p \in Panes, Resolving(p)', self'.known PROVE OwnRows(p)' # {}
  <2>1. CASE StillKnown
    <3> DEFINE K == \E q \in Panes : Resolving(q) /\ OwnRows(q)' # {}
    <3>1. K
      <4>1. PICK k : k = (self.known /\ K)
        OBVIOUS
      <4>2. self' = [self EXCEPT !.known = k]
        BY <2>1, <4>1 DEF StillKnown
      <4>3. self'.known = k
        BY <1>0, <4>2 DEF SelfRecords
      <4> HIDE DEF K
      <4> QED BY <1>6, <4>1, <4>3
    <3>2. PICK q \in Panes : Resolving(q) /\ OwnRows(q)' # {}
      BY <3>1
    <3>3. self.pid = <<q, gen[q]>> /\ self.pid = <<p, gen'[p]>>
      <4>1. self.pid = <<q, gen[q]>>
        BY <3>2 DEF Resolving, PidOf
      <4>2. self'.pid = <<p, gen'[p]>>
        BY <1>6 DEF Resolving, PidOf
      <4> QED BY <1>1, <4>1, <4>2
    <3>4. q = p
      <4> HIDE DEF K
      <4> QED BY ONLY <3>3
    <3> QED BY <3>2, <3>4
  <2>2. CASE UNCHANGED <<vars, self>>
    <3>1. Resolving(p) /\ self.known
      BY <1>6, <2>2 DEF Resolving, PidOf, vars, runtimes
    <3>2. OwnRows(p)' = OwnRows(p)
      BY <2>2 DEF OwnRows, RowsOf, Registered, PidOf, vars, runtimes
    <3> QED BY <3>1, <3>2 DEF AskerOK
  <2> QED BY <2>1, <2>2
<1>7. ASSUME NEW p \in Panes, Resolving(p)', self'.pc = "target", self'.read = moves'
      PROVE  self'.target = addr'[p]
  <2>1. p \in running' /\ self.pid = <<p, gen'[p]>>
    BY <1>1, <1>7 DEF Resolving, PidOf
  <2>2. CASE p \in running /\ gen'[p] = gen[p]
    <3>1. Resolving(p)
      BY <2>1, <2>2 DEF Resolving, PidOf
    <3>2. addr'[p] = addr[p]
      BY <1>3, <1>7, <2>1, <2>2, CountedStep
    <3> QED BY <1>1, <1>3, <1>7, <3>1, <3>2 DEF AskerOK
  <2>3. CASE StartRuntime(p)
    <3>1. gen'[p] = gen[p] + 1
      BY <2>3 DEF StartRuntime, TypeOK, WorldOK
    <3>2. PICK q \in Panes : \E g \in 0 .. gen[q] : self.pid = <<q, g>>
      BY <1>1, <1>7 DEF AskerOK
    <3>3. PICK g \in 0 .. gen[q] : self.pid = <<q, g>>
      BY <3>2
    <3>4. q = p /\ g = gen[p] + 1
      BY <2>1, <3>1, <3>3
    <3> QED BY <1>4, <3>3, <3>4
  <2> QED BY <2>1, <2>2, <2>3, StartStep
<1> QED BY <1>1, <1>3, <1>6, <1>7, <1>5 DEF AskerOK

\* What a step of the resolution leaves as it was.
LEMMA Resolves ==
    ASSUME AskerOK, NEW i \in Ids, NEW tier \in {"file", "target", "ancestors", "resolver"},
           self' = Resolved(i, tier)
    PROVE  /\ self' \in SelfRecords /\ self'.pc = "done" /\ self'.read = 0
           /\ self'.pid = self.pid /\ self'.known = self.known
           /\ self'.id = i /\ self'.tier = tier
<1>1. self \in SelfRecords
  BY DEF AskerOK
<1>2. NoAddr \in MaybeAddr /\ 0 \in 0 .. MaxMoves
  BY RegistryAssumption DEF MaybeAddr
<1> QED BY <1>1, <1>2 DEF Resolved, SelfRecords

\* The resolution proceeds, and the rest of the world stands still.
LEMMA FileStep ==
    ASSUME TypeOK, AskerOK, NEW p \in Panes, SelfPidFile(p), UNCHANGED vars
    PROVE  AskerOK'
<1>1. PICK env \in Envs :
        LET asked == [Unasked EXCEPT !.pid = PidOf(p), !.env = env, !.known = OwnRows(p) # {}]
            file  == pidFile[PidOf(p)]
        IN \/ file # NoId /\ self' = [asked EXCEPT !.pc = "done", !.id = file, !.tier = "file"]
           \/ self' = [asked EXCEPT !.pc = "tmux"]
           \/ self' = [asked EXCEPT !.pc = "ancestors"]
  BY DEF SelfPidFile
<1>2. PidOf(p) \in Pids /\ pidFile[PidOf(p)] \in Ids \cup {NoId}
  BY PidType DEF TypeOK, TableOK
<1>3. PICK known \in BOOLEAN : known = (OwnRows(p) # {})
  OBVIOUS
<1>4. /\ self' \in SelfRecords /\ self'.read = 0 /\ self'.pc \in {"done", "tmux", "ancestors"}
      /\ self'.pid = PidOf(p) /\ self'.known = known
  <2>1. NoAddr \in MaybeAddr /\ 0 \in 0 .. MaxMoves
    BY RegistryAssumption DEF MaybeAddr
  <2>2. PICK file : file = pidFile[PidOf(p)]
    OBVIOUS
  <2>3. PICK pid : pid = PidOf(p)
    OBVIOUS
  <2>4. PICK asked : asked = [Unasked EXCEPT !.pid = pid, !.env = env, !.known = known]
    OBVIOUS
  <2>5. \/ file # NoId /\ self' = [asked EXCEPT !.pc = "done", !.id = file, !.tier = "file"]
        \/ self' = [asked EXCEPT !.pc = "tmux"]
        \/ self' = [asked EXCEPT !.pc = "ancestors"]
    BY <1>1, <1>3, <2>2, <2>3, <2>4
  <2>6. Unasked \in SelfRecords
    BY <2>1 DEF Unasked, SelfRecords
  <2>7. Unasked.read = 0
    BY DEF Unasked
  <2>8. PICK blank : blank = Unasked
    OBVIOUS
  <2>9. asked \in SelfRecords /\ asked.pid = pid /\ asked.known = known /\ asked.read = 0
    BY <1>2, <2>3, <2>4, <2>6, <2>7, <2>8 DEF SelfRecords
  <2>10. file \in Ids \cup {NoId}
    BY <1>2, <2>2
  <2> QED BY <2>3, <2>5, <2>9, <2>10 DEF SelfRecords
<1>5. moves \in Nat /\ moves' = moves /\ gen' = gen /\ gen[p] \in Nat
  BY DEF TypeOK, WorldOK, vars, tmux, runtimes
<1>6. ASSUME NEW q \in Panes, Resolving(q)', self'.known PROVE OwnRows(q)' # {}
  <2>1. q = p
    BY <1>4, <1>5, <1>6 DEF Resolving, PidOf
  <2>2. OwnRows(p)' = OwnRows(p)
    BY DEF OwnRows, RowsOf, Registered, PidOf, vars, runtimes
  <2> QED BY <1>3, <1>4, <1>6, <2>1, <2>2
<1> QED BY <1>4, <1>5, <1>6 DEF AskerOK, PidOf

LEMMA AskStep ==
    ASSUME "blind" \notin Events, TypeOK, PidsOK, AskerOK, NEW p \in Panes, SelfStep(p), UNCHANGED vars
    PROVE  AskerOK'
<1>0. /\ self \in SelfRecords /\ moves \in 0 .. MaxMoves /\ moves' = moves /\ gen' = gen
      /\ addr' = addr /\ addr \in [Panes -> MaybeAddr]
  BY DEF AskerOK, TypeOK, WorldOK, vars, tmux, runtimes
<1>1. \A q \in Panes : Resolving(q)' <=> q \in running /\ self'.pid = PidOf(q)
  BY DEF Resolving, PidOf, vars, runtimes
<1>2. \A q \in Panes : OwnRows(q)' = OwnRows(q)
  BY DEF OwnRows, RowsOf, Registered, PidOf, vars, runtimes
<1>3. ASSUME /\ self' \in SelfRecords /\ self'.pid = self.pid /\ self'.known = self.known
             /\ self'.read <= moves /\ self.pc # "idle"
             /\ self'.pc = "resolver" => ~self.known
             /\ self'.pc = "target" => self'.target = addr[p] /\ Resolving(p)
      PROVE  AskerOK'
  <2>1. ASSUME NEW q \in Panes, Resolving(q)'
        PROVE  /\ self'.known => OwnRows(q)' # {}
               /\ self'.pc = "target" => self'.target = addr'[q]
    <3>1. Resolving(q)
      BY <1>1, <1>3, <2>1 DEF Resolving
    <3>2. self'.pc = "target" => q = p
      BY <1>3, <3>1, OneAsker
    <3> QED BY <1>0, <1>2, <1>3, <3>1, <3>2 DEF AskerOK
  <2> QED BY <1>0, <1>3, <2>1 DEF AskerOK
<1>4. CASE SelfTarget(p)
  <2>1. AddressRead(p) = {addr[p]} /\ addr[p] # NoAddr
    BY <1>4 DEF AddressRead, SelfTarget, Resolving, PidsOK, Live
  <2>2. self.pc = "tmux" /\ Resolving(p)
        /\ self' = [self EXCEPT !.pc = "target", !.target = addr[p], !.read = moves]
    BY <1>4, <2>1 DEF SelfTarget, OwnTarget
  <2>3. /\ self' \in SelfRecords /\ self'.pid = self.pid /\ self'.known = self.known
        /\ self'.read = moves /\ self'.pc = "target" /\ self'.target = addr[p]
    BY <1>0, <2>2 DEF SelfRecords
  <2> QED BY <1>0, <1>3, <2>2, <2>3
<1>5. ASSUME NEW i \in Ids, NEW tier \in {"file", "target", "ancestors", "resolver"},
             self' = Resolved(i, tier), self.pc # "idle"
      PROVE  AskerOK'
  BY <1>0, <1>3, <1>5, Resolves
<1>6. CASE SelfByTarget(p)
  <2>1. CASE self' = [self EXCEPT !.pc = "ancestors", !.target = NoAddr, !.read = 0]
    <3>1. /\ self' \in SelfRecords /\ self'.pid = self.pid /\ self'.known = self.known
          /\ self'.read = 0 /\ self'.pc = "ancestors"
      <4>1. NoAddr \in MaybeAddr /\ 0 \in 0 .. MaxMoves
        BY RegistryAssumption DEF MaybeAddr
      <4> QED BY <1>0, <2>1, <4>1 DEF SelfRecords
    <3> QED BY <1>0, <1>3, <1>6, <3>1 DEF SelfByTarget
  <2> QED BY <1>5, <1>6, <2>1 DEF SelfByTarget
<1>7. CASE SelfByAncestry(p)
  <2>1. CASE /\ {i \in Ids : Registered(i) /\ agents[i].pid = PidOf(p)} = {}
             /\ self' = [self EXCEPT !.pc = "resolver"]
    <3>1. OwnRows(p) = {}
      BY <2>1 DEF OwnRows, RowsOf
    <3>2. ~self.known
      BY <1>7, <3>1 DEF SelfByAncestry, AskerOK
    <3>3. /\ self' \in SelfRecords /\ self'.pid = self.pid /\ self'.known = self.known
          /\ self'.read = self.read /\ self'.pc = "resolver"
      BY <1>0, <2>1 DEF SelfRecords
    <3> QED BY <1>0, <1>3, <1>7, <3>2, <3>3 DEF SelfByAncestry, AskerOK
  <2> QED BY <1>5, <1>7, <2>1 DEF SelfByAncestry
<1>8. CASE SelfResolver(p)
  <2>1. \A cwd \in Cwds, here \in MaybeAddr : Canonical(cwd, here) \in Ids
    BY CanonicalType
  <2>2. title[p] # NoId => title[p] \in Ids
    BY DEF TypeOK, WorldOK
  <2>3. AddressRead(p) \subseteq MaybeAddr /\ NoAddr \in MaybeAddr
    BY <1>0 DEF AddressRead, MaybeAddr
  <2> QED BY <1>5, <1>8, <2>1, <2>2, <2>3 DEF SelfResolver
<1> QED BY <1>4, <1>6, <1>7, <1>8, FileStep DEF SelfStep

LEMMA EndsStep ==
    ASSUME TypeOK, SelfEnds, UNCHANGED vars
    PROVE  AskerOK'
<1>1. self' \in SelfRecords /\ self'.read = 0 /\ self'.pc = "idle" /\ ~self'.known
  BY RegistryAssumption DEF SelfEnds, Unasked, SelfRecords, MaybeAddr
<1>2. moves' \in Nat
  BY DEF TypeOK, WorldOK, vars, tmux
<1> QED BY <1>1, <1>2 DEF AskerOK

\* Resolutions read; what the registry guarantees it guarantees beside them.
LEMMA RegistryKept ==
    ASSUME [IdentityNext]_<<vars, self>>
    PROVE  [Next]_vars
BY DEF IdentityNext

LEMMA AskerStep ==
    ASSUME "blind" \notin Events, TypeOK, TypeOK', BornOK, PidsOK, AskerInv,
           [IdentityNext]_<<vars, self>>
    PROVE  AskerInv'
<1>0. [Next]_vars
  BY RegistryKept
<1>1. AddrsApart' /\ RowPids'
  BY <1>0, ApartStep, RowPidsStep DEF AskerInv
<1>2. ASSUME StillKnown \/ UNCHANGED <<vars, self>> PROVE AskerOK'
  BY <1>0, <1>2, OthersMove DEF AskerInv
<1>3. ASSUME SelfEnds \/ \E p \in Panes : SelfStep(p), UNCHANGED vars PROVE AskerOK'
  BY <1>3, AskStep, EndsStep DEF AskerInv
<1>4. AskerOK'
  BY <1>2, <1>3 DEF IdentityNext
<1> QED BY <1>1, <1>4 DEF AskerInv

LEMMA AskerInit == ASSUME IdentityInit PROVE AskerInv
<1>1. self \in SelfRecords
  BY RegistryAssumption DEF IdentityInit, Unasked, SelfRecords, MaybeAddr
<1>2. AddrsApart /\ RowPids
  BY DEF IdentityInit, Init, AddrsApart, RowPids, Live, Registered
<1>3. AskerOK
  BY <1>1 DEF IdentityInit, Init, Unasked, AskerOK
<1> QED BY <1>2, <1>3 DEF AskerInv

\* Whichever tier answers a registered process, it is not with the id of
\* another live agent, save for the two cases that SignsAsItself names.
LEMMA SignsStep ==
    ASSUME TypeOK, PidsOK, PidFileOK, AskerInv, [IdentityNext]_<<vars, self>>,
           NEW p \in Panes, Signs(p), self'.known,
           NEW q \in Panes \ {p}, Live(q), self'.id \in RowsOf(q)
    PROVE  \/ self'.tier = "file" /\ reg[p].pc = "publish"
           \/ /\ self'.tier = "target"
              /\ self.read # moves \/ agents[self'.id].target # addr[q]
<1> USE DEF AskerInv
<1>0. self \in SelfRecords
  BY DEF AskerOK
<1>1. UNCHANGED vars /\ \E o \in Panes : SelfStep(o)
  <2>1. self'.pc = "done" /\ self.pc # "done"
    BY DEF Signs
  <2>2. ~StillKnown
    BY <1>0, <2>1 DEF StillKnown, SelfRecords
  <2>3. ~SelfEnds
    BY <2>1 DEF SelfEnds, Unasked
  <2> QED BY <2>1, <2>2, <2>3 DEF IdentityNext
<1>2. PICK o \in Panes : SelfStep(o)
  BY <1>1
<1>3. PidOf(p) \in Pids
  BY PidType DEF TypeOK
<1>4. p \in running /\ self'.pid = PidOf(p) /\ self'.pc = "done"
  BY DEF Signs
<1>5. ASSUME NEW i \in Ids, NEW tier \in {"file", "target", "ancestors", "resolver"},
             self' = Resolved(i, tier), Resolving(o)
      PROVE  o = p /\ self'.id = i /\ self'.tier = tier /\ self.known
  <2>1. /\ self'.pid = self.pid /\ self'.known = self.known
        /\ self'.id = i /\ self'.tier = tier
    BY <1>5, Resolves
  <2>2. self.pid = PidOf(o) /\ self.pid = PidOf(p)
    BY <1>4, <1>5, <2>1 DEF Resolving
  <2> QED BY <2>1, <2>2 DEF PidOf
<1>6. CASE SelfPidFile(o)
  <2>1. PICK env \in Envs :
          LET asked == [Unasked EXCEPT !.pid = PidOf(o), !.env = env, !.known = OwnRows(o) # {}]
          IN \/ /\ pidFile[PidOf(o)] # NoId
                /\ self' = [asked EXCEPT !.pc = "done", !.id = pidFile[PidOf(o)], !.tier = "file"]
             \/ self' = [asked EXCEPT !.pc = "tmux"]
             \/ self' = [asked EXCEPT !.pc = "ancestors"]
    BY <1>6 DEF SelfPidFile
  <2>2. PICK known : known = (OwnRows(o) # {})
    OBVIOUS
  <2>3. /\ pidFile[PidOf(o)] # NoId /\ self'.id = pidFile[PidOf(o)] /\ self'.tier = "file"
        /\ self'.pid = PidOf(o) /\ self'.known = known
    BY <1>4, <2>1, <2>2 DEF Unasked
  <2>4. o = p
    BY <1>4, <2>3 DEF PidOf
  <2>5. PICK i \in RowsOf(p) : agents[i].pid = PidOf(p)
    BY <2>2, <2>3, <2>4 DEF OwnRows
  <2>6. reg[p].pc # "publish" => self'.id = i
    BY <1>4, <2>3, <2>4, <2>5 DEF PidFileOK
  <2>7. i \notin RowsOf(q)
    BY <2>5 DEF RowsOf
  <2> QED BY <2>3, <2>6, <2>7
<1>7. CASE SelfTarget(o)
  <2>1. self'.pc \in {"ancestors", "target"}
    BY <1>0, <1>7 DEF SelfTarget, SelfRecords
  <2> QED BY <1>4, <2>1
<1>8. CASE SelfByTarget(o)
  <2>1. Resolving(o) /\ self.pc = "target"
    BY <1>8 DEF SelfByTarget
  <2>2. ASSUME self' = [self EXCEPT !.pc = "ancestors", !.target = NoAddr, !.read = 0] PROVE FALSE
    <3>1. self'.pc = "ancestors"
      BY <1>0, <2>2 DEF SelfRecords
    <3> QED BY <1>4, <3>1
  <2>3. PICK i \in Ids : agents[i].target = self.target /\ self' = Resolved(i, "target")
    BY <1>8, <2>2 DEF SelfByTarget
  <2>4. o = p /\ self'.id = i /\ self'.tier = "target"
    BY <1>5, <2>1, <2>3
  <2>5. self.read = moves => self.target = addr[p]
    BY <2>1, <2>4 DEF AskerOK
  <2>6. addr[p] # addr[q]
    BY <1>4 DEF AddrsApart
  <2> QED BY <2>3, <2>4, <2>5, <2>6
<1>9. CASE SelfByAncestry(o)
  <2>1. Resolving(o)
    BY <1>9 DEF SelfByAncestry
  <2>2. self' # [self EXCEPT !.pc = "resolver"]
    BY <1>0, <1>4 DEF SelfRecords
  <2>3. PICK i \in Ids : Registered(i) /\ agents[i].pid = PidOf(o) /\ self' = Resolved(i, "ancestors")
    BY <1>9, <2>2 DEF SelfByAncestry
  <2>4. o = p /\ self'.id = i
    BY <1>5, <2>1, <2>3
  <2>5. agents[i].pid[1] = p /\ agents[i].pane = q
    BY <2>3, <2>4 DEF PidOf, RowsOf
  <2> QED BY <2>3, <2>5, RegistryAssumption DEF RowPids
<1>10. CASE SelfResolver(o)
  <2>1. Resolving(o) /\ self.pc = "resolver" /\ ~self.known
    BY <1>10 DEF SelfResolver, AskerOK
  <2>2. PICK i : self' = Resolved(i, "resolver")
    BY <1>10 DEF SelfResolver
  <2>3. self'.known = self.known
    BY <1>0, <2>2 DEF Resolved, SelfRecords
  <2> QED BY <2>1, <2>3
<1> QED BY <1>2, <1>6, <1>7, <1>8, <1>9, <1>10 DEF SelfStep

\* SignsAsItself, as long as tmux answers and no watchdog strikes between a
\* commit and the pid file, whatever hooks, reconcilers and tools do between
\* the tiers of a resolution.
THEOREM SignsAsItselfAlways ==
    ASSUME "blind" \notin Events, "timeout" \notin Events
    PROVE  IdentitySpec => SignsAsItself
<1> DEFINE Inv == TypeOK /\ BornOK /\ Located /\ PidsOK /\ PidFileOK
           Own ==
        \A p \in Panes : Signs(p) /\ self'.known =>
          \A q \in Panes \ {p} : Live(q) /\ self'.id \in RowsOf(q) =>
              \/ self'.tier = "file" /\ reg[p].pc = "publish"
              \/ /\ self'.tier = "target"
                 /\ self.read # moves \/ agents[self'.id].target # addr[q]
<1>1. IdentitySpec => Spec
  <2>1. IdentityInit => Init
    BY DEF IdentityInit
  <2>2. [IdentityNext]_<<vars, self>> => [Next]_vars
    BY RegistryKept
  <2> QED BY <2>1, <2>2, PTL DEF IdentitySpec, Spec
<1>2. Spec => []Inv
  <2>1. Init => Located /\ PidsOK /\ PidFileOK
    BY DEF Init, Located, PidsOK, PidFileOK, IdleReg, Pids
  <2>2. TypeOK /\ TypeOK' /\ BornOK /\ Located /\ PidsOK /\ PidFileOK /\ [Next]_vars
          => Located' /\ PidsOK' /\ PidFileOK'
    BY LocatedStep, PidsStep, PidFileOKStep
  <2> QED BY <2>1, <2>2, TypeCorrect, BornAlways, PTL DEF Spec
<1>3. IdentityInit => AskerInv
  BY AskerInit
<1>4. Inv /\ Inv' /\ AskerInv /\ [IdentityNext]_<<vars, self>> => AskerInv'
  BY AskerStep
<1>5. Inv /\ AskerInv /\ [IdentityNext]_<<vars, self>> => [Own]_self
  BY SignsStep
<1> HIDE DEF Inv, Own
<1>6. IdentitySpec => [][Own]_self
  BY <1>1, <1>2, <1>3, <1>4, <1>5, PTL DEF IdentitySpec
<1> QED BY <1>6 DEF SignsAsItself, Own

=============================================================================
