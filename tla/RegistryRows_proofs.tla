------------------------- MODULE RegistryRows_proofs -------------------------
(***************************************************************************)
(* Theorems about the rows of AgentRegistry, for any number of panes,      *)
(* addresses, directories, re-indexings and runtimes: a live pane has at   *)
(* most one row, no registration takes the row of another live pane, a     *)
(* weak one keeps the id of its process's row, a reconciliation pass       *)
(* leaves the rows of the panes it saw alive, and pid files name their     *)
(* process's row.                                                          *)
(***************************************************************************)
EXTENDS AgentRegistry_proofs

-----------------------------------------------------------------------------
(***************************************************************************)
(* How panes and their rows come and go                                    *)
(***************************************************************************)

\* A pane gets an address only when it is created, and tmux forgets none.
LEMMA LiveStep ==
    ASSUME TypeOK, [Next]_vars, NEW p \in Panes
    PROVE  /\ born \subseteq born'
           /\ Live(p)' => Live(p) \/ (p \notin born /\ p \in born')
<1>1. CASE ReIndex
  BY <1>1, RegistryAssumption DEF ReIndex, Live, TypeOK, WorldOK
<1>2. CASE \E q \in Panes : NewPane(q)
  BY <1>2, RegistryAssumption DEF NewPane, Live, TypeOK, WorldOK
<1>3. CASE \E q \in Panes : KillPane(q)
  BY <1>3, RegistryAssumption DEF KillPane, Live, TypeOK, WorldOK
<1>4. CASE ~ReIndex /\ \A q \in Panes : ~NewPane(q) /\ ~KillPane(q)
  <2>1. addr' = addr /\ born' = born
    BY <1>4
    DEF Next, PaneStep, RegStep, UnregStep, RecStep, StartRuntime, SessionEnd, CrashRuntime,
        HookResolve, RegTimeout, HookKilled, McpRegister, McpUnregister, HookTarget, RegAdopt,
        RegClaimant, RegProbe, RegCommit, RegPublish, RegSweep, UnregRead, UnregDelete,
        RecSnapshot, RecSelect, RecApply, PruneSelect, PruneProbe, PruneSelectPids, PruneDelete,
        PrunePids, vars, tmux
  <2> QED BY <2>1 DEF Live
<1> QED BY <1>1, <1>2, <1>3, <1>4

\* A pane's name enters the table only with that pane's commit: the other
\* writers delete rows, refresh addresses or write rows without a pane.
LEMMA TableStep ==
    ASSUME TypeOK, [Next]_vars, NEW i \in Ids, Registered(i)', agents'[i].pane # NoPane
    PROVE  \/ Registered(i) /\ agents[i].pane = agents'[i].pane
           \/ \E p \in Panes : RegCommit(p) /\ i = reg[p].id /\ agents'[i].pane = p
<1>1. ASSUME NEW p \in Panes, RegCommit(p)
      PROVE  \/ Registered(i) /\ agents[i].pane = agents'[i].pane
             \/ i = reg[p].id /\ agents'[i].pane = p
  BY <1>1 DEF RegCommit, Insert, Registered
<1>2. ASSUME NEW p \in Panes, McpRegister(p)
      PROVE  Registered(i) /\ agents[i].pane = agents'[i].pane
  BY <1>2 DEF McpRegister, Insert, Registered
<1>3. ASSUME NEW p \in Panes, UnregDelete(p) \/ McpUnregister(p)
      PROVE  Registered(i) /\ agents[i].pane = agents'[i].pane
  BY <1>3 DEF UnregDelete, McpUnregister, Without, Registered
<1>4. ASSUME NEW r \in Reconcilers, RecApply(r)
      PROVE  Registered(i) /\ agents[i].pane = agents'[i].pane
  <2>1. agents'[i] = Refreshed(rec[r].upd, rec[r].dead)[i]
    BY <1>4 DEF RecApply
  <2>2. i \notin rec[r].dead
    BY <2>1 DEF Refreshed, Registered
  <2>3. CASE Registered(i) /\ \E u \in rec[r].upd : u[1] = i
    <3>1. agents[i] \in Rows
      BY <2>3 DEF TypeOK, TableOK, Registered
    <3>2. agents'[i] = [agents[i] EXCEPT !.target = (CHOOSE u \in rec[r].upd : u[1] = i)[2]]
      BY <2>1, <2>2, <2>3 DEF Refreshed
    <3> QED BY <2>3, <3>1, <3>2 DEF Rows
  <2>4. CASE ~(Registered(i) /\ \E u \in rec[r].upd : u[1] = i)
    <3>1. agents'[i] = agents[i]
      BY <2>1, <2>2, <2>4 DEF Refreshed
    <3> QED BY <3>1 DEF Registered
  <2> QED BY <2>3, <2>4
<1>5. ASSUME NEW r \in Reconcilers, PruneDelete(r)
      PROVE  Registered(i) /\ agents[i].pane = agents'[i].pane
  BY <1>5 DEF PruneDelete, Without, Registered
<1>6. CASE /\ \A p \in Panes : ~RegCommit(p) /\ ~McpRegister(p) /\ ~UnregDelete(p)
                                /\ ~McpUnregister(p)
           /\ \A r \in Reconcilers : ~RecApply(r) /\ ~PruneDelete(r)
  <2>1. agents' = agents
    BY <1>6
    DEF Next, PaneStep, RegStep, UnregStep, RecStep, ReIndex, NewPane, KillPane, StartRuntime,
        SessionEnd, CrashRuntime, HookResolve, RegTimeout, HookKilled, HookTarget, RegAdopt,
        RegClaimant, RegProbe, RegPublish, RegSweep, UnregRead, RecSnapshot, RecSelect,
        PruneSelect, PruneProbe, PruneSelectPids, PrunePids, vars
  <2> QED BY <2>1 DEF Registered
<1> QED BY <1>1, <1>2, <1>3, <1>4, <1>5, <1>6

\* Panes that are alive, run something, register or have a row exist.
BornOK ==
    /\ \A p \in Panes : Live(p) => p \in born
    /\ running \subseteq born
    /\ \A p \in Panes : reg[p].pc # "idle" => p \in born
    /\ \A i \in Ids : Registered(i) /\ agents[i].pane # NoPane => agents[i].pane \in born

\* A pane's hook is moved on by its own steps only.
LEMMA RegStepOf ==
    ASSUME TypeOK, [Next]_vars, NEW p \in Panes
    PROVE  \/ reg'[p] = reg[p]
           \/ HookResolve(p) \/ RegTimeout(p) \/ HookKilled(p) \/ RegStep(p)
<1>1. ASSUME NEW q \in Panes, q # p,
             HookResolve(q) \/ RegTimeout(q) \/ HookKilled(q) \/ RegStep(q)
      PROVE  reg'[p] = reg[p]
  BY <1>1
  DEF HookResolve, RegTimeout, HookKilled, RegStep, HookTarget, RegAdopt, RegClaimant, RegProbe,
      RegCommit, RegPublish, RegSweep, TypeOK, RegOK
<1>2. CASE \A q \in Panes : ~(HookResolve(q) \/ RegTimeout(q) \/ HookKilled(q) \/ RegStep(q))
  BY <1>2
  DEF Next, PaneStep, UnregStep, RecStep, ReIndex, NewPane, KillPane, StartRuntime, SessionEnd,
      CrashRuntime, McpRegister, McpUnregister, UnregRead, UnregDelete, RecSnapshot, RecSelect,
      RecApply, PruneSelect, PruneProbe, PruneSelectPids, PruneDelete, PrunePids, vars
<1> QED BY <1>1, <1>2

\* A hook begins only in a pane that runs a runtime.
LEMMA HookStep ==
    ASSUME TypeOK, [Next]_vars, NEW p \in Panes, reg'[p].pc # "idle"
    PROVE  reg[p].pc # "idle" \/ p \in running
<1>1. HookResolve(p) => p \in running
  BY DEF HookResolve
<1>2. RegTimeout(p) \/ HookKilled(p) => reg[p].pc # "idle"
  BY DEF RegTimeout, HookKilled
<1>3. RegStep(p) => reg[p].pc # "idle"
  BY DEF RegStep, HookTarget, RegAdopt, RegClaimant, RegProbe, RegCommit, RegPublish, RegSweep
<1> QED BY <1>1, <1>2, <1>3, RegStepOf

\* A runtime starts only in a live pane.
LEMMA RunningStep ==
    ASSUME TypeOK, [Next]_vars, NEW p \in running'
    PROVE  p \in running \/ (p \in Panes /\ Live(p))
<1>1. ASSUME NEW q \in Panes, StartRuntime(q) PROVE p \in running \/ (p \in Panes /\ Live(p))
  BY <1>1 DEF StartRuntime
<1>2. CASE \A q \in Panes : ~StartRuntime(q)
  <2>1. running' \subseteq running
    BY <1>2
    DEF Next, PaneStep, RegStep, UnregStep, RecStep, ReIndex, NewPane, KillPane, SessionEnd,
        CrashRuntime, HookResolve, RegTimeout, HookKilled, McpRegister, McpUnregister, HookTarget,
        RegAdopt, RegClaimant, RegProbe, RegCommit, RegPublish, RegSweep, UnregRead, UnregDelete,
        RecSnapshot, RecSelect, RecApply, PruneSelect, PruneProbe, PruneSelectPids, PruneDelete,
        PrunePids, vars, runtimes
  <2> QED BY <2>1
<1> QED BY <1>1, <1>2

\* BornOK is inductive.
LEMMA BornStep == TypeOK /\ TypeOK' /\ BornOK /\ [Next]_vars => BornOK'
<1> SUFFICES ASSUME TypeOK, TypeOK', BornOK, [Next]_vars PROVE BornOK'
  OBVIOUS
<1>1. ASSUME NEW p \in Panes, Live(p)' PROVE p \in born'
  BY <1>1, LiveStep DEF BornOK
<1>2. running' \subseteq born'
  <2> SUFFICES ASSUME NEW p \in running' PROVE p \in born'
    OBVIOUS
  <2>1. p \in Panes
    BY DEF TypeOK, WorldOK
  <2> QED BY <2>1, RunningStep, LiveStep DEF BornOK
<1>3. ASSUME NEW p \in Panes, reg'[p].pc # "idle" PROVE p \in born'
  BY <1>3, HookStep, LiveStep DEF BornOK
<1>4. ASSUME NEW i \in Ids, Registered(i)', agents'[i].pane # NoPane
      PROVE  agents'[i].pane \in born'
  <2>1. agents'[i].pane \in Panes
    BY <1>4 DEF TypeOK, TableOK, Registered, Rows, MaybePane
  <2>2. CASE Registered(i) /\ agents[i].pane = agents'[i].pane
    BY <1>4, <2>1, <2>2, LiveStep DEF BornOK
  <2>3. CASE \E p \in Panes : RegCommit(p) /\ agents'[i].pane = p
    BY <2>1, <2>3, LiveStep DEF BornOK, RegCommit
  <2> QED BY <1>4, <2>2, <2>3, TableStep
<1> QED BY <1>1, <1>2, <1>3, <1>4 DEF BornOK, Registered

\* No row, hook or runtime of a pane that never existed.
LEMMA BornAlways == Spec => []BornOK
<1>1. Init => BornOK
  BY RegistryAssumption DEF Init, BornOK, Live, Registered, IdleReg
<1> QED BY <1>1, BornStep, TypeCorrect, PTL DEF Spec

-----------------------------------------------------------------------------
(***************************************************************************)
(* One row per live pane                                                   *)
(***************************************************************************)

\* Past its second read of tmux, a live pane's registration has an address.
Located ==
    \A p \in Panes : reg[p].pc \in {"adopt", "claim", "probe", "commit"} /\ Live(p) =>
        reg[p].target # NoAddr

\* What a weak identity's continuity decides.
LEMMA AdoptStep ==
    ASSUME TypeOK, NEW p \in Panes, RegAdopt(p)
    PROVE  /\ reg[p].pc = "adopt" /\ reg'[p].pc = "claim" /\ reg'[p].evict = reg[p].evict
           /\ reg'[p].target = reg[p].target
           /\ reg'[p].id = reg[p].id \/ \E i \in RowsOf(p) : reg'[p].id = Adopted(p, i).id
<1>1. reg[p].pc = "adopt" /\ reg[p] \in RegRecords
  BY DEF RegAdopt, TypeOK, RegOK
<1>2. CASE reg' = [reg EXCEPT ![p] = [@ EXCEPT !.pc = "claim"]]
  BY <1>1, <1>2 DEF TypeOK, RegOK, RegRecords
<1>3. CASE \E i \in RowsOf(p) :
             reg' = [reg EXCEPT ![p] =
                       [@ EXCEPT !.pc = "claim",
                                 !.id = Adopted(p, i).id,
                                 !.cwd = Adopted(p, i).cwd]]
  <2>1. PICK i \in RowsOf(p) :
           reg' = [reg EXCEPT ![p] = [@ EXCEPT !.pc = "claim",
                                               !.id = Adopted(p, i).id,
                                               !.cwd = Adopted(p, i).cwd]]
    BY <1>3
  <2> DEFINE id == Adopted(p, i).id
             cwd == Adopted(p, i).cwd
  <2>2. reg'[p] = [reg[p] EXCEPT !.pc = "claim", !.id = id, !.cwd = cwd]
    BY <2>1 DEF TypeOK, RegOK
  <2> HIDE DEF id, cwd
  <2>3. reg'[p].pc = "claim" /\ reg'[p].id = id /\ reg'[p].evict = reg[p].evict
          /\ reg'[p].target = reg[p].target
    BY <1>1, <2>2 DEF RegRecords
  <2> QED BY <1>1, <2>3 DEF id
<1> QED BY <1>1, <1>2, <1>3 DEF RegAdopt

\* A registration past that read keeps the address it read.
LEMMA TargetStep ==
    ASSUME TypeOK, [Next]_vars, NEW p \in Panes,
           reg'[p].pc \in {"adopt", "claim", "probe", "commit"}
    PROVE  \/ HookTarget(p)
           \/ /\ reg[p].pc \in {"adopt", "claim", "probe", "commit"}
              /\ reg'[p].target = reg[p].target
<1>1. CASE reg'[p] = reg[p]
  BY <1>1
<1>2. CASE HookResolve(p) \/ RegCommit(p) \/ RegPublish(p) \/ RegSweep(p) \/ RegTimeout(p)
              \/ HookKilled(p)
  <2>1. reg'[p].pc \in {"target", "publish", "sweep", "idle"}
    <3>1. CASE HookResolve(p)
      BY <3>1 DEF HookResolve, IdleReg, TypeOK, RegOK
    <3>2. CASE RegCommit(p)
      BY <3>2 DEF RegCommit, IdleReg, TypeOK, RegOK
    <3>3. CASE RegPublish(p) \/ RegSweep(p) \/ RegTimeout(p) \/ HookKilled(p)
      BY <3>3 DEF RegPublish, RegSweep, RegTimeout, HookKilled, IdleReg, TypeOK, RegOK
    <3> QED BY <1>2, <3>1, <3>2, <3>3
  <2> QED BY <2>1
<1>3. CASE RegAdopt(p)
  BY <1>3, AdoptStep
<1>4. CASE RegClaimant(p)
  BY <1>4 DEF RegClaimant, TypeOK, RegOK, RegRecords
<1>5. CASE RegProbe(p)
  BY <1>5 DEF RegProbe, TypeOK, RegOK, RegRecords
<1> QED
  BY <1>1, <1>2, <1>3, <1>4, <1>5, RegStepOf DEF RegStep

\* Without failing reads Located is inductive.
LEMMA LocatedStep ==
    ASSUME "blind" \notin Events, TypeOK, BornOK, Located, [Next]_vars
    PROVE  Located'
<1> SUFFICES ASSUME NEW p \in Panes, Live(p)',
                    reg'[p].pc \in {"adopt", "claim", "probe", "commit"}
             PROVE  reg'[p].target # NoAddr
  BY DEF Located, Live
<1>1. CASE HookTarget(p)
  <2>1. Live(p)
    BY <1>1 DEF HookTarget, tmux, Live
  <2>2. reg'[p].target = addr[p]
    BY <1>1 DEF HookTarget, AddressRead, TypeOK, RegOK, RegRecords
  <2> QED BY <2>1, <2>2 DEF Live
<1>2. CASE /\ reg[p].pc \in {"adopt", "claim", "probe", "commit"}
           /\ reg'[p].target = reg[p].target
  BY <1>2, LiveStep DEF Located, BornOK
<1> QED BY <1>1, <1>2, TargetStep

\* register() leaves its pane no row but the one it writes.
LEMMA CommitLeavesOne ==
    ASSUME TypeOK, NEW p \in Panes, RegCommit(p), reg[p].target # NoAddr, NEW i \in RowsOf(p)'
    PROVE  i = reg[p].id
<1> SUFFICES ASSUME i # reg[p].id PROVE FALSE
  OBVIOUS
<1>1. i \in Ids /\ Registered(i)' /\ agents'[i].pane = p
  BY DEF RowsOf, Registered
<1>2. Registered(i) /\ agents[i].pane = p /\ i \notin Evicted(reg[p].id, p, reg[p].target)
  BY <1>1 DEF RegCommit, Insert, Registered
<1>3. p # NoPane
  BY RegistryAssumption
<1> QED BY <1>1, <1>2, <1>3 DEF Evicted

\* OneRowPerLivePane is inductive, given BornOK and Located.
LEMMA OneRowStep ==
    ASSUME TypeOK, BornOK, Located, OneRowPerLivePane, [Next]_vars
    PROVE  OneRowPerLivePane'
<1> SUFFICES ASSUME NEW p \in Panes, Live(p)', NEW i \in RowsOf(p)', NEW j \in RowsOf(p)'
             PROVE  i = j
  BY DEF OneRowPerLivePane, RowsOf, Live, Registered
<1>1. p # NoPane
  BY RegistryAssumption
<1>2. /\ i \in Ids /\ Registered(i)' /\ agents'[i].pane = p
      /\ j \in Ids /\ Registered(j)' /\ agents'[j].pane = p
  BY DEF RowsOf, Registered
<1>3. CASE RegCommit(p)
  <2>1. reg[p].pc = "commit" /\ Live(p)
    BY <1>3 DEF RegCommit, tmux, Live
  <2> QED BY <1>3, <2>1, CommitLeavesOne DEF Located
<1>4. CASE ~RegCommit(p)
  <2>1. i \in RowsOf(p) /\ j \in RowsOf(p)
    BY <1>1, <1>2, <1>4, TableStep DEF RowsOf
  <2>2. p \in born
    BY <1>1, <2>1 DEF RowsOf, BornOK
  <2> QED BY <2>1, <2>2, LiveStep DEF OneRowPerLivePane
<1> QED BY <1>3, <1>4

\* OneRowPerLivePane, as long as tmux answers the hooks that ask for an
\* address: a registration evicts by pane only when it knows one.
THEOREM OneRowAlways ==
    ASSUME "blind" \notin Events
    PROVE  Spec => []OneRowPerLivePane
<1>1. Init => Located /\ OneRowPerLivePane
  BY DEF Init, Located, OneRowPerLivePane, Live, IdleReg
<1>2. TypeOK /\ BornOK /\ Located /\ OneRowPerLivePane /\ [Next]_vars
        => Located' /\ OneRowPerLivePane'
  BY LocatedStep, OneRowStep
<1> QED BY <1>1, <1>2, TypeCorrect, BornAlways, PTL DEF Spec

-----------------------------------------------------------------------------
(***************************************************************************)
(* The takeover guard of register()                                        *)
(***************************************************************************)

\* What a probe of the claimant decides.
LEMMA ProbeStep ==
    ASSUME TypeOK, NEW p \in Panes, RegProbe(p)
    PROVE  /\ reg[p].pc = "probe" /\ reg[p].id \in Ids
           /\ reg'[p].pc = "commit" /\ reg'[p].claimant = reg[p].claimant
           /\ \/ reg'[p].evict = reg[p].evict /\ reg'[p].id = [reg[p].id EXCEPT !.sfx = p]
              \/ SeenDead(reg[p].claimant) /\ reg'[p].id = reg[p].id
<1>1. reg[p].pc = "probe" /\ reg[p].id \in Ids /\ reg[p] \in RegRecords
  BY AskingType DEF RegProbe, Asking, TypeOK, RegOK
<1> DEFINE new  == [reg[p].id EXCEPT !.sfx = p]
           kept == [reg[p] EXCEPT !.pc = "commit", !.id = new]
           took == [reg[p] EXCEPT !.pc = "commit", !.evict = TRUE]
<1>2. \/ reg' = [reg EXCEPT ![p] = kept]
      \/ SeenDead(reg[p].claimant) /\ reg' = [reg EXCEPT ![p] = took]
  BY DEF RegProbe
<1>3. reg'[p] = kept \/ (SeenDead(reg[p].claimant) /\ reg'[p] = took)
  BY <1>2 DEF TypeOK, RegOK
<1> HIDE DEF new
<1>4. CASE reg'[p] = kept
  BY <1>1, <1>4 DEF RegRecords, new
<1>5. CASE SeenDead(reg[p].claimant) /\ reg'[p] = took
  BY <1>1, <1>5 DEF RegRecords
<1> QED BY <1>1, <1>3, <1>4, <1>5

\* Which step of its hook put a registration where it is.
LEMMA StageStep ==
    ASSUME TypeOK, [Next]_vars, NEW p \in Panes
    PROVE  /\ reg'[p].pc = "target" => reg'[p] = reg[p] \/ HookResolve(p)
           /\ reg'[p].pc = "adopt"  => reg'[p] = reg[p] \/ HookTarget(p)
           /\ reg'[p].pc = "claim"  => reg'[p] = reg[p] \/ HookTarget(p) \/ RegAdopt(p)
           /\ reg'[p].pc = "probe"  => reg'[p] = reg[p] \/ RegClaimant(p)
           /\ reg'[p].pc = "commit" => reg'[p] = reg[p] \/ RegClaimant(p) \/ RegProbe(p)
<1>1. HookResolve(p) => reg'[p].pc = "target"
  BY DEF HookResolve, IdleReg, TypeOK, RegOK
<1>2. HookTarget(p) => reg'[p].pc \in {"adopt", "claim"}
  BY DEF HookTarget, TypeOK, RegOK, RegRecords
<1>3. RegAdopt(p) => reg'[p].pc = "claim"
  BY AdoptStep
<1>4. RegClaimant(p) => reg'[p].pc \in {"probe", "commit"}
  BY DEF RegClaimant, TypeOK, RegOK, RegRecords
<1>5. RegProbe(p) => reg'[p].pc = "commit"
  BY ProbeStep
<1>6. RegCommit(p) => reg'[p].pc = "publish"
  BY DEF RegCommit, IdleReg, TypeOK, RegOK
<1>7. RegPublish(p) \/ RegSweep(p) \/ RegTimeout(p) \/ HookKilled(p)
        => reg'[p].pc \in {"sweep", "idle"}
  BY DEF RegPublish, RegSweep, RegTimeout, HookKilled, IdleReg, TypeOK, RegOK
<1> QED
  BY <1>1, <1>2, <1>3, <1>4, <1>5, <1>6, <1>7, RegStepOf DEF RegStep

\* A pane suffix names the pane that disambiguated its id.
SuffixOK ==
    /\ \A i \in Ids : Registered(i) /\ agents[i].pane # NoPane =>
           i.sfx \in {NoPane, agents[i].pane}
    /\ \A p \in Panes : title[p] # NoId => title[p].sfx = NoPane
    /\ \A p \in Panes : reg[p].pc \in Asking => reg[p].id.sfx \in {NoPane, p}

\* Titles are stamped with canonical ids.
LEMMA TitleStep ==
    ASSUME TypeOK, [Next]_vars, NEW p \in Panes, title'[p] # NoId
    PROVE  title'[p] = title[p] \/ title'[p].sfx = NoPane
<1>1. CASE \E q \in Panes : NewPane(q)
  BY <1>1 DEF NewPane, Canonical, TypeOK, WorldOK
<1>2. CASE ~\E q \in Panes : NewPane(q)
  BY <1>2
  DEF Next, PaneStep, RegStep, UnregStep, RecStep, ReIndex, KillPane, StartRuntime, SessionEnd,
      CrashRuntime, HookResolve, RegTimeout, HookKilled, McpRegister, McpUnregister, HookTarget,
      RegAdopt, RegClaimant, RegProbe, RegCommit, RegPublish, RegSweep, UnregRead, UnregDelete,
      RecSnapshot, RecSelect, RecApply, PruneSelect, PruneProbe, PruneSelectPids, PruneDelete,
      PrunePids, vars, tmux
<1> QED BY <1>1, <1>2

\* SuffixOK is inductive: a hook's id comes from its title, its address or
\* its own pane's rows.
LEMMA SuffixStep == ASSUME TypeOK, SuffixOK, [Next]_vars PROVE SuffixOK'
<1>1. ASSUME NEW i \in Ids, Registered(i)', agents'[i].pane # NoPane
      PROVE  i.sfx \in {NoPane, agents'[i].pane}
  <2>1. CASE Registered(i) /\ agents[i].pane = agents'[i].pane
    BY <1>1, <2>1 DEF SuffixOK
  <2>2. CASE \E p \in Panes : RegCommit(p) /\ i = reg[p].id /\ agents'[i].pane = p
    BY <2>2 DEF SuffixOK, RegCommit, Asking
  <2> QED BY <1>1, <2>1, <2>2, TableStep
<1>2. ASSUME NEW p \in Panes, title'[p] # NoId PROVE title'[p].sfx = NoPane
  BY <1>2, TitleStep DEF SuffixOK
<1>3. ASSUME NEW p \in Panes, reg'[p].pc \in Asking PROVE reg'[p].id.sfx \in {NoPane, p}
  <2>1. CASE reg'[p] = reg[p]
    BY <1>3, <2>1 DEF SuffixOK
  <2>2. CASE HookResolve(p)
    BY <2>2 DEF HookResolve, Canonical, IdleReg, SuffixOK, TypeOK, RegOK
  <2>3. CASE HookTarget(p)
    <3>1. reg'[p].id = reg[p].id /\ reg[p].pc \in Asking
      BY <2>3 DEF HookTarget, Asking, TypeOK, RegOK, RegRecords
    <3> QED BY <3>1 DEF SuffixOK
  <2>4. CASE RegAdopt(p)
    <3>1. reg[p].pc \in Asking
      BY <2>4 DEF RegAdopt, Asking
    <3>2. reg'[p].id = reg[p].id \/ \E i \in RowsOf(p) : reg'[p].id = Adopted(p, i).id
      BY <2>4, AdoptStep
    <3>3. ASSUME NEW i \in RowsOf(p) PROVE i.sfx \in {NoPane, p}
      BY RegistryAssumption DEF RowsOf, SuffixOK
    <3> QED BY <3>1, <3>2, <3>3 DEF Adopted, SuffixOK
  <2>5. CASE RegClaimant(p)
    <3>1. reg'[p].id = reg[p].id /\ reg[p].pc \in Asking
      BY <2>5 DEF RegClaimant, Asking, TypeOK, RegOK, RegRecords
    <3> QED BY <3>1 DEF SuffixOK
  <2>6. CASE RegProbe(p)
    <3>1. reg[p].pc \in Asking /\ reg[p].id \in Ids
      BY <2>6, ProbeStep DEF Asking
    <3>2. reg'[p].id = reg[p].id \/ reg'[p].id = [reg[p].id EXCEPT !.sfx = p]
      BY <2>6, ProbeStep
    <3>3. [reg[p].id EXCEPT !.sfx = p].sfx = p
      BY <3>1 DEF Ids
    <3> QED BY <3>1, <3>2, <3>3 DEF SuffixOK
  <2> QED BY <1>3, <2>1, <2>2, <2>3, <2>4, <2>5, <2>6, StageStep DEF Asking
<1> QED BY <1>1, <1>2, <1>3 DEF SuffixOK, Registered

\* A registration evicts a claimant only after it saw its pane dead.
EvictOK ==
    \A p \in Panes :
        /\ reg[p].pc \in {"target", "adopt", "claim", "probe"} => ~reg[p].evict
        /\ reg[p].pc = "probe" => reg[p].claimant \in born
        /\ reg[p].pc = "commit" /\ reg[p].evict =>
              reg[p].claimant \in born /\ addr[reg[p].claimant] = NoAddr

\* As long as list-panes answers, EvictOK is inductive.
LEMMA EvictStep ==
    ASSUME "flaky" \notin Events, TypeOK, BornOK, EvictOK, [Next]_vars
    PROVE  EvictOK'
<1> SUFFICES ASSUME NEW p \in Panes
    PROVE /\ reg'[p].pc \in {"target", "adopt", "claim", "probe"} => ~reg'[p].evict
          /\ reg'[p].pc = "probe" => reg'[p].claimant \in born'
          /\ reg'[p].pc = "commit" /\ reg'[p].evict =>
                reg'[p].claimant \in born' /\ addr'[reg'[p].claimant] = NoAddr
  BY DEF EvictOK
<1>1. CASE reg'[p] = reg[p]
  <2>1. ASSUME NEW c \in born, addr[c] = NoAddr PROVE c \in born' /\ addr'[c] = NoAddr
    BY <2>1, LiveStep DEF Live, TypeOK, WorldOK
  <2>2. born \subseteq born'
    BY LiveStep
  <2> QED BY <1>1, <2>1, <2>2 DEF EvictOK
<1>2. CASE HookResolve(p)
  BY <1>2 DEF HookResolve, IdleReg, TypeOK, RegOK
<1>3. CASE HookTarget(p) \/ RegAdopt(p)
  <2>1. /\ reg[p].pc \in {"target", "adopt"} /\ reg'[p].pc \in {"adopt", "claim"}
        /\ reg'[p].evict = reg[p].evict
    <3>1. CASE HookTarget(p)
      BY <3>1 DEF HookTarget, TypeOK, RegOK, RegRecords
    <3>2. CASE RegAdopt(p)
      BY <3>2, AdoptStep
    <3> QED BY <1>3, <3>1, <3>2
  <2> QED BY <2>1 DEF EvictOK
<1>4. CASE RegClaimant(p)
  <2>1. /\ reg[p].pc = "claim"
        /\ reg'[p].evict = reg[p].evict
        /\ reg'[p].claimant = Claimant(p)
        /\ reg'[p].pc = IF Claimant(p) = NoPane THEN "commit" ELSE "probe"
    BY <1>4 DEF RegClaimant, TypeOK, RegOK, RegRecords
  <2>2. reg[p].id \in Ids
    BY <2>1, AskingType DEF Asking, TypeOK
  <2>3. Claimant(p) = NoPane \/ Claimant(p) \in born
    BY <2>2 DEF Claimant, BornOK
  <2> QED BY <1>4, <2>1, <2>3 DEF EvictOK, RegClaimant, tmux
<1>5. CASE RegProbe(p)
  <2>1. reg[p].pc = "probe" /\ ~reg[p].evict /\ reg[p].claimant \in born
    BY <1>5, ProbeStep DEF EvictOK
  <2>2. addr' = addr /\ born' = born
    BY <1>5 DEF RegProbe, tmux
  <2> QED BY <1>5, <2>1, <2>2, ProbeStep DEF SeenDead, Live
<1> QED BY <1>1, <1>2, <1>3, <1>4, <1>5, StageStep

\* Who else holds the id of a registration past its guard registered it
\* since, or is the claimant about to be probed, or is dead.
GuardOK ==
    \A p \in Panes : \A q \in Panes \ {p} :
        reg[p].pc \in {"probe", "commit"} /\ reg[p].id \in RowsOf(q) /\ q \notin fresh[p] =>
            /\ reg[p].pc = "probe" => q = reg[p].claimant
            /\ reg[p].pc = "commit" => ~Live(q)

\* While a registration is past its guard, every other commit is noted.
LEMMA FreshStep ==
    ASSUME TypeOK, [Next]_vars, NEW p \in Panes, reg[p].pc \in {"probe", "commit"},
           ~RegCommit(p)
    PROVE  /\ fresh[p] \subseteq fresh'[p]
           /\ \A q \in Panes \ {p} : RegCommit(q) => q \in fresh'[p]
<1>1. ASSUME NEW q \in Panes \ {p}, RegCommit(q)
      PROVE  fresh'[p] = fresh[p] \cup {q}
  BY <1>1 DEF RegCommit, Observing, TypeOK, FreshOK
<1>2. ASSUME NEW q \in Panes, RegClaimant(q) PROVE fresh'[p] = fresh[p]
  BY <1>2 DEF RegClaimant, TypeOK, FreshOK
<1>3. ASSUME NEW r \in Reconcilers, RecSnapshot(r) PROVE fresh'[p] = fresh[p]
  <2>1. r # p
    BY RegistryAssumption
  <2> QED BY <1>3, <2>1 DEF RecSnapshot, TypeOK, FreshOK
<1>4. CASE /\ \A q \in Panes : ~RegCommit(q) /\ ~RegClaimant(q)
           /\ \A r \in Reconcilers : ~RecSnapshot(r)
  BY <1>4
  DEF Next, PaneStep, RegStep, UnregStep, RecStep, ReIndex, NewPane, KillPane, StartRuntime,
      SessionEnd, CrashRuntime, HookResolve, RegTimeout, HookKilled, McpRegister, McpUnregister,
      HookTarget, RegAdopt, RegProbe, RegPublish, RegSweep, UnregRead, UnregDelete, RecSelect,
      RecApply, PruneSelect, PruneProbe, PruneSelectPids, PruneDelete, PrunePids, vars
<1>5. fresh[p] \subseteq fresh'[p]
  BY <1>1, <1>2, <1>3, <1>4
<1> QED BY <1>1, <1>5

\* GuardOK is inductive, given SuffixOK and EvictOK.
LEMMA GuardStep ==
    ASSUME "flaky" \notin Events, TypeOK, BornOK, SuffixOK, GuardOK, [Next]_vars
    PROVE  GuardOK'
<1> SUFFICES ASSUME NEW p \in Panes, NEW q \in Panes \ {p},
                    reg'[p].pc \in {"probe", "commit"}, reg'[p].id \in RowsOf(q)', q \notin fresh'[p]
             PROVE  /\ reg'[p].pc = "probe" => q = reg'[p].claimant
                    /\ reg'[p].pc = "commit" => ~Live(q)'
  BY DEF GuardOK
<1>1. p # NoPane /\ q # NoPane
  BY RegistryAssumption
<1>2. reg'[p].id \in Ids /\ agents'[reg'[p].id] # NoRow /\ agents'[reg'[p].id].pane = q
  BY DEF RowsOf, Registered
<1>3. CASE reg'[p] = reg[p]
  <2>1. ~RegCommit(p)
    BY <1>3 DEF RegCommit, IdleReg, TypeOK, RegOK
  <2>2. q \notin fresh[p] /\ ~RegCommit(q)
    BY <1>3, <2>1, FreshStep
  <2>3. reg[p].id \in RowsOf(q)
    BY <1>1, <1>2, <1>3, <2>2, TableStep DEF RowsOf
  <2>4. q \in born
    BY <1>1, <2>3 DEF RowsOf, BornOK
  <2> QED BY <1>3, <2>2, <2>3, <2>4, LiveStep DEF GuardOK
<1>4. CASE RegClaimant(p)
  <2>1. reg'[p].id = reg[p].id /\ reg'[p].claimant = Claimant(p)
          /\ reg'[p].pc = IF Claimant(p) = NoPane THEN "commit" ELSE "probe"
    BY <1>4 DEF RegClaimant, TypeOK, RegOK, RegRecords
  <2>2. Registered(reg[p].id) /\ agents[reg[p].id].pane = q
    BY <1>2, <1>4, <2>1 DEF RegClaimant, Registered
  <2>3. Claimant(p) = q
    BY <1>1, <2>2 DEF Claimant
  <2> QED BY <1>1, <2>1, <2>3
<1>5. CASE RegProbe(p)
  <2>1. reg[p].pc = "probe" /\ reg[p].id \in Ids
    BY <1>5, ProbeStep
  <2>2. agents' = agents /\ fresh' = fresh /\ addr' = addr
    BY <1>5 DEF RegProbe, tmux
  <2>3. \/ reg'[p].id = [reg[p].id EXCEPT !.sfx = p]
        \/ SeenDead(reg[p].claimant) /\ reg'[p].id = reg[p].id
    BY <1>5, ProbeStep
  <2>4. reg'[p].pc = "commit"
    BY <1>5, ProbeStep
  <2>5. CASE reg'[p].id = [reg[p].id EXCEPT !.sfx = p]
    <3>1. reg'[p].id.sfx = p
      BY <2>1, <2>5 DEF Ids
    <3>2. reg'[p].id.sfx \in {NoPane, q}
      BY <1>1, <1>2, <2>2 DEF SuffixOK, Registered
    <3> QED BY <1>1, <3>1, <3>2
  <2>6. CASE SeenDead(reg[p].claimant) /\ reg'[p].id = reg[p].id
    <3>1. q = reg[p].claimant
      BY <1>2, <2>1, <2>2, <2>6 DEF GuardOK, RowsOf, Registered
    <3> QED BY <2>2, <2>4, <2>6, <3>1 DEF SeenDead, Live
  <2> QED BY <2>3, <2>5, <2>6
<1> QED BY <1>3, <1>4, <1>5, StageStep

\* The step that commits is the only one that moves a hook to "publish".
LEMMA CommitsIs ==
    ASSUME TypeOK, [Next]_vars, NEW p \in Panes, Commits(p)
    PROVE  RegCommit(p)
<1>1. reg'[p] # reg[p]
  BY DEF Commits
<1>2. ~(HookResolve(p) \/ HookTarget(p) \/ RegAdopt(p) \/ RegClaimant(p) \/ RegProbe(p)
        \/ RegPublish(p) \/ RegSweep(p))
  BY DEF Commits, HookResolve, HookTarget, RegAdopt, RegClaimant, RegProbe, RegPublish, RegSweep
<1>3. ~(RegTimeout(p) \/ HookKilled(p))
  BY DEF Commits, RegTimeout, HookKilled, IdleReg, TypeOK, RegOK
<1> QED BY <1>1, <1>2, <1>3, RegStepOf DEF RegStep

\* RegistrationSparesLivePanes, as long as list-panes answers: a registration
\* takes nothing from another live pane but a row that pane wrote, under the
\* same id, after the guard had looked for a claimant.
THEOREM RegistrationSparesAlways ==
    ASSUME "flaky" \notin Events
    PROVE  Spec => RegistrationSparesLivePanes
<1> DEFINE Guarded == SuffixOK /\ EvictOK /\ GuardOK
<1>1. Init => Guarded
  BY DEF Init, SuffixOK, EvictOK, GuardOK, Registered, IdleReg, Asking
<1>2. TypeOK /\ BornOK /\ Guarded /\ [Next]_vars => Guarded'
  BY SuffixStep, EvictStep, GuardStep
<1>3. TypeOK /\ Guarded /\ [Next]_vars =>
        [\A p \in Panes : Commits(p) =>
           \A q \in Panes \ {p}, i \in Ids :
             Loses(q, i) => i = reg[p].id /\ q \in fresh[p]]_agents
  <2> SUFFICES ASSUME TypeOK, Guarded, [Next]_vars,
                      NEW p \in Panes, Commits(p), NEW q \in Panes \ {p}, NEW i \in Ids, Loses(q, i)
               PROVE  i = reg[p].id /\ q \in fresh[p]
    OBVIOUS
  <2>1. RegCommit(p)
    BY CommitsIs
  <2>2. Live(q) /\ Registered(i) /\ agents[i].pane = q /\ q # NoPane
    BY RegistryAssumption DEF Loses, RowsOf
  <2>3. CASE i = reg[p].id
    BY <2>1, <2>2, <2>3 DEF GuardOK, RowsOf, RegCommit
  <2>4. CASE i # reg[p].id
    <3>1. \/ i \in Evicted(reg[p].id, p, reg[p].target)
          \/ reg[p].evict /\ i \in RowsOf(reg[p].claimant)
      BY <2>1, <2>2, <2>4 DEF RegCommit, Insert, Loses, Registered
    <3>2. i \notin Evicted(reg[p].id, p, reg[p].target)
      BY <2>2 DEF Evicted
    <3>3. reg[p].claimant = q /\ ~Live(q)
      BY <2>1, <2>2, <3>1, <3>2 DEF RowsOf, EvictOK, RegCommit, Live
    <3> QED BY <2>2, <3>3
  <2> QED BY <2>3, <2>4
<1> HIDE DEF Guarded
<1> QED BY <1>1, <1>2, <1>3, TypeCorrect, BornAlways, PTL DEF Spec, RegistrationSparesLivePanes

-----------------------------------------------------------------------------
(***************************************************************************)
(* What a row and a process keep                                           *)
(***************************************************************************)

\* A row that stays its pane's without that pane's commit stays as it is,
\* or gets an address from a reconciliation pass.
LEMMA RowKept ==
    ASSUME TypeOK, [Next]_vars, NEW p \in Panes, NEW i \in RowsOf(p)', ~RegCommit(p)
    PROVE  /\ i \in RowsOf(p)
           /\ agents'[i] = agents[i] \/ \E r \in Reconcilers : RecApply(r)
<1>1. i \in Ids /\ Registered(i)' /\ agents'[i].pane = p /\ p # NoPane
  BY RegistryAssumption DEF RowsOf, Registered
<1>2. i \in RowsOf(p)
  <2>1. Registered(i) /\ agents[i].pane = p
    BY <1>1, TableStep
  <2> QED BY <1>1, <2>1 DEF RowsOf
<1>3. ASSUME NEW q \in Panes, RegCommit(q) PROVE agents'[i] = agents[i]
  <2>1. q # p
    BY <1>3
  <2> QED BY <1>1, <1>3, <2>1 DEF RegCommit, Insert, Registered
<1>4. ASSUME NEW q \in Panes, McpRegister(q) PROVE agents'[i] = agents[i]
  BY <1>1, <1>4 DEF McpRegister, Insert, Registered
<1>5. ASSUME NEW q \in Panes, UnregDelete(q) \/ McpUnregister(q)
      PROVE  agents'[i] = agents[i]
  BY <1>1, <1>5 DEF UnregDelete, McpUnregister, Without, Registered
<1>6. ASSUME NEW r \in Reconcilers, PruneDelete(r) PROVE agents'[i] = agents[i]
  BY <1>1, <1>6 DEF PruneDelete, Without, Registered
<1>7. CASE /\ \A q \in Panes : ~RegCommit(q) /\ ~McpRegister(q) /\ ~UnregDelete(q)
                                /\ ~McpUnregister(q)
           /\ \A r \in Reconcilers : ~RecApply(r) /\ ~PruneDelete(r)
  <2>1. agents' = agents
    BY <1>7
    DEF Next, PaneStep, RegStep, UnregStep, RecStep, ReIndex, NewPane, KillPane, StartRuntime,
        SessionEnd, CrashRuntime, HookResolve, RegTimeout, HookKilled, HookTarget, RegAdopt,
        RegClaimant, RegProbe, RegPublish, RegSweep, UnregRead, RecSnapshot, RecSelect,
        PruneSelect, PruneProbe, PruneSelectPids, PrunePids, vars
  <2> QED BY <1>2, <2>1
<1> QED BY <1>2, <1>3, <1>4, <1>5, <1>6, <1>7

\* In either case its process is the one that registered it.
LEMMA PidStep ==
    ASSUME TypeOK, [Next]_vars, NEW p \in Panes, NEW i \in RowsOf(p)', ~RegCommit(p)
    PROVE  i \in RowsOf(p) /\ agents'[i].pid = agents[i].pid
<1>1. i \in RowsOf(p) /\ i \in Ids /\ agents'[i] # NoRow /\ agents[i] \in Rows
  BY RowKept DEF RowsOf, Registered, TypeOK, TableOK
<1>2. CASE agents'[i] = agents[i]
  BY <1>1, <1>2
<1>3. CASE \E r \in Reconcilers : RecApply(r)
  <2>1. PICK r \in Reconcilers : agents' = Refreshed(rec[r].upd, rec[r].dead)
    BY <1>3 DEF RecApply
  <2> DEFINE t == (CHOOSE u \in rec[r].upd : u[1] = i)[2]
  <2>2. agents'[i] = [agents[i] EXCEPT !.target = t] \/ agents'[i] = agents[i]
    BY <1>1, <2>1 DEF Refreshed
  <2> HIDE DEF t
  <2> QED BY <1>1, <2>2 DEF Rows
<1> QED BY <1>2, <1>3, RowKept

\* A pane gets a new process only while no hook of it is in flight.
LEMMA GenStep ==
    ASSUME TypeOK, [Next]_vars, NEW p \in Panes
    PROVE  PidOf(p)' = PidOf(p) \/ reg'[p].pc = "idle"
<1>1. ASSUME NEW q \in Panes, StartRuntime(q) PROVE gen'[p] = gen[p] \/ reg'[p].pc = "idle"
  BY <1>1 DEF StartRuntime, TypeOK, WorldOK
<1>2. CASE \A q \in Panes : ~StartRuntime(q)
  <2>1. gen' = gen
    BY <1>2
    DEF Next, PaneStep, RegStep, UnregStep, RecStep, ReIndex, NewPane, KillPane, SessionEnd,
        CrashRuntime, HookResolve, RegTimeout, HookKilled, McpRegister, McpUnregister, HookTarget,
        RegAdopt, RegClaimant, RegProbe, RegCommit, RegPublish, RegSweep, UnregRead, UnregDelete,
        RecSnapshot, RecSelect, RecApply, PruneSelect, PruneProbe, PruneSelectPids, PruneDelete,
        PrunePids, vars, runtimes
  <2> QED BY <2>1 DEF PidOf
<1> QED BY <1>1, <1>2 DEF PidOf

-----------------------------------------------------------------------------
(***************************************************************************)
(* Identity continuity                                                     *)
(***************************************************************************)

\* Past its continuity check, a weak registration of a live pane asks for the
\* id of its process's row, so it finds no other claimant of it.
ContinuityOK ==
    \A p \in Panes : Live(p) /\ reg[p].src = "fallback" =>
        \A i \in RowsOf(p) : agents[i].pid = PidOf(p) =>
            /\ reg[p].pc \in {"claim", "commit"} => reg[p].id = i
            /\ reg[p].pc # "probe"

\* Continuity is looked at by the one step before the claim.
LEMMA AdoptsOwn ==
    ASSUME TypeOK, OneRowPerLivePane, NEW p \in Panes, Live(p), RegAdopt(p),
           NEW i \in RowsOf(p), agents[i].pid = PidOf(p)
    PROVE  reg'[p].id = i /\ reg'[p].src = reg[p].src
<1>1. \A j \in RowsOf(p) : j = i
  BY DEF OneRowPerLivePane
<1>2. Adopted(p, i).id = i
  BY DEF Adopted
<1>3. reg' = [reg EXCEPT ![p] = [@ EXCEPT !.pc = "claim", !.id = Adopted(p, i).id,
                                           !.cwd = Adopted(p, i).cwd]]
  BY <1>1 DEF RegAdopt
<1> DEFINE id == Adopted(p, i).id
           cwd == Adopted(p, i).cwd
<1>4. reg'[p] = [reg[p] EXCEPT !.pc = "claim", !.id = id, !.cwd = cwd]
  BY <1>3 DEF TypeOK, RegOK
<1>5. id = i
  BY <1>2
<1> HIDE DEF id, cwd
<1>6. reg[p] \in RegRecords
  BY DEF TypeOK, RegOK
<1> QED BY <1>4, <1>5, <1>6 DEF RegRecords

\* ContinuityOK is inductive, given OneRowPerLivePane.
LEMMA ContinuityStep ==
    ASSUME TypeOK, BornOK, OneRowPerLivePane, ContinuityOK, [Next]_vars
    PROVE  ContinuityOK'
<1> SUFFICES ASSUME NEW p \in Panes, Live(p)', reg'[p].src = "fallback", NEW i \in RowsOf(p)',
                    agents'[i].pid = PidOf(p)', reg'[p].pc \in {"claim", "probe", "commit"}
             PROVE  /\ reg'[p].pc \in {"claim", "commit"} => reg'[p].id = i
                    /\ reg'[p].pc # "probe"
  BY DEF ContinuityOK, RowsOf, Registered, Live, PidOf
<1>1. ~RegCommit(p)
  BY DEF RegCommit, IdleReg, TypeOK, RegOK
<1>2. i \in RowsOf(p) /\ agents[i].pid = PidOf(p)
  BY <1>1, PidStep, GenStep
<1>3. i \in Ids /\ Registered(i) /\ agents[i].pane = p /\ p # NoPane
  BY <1>2, RegistryAssumption DEF RowsOf
<1>4. Live(p)
  BY <1>3, LiveStep DEF BornOK
<1>5. CASE reg'[p] = reg[p]
  BY <1>2, <1>4, <1>5 DEF ContinuityOK
<1>6. CASE HookTarget(p)
  <2>1. reg'[p].src = reg[p].src /\ reg'[p].pc = IF reg[p].src = "fallback" THEN "adopt" ELSE "claim"
    BY <1>6 DEF HookTarget, TypeOK, RegOK, RegRecords
  <2> QED BY <2>1
<1>7. CASE RegAdopt(p)
  BY <1>2, <1>4, <1>7, AdoptsOwn, AdoptStep
<1>8. CASE RegClaimant(p)
  <2>1. /\ reg[p].pc = "claim" /\ reg'[p].src = reg[p].src /\ reg'[p].id = reg[p].id
        /\ reg'[p].pc = IF Claimant(p) = NoPane THEN "commit" ELSE "probe"
    BY <1>8 DEF RegClaimant, TypeOK, RegOK, RegRecords
  <2>2. reg[p].id = i
    BY <1>2, <1>4, <2>1 DEF ContinuityOK
  <2>3. Claimant(p) = NoPane
    BY <1>3, <2>2 DEF Claimant
  <2> QED BY <2>1, <2>2, <2>3
<1>9. CASE RegProbe(p)
  <2>1. reg[p].pc = "probe" /\ reg[p] \in RegRecords
    BY <1>9 DEF RegProbe, TypeOK, RegOK
  <2>2. reg'[p].src = reg[p].src
    <3> DEFINE new  == [reg[p].id EXCEPT !.sfx = p]
               kept == [reg[p] EXCEPT !.pc = "commit", !.id = new]
               took == [reg[p] EXCEPT !.pc = "commit", !.evict = TRUE]
    <3>1. reg' = [reg EXCEPT ![p] = kept] \/ reg' = [reg EXCEPT ![p] = took]
      BY <1>9 DEF RegProbe
    <3>2. reg'[p] = kept \/ reg'[p] = took
      BY <3>1 DEF TypeOK, RegOK
    <3> HIDE DEF new
    <3> QED BY <2>1, <3>2 DEF RegRecords
  <2> QED BY <1>2, <1>4, <2>1, <2>2 DEF ContinuityOK
<1> QED BY <1>5, <1>6, <1>7, <1>8, <1>9, StageStep

\* WeakIdStable, as long as tmux answers the hooks that ask for an address:
\* a row of the same process is found, adopted and written again.
THEOREM WeakIdStableAlways ==
    ASSUME "blind" \notin Events
    PROVE  Spec => WeakIdStable
<1>1. Init => ContinuityOK
  BY DEF Init, ContinuityOK, Live
<1>2. TypeOK /\ BornOK /\ OneRowPerLivePane /\ ContinuityOK /\ [Next]_vars => ContinuityOK'
  BY ContinuityStep
<1>3. TypeOK /\ ContinuityOK /\ [Next]_vars =>
        [\A p \in Panes : Commits(p) /\ reg[p].src = "fallback" =>
           \A i \in RowsOf(p) : agents[i].pid = PidOf(p) => ~Loses(p, i)]_agents
  <2> SUFFICES ASSUME TypeOK, ContinuityOK, [Next]_vars, NEW p \in Panes, Commits(p),
                      reg[p].src = "fallback", NEW i \in RowsOf(p), agents[i].pid = PidOf(p),
                      Loses(p, i)
               PROVE  FALSE
    OBVIOUS
  <2>1. RegCommit(p) /\ reg[p].pc = "commit"
    BY CommitsIs DEF Commits
  <2>2. i \in Ids /\ reg[p].id = i
    BY <2>1 DEF ContinuityOK, Loses, RowsOf
  <2>3. agents'[i].pane = p /\ agents'[i] \in Rows
    <3> DEFINE row == [pane |-> p, target |-> reg[p].target, cwd |-> reg[p].cwd, pid |-> PidOf(p)]
    <3>1. agents'[i] = row
      BY <2>1, <2>2 DEF RegCommit, Insert
    <3>2. row \in Rows
      BY <2>1, AskingType, PidType DEF Asking, Rows, MaybePane, TypeOK, RegOK, RegRecords
    <3> QED BY <3>1, <3>2
  <2> QED BY <2>3, RegistryAssumption DEF Loses
<1> QED BY <1>1, <1>2, <1>3, TypeCorrect, BornAlways, OneRowAlways, PTL DEF Spec, WeakIdStable

-----------------------------------------------------------------------------
(***************************************************************************)
(* Reconciliation                                                          *)
(***************************************************************************)

\* Only list_agents probes and prunes, and a pass that is over has named no
\* row; a row it has named or will probe under another pane, and a row of a
\* pane its snapshot misses, is no live pane's, unless registered since.
PassOK ==
    \A r \in Reconcilers :
        /\ rec[r].pc = "idle" => rec[r].dead = {} /\ rec[r].todo = {}
        /\ rec[r].pc \in {"prune", "probe", "delete"} => r = "list_agents"
        /\ \A q \in Panes : Live(q) /\ q \notin fresh[r] => \A i \in RowsOf(q) :
              /\ i \notin rec[r].dead
              /\ \A c \in rec[r].todo : c.id = i => c.pane = q
              /\ rec[r].pc = "select" => rec[r].snap[q] # NoAddr

\* Once list_agents has refreshed the addresses, only a pane that registered
\* since has a row without one; before, such rows are among its UPDATEs.
Mended(r, q) ==
    Live(q) /\ q \notin fresh[r] => \A i \in RowsOf(q) :
        /\ rec[r].pc \in {"prune", "probe"} => agents[i].target # NoAddr
        /\ rec[r].pc = "apply" => agents[i].target # NoAddr \/ \E u \in rec[r].upd : u[1] = i
PassMends == \A r \in Reconcilers, q \in Panes : Mended(r, q)

\* A live pane that had no row before the step gets one by its own commit.
LEMMA RowStep ==
    ASSUME TypeOK, BornOK, [Next]_vars, NEW q \in Panes, Live(q)', NEW i \in RowsOf(q)'
    PROVE  Live(q) /\ (RegCommit(q) \/ i \in RowsOf(q))
<1>1. RegCommit(q) \/ i \in RowsOf(q)
  BY PidStep
<1>2. q \in born
  BY <1>1, RegistryAssumption DEF BornOK, RegCommit, RowsOf
<1> QED BY <1>1, <1>2, LiveStep

\* An UPDATE gives a row an address, and takes none away.
LEMMA ApplyTargets ==
    ASSUME TypeOK, NEW r \in Reconcilers, RecApply(r), NEW i \in Ids, Registered(i)',
           agents[i].target # NoAddr \/ \E u \in rec[r].upd : u[1] = i
    PROVE  agents'[i].target # NoAddr
<1>1. agents' = Refreshed(rec[r].upd, rec[r].dead)
  BY DEF RecApply
<1>2. i \notin rec[r].dead /\ Registered(i)
  BY <1>1 DEF Refreshed, Registered
<1>3. agents[i] \in Rows
  BY <1>2 DEF Registered, TypeOK, TableOK
<1>4. CASE \E u \in rec[r].upd : u[1] = i
  <2>1. PICK u \in rec[r].upd : u = CHOOSE v \in rec[r].upd : v[1] = i
    BY <1>4
  <2>2. u[2] \in Addrs
    BY DEF TypeOK, RecOK, RecRecords
  <2>3. agents'[i] = [agents[i] EXCEPT !.target = u[2]]
    BY <1>1, <1>2, <1>4, <2>1 DEF Refreshed
  <2> QED BY <1>3, <2>2, <2>3, RegistryAssumption DEF Rows
<1>5. CASE ~\E u \in rec[r].upd : u[1] = i
  <2>1. agents'[i] = agents[i]
    BY <1>1, <1>2, <1>5 DEF Refreshed
  <2> QED BY <1>5, <2>1
<1> QED BY <1>4, <1>5

\* While a pass is under way, every commit is noted.
LEMMA PassFresh ==
    ASSUME TypeOK, [Next]_vars, NEW r \in Reconcilers, rec[r].pc # "idle"
    PROVE  /\ fresh[r] \subseteq fresh'[r]
           /\ \A q \in Panes : RegCommit(q) => q \in fresh'[r]
<1>1. r \notin Panes
  BY RegistryAssumption
<1>2. ASSUME NEW q \in Panes, RegCommit(q)
      PROVE  fresh'[r] = fresh[r] \cup {q}
  BY <1>1, <1>2 DEF RegCommit, Observing, TypeOK, FreshOK
<1>3. ASSUME NEW q \in Panes, RegClaimant(q) PROVE fresh'[r] = fresh[r]
  BY <1>1, <1>3 DEF RegClaimant, TypeOK, FreshOK
<1>4. ASSUME NEW o \in Reconcilers, RecSnapshot(o) PROVE fresh'[r] = fresh[r]
  BY <1>4 DEF RecSnapshot, TypeOK, FreshOK
<1>5. CASE /\ \A q \in Panes : ~RegCommit(q) /\ ~RegClaimant(q)
           /\ \A o \in Reconcilers : ~RecSnapshot(o)
  <2>1. fresh' = fresh
    BY <1>5
    DEF Next, PaneStep, RegStep, UnregStep, RecStep, ReIndex, NewPane, KillPane, StartRuntime,
        SessionEnd, CrashRuntime, HookResolve, RegTimeout, HookKilled, McpRegister, McpUnregister,
        HookTarget, RegAdopt, RegProbe, RegPublish, RegSweep, UnregRead, UnregDelete, RecSelect,
        RecApply, PruneSelect, PruneProbe, PruneSelectPids, PruneDelete, PrunePids, vars
  <2> QED BY <1>5, <2>1
<1>6. fresh[r] \subseteq fresh'[r]
  BY <1>2, <1>3, <1>4, <1>5
<1> QED BY <1>2, <1>6

\* A pass is moved on by its own steps only.
LEMMA RecStepOf ==
    ASSUME TypeOK, [Next]_vars, NEW r \in Reconcilers
    PROVE  rec'[r] = rec[r] \/ RecSnapshot(r) \/ RecStep(r)
<1>1. ASSUME NEW o \in Reconcilers, o # r, RecSnapshot(o) \/ RecStep(o)
      PROVE  rec'[r] = rec[r]
  BY <1>1
  DEF RecSnapshot, RecStep, RecSelect, RecApply, PruneSelect, PruneProbe, PruneSelectPids,
      PruneDelete, PrunePids, TypeOK, RecOK
<1>2. CASE \A o \in Reconcilers : ~(RecSnapshot(o) \/ RecStep(o))
  <2>1. rec' = rec
    BY <1>2
    DEF Next, PaneStep, RegStep, UnregStep, ReIndex, NewPane, KillPane, StartRuntime, SessionEnd,
        CrashRuntime, HookResolve, RegTimeout, HookKilled, McpRegister, McpUnregister, HookTarget,
        RegAdopt, RegClaimant, RegProbe, RegCommit, RegPublish, RegSweep, UnregRead, UnregDelete,
        vars
  <2> QED BY <2>1
<1> QED BY <1>1, <1>2

\* The part of PassOK about pane q and the rows it has.
Spares(r, q) ==
    Live(q) /\ q \notin fresh[r] => \A i \in RowsOf(q) :
        /\ i \notin rec[r].dead
        /\ \A c \in rec[r].todo : c.id = i => c.pane = q
        /\ rec[r].pc = "select" => rec[r].snap[q] # NoAddr

\* The rows bus-prune.sh calls dead.
LEMMA SelectSpares ==
    ASSUME TypeOK, PassOK, NEW r \in Reconcilers, RecSelect(r), NEW q \in Panes
    PROVE  Spares(r, q)'
<1> SUFFICES ASSUME Live(q), q \notin fresh[r], NEW i \in RowsOf(q)
             PROVE  i \notin rec'[r].dead /\ rec'[r].todo = {} /\ rec'[r].pc # "select"
  BY DEF Spares, RecSelect, tmux, Live, RowsOf, Registered
<1>1. rec'[r] = [IdleRec EXCEPT
         !.pc = IF Drifted(rec[r].snap) = {} /\ (IF r = "bus_prune" THEN Gone(rec[r].snap) ELSE {}) = {}
                THEN AfterApply(r) ELSE "apply",
         !.upd = Drifted(rec[r].snap),
         !.dead = IF r = "bus_prune" THEN Gone(rec[r].snap) ELSE {}]
  BY DEF RecSelect, TypeOK, RecOK
<1>2. rec'[r].todo = {} /\ rec'[r].pc # "select" /\ rec'[r].dead \subseteq Gone(rec[r].snap)
  BY <1>1 DEF IdleRec, AfterApply
<1>3. agents[i].pane = q /\ q # NoPane /\ rec[r].snap[q] # NoAddr
  BY RegistryAssumption DEF RowsOf, RecSelect, PassOK
<1>4. i \notin Gone(rec[r].snap)
  BY <1>3 DEF Gone
<1> QED BY <1>2, <1>4

\* The candidates, and what becomes of one.
LEMMA ProbeSpares ==
    ASSUME "flaky" \notin Events \/ "list_agents" \notin Reconcilers,
           TypeOK, PassOK, NEW r \in Reconcilers, PruneSelect(r) \/ PruneProbe(r), NEW q \in Panes
    PROVE  Spares(r, q)'
<1> SUFFICES ASSUME Live(q), q \notin fresh[r], NEW i \in RowsOf(q)
             PROVE  /\ i \notin rec'[r].dead /\ rec'[r].pc # "select"
                    /\ \A c \in rec'[r].todo : c.id = i => c.pane = q
  BY DEF Spares, PruneSelect, PruneProbe, tmux, Live, RowsOf, Registered
<1>1. i \in Ids /\ agents[i].pane = q /\ q # NoPane
  BY RegistryAssumption DEF RowsOf
<1>2. CASE PruneSelect(r)
  <2>1. rec'[r].dead = {} /\ rec'[r].todo = Candidates /\ rec'[r].pc = "probe"
    BY <1>2 DEF PruneSelect, IdleRec, TypeOK, RecOK
  <2> QED BY <1>1, <2>1 DEF Candidates
<1>3. CASE PruneProbe(r)
  <2>1. PICK c \in rec[r].todo :
           \/ rec' = [rec EXCEPT ![r].todo = @ \ {c}]
           \/ /\ CandidateDead(c)
              /\ rec' = [rec EXCEPT ![r].todo = @ \ {c}, ![r].dead = @ \cup {c.id}]
    BY <1>3 DEF PruneProbe
  <2>2. rec[r].pc = "probe" /\ rec[r] \in RecRecords
    BY <1>3 DEF PruneProbe, TypeOK, RecOK
  <2>3. "flaky" \notin Events
    BY <2>2 DEF PassOK
  <2>4. CandidateDead(c) => c.id # i
    BY <1>1, <2>3 DEF CandidateDead, SeenDead, PassOK
  <2>5. /\ rec'[r].pc = "probe" /\ rec'[r].todo \subseteq rec[r].todo
        /\ \/ rec'[r].dead = rec[r].dead
           \/ CandidateDead(c) /\ rec'[r].dead = rec[r].dead \cup {c.id}
    <3>1. CASE rec' = [rec EXCEPT ![r].todo = @ \ {c}]
      BY <2>2, <3>1 DEF TypeOK, RecOK, RecRecords
    <3>2. CASE /\ CandidateDead(c)
               /\ rec' = [rec EXCEPT ![r].todo = @ \ {c}, ![r].dead = @ \cup {c.id}]
      BY <2>2, <3>2 DEF TypeOK, RecOK, RecRecords
    <3> QED BY <2>1, <3>1, <3>2
  <2> QED BY <2>4, <2>5 DEF PassOK
<1> QED BY <1>2, <1>3

\* The rows without an address.
LEMMA OrphansSpare ==
    ASSUME TypeOK, PassMends, PassOK, NEW r \in Reconcilers, PruneSelectPids(r), NEW q \in Panes
    PROVE  Spares(r, q)'
<1> SUFFICES ASSUME Live(q), q \notin fresh[r], NEW i \in RowsOf(q)
             PROVE  i \notin rec'[r].dead /\ rec'[r].todo = {} /\ rec'[r].pc # "select"
  BY DEF Spares, PruneSelectPids, tmux, Live, RowsOf, Registered
<1>1. rec'[r].todo = {} /\ rec'[r].pc = "delete" /\ rec'[r].dead = rec[r].dead \cup Orphans
  BY DEF PruneSelectPids, IdleRec, TypeOK, RecOK
<1>2. i \notin Orphans
  BY DEF Orphans, PassMends, Mended, PruneSelectPids
<1>3. i \notin rec[r].dead
  BY DEF PassOK
<1> QED BY <1>1, <1>2, <1>3

\* Which step of its pass put it where it is.
LEMMA PassStage ==
    ASSUME TypeOK, PassOK, [Next]_vars, NEW r \in Reconcilers
    PROVE  /\ rec'[r].pc = "idle" => rec'[r].dead = {} /\ rec'[r].todo = {}
           /\ rec'[r].pc \in {"prune", "probe", "delete"} => r = "list_agents"
<1>1. CASE rec'[r] = rec[r]
  BY <1>1 DEF PassOK
<1>2. CASE RecSnapshot(r)
  BY <1>2 DEF RecSnapshot, AfterApply, IdleRec, TypeOK, RecOK
<1>3. CASE RecSelect(r)
  <2>1. rec'[r].pc \in {AfterApply(r), "apply"}
    BY <1>3 DEF RecSelect, IdleRec, TypeOK, RecOK
  <2> QED BY <2>1 DEF AfterApply
<1>4. CASE RecApply(r)
  BY <1>4 DEF RecApply, AfterApply, IdleRec, TypeOK, RecOK
<1>5. CASE PruneSelect(r) \/ PruneSelectPids(r)
  <2>1. r = "list_agents"
    BY <1>5 DEF PruneSelect, PruneSelectPids, PassOK
  <2>2. CASE PruneSelect(r)
    BY <2>1, <2>2 DEF PruneSelect, IdleRec, TypeOK, RecOK
  <2>3. CASE PruneSelectPids(r)
    BY <2>1, <2>3 DEF PruneSelectPids, IdleRec, TypeOK, RecOK
  <2> QED BY <1>5, <2>2, <2>3
<1>6. CASE PruneProbe(r)
  <2>1. rec[r].pc = "probe" /\ rec[r] \in RecRecords
    BY <1>6 DEF PruneProbe, TypeOK, RecOK
  <2>2. rec'[r].pc = "probe"
    BY <1>6, <2>1 DEF PruneProbe, TypeOK, RecOK, RecRecords
  <2> QED BY <2>1, <2>2 DEF PassOK
<1>7. CASE PruneDelete(r) \/ PrunePids(r)
  BY <1>7 DEF PruneDelete, PrunePids, IdleRec, TypeOK, RecOK
<1> QED BY <1>1, <1>2, <1>3, <1>4, <1>5, <1>6, <1>7, RecStepOf DEF RecStep

\* PassMends is inductive beside PassOK: a pane its snapshot has seen is one
\* whose row the pass gives that address.
LEMMA MendsStep ==
    ASSUME "flaky" \notin Events \/ "list_agents" \notin Reconcilers,
           TypeOK, BornOK, PassOK, PassMends, [Next]_vars
    PROVE  PassMends'
<1> SUFFICES ASSUME NEW r \in Reconcilers, NEW q \in Panes,
                    Live(q)', q \notin fresh'[r], NEW i \in RowsOf(q)'
             PROVE  /\ rec'[r].pc \in {"prune", "probe"} => agents'[i].target # NoAddr
                    /\ rec'[r].pc = "apply" => \/ agents'[i].target # NoAddr
                                              \/ \E u \in rec'[r].upd : u[1] = i
  BY DEF PassMends, Mended, Live, RowsOf, Registered
<1>1. i \in Ids /\ Registered(i)'
  BY DEF RowsOf, Registered
<1>2. ASSUME rec[r].pc # "idle"
      PROVE  /\ Live(q) /\ q \notin fresh[r] /\ i \in RowsOf(q)
             /\ agents'[i] = agents[i] \/ \E o \in Reconcilers : RecApply(o)
  <2>1. q \notin fresh[r] /\ ~RegCommit(q)
    BY <1>2, PassFresh
  <2> QED BY <2>1, RowStep, RowKept
<1>3. CASE rec'[r] = rec[r] /\ rec[r].pc # "idle"
  <2>1. agents[i].target # NoAddr => agents'[i].target # NoAddr
    BY <1>1, <1>2, <1>3, ApplyTargets
  <2> QED BY <1>2, <1>3, <2>1 DEF PassMends, Mended
<1>4. CASE RecSnapshot(r)
  <2>1. rec'[r].pc = "select" \/ (rec'[r].pc = AfterApply(r) /\ "flaky" \in Events)
    BY <1>4 DEF RecSnapshot, IdleRec, TypeOK, RecOK
  <2> QED BY <2>1 DEF AfterApply
<1>5. CASE RecSelect(r)
  <2>1. /\ rec'[r].upd = Drifted(rec[r].snap)
        /\ rec'[r].pc = "apply" \/ Drifted(rec[r].snap) = {}
        /\ rec'[r].pc \in {"apply", AfterApply(r)}
    <3>1. PICK upd : upd = Drifted(rec[r].snap)
      OBVIOUS
    <3>2. PICK dead : dead = IF r = "bus_prune" THEN Gone(rec[r].snap) ELSE {}
      OBVIOUS
    <3>3. PICK pc : pc = IF upd = {} /\ dead = {} THEN AfterApply(r) ELSE "apply"
      OBVIOUS
    <3>4. rec' = [rec EXCEPT ![r] = [IdleRec EXCEPT !.pc = pc, !.upd = upd, !.dead = dead]]
      BY <1>5, <3>1, <3>2, <3>3 DEF RecSelect
    <3>5. rec'[r] = [IdleRec EXCEPT !.pc = pc, !.upd = upd, !.dead = dead]
      BY <3>4 DEF TypeOK, RecOK
    <3>6. rec'[r].pc = pc /\ rec'[r].upd = upd
      BY <3>5 DEF IdleRec
    <3> QED BY <3>1, <3>3, <3>6
  <2>2. rec[r].pc = "select" /\ agents' = agents
    BY <1>5 DEF RecSelect
  <2>3. i \in RowsOf(q) /\ rec[r].snap[q] # NoAddr
    BY <1>2, <2>2 DEF PassOK
  <2>4. agents[i].target = NoAddr => <<i, rec[r].snap[q]>> \in Drifted(rec[r].snap)
    BY <1>1, <2>3, RegistryAssumption DEF Drifted, RowsOf
  <2> QED BY <2>1, <2>2, <2>4
<1>6. CASE RecApply(r)
  <2>1. rec[r].pc = "apply" /\ rec'[r].pc # "apply"
    BY <1>6 DEF RecApply, AfterApply, IdleRec, TypeOK, RecOK
  <2> QED BY <1>1, <1>2, <1>6, <2>1, ApplyTargets DEF PassMends, Mended
<1>7. CASE PruneSelect(r) \/ PruneProbe(r)
  <2>1. rec[r].pc \in {"prune", "probe"} /\ agents' = agents
    BY <1>7 DEF PruneSelect, PruneProbe
  <2>2. rec'[r].pc # "apply"
    <3>1. CASE PruneSelect(r)
      BY <3>1 DEF PruneSelect, IdleRec, TypeOK, RecOK
    <3>2. CASE PruneProbe(r)
      BY <3>2 DEF PruneProbe, TypeOK, RecOK, RecRecords
    <3> QED BY <1>7, <3>1, <3>2
  <2> QED BY <1>2, <2>1, <2>2 DEF PassMends, Mended
<1>8. CASE PruneSelectPids(r) \/ PruneDelete(r) \/ PrunePids(r)
  <2>1. rec'[r].pc \in {"delete", "idle"}
    <3>1. CASE PruneSelectPids(r)
      BY <3>1 DEF PruneSelectPids, IdleRec, TypeOK, RecOK
    <3>2. CASE PruneDelete(r) \/ PrunePids(r)
      BY <3>2 DEF PruneDelete, PrunePids, IdleRec, TypeOK, RecOK
    <3> QED BY <1>8, <3>1, <3>2
  <2> QED BY <2>1
<1> QED BY <1>3, <1>4, <1>5, <1>6, <1>7, <1>8, RecStepOf DEF RecStep

\* Without a failing or slow list-panes call, or without list_agents, whose
\* probes are the calls that matter, PassOK is inductive.
LEMMA PassStep ==
    ASSUME "flaky" \notin Events \/ "list_agents" \notin Reconcilers,
           TypeOK, BornOK, PassMends, PassOK, [Next]_vars
    PROVE  PassOK'
<1> SUFFICES ASSUME NEW r \in Reconcilers, NEW q \in Panes PROVE Spares(r, q)'
  BY PassStage DEF PassOK, Spares, Live, RowsOf, Registered
<1>1. CASE rec'[r] = rec[r]
  <2> SUFFICES ASSUME Live(q)', q \notin fresh'[r], NEW i \in RowsOf(q)'
               PROVE  /\ i \notin rec[r].dead
                      /\ \A c \in rec[r].todo : c.id = i => c.pane = q
                      /\ rec[r].pc = "select" => rec[r].snap[q] # NoAddr
    BY <1>1 DEF Spares, Live, RowsOf, Registered
  <2>1. CASE rec[r].pc = "idle"
    BY <2>1 DEF PassOK
  <2>2. CASE rec[r].pc # "idle"
    <3>1. q \notin fresh[r] /\ ~RegCommit(q)
      BY <2>2, PassFresh
    <3>2. Live(q) /\ i \in RowsOf(q)
      BY <3>1, RowStep
    <3> QED BY <3>1, <3>2 DEF PassOK
  <2> QED BY <2>1, <2>2
<1>2. CASE RecSnapshot(r)
  <2>1. /\ rec'[r].dead = {} /\ rec'[r].todo = {}
        /\ rec'[r].pc = "select" => rec'[r].snap = addr
    BY <1>2 DEF RecSnapshot, AfterApply, IdleRec, TypeOK, RecOK
  <2>2. Live(q)' => addr[q] # NoAddr
    BY <1>2 DEF RecSnapshot, tmux, Live
  <2> QED BY <2>1, <2>2 DEF Spares
<1>3. CASE RecApply(r) \/ PruneDelete(r) \/ PrunePids(r)
  <2>1. rec'[r].dead = {} /\ rec'[r].todo = {} /\ rec'[r].pc # "select"
    BY <1>3 DEF RecApply, PruneDelete, PrunePids, AfterApply, IdleRec, TypeOK, RecOK
  <2> QED BY <2>1 DEF Spares
<1> QED BY <1>1, <1>2, <1>3, RecStepOf, SelectSpares, ProbeSpares, OrphansSpare DEF RecStep

\* ReconcileSparesLivePanes, as long as list-panes answers list_agents: what a pass deletes is
\* the row of no live pane, unless that pane registered since the pass began.
THEOREM ReconcileSparesAlways ==
    ASSUME "flaky" \notin Events \/ "list_agents" \notin Reconcilers
    PROVE  Spec => ReconcileSparesLivePanes
<1>1. Init => PassMends /\ PassOK
  BY DEF Init, PassMends, Mended, PassOK, Live, IdleRec
<1>2. TypeOK /\ BornOK /\ PassMends /\ PassOK /\ [Next]_vars => PassMends' /\ PassOK'
  BY MendsStep, PassStep
<1>3. TypeOK /\ PassOK /\ [Next]_vars =>
        [\A r \in Reconcilers : Reconciles(r) =>
           \A q \in Panes, i \in Ids :
              Loses(q, i) /\ agents[i].target # NoAddr => q \in fresh[r]]_agents
  <2> SUFFICES ASSUME TypeOK, PassOK, [Next]_vars, NEW r \in Reconcilers, Reconciles(r),
                      NEW q \in Panes, NEW i \in Ids, Loses(q, i), q \notin fresh[r]
               PROVE  FALSE
    OBVIOUS
  <2>1. Live(q) /\ i \in RowsOf(q) /\ Registered(i) /\ agents[i].pane = q
    BY DEF Loses, RowsOf
  <2>2. i \notin rec[r].dead
    BY <2>1 DEF PassOK
  <2>3. agents' # agents
    BY <2>1, RegistryAssumption DEF Loses, Registered
  <2>4. CASE RecApply(r)
    <3>1. agents[i] \in Rows /\ NoRow \notin Rows
      BY <2>1, RegistryAssumption DEF Registered, TypeOK, TableOK
    <3>2. CASE \E u \in rec[r].upd : u[1] = i
      <4>1. PICK u \in rec[r].upd : u = CHOOSE v \in rec[r].upd : v[1] = i
        BY <3>2
      <4>2. u[2] \in MaybeAddr
        BY DEF TypeOK, RecOK, RecRecords, MaybeAddr
      <4>3. agents'[i] = [agents[i] EXCEPT !.target = u[2]]
        BY <2>1, <2>2, <2>4, <3>2, <4>1 DEF RecApply, Refreshed
      <4>4. agents'[i] \in Rows /\ agents'[i].pane = q
        BY <2>1, <3>1, <4>2, <4>3 DEF Rows
      <4> QED BY <3>1, <4>4 DEF Loses
    <3>3. CASE ~\E u \in rec[r].upd : u[1] = i
      <4>1. agents'[i] = agents[i]
        BY <2>1, <2>2, <2>4, <3>3 DEF RecApply, Refreshed
      <4> QED BY <2>1, <4>1 DEF Loses, Registered
    <3> QED BY <3>2, <3>3
  <2>5. CASE PruneDelete(r)
    BY <2>1, <2>2, <2>5 DEF PruneDelete, Without, Loses, Registered
  <2>6. CASE RecSnapshot(r) \/ RecSelect(r) \/ PruneSelect(r) \/ PruneProbe(r)
               \/ PruneSelectPids(r) \/ PrunePids(r)
    BY <2>3, <2>6
    DEF RecSnapshot, RecSelect, PruneSelect, PruneProbe, PruneSelectPids, PrunePids
  <2> QED BY <2>4, <2>5, <2>6, RecStepOf DEF Reconciles, RecStep
<1> QED
  BY <1>1, <1>2, <1>3, TypeCorrect, BornAlways, PTL DEF Spec, ReconcileSparesLivePanes

-----------------------------------------------------------------------------
(***************************************************************************)
(* The pids/ directory                                                     *)
(***************************************************************************)

\* Runtimes run in live panes, and no process has a pid file before it runs.
PidsOK ==
    /\ \A p \in running : Live(p)
    /\ \A p \in Panes : \A g \in 0 .. MaxGen : g > gen[p] => pidFile[<<p, g>>] = NoId

\* A registered process's pid file is about to get, or has, the row's id.
PidFileOK ==
    \A p \in running : \A i \in RowsOf(p) : agents[i].pid = PidOf(p) =>
        IF reg[p].pc = "publish" THEN reg[p].id = i ELSE pidFile[PidOf(p)] \in {i, NoId}

\* A runtime that is up was up, as the same process, or is started.
LEMMA StartStep ==
    ASSUME TypeOK, [Next]_vars, NEW p \in running'
    PROVE  p \in Panes /\ (StartRuntime(p) \/ (p \in running /\ gen'[p] = gen[p]))
<1>1. ASSUME NEW q \in Panes, StartRuntime(q)
      PROVE  p \in Panes /\ (StartRuntime(p) \/ (p \in running /\ gen'[p] = gen[p]))
  BY <1>1 DEF StartRuntime, TypeOK, WorldOK
<1>2. CASE \A q \in Panes : ~StartRuntime(q)
  <2>1. running' \subseteq running /\ gen' = gen
    BY <1>2
    DEF Next, PaneStep, RegStep, UnregStep, RecStep, ReIndex, NewPane, KillPane, SessionEnd,
        CrashRuntime, HookResolve, RegTimeout, HookKilled, McpRegister, McpUnregister, HookTarget,
        RegAdopt, RegClaimant, RegProbe, RegCommit, RegPublish, RegSweep, UnregRead, UnregDelete,
        RecSnapshot, RecSelect, RecApply, PruneSelect, PruneProbe, PruneSelectPids, PruneDelete,
        PrunePids, vars, runtimes
  <2> QED BY <2>1 DEF TypeOK, WorldOK
<1> QED BY <1>1, <1>2

\* A pid file is removed, or written by its own process's hook.
LEMMA PidFileStep ==
    ASSUME TypeOK, [Next]_vars, NEW pid \in Pids
    PROVE  \/ pidFile'[pid] \in {pidFile[pid], NoId}
           \/ \E p \in Panes : RegPublish(p) /\ pid = PidOf(p) /\ pidFile'[pid] = reg[p].id
<1>1. ASSUME NEW p \in Panes, RegPublish(p)
      PROVE  pidFile'[pid] = pidFile[pid] \/ (pid = PidOf(p) /\ pidFile'[pid] = reg[p].id)
  BY <1>1 DEF RegPublish, TypeOK, TableOK
<1>2. ASSUME NEW p \in Panes, RegSweep(p) PROVE pidFile'[pid] \in {pidFile[pid], NoId}
  BY <1>2 DEF RegSweep, Swept
<1>3. ASSUME NEW p \in Panes, UnregRead(p) PROVE pidFile'[pid] \in {pidFile[pid], NoId}
  BY <1>3 DEF UnregRead, TypeOK, TableOK
<1>4. ASSUME NEW r \in Reconcilers, PrunePids(r) PROVE pidFile'[pid] \in {pidFile[pid], NoId}
  BY <1>4 DEF PrunePids, Swept
<1>5. CASE /\ \A p \in Panes : ~RegPublish(p) /\ ~RegSweep(p) /\ ~UnregRead(p)
           /\ \A r \in Reconcilers : ~PrunePids(r)
  <2>1. pidFile' = pidFile
    BY <1>5
    DEF Next, PaneStep, RegStep, UnregStep, RecStep, ReIndex, NewPane, KillPane, StartRuntime,
        SessionEnd, CrashRuntime, HookResolve, RegTimeout, HookKilled, McpRegister, McpUnregister,
        HookTarget, RegAdopt, RegClaimant, RegProbe, RegCommit, UnregDelete, RecSnapshot,
        RecSelect, RecApply, PruneSelect, PruneProbe, PruneSelectPids, PruneDelete, vars
  <2> QED BY <2>1
<1> QED BY <1>1, <1>2, <1>3, <1>4, <1>5

\* Only a pane's death takes its address, and its runtime with it.
LEMMA PidsStep ==
    ASSUME TypeOK, TypeOK', BornOK, PidsOK, [Next]_vars
    PROVE  PidsOK'
<1>1. ASSUME NEW p \in running' PROVE addr'[p] # NoAddr
  <2>1. p \in Panes /\ Live(p) /\ p \in born
    BY StartStep DEF PidsOK, StartRuntime, BornOK
  <2>2. CASE ReIndex
    BY <2>1, <2>2 DEF ReIndex, Live
  <2>3. CASE \E q \in Panes : NewPane(q)
    BY <2>1, <2>3 DEF NewPane, Live, TypeOK, WorldOK
  <2>4. ASSUME NEW q \in Panes, KillPane(q) PROVE addr'[p] # NoAddr
    <3>1. p # q
      BY <2>4 DEF KillPane
    <3> QED BY <2>1, <2>4, <3>1 DEF KillPane, Live, TypeOK, WorldOK
  <2>5. CASE ~ReIndex /\ \A q \in Panes : ~NewPane(q) /\ ~KillPane(q)
    <3>1. addr' = addr
      BY <2>5
      DEF Next, PaneStep, RegStep, UnregStep, RecStep, StartRuntime, SessionEnd, CrashRuntime,
          HookResolve, RegTimeout, HookKilled, McpRegister, McpUnregister, HookTarget, RegAdopt,
          RegClaimant, RegProbe, RegCommit, RegPublish, RegSweep, UnregRead, UnregDelete,
          RecSnapshot, RecSelect, RecApply, PruneSelect, PruneProbe, PruneSelectPids,
          PruneDelete, PrunePids, vars, tmux
    <3> QED BY <2>1, <3>1 DEF Live
  <2> QED BY <2>2, <2>3, <2>4, <2>5
<1>2. ASSUME NEW p \in Panes PROVE gen[p] \in 0 .. MaxGen /\ gen'[p] \in 0 .. MaxGen /\ gen'[p] >= gen[p]
  <2>1. ASSUME NEW q \in Panes, StartRuntime(q) PROVE gen'[p] >= gen[p]
    BY <2>1, RegistryAssumption DEF StartRuntime, TypeOK, WorldOK
  <2>2. CASE \A q \in Panes : ~StartRuntime(q)
    <3>1. gen' = gen
      BY <2>2
      DEF Next, PaneStep, RegStep, UnregStep, RecStep, ReIndex, NewPane, KillPane, SessionEnd,
          CrashRuntime, HookResolve, RegTimeout, HookKilled, McpRegister, McpUnregister,
          HookTarget, RegAdopt, RegClaimant, RegProbe, RegCommit, RegPublish, RegSweep, UnregRead,
          UnregDelete, RecSnapshot, RecSelect, RecApply, PruneSelect, PruneProbe,
          PruneSelectPids, PruneDelete, PrunePids, vars, runtimes
    <3> QED BY <3>1 DEF TypeOK, WorldOK
  <2> QED BY <2>1, <2>2 DEF TypeOK, WorldOK
<1>3. ASSUME NEW p \in Panes, NEW g \in 0 .. MaxGen, g > gen'[p]
      PROVE  pidFile'[<<p, g>>] = NoId
  <2>1. <<p, g>> \in Pids /\ g > gen[p]
    BY <1>2, <1>3, RegistryAssumption DEF Pids
  <2>2. pidFile[<<p, g>>] = NoId /\ \A q \in Panes : <<p, g>> # PidOf(q)
    BY <1>2, <2>1 DEF PidsOK, PidOf
  <2> QED BY <2>1, <2>2, PidFileStep
<1> QED BY <1>1, <1>3 DEF PidsOK, Live

\* PidFileOK is inductive, given Located and PidsOK.
LEMMA PidFileOKStep ==
    ASSUME "timeout" \notin Events, TypeOK, Located, PidsOK, PidFileOK, [Next]_vars
    PROVE  PidFileOK'
<1> SUFFICES ASSUME NEW p \in running', NEW i \in RowsOf(p)', agents'[i].pid = PidOf(p)'
             PROVE  IF reg'[p].pc = "publish" THEN reg'[p].id = i
                    ELSE pidFile'[PidOf(p)'] \in {i, NoId}
  BY DEF PidFileOK, RowsOf, Registered, PidOf
<1>0. p \in Panes
  BY StartStep
<1>1. CASE StartRuntime(p)
  <2>1. reg'[p].pc = "idle" /\ pidFile' = pidFile /\ gen'[p] = gen[p] + 1 /\ gen[p] < MaxGen
    BY <1>0, <1>1 DEF StartRuntime, TypeOK, WorldOK
  <2>2. pidFile[<<p, gen[p] + 1>>] = NoId
    BY <1>0, <2>1, RegistryAssumption DEF PidsOK, TypeOK, WorldOK
  <2> QED BY <2>1, <2>2 DEF PidOf
<1>2. CASE p \in running /\ gen'[p] = gen[p]
  <2>1. PidOf(p)' = PidOf(p) /\ PidOf(p) \in Pids /\ Live(p)
    BY <1>0, <1>2, PidType DEF PidOf, TypeOK, PidsOK
  <2>2. CASE RegCommit(p)
    <3>1. i = reg[p].id
      BY <1>0, <2>1, <2>2, CommitLeavesOne DEF Located, RegCommit
    <3>2. reg'[p].pc = "publish" /\ reg'[p].id = reg[p].id
      BY <1>0, <2>2 DEF RegCommit, IdleReg, TypeOK, RegOK
    <3> QED BY <3>1, <3>2
  <2>3. CASE ~RegCommit(p)
    <3>1. i \in RowsOf(p) /\ agents[i].pid = PidOf(p)
      BY <1>0, <2>1, <2>3, PidStep
    <3>2. IF reg[p].pc = "publish" THEN reg[p].id = i ELSE pidFile[PidOf(p)] \in {i, NoId}
      BY <1>2, <3>1 DEF PidFileOK
    <3>3. CASE RegPublish(p)
      BY <1>0, <2>1, <3>2, <3>3 DEF RegPublish, IdleReg, TypeOK, RegOK, TableOK
    <3>4. CASE ~RegPublish(p)
      <4>1. pidFile'[PidOf(p)] \in {pidFile[PidOf(p)], NoId}
        <5>1. \A q \in Panes : PidOf(q) = PidOf(p) => q = p
          BY DEF PidOf
        <5> QED BY <2>1, <3>4, <5>1, PidFileStep
      <4>2. ~RegTimeout(p) /\ ~HookKilled(p)
        BY <2>1 DEF RegTimeout, HookKilled, Dead
      <4>3. reg'[p] = reg[p] \/ (reg[p].pc # "publish" /\ reg'[p].pc # "publish")
        <5>1. HookResolve(p) => reg[p].pc # "publish" /\ reg'[p].pc # "publish"
          BY <1>0 DEF HookResolve, IdleReg, TypeOK, RegOK
        <5>2. HookTarget(p) => reg[p].pc # "publish" /\ reg'[p].pc # "publish"
          BY <1>0 DEF HookTarget, TypeOK, RegOK, RegRecords
        <5>3. RegAdopt(p) \/ RegProbe(p) => reg[p].pc # "publish" /\ reg'[p].pc # "publish"
          BY <1>0, AdoptStep, ProbeStep
        <5>4. RegClaimant(p) => reg[p].pc # "publish" /\ reg'[p].pc # "publish"
          BY <1>0 DEF RegClaimant, TypeOK, RegOK, RegRecords
        <5>5. RegSweep(p) => reg[p].pc # "publish" /\ reg'[p].pc # "publish"
          BY <1>0 DEF RegSweep, IdleReg, TypeOK, RegOK
        <5> QED
          BY <1>0, <2>3, <3>4, <4>2, <5>1, <5>2, <5>3, <5>4, <5>5, RegStepOf DEF RegStep
      <4> QED BY <2>1, <3>2, <4>1, <4>3
    <3> QED BY <3>3, <3>4
  <2> QED BY <2>2, <2>3
<1> QED BY <1>1, <1>2, StartStep

\* PidFileNamesRow, as long as tmux answers and no watchdog strikes between
\* a commit and the pid file: what a process signs with is its own row's id.
THEOREM PidFileNamesRowAlways ==
    ASSUME "blind" \notin Events, "timeout" \notin Events
    PROVE  Spec => []PidFileNamesRow
<1>1. Init => Located /\ PidsOK /\ PidFileOK
  BY DEF Init, Located, PidsOK, PidFileOK, IdleReg, Pids
<1>2. TypeOK /\ TypeOK' /\ BornOK /\ Located /\ PidsOK /\ PidFileOK /\ [Next]_vars
        => Located' /\ PidsOK' /\ PidFileOK'
  BY LocatedStep, PidsStep, PidFileOKStep
<1>3. PidFileOK => PidFileNamesRow
  BY DEF PidFileOK, PidFileNamesRow
<1> QED BY <1>1, <1>2, <1>3, TypeCorrect, BornAlways, PTL DEF Spec

=============================================================================
