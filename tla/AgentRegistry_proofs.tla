----------------------- MODULE AgentRegistry_proofs -----------------------
(***************************************************************************)
(* Theorems about AgentRegistry, for any number of panes, addresses,       *)
(* directories, re-indexings and runtimes.                                 *)
(***************************************************************************)
EXTENDS AgentRegistry, TLAPS

-----------------------------------------------------------------------------
(***************************************************************************)
(* Type correctness                                                        *)
(***************************************************************************)
\* A runtime is named by its pane and its number there.
LEMMA PidType == ASSUME WorldOK, NEW p \in Panes PROVE PidOf(p) \in Pids
BY DEF WorldOK, PidOf, Pids

\* canonical_agent_id makes an id of any address, known or not.
LEMMA CanonicalType ==
    ASSUME NEW cwd \in Cwds, NEW t \in MaybeAddr PROVE Canonical(cwd, t) \in Ids
BY DEF Canonical, Ids, MaybePane

\* A transaction of register() leaves a table.
LEMMA InsertType ==
    ASSUME TableOK, NEW i \in Ids, NEW row \in Rows, NEW gone
    PROVE  Insert(i, row, gone) \in [Ids -> Rows \cup {NoRow}]
BY DEF TableOK, Insert

\* A step of one pane's hook leaves the others' records alone.
LEMMA RegUpdate ==
    ASSUME RegOK, NEW p \in Panes, NEW new \in RegRecords,
           reg' = [reg EXCEPT ![p] = new]
    PROVE  RegOK'
BY DEF RegOK

\* A step of one reconciliation pass leaves the others' records alone.
LEMMA RecUpdate ==
    ASSUME RecOK, NEW r \in Reconcilers, NEW new \in RecRecords,
           rec' = [rec EXCEPT ![r] = new]
    PROVE  RecOK'
BY DEF RecOK

\* What a registration knows when it is not asking.
LEMMA IdleRegType ==
    /\ IdleReg \in RegRecords
    /\ [IdleReg EXCEPT !.pc = "sweep"] \in RegRecords
    /\ \A i \in Ids : [IdleReg EXCEPT !.pc = "publish", !.id = i] \in RegRecords
<1>1. IdleReg \in RegRecords
  BY DEF IdleReg, RegRecords, RegPcs, Asking, MaybeAddr, MaybePane
<1>2. [IdleReg EXCEPT !.pc = "sweep"] \in RegRecords
  BY DEF IdleReg, RegRecords, RegPcs, Asking, MaybeAddr, MaybePane
<1>3. ASSUME NEW i \in Ids
      PROVE  [IdleReg EXCEPT !.pc = "publish", !.id = i] \in RegRecords
  BY RegistryAssumption DEF IdleReg, RegRecords, RegPcs, Asking, MaybeAddr, MaybePane
<1> QED BY <1>1, <1>2, <1>3

\* What a pass knows between its SELECTs.
LEMMA IdleRecType ==
    /\ IdleRec \in RecRecords
    /\ \A pc \in RecPcs \ {"select"} : [IdleRec EXCEPT !.pc = pc] \in RecRecords
BY DEF IdleRec, RecRecords, RecPcs

\* A hook that is asking has an id, a directory, an address or none, and at
\* most a pane for a claimant.
LEMMA AskingType ==
    ASSUME RegOK, NEW p \in Panes, reg[p].pc \in Asking
    PROVE  /\ reg[p].id \in Ids
           /\ reg[p].cwd \in Cwds
           /\ reg[p].target \in MaybeAddr
           /\ reg[p].claimant \in MaybePane
BY DEF RegOK, RegRecords, Asking

\* sync_pane_addresses writes only addresses tmux printed.
LEMMA DriftedType ==
    ASSUME TableOK, NEW snap \in [Panes -> MaybeAddr]
    PROVE  Drifted(snap) \in SUBSET (Ids \X Addrs)
<1> SUFFICES ASSUME NEW i \in Ids, Registered(i), agents[i].pane # NoPane,
                    snap[agents[i].pane] # NoAddr
             PROVE  snap[agents[i].pane] \in Addrs
  BY DEF Drifted
<1>1. agents[i].pane \in Panes
  BY DEF TableOK, Registered, Rows, MaybePane
<1> QED BY <1>1 DEF MaybeAddr

\* prune_dead_agents probes only rows that have an address.
LEMMA CandidatesType ==
    ASSUME TableOK
    PROVE  Candidates \in SUBSET [id : Ids, pane : MaybePane, target : Addrs]
<1> SUFFICES ASSUME NEW i \in Ids, Registered(i), agents[i].target # NoAddr
             PROVE  agents[i].pane \in MaybePane /\ agents[i].target \in Addrs
  BY DEF Candidates
<1> QED BY DEF TableOK, Registered, Rows, MaybeAddr

\* The UPDATEs of a pass leave a table.
LEMMA RefreshedType ==
    ASSUME TableOK, NEW upd \in SUBSET (Ids \X Addrs), NEW gone
    PROVE  Refreshed(upd, gone) \in [Ids -> Rows \cup {NoRow}]
<1> SUFFICES ASSUME NEW i \in Ids
             PROVE  Refreshed(upd, gone)[i] \in Rows \cup {NoRow}
  BY DEF Refreshed
<1>1. CASE Registered(i) /\ \E u \in upd : u[1] = i
  <2> DEFINE a == (CHOOSE u \in upd : u[1] = i)[2]
  <2>1. (CHOOSE u \in upd : u[1] = i) \in upd
    BY <1>1
  <2>2. a \in Addrs
    BY <2>1
  <2>3. agents[i] \in Rows
    BY <1>1 DEF TableOK, Registered
  <2> HIDE DEF a
  <2>4. [agents[i] EXCEPT !.target = a] \in Rows
    BY <2>2, <2>3 DEF Rows, MaybeAddr
  <2> QED BY <1>1, <2>4 DEF Refreshed, a
<1>2. CASE ~(Registered(i) /\ \E u \in upd : u[1] = i)
  BY <1>2 DEF Refreshed, TableOK
<1> QED BY <1>1, <1>2

\* AgentRegistry.tla's TypeOK: no hook, tool call, pass or fault leaves the
\* shapes; in particular a hook that asks to register never asks with "no id"
\* or "no directory".
THEOREM TypeCorrect == Spec => []TypeOK
<1>1. Init => TypeOK
  <2> SUFFICES ASSUME Init PROVE TypeOK
    OBVIOUS
  <2>1. WorldOK /\ TableOK /\ FreshOK /\ UnregOK
    BY RegistryAssumption DEF Init, WorldOK, TableOK, FreshOK, UnregOK, IdleUnreg, MaybeAddr
  <2>2. RegOK /\ RecOK
    BY IdleRegType, IdleRecType DEF Init, RegOK, RecOK
  <2> QED BY <2>1, <2>2 DEF TypeOK
<1>2. TypeOK /\ [Next]_vars => TypeOK'
  <2> SUFFICES ASSUME TypeOK, [Next]_vars PROVE TypeOK'
    OBVIOUS
  <2>1. CASE ReIndex
    <3>1. WorldOK'
      BY <2>1, RegistryAssumption DEF ReIndex, TypeOK, WorldOK, MaybeAddr, tmux, runtimes
    <3> QED
      BY <2>1, <3>1
      DEF ReIndex, TypeOK, TableOK, RegOK, UnregOK, RecOK, FreshOK, tmux, runtimes
  <2>2. ASSUME NEW p \in Panes, NewPane(p) PROVE TypeOK'
    <3>1. WorldOK'
      <4>1. PICK a \in Addrs, c \in Cwds, stamped \in BOOLEAN :
              /\ addr' = [addr EXCEPT ![p] = a]
              /\ title' = [title EXCEPT ![p] = IF stamped THEN Canonical(c, a) ELSE NoId]
        BY <2>2 DEF NewPane
      <4>2. Canonical(c, a) \in Ids
        BY CanonicalType DEF MaybeAddr
      <4> QED BY <2>2, <4>1, <4>2 DEF NewPane, TypeOK, WorldOK, MaybeAddr, runtimes
    <3> QED
      BY <2>2, <3>1
      DEF NewPane, TypeOK, TableOK, RegOK, UnregOK, RecOK, FreshOK, tmux, runtimes
  <2>3. ASSUME NEW p \in Panes, KillPane(p) PROVE TypeOK'
    <3>1. WorldOK'
      BY <2>3, RegistryAssumption DEF KillPane, TypeOK, WorldOK, MaybeAddr, tmux, runtimes
    <3>2. UnregOK'
      BY <2>3, RegistryAssumption DEF KillPane, TypeOK, UnregOK
    <3> QED
      BY <2>3, <3>1, <3>2
      DEF KillPane, TypeOK, TableOK, RegOK, RecOK, FreshOK, tmux, runtimes
  <2>4. ASSUME NEW p \in Panes, StartRuntime(p) PROVE TypeOK'
    <3>1. WorldOK'
      BY <2>4, RegistryAssumption DEF StartRuntime, TypeOK, WorldOK, MaybeAddr, tmux, runtimes
    <3> QED
      BY <2>4, <3>1
      DEF StartRuntime, TypeOK, TableOK, RegOK, UnregOK, RecOK, FreshOK, tmux, runtimes
  <2>5. ASSUME NEW p \in Panes, SessionEnd(p) PROVE TypeOK'
    <3>1. WorldOK'
      BY <2>5, RegistryAssumption DEF SessionEnd, TypeOK, WorldOK, MaybeAddr, tmux, runtimes
    <3>2. UnregOK'
      BY <2>5, RegistryAssumption DEF SessionEnd, TypeOK, UnregOK
    <3> QED
      BY <2>5, <3>1, <3>2
      DEF SessionEnd, TypeOK, TableOK, RegOK, RecOK, FreshOK, tmux, runtimes
  <2>6. ASSUME NEW p \in Panes, CrashRuntime(p) PROVE TypeOK'
    <3>1. WorldOK'
      BY <2>6, RegistryAssumption DEF CrashRuntime, TypeOK, WorldOK, MaybeAddr, tmux, runtimes
    <3> QED
      BY <2>6, <3>1
      DEF CrashRuntime, TypeOK, TableOK, RegOK, UnregOK, RecOK, FreshOK, tmux, runtimes
  <2>7. ASSUME NEW p \in Panes, HookResolve(p) PROVE TypeOK'
    <3>1. RegOK'
      <4>1. PICK src \in Sources, cwd \in Cwds, here \in AddressRead(p) :
              /\ src = "pane_title" => title[p] # NoId
              /\ reg' = [reg EXCEPT ![p] =
                    [IdleReg EXCEPT !.pc = "target",
                                    !.id = IF src = "pane_title" THEN title[p]
                                           ELSE Canonical(cwd, here),
                                    !.src = src,
                                    !.cwd = cwd]]
        BY <2>7 DEF HookResolve
      <4>2. here \in MaybeAddr
        BY DEF AddressRead, TypeOK, WorldOK, MaybeAddr
      <4> DEFINE i == IF src = "pane_title" THEN title[p] ELSE Canonical(cwd, here)
      <4>3. i \in Ids /\ src \in SourceKinds
        BY <4>1, <4>2, CanonicalType, RegistryAssumption DEF TypeOK, WorldOK
      <4> HIDE DEF i
      <4>4. [IdleReg EXCEPT !.pc = "target", !.id = i, !.src = src, !.cwd = cwd] \in RegRecords
        BY <4>3, RegistryAssumption DEF IdleReg, RegRecords, RegPcs, Asking, MaybeAddr, MaybePane
      <4> QED BY <4>1, <4>4, RegUpdate DEF TypeOK, i
    <3> QED
      BY <2>7, <3>1
      DEF HookResolve, TypeOK, WorldOK, TableOK, UnregOK, RecOK, FreshOK, tmux, runtimes
  <2>8. ASSUME NEW p \in Panes, RegTimeout(p) PROVE TypeOK'
    <3>1. RegOK'
      BY <2>8, IdleRegType, RegUpdate DEF RegTimeout, TypeOK
    <3> QED
      BY <2>8, <3>1
      DEF RegTimeout, TypeOK, WorldOK, TableOK, UnregOK, RecOK, FreshOK, tmux, runtimes
  <2>9. ASSUME NEW p \in Panes, HookKilled(p) PROVE TypeOK'
    <3>1. RegOK'
      BY <2>9, IdleRegType, RegUpdate DEF HookKilled, TypeOK
    <3> QED
      BY <2>9, <3>1
      DEF HookKilled, TypeOK, WorldOK, TableOK, UnregOK, RecOK, FreshOK, tmux, runtimes
  <2>10. ASSUME NEW p \in Panes, McpRegister(p) PROVE TypeOK'
    <3>1. TableOK'
      <4>1. PICK cwd \in Cwds, t \in {addr[p], NoAddr} :
              \E i \in {Canonical(cwd, t), pidFile[PidOf(p)]} \ {NoId} :
                 agents' = Insert(i, [pane |-> NoPane, target |-> t, cwd |-> cwd, pid |-> PidOf(p)],
                                  Evicted(i, NoPane, t))
        BY <2>10 DEF McpRegister
      <4>2. PidOf(p) \in Pids
        BY PidType DEF TypeOK
      <4>3. t \in MaybeAddr
        BY DEF TypeOK, WorldOK, MaybeAddr
      <4>4. [pane |-> NoPane, target |-> t, cwd |-> cwd, pid |-> PidOf(p)] \in Rows
        BY <4>2, <4>3 DEF Rows, MaybePane
      <4>5. Canonical(cwd, t) \in Ids
        BY <4>3, CanonicalType
      <4>6. pidFile[PidOf(p)] \in Ids \cup {NoId}
        BY <4>2 DEF TypeOK, TableOK
      <4>7. agents' \in [Ids -> Rows \cup {NoRow}]
        BY <4>1, <4>4, <4>5, <4>6, InsertType DEF TypeOK
      <4> QED BY <2>10, <4>7 DEF McpRegister, TypeOK, TableOK
    <3> QED
      BY <2>10, <3>1
      DEF McpRegister, TypeOK, WorldOK, RegOK, UnregOK, RecOK, FreshOK, tmux, runtimes
  <2>11. ASSUME NEW p \in Panes, McpUnregister(p) PROVE TypeOK'
    <3>1. TableOK'
      BY <2>11, RegistryAssumption DEF McpUnregister, TypeOK, TableOK, Without
    <3> QED
      BY <2>11, <3>1
      DEF McpUnregister, TypeOK, WorldOK, RegOK, UnregOK, RecOK, FreshOK, tmux, runtimes
  <2>12. ASSUME NEW p \in Panes, HookTarget(p) PROVE TypeOK'
    <3>1. RegOK'
      <4>1. PICK here \in AddressRead(p) :
              reg' = [reg EXCEPT ![p] =
                        [@ EXCEPT !.pc = IF reg[p].src = "fallback" THEN "adopt" ELSE "claim",
                                  !.target = here]]
        BY <2>12 DEF HookTarget
      <4>2. here \in MaybeAddr
        BY DEF AddressRead, TypeOK, WorldOK, MaybeAddr
      <4>3. reg[p] \in RegRecords /\ reg[p].pc = "target"
        BY <2>12 DEF HookTarget, TypeOK, RegOK
      <4>4. \A pc \in {"adopt", "claim"} :
              [reg[p] EXCEPT !.pc = pc, !.target = here] \in RegRecords
        BY <4>2, <4>3 DEF RegRecords, RegPcs, Asking
      <4> QED BY <4>1, <4>4, RegUpdate DEF TypeOK
    <3> QED
      BY <2>12, <3>1
      DEF HookTarget, TypeOK, WorldOK, TableOK, UnregOK, RecOK, FreshOK, tmux, runtimes
  <2>13. ASSUME NEW p \in Panes, RegAdopt(p) PROVE TypeOK'
    <3>1. RegOK'
      <4>1. reg[p] \in RegRecords /\ reg[p].pc = "adopt"
        BY <2>13 DEF RegAdopt, TypeOK, RegOK
      <4>2. reg[p].id \in Ids /\ reg[p].cwd \in Cwds
        BY <4>1, AskingType DEF TypeOK, Asking
      <4>3. \A i \in Ids, c \in Cwds :
              [reg[p] EXCEPT !.pc = "claim", !.id = i, !.cwd = c] \in RegRecords
        BY <4>1, RegistryAssumption DEF RegRecords, RegPcs, Asking
      <4>4. CASE reg' = [reg EXCEPT ![p] = [@ EXCEPT !.pc = "claim"]]
        <5>1. [reg[p] EXCEPT !.pc = "claim"] \in RegRecords
          BY <4>1 DEF RegRecords, RegPcs, Asking
        <5> QED BY <4>4, <5>1, RegUpdate DEF TypeOK
      <4>5. ASSUME NEW i \in RowsOf(p),
                   reg' = [reg EXCEPT ![p] = [@ EXCEPT !.pc = "claim",
                                                       !.id = Adopted(p, i).id,
                                                       !.cwd = Adopted(p, i).cwd]]
            PROVE  RegOK'
        <5>1. i \in Ids /\ agents[i].cwd \in Cwds
          BY DEF RowsOf, Registered, TypeOK, TableOK, Rows
        <5>2. Adopted(p, i).id \in Ids /\ Adopted(p, i).cwd \in Cwds
          BY <4>2, <5>1 DEF Adopted
        <5> QED BY <4>3, <4>5, <5>2, RegUpdate DEF TypeOK
      <4> QED BY <2>13, <4>4, <4>5 DEF RegAdopt
    <3> QED
      BY <2>13, <3>1
      DEF RegAdopt, TypeOK, WorldOK, TableOK, UnregOK, RecOK, FreshOK, tmux, runtimes
  <2>14. ASSUME NEW p \in Panes, RegClaimant(p) PROVE TypeOK'
    <3>1. RegOK'
      <4>1. reg[p] \in RegRecords /\ reg[p].pc = "claim"
        BY <2>14 DEF RegClaimant, TypeOK, RegOK
      <4>2. reg[p].id \in Ids
        BY <4>1, AskingType DEF TypeOK, Asking
      <4>3. Claimant(p) \in MaybePane
        BY <4>2 DEF Claimant, Registered, TypeOK, TableOK, Rows, MaybePane
      <4>4. \A pc \in {"commit", "probe"}, c \in MaybePane :
              [reg[p] EXCEPT !.pc = pc, !.claimant = c] \in RegRecords
        BY <4>1 DEF RegRecords, RegPcs, Asking
      <4> QED BY <2>14, <4>3, <4>4, RegUpdate DEF RegClaimant, TypeOK
    <3>2. FreshOK'
      BY <2>14, RegistryAssumption DEF RegClaimant, TypeOK, FreshOK
    <3> QED
      BY <2>14, <3>1, <3>2
      DEF RegClaimant, TypeOK, WorldOK, TableOK, UnregOK, RecOK, tmux, runtimes
  <2>15. ASSUME NEW p \in Panes, RegProbe(p) PROVE TypeOK'
    <3>1. RegOK'
      <4>1. reg[p] \in RegRecords /\ reg[p].pc = "probe"
        BY <2>15 DEF RegProbe, TypeOK, RegOK
      <4>2. reg[p].id \in Ids
        BY <4>1, AskingType DEF TypeOK, Asking
      <4>3. [reg[p].id EXCEPT !.sfx = p] \in Ids
        BY <4>2 DEF Ids, MaybePane
      <4> DEFINE kept == [reg[p] EXCEPT !.pc = "commit", !.id.sfx = p]
                 took == [reg[p] EXCEPT !.pc = "commit", !.evict = TRUE]
      <4>4. kept \in RegRecords
        BY <4>1, <4>2, <4>3, RegistryAssumption DEF RegRecords, RegPcs, Asking
      <4>5. took \in RegRecords
        BY <4>1, <4>2, RegistryAssumption DEF RegRecords, RegPcs, Asking
      <4>6. \/ reg' = [reg EXCEPT ![p] = kept]
            \/ reg' = [reg EXCEPT ![p] = took]
        BY <2>15 DEF RegProbe
      <4> HIDE DEF kept, took
      <4>7. CASE reg' = [reg EXCEPT ![p] = kept]
        BY <4>4, <4>7, RegUpdate DEF TypeOK
      <4>8. CASE reg' = [reg EXCEPT ![p] = took]
        BY <4>5, <4>8, RegUpdate DEF TypeOK
      <4> QED BY <4>6, <4>7, <4>8
    <3> QED
      BY <2>15, <3>1
      DEF RegProbe, TypeOK, WorldOK, TableOK, UnregOK, RecOK, FreshOK, tmux, runtimes
  <2>16. ASSUME NEW p \in Panes, RegCommit(p) PROVE TypeOK'
    <3>1. TableOK'
      <4> DEFINE r   == reg[p]
                 row == [pane |-> p, target |-> r.target, cwd |-> r.cwd, pid |-> PidOf(p)]
      <4>1. PidOf(p) \in Pids
        BY PidType DEF TypeOK
      <4>2. r.id \in Ids /\ r.cwd \in Cwds /\ r.target \in MaybeAddr
        BY <2>16, AskingType DEF RegCommit, TypeOK, Asking
      <4>3. row \in Rows
        BY <4>1, <4>2 DEF Rows, MaybePane
      <4>4. \E gone : agents' = Insert(r.id, row, gone)
        BY <2>16 DEF RegCommit
      <4> HIDE DEF r, row
      <4>5. agents' \in [Ids -> Rows \cup {NoRow}]
        BY <4>2, <4>3, <4>4, InsertType DEF TypeOK
      <4> QED BY <2>16, <4>5 DEF RegCommit, TypeOK, TableOK
    <3>2. RegOK'
      BY <2>16, AskingType, IdleRegType, RegUpdate DEF RegCommit, TypeOK, Asking
    <3>3. FreshOK'
      BY <2>16, RegistryAssumption DEF RegCommit, TypeOK, FreshOK
    <3> QED
      BY <2>16, <3>1, <3>2, <3>3
      DEF RegCommit, TypeOK, WorldOK, UnregOK, RecOK, tmux, runtimes
  <2>17. ASSUME NEW p \in Panes, RegPublish(p) PROVE TypeOK'
    <3>1. TableOK'
      <4>1. reg[p].id \in Ids
        BY <2>17 DEF RegPublish, TypeOK, RegOK, RegRecords
      <4> QED BY <2>17, <4>1 DEF RegPublish, TypeOK, TableOK
    <3>2. RegOK'
      BY <2>17, IdleRegType, RegUpdate DEF RegPublish, TypeOK
    <3> QED
      BY <2>17, <3>1, <3>2
      DEF RegPublish, TypeOK, WorldOK, UnregOK, RecOK, FreshOK, tmux, runtimes
  <2>18. ASSUME NEW p \in Panes, RegSweep(p) PROVE TypeOK'
    <3>1. TableOK'
      <4>1. PidOf(p) \in Pids
        BY PidType DEF TypeOK
      <4>2. Swept \in [Pids -> Ids \cup {NoId}]
        BY DEF Swept, TypeOK, TableOK
      <4> QED BY <2>18, <4>1, <4>2 DEF RegSweep, TypeOK, TableOK
    <3>2. RegOK'
      BY <2>18, IdleRegType, RegUpdate DEF RegSweep, TypeOK
    <3> QED
      BY <2>18, <3>1, <3>2
      DEF RegSweep, TypeOK, WorldOK, UnregOK, RecOK, FreshOK, tmux, runtimes
  <2>19. ASSUME NEW p \in Panes, UnregRead(p) PROVE TypeOK'
    <3>1. TableOK'
      BY <2>19, RegistryAssumption DEF UnregRead, TypeOK, TableOK
    <3>2. UnregOK'
      <4>1. PICK i \in IF pidFile[PidOf(p)] # NoId THEN {pidFile[PidOf(p)]}
                       ELSE {NoId} \cup {Canonical(cwd, addr[p]) : cwd \in Cwds}
                                   \cup (IF Live(p) THEN {title[p]} ELSE {}) :
              unreg' = [unreg EXCEPT ![p] = [pc |-> "delete", id |-> i]]
        BY <2>19 DEF UnregRead
      <4>2. PidOf(p) \in Pids /\ addr[p] \in MaybeAddr /\ title[p] \in Ids \cup {NoId}
        BY PidType DEF TypeOK, WorldOK
      <4>3. pidFile[PidOf(p)] \in Ids \cup {NoId}
        BY <4>2 DEF TypeOK, TableOK
      <4>4. \A cwd \in Cwds : Canonical(cwd, addr[p]) \in Ids
        BY <4>2, CanonicalType
      <4>5. i \in Ids \cup {NoId}
        BY <4>1, <4>2, <4>3, <4>4
      <4> QED BY <4>1, <4>5 DEF TypeOK, UnregOK
    <3> QED
      BY <2>19, <3>1, <3>2
      DEF UnregRead, TypeOK, WorldOK, RegOK, RecOK, FreshOK, tmux, runtimes
  <2>20. ASSUME NEW p \in Panes, UnregDelete(p) PROVE TypeOK'
    <3>1. TableOK'
      BY <2>20, RegistryAssumption DEF UnregDelete, TypeOK, TableOK, Without
    <3>2. UnregOK'
      BY <2>20, RegistryAssumption DEF UnregDelete, TypeOK, UnregOK, IdleUnreg
    <3> QED
      BY <2>20, <3>1, <3>2
      DEF UnregDelete, TypeOK, WorldOK, RegOK, RecOK, FreshOK, tmux, runtimes
  <2>21. ASSUME NEW r \in Reconcilers, RecSnapshot(r) PROVE TypeOK'
    <3>1. RecOK'
      <4>1. [IdleRec EXCEPT !.pc = "select", !.snap = addr] \in RecRecords
        BY DEF IdleRec, RecRecords, RecPcs, TypeOK, WorldOK
      <4>2. AfterApply(r) \in RecPcs \ {"select"}
        BY DEF AfterApply, RecPcs
      <4> QED BY <2>21, <4>1, <4>2, IdleRecType, RecUpdate DEF RecSnapshot, TypeOK
    <3>2. FreshOK'
      BY <2>21, RegistryAssumption DEF RecSnapshot, TypeOK, FreshOK
    <3> QED
      BY <2>21, <3>1, <3>2
      DEF RecSnapshot, TypeOK, WorldOK, TableOK, RegOK, UnregOK, tmux, runtimes
  <2>22. ASSUME NEW r \in Reconcilers, RecSelect(r) PROVE TypeOK'
    <3>1. RecOK'
      <4> DEFINE snap == rec[r].snap
                 upd  == Drifted(snap)
                 dead == IF r = "bus_prune" THEN Gone(snap) ELSE {}
                 pc   == IF upd = {} /\ dead = {} THEN AfterApply(r) ELSE "apply"
      <4>1. snap \in [Panes -> MaybeAddr]
        BY <2>22 DEF RecSelect, TypeOK, RecOK, RecRecords
      <4>2. upd \in SUBSET (Ids \X Addrs)
        BY <4>1, DriftedType DEF TypeOK
      <4>3. dead \in SUBSET Ids /\ pc \in RecPcs \ {"select"}
        BY DEF Gone, AfterApply, RecPcs
      <4>4. rec' = [rec EXCEPT ![r] = [IdleRec EXCEPT !.pc = pc, !.upd = upd, !.dead = dead]]
        BY <2>22 DEF RecSelect
      <4> HIDE DEF upd, dead, pc
      <4>5. [IdleRec EXCEPT !.pc = pc, !.upd = upd, !.dead = dead] \in RecRecords
        BY <4>2, <4>3 DEF IdleRec, RecRecords
      <4> QED BY <4>4, <4>5, RecUpdate DEF TypeOK
    <3> QED
      BY <2>22, <3>1
      DEF RecSelect, TypeOK, WorldOK, TableOK, RegOK, UnregOK, FreshOK, tmux, runtimes
  <2>23. ASSUME NEW r \in Reconcilers, RecApply(r) PROVE TypeOK'
    <3>1. TableOK'
      <4>1. rec[r].upd \in SUBSET (Ids \X Addrs)
        BY DEF TypeOK, RecOK, RecRecords
      <4> QED BY <2>23, <4>1, RefreshedType DEF RecApply, TypeOK, TableOK
    <3>2. RecOK'
      <4>1. AfterApply(r) \in RecPcs \ {"select"}
        BY DEF AfterApply, RecPcs
      <4> QED BY <2>23, <4>1, IdleRecType, RecUpdate DEF RecApply, TypeOK
    <3> QED
      BY <2>23, <3>1, <3>2
      DEF RecApply, TypeOK, WorldOK, RegOK, UnregOK, FreshOK, tmux, runtimes
  <2>24. ASSUME NEW r \in Reconcilers, PruneSelect(r) PROVE TypeOK'
    <3>1. RecOK'
      <4>1. Candidates \in SUBSET [id : Ids, pane : MaybePane, target : Addrs]
        BY CandidatesType DEF TypeOK
      <4>2. [IdleRec EXCEPT !.pc = "probe", !.todo = Candidates] \in RecRecords
        BY <4>1 DEF IdleRec, RecRecords, RecPcs
      <4> QED BY <2>24, <4>2, RecUpdate DEF PruneSelect, TypeOK
    <3> QED
      BY <2>24, <3>1
      DEF PruneSelect, TypeOK, WorldOK, TableOK, RegOK, UnregOK, FreshOK, tmux, runtimes
  <2>25. ASSUME NEW r \in Reconcilers, PruneProbe(r) PROVE TypeOK'
    <3>1. RecOK'
      <4>1. PICK c \in rec[r].todo :
              \/ rec' = [rec EXCEPT ![r].todo = @ \ {c}]
              \/ rec' = [rec EXCEPT ![r].todo = @ \ {c}, ![r].dead = @ \cup {c.id}]
        BY <2>25 DEF PruneProbe
      <4>2. rec[r] \in RecRecords /\ c.id \in Ids
        BY DEF TypeOK, RecOK, RecRecords
      <4>3. [rec[r] EXCEPT !.todo = @ \ {c}] \in RecRecords
        BY <4>2 DEF RecRecords
      <4>4. [rec[r] EXCEPT !.todo = @ \ {c}, !.dead = @ \cup {c.id}] \in RecRecords
        BY <4>2 DEF RecRecords
      <4> DEFINE lived == [rec[r] EXCEPT !.todo = @ \ {c}]
                 died == [rec[r] EXCEPT !.todo = @ \ {c}, !.dead = @ \cup {c.id}]
      <4>5. \/ rec' = [rec EXCEPT ![r] = lived]
            \/ rec' = [rec EXCEPT ![r] = died]
        BY <4>1
      <4>6. lived \in RecRecords /\ died \in RecRecords
        BY <4>3, <4>4
      <4> HIDE DEF lived, died
      <4>7. CASE rec' = [rec EXCEPT ![r] = lived]
        BY <4>6, <4>7, RecUpdate DEF TypeOK
      <4>8. CASE rec' = [rec EXCEPT ![r] = died]
        BY <4>6, <4>8, RecUpdate DEF TypeOK
      <4> QED BY <4>5, <4>7, <4>8
    <3> QED
      BY <2>25, <3>1
      DEF PruneProbe, TypeOK, WorldOK, TableOK, RegOK, UnregOK, FreshOK, tmux, runtimes
  <2>26. ASSUME NEW r \in Reconcilers, PruneSelectPids(r) PROVE TypeOK'
    <3>1. RecOK'
      <4> DEFINE dead == rec[r].dead \cup Orphans
      <4>1. dead \in SUBSET Ids
        BY DEF TypeOK, RecOK, RecRecords, Orphans
      <4>2. rec' = [rec EXCEPT ![r] = [IdleRec EXCEPT !.pc = "delete", !.dead = dead]]
        BY <2>26 DEF PruneSelectPids
      <4> HIDE DEF dead
      <4>3. [IdleRec EXCEPT !.pc = "delete", !.dead = dead] \in RecRecords
        BY <4>1 DEF IdleRec, RecRecords, RecPcs
      <4> QED BY <4>2, <4>3, RecUpdate DEF TypeOK
    <3> QED
      BY <2>26, <3>1
      DEF PruneSelectPids, TypeOK, WorldOK, TableOK, RegOK, UnregOK, FreshOK, tmux, runtimes
  <2>27. ASSUME NEW r \in Reconcilers, PruneDelete(r) PROVE TypeOK'
    <3>1. TableOK'
      BY <2>27, RegistryAssumption DEF PruneDelete, TypeOK, TableOK, Without
    <3>2. RecOK'
      BY <2>27, IdleRecType, RecUpdate DEF PruneDelete, TypeOK, RecPcs
    <3> QED
      BY <2>27, <3>1, <3>2
      DEF PruneDelete, TypeOK, WorldOK, RegOK, UnregOK, FreshOK, tmux, runtimes
  <2>28. ASSUME NEW r \in Reconcilers, PrunePids(r) PROVE TypeOK'
    <3>1. TableOK'
      BY <2>28, RegistryAssumption DEF PrunePids, TypeOK, TableOK, Swept
    <3>2. RecOK'
      BY <2>28, IdleRecType, RecUpdate DEF PrunePids, TypeOK, RecPcs
    <3> QED
      BY <2>28, <3>1, <3>2
      DEF PrunePids, TypeOK, WorldOK, RegOK, UnregOK, FreshOK, tmux, runtimes
  <2>29. CASE UNCHANGED vars
    BY <2>29 DEF vars, tmux, runtimes, TypeOK, WorldOK, TableOK, RegOK, UnregOK, RecOK, FreshOK
  <2> QED
    BY <2>1, <2>2, <2>3, <2>4, <2>5, <2>6, <2>7, <2>8,
       <2>9, <2>10, <2>11, <2>12, <2>13, <2>14, <2>15, <2>16,
       <2>17, <2>18, <2>19, <2>20, <2>21, <2>22, <2>23, <2>24,
       <2>25, <2>26, <2>27, <2>28, <2>29
    DEF Next, PaneStep, RegStep, UnregStep, RecStep
<1> QED BY <1>1, <1>2, PTL DEF Spec

=============================================================================
