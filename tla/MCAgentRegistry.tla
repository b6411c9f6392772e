-------------------------- MODULE MCAgentRegistry --------------------------
(***************************************************************************)
(* AgentRegistry for TLC: panes, addresses and directories are alike.      *)
(***************************************************************************)
EXTENDS AgentRegistry, TLC

Symmetry == Permutations(Panes) \cup Permutations(Addrs) \cup Permutations(Cwds)

=============================================================================
