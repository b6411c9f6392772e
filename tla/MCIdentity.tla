----------------------------- MODULE MCIdentity -----------------------------
(***************************************************************************)
(* Identity for TLC: panes, addresses and directories are alike.           *)
(***************************************************************************)
EXTENDS Identity, TLC

Symmetry == Permutations(Panes) \cup Permutations(Addrs) \cup Permutations(Cwds)

=============================================================================
