----------------------------- MODULE MCWarroom -----------------------------
(***************************************************************************)
(* Warroom for TLC: servers and addresses are interchangeable.             *)
(***************************************************************************)
EXTENDS Warroom, TLC

Symmetry == Permutations(Callers) \cup Permutations(Addrs)

=============================================================================
