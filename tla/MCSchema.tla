------------------------------ MODULE MCSchema ------------------------------
(***************************************************************************)
(* Schema for TLC: members are interchangeable.                            *)
(***************************************************************************)
EXTENDS Schema, TLC

Symmetry == Permutations(Rows)

=============================================================================
