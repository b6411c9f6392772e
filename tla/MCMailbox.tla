----------------------------- MODULE MCMailbox -----------------------------
(***************************************************************************)
(* Mailbox for TLC: servers, agents and topics are interchangeable.        *)
(***************************************************************************)
EXTENDS MailboxPost, TLC

Symmetry == Permutations(Servers) \cup Permutations(Topics)

=============================================================================
