------------------------------ MODULE MCProxy ------------------------------
(***************************************************************************)
(* Proxy for TLC.                                                          *)
(***************************************************************************)
EXTENDS Proxy

=============================================================================
