---------------------------- MODULE MCHeldoutRunner ----------------------------
(* An instance of HeldoutRunner for TLC. *)
EXTENDS HeldoutRunner

CONSTANTS old, new

MCProtocols == {old, new}
=============================================================================
