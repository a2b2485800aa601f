---------------------------- MODULE MCPersistence ----------------------------
(* Instances of Persistence for TLC: the keys.                             *)
EXTENDS Persistence

CONSTANT k1
=============================================================================
