------------------------------ MODULE MCPeers -------------------------------
(***************************************************************************)
(* Two nodes: the connections of different pairs only meet in the accept   *)
(* loops, which are never held up by a thread that waits for them.         *)
(***************************************************************************)
EXTENDS Peers

CONSTANTS a, b
=============================================================================
