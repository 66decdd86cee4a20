---------------------------- MODULE MCSyncEngine ----------------------------
(***************************************************************************)
(* Two machines whose users edit one file, and conflict names to spare.    *)
(***************************************************************************)
EXTENDS SyncEngine, TLC

CONSTANTS Doc, Copy1, Copy2, Laptop, Desktop

MCClients == {Laptop, Desktop}
MCPaths == {Doc, Copy1, Copy2}
MCFold == [p \in MCPaths |-> p]
MCEdited == {Doc}
MCRank == (Doc :> 1 @@ Copy1 :> 2 @@ Copy2 :> 3)
=============================================================================
