---------------------------- MODULE SyncAndBackup ----------------------------
(***************************************************************************)
(* The two halves that work for days on end: the machines that sync one    *)
(* folder (SyncEngine) and the server's backup manager (BackupManager).    *)
(* They share nothing in these models: one of them moves, the other stays  *)
(* at rest.                                                                *)
(***************************************************************************)
EXTENDS SyncEngine, BackupManager

VARIABLE half

bothVars == <<half, vars, backupVars>>

BothInit == half \in {"sync", "backup"} /\ Init /\ BackupInit

BothNext ==
  /\ UNCHANGED half
  /\ \/ half = "sync" /\ Next /\ UNCHANGED backupVars
     \/ half = "backup" /\ BackupNext /\ UNCHANGED vars

\* Each client polls for ever and a cycle under way goes on (SyncEngine's FairSpec).
SyncFairness == \A c \in Clients : WF_vars(half = "sync" /\ EngineStep(c))

(***************************************************************************)
(* Every goroutine of the manager goes on: rsync has a time limit, the     *)
(* mutexes are held for bounded work.  Nobody has to ask for anything, and *)
(* a dead process may stay dead.                                           *)
(***************************************************************************)
BackupFairness == WF_backupVars(half = "backup" /\ BackupStep)

BothSpec == BothInit /\ [][BothNext]_bothVars /\ SyncFairness /\ BackupFairness
=============================================================================
