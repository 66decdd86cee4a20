--------------------------- MODULE MCSyncAndBackup ---------------------------
(***************************************************************************)
(* The machines and the file of MCSyncEngine; and for the backups three    *)
(* days in two weeks, with a configuration that keeps one snapshot and the *)
(* newest of each of two weeks.                                            *)
(***************************************************************************)
EXTENDS MCSyncEngine, SyncAndBackup

CONSTANTS Cron, H1

MCWeek == [d \in Days |-> (d + 1) \div 2]
MCMonth == [d \in Days |-> 1]
MCDated == Days
MCByHand == {H1}
Keep(daily, weekly) == [daily |-> daily, weekly |-> weekly, monthly |-> 0]
\* Two snapshots of the days before, hard links of each other.
MCFound == {<<1, 1, Missing>>}
MCTiers == {Keep(1, 2)}
=============================================================================
