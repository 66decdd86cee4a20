----------------------------- MODULE OneBackup -----------------------------
(***************************************************************************)
(* What the backup directory may rely on (backup/manager.go, the comment   *)
(* at disk): there is one writer at a time, a run or a deletion, and       *)
(* snapshots change only by its hand.  A run writes one snapshot and may   *)
(* then remove others, but never the one it wrote; a deletion removes one. *)
(***************************************************************************)
EXTENDS Integers

CONSTANTS Days, Runs, Nobody, Deletion, Missing, Partial

VARIABLES
  snapshots,  \* snapshots[d]: the content of the snapshot of day d
  writer      \* Nobody, a run or a deletion

Init == writer = Nobody

Changed == {d \in Days : snapshots'[d] # snapshots[d]}

\* Removed, or what a removal that failed has left of it.
Removed == {d \in Changed : snapshots[d] # Missing /\ snapshots'[d] \in {Missing, Partial}}

\* Whoever takes the directory may write at once.
Take ==
  /\ writer = Nobody
  /\ \/ writer' \in Runs /\ \E d \in Days : Changed \subseteq {d}
     \/ writer' = Deletion /\ UNCHANGED snapshots

\* One snapshot is written, or removed when it cannot be completed.
WriteOne ==
  /\ writer \in Runs
  /\ \E d \in Days : Changed \subseteq {d}
  /\ UNCHANGED writer

\* Retention removes snapshots and leaves a newer one standing.
Thin ==
  /\ writer \in Runs
  /\ Changed \subseteq Removed
  /\ \A d \in Removed : \E e \in Days : e > d /\ snapshots'[e] # Missing
  /\ UNCHANGED writer

DeleteOne ==
  /\ writer = Deletion
  /\ Changed \subseteq Removed
  /\ \E d \in Days : Removed \subseteq {d}
  /\ UNCHANGED writer

Leave ==
  /\ writer # Nobody
  /\ writer' = Nobody
  /\ UNCHANGED snapshots

\* The writer dies with the process, and what it was at stays half-done.
Die ==
  /\ writer # Nobody
  /\ writer' = Nobody
  /\ \E d \in Days : Changed \subseteq {d} /\ \A e \in Changed : snapshots'[e] = Partial

Next == Take \/ WriteOne \/ Thin \/ DeleteOne \/ Leave \/ Die

Spec == Init /\ [][Next]_<<snapshots, writer>>
=============================================================================
