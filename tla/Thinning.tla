------------------------------ MODULE Thinning ------------------------------
(***************************************************************************)
(* Retention over many days: a snapshot is taken, retention looks at what  *)
(* earlier prunes have left and removes more (Classify and prune in        *)
(* backup/retention.go, called by execute in run.go).  Days without a      *)
(* backup and prunes that stop half-way are part of it.                    *)
(***************************************************************************)
EXTENDS Retention

CONSTANT Plans  \* the limits to choose from; they are not changed afterwards

ASSUME PlansAssumption == Plans \subseteq Limits

VARIABLES
  plan,
  day,    \* the last day there was a backup, or could have been
  taken,  \* the snapshots ever taken
  left    \* those on the disk

thinningVars == <<plan, day, taken, left>>

ThinningInit == plan \in Plans /\ day = 0 /\ taken = {} /\ left = {}

PassDay ==
  /\ day < LastDay /\ day' = day + 1
  /\ UNCHANGED <<plan, taken, left>>

\* A run of the day: the snapshot, then retention, up to an error.
BackUp ==
  /\ day < LastDay /\ day' = day + 1 /\ day' \in Dated
  /\ taken' = taken \cup {day'}
  /\ LET there == left \cup {day'} IN
     \E n \in 0 .. Cardinality(there) : left' = there \ Pruned(there, plan, n)
  /\ UNCHANGED plan

\* A directory made by hand, with the name of no real day.
MakeUp ==
  /\ day < LastDay /\ day' = day + 1 /\ day' \notin Dated
  /\ taken' = taken \cup {day'} /\ left' = left \cup {day'}
  /\ UNCHANGED plan

ThinningNext == PassDay \/ BackUp \/ MakeUp

(***************************************************************************)
(* The last daily snapshots, the newest of each of the last weeks and      *)
(* months (retention.go, at Classify), of all that were ever taken: what   *)
(* an earlier prune removed is never what a tier now wants, and nothing    *)
(* beyond that is left by a prune that was not stopped.                    *)
(***************************************************************************)
ThinsAsPromised ==
  /\ GrandfatherFatherSon(taken, plan) \subseteq left
  /\ left \ Doomed(left, plan) = GrandfatherFatherSon(taken, plan)
=============================================================================
