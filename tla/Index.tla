------------------------------- MODULE Index -------------------------------
(***************************************************************************)
(* The server's index (server/internal/index/index.go): one row per path   *)
(* ever seen and one server-wide revision counter.  Every write runs in a  *)
(* transaction on the single SQLite connection, so each operation below is *)
(* one atomic step.  The module has no behaviour of its own: the modules   *)
(* that use it decide which handler or background pass calls what, when.   *)
(***************************************************************************)
EXTENDS Integers, FiniteSets

CONSTANTS
  Paths,     \* the normalised paths that can be named
  Fold,      \* Fold[p]: the case-folded form of p, as FoldPath computes it
  Facts,     \* what a live row says of a path: type, size, mtime, sha256
  NoFacts    \* what a tombstone says: nothing

ASSUME PathsAssumption == IsFiniteSet(Paths)
ASSUME FactsAssumption == NoFacts \notin Facts

VARIABLES
  rows,        \* rows[p]: the row of p, NoRow if there is none
  currentRev   \* meta.current_rev, the newest revision handed out

Row == [rev : Nat, deleted : BOOLEAN, facts : Facts \cup {NoFacts}]

\* No row at all; a tombstone differs from it in having a revision.
NoRow == [rev |-> 0, deleted |-> TRUE, facts |-> NoFacts]

IndexTypeOK ==
  /\ rows \in [Paths -> Row]
  /\ currentRev \in Nat

IndexInit ==
  /\ rows = [p \in Paths |-> NoRow]
  /\ currentRev = 0

Live(p) == ~rows[p].deleted

\* The revision a client must present to modify p: liveRev of api/files.go.
LiveRev(p) == IF Live(p) THEN rows[p].rev ELSE 0

\* A different live path differs from p only by letter case.
CaseCollision(p) == \E q \in Paths \ {p} : Fold[q] = Fold[p] /\ Live(q)

(***************************************************************************)
(* Upsert: the collision is checked again inside the transaction, so the   *)
(* caller's earlier look (CheckCaseCollision) is advice and this one       *)
(* decides.  The bump and the row commit together.                         *)
(***************************************************************************)
MutUpsertTrustsCaller(p, f) ==
  /\ currentRev' = currentRev + 1
  /\ rows' = [rows EXCEPT ![p] = [rev |-> currentRev', deleted |-> FALSE, facts |-> f]]

Upsert(p, f) ==
  /\ ~CaseCollision(p)
  /\ currentRev' = currentRev + 1
  /\ rows' = [rows EXCEPT ![p] = [rev |-> currentRev', deleted |-> FALSE, facts |-> f]]

(***************************************************************************)
(* MarkDeleted bumps the counter whether or not a row is there to update,  *)
(* and does not look at what the row says when it does.                    *)
(***************************************************************************)
MarkDeleted(p) ==
  /\ currentRev' = currentRev + 1
  /\ rows' = [rows EXCEPT ![p] =
       IF @ = NoRow THEN @ ELSE [rev |-> currentRev', deleted |-> TRUE, facts |-> NoFacts]]

\* PruneTombstones drops old delete markers; it hands out no revision.
PruneTombstone(p) ==
  /\ rows[p].deleted /\ rows[p] # NoRow
  /\ rows' = [rows EXCEPT ![p] = NoRow]
  /\ UNCHANGED currentRev

(***************************************************************************)
(* What a change query sees: the rows of a scope newer than a revision, in *)
(* order of revision.  Revisions are unique, so the first n rows are the   *)
(* rows with fewer than n rows before them.                                *)
(***************************************************************************)
Newer(scope, since) == {p \in scope : rows[p].rev > since}

Before(scope, since, p) == {q \in Newer(scope, since) : rows[q].rev < rows[p].rev}

FirstRows(scope, since, n) ==
  {p \in Newer(scope, since) : Cardinality(Before(scope, since, p)) < n}

----------------------------------------------------------------------------
(***************************************************************************)
(* No two live rows ever fold to the same name, whatever the callers do:   *)
(* index.go promises it "even if a caller forgets the pre-flight" check.   *)
(***************************************************************************)
NoCaseCollision ==
  \A p, q \in Paths : Live(p) /\ Live(q) /\ Fold[p] = Fold[q] => p = q

\* Every row carries a revision of its own, and none is ahead of the counter.
RevsInOrder ==
  /\ \A p \in Paths : rows[p].rev <= currentRev
  /\ \A p \in Paths : rows[p].rev = 0 => rows[p] = NoRow
  /\ \A p, q \in Paths : rows[p].rev = rows[q].rev /\ rows[p].rev # 0 => p = q
=============================================================================
