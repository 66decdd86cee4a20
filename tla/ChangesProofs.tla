--------------------------- MODULE ChangesProofs ---------------------------
(***************************************************************************)
(* Proofs about Changes for every set of paths, scope, page size and bound.*)
(*                                                                         *)
(* CursorComplete is not inductive: it says nothing of a pull under way.   *)
(* The strengthening follows the pull.  What has been collected and what   *)
(* was processed before cover together (Newest) every row up to the cursor *)
(* while paging goes on, and every row up to the counter of the last       *)
(* request once it has ended; a write can only move a row above both.      *)
(***************************************************************************)
EXTENDS Changes, FiniteSetTheorems, NaturalsInduction, WellFoundedInduction, TLAPS

\* The last entry of p this client has either collected or processed.
Newest(p) == IF batch[p] # NoRow THEN batch[p] ELSE view[p]

Covered(rev) == \A p \in Scope : rows[p].rev \in 1 .. rev => Newest(p) = rows[p]

\* What has been collected is newer than what was processed.
BatchFresh ==
  \A p \in Paths : batch[p] # NoRow =>
    /\ lastRev < batch[p].rev
    /\ view[p].rev <= batch[p].rev
    /\ batch[p].rev <= rows[p].rev

ViewBehind ==
  \A p \in Paths :
    /\ view[p].rev <= currentRev
    /\ view[p].rev <= rows[p].rev \/ rows[p] = NoRow

PullInv ==
  /\ lastRev <= currentRev
  /\ pc = "idle" => batch = NoBatch
  /\ pc \in {"counter", "rows"} =>
       /\ lastRev <= cursor /\ cursor <= currentRev
       /\ Covered(cursor)
  /\ pc \in {"rows", "apply"} => lastRev <= pageRev /\ pageRev <= currentRev
  /\ pc = "apply" => Covered(pageRev)

IInv ==
  /\ ChangesTypeOK
  /\ RevsInOrder
  /\ BatchFresh
  /\ ViewBehind
  /\ PullInv
  /\ CursorComplete
  /\ NoGhost

----------------------------------------------------------------------------
(* The paging queries. *)

\* A non-empty set of naturals has a least element.
LEMMA LeastNat ==
  ASSUME NEW S \in SUBSET Nat, S # {}
  PROVE  \E n \in S : \A m \in S : n <= m
<1>1. \E n \in S : \A m \in S : <<m, n>> \notin OpToRel(<, Nat)
  BY NatLessThanWellFounded, WFMin, Zenon
<1>2. PICK n \in S : \A m \in S : <<m, n>> \notin OpToRel(<, Nat)
  BY <1>1
<1>3. ASSUME NEW m \in S PROVE n <= m
  <2>1. ~(m < n)
    BY <1>2 DEF OpToRel
  <2>2. QED
    BY <2>1
<1>4. QED
  BY <1>3

\* A page holds, with a row, every row of the scope between the cursor and it.
LEMMA PageHasNoGap ==
  ASSUME IndexTypeOK, NEW since \in Nat,
         NEW p \in Page(since), NEW q \in Newer(Scope, since),
         rows[q].rev < rows[p].rev
  PROVE  q \in Page(since)
<1>1. Before(Scope, since, q) \subseteq Before(Scope, since, p)
  BY ScopeAssumption DEF Before, Newer, Page, FirstRows, IndexTypeOK, Row
<1>2. IsFiniteSet(Before(Scope, since, p)) /\ IsFiniteSet(Before(Scope, since, q))
  <2>1. Before(Scope, since, p) \in SUBSET Paths /\ Before(Scope, since, q) \in SUBSET Paths
    BY ScopeAssumption DEF Before, Newer
  <2>2. QED
    BY <2>1, FS_Subset, PathsAssumption
<1>3. Cardinality(Before(Scope, since, q)) <= Cardinality(Before(Scope, since, p))
  BY <1>1, <1>2, FS_Subset
<1>4. /\ Cardinality(Before(Scope, since, p)) \in Nat
      /\ Cardinality(Before(Scope, since, q)) \in Nat
  BY <1>2, FS_CardinalityType
<1>5. QED
  BY <1>3, <1>4, LimitAssumption DEF Page, FirstRows

\* A page is empty only when nothing is newer: paging cannot stop short.
LEMMA PageNotEmpty ==
  ASSUME IndexTypeOK, NEW since \in Nat, Newer(Scope, since) # {}
  PROVE  Page(since) # {}
<1> DEFINE Revs == {rows[p].rev : p \in Newer(Scope, since)}
<1>1. Revs \in SUBSET Nat /\ Revs # {}
  BY ScopeAssumption DEF Newer, IndexTypeOK, Row
<1>2. PICK n \in Revs : \A m \in Revs : n <= m
  <2> HIDE DEF Revs
  <2> QED BY <1>1, LeastNat
<1>3. PICK p \in Newer(Scope, since) : rows[p].rev = n
  BY <1>2
<1>4. \A q \in Newer(Scope, since) : rows[p].rev <= rows[q].rev
  BY <1>2, <1>3
<1>5. Before(Scope, since, p) = {}
  BY <1>1, <1>4, ScopeAssumption DEF Before, Newer, IndexTypeOK, Row
<1>6. Cardinality(Before(Scope, since, p)) = 0
  BY <1>5, FS_EmptySet
<1>7. QED
  BY <1>3, <1>6, LimitAssumption DEF Page, FirstRows

----------------------------------------------------------------------------
(* The inductive invariant. *)

LEMMA InitIInv == ChangesInit => IInv
<1> SUFFICES ASSUME ChangesInit PROVE IInv
  OBVIOUS
<1> USE DEF ChangesInit, IndexInit, NoBatch, NoRow
<1>1. ChangesTypeOK
  BY DEF ChangesTypeOK, IndexTypeOK, Row
<1>2. RevsInOrder
  BY DEF RevsInOrder
<1>3. BatchFresh /\ ViewBehind
  BY DEF BatchFresh, ViewBehind
<1>4. PullInv
  BY DEF PullInv
<1>5. CursorComplete /\ NoGhost
  BY ScopeAssumption DEF CursorComplete, NoGhost
<1>6. QED
  BY <1>1, <1>2, <1>3, <1>4, <1>5 DEF IInv

\* What a server's write does, whichever one it is: the row of one path moves
\* to a revision nobody has seen.
LEMMA WriteMovesOneRow ==
  ASSUME ChangesTypeOK, RevsInOrder, NEW p \in Paths,
         \/ \E f \in Facts : Upsert(p, f)
         \/ rows[p] # NoRow /\ MarkDeleted(p)
  PROVE  /\ currentRev' = currentRev + 1
         /\ rows' \in [Paths -> Row]
         /\ rows'[p].rev = currentRev + 1
         /\ rows'[p] # NoRow
         /\ \A q \in Paths \ {p} : rows'[q] = rows[q]
<1>1. CASE \E f \in Facts : Upsert(p, f)
  BY <1>1 DEF Upsert, ChangesTypeOK, IndexTypeOK, Row, NoRow
<1>2. CASE rows[p] # NoRow /\ MarkDeleted(p)
  BY <1>2 DEF MarkDeleted, ChangesTypeOK, IndexTypeOK, Row, NoRow
<1>3. QED
  BY <1>1, <1>2

LEMMA WritePreserves ==
  ASSUME IInv, NEW p \in Paths, UNCHANGED clientVars,
         \/ \E f \in Facts : Upsert(p, f)
         \/ rows[p] # NoRow /\ MarkDeleted(p)
  PROVE  IInv'
<1> USE DEF IInv
<1>1. /\ currentRev' = currentRev + 1
      /\ rows' \in [Paths -> Row]
      /\ rows'[p].rev = currentRev + 1
      /\ rows'[p] # NoRow
      /\ \A q \in Paths \ {p} : rows'[q] = rows[q]
  BY WriteMovesOneRow
<1>2. ChangesTypeOK'
  BY <1>1 DEF ChangesTypeOK, IndexTypeOK, clientVars
<1>3. RevsInOrder'
  <2>1. \A q \in Paths : rows[q].rev <= currentRev /\ rows[q].rev \in Nat
    BY DEF RevsInOrder, ChangesTypeOK, IndexTypeOK, Row
  <2>2. currentRev \in Nat
    BY DEF ChangesTypeOK, IndexTypeOK
  <2>3. QED
    BY <1>1, <2>1, <2>2 DEF RevsInOrder
<1>4. \A q \in Paths : rows'[q].rev >= rows[q].rev /\ (rows[q] # NoRow => rows'[q] # NoRow)
  BY <1>1 DEF RevsInOrder, ChangesTypeOK, IndexTypeOK, Row
<1>5. BatchFresh'
  BY <1>1, <1>2, <1>4 DEF BatchFresh, clientVars, ChangesTypeOK, IndexTypeOK, Row
<1>6. ViewBehind'
  <2>1. \A q \in Paths : view[q].rev <= currentRev + 1
    BY DEF ViewBehind, ChangesTypeOK, IndexTypeOK, Row
  <2>2. QED
    BY <1>1, <1>4, <2>1 DEF ViewBehind, clientVars, ChangesTypeOK, IndexTypeOK, Row
<1>7. ASSUME NEW rev \in Nat, rev <= currentRev, Covered(rev)
      PROVE  \A q \in Scope : rows'[q].rev \in 1 .. rev => Newest(q) = rows'[q]
  BY <1>1, <1>7, ScopeAssumption DEF Covered, ChangesTypeOK, IndexTypeOK
<1>8. PullInv'
  <2>1. \A rev \in Nat : rev <= currentRev /\ Covered(rev) => Covered(rev)'
    BY <1>7 DEF Covered, Newest, clientVars
  <2>2. QED
    BY <1>1, <2>1 DEF PullInv, clientVars, ChangesTypeOK, IndexTypeOK
<1>9. CursorComplete'
  BY <1>1, ScopeAssumption DEF CursorComplete, PullInv, clientVars, ChangesTypeOK, IndexTypeOK
<1>10. NoGhost'
  BY <1>1, ScopeAssumption DEF NoGhost, clientVars
<1>11. QED
  BY <1>2, <1>3, <1>5, <1>6, <1>8, <1>9, <1>10

LEMMA PrunePreserves == ASSUME IInv, Prune PROVE IInv'
<1> USE DEF IInv
<1>1. PICK p \in Paths : WithinRetention(p) /\ PruneTombstone(p)
  BY DEF Prune
<1>2. /\ rows[p].deleted /\ rows[p] # NoRow /\ rows[p].rev <= lastRev
      /\ rows' = [rows EXCEPT ![p] = NoRow]
      /\ UNCHANGED <<currentRev, clientVars>>
  BY <1>1 DEF Prune, PruneTombstone, WithinRetention
<1>3. NoRow \in Row
  BY DEF NoRow, Row
<1>4. ChangesTypeOK'
  BY <1>2, <1>3 DEF ChangesTypeOK, IndexTypeOK, clientVars
<1>5. /\ rows'[p] = NoRow
      /\ \A q \in Paths \ {p} : rows'[q] = rows[q]
  BY <1>2 DEF ChangesTypeOK, IndexTypeOK
<1>6. NoRow.rev = 0
  BY DEF NoRow
<1>7. RevsInOrder'
  BY <1>2, <1>5, <1>6 DEF RevsInOrder, ChangesTypeOK, IndexTypeOK
<1>8. batch[p] = NoRow
  <2>1. /\ batch[p].rev \in Nat /\ rows[p].rev \in Nat /\ lastRev \in Nat
    BY DEF ChangesTypeOK, IndexTypeOK, Row
  <2>2. QED
    BY <1>2, <2>1 DEF BatchFresh
<1>9. BatchFresh'
  BY <1>2, <1>5, <1>8 DEF BatchFresh, clientVars
<1>10. ViewBehind'
  BY <1>2, <1>5 DEF ViewBehind, clientVars
<1>11. \A rev \in Nat : Covered(rev) => Covered(rev)'
  BY <1>2, <1>5, <1>6, ScopeAssumption DEF Covered, Newest, clientVars
<1>12. PullInv'
  BY <1>2, <1>11 DEF PullInv, clientVars, ChangesTypeOK, IndexTypeOK
<1>13. CursorComplete'
  BY <1>2, <1>5, <1>6, ScopeAssumption DEF CursorComplete, clientVars
<1>14. NoGhost'
  <2>1. p \in Scope => view[p].deleted
    <3>1. rows[p].rev # 0 /\ rows[p].rev \in Nat /\ lastRev \in Nat
      BY <1>2 DEF RevsInOrder, ChangesTypeOK, IndexTypeOK, Row
    <3>2. rows[p].rev \in 1 .. lastRev
      BY <1>2, <3>1
    <3>3. QED
      BY <1>2, <3>2 DEF CursorComplete
  <2>2. QED
    BY <1>2, <1>5, <2>1, ScopeAssumption DEF NoGhost, clientVars
<1>15. QED
  BY <1>4, <1>7, <1>9, <1>10, <1>12, <1>13, <1>14

LEMMA StartPullPreserves == ASSUME IInv, StartPull PROVE IInv'
<1> USE DEF IInv, StartPull, serverVars
<1>1. ChangesTypeOK' /\ RevsInOrder' /\ BatchFresh' /\ ViewBehind' /\ CursorComplete' /\ NoGhost'
  BY DEF ChangesTypeOK, IndexTypeOK, RevsInOrder, BatchFresh, ViewBehind, CursorComplete, NoGhost
<1>2. \A p \in Scope : Newest(p) = view[p]
  BY ScopeAssumption DEF Newest, PullInv, NoBatch
<1>3. Covered(cursor)'
  BY <1>2 DEF Covered, Newest, CursorComplete
<1>4. PullInv'
  BY <1>3 DEF PullInv, ChangesTypeOK, IndexTypeOK
<1>5. QED
  BY <1>1, <1>4

LEMMA ReadCounterPreserves == ASSUME IInv, ReadCounter PROVE IInv'
<1> USE DEF IInv, ReadCounter, serverVars
<1>1. ChangesTypeOK' /\ RevsInOrder' /\ BatchFresh' /\ ViewBehind' /\ CursorComplete' /\ NoGhost'
  BY DEF ChangesTypeOK, IndexTypeOK, RevsInOrder, BatchFresh, ViewBehind, CursorComplete, NoGhost
<1>2. PullInv'
  BY DEF PullInv, Covered, Newest, ChangesTypeOK, IndexTypeOK
<1>3. QED
  BY <1>1, <1>2

\* Collecting a page keeps what is collected fresh, and leaves Newest right
\* for every row it was right for and for every row of the page.
LEMMA CollectPage ==
  ASSUME IInv, pc = "rows", batch' = Collect(Page(cursor)),
         UNCHANGED <<serverVars, view, lastRev>>
  PROVE  /\ batch' \in [Paths -> Row]
         /\ BatchFresh'
         /\ \A p \in Page(cursor) : Newest(p)' = rows'[p]
         /\ \A p \in Scope \ Page(cursor) : Newest(p)' = Newest(p)
<1> USE DEF IInv, serverVars
<1>1. /\ Page(cursor) \subseteq Scope
      /\ \A p \in Page(cursor) : rows[p].rev > cursor
  BY DEF Page, FirstRows, Newer
<1>2. \A p \in Paths : batch'[p] = IF p \in Page(cursor) THEN rows[p] ELSE batch[p]
  BY DEF Collect
<1>3. batch' \in [Paths -> Row]
  BY <1>2 DEF ChangesTypeOK, IndexTypeOK, Collect
<1>4. cursor \in Nat /\ lastRev \in Nat /\ lastRev <= cursor
  BY DEF PullInv, ChangesTypeOK
<1>5. \A p \in Page(cursor) : /\ rows[p] # NoRow
                               /\ lastRev < rows[p].rev
                               /\ view[p].rev <= rows[p].rev
  <2>1. \A p \in Page(cursor) : rows[p].rev \in Nat /\ rows[p] # NoRow
    BY <1>1, <1>4, ScopeAssumption DEF ChangesTypeOK, IndexTypeOK, Row, NoRow
  <2>2. QED
    BY <1>1, <1>4, <2>1, ScopeAssumption DEF ViewBehind
<1>6. BatchFresh'
  <2>1. \A p \in Page(cursor) : rows[p].rev \in Nat
    BY <1>1, ScopeAssumption DEF ChangesTypeOK, IndexTypeOK, Row
  <2>2. QED
    BY <1>2, <1>5, <2>1 DEF BatchFresh
<1>7. \A p \in Page(cursor) : Newest(p)' = rows'[p]
  BY <1>1, <1>2, <1>5, ScopeAssumption DEF Newest
<1>8. \A p \in Scope \ Page(cursor) : Newest(p)' = Newest(p)
  BY <1>2, ScopeAssumption DEF Newest
<1>9. QED
  BY <1>3, <1>6, <1>7, <1>8

LEMMA ReadPageAndGoOnPreserves == ASSUME IInv, ReadPageAndGoOn PROVE IInv'
<1> USE DEF IInv, ReadPageAndGoOn, serverVars
<1>1. PICK last \in Page(cursor) :
        /\ \A p \in Page(cursor) : rows[p].rev <= rows[last].rev
        /\ rows[last].rev > cursor
        /\ cursor' = rows[last].rev
  OBVIOUS
<1>2. last \in Paths /\ rows[last].rev \in Nat /\ cursor \in Nat
  BY <1>1, ScopeAssumption DEF ChangesTypeOK, IndexTypeOK, Row, Page, FirstRows, Newer
<1>3. /\ batch' \in [Paths -> Row]
      /\ BatchFresh'
      /\ \A p \in Page(cursor) : Newest(p)' = rows'[p]
      /\ \A p \in Scope \ Page(cursor) : Newest(p)' = Newest(p)
  BY CollectPage
<1>4. ChangesTypeOK' /\ RevsInOrder' /\ ViewBehind' /\ CursorComplete' /\ NoGhost'
  BY <1>1, <1>2, <1>3
     DEF ChangesTypeOK, IndexTypeOK, RevsInOrder, ViewBehind, CursorComplete, NoGhost
<1>5. ASSUME NEW p \in Scope, rows[p].rev \in 1 .. cursor', p \notin Page(cursor)
      PROVE  Newest(p) = rows[p]
  <2>1. p \in Paths /\ rows[p].rev \in Nat
    BY ScopeAssumption DEF ChangesTypeOK, IndexTypeOK, Row
  <2>2. CASE rows[p].rev <= cursor
    BY <1>2, <1>5, <2>1, <2>2 DEF PullInv, Covered
  <2>3. CASE rows[p].rev > cursor
    <3>1. p \in Newer(Scope, cursor)
      BY <2>3 DEF Newer
    <3>2. ~(rows[p].rev < rows[last].rev)
      BY <1>2, <1>5, <3>1, PageHasNoGap DEF ChangesTypeOK
    <3>3. rows[p].rev = rows[last].rev
      BY <1>1, <1>2, <1>5, <2>1, <3>2
    <3>4. p = last
      BY <1>2, <2>1, <2>3, <3>3 DEF RevsInOrder
    <3>5. QED
      BY <1>1, <1>5, <3>4
  <2>4. QED
    BY <1>2, <2>1, <2>2, <2>3
<1>6. Covered(cursor)'
  BY <1>3, <1>5 DEF Covered
<1>7. PullInv'
  BY <1>1, <1>2, <1>6 DEF PullInv, ChangesTypeOK, IndexTypeOK, RevsInOrder
<1>8. QED
  BY <1>3, <1>4, <1>7

LEMMA ReadLastPagePreserves == ASSUME IInv, ReadLastPage PROVE IInv'
<1> USE DEF IInv, ReadLastPage, serverVars
<1>1. /\ batch' \in [Paths -> Row]
      /\ BatchFresh'
      /\ \A p \in Page(cursor) : Newest(p)' = rows'[p]
      /\ \A p \in Scope \ Page(cursor) : Newest(p)' = Newest(p)
  BY CollectPage
<1>2. ChangesTypeOK' /\ RevsInOrder' /\ ViewBehind' /\ CursorComplete' /\ NoGhost'
  BY <1>1 DEF ChangesTypeOK, IndexTypeOK, RevsInOrder, ViewBehind, CursorComplete, NoGhost
<1>3. Newer(Scope, cursor) \subseteq Page(cursor)
  <2>1. CASE ~More(cursor)
    BY <2>1 DEF More
  <2>2. CASE Page(cursor) = {}
    BY <2>2, PageNotEmpty DEF ChangesTypeOK
  <2>3. QED
    BY <2>1, <2>2
<1>4. ASSUME NEW p \in Scope, rows[p].rev \in 1 .. pageRev, p \notin Page(cursor)
      PROVE  Newest(p) = rows[p]
  <2>1. rows[p].rev \in Nat /\ cursor \in Nat /\ rows[p].rev >= 1
    BY <1>4, ScopeAssumption DEF ChangesTypeOK, IndexTypeOK, Row
  <2>2. ~(rows[p].rev > cursor)
    BY <1>3, <1>4 DEF Newer
  <2>3. rows[p].rev \in 1 .. cursor
    BY <2>1, <2>2
  <2>4. QED
    BY <2>3 DEF PullInv, Covered
<1>5. Covered(pageRev)'
  BY <1>1, <1>4 DEF Covered
<1>6. PullInv'
  BY <1>5 DEF PullInv, ChangesTypeOK, IndexTypeOK
<1>7. QED
  BY <1>1, <1>2, <1>6

LEMMA ApplyEntryPreserves == ASSUME IInv, ApplyEntry PROVE IInv'
<1> USE DEF IInv, ApplyEntry, serverVars
<1>1. PICK p \in Paths :
        /\ NextEntry(p)
        /\ view' = [view EXCEPT ![p] = batch[p]]
        /\ batch' = [batch EXCEPT ![p] = NoRow]
  OBVIOUS
<1>2. /\ batch[p] # NoRow
      /\ view'[p] = batch[p] /\ batch'[p] = NoRow
      /\ \A q \in Paths \ {p} : view'[q] = view[q] /\ batch'[q] = batch[q]
  BY <1>1 DEF NextEntry, ChangesTypeOK
<1>3. ChangesTypeOK'
  <2>1. NoRow \in Row
    BY DEF NoRow, Row
  <2>2. QED
    BY <1>1, <2>1 DEF ChangesTypeOK, IndexTypeOK
<1>4. /\ lastRev < batch[p].rev /\ batch[p].rev <= rows[p].rev /\ rows[p].rev <= currentRev
      /\ lastRev \in Nat /\ currentRev \in Nat /\ batch[p].rev \in Nat /\ rows[p].rev \in Nat
  BY <1>2 DEF BatchFresh, RevsInOrder, ChangesTypeOK, IndexTypeOK, Row
<1>5. RevsInOrder'
  BY DEF RevsInOrder
<1>6. BatchFresh'
  BY <1>2 DEF BatchFresh
<1>7. ViewBehind'
  <2>1. view'[p].rev <= currentRev /\ view'[p].rev <= rows[p].rev
    BY <1>2, <1>4
  <2>2. QED
    BY <1>2, <2>1 DEF ViewBehind
<1>8. \A q \in Paths : Newest(q)' = Newest(q)
  BY <1>2 DEF Newest
<1>9. PullInv'
  BY <1>8, ScopeAssumption DEF PullInv, Covered
<1>10. CursorComplete'
  <2>1. rows[p].rev \notin 1 .. lastRev
    BY <1>4
  <2>2. QED
    BY <1>2, <2>1, ScopeAssumption DEF CursorComplete
<1>11. NoGhost'
  <2>1. rows[p] # NoRow
    BY <1>4 DEF NoRow
  <2>2. QED
    BY <1>2, <2>1, ScopeAssumption DEF NoGhost
<1>12. QED
  BY <1>3, <1>5, <1>6, <1>7, <1>9, <1>10, <1>11

\* A path deleted since its page was read: its row is newer than the page.
LEMMA SkipEntryPreserves ==
  ASSUME ~DiskMayLoseContent, IInv, SkipEntry
  PROVE  IInv'
<1> USE DEF IInv, SkipEntry, serverVars
<1>1. PICK p \in Paths :
        /\ NextEntry(p) /\ ~batch[p].deleted /\ ~Live(p)
        /\ batch' = [batch EXCEPT ![p] = NoRow]
  OBVIOUS
<1>2. /\ batch[p] # NoRow
      /\ batch'[p] = NoRow
      /\ \A q \in Paths \ {p} : batch'[q] = batch[q]
  BY <1>1 DEF NextEntry, ChangesTypeOK
<1>3. ChangesTypeOK'
  <2>1. NoRow \in Row
    BY DEF NoRow, Row
  <2>2. QED
    BY <1>1, <2>1 DEF ChangesTypeOK, IndexTypeOK
<1>4. /\ RevsInOrder' /\ BatchFresh' /\ ViewBehind' /\ CursorComplete' /\ NoGhost'
  BY <1>2 DEF RevsInOrder, BatchFresh, ViewBehind, CursorComplete, NoGhost
<1>5. Newest(p) # rows[p]
  BY <1>1, <1>2 DEF Newest, Live
<1>6. Covered(pageRev)'
  <2>1. Covered(pageRev)
    BY DEF PullInv
  <2>2. p \in Scope => rows[p].rev \notin 1 .. pageRev
    BY <1>5, <2>1 DEF Covered
  <2>3. QED
    BY <1>2, <2>1, <2>2, ScopeAssumption DEF Covered, Newest
<1>7. PullInv'
  BY <1>6 DEF PullInv
<1>8. QED
  BY <1>3, <1>4, <1>7

LEMMA FinishPullPreserves == ASSUME IInv, FinishPull PROVE IInv'
<1> USE DEF IInv, FinishPull, serverVars, CursorAfterPull
<1>1. ChangesTypeOK' /\ RevsInOrder' /\ ViewBehind' /\ NoGhost'
  BY DEF ChangesTypeOK, IndexTypeOK, RevsInOrder, ViewBehind, NoGhost
<1>2. BatchFresh'
  BY DEF BatchFresh, NoBatch
<1>3. PullInv'
  BY DEF PullInv, ChangesTypeOK, IndexTypeOK
<1>4. CursorComplete'
  <2>1. \A p \in Scope : Newest(p) = view[p]
    BY ScopeAssumption DEF Newest, NoBatch
  <2>2. QED
    BY <2>1 DEF PullInv, Covered, CursorComplete
<1>5. QED
  BY <1>1, <1>2, <1>3, <1>4

LEMMA AbandonPullPreserves == ASSUME IInv, AbandonPull PROVE IInv'
<1> USE DEF IInv, AbandonPull, serverVars
<1>1. ChangesTypeOK'
  <2>1. NoBatch \in [Paths -> Row]
    BY DEF NoBatch, NoRow, Row
  <2>2. QED
    BY <2>1 DEF ChangesTypeOK, IndexTypeOK
<1>2. RevsInOrder' /\ ViewBehind' /\ CursorComplete' /\ NoGhost'
  BY DEF RevsInOrder, ViewBehind, CursorComplete, NoGhost
<1>3. BatchFresh' /\ PullInv'
  BY DEF BatchFresh, NoBatch, PullInv
<1>4. QED
  BY <1>1, <1>2, <1>3

LEMMA StutterPreserves == ASSUME IInv, UNCHANGED changesVars PROVE IInv'
BY DEF IInv, changesVars, ChangesTypeOK, IndexTypeOK, RevsInOrder, BatchFresh, ViewBehind,
       PullInv, Covered, Newest, CursorComplete, NoGhost

LEMMA StepPreserves ==
  ASSUME ~DiskMayLoseContent, IInv, [ChangesNext]_changesVars
  PROVE  IInv'
<1>1. CASE ServerUpsert
  <2>1. PICK p \in Paths : \E f \in Facts : Upsert(p, f)
    BY <1>1 DEF ServerUpsert
  <2>2. QED
    BY <1>1, <2>1, WritePreserves DEF ServerUpsert
<1>2. CASE ServerDelete
  <2>1. PICK p \in Paths : rows[p] # NoRow /\ MarkDeleted(p)
    BY <1>2 DEF ServerDelete
  <2>2. QED
    BY <1>2, <2>1, WritePreserves DEF ServerDelete
<1>3. CASE Prune
  BY <1>3, PrunePreserves
<1>4. CASE PullStep
  BY <1>4, StartPullPreserves, ReadCounterPreserves, ReadPageAndGoOnPreserves,
     ReadLastPagePreserves, ApplyEntryPreserves, FinishPullPreserves DEF PullStep
<1>5. CASE SkipEntry
  BY <1>5, SkipEntryPreserves
<1>6. CASE AbandonPull
  BY <1>6, AbandonPullPreserves
<1>7. CASE UNCHANGED changesVars
  BY <1>7, StutterPreserves
<1>8. QED
  BY <1>1, <1>2, <1>3, <1>4, <1>5, <1>6, <1>7 DEF ChangesNext

----------------------------------------------------------------------------
(* The theorems. *)

LEMMA InvariantHolds ==
  ASSUME ~DiskMayLoseContent
  PROVE  ChangesSpec => []IInv
<1>1. ChangesInit => IInv
  BY InitIInv
<1>2. IInv /\ [ChangesNext]_changesVars => IInv'
  BY StepPreserves
<1>3. QED
  BY <1>1, <1>2, PTL DEF ChangesSpec

(***************************************************************************)
(* Paging misses nothing: as long as the content of every live row is on   *)
(* disk, every row at or below the cursor a client has stored is a row it  *)
(* has processed, for any number of paths, any page size, and whatever is  *)
(* written between the queries of a pull (Index.Changes, AllChanges,       *)
(* Engine.pull).                                                           *)
(***************************************************************************)
THEOREM PagingMissesNothing ==
  ASSUME ~DiskMayLoseContent
  PROVE  ChangesSpec => []CursorComplete
<1>1. IInv => CursorComplete
  BY DEF IInv
<1>2. QED
  BY <1>1, InvariantHolds, PTL

(***************************************************************************)
(* Every deletion is learnt of: a client within the retention window keeps *)
(* no path alive that the server has forgotten (PruneTombstones, pull).    *)
(***************************************************************************)
THEOREM DeletionsAreLearnt ==
  ASSUME ~DiskMayLoseContent
  PROVE  ChangesSpec => []NoGhost
<1>1. IInv => NoGhost
  BY DEF IInv
<1>2. QED
  BY <1>1, InvariantHolds, PTL

(***************************************************************************)
(* A client goes forward only: neither its cursor nor the entry it has     *)
(* processed of a path is ever replaced by an older one (Engine.pull).     *)
(***************************************************************************)
THEOREM ClientGoesForward ==
  ASSUME ~DiskMayLoseContent
  PROVE  ChangesSpec => NeverBackwards
<1> DEFINE Forward == /\ \A p \in Paths : view'[p].rev >= view[p].rev
                      /\ lastRev' >= lastRev
<1>1. ASSUME IInv, [ChangesNext]_changesVars
      PROVE  [Forward]_changesVars
  <2> USE <1>1 DEF IInv
  <2>1. lastRev \in Nat /\ \A p \in Paths : view[p].rev \in Nat
    BY DEF ChangesTypeOK, Row
  <2>2. CASE ApplyEntry
    <3>1. PICK p \in Paths : batch[p] # NoRow /\ view' = [view EXCEPT ![p] = batch[p]]
      BY <2>2 DEF ApplyEntry, NextEntry
    <3>2. batch[p].rev >= view[p].rev
      BY <3>1 DEF BatchFresh, ChangesTypeOK, Row
    <3>3. \A q \in Paths : view'[q].rev >= view[q].rev
      BY <2>1, <3>1, <3>2 DEF ChangesTypeOK
    <3>4. QED
      BY <2>1, <2>2, <3>3 DEF ApplyEntry
  <2>3. CASE FinishPull
    BY <2>1, <2>3 DEF FinishPull, CursorAfterPull, PullInv, ChangesTypeOK
  <2>4. CASE UNCHANGED <<view, lastRev>>
    BY <2>1, <2>4
  <2>5. ApplyEntry \/ FinishPull \/ UNCHANGED <<view, lastRev>>
    BY DEF ChangesNext, PullStep, ServerUpsert, ServerDelete, Prune, StartPull, ReadCounter,
           ReadPageAndGoOn, ReadLastPage, SkipEntry, AbandonPull, clientVars, changesVars
  <2>6. QED
    BY <2>2, <2>3, <2>4, <2>5
<1>2. QED
  BY <1>1, InvariantHolds, PTL DEF ChangesSpec, NeverBackwards

(***************************************************************************)
(* Every variable keeps its type, also when content goes missing on disk.  *)
(***************************************************************************)
THEOREM TypeCorrect == ChangesSpec => []ChangesTypeOK
<1>1. ChangesInit => ChangesTypeOK
  BY DEF ChangesInit, ChangesTypeOK, IndexInit, IndexTypeOK, NoBatch, NoRow, Row
<1>2. ASSUME ChangesTypeOK, [ChangesNext]_changesVars PROVE ChangesTypeOK'
  <2> USE <1>2
  <2>1. NoRow \in Row /\ NoBatch \in [Paths -> Row]
    BY DEF NoRow, NoBatch, Row
  <2>2. CASE ServerUpsert
    BY <2>2 DEF ServerUpsert, Upsert, clientVars, ChangesTypeOK, IndexTypeOK, Row
  <2>3. CASE ServerDelete
    BY <2>1, <2>3 DEF ServerDelete, MarkDeleted, clientVars, ChangesTypeOK, IndexTypeOK, Row
  <2>4. CASE Prune
    BY <2>1, <2>4 DEF Prune, PruneTombstone, clientVars, ChangesTypeOK, IndexTypeOK
  <2>5. CASE StartPull \/ ReadCounter
    BY <2>5 DEF StartPull, ReadCounter, serverVars, ChangesTypeOK, IndexTypeOK
  <2>6. CASE ReadPageAndGoOn \/ ReadLastPage
    <3>1. Collect(Page(cursor)) \in [Paths -> Row]
      BY DEF Collect, ChangesTypeOK, IndexTypeOK
    <3>2. \A p \in Page(cursor) : rows[p].rev \in Nat
      BY ScopeAssumption DEF Page, FirstRows, Newer, ChangesTypeOK, IndexTypeOK, Row
    <3>3. QED
      BY <2>6, <3>1, <3>2 DEF ReadPageAndGoOn, ReadLastPage, serverVars, ChangesTypeOK, IndexTypeOK
  <2>7. CASE ApplyEntry \/ SkipEntry
    BY <2>1, <2>7 DEF ApplyEntry, SkipEntry, serverVars, ChangesTypeOK, IndexTypeOK
  <2>8. CASE FinishPull \/ AbandonPull
    BY <2>1, <2>8 DEF FinishPull, CursorAfterPull, AbandonPull, serverVars, ChangesTypeOK, IndexTypeOK
  <2>9. CASE UNCHANGED changesVars
    BY <2>9 DEF changesVars, ChangesTypeOK, IndexTypeOK
  <2>10. QED
    BY <2>2, <2>3, <2>4, <2>5, <2>6, <2>7, <2>8, <2>9 DEF ChangesNext, PullStep
<1>3. QED
  BY <1>1, <1>2, PTL DEF ChangesSpec
=============================================================================
