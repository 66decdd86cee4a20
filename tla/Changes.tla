------------------------------ MODULE Changes ------------------------------
(***************************************************************************)
(* Catching up: one client pages through GET /v1/changes while the server  *)
(* goes on writing.  The server side is Index.Changes and handleChanges,   *)
(* the client side AllChanges (sync/api.go) and the loop of Engine.pull    *)
(* (sync/engine.go).  Each HTTP request makes two queries, the counter and *)
(* then the rows, and nothing keeps a write from landing between them.     *)
(*                                                                         *)
(* A client is alone here: a pull only reads, so clients do not disturb    *)
(* each other.  What it does with an entry is SyncEngine's subject; this   *)
(* module remembers only which entry of a path it processed last (view).   *)
(***************************************************************************)
EXTENDS Index

CONSTANTS
  Scope,               \* the paths inside the device's scope
  PageLimit,           \* entries per page
  DiskMayLoseContent,  \* whether a live row's content can be away from the disk
  MaxChanges,              \* bound on the revisions handed out
  MaxAborts            \* bound on the pulls that are given up

ASSUME ScopeAssumption == Scope \subseteq Paths
ASSUME LimitAssumption == PageLimit \in Nat \ {0}
ASSUME LossAssumption == DiskMayLoseContent \in BOOLEAN
ASSUME BoundAssumption == MaxChanges \in Nat /\ MaxAborts \in Nat

VARIABLES
  pc,       \* where the pull stands
  cursor,   \* AllChanges' cursor: `since` of the request being made
  pageRev,  \* current_rev as the last request read it
  batch,    \* batch[p]: the newest entry of p collected and not applied yet
  view,     \* view[p]: the last entry of p this client processed
  lastRev,  \* the client's persisted cursor
  aborts    \* how many pulls were given up

serverVars == <<rows, currentRev>>
clientVars == <<pc, cursor, pageRev, batch, view, lastRev, aborts>>
changesVars == <<rows, currentRev, pc, cursor, pageRev, batch, view, lastRev, aborts>>

NoBatch == [p \in Paths |-> NoRow]

ChangesTypeOK ==
  /\ IndexTypeOK
  /\ pc \in {"idle", "counter", "rows", "apply"}
  /\ cursor \in Nat
  /\ pageRev \in Nat
  /\ batch \in [Paths -> Row]
  /\ view \in [Paths -> Row]
  /\ lastRev \in Nat
  /\ aborts \in Nat

ChangesInit ==
  /\ IndexInit
  /\ pc = "idle"
  /\ cursor = 0
  /\ pageRev = 0
  /\ batch = NoBatch
  /\ view = NoBatch
  /\ lastRev = 0
  /\ aborts = 0

----------------------------------------------------------------------------
(* The server: anything that writes the index, at any moment. *)

ServerUpsert ==
  /\ currentRev < MaxChanges
  /\ \E p \in Paths, f \in Facts : Upsert(p, f)
  /\ UNCHANGED clientVars

ServerDelete ==
  /\ currentRev < MaxChanges
  /\ \E p \in Paths : rows[p] # NoRow /\ MarkDeleted(p)
  /\ UNCHANGED clientVars

(***************************************************************************)
(* The janitor drops tombstones TOMBSTONE_DAYS old.  The guard is the      *)
(* retention window's promise, not the server's: it knows no client's      *)
(* cursor, and counts on no client being away for that long.               *)
(***************************************************************************)
WithinRetention(p) == rows[p].rev <= lastRev

Prune ==
  /\ \E p \in Paths : WithinRetention(p) /\ PruneTombstone(p)
  /\ UNCHANGED clientVars

----------------------------------------------------------------------------
(* The client. *)

StartPull ==
  /\ pc = "idle"
  /\ pc' = "counter"
  /\ cursor' = lastRev
  /\ UNCHANGED <<serverVars, pageRev, batch, view, lastRev, aborts>>

\* The first query of a request: the counter, read before the rows.
ReadCounter ==
  /\ pc = "counter"
  /\ pc' = "rows"
  /\ pageRev' = currentRev
  /\ UNCHANGED <<serverVars, cursor, batch, view, lastRev, aborts>>

\* The scope is part of the query, so a page holds PageLimit rows of it.
MutFilterAfterLimit(since) == FirstRows(Paths, since, PageLimit) \cap Scope

Page(since) == FirstRows(Scope, since, PageLimit)

\* handleChanges asks for one row more than it sends.
More(since) == \E p \in Newer(Scope, since) : p \notin Page(since)

Collect(page) == [p \in Paths |-> IF p \in page THEN rows[p] ELSE batch[p]]

\* AllChanges asks again from the last entry's revision when it moved on.
ReadPageAndGoOn ==
  /\ pc = "rows"
  /\ More(cursor)
  /\ \E last \in Page(cursor) :
       /\ \A p \in Page(cursor) : rows[p].rev <= rows[last].rev
       /\ rows[last].rev > cursor
       /\ cursor' = rows[last].rev
  /\ batch' = Collect(Page(cursor))
  /\ pc' = "counter"
  /\ UNCHANGED <<serverVars, pageRev, view, lastRev, aborts>>

ReadLastPage ==
  /\ pc = "rows"
  /\ ~More(cursor) \/ Page(cursor) = {}
  /\ batch' = Collect(Page(cursor))
  /\ pc' = "apply"
  /\ UNCHANGED <<serverVars, cursor, pageRev, view, lastRev, aborts>>

\* pull applies the entries in the order of their revisions.
NextEntry(p) ==
  /\ batch[p] # NoRow
  /\ \A q \in Paths : batch[q] # NoRow => batch[p].rev <= batch[q].rev

ApplyEntry ==
  /\ pc = "apply"
  /\ \E p \in Paths :
       /\ NextEntry(p)
       /\ view' = [view EXCEPT ![p] = batch[p]]
       /\ batch' = [batch EXCEPT ![p] = NoRow]
  /\ UNCHANGED <<serverVars, pc, cursor, pageRev, lastRev, aborts>>

(***************************************************************************)
(* A download answered 404 is skipped.  GET says so of a path deleted      *)
(* since the page was read, and of a live row whose content is not on disk *)
(* at the moment.                                                          *)
(***************************************************************************)
SkipEntry ==
  /\ pc = "apply"
  /\ \E p \in Paths :
       /\ NextEntry(p)
       /\ ~batch[p].deleted
       /\ ~Live(p) \/ DiskMayLoseContent
       /\ batch' = [batch EXCEPT ![p] = NoRow]
  /\ UNCHANGED <<serverVars, pc, cursor, pageRev, view, lastRev, aborts>>

\* What SetLastRev stores: the counter as the last request read it.
MutCursorFromServer == currentRev
MutCursorRestarts == cursor
MutCursorBehind == pageRev - 1
CursorAfterPull == pageRev

FinishPull ==
  /\ pc = "apply"
  /\ batch = NoBatch
  /\ pc' = "idle"
  /\ lastRev' = CursorAfterPull
  /\ UNCHANGED <<serverVars, cursor, pageRev, batch, view, aborts>>

\* An error in a request or in applying an entry, or the client's death.
AbandonPull ==
  /\ pc # "idle"
  /\ aborts < MaxAborts
  /\ aborts' = aborts + 1
  /\ pc' = "idle"
  /\ batch' = NoBatch
  /\ UNCHANGED <<serverVars, cursor, pageRev, view, lastRev>>

PullStep ==
  \/ StartPull \/ ReadCounter \/ ReadPageAndGoOn \/ ReadLastPage
  \/ ApplyEntry \/ FinishPull

ChangesNext ==
  \/ ServerUpsert \/ ServerDelete \/ Prune
  \/ PullStep \/ SkipEntry \/ AbandonPull

ChangesSpec == ChangesInit /\ [][ChangesNext]_changesVars

----------------------------------------------------------------------------
(***************************************************************************)
(* PROTOCOL section 1: the one number a client keeps is "the last revision *)
(* it has fully processed".  Whatever was written while the client paged,  *)
(* and however many pulls it gave up half-way, no row at or below its      *)
(* cursor has been missed.                                                 *)
(***************************************************************************)
CursorComplete ==
  \A p \in Scope : rows[p].rev \in 1 .. lastRev => view[p] = rows[p]

(***************************************************************************)
(* A path the server has no row for any more is not live at the client: a  *)
(* client that never stays away longer than tombstones are kept learns of  *)
(* every deletion.                                                         *)
(***************************************************************************)
NoGhost == \A p \in Scope : rows[p] = NoRow => view[p].deleted

(***************************************************************************)
(* A client never goes back to an older entry of a path, not even when it  *)
(* reads again what it processed in a pull it gave up; and its cursor      *)
(* never goes back either.                                                 *)
(***************************************************************************)
NeverBackwards ==
  [][ /\ \A p \in Paths : view'[p].rev >= view[p].rev
      /\ lastRev' >= lastRev ]_changesVars

(***************************************************************************)
(* Once the server stops writing, paging ends and the client holds what    *)
(* the server holds.                                                       *)
(***************************************************************************)
CatchesUp ==
  <>[]( /\ lastRev = currentRev
        /\ \A p \in Scope : rows[p] # NoRow => view[p] = rows[p] )
=============================================================================
