---------------------------- MODULE ServerFiles ----------------------------
(***************************************************************************)
(* The write handlers of the server (api/files.go) over the disk           *)
(* (store/store.go), the trash (trash/trash.go) and the index.  A handler  *)
(* runs in a goroutine of its own and takes no lock: each action below is  *)
(* one query, one transaction or one rename of one request, and the steps  *)
(* of different requests interleave.  net/http gives no order to them.     *)
(* The index goes by the path as it is spelled, the disk by what the       *)
(* volume makes of it.                                                     *)
(*                                                                         *)
(* GET changes nothing and is left out; so are restores from the trash and *)
(* the rescan, which have modules of their own in the plan.                *)
(***************************************************************************)
EXTENDS FileCalls

CONSTANTS
  Above,           \* Above[p]: the directories p is in, nearest or not
  On,              \* On[p]: the name under which the volume files p
  Racing,          \* whether requests on related paths may overlap in time
  ConflictsApart,  \* whether every conflict name is a new one
  Failures         \* which errors happen: see FailureKinds

FailureKinds == {"interrupted", "mismatch", "index", "crash"}

ASSUME TreeAssumption ==
  /\ Above \in [Paths -> SUBSET Paths]
  /\ \A p \in Paths : p \notin Above[p] /\ \A q \in Above[p] : Above[q] \subseteq Above[p]
  /\ \A p \in Named : \A c \in Copies[p] : Above[c] = Above[p]
\* A volume that tells letter cases apart files every path under its own name.
\* One that does not files some under the name of another, all of which FoldPath
\* folds with it, and their directories likewise.
ASSUME VolumeAssumption ==
  /\ On \in [Paths -> Paths]
  /\ \A p \in Paths : On[On[p]] = On[p] /\ Above[On[p]] = {On[a] : a \in Above[p]}
  /\ \A p, q \in Paths : On[p] = On[q] => Fold[p] = Fold[q]
ASSUME EnvironmentAssumption ==
  /\ Racing \in BOOLEAN
  /\ ConflictsApart \in BOOLEAN
  /\ Failures \subseteq FailureKinds

VARIABLES
  job,    \* job[r]: the handler of r, Idle when there is none
  disk,   \* disk[k]: what the volume files under k: a body, Directory or Nothing
  trash   \* the bodies in the trash

vars == <<rows, currentRev, call, answer, job, disk, trash>>
indexVars == <<rows, currentRev>>

Nothing == "nothing"

ASSUME NothingAssumption == Nothing \notin Facts \cup {NoFacts}

Stages == {"lookup", "check", "trash", "write", "undo", "record", "remove", "mark", "mkdir"}

\* seen is the row Lookup returned, target the path written to.
Job == [at : Stages, seen : Row, target : Paths]

Idle == [at |-> "idle"]

TypeOK ==
  /\ IndexTypeOK
  /\ CallsTypeOK
  /\ job \in [Reqs -> Job \cup {Idle}]
  /\ \A r \in Reqs : job[r] # Idle <=> Open(r)
  /\ disk \in [Paths -> Reqs \cup {Directory, Nothing}]
  /\ trash \subseteq Reqs

Init ==
  /\ IndexInit
  /\ CallsInit
  /\ job = [r \in Reqs |-> Idle]
  /\ disk = [p \in Paths |-> Nothing]
  /\ trash = {}

----------------------------------------------------------------------------
(* The disk. *)

Body(p) == disk[p] \notin {Directory, Nothing}

\* What a rename of p takes along.
Subtree(p) == {q \in Paths : q = p \/ p \in Above[q]}

\* MkdirAll fails where a file is in the way.
CanMakeParents(p) == \A a \in Above[p] : ~Body(a)

MakeParents(p) == [q \in Paths |-> IF q \in Above[p] THEN Directory ELSE disk[q]]

----------------------------------------------------------------------------
(* Handlers. *)

Path(r) == call[r].path

\* Where on the volume r's path is, and where the path its handler writes is.
Place(r) == On[Path(r)]

Spot(r) == On[job[r].target]

At(r, stage) == job[r] # Idle /\ job[r].at = stage

Go(r, stage) == job' = [job EXCEPT ![r].at = stage] /\ UNCHANGED callVars

MutFinish(r, a) == UNCHANGED job /\ Reply(r, a)

Finish(r, a) == job' = [job EXCEPT ![r] = Idle] /\ Reply(r, a)

Related(j, k) == j = k \/ j \in Above[k] \/ k \in Above[j]

\* Where on the volume the handler of r writes, or may come to write: two
\* spellings the volume does not tell apart claim the same place.
Claims(r) == {Place(r), Spot(r)}

Arrive(r) ==
  /\ \E op \in Ops, p \in Named, base \in 0 .. currentRev :
       /\ Racing \/ \A q \in Reqs : Open(q) => \A x \in Claims(q) : ~Related(On[p], x)
       /\ Ask(r, op, p, base)
       /\ job' = [job EXCEPT ![r] = [at |-> "lookup", seen |-> NoRow, target |-> p]]
  /\ UNCHANGED <<indexVars, disk, trash>>

Proceed(r, stage) ==
  /\ job' = [job EXCEPT ![r].at = stage, ![r].seen = rows[Path(r)]]
  /\ UNCHANGED callVars

LookupPut(r) ==
  LET p == Path(r) IN
  /\ At(r, "lookup") /\ call[r].op = "put"
  /\ \/ IsDirectory(p) /\ Finish(r, "is_directory")
     \/ ~IsDirectory(p) /\ Proceed(r, "check")
  /\ UNCHANGED <<indexVars, disk, trash>>

\* Deleting what one has not seen the latest version of would discard it.
LookupDelete(r) ==
  LET p == Path(r) IN
  /\ At(r, "lookup") /\ call[r].op = "delete"
  /\ \/ ~Live(p) /\ Finish(r, "not_found")
     \/ Live(p) /\ LiveRev(p) # call[r].base /\ Finish(r, "stale")
     \/ Live(p) /\ LiveRev(p) = call[r].base /\ Proceed(r, "remove")
  /\ UNCHANGED <<indexVars, disk, trash>>

LookupDir(r) ==
  LET p == Path(r) IN
  /\ At(r, "lookup") /\ call[r].op = "mkdir"
  /\ \/ IsFile(p) /\ Finish(r, "is_file")
     \/ IsDirectory(p) /\ Finish(r, "made")
     \/ ~Live(p) /\ Proceed(r, "check")
  /\ UNCHANGED <<indexVars, disk, trash>>

Lookup(r) == LookupPut(r) \/ LookupDelete(r) \/ LookupDir(r)

SeenRev(r) == IF job[r].seen.deleted THEN 0 ELSE job[r].seen.rev

MutNeverConflicts(r) == FALSE

\* Two machines edited from the same base, as far as Lookup could tell.
Conflicts(r) == SeenRev(r) # call[r].base

ReplacesFile(r) == ~job[r].seen.deleted /\ job[r].seen.facts # Directory

\* conflictName has a resolution of one second: ConflictsApart says that no two
\* conflicts of one path and one device fall into the same one, and that nobody
\* has asked for such a name before it exists.
ConflictName(r, c) ==
  /\ c \in Copies[Path(r)]
  /\ ConflictsApart =>
       /\ disk[On[c]] = Nothing
       /\ \A d \in Paths : On[d] = On[c] => rows[d] = NoRow
       /\ \A q \in Reqs \ {r} : Open(q) =>
            \A x \in Claims(q) : On[c] # x /\ On[c] \notin Above[x]

MutNoTwin(r) == TRUE

\* CheckCaseCollision: no other spelling of the path is live.
NoTwin(r) == ~CaseCollision(Path(r))

CheckCase(r) ==
  /\ At(r, "check")
  /\ CaseCollision(Path(r))
  /\ Finish(r, "case_collision")
  /\ UNCHANGED <<indexVars, disk, trash>>

\* The body goes beside the original, or the original makes room for it.
CheckPut(r) ==
  /\ At(r, "check") /\ call[r].op = "put"
  /\ NoTwin(r)
  /\ \/ /\ Conflicts(r)
        /\ \E c \in Paths :
             /\ ConflictName(r, c)
             /\ job' = [job EXCEPT ![r].at = "write", ![r].target = c]
        /\ UNCHANGED callVars
     \/ ~Conflicts(r) /\ Go(r, IF ReplacesFile(r) THEN "trash" ELSE "write")
  /\ UNCHANGED <<indexVars, disk, trash>>

CheckDir(r) ==
  /\ At(r, "check") /\ call[r].op = "mkdir"
  /\ NoTwin(r)
  /\ Go(r, "mkdir")
  /\ UNCHANGED <<indexVars, disk, trash>>

Check(r) == CheckCase(r) \/ CheckPut(r) \/ CheckDir(r)

\* moveToTrash: a rename, and nothing to do if the path is not there.
MutTrashForgets(p) ==
  /\ disk' = [q \in Paths |-> IF q \in Subtree(p) THEN Nothing ELSE disk[q]]
  /\ UNCHANGED trash

ToTrash(p) ==
  /\ disk' = [q \in Paths |-> IF q \in Subtree(p) THEN Nothing ELSE disk[q]]
  /\ trash' = trash \cup {disk[q] : q \in {s \in Subtree(p) : Body(s)}}

MoveToTrash(r) ==
  /\ At(r, "trash")
  /\ ToTrash(Place(r))
  /\ Go(r, "write")
  /\ UNCHANGED indexVars

(***************************************************************************)
(* store.Write: parents, a temporary file beside the target, a rename over *)
(* it.  The body is hashed on the way, and a body that is not what the     *)
(* client declared is found out after the rename.                          *)
(***************************************************************************)
Write(r) ==
  LET t == Spot(r) IN
  /\ At(r, "write")
  /\ CanMakeParents(t) /\ disk[t] # Directory
  /\ disk' = [MakeParents(t) EXCEPT ![t] = r]
  /\ \/ Go(r, "record")
     \/ "mismatch" \in Failures /\ Go(r, "undo")
  /\ UNCHANGED <<indexVars, trash>>

\* The connection breaks before the body is complete, or the rename fails.
WriteFails(r) ==
  LET t == Spot(r) IN
  /\ At(r, "write")
  /\ \/ /\ CanMakeParents(t)
        /\ "interrupted" \in Failures \/ disk[t] = Directory
        /\ disk' = MakeParents(t)
     \/ ~CanMakeParents(t) /\ UNCHANGED disk
  /\ Finish(r, "failed")
  /\ UNCHANGED <<indexVars, trash>>

HasChild(p) == \E q \in Paths : p \in Above[q] /\ disk[q] # Nothing

\* store.Remove: a file or an empty directory.
RemovePath(p) == disk' = [disk EXCEPT ![p] = IF HasChild(p) THEN @ ELSE Nothing]

\* 422 hash_mismatch: the write is undone by removing the target.
Undo(r) ==
  /\ At(r, "undo")
  /\ RemovePath(Spot(r))
  /\ Finish(r, "failed")
  /\ UNCHANGED <<indexVars, trash>>

\* A row is written, or it is not and what is on disk waits for the rescan.
RecordAs(r, facts, done) ==
  /\ \/ Upsert(job[r].target, facts) /\ Finish(r, done)
     \/ CaseCollision(job[r].target) /\ Finish(r, "case_collision") /\ UNCHANGED indexVars
     \/ "index" \in Failures /\ Finish(r, "failed") /\ UNCHANGED indexVars
  /\ UNCHANGED <<disk, trash>>

RecordFile(r) ==
  /\ At(r, "record") /\ call[r].op = "put"
  /\ RecordAs(r, r, IF job[r].target = Path(r) THEN "stored" ELSE "conflict")

RecordDir(r) ==
  /\ At(r, "record") /\ call[r].op = "mkdir"
  /\ RecordAs(r, Directory, "made")

Record(r) == RecordFile(r) \/ RecordDir(r)

Mkdir(r) ==
  /\ At(r, "mkdir")
  /\ \/ /\ CanMakeParents(Place(r)) /\ ~Body(Place(r))
        /\ disk' = [MakeParents(Place(r)) EXCEPT ![Place(r)] = Directory]
        /\ Go(r, "record")
     \/ /\ ~CanMakeParents(Place(r)) \/ Body(Place(r))
        /\ Finish(r, "failed")
        /\ UNCHANGED disk
  /\ UNCHANGED <<indexVars, trash>>

\* A file goes to the trash; a directory goes if nothing is in it.
MutRemoveLater(r) ==
  /\ At(r, "remove")
  /\ Go(r, "mark")
  /\ UNCHANGED <<indexVars, disk, trash>>

Remove(r) ==
  LET p == Place(r) IN
  /\ At(r, "remove")
  /\ \/ ReplacesFile(r) /\ ToTrash(p) /\ Go(r, "mark")
     \/ ~ReplacesFile(r) /\ ~HasChild(p) /\ RemovePath(p) /\ Go(r, "mark") /\ UNCHANGED trash
     \/ ~ReplacesFile(r) /\ HasChild(p) /\ Finish(r, "failed") /\ UNCHANGED <<disk, trash>>
  /\ UNCHANGED indexVars

Mark(r) ==
  /\ At(r, "mark")
  /\ \/ MarkDeleted(Path(r)) /\ Finish(r, "deleted")
     \/ "index" \in Failures /\ UNCHANGED indexVars /\ Finish(r, "failed")
  /\ UNCHANGED <<disk, trash>>

\* The process dies: disk, trash and index are what they are.
Crash ==
  /\ "crash" \in Failures
  /\ \E r \in Reqs : Open(r)
  /\ FailAll({r \in Reqs : Open(r)})
  /\ job' = [r \in Reqs |-> Idle]
  /\ UNCHANGED <<indexVars, disk, trash>>

Step(r) ==
  \/ Arrive(r) \/ Lookup(r) \/ Check(r) \/ MoveToTrash(r) \/ Write(r) \/ WriteFails(r)
  \/ Undo(r) \/ Record(r) \/ Mkdir(r) \/ Remove(r) \/ Mark(r)

Next == (\E r \in Reqs : Step(r)) \/ Crash

Spec == Init /\ [][Next]_vars

----------------------------------------------------------------------------
Retrievable(r) == r \in trash \/ \E p \in Paths : disk[p] = r

(***************************************************************************)
(* PROTOCOL section 7: no content is ever lost.  A body the server has     *)
(* accepted is on disk or in the trash from then on, whatever replaces it, *)
(* deletes it or fails half-way.  On a volume that does not tell letter    *)
(* cases apart it also rests on the check before the write (CheckCase).    *)
(***************************************************************************)
NoLostContent == \A r \in Reqs : Accepted(r) => Retrievable(r)

Working(k) == \E r \in Reqs : Open(r) /\ (Related(k, Place(r)) \/ k = Spot(r))

\* A request that failed half-way has touched k.
Damaged(k) ==
  \E r \in Reqs : /\ answer[r] \in {"failed", "case_collision"}
                  /\ Related(k, Place(r)) \/ k \in {On[c] : c \in Copies[Path(r)]}

\* The paths filed under k: one at most has a live row.
Names(k) == {p \in Paths : On[p] = k}

Places == {k \in Paths : On[k] = k}

(***************************************************************************)
(* The index is true: where nothing is under way and nothing went wrong, a *)
(* live row describes what the volume has under its name, and a file there *)
(* has a row, by whatever spelling.                                        *)
(* Directories made on the way to a file wait for the rescan.              *)
(***************************************************************************)
IndexTrue ==
  \A k \in Places : ~Working(k) /\ ~Damaged(k) =>
    /\ \A p \in Names(k) : Live(p) => disk[k] = rows[p].facts
    /\ Body(k) => \E p \in Names(k) : Live(p)

(***************************************************************************)
(* PROTOCOL section 5: an upload that does not make it leaves nothing      *)
(* behind; store.Write calls it no damage.  What clients are told is there *)
(* can be fetched once nobody is working on it.                            *)
(***************************************************************************)
FailedUploadDoesNoDamage ==
  \A p \in Paths : Live(p) /\ ~Working(On[p]) => disk[On[p]] # Nothing

(***************************************************************************)
(* Requests on unrelated paths seem to happen one at a time, each against  *)
(* the revision it names: the handlers keep the promises of FileServer.    *)
(***************************************************************************)
Promise == INSTANCE FileServer WITH kept <- {r \in Reqs : Accepted(r) /\ Retrievable(r)}

PromiseKept == Promise!Spec
=============================================================================
