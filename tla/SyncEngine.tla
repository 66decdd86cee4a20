----------------------------- MODULE SyncEngine -----------------------------
(***************************************************************************)
(* The command line client (clients/cli/internal/sync): every machine runs *)
(* cycles of SyncOnce, a pull and then a push, against one server, while   *)
(* its user edits the same folder.                                         *)
(*                                                                         *)
(* The server is the one FileServer promises, a request at a time, with    *)
(* files only; what a pull collects over several pages is Changes' subject *)
(* and is read here at once.  A body stands for a content together with    *)
(* its modification time: every edit makes a new one, numbered in order.   *)
(***************************************************************************)
EXTENDS Index, FiniteSetsExt

CONSTANTS
  Clients,          \* the machines
  Edited,           \* the paths users work on; the others are conflict names
  Rank,             \* Rank[p]: where p comes in the order of names
  MaxEdits,         \* bound on the edits of all users
  MaxAborts,        \* bound on the cycles that end in an error or a crash
  MidAirEdits,      \* whether a user may edit a file while it is downloaded
  WhileStopped,     \* whether users wait until no cycle runs
  MaxDeletes        \* Config.MaxDeletesPerPull

\* Config.MaxDeleteFraction is one quarter.
DeleteFraction == 4

Bodies == 1 .. MaxEdits

ASSUME BodiesAssumption == MaxEdits \in Nat /\ Facts = Bodies /\ NoFacts = 0
ASSUME FolderAssumption ==
  /\ Paths # {} /\ Edited \subseteq Paths
  /\ Rank \in [Paths -> Nat]
ASSUME CycleAssumption ==
  /\ MaxAborts \in Nat /\ MaxDeletes \in Nat
  /\ MidAirEdits \in BOOLEAN /\ WhileStopped \in BOOLEAN

VARIABLES
  archive,  \* the bodies the server has accepted; FileServer keeps them all
  disk,     \* disk[c][p]: the body of p on machine c, Absent if there is none
  record,   \* record[c][p]: the state database's row of p (Synced)
  lastRev,  \* lastRev[c]: the cursor in the state database
  job,      \* job[c]: where c's cycle stands
  edits,    \* how many edits there have been
  aborts,   \* how many cycles were cut short
  deleted   \* deleted[c]: what c's user has deleted since c last handled it

vars == <<rows, currentRev, archive, disk, record, lastRev, job, edits, aborts, deleted>>
serverVars == <<rows, currentRev, archive>>
userVars == <<edits, deleted>>

Absent == 0

\* stamp is what size and mtime said when the row was written, sum the hash.
Synced == [stamp : Bodies \cup {Absent}, sum : Bodies, rev : Nat]

NoRecord == [stamp |-> Absent, sum |-> Absent, rev |-> 0]

Known(c, p) == record[c][p] # NoRecord

Stages == {"idle", "apply", "forget", "unpark", "download", "install", "record",
           "push", "upload", "uploaded", "refetch", "reinstall", "rerecord",
           "deletions", "forgetgone"}

(***************************************************************************)
(* A cycle: batch holds the entries left to apply and upTo the revision    *)
(* the pull reaches; found the files left to push as Scan saw them and     *)
(* gone the deletions left; path, got and gotRev the request under way.    *)
(***************************************************************************)
Job == [at : Stages, batch : [Paths -> Row], upTo : Nat,
        found : [Paths -> Bodies \cup {Absent}], gone : SUBSET Paths,
        path : Paths, got : Bodies \cup {Absent}, gotRev : Nat]

NoBatch == [p \in Paths |-> NoRow]
NoFiles == [p \in Paths |-> Absent]

Idle == [at |-> "idle", batch |-> NoBatch, upTo |-> 0, found |-> NoFiles, gone |-> {},
         path |-> CHOOSE p \in Paths : TRUE, got |-> Absent, gotRev |-> 0]

TypeOK ==
  /\ IndexTypeOK
  /\ archive \subseteq Bodies
  /\ disk \in [Clients -> [Paths -> Bodies \cup {Absent}]]
  /\ record \in [Clients -> [Paths -> Synced \cup {NoRecord}]]
  /\ lastRev \in [Clients -> Nat]
  /\ job \in [Clients -> Job]
  /\ edits \in 0 .. MaxEdits
  /\ aborts \in 0 .. MaxAborts
  /\ deleted \in [Clients -> SUBSET Paths]

Init ==
  /\ IndexInit
  /\ archive = {}
  /\ disk = [c \in Clients |-> NoFiles]
  /\ record = [c \in Clients |-> [p \in Paths |-> NoRecord]]
  /\ lastRev = [c \in Clients |-> 0]
  /\ job = [c \in Clients |-> Idle]
  /\ edits = 0
  /\ aborts = 0
  /\ deleted = [c \in Clients |-> {}]

At(c, stage) == job[c].at = stage

Go(c, stage) == job' = [job EXCEPT ![c].at = stage]

End(c) == job' = [job EXCEPT ![c] = Idle]

Put(c, p, b) == disk' = [disk EXCEPT ![c][p] = b]

Record(c, p, r) == record' = [record EXCEPT ![c][p] = r]

MutForget(c, p) == Record(c, p, [NoRecord EXCEPT !.rev = record[c][p].rev])

Forget(c, p) == Record(c, p, NoRecord)

----------------------------------------------------------------------------
(* Users. *)

\* The engine has looked at p and is about to rename another version over it.
InMidAir(c, p) ==
  /\ job[c].path = p
  /\ job[c].at \in {"unpark", "download", "install", "record",
                    "upload", "refetch", "reinstall", "rerecord"}

UserMayTouch(c, p) ==
  /\ edits < MaxEdits
  /\ MidAirEdits \/ ~InMidAir(c, p)
  /\ WhileStopped => At(c, "idle")

UserWrites(c, p) ==
  /\ UserMayTouch(c, p)
  /\ Put(c, p, edits + 1)
  /\ edits' = edits + 1
  /\ UNCHANGED deleted
  /\ UNCHANGED <<serverVars, record, lastRev, job, aborts>>

UserDeletes(c, p) ==
  /\ UserMayTouch(c, p)
  /\ disk[c][p] # Absent
  /\ Put(c, p, Absent)
  /\ edits' = edits + 1
  /\ deleted' = [deleted EXCEPT ![c] = @ \cup {p}]
  /\ UNCHANGED <<serverVars, record, lastRev, job, aborts>>

----------------------------------------------------------------------------
(* Pull. *)

\* A tombstone may remove what was recorded as synced and has not changed.
MutDeletable(c, p) == Known(c, p)

Deletable(c, p) == Known(c, p) /\ disk[c][p] \in {record[c][p].stamp, record[c][p].sum}

DeleteLimit(known) ==
  IF known = 0 THEN MaxDeletes
  ELSE Max({1, Min({MaxDeletes, known \div DeleteFraction})})

\* checkDeleteGuard: too many deletions at once and the pull is refused.
GuardAllows(c, batch) ==
  Cardinality({p \in Paths : /\ batch[p] # NoRow /\ batch[p].deleted
                             /\ disk[c][p] # Absent /\ Deletable(c, p)})
    <= DeleteLimit(Cardinality({p \in Paths : Known(c, p)}))

MutChanged(since) == [p \in Paths |-> IF p \in Newer(Paths, since + 1) THEN rows[p] ELSE NoRow]

Changed(since) == [p \in Paths |-> IF p \in Newer(Paths, since) THEN rows[p] ELSE NoRow]

StartCycle(c) ==
  /\ At(c, "idle")
  /\ GuardAllows(c, Changed(lastRev[c]))
  /\ job' = [job EXCEPT ![c].at = "apply", ![c].batch = Changed(lastRev[c]),
                        ![c].upTo = currentRev]
  /\ UNCHANGED <<serverVars, disk, record, lastRev, userVars, aborts>>

NextEntry(c, p) ==
  /\ job[c].batch[p] # NoRow
  /\ \A q \in Paths : job[c].batch[q] # NoRow => job[c].batch[p].rev <= job[c].batch[q].rev

EntryDone(c, p) == job' = [job EXCEPT ![c].batch[p] = NoRow, ![c].at = "apply"]

\* Our own write, coming back to us.
MutNoEcho(c, p) == FALSE

Echo(c, p) ==
  LET e == job[c].batch[p] IN
  /\ ~e.deleted /\ Known(c, p)
  /\ record[c][p].rev = e.rev /\ record[c][p].sum = e.facts

ApplyEcho(c) ==
  /\ At(c, "apply")
  /\ \E p \in Paths : NextEntry(c, p) /\ Echo(c, p) /\ EntryDone(c, p)
  /\ UNCHANGED <<serverVars, disk, record, lastRev, userVars, aborts>>

\* A deletion of what is not here, or of what may not go: keep it, forget it.
ApplyDeletionKeeps(c) ==
  /\ At(c, "apply")
  /\ \E p \in Paths :
       /\ NextEntry(c, p) /\ job[c].batch[p].deleted
       /\ disk[c][p] = Absent \/ ~Deletable(c, p)
       /\ Forget(c, p)
       /\ EntryDone(c, p)
  /\ UNCHANGED <<serverVars, disk, lastRev, userVars, aborts>>

ApplyDeletionRemoves(c) ==
  /\ At(c, "apply")
  /\ \E p \in Paths :
       /\ NextEntry(c, p) /\ job[c].batch[p].deleted
       /\ disk[c][p] # Absent /\ Deletable(c, p)
       /\ Put(c, p, Absent)
       /\ job' = [job EXCEPT ![c].path = p, ![c].at = "forget"]
  /\ UNCHANGED <<serverVars, record, lastRev, userVars, aborts>>

ForgetRemoved(c) ==
  /\ At(c, "forget")
  /\ Forget(c, job[c].path)
  /\ EntryDone(c, job[c].path)
  /\ UNCHANGED <<serverVars, disk, lastRev, userVars, aborts>>

\* Both sides moved, as far as the record can tell.
BothMoved(c, p) == Known(c, p) /\ disk[c][p] \notin {Absent, record[c][p].sum}

FileEntry(c, p) ==
  NextEntry(c, p) /\ ~job[c].batch[p].deleted /\ ~Echo(c, p)

ApplyIdentical(c) ==
  /\ At(c, "apply")
  /\ \E p \in Paths :
       /\ FileEntry(c, p) /\ disk[c][p] = job[c].batch[p].facts
       /\ Record(c, p, [stamp |-> disk[c][p], sum |-> disk[c][p], rev |-> job[c].batch[p].rev])
       /\ EntryDone(c, p)
  /\ UNCHANGED <<serverVars, disk, lastRev, userVars, aborts>>

\* A name no file has had: ConflictName, here and on the server.
Fresh(q) == q \notin Edited /\ rows[q] = NoRow /\ \A c \in Clients : disk[c][q] = Absent

FirstFresh(q) == Fresh(q) /\ \A s \in Paths : Fresh(s) => Rank[q] <= Rank[s]

Park(c) ==
  /\ At(c, "apply")
  /\ \E p, q \in Paths :
       /\ FileEntry(c, p) /\ disk[c][p] # job[c].batch[p].facts /\ BothMoved(c, p)
       /\ FirstFresh(q)
       /\ disk' = [disk EXCEPT ![c][q] = disk[c][p], ![c][p] = Absent]
       /\ job' = [job EXCEPT ![c].path = p, ![c].at = "unpark"]
  /\ UNCHANGED <<serverVars, record, lastRev, userVars, aborts>>

ForgetParked(c) ==
  /\ At(c, "unpark")
  /\ Forget(c, job[c].path)
  /\ Go(c, "download")
  /\ UNCHANGED <<serverVars, disk, lastRev, userVars, aborts>>

ApplyRemote(c) ==
  /\ At(c, "apply")
  /\ \E p \in Paths :
       /\ FileEntry(c, p) /\ disk[c][p] # job[c].batch[p].facts /\ ~BothMoved(c, p)
       /\ job' = [job EXCEPT ![c].path = p, ![c].at = "download"]
  /\ UNCHANGED <<serverVars, disk, record, lastRev, userVars, aborts>>

MutDownload(c) ==
  LET p == job[c].path IN
  /\ At(c, "download")
  /\ \/ /\ Live(p)
        /\ job' = [job EXCEPT ![c].got = rows[p].facts, ![c].at = "install"]
        /\ Record(c, p, [stamp |-> rows[p].facts, sum |-> job[c].batch[p].facts,
                         rev |-> job[c].batch[p].rev])
     \/ ~Live(p) /\ EntryDone(c, p) /\ UNCHANGED record
  /\ UNCHANGED <<serverVars, disk, lastRev, userVars, aborts>>

\* GET answers with what is there now, which may be newer than the entry.
Download(c) ==
  LET p == job[c].path IN
  /\ At(c, "download")
  /\ \/ Live(p) /\ job' = [job EXCEPT ![c].got = rows[p].facts, ![c].at = "install"]
     \/ ~Live(p) /\ EntryDone(c, p)
  /\ UNCHANGED <<serverVars, disk, record, lastRev, userVars, aborts>>

Install(c) ==
  /\ \/ At(c, "install") /\ Go(c, "record")
     \/ At(c, "reinstall") /\ Go(c, "rerecord")
  /\ Put(c, job[c].path, job[c].got)
  /\ deleted' = [deleted EXCEPT ![c] = @ \ {job[c].path}]
  /\ UNCHANGED <<serverVars, record, lastRev, edits, aborts>>

\* The stamp is read back from the disk, hash and revision are the entry's.
RecordPulled(c) ==
  LET p == job[c].path IN
  /\ At(c, "record")
  /\ Record(c, p, [stamp |-> disk[c][p], sum |-> job[c].batch[p].facts,
                   rev |-> job[c].batch[p].rev])
  /\ EntryDone(c, p)
  /\ UNCHANGED <<serverVars, disk, lastRev, userVars, aborts>>

\* The cursor moves, and the push begins by scanning the folder.
FinishPull(c) ==
  /\ At(c, "apply")
  /\ job[c].batch = NoBatch
  /\ lastRev' = [lastRev EXCEPT ![c] = job[c].upTo]
  /\ job' = [job EXCEPT ![c] =
       [Idle EXCEPT !.at = "push", !.found = disk[c],
                    !.gone = {p \in Paths : Known(c, p) /\ disk[c][p] = Absent}]]
  /\ UNCHANGED <<serverVars, disk, record, userVars, aborts>>

----------------------------------------------------------------------------
(* Push. *)

NextFile(c, p) ==
  /\ job[c].found[p] # Absent
  /\ \A q \in Paths : job[c].found[q] # Absent => Rank[p] <= Rank[q]

FileDone(c, p) ==
  job' = [job EXCEPT ![c].found[p] = Absent, ![c].at = "push"]

Unmodified(c, p) == Known(c, p) /\ record[c][p].stamp = job[c].found[p]

\* Not modified, vanished since the scan, or modified in nothing but its time.
PushNothing(c) ==
  /\ At(c, "push")
  /\ \E p \in Paths :
       /\ NextFile(c, p)
       /\ \/ Unmodified(c, p) /\ UNCHANGED record
          \/ ~Unmodified(c, p) /\ disk[c][p] = Absent /\ UNCHANGED record
          \/ /\ ~Unmodified(c, p)
             /\ Known(c, p) /\ disk[c][p] = record[c][p].sum
             /\ record' = [record EXCEPT ![c][p].stamp = job[c].found[p]]
       /\ FileDone(c, p)
  /\ UNCHANGED <<serverVars, disk, lastRev, userVars, aborts>>

\* The snapshot that is hashed and sent.
Snapshot(c) ==
  /\ At(c, "push")
  /\ \E p \in Paths :
       /\ NextFile(c, p) /\ ~Unmodified(c, p)
       /\ disk[c][p] # Absent
       /\ ~(Known(c, p) /\ disk[c][p] = record[c][p].sum)
       /\ job' = [job EXCEPT ![c].path = p, ![c].got = disk[c][p], ![c].at = "upload"]
       /\ deleted' = [deleted EXCEPT ![c] = @ \ {p}]
  /\ UNCHANGED <<serverVars, disk, record, lastRev, edits, aborts>>

BaseRev(c) == record[c][job[c].path].rev

Upload(c) ==
  LET p == job[c].path IN
  /\ At(c, "upload")
  /\ \/ /\ LiveRev(p) = BaseRev(c)
        /\ Upsert(p, job[c].got)
        /\ job' = [job EXCEPT ![c].gotRev = currentRev', ![c].at = "uploaded"]
     \/ /\ LiveRev(p) # BaseRev(c)
        /\ \E q \in Paths : FirstFresh(q) /\ Upsert(q, job[c].got)
        /\ Go(c, "refetch")
  /\ archive' = archive \cup {job[c].got}
  /\ UNCHANGED <<disk, record, lastRev, userVars, aborts>>

\* The stamp is the scan's, so an edit made since then shows the next time.
RecordUploaded(c) ==
  LET p == job[c].path IN
  /\ At(c, "uploaded")
  /\ Record(c, p, [stamp |-> job[c].found[p], sum |-> job[c].got, rev |-> job[c].gotRev])
  /\ FileDone(c, p)
  /\ UNCHANGED <<serverVars, disk, lastRev, userVars, aborts>>

\* After a conflict the server's version is taken; if it is gone, an error.
Refetch(c) ==
  LET p == job[c].path IN
  /\ At(c, "refetch")
  /\ \/ Live(p) /\ job' = [job EXCEPT ![c].got = rows[p].facts, ![c].gotRev = rows[p].rev,
                                      ![c].at = "reinstall"]
     \/ ~Live(p) /\ End(c)
  /\ UNCHANGED <<serverVars, disk, record, lastRev, userVars, aborts>>

RecordRefetched(c) ==
  LET p == job[c].path IN
  /\ At(c, "rerecord")
  /\ Record(c, p, [stamp |-> disk[c][p], sum |-> job[c].got, rev |-> job[c].gotRev])
  /\ FileDone(c, p)
  /\ UNCHANGED <<serverVars, disk, lastRev, userVars, aborts>>

FilesPushed(c) ==
  /\ At(c, "push")
  /\ job[c].found = NoFiles
  /\ Go(c, "deletions")
  /\ UNCHANGED <<serverVars, disk, record, lastRev, userVars, aborts>>

\* pushDeletions, in reverse order: 404 and stale count as done.
PushDeletion(c) ==
  /\ At(c, "deletions")
  /\ \E p \in job[c].gone :
       /\ \A q \in job[c].gone : Rank[q] <= Rank[p]
       /\ IF Live(p) /\ LiveRev(p) = record[c][p].rev
          THEN MarkDeleted(p) ELSE UNCHANGED <<rows, currentRev>>
       /\ job' = [job EXCEPT ![c].path = p, ![c].at = "forgetgone"]
  /\ UNCHANGED <<archive, disk, record, lastRev, userVars, aborts>>

ForgetGone(c) ==
  LET p == job[c].path IN
  /\ At(c, "forgetgone")
  /\ Forget(c, p)
  /\ job' = [job EXCEPT ![c].gone = @ \ {p}, ![c].at = "deletions"]
  /\ UNCHANGED <<serverVars, disk, lastRev, userVars, aborts>>

EndCycle(c) ==
  /\ At(c, "deletions")
  /\ job[c].gone = {}
  /\ End(c)
  /\ UNCHANGED <<serverVars, disk, record, lastRev, userVars, aborts>>

(***************************************************************************)
(* A request fails, its answer is lost, or the client dies: the cycle is   *)
(* over, and what is on disk and in the state database stays.              *)
(***************************************************************************)
AbortCycle(c) ==
  /\ ~At(c, "idle")
  /\ aborts < MaxAborts
  /\ aborts' = aborts + 1
  /\ End(c)
  /\ UNCHANGED <<serverVars, disk, record, lastRev, userVars>>

PullStep(c) ==
  \/ StartCycle(c) \/ ApplyEcho(c) \/ ApplyDeletionKeeps(c) \/ ApplyDeletionRemoves(c)
  \/ ForgetRemoved(c) \/ ApplyIdentical(c) \/ Park(c) \/ ForgetParked(c)
  \/ ApplyRemote(c) \/ Download(c) \/ Install(c) \/ RecordPulled(c) \/ FinishPull(c)

PushStep(c) ==
  \/ PushNothing(c) \/ Snapshot(c) \/ Upload(c) \/ RecordUploaded(c) \/ Refetch(c)
  \/ RecordRefetched(c) \/ FilesPushed(c) \/ PushDeletion(c) \/ ForgetGone(c) \/ EndCycle(c)

EngineStep(c) == PullStep(c) \/ PushStep(c)

UserStep(c) == \E p \in Paths :
  \/ p \in Edited /\ UserWrites(c, p)
  \/ p \in Edited /\ UserDeletes(c, p)

Next == \E c \in Clients : EngineStep(c) \/ UserStep(c) \/ AbortCycle(c)

Spec == Init /\ [][Next]_vars

(***************************************************************************)
(* Each client polls for ever and a cycle under way goes on.  Nothing      *)
(* makes a user edit or a cycle fail.                                      *)
(***************************************************************************)
FairSpec == Spec /\ \A c \in Clients : WF_vars(EngineStep(c))

----------------------------------------------------------------------------
OnDisk(c, b) == \E p \in Paths : disk[c][p] = b

\* The engine takes b from c's folder, and the server does not have it.
Discards(c, p) ==
  /\ edits' = edits
  /\ disk[c][p] # Absent
  /\ disk[c][p] \notin archive'
  /\ ~\E q \in Paths : disk'[c][q] = disk[c][p]

(***************************************************************************)
(* The client's README: conflicts keep both versions, "nothing is          *)
(* discarded and nothing is merged".  Whatever the engine does to a        *)
(* folder, a body in it is still there afterwards, under its own or a      *)
(* conflict name, unless the server has it.                                *)
(***************************************************************************)
NothingDiscarded ==
  [][ \A c \in Clients, p \in Paths : ~Discards(c, p) ]_vars

(***************************************************************************)
(* The same of the files the state database knows: an edit of a file that  *)
(* was ever agreed on is never lost, whatever the other machines do to it, *)
(* in whatever order, and wherever a cycle breaks off.                     *)
(***************************************************************************)
RecordedIsSafe ==
  [][ \A c \in Clients, p \in Paths : Known(c, p) => ~Discards(c, p) ]_vars

(***************************************************************************)
(* Only a user deletes: a path that was live becomes a tombstone only by a *)
(* client whose user has deleted it there (deleted is cleared only when a  *)
(* file comes to that path again, so the wish may be an old one).  A       *)
(* folder emptied by the engine itself, half-way through a pull that died, *)
(* is never taken for a wish.                                              *)
(***************************************************************************)
OnlyUsersDelete ==
  [][ \A p \in Paths : Live(p) /\ ~Live(p)' => \E c \in Clients : p \in deleted[c] ]_vars

(***************************************************************************)
(* A file its user deleted comes back only for a version newer than the    *)
(* one that was deleted: reading back what this machine uploaded itself    *)
(* does not undo a deletion made since (the echo in Engine.apply).  That   *)
(* is so of deletions made while no cycle runs, too, although the README   *)
(* of the client has those come back (StoppedDeletionsComeBack).           *)
(***************************************************************************)
DeletionsStay ==
  [][ \A c \in Clients, p \in Edited :
        edits' = edits /\ p \in deleted[c] /\ disk[c][p] = Absent /\ disk'[c][p] # Absent
          => job[c].batch[p].rev > record[c][p].rev ]_vars

(***************************************************************************)
(* clients/cli/README.md:274-276: "A file removed from a stopped client's  *)
(* folder is, to the next cycle, a file the server has and this machine    *)
(* does not", and it comes back.  A client run with -once is stopped       *)
(* whenever no cycle is under way.  What pushDeletions finds gone it takes *)
(* for deleted, whenever it went.                                          *)
(***************************************************************************)
RemovedWhileStopped(c, p) ==
  At(c, "idle") /\ p \in deleted[c] /\ disk[c][p] = Absent /\ Live(p)

StoppedDeletionsComeBack ==
  \A c \in Clients, p \in Edited : RemovedWhileStopped(c, p) ~> disk[c][p] # Absent

(***************************************************************************)
(* When users stop, every machine comes to hold what the server holds, and *)
(* nothing is uploaded any more: no two clients hand a file back and forth *)
(* for ever.                                                               *)
(***************************************************************************)
InStep ==
  \A c \in Clients, p \in Paths :
    disk[c][p] = IF Live(p) THEN rows[p].facts ELSE Absent

Settles == <>[]InStep /\ <>[][UNCHANGED rows]_vars
=============================================================================
