------------------------------ MODULE DataDir ------------------------------
(***************************************************************************)
(* Everything but the file API that keeps the data directory and the index *)
(* together: the periodic rescan (index/scan.go) inside the janitor's loop *)
(* (cmd/homesync/main.go), the watcher (index/watch.go), the restore from  *)
(* the trash and the purge of ignored paths (api/misc.go), and the shared  *)
(* rules they ask (ignore/shared.go).  Each is a goroutine of its own and  *)
(* they share no lock: every action below is one system call, one query or *)
(* one transaction.  Uploads and deletions are the writers of ServerFiles  *)
(* without their refusals and failures, and files also change by hand, on  *)
(* the volume itself.  Of a row only what it says is kept: revisions and   *)
(* collisions are those of module Index.                                   *)
(*                                                                         *)
(* A file is its content and its stamp, the size and modification time the *)
(* quick check compares.  Every change gives a file a new stamp: two files *)
(* of one size and one millisecond are outside the model.                  *)
(***************************************************************************)
EXTENDS Integers, FiniteSets

CONSTANTS
  Paths,
  Above,      \* Above[p]: the directories p is in, nearest or not
  Order,      \* Order[p]: where the name of p comes in a sorted listing
  Rules,      \* the rule documents
  Excluded,   \* Excluded[r]: what Skip leaves out, as pairs of path and isDir
  Directory, Nothing,
  FirstRules, \* the document in force at first
  Found, Kept, \* what disk and trash hold at first, all of it accepted once
  Used,       \* how many times files were written or touched before that
  Blind,      \* whether uploads, restores and purges may come upon a path the
              \* index, or a list taken from it, has wrong, or upon each other
  MaxStamps,  \* bound: how many times a file is written or touched
  MaxEvents   \* bound: how many requests, changes by hand and crashes

Stamps == 1 .. MaxStamps

File == [content : Stamps, stamp : Stamps]

Facts == File \cup {Directory}

ASSUME TreeAssumption ==
  /\ Paths # {} /\ IsFiniteSet(Paths)
  /\ Above \in [Paths -> SUBSET Paths]
  /\ \A p \in Paths : p \notin Above[p] /\ \A q \in Above[p] : Above[q] \subseteq Above[p]
  /\ Order \in [Paths -> Nat]
  /\ \A p \in Paths : \A q \in Above[p] : Order[q] < Order[p]
ASSUME RulesAssumption ==
  /\ Excluded \in [Rules -> SUBSET (Paths \X BOOLEAN)]
  /\ FirstRules \in Rules
ASSUME FirstAssumption ==
  /\ Found \in [Paths -> Facts \cup {Nothing}]
  /\ Kept \subseteq [path : Paths, file : File, listed : {TRUE}]
  /\ \A f \in {Found[p] : p \in Paths} \cup {i.file : i \in Kept} :
       f \in File => f.content <= Used /\ f.stamp <= Used
  /\ \A p \in Paths : Found[p] # Nothing => \A q \in Above[p] : Found[q] = Directory
ASSUME BoundsAssumption ==
  /\ MaxStamps \in Nat /\ MaxEvents \in Nat
  /\ Used \in 0 .. MaxStamps
  /\ Blind \in BOOLEAN
ASSUME KindsAssumption == Directory \notin File /\ Nothing \notin Facts

VARIABLES
  index,     \* index[p]: what the live row of p says, Nothing if there is none
  disk,      \* disk[p]: the file at p, Directory or Nothing
  trash,     \* the items of the trash, and what lies in it without being one
  stored,    \* the rule document in the meta table
  rules,     \* the one in memory: Shared.rules
  janitor,   \* where the janitor's loop is
  serving,   \* the first scan is over
  watched,   \* the directories the watcher has told the kernel about
  timers,    \* the paths whose debounce timer runs
  apply,     \* the watcher's work on one path
  call,      \* an upload or a deletion
  restore,   \* a restore
  save,      \* a save of the rules
  stamps, events,
  owed,      \* the contents accepted and neither purged nor replaced by hand since
  calm       \* whether anything but a scan has changed what the scan compares

ruleVars == <<stored, rules>>
diskVars == <<disk, trash, owed>>
vars == <<index, ruleVars, diskVars, janitor, serving, watched, timers,
          apply, call, restore, save, stamps, events, calm>>

----------------------------------------------------------------------------
(* The disk. *)

IsFileAt(p) == disk[p] \in File

Subtree(p) == {q \in Paths : q = p \/ p \in Above[q]}

HasChild(p) == \E q \in Paths : p \in Above[q] /\ disk[q] # Nothing

CanMakeParents(p) == \A a \in Above[p] : ~IsFileAt(a)

Placed(p, what) ==
  [q \in Paths |-> IF q = p THEN what ELSE IF q \in Above[p] THEN Directory ELSE disk[q]]

Without(S) == [q \in Paths |-> IF q \in S THEN Nothing ELSE disk[q]]

\* moveToTrash renames p; what a directory takes along is in no listing.
MovedToTrash(p) ==
  /\ disk' = Without(Subtree(p))
  /\ trash' = trash \cup {[path |-> q, file |-> disk[q], listed |-> q = p] :
                            q \in {s \in Subtree(p) : IsFileAt(s)}}

\* Every content that is somewhere.
Contents ==
  {disk[p].content : p \in {q \in Paths : IsFileAt(q)}} \cup {i.file.content : i \in trash}

Item == [path : Paths, file : File, listed : BOOLEAN]

\* Shared.Skip: what the scan, the watcher and the purge leave out.
Skip(p, isDir) == <<p, isDir>> \in Excluded[rules]

\* Index!Upsert and Index!MarkDeleted, each with the next revision.
Upsert(p, facts) == index' = [index EXCEPT ![p] = facts]

MarkDeleted(p) == index' = [index EXCEPT ![p] = Nothing]

(***************************************************************************)
(* handle and schedule: an event comes for what changes in a directory     *)
(* that is watched, unless fsnotify drops it; an excluded path is passed   *)
(* over; a new directory is watched from then on, with what is in it.      *)
(***************************************************************************)
Noticed(changed) ==
  \E seen \in {{}, {p \in changed : serving /\ ~Skip(p, disk'[p] = Directory)}} :
    LET heard == {p \in seen : Above[p] \subseteq watched \cup seen} IN
    /\ timers' = timers \cup heard
    /\ watched' = {p \in watched \cup heard : disk'[p] = Directory}

Reached(p) == \A a \in Above[p] : disk[a] = Directory /\ ~Skip(a, TRUE)

\* What the index should hold: what is on the disk and no rule leaves out.
Shown(p) == IF Reached(p) /\ ~Skip(p, disk[p] = Directory) THEN disk[p] ELSE Nothing

Disturb == calm' = "no"

CountEvent == events < MaxEvents /\ events' = events + 1

----------------------------------------------------------------------------
AnyPath == CHOOSE p \in Paths : TRUE

Resting == [at |-> "idle", path |-> AnyPath, fact |-> Nothing, known |-> Nothing]

Job(stages) ==
  [at : stages \cup {"idle"}, path : Paths, fact : Facts \cup {Nothing},
   known : Facts \cup {Nothing}]

Janitor ==
  [at : {"idle", "load", "set", "walk", "compare", "upsert", "delete", "purge"},
   loaded : Rules, todo : SUBSET Paths, path : Paths,
   found : [Paths -> Facts \cup {Nothing}], known : [Paths -> Facts \cup {Nothing}]]

Save ==
  [at : {"idle", "load", "set", "list", "purge", "mark"},
   loaded : Rules, todo : SUBSET (Paths \X BOOLEAN)]

NoScan ==
  [at |-> "idle", loaded |-> FirstRules, todo |-> {}, path |-> AnyPath,
   found |-> [p \in Paths |-> Nothing], known |-> [p \in Paths |-> Nothing]]

NoSave == [at |-> "idle", loaded |-> FirstRules, todo |-> {}]

TypeOK ==
  /\ index \in [Paths -> Facts \cup {Nothing}]
  /\ disk \in [Paths -> File \cup {Directory, Nothing}]
  /\ trash \subseteq Item
  /\ stored \in Rules /\ rules \in Rules
  /\ janitor \in Janitor
  /\ watched \subseteq Paths /\ timers \subseteq Paths
  /\ apply \in Job({"lookup", "hash", "write", "mark"})
  /\ apply.at = "hash" => apply.fact \in File
  /\ apply.at = "write" => apply.fact # Nothing
  /\ call \in Job({"trash", "place", "record", "mark"})
  /\ call.fact \in File \cup {Nothing}
  /\ call.at \in {"place", "record"} => call.fact \in File
  /\ restore \in Job({"rename", "stat", "hash", "record"})
  /\ restore.at # "idle" => restore.fact \in File
  /\ save \in Save
  /\ serving \in BOOLEAN /\ calm \in {"no", "scanning", "settled"}
  /\ stamps \in 0 .. MaxStamps /\ events \in 0 .. MaxEvents
  /\ owed \subseteq Stamps

\* The server is at rest: what is there is indexed and watched.
Init ==
  /\ disk = Found /\ trash = Kept
  /\ index = Found
  /\ owed = Contents /\ stamps = Used
  /\ stored = FirstRules /\ rules = FirstRules
  /\ janitor = NoScan /\ serving = TRUE
  /\ watched = {p \in Paths : Found[p] = Directory} /\ timers = {}
  /\ apply = Resting /\ call = Resting /\ restore = Resting /\ save = NoSave
  /\ events = 0 /\ calm = "no"

----------------------------------------------------------------------------
(***************************************************************************)
(* The janitor: on every tick the rules are read again, then the directory *)
(* is scanned, then the trash is purged (and old tombstones: Changes).     *)
(* When the server starts, the first two come before anything is served,   *)
(* and the watcher is started after them.                                  *)
(***************************************************************************)
JanitorAt(stage) == janitor.at = stage

\* What no step of the janitor changes, and what no step of the scan does.
NotJanitors ==
  UNCHANGED <<stored, timers, apply, call, restore, save, stamps, events>>

ScanOnly == NotJanitors /\ UNCHANGED <<disk, trash, owed, rules, serving, watched, calm>>

\* Shared.Refresh: the document is read, then parsed and swapped under a lock.
Load ==
  /\ janitor.at \in {"idle", "load"}
  /\ janitor' = [janitor EXCEPT !.at = "set", !.loaded = stored]
  /\ UNCHANGED index /\ ScanOnly

SetRules ==
  /\ JanitorAt("set")
  /\ rules' = janitor.loaded
  /\ janitor' = [NoScan EXCEPT !.at = "walk", !.todo = Paths]
  /\ calm' = IF calm = "settled" /\ rules' = rules THEN "settled" ELSE "scanning"
  /\ UNCHANGED <<index, disk, trash, owed, serving, watched>> /\ NotJanitors

First(p) == p \in janitor.todo /\ \A q \in janitor.todo : Order[p] <= Order[q]

\* The walk goes into the directories it finds and does not skip.
Entered(p) == \A a \in Above[p] : janitor.found[a] = Directory

Visible(p) == Entered(p) /\ ~Skip(p, disk[p] = Directory)

\* WalkDir, in the order of names.
Walk(p) ==
  /\ JanitorAt("walk") /\ First(p)
  /\ janitor' = [janitor EXCEPT !.todo = @ \ {p},
                   !.found[p] = IF Visible(p) THEN disk[p] ELSE Nothing]
  /\ UNCHANGED index /\ ScanOnly

\* All(): the live rows, read when the walk is over.
List ==
  /\ JanitorAt("walk") /\ janitor.todo = {}
  /\ janitor' = [janitor EXCEPT !.at = "compare", !.todo = Paths,
                   !.known = index]
  /\ UNCHANGED index /\ ScanOnly

\* A file counts as known whatever its size and time.
MutQuickCheck(found, known) ==
  found = known \/ (found \in File /\ known \in File)

\* A directory known as one, or a file whose size and time have not moved.  (The
\* watcher does not compare the type; no directory's row has a file's time here.)
QuickCheck(found, known) ==
  \/ found = Directory /\ known = Directory
  \/ found \in File /\ known \in File /\ found.stamp = known.stamp

\* The hash is not compared.
MutSameContent(sum, known) == FALSE

SameContent(sum, known) == known \in File /\ known.content = sum

(***************************************************************************)
(* What changed is hashed: the content is that of now, size and time are   *)
(* the walk's.  Go ranges over the paths in any order.                     *)
(***************************************************************************)
Compare(p) ==
  LET found == janitor.found[p]
      known == janitor.known[p]
      Pass  == janitor' = [janitor EXCEPT !.todo = @ \ {p}]
      Put(facts) ==
        janitor' = [janitor EXCEPT !.at = "upsert", !.todo = @ \ {p}, !.path = p, !.found[p] = facts]
  IN
  /\ JanitorAt("compare") /\ p \in janitor.todo
  /\ \/ (found = Nothing \/ QuickCheck(found, known)) /\ Pass
     \/ found = Directory /\ ~QuickCheck(found, known) /\ Put(Directory)
     \/ /\ found \in File /\ ~QuickCheck(found, known)
        /\ IF IsFileAt(p) /\ ~SameContent(disk[p].content, known)
           THEN Put([content |-> disk[p].content, stamp |-> found.stamp])
           ELSE Pass
  /\ UNCHANGED index /\ ScanOnly

UpsertFound ==
  /\ JanitorAt("upsert")
  /\ Upsert(janitor.path, janitor.found[janitor.path])
  /\ janitor' = [janitor EXCEPT !.at = "compare", !.path = AnyPath]
  /\ ScanOnly

\* Looked at now: what a new rule leaves out is still on the disk.
MutMissing == {p \in Paths : janitor.known[p] # Nothing /\ disk[p] = Nothing}

Missing == {p \in Paths : janitor.known[p] # Nothing /\ janitor.found[p] = Nothing}

EndCompare ==
  /\ JanitorAt("compare") /\ janitor.todo = {}
  /\ janitor' = [janitor EXCEPT !.at = "delete", !.todo = Missing,
                   !.found = NoScan.found, !.known = NoScan.known]
  /\ UNCHANGED index /\ ScanOnly

\* The deletion pass does not look at the disk again.
Tombstone(p) ==
  /\ JanitorAt("delete") /\ p \in janitor.todo
  /\ MarkDeleted(p)
  /\ janitor' = [janitor EXCEPT !.todo = @ \ {p}]
  /\ ScanOnly

NobodyElse == timers = {} /\ apply = Resting /\ call = Resting /\ restore = Resting /\ save = NoSave

EndScan ==
  /\ JanitorAt("delete") /\ janitor.todo = {}
  /\ serving' = TRUE
  /\ watched' = IF serving THEN watched ELSE {p \in Paths : Shown(p) = Directory}
  /\ janitor' = IF serving THEN [NoScan EXCEPT !.at = "purge"] ELSE NoScan
  /\ calm' = IF calm # "no" /\ NobodyElse THEN "settled" ELSE "no"
  /\ UNCHANGED <<index, disk, trash, owed, rules>> /\ NotJanitors

\* Items of more than TRASH_DAYS; those that came since the start are younger.
PurgeTrash ==
  /\ JanitorAt("purge")
  /\ \E old \in SUBSET (trash \cap Kept) :
       /\ trash' = trash \ old
       /\ owed' = owed \ {i.file.content : i \in old}
  /\ janitor' = NoScan
  /\ UNCHANGED <<index, disk, rules, serving, watched, calm>> /\ NotJanitors

JanitorStep ==
  \/ SetRules \/ List \/ UpsertFound \/ EndCompare \/ EndScan \/ PurgeTrash
  \/ \E p \in Paths : Walk(p) \/ Compare(p) \/ Tombstone(p)

----------------------------------------------------------------------------
(***************************************************************************)
(* The watcher: apply, for one path whose timer has run out.  The timer is *)
(* gone by then, so what happens meanwhile starts another.                 *)
(***************************************************************************)
NotWatchers ==
  UNCHANGED <<ruleVars, diskVars, janitor, serving, watched, call, restore, save, stamps, events>>

\* Lstat.
Look(p) ==
  /\ apply = Resting /\ p \in timers
  /\ timers' = timers \ {p}
  /\ apply' = [at |-> "lookup", path |-> p, fact |-> disk[p], known |-> Nothing]
  /\ UNCHANGED <<index, calm>> /\ NotWatchers

\* A path that is gone is not told apart.
MutCompared ==
  LET next == [apply EXCEPT !.known = index[apply.path]] IN
  /\ apply.at = "lookup"
  /\ apply' = IF QuickCheck(apply.fact, next.known) THEN Resting
              ELSE [next EXCEPT !.at = IF apply.fact = Directory THEN "write" ELSE "hash"]
  /\ UNCHANGED <<index, timers, calm>> /\ NotWatchers

\* Lookup; a path that is gone, or is what its row says, needs no look at its content.
Compared ==
  LET known == index[apply.path]
      next  == [apply EXCEPT !.known = known]
  IN
  /\ apply.at = "lookup"
  /\ \/ /\ apply.fact = Nothing
        /\ apply' = IF known = Nothing THEN Resting ELSE [next EXCEPT !.at = "mark"]
     \/ /\ apply.fact # Nothing
        /\ apply' = IF QuickCheck(apply.fact, known) THEN Resting
                    ELSE [next EXCEPT !.at = IF apply.fact = Directory THEN "write" ELSE "hash"]
  /\ UNCHANGED <<index, timers, calm>> /\ NotWatchers

Hash ==
  LET p == apply.path IN
  /\ apply.at = "hash"
  /\ apply' = IF IsFileAt(p) /\ ~SameContent(disk[p].content, apply.known)
              THEN [apply EXCEPT !.at = "write",
                      !.fact.content = disk[p].content]
              ELSE Resting
  /\ UNCHANGED <<index, timers, calm>> /\ NotWatchers

\* A scan that is going on may have read the index before.
Apply ==
  /\ \/ apply.at = "write" /\ Upsert(apply.path, apply.fact)
     \/ apply.at = "mark" /\ MarkDeleted(apply.path)
  /\ apply' = Resting
  /\ calm' = IF calm = "settled" THEN calm ELSE "no"
  /\ UNCHANGED timers /\ NotWatchers

WatcherStep == Compared \/ Hash \/ Apply

----------------------------------------------------------------------------
(* Uploads and deletions: the accepted path through ServerFiles' handlers. *)

NotCalls == UNCHANGED <<ruleVars, janitor, serving, apply, restore, save>>

\* A purge works on a list: what it lists as a directory it will remove as one.
Listed(p) == <<p, TRUE>> \in save.todo

Sane(p) ==
  /\ index[p] # Nothing <=> IsFileAt(p)
  /\ restore = Resting \/ restore.path # p
  /\ ~Listed(p)

\* Lookup: the sender's base is the revision of the row.
Arrive(p) ==
  /\ call = Resting /\ serving
  /\ Blind \/ Sane(p)
  /\ \/ /\ stamps < MaxStamps /\ stamps' = stamps + 1
        /\ index[p] # Directory
        /\ call' = [at |-> IF index[p] # Nothing THEN "trash" ELSE "place", path |-> p,
                    fact |-> [content |-> stamps', stamp |-> stamps'], known |-> Nothing]
     \/ /\ index[p] \in File
        /\ call' = [at |-> "trash", path |-> p, fact |-> Nothing, known |-> Nothing]
        /\ UNCHANGED stamps
  /\ CountEvent /\ Disturb
  /\ UNCHANGED <<index, diskVars, watched, timers>> /\ NotCalls

MakeRoom ==
  LET p == call.path IN
  /\ call.at = "trash"
  /\ MovedToTrash(p)
  /\ Noticed(Subtree(p))
  /\ call' = [call EXCEPT !.at = IF call.fact = Nothing THEN "mark" ELSE "place"]
  /\ Disturb
  /\ UNCHANGED <<index, owed, stamps, events>> /\ NotCalls

\* The rename fails where a directory or a file is in the way.
Place ==
  LET p == call.path IN
  /\ call.at = "place"
  /\ \/ /\ CanMakeParents(p) /\ disk[p] # Directory
        /\ disk' = Placed(p, call.fact)
        /\ owed' = owed \cup {call.fact.content}
        /\ Noticed({p} \cup Above[p])
        /\ call' = [call EXCEPT !.at = "record"]
     \/ /\ ~CanMakeParents(p) \/ disk[p] = Directory
        /\ call' = Resting
        /\ UNCHANGED <<disk, owed, watched, timers>>
  /\ Disturb
  /\ UNCHANGED <<index, trash, stamps, events>> /\ NotCalls

Record ==
  /\ call.at = "record"
  /\ Upsert(call.path, call.fact)
  /\ call' = Resting
  /\ Disturb
  /\ UNCHANGED <<diskVars, watched, timers, stamps, events>> /\ NotCalls

Mark ==
  /\ call.at = "mark"
  /\ MarkDeleted(call.path)
  /\ call' = Resting
  /\ Disturb
  /\ UNCHANGED <<diskVars, watched, timers, stamps, events>> /\ NotCalls

CallStep == MakeRoom \/ Place \/ Record \/ Mark

----------------------------------------------------------------------------
(* Restore, of an item that the listing shows. *)

NotRestores ==
  UNCHANGED <<ruleVars, janitor, serving, apply, call, save, stamps, owed>>

\* Nothing is checked.
MutFree(p) == TRUE

\* 409 occupied: restoring should never be the thing that loses data.
Free(p) == disk[p] = Nothing

BeginRestore(i) ==
  /\ restore = Resting /\ serving
  /\ i.listed /\ Free(i.path)
  /\ Blind \/ ((call = Resting \/ call.path # i.path) /\ ~Listed(i.path))
  /\ restore' = [at |-> "rename", path |-> i.path, fact |-> i.file, known |-> Nothing]
  /\ CountEvent /\ Disturb
  /\ UNCHANGED <<index, disk, trash, watched, timers>> /\ NotRestores

\* The item may have been purged, and the path may no longer be free.
PutBack ==
  LET p == restore.path
      i == [path |-> p, file |-> restore.fact, listed |-> TRUE]
  IN
  /\ restore.at = "rename"
  /\ \/ /\ CanMakeParents(p) /\ i \in trash /\ disk[p] # Directory
        /\ disk' = Placed(p, i.file)
        /\ trash' = trash \ {i}
        /\ Noticed({p} \cup Above[p])
        /\ restore' = [restore EXCEPT !.at = "stat"]
     \/ /\ ~CanMakeParents(p) \/ i \notin trash \/ disk[p] = Directory
        /\ disk' = IF CanMakeParents(p) THEN Placed(p, disk[p]) ELSE disk
        /\ restore' = Resting
        /\ UNCHANGED <<trash, watched, timers>>
  /\ Disturb
  /\ UNCHANGED <<index, events>> /\ NotRestores

\* Size and time first, then the hash; a file that went away ends it.
Stat ==
  LET p == restore.path IN
  /\ restore.at \in {"stat", "hash"}
  /\ restore' =
       IF ~IsFileAt(p) THEN Resting
       ELSE IF restore.at = "stat" THEN [restore EXCEPT !.at = "hash", !.fact = disk[p]]
       ELSE [restore EXCEPT !.at = "record", !.fact.content = disk[p].content]
  /\ UNCHANGED <<index, disk, trash, watched, timers, events, calm>> /\ NotRestores

RecordRestored ==
  /\ restore.at = "record"
  /\ Upsert(restore.path, restore.fact)
  /\ restore' = Resting
  /\ Disturb
  /\ UNCHANGED <<disk, trash, watched, timers, events>> /\ NotRestores

RestoreStep == PutBack \/ Stat \/ RecordRestored

----------------------------------------------------------------------------
(***************************************************************************)
(* A save of the rules: stored, read back into memory, and everything they *)
(* exclude is taken out, deepest first.                                    *)
(***************************************************************************)
NotSaves ==
  UNCHANGED <<janitor, serving, apply, call, restore, stamps, owed>>

StoreRules(r) ==
  /\ save = NoSave /\ serving
  /\ stored' = r
  /\ save' = [save EXCEPT !.at = "load"]
  /\ CountEvent /\ Disturb
  /\ UNCHANGED <<index, disk, trash, rules, watched, timers>> /\ NotSaves

ReadBack ==
  /\ save.at = "load"
  /\ save' = [save EXCEPT !.at = "set", !.loaded = stored]
  /\ UNCHANGED <<index, ruleVars, disk, trash, watched, timers, events, calm>> /\ NotSaves

SwapRules ==
  /\ save.at = "set"
  /\ rules' = save.loaded
  /\ save' = [save EXCEPT !.at = "list"]
  /\ Disturb
  /\ UNCHANGED <<index, stored, disk, trash, watched, timers, events>> /\ NotSaves

SaneList ==
  \A p \in Paths : index[p] = Directory =>
    ~IsFileAt(p) /\ \A job \in {call, restore} : job = Resting \/ job.path # p

ListLive ==
  /\ save.at = "list"
  /\ Blind \/ SaneList
  /\ save' = [save EXCEPT !.at = "purge",
                !.todo = {<<p, index[p] = Directory>> : p \in {q \in Paths : index[q] # Nothing}}]
  /\ UNCHANGED <<index, ruleVars, disk, trash, watched, timers, events, calm>> /\ NotSaves

Deepest(e) == e \in save.todo /\ \A o \in save.todo : Order[o[1]] <= Order[e[1]]

Done(e) ==
  save' = IF save.todo = {e} THEN NoSave ELSE [save EXCEPT !.at = "purge", !.todo = @ \ {e}]

\* A file goes to the trash; a directory that is not empty stays on the disk.
TakeOut(p, isDir) ==
  \/ isDir /\ disk' = (IF HasChild(p) THEN disk ELSE Without({p})) /\ UNCHANGED trash
  \/ ~isDir /\ MovedToTrash(p)

Purge ==
  /\ save.at = "purge"
  /\ \/ /\ save.todo = {}
        /\ save' = NoSave
        /\ UNCHANGED <<disk, trash, watched, timers, calm>>
     \/ \E p \in Paths, isDir \in BOOLEAN :
          /\ Deepest(<<p, isDir>>) /\ ~Skip(p, isDir)
          /\ Done(<<p, isDir>>)
          /\ UNCHANGED <<disk, trash, watched, timers, calm>>
     \/ \E p \in Paths, isDir \in BOOLEAN :
          /\ Deepest(<<p, isDir>>) /\ Skip(p, isDir)
          /\ TakeOut(p, isDir)
          /\ Noticed(Subtree(p))
          /\ save' = [save EXCEPT !.at = "mark"]
          /\ Disturb
  /\ UNCHANGED <<index, ruleVars, events>> /\ NotSaves

MarkPurged ==
  /\ save.at = "mark"
  /\ \E p \in Paths, isDir \in BOOLEAN :
       Deepest(<<p, isDir>>) /\ MarkDeleted(p) /\ Done(<<p, isDir>>)
  /\ Disturb
  /\ UNCHANGED <<ruleVars, disk, trash, watched, timers, events>> /\ NotSaves

SaveStep == ReadBack \/ SwapRules \/ ListLive \/ Purge \/ MarkPurged

----------------------------------------------------------------------------
(* Changes on the volume itself, and the end of the process. *)

NotByHand ==
  UNCHANGED <<index, ruleVars, trash, janitor, serving, apply, call, restore, save>>

\* What is there is given up by whoever replaces or removes it.
GiveUp(S) == owed' = owed \ {disk[q].content : q \in {s \in S : IsFileAt(s)}}

WriteByHand(p) ==
  /\ CanMakeParents(p) /\ disk[p] # Directory /\ stamps < MaxStamps
  /\ stamps' = stamps + 1
  /\ disk' = Placed(p, [content |-> stamps', stamp |-> stamps'])
  /\ GiveUp({p})
  /\ Noticed({p} \cup Above[p])
  /\ CountEvent /\ Disturb
  /\ NotByHand

\* touch: a new time, the same content.
Touch(p) ==
  /\ IsFileAt(p) /\ stamps < MaxStamps
  /\ stamps' = stamps + 1
  /\ disk' = [disk EXCEPT ![p].stamp = stamps']
  /\ Noticed({p})
  /\ CountEvent
  /\ UNCHANGED <<owed, calm>> /\ NotByHand

MakeDirectory(p) ==
  /\ CanMakeParents(p) /\ disk[p] = Nothing
  /\ disk' = Placed(p, Directory)
  /\ Noticed({p} \cup Above[p])
  /\ CountEvent /\ Disturb
  /\ UNCHANGED <<owed, stamps>> /\ NotByHand

\* rm -r, or a move to somewhere else.
RemoveByHand(p) ==
  /\ disk[p] # Nothing
  /\ disk' = Without(Subtree(p))
  /\ GiveUp(Subtree(p))
  /\ Noticed(Subtree(p))
  /\ CountEvent /\ Disturb
  /\ UNCHANGED stamps /\ NotByHand

ByHand(p) == WriteByHand(p) \/ Touch(p) \/ MakeDirectory(p) \/ RemoveByHand(p)

\* Memory is lost; the next start scans before it serves.
Crash ==
  /\ rules' = FirstRules
  /\ janitor' = [NoScan EXCEPT !.at = "load"] /\ serving' = FALSE
  /\ timers' = {} /\ watched' = {} /\ apply' = Resting /\ call' = Resting /\ restore' = Resting /\ save' = NoSave
  /\ CountEvent /\ Disturb
  /\ UNCHANGED <<index, diskVars, stored, stamps>>

Requests ==
  \/ \E p \in Paths : Arrive(p)
  \/ \E i \in trash : BeginRestore(i)
  \/ \E r \in Rules : StoreRules(r)

Handlers == CallStep \/ RestoreStep \/ SaveStep

Next ==
  \/ Load \/ JanitorStep
  \/ (\E p \in Paths : Look(p)) \/ WatcherStep
  \/ Requests \/ Handlers
  \/ (\E p \in Paths : ByHand(p)) \/ Crash

(***************************************************************************)
(* The ticker goes on and every handler comes to its end.  Nothing is      *)
(* asked of the watcher's timers: events may be lost anyway.               *)
(***************************************************************************)
Fairness == WF_vars(Load \/ JanitorStep) /\ WF_vars(WatcherStep) /\ WF_vars(Handlers)

Spec == Init /\ [][Next]_vars /\ Fairness

----------------------------------------------------------------------------
\* The same, or files of the same content.
Agree(x, y) == x = y \/ (x \in File /\ y \in File /\ x.content = y.content)

IndexIsDisk == \A p \in Paths : Agree(Shown(p), index[p])

(***************************************************************************)
(* What the quick check supposes (scan.go, watch.go): a file that has the  *)
(* size and time of its row has its content.  A row is made of two looks,  *)
(* the time first, so a file that changes between them, or a body and its  *)
(* row that come from two writers, can leave a time beside a content it    *)
(* never had; if that very file is put back later, it is taken for known.  *)
(***************************************************************************)
StampsTell ==
  \A p \in Paths :
    IsFileAt(p) /\ index[p] \in File /\ disk[p].stamp = index[p].stamp
      => disk[p].content = index[p].content

(***************************************************************************)
(* "A periodic full pass is the thing that actually guarantees the index   *)
(* is true" (scan.go): one scan that nothing else disturbed makes index    *)
(* and disk agree, and they agree until something happens.  It repairs     *)
(* whatever earlier races left as long as StampsTell; of two events none   *)
(* unless Blind makes it fail, a third can (a restore after a torn look),  *)
(* and then no scan finds the difference.                                  *)
(***************************************************************************)
ScanIsTrue == calm = "settled" => IndexIsDisk

(***************************************************************************)
(* Or every touch would wake every client (scan.go, watch.go): once they   *)
(* agree, no file touched and no scan hands out a revision.                *)
(***************************************************************************)
TouchIsQuiet ==
  [][calm = "settled" /\ calm' = "settled" => UNCHANGED index]_vars

(***************************************************************************)
(* A content that was accepted is on the disk or in the trash, unless it   *)
(* was purged or somebody replaced it on the volume: "restoring should     *)
(* never be the thing that loses data", and what a rule excludes "goes to  *)
(* the trash rather than being destroyed" (misc.go).  The code keeps to it *)
(* unless Blind; then a restore and an upload of one path, or a purge and  *)
(* a file where it has listed a directory, destroy what was accepted.      *)
(***************************************************************************)
NothingDestroyed == owed \subseteq Contents

(***************************************************************************)
(* The index ends up true and the rules in force are the ones stored: the  *)
(* ticker repairs what the watcher missed, what a stale scan undid and     *)
(* what a crash left behind, as long as StampsTell (see ScanIsTrue).       *)
(***************************************************************************)
Settles == <>[](IndexIsDisk /\ rules = stored)
=============================================================================
