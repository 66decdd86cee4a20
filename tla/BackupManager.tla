--------------------------- MODULE BackupManager ---------------------------
(***************************************************************************)
(* The backup manager (backup/manager.go, run.go, snapshot.go): runs that  *)
(* the schedule starts (when it does: Scheduler), runs asked for by hand,  *)
(* the deletion of a snapshot and the worker that measures sizes, each a   *)
(* goroutine of its own.  Two mutexes keep them apart: mu, held only       *)
(* within a step below, and disk, whose holder is the variable holder.     *)
(* The process can be shut down, in which case nothing waits for the run,  *)
(* or die, and start again.                                                *)
(*                                                                         *)
(* A source holds one file.  A snapshot of it is the inode of its copy:    *)
(* two snapshots with one inode are hard links of each other.              *)
(***************************************************************************)
EXTENDS Retention

CONSTANTS
  Scheduled,   \* the scheduler's goroutine when it backs up
  ByHand,      \* the goroutines Trigger starts
  Nobody, Deletion,
  Found,       \* what the disk may hold at first, its sizes known
  Tiers,       \* the limits an administrator saves, at any time
  MaxRuns,     \* bound: how many runs
  MaxEvents    \* bound: how many deletions, stops, deaths and errors between them

Runners == {Scheduled} \cup ByHand

Partial == 0
Missing == -1

\* --link-dest names the snapshot before, so that links skip no snapshot.
LinkedInRow(found) ==
  \A d, m, e \in Days :
    /\ d < m /\ m < e
    /\ found[d] = found[e] /\ found[d] \in Days /\ found[m] # Missing
    => found[m] = found[d]

ASSUME RunnersAssumption ==
  /\ Nobody \notin Runners \cup {Deletion} /\ Deletion \notin Runners
  /\ Found \subseteq [Days -> Days \cup {Missing}]
  /\ Tiers \subseteq Limits
ASSUME LinksAssumption == \A found \in Found : LinkedInRow(found)
ASSUME BoundsAssumption == MaxRuns \in Nat /\ MaxEvents \in Nat

VARIABLES
  snapshots,  \* snapshots[d]: the inode in the snapshot of day d, Partial or Missing
  holder,     \* who holds the mutex disk
  running,    \* the run that has claimed the slot, Nobody
  cancelled,  \* the context of that run is done
  run,        \* run[w]: where the goroutine w is
  del,        \* where the deletion is
  sizes,      \* sizes[d]: what the snapshot of d measured
  saved,      \* the sizes in the meta table
  pending,    \* the snapshots to measure
  worker,     \* where measureSizes is
  up,         \* the process lives
  ending,     \* its context is done
  today,
  fate,       \* fate[d]: how the last write of d's snapshot ended
  dropped,    \* why sizes that should have been measured again were not
  runs, events  \* how many runs, and how many other things, there have been

diskVars == <<snapshots, holder, fate>>
slotVars == <<running, cancelled, run>>
sizeVars == <<sizes, pending, worker>>
processVars == <<up, ending, today>>
counters == <<dropped, runs, events>>
backupVars == <<diskVars, slotVars, del, sizeVars, saved, processVars, counters>>

Contents == {Partial, Missing} \cup Days

Sizes == {"unmeasured", "empty", "shared", "unique"}

NoDay == 0

NoLimits == [daily |-> 1, weekly |-> 0, monthly |-> 0]

NoRun == [at |-> "idle", name |-> NoDay, created |-> FALSE, limits |-> NoLimits, touched |-> {}]

RunStages == {"idle", "claimed", "copying", "copied", "unlock", "release", "queue"}

RunState ==
  [at : RunStages, name : Days \cup {NoDay}, created : BOOLEAN,
   limits : Limits, touched : SUBSET Days]

BackupTypeOK ==
  /\ snapshots \in [Days -> Contents]
  /\ holder \in Runners \cup {Deletion, Nobody}
  /\ fate \in [Days -> {"none", "good", "cut", "left"}]
  /\ running \in Runners \cup {Nobody}
  /\ cancelled \in BOOLEAN
  /\ run \in [Runners -> RunState]
  /\ del \in [at : {"idle", "removing", "queue", "unlock"}, name : Days \cup {NoDay}]
  /\ sizes \in [Days -> Sizes] /\ saved \in [Days -> Sizes]
  /\ pending \subseteq Days
  /\ worker \in [at : {"idle", "next", "look", "store"}, name : Days \cup {NoDay}, seen : Sizes]
  /\ up \in BOOLEAN /\ ending \in BOOLEAN
  /\ today \in Days
  /\ dropped \subseteq {"death", "removal", "listing"} /\ runs \in 0 .. MaxRuns /\ events \in 0 .. MaxEvents

Present == {d \in Days : snapshots[d] # Missing}

CountRun == runs < MaxRuns /\ runs' = runs + 1 /\ UNCHANGED <<dropped, events>>

CountEvent == events < MaxEvents /\ events' = events + 1 /\ UNCHANGED runs

NoDelete == [at |-> "idle", name |-> NoDay]

Resting == [at |-> "idle", name |-> NoDay, seen |-> "unmeasured"]

\* What measureSnapshot finds: a file counts as unique when it has one link.
Measure(d) ==
  IF snapshots[d] = Partial THEN "empty"
  ELSE IF \E e \in Days \ {d} : snapshots[e] = snapshots[d] THEN "shared" ELSE "unique"

\* Before it waits for the schedule, the scheduler queues what was never measured.
AtStart == [w \in Runners |-> IF w = Scheduled THEN [NoRun EXCEPT !.at = "queue"] ELSE NoRun]

BackupInit ==
  /\ snapshots \in Found
  /\ fate = [d \in Days |-> IF snapshots[d] = Missing THEN "none" ELSE "good"]
  /\ holder = Nobody /\ running = Nobody /\ cancelled = FALSE
  /\ run = AtStart
  /\ del = NoDelete
  /\ sizes = [d \in Days |-> IF snapshots[d] = Missing THEN "unmeasured" ELSE Measure(d)]
  /\ saved = sizes
  /\ pending = {} /\ worker = Resting
  /\ up = TRUE /\ ending = FALSE
  /\ today \in Days /\ Present \subseteq 1 .. today /\ (Present # {} => today \in Present)
  /\ dropped = {} /\ runs = 0 /\ events = 0

----------------------------------------------------------------------------
(* A run. *)

RunAt(w, stage) == up /\ run[w].at = stage

Claims(w) ==
  /\ RunAt(w, "idle")
  /\ running' = w /\ cancelled' = ending
  /\ \E limits \in Tiers : run' = [run EXCEPT ![w].at = "claimed", ![w].limits = limits]
  /\ CountRun
  /\ UNCHANGED <<diskVars, del, sizeVars, saved, processVars>>

\* The slot is not looked at.
MutClaim(w) == (w = Scheduled => ~ending) /\ Claims(w)

(***************************************************************************)
(* runOnce: the slot is claimed under mu, and the limits are the ones      *)
(* saved at that moment.  A run that finds the slot taken leaves a line in *)
(* the history and nothing else.  The loop starts nothing once its context *)
(* is done; a request still does.                                          *)
(***************************************************************************)
Claim(w) == running = Nobody /\ (w = Scheduled => ~ending) /\ Claims(w)

\* What is left of a run for its deferred calls: the snapshots it touched.
Leave(w, touched) == run' = [run EXCEPT ![w] = [NoRun EXCEPT !.at = "unlock", !.touched = touched]]

\* The disk is locked; a health problem, or a directory that cannot be listed, ends
\* the run before it touches anything.
Unhealthy(w) ==
  /\ RunAt(w, "claimed") /\ holder = Nobody
  /\ holder' = w
  /\ Leave(w, {}) \/ Leave(w, {today})
  /\ UNCHANGED <<snapshots, fate, running, cancelled, del, sizeVars, saved, processVars, counters>>

\* Any directory counts as made by this run, or none.
MutCreatedHere(d) == TRUE

MutNeverCreated(d) == FALSE

\* Whether the run makes the directory decides whether it may remove it.
CreatedHere(d) == snapshots[d] = Missing

\* A context that is done already: rsync is not started, and nothing is there to remove.
NeverStarts(w) ==
  /\ RunAt(w, "claimed") /\ holder = Nobody /\ cancelled
  /\ holder' = w
  /\ Leave(w, {today})
  /\ UNCHANGED <<snapshots, fate, running, cancelled, del, sizeVars, saved, processVars, counters>>

\* rsync makes the directory, unless an earlier run of the day did.
StartRsync(w) ==
  /\ RunAt(w, "claimed") /\ holder = Nobody /\ ~cancelled
  /\ holder' = w
  /\ \E d \in Days \cap {today, today + 1} :
       /\ today' = d
       /\ snapshots' = [snapshots EXCEPT ![d] = IF @ = Missing THEN Partial ELSE @]
       /\ run' = [run EXCEPT ![w].at = "copying", ![w].name = d,
                             ![w].created = CreatedHere(d), ![w].touched = {d}]
  /\ UNCHANGED <<fate, running, cancelled, del, sizeVars, saved, up, ending, counters>>

OlderOnDisk(d) == {e \in Present : e < d}

NewestOf(S) == CHOOSE d \in S : \A e \in S : e <= d
OldestOf(S) == CHOOSE d \in S : \A e \in S : d <= e

\* --link-dest is the newest older snapshot; a partial one offers no file.
LinkDest(d) ==
  IF OlderOnDisk(d) = {} THEN {} ELSE {snapshots[NewestOf(OlderOnDisk(d))]} \ {Partial}

\* An inode of its own: none that another snapshot has.
Unused(d) == OldestOf({n \in Days : \A e \in Days \ {d} : snapshots[e] # n})

\* What the copy may be: kept from an earlier run of the day, linked, or copied.
Copies(d) == ({snapshots[d]} \ {Partial, Missing}) \cup LinkDest(d) \cup {Unused(d)}

RsyncEnds(w, content, what) ==
  LET d == run[w].name IN
  /\ snapshots' = [snapshots EXCEPT ![d] = content]
  /\ fate' = [fate EXCEPT ![d] = what]
  /\ UNCHANGED <<holder, running, cancelled, del, sizeVars, saved, processVars, counters>>

\* Exit 0, or 24: files vanished and the snapshot is complete apart from them.
Succeed(w) ==
  /\ RunAt(w, "copying")
  /\ \E n \in Copies(run[w].name) : RsyncEnds(w, n, "good")
  /\ run' = [run EXCEPT ![w].at = "copied"]

(***************************************************************************)
(* rsync runs with --partial: stopped half-way, it leaves what it has of   *)
(* the file in the place of the file, if it had begun with it.             *)
(***************************************************************************)
Interrupted(w, what) ==
  LET d == run[w].name IN
  \/ RsyncEnds(w, Partial, what)
  \/ ~run[w].created /\ RsyncEnds(w, snapshots[d], fate[d])

\* A failure leaves what is there.
Fail(w) ==
  /\ RunAt(w, "copying") /\ ~cancelled
  /\ Interrupted(w, "cut")
  /\ Leave(w, run[w].touched)

(***************************************************************************)
(* A run stopped on purpose removes the snapshot if it made it.  If it     *)
(* cannot, the half snapshot is left and the run's warning says so.        *)
(***************************************************************************)
Cancel(w) ==
  LET was == fate[run[w].name] IN
  /\ RunAt(w, "copying") /\ cancelled
  /\ \/ run[w].created /\ RsyncEnds(w, Missing, was)
     \/ run[w].created /\ RsyncEnds(w, Partial, "left")
     \/ ~run[w].created /\ Interrupted(w, IF was = "none" THEN "none" ELSE "cut")
  /\ Leave(w, run[w].touched)

(***************************************************************************)
(* Retention: the oldest go first.  An error stops it with some left, the  *)
(* next of them perhaps removed in part: its name is not among the         *)
(* removed, so its size and its neighbours' are not measured again.        *)
(***************************************************************************)
Prune(w) ==
  /\ RunAt(w, "copied")
  /\ \E n \in 0 .. Cardinality(Present) :
       LET gone == Pruned(Present, run[w].limits, n)
           next == Pruned(Present, run[w].limits, n + 1) \ gone IN
       \E half \in {{}, next} :
         /\ snapshots' = [d \in Days |-> IF d \in gone THEN Missing
                                        ELSE IF d \in half THEN Partial ELSE snapshots[d]]
         /\ fate' = [d \in Days |-> IF d \in gone THEN "none"
                                   ELSE IF d \in half THEN "left" ELSE fate[d]]
         /\ \/ half = {} /\ UNCHANGED counters
            \/ half # {} /\ dropped' = dropped \cup {"removal"} /\ CountEvent
         /\ Leave(w, run[w].touched \cup gone)
  /\ UNCHANGED <<holder, running, cancelled, del, sizeVars, saved, processVars>>

\* The run is recorded; of the deferred calls, the last deferred comes first.
Unlock(w) ==
  /\ RunAt(w, "unlock")
  /\ holder' = Nobody /\ run' = [run EXCEPT ![w].at = "release"]
  /\ UNCHANGED <<snapshots, fate, running, cancelled, del, sizeVars, saved, processVars, counters>>

\* The claim is forgotten.
MutRelease(w) ==
  /\ RunAt(w, "release")
  /\ run' = [run EXCEPT ![w].at = "queue"]
  /\ UNCHANGED <<diskVars, running, cancelled, del, sizeVars, saved, processVars, counters>>

Release(w) ==
  /\ RunAt(w, "release")
  /\ running' = Nobody /\ cancelled' = FALSE /\ run' = [run EXCEPT ![w].at = "queue"]
  /\ UNCHANGED <<diskVars, del, sizeVars, saved, processVars, counters>>

\* Stop cancels the context of the run in the slot, if there is one.
Stop ==
  /\ up /\ running # Nobody /\ ~cancelled
  /\ cancelled' = TRUE
  /\ CountEvent
  /\ UNCHANGED <<diskVars, running, run, del, sizeVars, saved, processVars, dropped>>

----------------------------------------------------------------------------
(* Sizes. *)

\* Yesterday and tomorrow, whether or not they have a snapshot.
MutAround(d) == {d - 1, d, d + 1}

\* The nearest snapshots on either side of d, and d itself if it is there.
Around(d) ==
  LET newer == {e \in Present : e > d} IN
  (Present \cap {d}) \cup (IF OlderOnDisk(d) = {} THEN {} ELSE {NewestOf(OlderOnDisk(d))})
                     \cup (IF newer = {} THEN {} ELSE {OldestOf(newer)})

\* The neighbours of what changed are forgotten.
MutSizesToMeasure(touched) ==
  {d \in Present : sizes[d] = "unmeasured"} \cup (Present \cap touched)

SizesToMeasure(touched) ==
  {d \in Present : sizes[d] = "unmeasured"} \cup UNION {Around(d) : d \in touched}

\* Decided on what was pending before.
MutStartMeasuring(busy) ==
  worker' = IF worker.at # "idle" \/ busy \/ pending = {} THEN worker
            ELSE [worker EXCEPT !.at = "next"]

\* startMeasuring: not twice, not during a run, not for nothing.
StartMeasuring(busy) ==
  worker' = IF worker.at # "idle" \/ busy \/ pending' = {} THEN worker
            ELSE [worker EXCEPT !.at = "next"]

\* The snapshots are listed and the list is used at once.
QueueSizes(touched) ==
  /\ pending' = pending \cup SizesToMeasure(touched)
  /\ sizes' = [d \in Days |-> IF d \in Present THEN sizes[d] ELSE "unmeasured"]
  /\ StartMeasuring(running # Nobody)

\* The backup directory cannot be listed, and what was to be measured is forgotten.
NotListed == dropped' = dropped \cup {"listing"} /\ UNCHANGED sizeVars

Queue(w) ==
  /\ RunAt(w, "queue")
  /\ \/ QueueSizes(run[w].touched) /\ UNCHANGED counters
     \/ NotListed /\ CountEvent
  /\ run' = [run EXCEPT ![w] = NoRun]
  /\ UNCHANGED <<diskVars, running, cancelled, del, saved, processVars>>

\* The newest first, and none while a run goes on.
TakeNext ==
  /\ up /\ worker.at = "next"
  /\ \/ /\ running # Nobody \/ pending = {}
        /\ worker' = Resting
        /\ UNCHANGED pending
     \/ /\ running = Nobody /\ pending # {}
        /\ worker' = [at |-> "look", name |-> NewestOf(pending), seen |-> "unmeasured"]
        /\ pending' = pending \ {NewestOf(pending)}
  /\ UNCHANGED <<diskVars, slotVars, del, sizes, saved, processVars, counters>>

\* The walk takes no lock; a snapshot deleted since it was queued is passed over.
Look ==
  LET d == worker.name IN
  /\ up /\ worker.at = "look"
  /\ worker' = IF snapshots[d] = Missing THEN [Resting EXCEPT !.at = "next"]
               ELSE [worker EXCEPT !.at = "store", !.seen = Measure(d)]
  /\ UNCHANGED <<diskVars, slotVars, del, sizes, saved, pending, processVars, counters>>

\* Memory, and the document in the meta table.
StoreSize ==
  /\ up /\ worker.at = "store"
  /\ sizes' = [sizes EXCEPT ![worker.name] = worker.seen]
  /\ saved' = sizes'
  /\ worker' = [Resting EXCEPT !.at = "next"]
  /\ UNCHANGED <<diskVars, slotVars, del, pending, processVars, counters>>

----------------------------------------------------------------------------
(* Deleting a snapshot by name. *)

\* The answer of TryLock is ignored.
MutBeginDelete ==
  /\ up /\ del.at = "idle"
  /\ \E d \in Present : del' = [at |-> "removing", name |-> d]
  /\ holder' = IF holder = Nobody THEN Deletion ELSE holder
  /\ CountEvent
  /\ UNCHANGED <<snapshots, fate, slotVars, sizeVars, saved, processVars, dropped>>

\* TryLock: refused while a run holds the disk.
BeginDelete ==
  /\ up /\ del.at = "idle" /\ holder = Nobody
  /\ \E d \in Present : del' = [at |-> "removing", name |-> d]
  /\ holder' = Deletion
  /\ CountEvent
  /\ UNCHANGED <<snapshots, fate, slotVars, sizeVars, saved, processVars, dropped>>

RemoveSnapshot ==
  /\ up /\ del.at = "removing"
  /\ snapshots' = [snapshots EXCEPT ![del.name] = Missing]
  /\ fate' = [fate EXCEPT ![del.name] = "none"]
  /\ del' = [del EXCEPT !.at = "queue"]
  /\ UNCHANGED <<holder, slotVars, sizeVars, saved, processVars, counters>>

\* What has gone before an error is not put back, and nothing will be measured again.
RemovalFails ==
  /\ up /\ del.at = "removing"
  /\ \/ UNCHANGED <<snapshots, fate, dropped>>
     \/ /\ snapshots' = [snapshots EXCEPT ![del.name] = Partial]
        /\ fate' = [fate EXCEPT ![del.name] = "left"]
        /\ dropped' = dropped \cup {"removal"}
  /\ del' = [del EXCEPT !.at = "unlock"]
  /\ UNCHANGED <<holder, slotVars, sizeVars, saved, processVars, runs, events>>

EndDelete ==
  /\ up
  /\ \/ del.at = "queue" /\ QueueSizes({del.name}) /\ UNCHANGED dropped
     \/ del.at = "queue" /\ NotListed
     \/ del.at = "unlock" /\ UNCHANGED <<sizeVars, dropped>>
  /\ del' = NoDelete
  /\ holder' = Nobody
  /\ UNCHANGED <<snapshots, fate, slotVars, saved, processVars, runs, events>>

----------------------------------------------------------------------------
(* The process and the calendar. *)

\* A signal cancels the run with the process' context; without one, Die says it all.
Shutdown ==
  /\ up /\ ~ending /\ running # Nobody /\ events < MaxEvents
  /\ ending' = TRUE
  /\ cancelled' = TRUE
  /\ UNCHANGED <<diskVars, running, run, del, sizeVars, saved, up, today, counters>>

Writing(d) == \E w \in Runners : run[w].at = "copying" /\ run[w].name = d

UnderWay(d) == Writing(d) \/ (del.at = "removing" /\ del.name = d)

\* Killed, or shut down: main waits for requests, not for the run.
Die ==
  /\ up
  /\ up' = FALSE
  /\ \E half \in SUBSET {d \in Days : UnderWay(d)} :
       snapshots' = [d \in Days |-> IF d \in half THEN Partial ELSE snapshots[d]]
  /\ fate' = [d \in Days |-> IF snapshots'[d] = Partial THEN "cut" ELSE fate[d]]
  /\ CountEvent /\ dropped' = dropped \cup {"death"}
  /\ holder' = Nobody /\ running' = Nobody /\ cancelled' = FALSE /\ run' = AtStart
  /\ del' = NoDelete
  /\ sizes' = saved /\ pending' = {} /\ worker' = Resting
  /\ ending' = FALSE
  /\ UNCHANGED <<saved, today>>

Start ==
  /\ ~up /\ up' = TRUE
  /\ UNCHANGED <<diskVars, slotVars, del, sizeVars, saved, ending, today, counters>>

RunStep(w) ==
  \/ Unhealthy(w) \/ NeverStarts(w) \/ StartRsync(w) \/ Succeed(w) \/ Fail(w) \/ Cancel(w)
  \/ Prune(w) \/ Unlock(w) \/ Release(w) \/ Queue(w)

WorkerStep == TakeNext \/ Look \/ StoreSize

DeleteStep == RemoveSnapshot \/ RemovalFails \/ EndDelete

BackupStep == (\E w \in Runners : RunStep(w)) \/ WorkerStep \/ DeleteStep

BackupNext ==
  \/ BackupStep \/ \E w \in Runners : Claim(w)
  \/ BeginDelete \/ Stop \/ Shutdown \/ Die \/ Start

BackupSpec == BackupInit /\ [][BackupNext]_backupVars

----------------------------------------------------------------------------
Holds(w) == run[w].at \in {"copying", "copied", "unlock"}

(***************************************************************************)
(* Single flight: the run in the slot is the only one between its claim    *)
(* and its release, and whoever writes holds the mutex disk.               *)
(***************************************************************************)
SingleFlight ==
  /\ \A w \in Runners : run[w].at \notin {"idle", "queue"} <=> running = w
  /\ \A w \in Runners : Holds(w) <=> holder = w
  /\ del.at # "idle" <=> holder = Deletion

(***************************************************************************)
(* A half-copied directory would read as a complete backup (comments at    *)
(* Stop and in execute).  What a stopped run made is gone again, or the    *)
(* run's warning says that it could not be removed: if a snapshot is       *)
(* partial, a failure, a death or the interruption of a second run of its  *)
(* day cut it, or a removal that failed and was reported left it.          *)
(***************************************************************************)
NoHalfBackup == \A d \in Days : snapshots[d] = Partial /\ ~Writing(d) => fate[d] \in {"cut", "left"}

(***************************************************************************)
(* The newest snapshot whose last run succeeded is there and complete,     *)
(* whatever was pruned, stopped or re-run since, unless it was deleted by  *)
(* name or rsync itself damaged it.                                        *)
(***************************************************************************)
Good == {d \in Days : fate[d] = "good"}

NewestGoodStays == Good # {} => snapshots[NewestOf(Good)] \notin {Partial, Missing}

\* Retention takes from the good ones, whole or in part, only if a newer good one
\* is there.
GoodOnesThinOut ==
  [][\A d \in Days :
       /\ fate[d] = "good" /\ del' = del
       /\ snapshots'[d] = Missing \/ fate'[d] = "left"
       => \E e \in Days : e > d /\ fate'[e] = "good"]_backupVars

Quiet ==
  /\ up /\ worker.at = "idle" /\ pending = {} /\ del.at = "idle"
  /\ \A w \in Runners : run[w].at = "idle"

(***************************************************************************)
(* The sizes shown are the sizes on the disk once everything rests: the    *)
(* neighbours of what changed are all that has to be measured again, and a *)
(* walk that overlapped a change is repeated.  The promise ends where the  *)
(* code drops a measurement it owes: a death forgets what was still to be  *)
(* measured, a removal that fails half-way queues nothing, and neither     *)
(* does the end of a run or a deletion that cannot list the directory.     *)
(***************************************************************************)
SizesTrue ==
  Quiet /\ dropped = {} /\ ~ending => \A d \in Present : sizes[d] = Measure(d)

(***************************************************************************)
(* Nothing stays queued or unmeasured, across deaths and failed removals   *)
(* too, as long as the directory can be listed whenever sizes are queued.  *)
(***************************************************************************)
EverySizeMeasured ==
  <>[](up /\ "listing" \notin dropped
         => pending = {} /\ \A d \in Present : sizes[d] # "unmeasured")

\* Every run comes to an end and gives the slot and the disk back.
EveryRunEnds == <>[](running = Nobody /\ holder = Nobody)

(***************************************************************************)
(* The directory has one writer at a time and changes only by its hand:    *)
(* the manager implements OneBackup.                                       *)
(***************************************************************************)
Directory == INSTANCE OneBackup WITH
  writer <- holder, Runs <- Runners

OneWriter == Directory!Spec
=============================================================================
