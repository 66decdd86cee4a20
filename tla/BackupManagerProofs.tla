------------------------ MODULE BackupManagerProofs ------------------------
(***************************************************************************)
(* Proofs about the backup manager for any number of days, runners, runs   *)
(* and deaths, any limits and any calendar.                                *)
(***************************************************************************)
EXTENDS BackupManager, RetentionProofs

(***************************************************************************)
(* Type correctness, one group of variables at a time.                     *)
(***************************************************************************)
FlagsTyped == cancelled \in BOOLEAN /\ up \in BOOLEAN /\ ending \in BOOLEAN

CountsTyped == today \in Days /\ runs \in 0 .. MaxRuns /\ events \in 0 .. MaxEvents

DropsTyped == dropped \subseteq {"death", "removal", "listing"}

LocksTyped ==
  /\ holder \in Runners \cup {Deletion, Nobody}
  /\ running \in Runners \cup {Nobody}
  /\ del \in [at : {"idle", "removing", "queue", "unlock"}, name : Days \cup {NoDay}]

RunsTyped == run \in [Runners -> RunState]

DiskTyped == snapshots \in [Days -> Contents] /\ fate \in [Days -> {"none", "good", "cut", "left"}]

SizesTyped ==
  /\ sizes \in [Days -> Sizes] /\ saved \in [Days -> Sizes]
  /\ pending \subseteq Days
  /\ worker \in [at : {"idle", "next", "look", "store"}, name : Days \cup {NoDay}, seen : Sizes]

LEMMA TypeInGroups ==
  BackupTypeOK <=> FlagsTyped /\ CountsTyped /\ DropsTyped /\ LocksTyped /\ RunsTyped /\ DiskTyped /\ SizesTyped
BY Zenon DEF BackupTypeOK, FlagsTyped, CountsTyped, DropsTyped, LocksTyped, RunsTyped, DiskTyped, SizesTyped

\* What no step of a run touches.
LEMMA RunFrame ==
  ASSUME NEW w \in Runners, RunStep(w)
  PROVE  /\ UNCHANGED <<up, ending, runs, saved, del>>
         /\ \/ UNCHANGED <<dropped, events>>
            \/ CountEvent /\ \E why \in {"removal", "listing"} : dropped' = dropped \cup {why}
         /\ cancelled' = cancelled \/ cancelled' = FALSE
         /\ running' \in {running, Nobody} /\ holder' \in {holder, w, Nobody}
         /\ today' = today \/ today' \in Days
<1> USE DEF slotVars, diskVars, processVars, counters
<1>1. CASE Unhealthy(w) \/ NeverStarts(w)
  BY <1>1 DEF Unhealthy, NeverStarts
<1>2. CASE StartRsync(w)
  BY <1>2 DEF StartRsync
<1>3. CASE Succeed(w)
  BY <1>3 DEF Succeed, RsyncEnds
<1>4. CASE Fail(w)
  BY <1>4 DEF Fail, Interrupted, RsyncEnds
<1>5. CASE Cancel(w)
  BY <1>5 DEF Cancel, Interrupted, RsyncEnds
<1>6. CASE Prune(w)
  BY <1>6 DEF Prune, CountEvent
<1>7. CASE Unlock(w) \/ Release(w)
  BY <1>7 DEF Unlock, Release
<1>8. CASE Queue(w)
  BY <1>8 DEF Queue, NotListed, CountEvent
<1>9. QED
  BY <1>1, <1>2, <1>3, <1>4, <1>5, <1>6, <1>7, <1>8 DEF RunStep

LEMMA FlagsStep == FlagsTyped /\ [BackupNext]_backupVars => FlagsTyped'
<1> SUFFICES ASSUME FlagsTyped, [BackupNext]_backupVars PROVE FlagsTyped'
  OBVIOUS
<1> USE DEF FlagsTyped, counters, processVars, slotVars
<1>1. ASSUME NEW w \in Runners, Claim(w) \/ RunStep(w)
      PROVE  FlagsTyped'
  <2>1. CASE Claim(w)
    BY <2>1 DEF Claim, Claims, CountRun
  <2>2. CASE RunStep(w)
    BY <2>2, RunFrame
  <2>3. QED
    BY <1>1, <2>1, <2>2
<1>2. CASE WorkerStep \/ BeginDelete \/ DeleteStep
  BY <1>2 DEF WorkerStep, TakeNext, Look, StoreSize, BeginDelete, DeleteStep,
       RemoveSnapshot, RemovalFails, EndDelete, NotListed, CountEvent
<1>3. CASE Stop \/ Shutdown \/ Die \/ Start
  BY <1>3 DEF Stop, Shutdown, Die, Start, CountEvent
<1>4. CASE UNCHANGED backupVars
  BY <1>4 DEF backupVars
<1>5. QED
  BY <1>1, <1>2, <1>3, <1>4 DEF BackupNext, BackupStep

LEMMA CountsStep == CountsTyped /\ [BackupNext]_backupVars => CountsTyped'
<1> SUFFICES ASSUME CountsTyped, [BackupNext]_backupVars PROVE CountsTyped'
  OBVIOUS
<1> USE BoundsAssumption DEF CountsTyped, counters, processVars, slotVars
<1>1. ASSUME NEW w \in Runners, Claim(w) \/ RunStep(w)
      PROVE  CountsTyped'
  <2>1. CASE Claim(w)
    BY <2>1 DEF Claim, Claims, CountRun
  <2>2. CASE RunStep(w)
    <3>1. runs' = runs /\ (today' = today \/ today' \in Days)
      BY <2>2, RunFrame
    <3>2. events' = events \/ CountEvent
      BY <2>2, RunFrame
    <3>3. events' \in 0 .. MaxEvents
      BY <3>2 DEF CountEvent
    <3>4. QED
      BY <3>1, <3>3
  <2>3. QED
    BY <1>1, <2>1, <2>2
<1>2. CASE WorkerStep \/ BeginDelete \/ DeleteStep
  BY <1>2 DEF WorkerStep, TakeNext, Look, StoreSize, BeginDelete, DeleteStep,
       RemoveSnapshot, RemovalFails, EndDelete, NotListed, CountEvent
<1>3. CASE Stop \/ Shutdown \/ Die \/ Start
  BY <1>3 DEF Stop, Shutdown, Die, Start, CountEvent
<1>4. CASE UNCHANGED backupVars
  BY <1>4 DEF backupVars
<1>5. QED
  BY <1>1, <1>2, <1>3, <1>4 DEF BackupNext, BackupStep

LEMMA DropsStep == DropsTyped /\ [BackupNext]_backupVars => DropsTyped'
<1> SUFFICES ASSUME DropsTyped, [BackupNext]_backupVars PROVE DropsTyped'
  OBVIOUS
<1> USE DEF DropsTyped, counters
<1>1. ASSUME NEW w \in Runners, Claim(w) \/ RunStep(w)
      PROVE  DropsTyped'
  <2>1. CASE Claim(w)
    BY <2>1 DEF Claim, Claims, CountRun
  <2>2. CASE RunStep(w)
    BY <2>2, RunFrame
  <2>3. QED
    BY <1>1, <2>1, <2>2
<1>2. CASE WorkerStep \/ BeginDelete \/ DeleteStep
  BY <1>2 DEF WorkerStep, TakeNext, Look, StoreSize, BeginDelete, DeleteStep,
       RemoveSnapshot, RemovalFails, EndDelete, NotListed, CountEvent
<1>3. CASE Stop \/ Shutdown \/ Die \/ Start
  BY <1>3 DEF Stop, Shutdown, Die, Start, CountEvent
<1>4. CASE UNCHANGED backupVars
  BY <1>4 DEF backupVars
<1>5. QED
  BY <1>1, <1>2, <1>3, <1>4 DEF BackupNext, BackupStep

LEMMA LocksStep == LocksTyped /\ [BackupNext]_backupVars => LocksTyped'
<1> SUFFICES ASSUME LocksTyped, [BackupNext]_backupVars PROVE LocksTyped'
  OBVIOUS
<1> USE DEF LocksTyped, slotVars, diskVars
<1>1. ASSUME NEW w \in Runners, Claim(w) \/ RunStep(w)
      PROVE  LocksTyped'
  <2>1. CASE Claim(w)
    BY <2>1 DEF Claim, Claims
  <2>2. CASE RunStep(w)
    BY <2>2, RunFrame
  <2>3. QED
    BY <1>1, <2>1, <2>2
<1>2. CASE WorkerStep
  BY <1>2 DEF WorkerStep, TakeNext, Look, StoreSize
<1>3. CASE BeginDelete
  BY <1>3 DEF BeginDelete, Present
<1>4. CASE DeleteStep
  BY <1>4 DEF DeleteStep, RemoveSnapshot, RemovalFails, EndDelete, NoDelete
<1>5. CASE Stop \/ Shutdown \/ Die \/ Start
  BY <1>5 DEF Stop, Shutdown, Die, Start, NoDelete
<1>6. CASE UNCHANGED backupVars
  BY <1>6 DEF backupVars
<1>7. QED
  BY <1>1, <1>2, <1>3, <1>4, <1>5, <1>6 DEF BackupNext, BackupStep

(***************************************************************************)
(* Where a step of a run leaves it, and that other runs stay where they    *)
(* are.                                                                    *)
(***************************************************************************)
Moved(w, stage) ==
  /\ RunsTyped' /\ run'[w].at = stage
  /\ \A v \in Runners \ {w} : run'[v] = run[v]

LEMMA IdleTyped ==
  /\ NoRun \in RunState /\ NoRun.at = "idle"
  /\ AtStart \in [Runners -> RunState]
  /\ \A w \in Runners : AtStart[w].at \in {"idle", "queue"}
<1>1. NoLimits \in Limits
  BY DEF NoLimits, Limits
<1>2. NoRun \in RunState /\ NoRun.at = "idle"
  BY <1>1 DEF NoRun, RunState, RunStages
<1>3. [NoRun EXCEPT !.at = "queue"] \in RunState /\ [NoRun EXCEPT !.at = "queue"].at = "queue"
  BY <1>1 DEF NoRun, RunState, RunStages
<1>4. QED
  BY <1>2, <1>3, Zenon DEF AtStart

LEMMA Put ==
  ASSUME RunsTyped, NEW w \in Runners, NEW r \in RunState, run' = [run EXCEPT ![w] = r]
  PROVE  Moved(w, r.at) /\ run'[w] = r
BY DEF RunsTyped, Moved

LEMMA PutStage ==
  ASSUME RunsTyped, NEW w \in Runners, NEW stage \in RunStages,
         run' = [run EXCEPT ![w].at = stage]
  PROVE  Moved(w, stage) /\ run'[w] = [run[w] EXCEPT !.at = stage]
<1>1. run[w] \in RunState
  BY DEF RunsTyped
<1>2. [run[w] EXCEPT !.at = stage] \in RunState /\ [run[w] EXCEPT !.at = stage].at = stage
  BY <1>1 DEF RunState
<1>3. run' = [run EXCEPT ![w] = [run[w] EXCEPT !.at = stage]]
  OBVIOUS
<1>4. QED
  BY <1>2, <1>3, Put

LEMMA LeaveMoves ==
  ASSUME RunsTyped, NEW w \in Runners, NEW touched \in SUBSET Days, Leave(w, touched)
  PROVE  Moved(w, "unlock")
<1> DEFINE r == [NoRun EXCEPT !.at = "unlock", !.touched = touched]
<1>1. r \in RunState /\ r.at = "unlock"
  BY IdleTyped DEF NoRun, RunState, RunStages
<1>2. run' = [run EXCEPT ![w] = r]
  BY DEF Leave
<1> HIDE DEF r
<1>3. QED
  BY <1>1, <1>2, Put

LEMMA ClaimMoves ==
  ASSUME RunsTyped, NEW w \in Runners, Claim(w)
  PROVE  Moved(w, "claimed")
<1>1. PICK limits \in Tiers :
        run' = [run EXCEPT ![w].at = "claimed", ![w].limits = limits]
  BY DEF Claim, Claims
<1> DEFINE r == [run[w] EXCEPT !.at = "claimed", !.limits = limits]
<1>2. run[w] \in RunState /\ limits \in Limits
  BY RunnersAssumption DEF RunsTyped
<1>3. r \in RunState /\ r.at = "claimed"
  BY <1>2 DEF RunState, RunStages
<1>4. run' = [run EXCEPT ![w] = r]
  BY <1>1, <1>2 DEF RunsTyped
<1> HIDE DEF r
<1>5. QED
  BY <1>3, <1>4, Put

LEMMA StartMoves ==
  ASSUME RunsTyped, NEW w \in Runners, StartRsync(w)
  PROVE  /\ Moved(w, "copying") /\ run'[w].name = today'
         /\ run'[w].created = (snapshots[today'] = Missing)
<1>1. PICK d \in Days :
        /\ today' = d
        /\ run' = [run EXCEPT ![w].at = "copying", ![w].name = d,
                              ![w].created = CreatedHere(d), ![w].touched = {d}]
  BY DEF StartRsync
<1> DEFINE r == [run[w] EXCEPT !.at = "copying", !.name = d,
                               !.created = CreatedHere(d), !.touched = {d}]
<1>2. run[w] \in RunState /\ CreatedHere(d) \in BOOLEAN
  BY DEF RunsTyped, CreatedHere
<1>3. r \in RunState /\ r.at = "copying" /\ r.name = d /\ r.created = CreatedHere(d)
  BY <1>2 DEF RunState, RunStages
<1>4. run' = [run EXCEPT ![w] = r]
  BY <1>1, <1>2 DEF RunsTyped
<1> HIDE DEF r
<1>5. Moved(w, "copying") /\ run'[w] = r
  BY <1>3, <1>4, Put
<1>6. QED
  BY <1>1, <1>3, <1>5 DEF CreatedHere

LEMMA TouchedTyped ==
  ASSUME RunsTyped, NEW w \in Runners
  PROVE  run[w] \in RunState /\ run[w].touched \in SUBSET Days /\ run[w].limits \in Limits
BY DEF RunsTyped, RunState

LEMMA RunMoves ==
  ASSUME RunsTyped, CountsTyped, NEW w \in Runners
  PROVE  /\ Unhealthy(w) \/ NeverStarts(w) \/ Fail(w) \/ Cancel(w) \/ Prune(w) => Moved(w, "unlock")
         /\ Succeed(w) => Moved(w, "copied") /\ run'[w].name = run[w].name
         /\ Unlock(w) => Moved(w, "release")
         /\ Release(w) => Moved(w, "queue")
         /\ Queue(w) => Moved(w, "idle")
<1>1. {} \in SUBSET Days /\ {today} \in SUBSET Days
  BY DEF CountsTyped
<1>2. ASSUME Unhealthy(w) \/ NeverStarts(w)
      PROVE  Moved(w, "unlock")
  BY <1>1, <1>2, LeaveMoves, Zenon DEF Unhealthy, NeverStarts
<1>3. ASSUME Fail(w) \/ Cancel(w)
      PROVE  Moved(w, "unlock")
  BY <1>3, TouchedTyped, LeaveMoves, Zenon DEF Fail, Cancel
<1>4. ASSUME Prune(w)
      PROVE  Moved(w, "unlock")
  <2>1. PICK n : Leave(w, run[w].touched \cup Pruned(Present, run[w].limits, n))
    BY <1>4 DEF Prune
  <2>2. Pruned(Present, run[w].limits, n) \subseteq Days
    BY DEF Pruned, Doomed, Present
  <2>3. run[w].touched \cup Pruned(Present, run[w].limits, n) \in SUBSET Days
    BY <2>2, TouchedTyped
  <2>4. QED
    BY <2>1, <2>3, LeaveMoves, Zenon
<1>5. ASSUME Succeed(w)
      PROVE  Moved(w, "copied") /\ run'[w].name = run[w].name
  <2>1. run' = [run EXCEPT ![w].at = "copied"] /\ "copied" \in RunStages
    BY <1>5 DEF Succeed, RunStages
  <2>2. Moved(w, "copied") /\ run'[w] = [run[w] EXCEPT !.at = "copied"]
    BY <2>1, PutStage, Zenon
  <2>3. run[w] \in RunState
    BY TouchedTyped
  <2>4. QED
    BY <2>2, <2>3 DEF RunState
<1>6. ASSUME Unlock(w)
      PROVE  Moved(w, "release")
  <2>1. run' = [run EXCEPT ![w].at = "release"] /\ "release" \in RunStages
    BY <1>6 DEF Unlock, RunStages
  <2>2. QED
    BY <2>1, PutStage, Zenon
<1>7. ASSUME Release(w)
      PROVE  Moved(w, "queue")
  <2>1. run' = [run EXCEPT ![w].at = "queue"] /\ "queue" \in RunStages
    BY <1>7 DEF Release, RunStages
  <2>2. QED
    BY <2>1, PutStage, Zenon
<1>8. ASSUME Queue(w)
      PROVE  Moved(w, "idle")
  <2>1. run' = [run EXCEPT ![w] = NoRun]
    BY <1>8 DEF Queue
  <2>2. Moved(w, NoRun.at)
    BY <2>1, IdleTyped, Put, Zenon
  <2>3. QED
    BY <2>2, IdleTyped, Zenon
<1>9. QED
  BY <1>2, <1>3, <1>4, <1>5, <1>6, <1>7, <1>8

\* The steps of others leave every run where it is.
LEMMA OthersMoveNoRun ==
  ASSUME WorkerStep \/ BeginDelete \/ DeleteStep \/ Stop \/ Shutdown \/ Start \/ UNCHANGED backupVars
  PROVE  UNCHANGED <<run, running>>
<1>1. CASE WorkerStep
  BY <1>1 DEF WorkerStep, TakeNext, Look, StoreSize, slotVars
<1>2. CASE BeginDelete \/ DeleteStep
  BY <1>2 DEF BeginDelete, DeleteStep, RemoveSnapshot, RemovalFails, EndDelete, slotVars
<1>3. CASE Stop \/ Shutdown \/ Start
  BY <1>3 DEF Stop, Shutdown, Start, slotVars
<1>4. CASE UNCHANGED backupVars
  BY <1>4 DEF backupVars, slotVars
<1>5. QED
  BY <1>1, <1>2, <1>3, <1>4

LEMMA RunsStep == RunsTyped /\ CountsTyped /\ [BackupNext]_backupVars => RunsTyped'
<1> SUFFICES ASSUME RunsTyped, CountsTyped, [BackupNext]_backupVars PROVE RunsTyped'
  OBVIOUS
<1>1. ASSUME NEW w \in Runners, Claim(w) \/ RunStep(w)
      PROVE  RunsTyped'
  BY <1>1, ClaimMoves, StartMoves, RunMoves, Zenon DEF RunStep, Moved
<1>2. CASE Die
  BY <1>2, IdleTyped DEF Die, RunsTyped
<1>3. CASE WorkerStep \/ BeginDelete \/ DeleteStep \/ Stop \/ Shutdown \/ Start \/ UNCHANGED backupVars
  BY <1>3, OthersMoveNoRun DEF RunsTyped
<1>4. QED
  BY <1>1, <1>2, <1>3 DEF BackupNext, BackupStep

\* There are as many days as snapshots: one inode is always unused.
LEMMA InodeLeft ==
  ASSUME DiskTyped, NEW d \in Days
  PROVE  \E n \in Days : \A e \in Days \ {d} : snapshots[e] # n
<1> DEFINE Free == {n \in Days : \A e \in Days \ {d} : snapshots[e] # n}
           Others == {e \in Days \ {d} : snapshots[e] \in Days}
<1>1. IsFiniteSet(Days) /\ Cardinality(Days) \in Nat
  BY DaysFinite
<1>2. Free # {}
  <2>1. SUFFICES ASSUME Free = {} PROVE FALSE
    OBVIOUS
  <2>2. \A n \in Days : \E e \in Others : snapshots[e] = n
    BY <2>1
  <2> DEFINE f == [e \in Others |-> snapshots[e]]
  <2>3. f \in Surjection(Others, Days)
    BY <2>2 DEF Surjection
  <2>4. IsFiniteSet(Days \ {d}) /\ Cardinality(Days \ {d}) = Cardinality(Days) - 1
    BY <1>1, FS_RemoveElement
  <2>5. IsFiniteSet(Others) /\ Cardinality(Others) <= Cardinality(Days \ {d})
    BY <2>4, FS_Subset
  <2>6. Cardinality(Days) <= Cardinality(Others)
    BY <2>3, <2>5, FS_Surjection
  <2>7. Cardinality(Others) \in Nat
    BY <2>5, FS_CardinalityType
  <2>8. QED
    BY <1>1, <2>4, <2>5, <2>6, <2>7
<1>3. QED
  BY <1>2

LEMMA AnInodeIsFree ==
  ASSUME DiskTyped, NEW d \in Days
  PROVE  Unused(d) \in Days
<1> DEFINE Free == {n \in Days : \A e \in Days \ {d} : snapshots[e] # n}
<1>1. Free # {}
  BY InodeLeft
<1>2. \E n \in Free : \A m \in Free : n <= m
  <2>1. Free \subseteq Nat
    BY LastDayAssumption DEF Days
  <2>2. QED
    BY <1>1, <2>1, LeastOf
<1>3. Unused(d) \in Free
  BY <1>2 DEF Unused, OldestOf
<1>4. QED
  BY <1>3

LEMMA NewestIsThere ==
  ASSUME NEW T, T \subseteq Days, T # {}
  PROVE  NewestOf(T) \in T /\ \A e \in T : e <= NewestOf(T)
BY NewestDay DEF NewestOf

LEMMA CopiesAreContents ==
  ASSUME DiskTyped, NEW d \in Days
  PROVE  Copies(d) \subseteq Days
<1>1. LinkDest(d) \subseteq Days
  <2>1. CASE OlderOnDisk(d) = {}
    BY <2>1 DEF LinkDest
  <2>2. CASE OlderOnDisk(d) # {}
    <3>1. OlderOnDisk(d) \subseteq Days /\ \A e \in OlderOnDisk(d) : snapshots[e] # Missing
      BY DEF OlderOnDisk, Present
    <3>2. NewestOf(OlderOnDisk(d)) \in OlderOnDisk(d)
      BY <2>2, <3>1, NewestIsThere
    <3>3. snapshots[NewestOf(OlderOnDisk(d))] \in Contents \ {Missing}
      BY <3>1, <3>2 DEF DiskTyped
    <3>4. QED
      BY <2>2, <3>3 DEF LinkDest, Contents
  <2>3. QED
    BY <2>1, <2>2
<1>2. {snapshots[d]} \ {Partial, Missing} \subseteq Days
  BY DEF DiskTyped, Contents
<1>3. QED
  BY <1>1, <1>2, AnInodeIsFree DEF Copies

(***************************************************************************)
(* What a step of a run does to the disk.                                  *)
(***************************************************************************)
Written(d, content, what) ==
  snapshots' = [snapshots EXCEPT ![d] = content] /\ fate' = [fate EXCEPT ![d] = what]

LEMMA WrittenTyped ==
  ASSUME DiskTyped, NEW d, NEW content \in Contents, NEW what \in {"none", "good", "cut", "left"},
         Written(d, content, what)
  PROVE  DiskTyped'
<1>1. CASE d \in Days
  BY <1>1 DEF DiskTyped, Written
<1>2. CASE d \notin Days
  BY <1>2 DEF DiskTyped, Written
<1>3. QED
  BY <1>1, <1>2

\* rsync was stopped: what it leaves.
LEMMA InterruptedWrites ==
  ASSUME NEW w, NEW what, Interrupted(w, what)
  PROVE  \/ Written(run[w].name, Partial, what)
         \/ /\ ~run[w].created
            /\ Written(run[w].name, snapshots[run[w].name], fate[run[w].name])
BY DEF Interrupted, RsyncEnds, Written

\* A run that writes knows what it writes.
Named == \A w \in Runners : run[w].at \in {"copying", "copied"} => run[w].name \in Days

TypeInv ==
  /\ FlagsTyped /\ CountsTyped /\ DropsTyped /\ LocksTyped /\ RunsTyped /\ DiskTyped /\ SizesTyped
  /\ Named

LEMMA NamedStep == RunsTyped /\ CountsTyped /\ Named /\ [BackupNext]_backupVars => Named'
<1> SUFFICES ASSUME RunsTyped, CountsTyped, Named, [BackupNext]_backupVars PROVE Named'
  OBVIOUS
<1>1. ASSUME NEW w \in Runners, NEW stage \in RunStages \ {"copying", "copied"}, Moved(w, stage)
      PROVE  Named'
  BY <1>1 DEF Named, Moved
<1>2. ASSUME NEW w \in Runners, Claim(w)
      PROVE  Named'
  BY <1>1, <1>2, ClaimMoves DEF RunStages
<1>3. ASSUME NEW w \in Runners, StartRsync(w)
      PROVE  Named'
  <2>1. Moved(w, "copying") /\ run'[w].name = today'
    BY <1>3, StartMoves
  <2>2. today' \in Days
    BY <1>3 DEF StartRsync
  <2>3. QED
    BY <2>1, <2>2 DEF Named, Moved
<1>4. ASSUME NEW w \in Runners, Succeed(w)
      PROVE  Named'
  <2>1. Moved(w, "copied") /\ run'[w].name = run[w].name
    BY <1>4, RunMoves
  <2>2. run[w].name \in Days
    BY <1>4 DEF Succeed, RunAt, Named
  <2>3. QED
    BY <2>1, <2>2 DEF Named, Moved
<1>5. ASSUME NEW w \in Runners, RunStep(w)
      PROVE  Named'
  <2>1. \/ StartRsync(w) \/ Succeed(w)
        \/ Moved(w, "unlock") \/ Moved(w, "release") \/ Moved(w, "queue") \/ Moved(w, "idle")
    BY <1>5, RunMoves, Zenon DEF RunStep
  <2>2. QED
    BY <2>1, <1>1, <1>3, <1>4 DEF RunStages
<1>6. CASE Die
  BY <1>6, IdleTyped DEF Die, Named
<1>7. CASE WorkerStep \/ BeginDelete \/ DeleteStep \/ Stop \/ Shutdown \/ Start \/ UNCHANGED backupVars
  BY <1>7, OthersMoveNoRun DEF Named
<1>8. QED
  BY <1>2, <1>5, <1>6, <1>7 DEF BackupNext, BackupStep

\* The steps that write no snapshot.
LEMMA OthersWriteNothing ==
  ASSUME \/ \E w \in Runners : \/ Claim(w) \/ Unhealthy(w) \/ NeverStarts(w)
                               \/ Unlock(w) \/ Release(w) \/ Queue(w)
         \/ WorkerStep \/ BeginDelete \/ EndDelete \/ Stop \/ Shutdown \/ Start
         \/ UNCHANGED backupVars
  PROVE  UNCHANGED <<snapshots, fate>>
<1> USE DEF diskVars
<1>1. CASE \E w \in Runners : Claim(w)
  BY <1>1 DEF Claim, Claims
<1>2. CASE \E w \in Runners : Unhealthy(w) \/ NeverStarts(w) \/ Unlock(w)
  BY <1>2 DEF Unhealthy, NeverStarts, Unlock
<1>3. CASE \E w \in Runners : Release(w) \/ Queue(w)
  BY <1>3 DEF Release, Queue
<1>4. CASE WorkerStep
  BY <1>4 DEF WorkerStep, TakeNext, Look, StoreSize
<1>5. CASE BeginDelete \/ EndDelete
  BY <1>5 DEF BeginDelete, EndDelete
<1>6. CASE Stop \/ Shutdown \/ Start
  BY <1>6 DEF Stop, Shutdown, Start
<1>7. CASE UNCHANGED backupVars
  BY <1>7 DEF backupVars
<1>8. QED
  BY <1>1, <1>2, <1>3, <1>4, <1>5, <1>6, <1>7

LEMMA DiskStep == DiskTyped /\ RunsTyped /\ CountsTyped /\ Named /\ [BackupNext]_backupVars => DiskTyped'
<1> SUFFICES ASSUME DiskTyped, RunsTyped, CountsTyped, Named, [BackupNext]_backupVars PROVE DiskTyped'
  OBVIOUS
<1>1. ASSUME NEW w \in Runners, StartRsync(w)
      PROVE  DiskTyped'
  BY <1>1 DEF StartRsync, DiskTyped, Contents
<1>2. ASSUME NEW w \in Runners, Succeed(w)
      PROVE  DiskTyped'
  <2>1. run[w].name \in Days
    BY <1>2 DEF Succeed, RunAt, Named
  <2>2. PICK n \in Copies(run[w].name) : Written(run[w].name, n, "good")
    BY <1>2 DEF Succeed, RsyncEnds, Written
  <2>3. n \in Contents
    BY <2>1, CopiesAreContents DEF Contents
  <2>4. QED
    BY <2>2, <2>3, WrittenTyped
<1>3. ASSUME NEW w \in Runners, Fail(w) \/ Cancel(w)
      PROVE  DiskTyped'
  <2>1. run[w].name \in Days
    BY <1>3 DEF Fail, Cancel, RunAt, Named
  <2>2. snapshots[run[w].name] \in Contents /\ fate[run[w].name] \in {"none", "good", "cut", "left"}
    BY <2>1 DEF DiskTyped
  <2>3. \/ \E what \in {"none", "cut"} : Interrupted(w, what)
        \/ Written(run[w].name, Missing, fate[run[w].name])
        \/ Written(run[w].name, Partial, "left")
    BY <1>3 DEF Fail, Cancel, RsyncEnds, Written
  <2>4. \E content \in Contents, what \in {"none", "good", "cut", "left"} :
          Written(run[w].name, content, what)
    BY <2>2, <2>3, InterruptedWrites DEF Contents
  <2>5. QED
    BY <2>4, WrittenTyped
<1>4. ASSUME NEW w \in Runners, Prune(w)
      PROVE  DiskTyped'
  BY <1>4 DEF Prune, DiskTyped, Contents
<1>5. CASE RemoveSnapshot \/ RemovalFails
  BY <1>5 DEF RemoveSnapshot, RemovalFails, DiskTyped, Contents
<1>6. CASE Die
  BY <1>6 DEF Die, DiskTyped, Contents
<1>7. CASE UNCHANGED <<snapshots, fate>>
  BY <1>7 DEF DiskTyped
<1>8. QED
  BY <1>1, <1>2, <1>3, <1>4, <1>5, <1>6, <1>7, OthersWriteNothing DEF BackupNext, BackupStep, RunStep, DeleteStep

LEMMA AroundIsOnDisk ==
  ASSUME NEW d
  PROVE  Around(d) \subseteq Days
<1>1. OlderOnDisk(d) \subseteq Days /\ {e \in Present : e > d} \subseteq Days
      /\ Present \cap {d} \subseteq Days
  BY DEF OlderOnDisk, Present
<1>2. OlderOnDisk(d) # {} => NewestOf(OlderOnDisk(d)) \in Days
  BY <1>1, NewestIsThere
<1>3. \A T : T \subseteq Days /\ T # {} => OldestOf(T) \in T
  <2>1. SUFFICES ASSUME NEW T, T \subseteq Days, T # {} PROVE OldestOf(T) \in T
    OBVIOUS
  <2>2. T \subseteq Nat
    BY <2>1, LastDayAssumption DEF Days
  <2>3. \E n \in T : \A m \in T : n <= m
    BY <2>1, <2>2, LeastOf
  <2>4. QED
    BY <2>3 DEF OldestOf
<1>4. {e \in Present : e > d} # {} => OldestOf({e \in Present : e > d}) \in Days
  BY <1>1, <1>3
<1>5. QED
  BY <1>1, <1>2, <1>4 DEF Around

LEMMA QueueSizesTyped ==
  ASSUME SizesTyped, NEW touched, QueueSizes(touched), UNCHANGED saved
  PROVE  SizesTyped'
<1>1. SizesToMeasure(touched) \subseteq Days
  BY AroundIsOnDisk DEF SizesToMeasure, Present
<1>2. pending' \subseteq Days
  BY <1>1 DEF QueueSizes, SizesTyped
<1>3. sizes' \in [Days -> Sizes] /\ saved' \in [Days -> Sizes]
  BY DEF QueueSizes, SizesTyped, Sizes
<1>4. worker' = worker \/ worker' = [worker EXCEPT !.at = "next"]
  BY DEF QueueSizes, StartMeasuring
<1>5. QED
  BY <1>2, <1>3, <1>4 DEF SizesTyped

LEMMA MeasuredTyped == \A d : Measure(d) \in Sizes
BY DEF Measure, Sizes

LEMMA SizesStep == SizesTyped /\ [BackupNext]_backupVars => SizesTyped'
<1> SUFFICES ASSUME SizesTyped, [BackupNext]_backupVars PROVE SizesTyped'
  OBVIOUS
<1> USE DEF sizeVars
<1>0. ASSUME UNCHANGED <<sizes, saved, pending, worker>>
      PROVE  SizesTyped'
  BY <1>0 DEF SizesTyped
<1>1. ASSUME NEW w \in Runners, Queue(w)
      PROVE  SizesTyped'
  BY <1>0, <1>1, QueueSizesTyped DEF Queue, NotListed
<1>2. ASSUME NEW w \in Runners, Claim(w) \/ Unhealthy(w) \/ NeverStarts(w) \/ StartRsync(w)
      PROVE  SizesTyped'
  BY <1>0, <1>2 DEF Claim, Claims, Unhealthy, NeverStarts, StartRsync
<1>3. ASSUME NEW w \in Runners, Succeed(w) \/ Fail(w) \/ Cancel(w)
      PROVE  SizesTyped'
  BY <1>0, <1>3 DEF Succeed, Fail, Cancel, Interrupted, RsyncEnds
<1>4. ASSUME NEW w \in Runners, Prune(w) \/ Unlock(w) \/ Release(w)
      PROVE  SizesTyped'
  BY <1>0, <1>4 DEF Prune, Unlock, Release
<1>5. CASE TakeNext
  <2>1. sizes' = sizes /\ saved' = saved /\ pending' \subseteq pending
    BY <1>5 DEF TakeNext
  <2>2. worker' = Resting
        \/ (pending # {} /\ worker' = [at |-> "look", name |-> NewestOf(pending), seen |-> "unmeasured"])
    BY <1>5 DEF TakeNext
  <2>3. pending # {} => NewestOf(pending) \in Days
    BY NewestIsThere DEF SizesTyped
  <2>4. worker' \in [at : {"idle", "next", "look", "store"}, name : Days \cup {NoDay}, seen : Sizes]
    BY <2>2, <2>3 DEF Resting, Sizes
  <2>5. QED
    BY <2>1, <2>4 DEF SizesTyped
<1>6. CASE Look
  <2>1. UNCHANGED <<sizes, saved, pending>>
    BY <1>6 DEF Look
  <2>2. \/ worker' = [Resting EXCEPT !.at = "next"]
        \/ worker' = [worker EXCEPT !.at = "store", !.seen = Measure(worker.name)]
    BY <1>6 DEF Look
  <2>3. worker' \in [at : {"idle", "next", "look", "store"}, name : Days \cup {NoDay}, seen : Sizes]
    <3>1. CASE worker' = [Resting EXCEPT !.at = "next"]
      BY <3>1 DEF Resting, Sizes
    <3>2. CASE worker' = [worker EXCEPT !.at = "store", !.seen = Measure(worker.name)]
      BY <3>2, MeasuredTyped DEF SizesTyped
    <3>3. QED
      BY <2>2, <3>1, <3>2
  <2>4. QED
    BY <2>1, <2>3 DEF SizesTyped
<1>7. CASE StoreSize
  <2>1. worker' = [Resting EXCEPT !.at = "next"] /\ pending' = pending
    BY <1>7 DEF StoreSize
  <2>2. sizes' \in [Days -> Sizes] /\ saved' \in [Days -> Sizes]
    BY <1>7 DEF StoreSize, SizesTyped
  <2>3. QED
    BY <2>1, <2>2 DEF SizesTyped, Resting, Sizes
<1>8. CASE BeginDelete \/ RemoveSnapshot \/ RemovalFails
  BY <1>0, <1>8 DEF BeginDelete, RemoveSnapshot, RemovalFails
<1>9. CASE EndDelete
  BY <1>0, <1>9, QueueSizesTyped DEF EndDelete, NotListed
<1>10. CASE Stop \/ Shutdown \/ Start
  BY <1>0, <1>10 DEF Stop, Shutdown, Start
<1>11. CASE Die
  BY <1>11 DEF Die, SizesTyped, Resting, Sizes
<1>12. CASE UNCHANGED backupVars
  BY <1>0, <1>12 DEF backupVars
<1>13. QED
  BY <1>1, <1>2, <1>3, <1>4, <1>5, <1>6, <1>7, <1>8, <1>9, <1>10, <1>11, <1>12
     DEF BackupNext, BackupStep, RunStep, WorkerStep, DeleteStep

LEMMA TypeStarts == BackupInit => TypeInv
<1> SUFFICES ASSUME BackupInit PROVE TypeInv
  OBVIOUS
<1>1. FlagsTyped
  BY DEF BackupInit, FlagsTyped
<1>2. CountsTyped
  BY BoundsAssumption DEF BackupInit, CountsTyped
<1>a. DropsTyped
  BY DEF BackupInit, DropsTyped
<1>3. LocksTyped
  BY DEF BackupInit, LocksTyped, NoDelete
<1>4. RunsTyped /\ Named
  BY IdleTyped DEF BackupInit, RunsTyped, Named
<1>5. DiskTyped
  BY RunnersAssumption DEF BackupInit, DiskTyped, Contents
<1>6. SizesTyped
  <2>1. sizes \in [Days -> Sizes] /\ saved = sizes /\ pending = {} /\ worker = Resting
    BY MeasuredTyped DEF BackupInit, Sizes
  <2>2. QED
    BY <2>1 DEF SizesTyped, Resting, Sizes
<1>7. QED
  BY <1>1, <1>2, <1>a, <1>3, <1>4, <1>5, <1>6 DEF TypeInv

LEMMA TypeStep == TypeInv /\ [BackupNext]_backupVars => TypeInv'
BY FlagsStep, CountsStep, DropsStep, LocksStep, RunsStep, DiskStep, SizesStep, NamedStep, Zenon DEF TypeInv

(***************************************************************************)
(* Every variable stays in its type, through every overlap of runs, a      *)
(* deletion, the size worker, stops and deaths (backup/manager.go).        *)
(***************************************************************************)
THEOREM TypeCorrect == BackupSpec => []BackupTypeOK
<1>1. BackupInit => TypeInv
  BY TypeStarts
<1>2. TypeInv /\ [BackupNext]_backupVars => TypeInv'
  BY TypeStep
<1>3. TypeInv => BackupTypeOK
  BY TypeInGroups DEF TypeInv
<1>4. QED
  BY <1>1, <1>2, <1>3, PTL DEF BackupSpec

----------------------------------------------------------------------------
(***************************************************************************)
(* Single flight.                                                          *)
(***************************************************************************)
InSlot(stage) == stage \notin {"idle", "queue"}

HoldsDisk(stage) == stage \in {"copying", "copied", "unlock"}

\* A run enters or leaves the slot and the mutex as it moves, or it does neither.
LEMMA FlightAfter ==
  ASSUME SingleFlight, NEW w \in Runners, NEW stage, Moved(w, stage), UNCHANGED del,
         \/ running' = running /\ (InSlot(run[w].at) <=> InSlot(stage))
         \/ running = Nobody /\ running' = w /\ InSlot(stage)
         \/ running = w /\ running' = Nobody /\ ~InSlot(stage),
         \/ holder' = holder /\ (HoldsDisk(run[w].at) <=> HoldsDisk(stage))
         \/ holder = Nobody /\ holder' = w /\ HoldsDisk(stage)
         \/ holder = w /\ holder' = Nobody /\ ~HoldsDisk(stage)
  PROVE  SingleFlight'
<1>1. /\ Nobody \notin Runners /\ Deletion \notin Runners /\ Deletion # Nobody
  BY RunnersAssumption
<1>2. \A v \in Runners : InSlot(run'[v].at) <=> running' = v
  BY <1>1 DEF SingleFlight, Moved, InSlot
<1>3. \A v \in Runners : HoldsDisk(run'[v].at) <=> holder' = v
  BY <1>1 DEF SingleFlight, Moved, Holds, HoldsDisk
<1>4. del'.at # "idle" <=> holder' = Deletion
  BY <1>1 DEF SingleFlight
<1>5. QED
  BY <1>2, <1>3, <1>4, Zenon DEF SingleFlight, Holds, InSlot, HoldsDisk

LEMMA FlightStep == TypeInv /\ SingleFlight /\ [BackupNext]_backupVars => SingleFlight'
<1> SUFFICES ASSUME TypeInv, SingleFlight, [BackupNext]_backupVars PROVE SingleFlight'
  OBVIOUS
<1>a. RunsTyped /\ CountsTyped
  BY DEF TypeInv
<1> USE DEF InSlot, HoldsDisk, RunAt
<1>1. ASSUME NEW w \in Runners, Claim(w)
      PROVE  SingleFlight'
  <2>1. /\ run[w].at = "idle" /\ running = Nobody /\ running' = w
        /\ holder' = holder /\ del' = del
    BY <1>1 DEF Claim, Claims, diskVars
  <2>2. QED
    BY <1>a, <1>1, <2>1, ClaimMoves, FlightAfter
<1>2. ASSUME NEW w \in Runners, Unhealthy(w) \/ NeverStarts(w)
      PROVE  SingleFlight'
  <2>1. /\ run[w].at = "claimed" /\ running' = running
        /\ holder = Nobody /\ holder' = w /\ del' = del
    BY <1>2 DEF Unhealthy, NeverStarts
  <2>2. QED
    BY <1>a, <1>2, <2>1, RunMoves, FlightAfter
<1>3. ASSUME NEW w \in Runners, StartRsync(w)
      PROVE  SingleFlight'
  <2>1. /\ run[w].at = "claimed" /\ running' = running
        /\ holder = Nobody /\ holder' = w /\ del' = del
    BY <1>3 DEF StartRsync
  <2>2. QED
    BY <1>a, <1>3, <2>1, StartMoves, FlightAfter
<1>4. ASSUME NEW w \in Runners, Succeed(w)
      PROVE  SingleFlight'
  <2>1. run[w].at = "copying" /\ running' = running /\ holder' = holder /\ del' = del
    BY <1>4 DEF Succeed, RsyncEnds
  <2>2. QED
    BY <1>a, <1>4, <2>1, RunMoves, FlightAfter
<1>5. ASSUME NEW w \in Runners, Fail(w) \/ Cancel(w) \/ Prune(w)
      PROVE  SingleFlight'
  <2>1. /\ run[w].at \in {"copying", "copied"}
        /\ running' = running /\ holder' = holder /\ del' = del
    BY <1>5 DEF Fail, Cancel, Interrupted, RsyncEnds, Prune
  <2>2. QED
    BY <1>a, <1>5, <2>1, RunMoves, FlightAfter
<1>6. ASSUME NEW w \in Runners, Unlock(w)
      PROVE  SingleFlight'
  <2>1. run[w].at = "unlock" /\ running' = running /\ holder' = Nobody /\ del' = del
    BY <1>6 DEF Unlock
  <2>2. holder = w
    BY <2>1 DEF SingleFlight, Holds
  <2>3. QED
    BY <1>a, <1>6, <2>1, <2>2, RunMoves, FlightAfter
<1>7. ASSUME NEW w \in Runners, Release(w)
      PROVE  SingleFlight'
  <2>1. run[w].at = "release" /\ running' = Nobody /\ holder' = holder /\ del' = del
    BY <1>7 DEF Release, diskVars
  <2>2. running = w
    BY <2>1 DEF SingleFlight
  <2>3. QED
    BY <1>a, <1>7, <2>1, <2>2, RunMoves, FlightAfter
<1>8. ASSUME NEW w \in Runners, Queue(w)
      PROVE  SingleFlight'
  <2>1. run[w].at = "queue" /\ running' = running /\ holder' = holder /\ del' = del
    BY <1>8 DEF Queue, diskVars
  <2>2. QED
    BY <1>a, <1>8, <2>1, RunMoves, FlightAfter
<1>9. CASE BeginDelete
  BY <1>9, RunnersAssumption DEF BeginDelete, slotVars, SingleFlight, Holds
<1>10. CASE RemoveSnapshot \/ RemovalFails
  BY <1>10, <1>a DEF RemoveSnapshot, RemovalFails, slotVars, SingleFlight, Holds, TypeInv, LocksTyped
<1>11. CASE EndDelete
  BY <1>11, RunnersAssumption DEF EndDelete, slotVars, SingleFlight, Holds, NoDelete
<1>12. CASE Die
  BY <1>12, RunnersAssumption, IdleTyped DEF Die, SingleFlight, Holds, NoDelete
<1>13. CASE WorkerStep \/ Stop \/ Shutdown \/ Start \/ UNCHANGED backupVars
  <2>1. UNCHANGED <<run, running>>
    BY <1>13, OthersMoveNoRun
  <2>2. UNCHANGED <<holder, del>>
    <3> USE DEF diskVars
    <3>1. CASE WorkerStep
      BY <3>1 DEF WorkerStep, TakeNext, Look, StoreSize
    <3>2. CASE Stop \/ Shutdown \/ Start \/ UNCHANGED backupVars
      BY <3>2 DEF Stop, Shutdown, Start, backupVars
    <3>3. QED
      BY <1>13, <3>1, <3>2
  <2>3. QED
    BY <2>1, <2>2 DEF SingleFlight, Holds
<1>14. QED
  BY <1>1, <1>2, <1>3, <1>4, <1>5, <1>6, <1>7, <1>8, <1>9, <1>10, <1>11, <1>12, <1>13
     DEF BackupNext, BackupStep, RunStep, DeleteStep

LEMMA FlightStarts == BackupInit => SingleFlight
<1> SUFFICES ASSUME BackupInit PROVE SingleFlight
  OBVIOUS
<1>1. /\ run = AtStart /\ holder = Nobody /\ running = Nobody /\ del.at = "idle"
  BY DEF BackupInit, NoDelete
<1>2. QED
  BY <1>1, RunnersAssumption, IdleTyped DEF SingleFlight, Holds

(***************************************************************************)
(* At most one run is between its claim and its release, and the mutex     *)
(* disk belongs to whoever writes, a run or a deletion, whatever is asked  *)
(* for meanwhile (runOnce and DeleteSnapshot in backup/manager.go).        *)
(***************************************************************************)
THEOREM OneRunAtATime == BackupSpec => []SingleFlight
<1>1. BackupInit => TypeInv /\ SingleFlight
  BY TypeStarts, FlightStarts
<1>2. TypeInv /\ SingleFlight /\ [BackupNext]_backupVars => TypeInv' /\ SingleFlight'
  BY TypeStep, FlightStep
<1>3. QED
  BY <1>1, <1>2, PTL DEF BackupSpec

----------------------------------------------------------------------------
(***************************************************************************)
(* What the disk holds.  Only a snapshot that the run in progress has made *)
(* may be partial without a record of it; of every other one, fate says    *)
(* what it is.  And the run in progress writes the newest of all.          *)
(***************************************************************************)
Making(d) == \E w \in Runners : run[w].at = "copying" /\ run[w].name = d /\ run[w].created

Whole(d) ==
  /\ fate[d] = "good" => snapshots[d] \in Days
  /\ snapshots[d] = Missing <=> fate[d] = "none"
  /\ snapshots[d] = Partial => fate[d] \in {"cut", "left"}

Busy(w) == run[w].at \in {"copying", "copied"}

Newest(w) == run[w].name = today /\ today \in Present /\ (run[w].at = "copied" => fate[today] = "good")

DiskInv ==
  /\ Present \subseteq 1 .. today
  /\ \A w \in Runners : Busy(w) => Newest(w)
  /\ \A d \in Days : IF Making(d) THEN snapshots[d] = Partial /\ fate[d] = "none" ELSE Whole(d)

\* What a deletion has still to remove is there.
Target == del.at = "removing" => del.name \in Present

AllInv == TypeInv /\ SingleFlight /\ DiskInv /\ Target

LEMMA NoDays == Partial \notin Days /\ Missing \notin Days /\ Missing # Partial
BY LastDayAssumption DEF Partial, Missing, Days

\* Who else would write holds the mutex as well.
LEMMA WritesAlone ==
  ASSUME SingleFlight
  PROVE  /\ \A w, v \in Runners : Busy(w) /\ Busy(v) => v = w
         /\ holder \notin Runners => \A v \in Runners : ~Busy(v)
BY DEF SingleFlight, Holds, Busy

\* A state in which no run writes.
LEMMA NobodyWrites ==
  ASSUME \A w \in Runners : run'[w].at \notin {"copying", "copied"},
         Present' \subseteq 1 .. today',
         \A d \in Days : Whole(d)'
  PROVE  DiskInv'
BY DEF DiskInv, Busy, Making

\* A step of a run that does not write, and writes nothing.
LEMMA NothingWritten ==
  ASSUME DiskInv, NEW w \in Runners, NEW stage, Moved(w, stage),
         stage \notin {"copying", "copied"}, ~Busy(w), UNCHANGED <<snapshots, fate, today>>
  PROVE  DiskInv'
<1>1. \A v \in Runners : Busy(v)' <=> Busy(v)
  BY DEF Moved, Busy
<1>2. \A d \in Days : Making(d)' <=> Making(d)
  BY DEF Moved, Busy, Making
<1>3. \A d \in Days : Whole(d)' <=> Whole(d)
  BY DEF Whole
<1>4. Present' = Present
  BY DEF Present
<1>5. \A v \in Runners : Busy(v) => Newest(v)'
  BY <1>4 DEF DiskInv, Moved, Busy, Newest
<1>6. QED
  BY <1>1, <1>2, <1>3, <1>4, <1>5 DEF DiskInv

LEMMA DiskInvStarts == BackupInit => DiskInv
<1> SUFFICES ASSUME BackupInit PROVE DiskInv
  OBVIOUS
<1>1. Present \subseteq 1 .. today
  BY DEF BackupInit
<1>2. \A w \in Runners : run[w].at \notin {"copying", "copied"}
  BY IdleTyped DEF BackupInit
<1>3. \A d \in Days : snapshots[d] \in Days \cup {Missing}
  BY RunnersAssumption DEF BackupInit
<1>4. \A d \in Days : Whole(d)
  BY <1>3, NoDays DEF BackupInit, Whole
<1>5. QED
  BY <1>1, <1>2, <1>4 DEF DiskInv, Busy, Making

LEMMA StartKeepsDisk ==
  ASSUME AllInv, NEW w \in Runners, StartRsync(w)
  PROVE  DiskInv'
<1>1. /\ today' \in Days /\ today \in Days /\ today <= today'
      /\ snapshots' = [snapshots EXCEPT ![today'] = IF @ = Missing THEN Partial ELSE @]
      /\ fate' = fate /\ holder = Nobody
  BY LastDayAssumption DEF StartRsync, AllInv, TypeInv, CountsTyped, Days
<1>2. /\ Moved(w, "copying") /\ run'[w].name = today'
      /\ run'[w].created = (snapshots[today'] = Missing)
  BY StartMoves DEF AllInv, TypeInv
<1>3. snapshots \in [Days -> Contents]
  BY DEF AllInv, TypeInv, DiskTyped
<1>4. \A v \in Runners : ~Busy(v)
  BY <1>1, WritesAlone, RunnersAssumption DEF AllInv
<1>5. Present \subseteq 1 .. today /\ \A d \in Days : Whole(d)
  BY <1>4 DEF AllInv, DiskInv, Making, Busy
<1>6. Present' \subseteq 1 .. today' /\ today' \in Present'
  <2>1. Present' = Present \cup {today'}
    BY <1>1, <1>3, NoDays DEF Present
  <2>2. QED
    BY <1>1, <1>5, <2>1, LastDayAssumption DEF Days
<1>7. \A v \in Runners : v # w => run'[v].at \notin {"copying", "copied"}
  BY <1>2, <1>4 DEF Moved, Busy
<1>8. \A v \in Runners : Busy(v)' => Newest(v)'
  BY <1>2, <1>6, <1>7 DEF Busy, Newest, Moved
<1>9. ASSUME NEW d \in Days
      PROVE  (IF Making(d) THEN snapshots[d] = Partial /\ fate[d] = "none" ELSE Whole(d))'
  <2>1. Making(d)' <=> d = today' /\ snapshots[d] = Missing
    BY <1>2, <1>7 DEF Making, Moved
  <2>2. snapshots'[d] = IF d = today' /\ snapshots[d] = Missing THEN Partial ELSE snapshots[d]
    BY <1>1, <1>3
  <2>3. Whole(d)
    BY <1>5
  <2>4. QED
    BY <1>1, <2>1, <2>2, <2>3, NoDays DEF Whole
<1>10. QED
  BY <1>6, <1>8, <1>9 DEF DiskInv

LEMMA CopyKeepsDisk ==
  ASSUME AllInv, NEW w \in Runners, Succeed(w) \/ Fail(w) \/ Cancel(w)
  PROVE  DiskInv'
<1> DEFINE d == run[w].name
<1>1. run[w].at = "copying" /\ Busy(w) /\ today' = today
  BY DEF Succeed, Fail, Cancel, Interrupted, RsyncEnds, RunAt, Busy, processVars
<1>2. d = today /\ today \in Present /\ today \in Days /\ snapshots[d] # Missing
  BY <1>1 DEF AllInv, DiskInv, Newest, Present
<1>3. snapshots \in [Days -> Contents] /\ fate \in [Days -> {"none", "good", "cut", "left"}]
  BY DEF AllInv, TypeInv, DiskTyped
<1>4. \A v \in Runners \ {w} : ~Busy(v) /\ run'[v].at \notin {"copying", "copied"}
  <2>1. \A v \in Runners \ {w} : run'[v] = run[v]
    BY RunMoves DEF AllInv, TypeInv, Moved
  <2>2. QED
    BY <1>1, <2>1, WritesAlone DEF AllInv, Busy
<1>5. \A e \in Days \ {d} : Whole(e)
  BY <1>1, <1>4 DEF AllInv, DiskInv, Making, Busy
<1>6. IF run[w].created THEN snapshots[d] = Partial /\ fate[d] = "none" ELSE Whole(d)
  BY <1>1, <1>2, <1>4 DEF AllInv, DiskInv, Making, Busy
<1> HIDE DEF d
<1>7. CASE Succeed(w)
  <2>1. PICK n \in Copies(d) : Written(d, n, "good")
    BY <1>7 DEF Succeed, RsyncEnds, Written, d
  <2>2. n \in Days
    BY <1>2, <2>1, CopiesAreContents DEF AllInv, TypeInv
  <2>3. snapshots'[d] = n /\ fate'[d] = "good"
    BY <1>2, <1>3, <2>1 DEF Written
  <2>4. ASSUME NEW e \in Days
        PROVE  Whole(e)'
    <3>1. CASE e = d
      BY <2>2, <2>3, <3>1, NoDays DEF Whole
    <3>2. CASE e # d
      BY <1>3, <1>5, <2>1, <3>2 DEF Written, Whole
    <3>3. QED
      BY <3>1, <3>2
  <2>5. Present' = Present
    BY <1>2, <1>3, <2>1, <2>2, NoDays DEF Present, Written
  <2>6. Moved(w, "copied") /\ run'[w].name = d
    BY <1>7, RunMoves DEF AllInv, TypeInv, d
  <2>7. \A v \in Runners : Busy(v)' => Newest(v)'
    BY <1>1, <1>2, <1>4, <2>3, <2>5, <2>6 DEF Busy, Newest
  <2>8. \A e \in Days : ~Making(e)'
    BY <1>4, <2>6 DEF Making, Moved
  <2>9. QED
    BY <1>1, <2>4, <2>5, <2>7, <2>8 DEF AllInv, DiskInv
<1>8. CASE Fail(w) \/ Cancel(w)
  <2>1. \/ Written(d, Partial, "cut")
        \/ ~run[w].created /\ Written(d, snapshots[d], fate[d])
        \/ run[w].created /\ Written(d, Missing, "none")
        \/ Written(d, Partial, "left")
    <3>1. CASE Fail(w)
      BY <3>1, InterruptedWrites DEF Fail, d
    <3>2. CASE Cancel(w) /\ run[w].created
      BY <1>6, <3>2 DEF Cancel, RsyncEnds, Written, d
    <3>3. CASE Cancel(w) /\ ~run[w].created
      <4>1. fate[d] # "none"
        BY <1>2, <1>6, <3>3 DEF Whole
      <4>2. Interrupted(w, "cut")
        BY <3>3, <4>1 DEF Cancel, d
      <4>3. QED
        BY <4>2, InterruptedWrites DEF d
    <3>4. QED
      BY <1>8, <3>1, <3>2, <3>3
  <2>2. ASSUME NEW e \in Days, e = d
        PROVE  Whole(e)'
    BY <1>3, <1>6, <2>1, <2>2, NoDays DEF Written, Whole
  <2>3. ASSUME NEW e \in Days, e # d
        PROVE  Whole(e)'
    BY <1>3, <1>5, <2>1, <2>3 DEF Written, Whole
  <2>4. Present' \subseteq Present
    BY <1>2, <1>3, <2>1 DEF Present, Written
  <2>5. Moved(w, "unlock")
    BY <1>8, RunMoves DEF AllInv, TypeInv
  <2>6. \A v \in Runners : run'[v].at \notin {"copying", "copied"}
    BY <1>4, <2>5 DEF Moved
  <2>7. Present' \subseteq 1 .. today'
    BY <1>1, <2>4 DEF AllInv, DiskInv
  <2>8. QED
    BY <2>2, <2>3, <2>6, <2>7, NobodyWrites
<1>9. QED
  BY <1>7, <1>8

\* What a prune removes, and what it leaves half-removed.
Takes(gone, half) ==
  /\ gone \cup half \subseteq Present
  /\ snapshots' = [d \in Days |-> IF d \in gone THEN Missing
                                 ELSE IF d \in half THEN Partial ELSE snapshots[d]]
  /\ fate' = [d \in Days |-> IF d \in gone THEN "none"
                            ELSE IF d \in half THEN "left" ELSE fate[d]]

LEMMA PruneTakes ==
  ASSUME RunsTyped, NEW w \in Runners, Prune(w)
  PROVE  \E n, gone, half :
           /\ gone = Pruned(Present, run[w].limits, n)
           /\ half \subseteq Pruned(Present, run[w].limits, n + 1)
           /\ Takes(gone, half)
           /\ half = {} \/ dropped' # {}
           /\ Leave(w, run[w].touched \cup gone)
<1>1. Present \subseteq Days /\ run[w].limits \in Limits
  BY TouchedTyped DEF Present
<1>2. PICK n :
        LET gone == Pruned(Present, run[w].limits, n)
            next == Pruned(Present, run[w].limits, n + 1) \ gone IN
        \E half \in {{}, next} :
          /\ snapshots' = [d \in Days |-> IF d \in gone THEN Missing
                                         ELSE IF d \in half THEN Partial ELSE snapshots[d]]
          /\ fate' = [d \in Days |-> IF d \in gone THEN "none"
                                    ELSE IF d \in half THEN "left" ELSE fate[d]]
          /\ \/ half = {} /\ UNCHANGED counters
             \/ half # {} /\ dropped' = dropped \cup {"removal"} /\ CountEvent
          /\ Leave(w, run[w].touched \cup gone)
  BY DEF Prune
<1>3. PICK gone : gone = Pruned(Present, run[w].limits, n)
  OBVIOUS
<1>4. PICK next : next = Pruned(Present, run[w].limits, n + 1)
  OBVIOUS
<1>5. gone \subseteq Present /\ next \subseteq Present
  BY <1>1, <1>3, <1>4, PrunedIsDoomed
<1>6. PICK half \in {{}, next \ gone} :
          /\ snapshots' = [d \in Days |-> IF d \in gone THEN Missing
                                         ELSE IF d \in half THEN Partial ELSE snapshots[d]]
          /\ fate' = [d \in Days |-> IF d \in gone THEN "none"
                                    ELSE IF d \in half THEN "left" ELSE fate[d]]
          /\ \/ half = {} /\ UNCHANGED counters
             \/ half # {} /\ dropped' = dropped \cup {"removal"} /\ CountEvent
          /\ Leave(w, run[w].touched \cup gone)
  BY <1>2, <1>3, <1>4
<1>7. gone \cup half \subseteq Present /\ half \subseteq next
  BY <1>5, <1>6
<1>8. Takes(gone, half)
  BY <1>6, <1>7, Zenon DEF Takes
<1>9. half = {} \/ dropped' # {}
  BY <1>6
<1>10. QED
  BY <1>3, <1>4, <1>6, <1>7, <1>8, <1>9, Zenon

LEMMA PruneKeepsDisk ==
  ASSUME AllInv, NEW w \in Runners, Prune(w)
  PROVE  DiskInv'
<1>0. RunsTyped
  BY DEF AllInv, TypeInv
<1>1. PICK gone, half : Takes(gone, half)
  BY <1>0, PruneTakes, Zenon
<1>2. run[w].at = "copied" /\ Busy(w) /\ today' = today
  BY DEF Prune, RunAt, Busy, processVars
<1>3. Moved(w, "unlock")
  BY RunMoves DEF AllInv, TypeInv
<1>4. \A v \in Runners : run'[v].at \notin {"copying", "copied"}
  BY <1>2, <1>3, WritesAlone DEF AllInv, Moved, Busy
<1>5. \A d \in Days : Whole(d)
  BY <1>2, WritesAlone DEF AllInv, DiskInv, Making, Busy
<1>6. \A d \in Days : Whole(d)'
  BY <1>1, <1>5, NoDays DEF Whole, Takes
<1>7. Present' \subseteq Present
  BY <1>1 DEF Present, Takes
<1>8. Present' \subseteq 1 .. today'
  BY <1>2, <1>7 DEF AllInv, DiskInv
<1>9. QED
  BY <1>4, <1>6, <1>8, NobodyWrites

LEMMA RemoveKeepsDisk ==
  ASSUME AllInv, RemoveSnapshot \/ RemovalFails
  PROVE  DiskInv'
<1>1. /\ \/ Written(del.name, Missing, "none")
         \/ Written(del.name, Partial, "left")
         \/ UNCHANGED <<snapshots, fate>>
      /\ del.at = "removing" /\ today' = today /\ run' = run
  BY DEF RemoveSnapshot, RemovalFails, Written, processVars, slotVars
<1>2. snapshots \in [Days -> Contents] /\ fate \in [Days -> {"none", "good", "cut", "left"}]
  BY DEF AllInv, TypeInv, DiskTyped
<1>3. holder = Deletion
  BY <1>1 DEF AllInv, SingleFlight
<1>4. \A v \in Runners : ~Busy(v)
  BY <1>3, WritesAlone, RunnersAssumption DEF AllInv
<1>5. \A d \in Days : Whole(d)
  BY <1>4 DEF AllInv, DiskInv, Making, Busy
<1>6. \A d \in Days : Whole(d)'
  BY <1>1, <1>2, <1>5, NoDays DEF Whole, Written
<1>7. Present' \subseteq Present
  BY <1>1, <1>2 DEF Present, Written, AllInv, Target
<1>8. Present' \subseteq 1 .. today'
  BY <1>1, <1>7 DEF AllInv, DiskInv
<1>9. QED
  BY <1>1, <1>4, <1>6, <1>8, NobodyWrites DEF Busy

(***************************************************************************)
(* A death cuts what is under way, by a run that writes the newest         *)
(* snapshot or by a deletion, and nothing else.                            *)
(***************************************************************************)
LEMMA DeathCuts ==
  ASSUME AllInv, Die
  PROVE  \E C \in SUBSET Present :
           /\ snapshots' = [d \in Days |-> IF d \in C THEN Partial ELSE snapshots[d]]
           /\ \E d \in Days : C \subseteq {d}
           /\ C # {} => holder # Nobody
<1>1. PICK C \in SUBSET {d \in Days : UnderWay(d)} :
        snapshots' = [d \in Days |-> IF d \in C THEN Partial ELSE snapshots[d]]
  BY DEF Die
<1>2. \A d \in Days, w \in Runners :
        run[w].at = "copying" /\ run[w].name = d => holder = w /\ d = today /\ d \in Present
  BY DEF AllInv, SingleFlight, Holds, DiskInv, Busy, Newest
<1>3. del.at = "removing" => holder = Deletion /\ del.name \in Present
  BY DEF AllInv, SingleFlight, Target
<1>4. Nobody \notin Runners /\ Deletion \notin Runners /\ Nobody # Deletion
  BY RunnersAssumption
<1>5. C \in SUBSET Present
  BY <1>2, <1>3 DEF UnderWay, Writing
<1>6. C # {} => holder # Nobody
  BY <1>2, <1>3, <1>4 DEF UnderWay, Writing
<1>7. \E d \in Days : C \subseteq {d}
  <2>1. CASE holder = Deletion
    <3>1. C \subseteq {del.name}
      BY <1>2, <1>4, <2>1 DEF UnderWay, Writing
    <3>2. CASE del.name \in Days
      BY <3>1, <3>2
    <3>3. CASE del.name \notin Days
      BY <3>1, <3>3 DEF AllInv, TypeInv, CountsTyped
    <3>4. QED
      BY <3>2, <3>3
  <2>2. CASE holder # Deletion
    <3>1. C \subseteq {today} /\ today \in Days
      BY <1>2, <1>3, <2>2 DEF UnderWay, Writing, AllInv, TypeInv, CountsTyped
    <3>2. QED
      BY <3>1
  <2>3. QED
    BY <2>1, <2>2
<1>8. QED
  BY <1>1, <1>5, <1>6, <1>7

\* A death shows what was only half there.
LEMMA DeathKeepsDisk ==
  ASSUME AllInv, Die
  PROVE  DiskInv'
<1>1. /\ fate' = [d \in Days |-> IF snapshots'[d] = Partial THEN "cut" ELSE fate[d]]
      /\ today' = today /\ run' = AtStart
  BY DEF Die
<1>2. PICK C \in SUBSET Present :
        snapshots' = [d \in Days |-> IF d \in C THEN Partial ELSE snapshots[d]]
  BY DeathCuts
<1>3. \A d \in Days : Whole(d)'
  BY <1>1, <1>2, NoDays DEF AllInv, DiskInv, Whole
<1>4. Present' \subseteq Present
  BY <1>2 DEF Present
<1>5. Present' \subseteq 1 .. today'
  BY <1>1, <1>4 DEF AllInv, DiskInv
<1>6. \A w \in Runners : run'[w].at \notin {"copying", "copied"}
  BY <1>1, IdleTyped
<1>7. QED
  BY <1>3, <1>5, <1>6, NobodyWrites

LEMMA DiskInvStep == AllInv /\ [BackupNext]_backupVars => DiskInv'
<1> SUFFICES ASSUME AllInv, [BackupNext]_backupVars PROVE DiskInv'
  OBVIOUS
<1>0. RunsTyped /\ CountsTyped /\ DiskInv
  BY DEF AllInv, TypeInv
<1>1. ASSUME NEW w \in Runners, Claim(w)
      PROVE  DiskInv'
  <2>1. ~Busy(w) /\ UNCHANGED <<snapshots, fate, today>>
    BY <1>1 DEF Claim, Claims, RunAt, Busy, diskVars, processVars
  <2>2. QED
    BY <1>0, <1>1, <2>1, ClaimMoves, NothingWritten
<1>2. ASSUME NEW w \in Runners,
             Unhealthy(w) \/ NeverStarts(w) \/ Unlock(w) \/ Release(w) \/ Queue(w)
      PROVE  DiskInv'
  <2>1. ~Busy(w) /\ UNCHANGED <<snapshots, fate, today>>
    BY <1>2 DEF Unhealthy, NeverStarts, Unlock, Release, Queue, RunAt, Busy, diskVars, processVars
  <2>2. \E stage \in {"unlock", "release", "queue", "idle"} : Moved(w, stage)
    BY <1>0, <1>2, RunMoves
  <2>3. QED
    BY <1>0, <2>1, <2>2, NothingWritten
<1>3. CASE WorkerStep \/ BeginDelete \/ EndDelete \/ Stop \/ Shutdown \/ Start \/ UNCHANGED backupVars
  <2>1. UNCHANGED <<snapshots, fate>> /\ UNCHANGED run
    BY <1>3, OthersWriteNothing, OthersMoveNoRun DEF DeleteStep
  <2>2. today' = today
    <3> USE DEF processVars
    <3>1. CASE WorkerStep
      BY <3>1 DEF WorkerStep, TakeNext, Look, StoreSize
    <3>2. CASE BeginDelete \/ EndDelete
      BY <3>2 DEF BeginDelete, EndDelete
    <3>3. CASE Stop \/ Shutdown \/ Start \/ UNCHANGED backupVars
      BY <3>3 DEF Stop, Shutdown, Start, backupVars
    <3>4. QED
      BY <1>3, <3>1, <3>2, <3>3
  <2>3. QED
    BY <1>0, <2>1, <2>2 DEF DiskInv, Present, Busy, Newest, Making, Whole
<1>4. QED
  BY <1>1, <1>2, <1>3, StartKeepsDisk, CopyKeepsDisk, PruneKeepsDisk, RemoveKeepsDisk,
     DeathKeepsDisk DEF BackupNext, BackupStep, RunStep, DeleteStep

\* No run writes while a deletion has the disk.
LEMMA TargetStep == AllInv /\ [BackupNext]_backupVars => Target'
<1> SUFFICES ASSUME AllInv, [BackupNext]_backupVars, del'.at = "removing" PROVE del'.name \in Present'
  BY DEF Target
<1>1. ASSUME del' = del
      PROVE  /\ holder = Deletion /\ del.name \in Present
             /\ snapshots' = snapshots => del'.name \in Present'
  BY <1>1 DEF AllInv, SingleFlight, Target, Present
<1>2. ASSUME NEW w \in Runners, Claim(w) \/ RunStep(w)
      PROVE  del'.name \in Present'
  <2>1. del' = del
    BY <1>2, RunFrame DEF Claim, Claims
  <2>2. ~Busy(w) /\ holder # Nobody
    BY <1>1, <2>1, WritesAlone, RunnersAssumption DEF AllInv
  <2>3. Claim(w) \/ Unlock(w) \/ Release(w) \/ Queue(w)
    BY <1>2, <2>2 DEF RunStep, Unhealthy, NeverStarts, StartRsync, Succeed, Fail, Cancel, Prune,
         RunAt, Busy
  <2>4. snapshots' = snapshots
    BY <2>3, OthersWriteNothing
  <2>5. QED
    BY <1>1, <2>1, <2>4
<1>3. CASE BeginDelete
  <2>1. PICK d \in Present : del' = [at |-> "removing", name |-> d] /\ snapshots' = snapshots
    BY <1>3 DEF BeginDelete
  <2>2. QED
    BY <2>1 DEF Present
<1>4. CASE DeleteStep \/ Die
  <2>1. del \in [at : {"idle", "removing", "queue", "unlock"}, name : Days \cup {NoDay}]
    BY DEF AllInv, TypeInv, LocksTyped
  <2>2. del'.at # "removing"
    BY <1>4, <2>1 DEF DeleteStep, RemoveSnapshot, RemovalFails, EndDelete, Die, NoDelete
  <2>3. QED
    BY <2>2
<1>5. CASE WorkerStep \/ Stop \/ Shutdown \/ Start \/ UNCHANGED backupVars
  <2>1. snapshots' = snapshots
    BY <1>5, OthersWriteNothing
  <2>2. CASE WorkerStep
    BY <1>1, <2>1, <2>2 DEF WorkerStep, TakeNext, Look, StoreSize
  <2>3. CASE Stop \/ Shutdown \/ Start \/ UNCHANGED backupVars
    BY <1>1, <2>1, <2>3 DEF Stop, Shutdown, Start, backupVars
  <2>4. QED
    BY <1>5, <2>2, <2>3
<1>6. QED
  BY <1>2, <1>3, <1>4, <1>5 DEF BackupNext, BackupStep

LEMMA AllInvStarts == BackupInit => AllInv
<1>1. BackupInit => Target
  BY DEF BackupInit, Target, NoDelete
<1>2. QED
  BY <1>1, TypeStarts, FlightStarts, DiskInvStarts, Zenon DEF AllInv

LEMMA AllInvStep == AllInv /\ [BackupNext]_backupVars => AllInv'
BY TypeStep, FlightStep, DiskInvStep, TargetStep, Zenon DEF AllInv

----------------------------------------------------------------------------
(***************************************************************************)
(* A partial snapshot that nobody is writing was cut by a failure, a death *)
(* or the interruption of a second run of its day, or a removal that       *)
(* failed, and said so, left it: what a stopped run made is gone again, or *)
(* its warning names it (Stop and execute in backup/manager.go, run.go).   *)
(***************************************************************************)
THEOREM NoHalfBackupEver == BackupSpec => []NoHalfBackup
<1>1. AllInv => NoHalfBackup
  BY DEF AllInv, DiskInv, Making, Whole, NoHalfBackup, Writing
<1>2. QED
  BY <1>1, AllInvStarts, AllInvStep, PTL DEF BackupSpec

(***************************************************************************)
(* The newest snapshot whose last run succeeded is on the disk, complete,  *)
(* whatever retention has removed (prune in backup/retention.go).          *)
(***************************************************************************)
THEOREM NewestGoodIsThere == BackupSpec => []NewestGoodStays
<1>1. ASSUME AllInv PROVE NewestGoodStays
  <2>1. ASSUME Good # {} PROVE NewestOf(Good) \in Good
    BY <2>1, NewestIsThere DEF Good
  <2>2. \A d \in Good : snapshots[d] \in Days
    BY <1>1 DEF AllInv, DiskInv, Whole, Good
  <2>3. QED
    BY <2>1, <2>2, NoDays DEF NewestGoodStays
<1>2. QED
  BY <1>1, AllInvStarts, AllInvStep, PTL DEF BackupSpec

\* The snapshot that was just written outlives the prune that follows.
LEMMA PruneSparesToday ==
  ASSUME AllInv, NEW w \in Runners, Prune(w)
  PROVE  /\ today \in Days /\ today \in Present /\ \A d \in Present : d <= today
         /\ snapshots'[today] = snapshots[today] /\ fate'[today] = "good"
         /\ \A d \in Days : snapshots'[d] # snapshots[d] \/ fate'[d] # fate[d]
                            => d \in Present /\ d # today /\ snapshots'[d] \in {Missing, Partial}
<1>1. run[w].at = "copied" /\ Busy(w)
  BY DEF Prune, RunAt, Busy
<1>2. today \in Present /\ fate[today] = "good" /\ Present \subseteq Days
  BY <1>1 DEF AllInv, DiskInv, Newest, Present
<1>3. \A d \in Present : d <= today
  BY <1>2, LastDayAssumption DEF AllInv, DiskInv, Days
<1>0. RunsTyped
  BY DEF AllInv, TypeInv
<1>4. PICK n, gone, half :
        /\ gone = Pruned(Present, run[w].limits, n)
        /\ half \subseteq Pruned(Present, run[w].limits, n + 1)
        /\ Takes(gone, half)
  BY <1>0, PruneTakes, Zenon
<1>5. run[w].limits \in Limits
  BY TouchedTyped DEF AllInv, TypeInv
<1>6. \A k : today \notin Pruned(Present, run[w].limits, k)
  BY <1>2, <1>3, <1>5, NewestStays
<1>7. today \notin gone \cup half
  BY <1>4, <1>6
<1>8. QED
  BY <1>2, <1>3, <1>4, <1>7 DEF Takes

ThinOut ==
  \A d \in Days :
    /\ fate[d] = "good" /\ del' = del
    /\ snapshots'[d] = Missing \/ fate'[d] = "left"
    => \E e \in Days : e > d /\ fate'[e] = "good"

LEMMA ThinOutStep == AllInv /\ [BackupNext]_backupVars => ThinOut
<1> SUFFICES ASSUME AllInv, [BackupNext]_backupVars,
                    NEW d \in Days, fate[d] = "good", del' = del,
                    snapshots'[d] = Missing \/ fate'[d] = "left"
             PROVE  \E e \in Days : e > d /\ fate'[e] = "good"
  BY DEF ThinOut
<1>1. snapshots[d] \in Days /\ (snapshots'[d] # snapshots[d] \/ fate'[d] # fate[d])
  BY NoDays DEF AllInv, DiskInv, Whole
<1>2. snapshots \in [Days -> Contents] /\ fate \in [Days -> {"none", "good", "cut", "left"}]
  BY DEF AllInv, TypeInv, DiskTyped
<1>3. ASSUME NEW w \in Runners, StartRsync(w)
      PROVE  FALSE
  BY <1>1, <1>2, <1>3, NoDays DEF StartRsync
<1>4. ASSUME NEW w \in Runners, Succeed(w)
      PROVE  FALSE
  <2>1. run[w].name \in Days
    BY <1>4 DEF Succeed, RunAt, AllInv, TypeInv, Named
  <2>2. PICK n \in Copies(run[w].name) : Written(run[w].name, n, "good")
    BY <1>4 DEF Succeed, RsyncEnds, Written
  <2>3. n \in Days
    BY <2>1, <2>2, CopiesAreContents DEF AllInv, TypeInv
  <2>4. QED
    BY <1>1, <1>2, <2>2, <2>3, NoDays DEF Written
<1>5. ASSUME NEW w \in Runners, Fail(w) \/ Cancel(w)
      PROVE  FALSE
  <2>1. \/ \E what \in {"none", "cut"}, content \in {Partial, snapshots[run[w].name]} :
             \/ Written(run[w].name, content, what)
             \/ Written(run[w].name, content, fate[run[w].name])
        \/ run[w].created /\ \E what : Written(run[w].name, Missing, what)
        \/ run[w].created /\ Written(run[w].name, Partial, "left")
    BY <1>5 DEF Fail, Cancel, Interrupted, RsyncEnds, Written
  <2>2. run[w].created /\ d = run[w].name
    BY <1>1, <1>2, <2>1, NoDays DEF Written
  <2>3. Making(d)
    BY <1>5, <2>2 DEF Fail, Cancel, RunAt, Making
  <2>4. QED
    BY <2>3 DEF AllInv, DiskInv
<1>6. ASSUME NEW w \in Runners, Prune(w)
      PROVE  today \in Days /\ today > d /\ fate'[today] = "good"
  <2>1. /\ today \in Days /\ d \in Present /\ d <= today /\ d # today /\ fate'[today] = "good"
    BY <1>1, <1>6, PruneSparesToday
  <2>2. QED
    BY <2>1, LastDayAssumption DEF Days
<1>7. CASE RemoveSnapshot \/ RemovalFails
  <2>1. del.at = "removing" /\ del'.at \in {"queue", "unlock"}
    BY <1>7 DEF RemoveSnapshot, RemovalFails, AllInv, TypeInv, LocksTyped
  <2>2. QED
    BY <2>1
<1>8. CASE Die
  <2>1. fate'[d] \in {"cut", fate[d]}
    BY <1>8 DEF Die
  <2>2. snapshots'[d] \in {Partial, snapshots[d]}
    BY <1>8 DEF Die
  <2>3. QED
    BY <1>1, <2>1, <2>2, NoDays
<1>9. ~UNCHANGED <<snapshots, fate>>
  BY <1>1
<1>10. QED
  BY <1>3, <1>4, <1>5, <1>6, <1>7, <1>8, <1>9, OthersWriteNothing DEF BackupNext, BackupStep, RunStep, DeleteStep

(***************************************************************************)
(* Retention takes a good snapshot only while a newer good one stays: what *)
(* a run writes is newer than everything there, and the newest is one of   *)
(* the daily ones (execute in backup/run.go, prune in retention.go).       *)
(***************************************************************************)
THEOREM GoodOnesThinOutAlways == BackupSpec => GoodOnesThinOut
<1>1. AllInv /\ [BackupNext]_backupVars => [ThinOut]_backupVars
  BY ThinOutStep
<1>2. BackupSpec => [][ThinOut]_backupVars
  BY <1>1, AllInvStarts, AllInvStep, PTL DEF BackupSpec
<1>3. QED
  BY <1>2 DEF GoodOnesThinOut, ThinOut

----------------------------------------------------------------------------
(***************************************************************************)
(* The refinement: every step of the manager is one of the directory's one *)
(* writer, or leaves directory and writer alone.                           *)
(***************************************************************************)
LEMMA TakeTheDirectory ==
  ASSUME AllInv, NEW w \in Runners, Unhealthy(w) \/ NeverStarts(w) \/ StartRsync(w)
  PROVE  Directory!Take
<1>1. today \in Days /\ snapshots \in [Days -> Contents]
  BY DEF AllInv, TypeInv, CountsTyped, DiskTyped
<1>2. holder = Nobody /\ holder' = w
  BY DEF Unhealthy, NeverStarts, StartRsync
<1>3. \E d \in Days : \A e \in Days : snapshots'[e] # snapshots[e] => e = d
  <2>1. CASE Unhealthy(w) \/ NeverStarts(w)
    BY <1>1, <2>1 DEF Unhealthy, NeverStarts
  <2>2. CASE StartRsync(w)
    <3>1. PICK d \in Days : snapshots' = [snapshots EXCEPT ![d] = IF @ = Missing THEN Partial ELSE @]
      BY <2>2 DEF StartRsync
    <3>2. \A e \in Days : snapshots'[e] # snapshots[e] => e = d
      BY <1>1, <3>1
    <3>3. QED
      BY <3>2
  <2>3. QED
    BY <2>1, <2>2
<1>4. \E d \in Days : Directory!Changed \subseteq {d}
  BY <1>3 DEF Directory!Changed
<1>5. QED
  BY <1>2, <1>4 DEF Directory!Take

LEMMA WriteOneSnapshot ==
  ASSUME AllInv, NEW w \in Runners, Succeed(w) \/ Fail(w) \/ Cancel(w)
  PROVE  Directory!WriteOne
<1>1. holder = w /\ holder' = holder /\ run[w].name \in Days
  BY DEF Succeed, Fail, Cancel, Interrupted, RsyncEnds, RunAt, AllInv, SingleFlight, Holds,
         TypeInv, Named
<1>2. \E content : snapshots' = [snapshots EXCEPT ![run[w].name] = content]
  BY DEF Succeed, Fail, Cancel, Interrupted, RsyncEnds
<1>3. \A e \in Days : snapshots'[e] # snapshots[e] => e = run[w].name
  BY <1>2 DEF AllInv, TypeInv, DiskTyped
<1>4. Directory!Changed \subseteq {run[w].name}
  BY <1>3 DEF Directory!Changed
<1>5. QED
  BY <1>1, <1>4 DEF Directory!WriteOne

LEMMA ThinTheDirectory ==
  ASSUME AllInv, NEW w \in Runners, Prune(w)
  PROVE  Directory!Thin
<1>1. holder = w /\ holder' = holder
  BY DEF Prune, RunAt, AllInv, SingleFlight, Holds
<1>2. /\ today \in Days /\ snapshots'[today] # Missing
      /\ \A d \in Present : d <= today
      /\ \A d \in Days : snapshots'[d] # snapshots[d]
                         => d \in Present /\ d # today /\ snapshots'[d] \in {Missing, Partial}
  BY PruneSparesToday DEF Present
<1>3. Directory!Changed \subseteq Directory!Removed
  BY <1>2 DEF Directory!Changed, Directory!Removed, Present
<1>4. ASSUME NEW d \in Directory!Removed
      PROVE  today > d
  <2>1. d \in Days /\ d <= today /\ d # today
    BY <1>2 DEF Directory!Removed, Directory!Changed, Present
  <2>2. QED
    BY <1>2, <2>1, LastDayAssumption DEF Days
<1>5. QED
  BY <1>1, <1>2, <1>3, <1>4 DEF Directory!Thin

LEMMA DeleteOneSnapshot ==
  ASSUME AllInv, RemoveSnapshot \/ RemovalFails
  PROVE  Directory!DeleteOne
<1>1. holder = Deletion /\ holder' = holder
  BY DEF RemoveSnapshot, RemovalFails, AllInv, SingleFlight
<1>2. /\ \E left \in {Missing, Partial, snapshots[del.name]} :
           snapshots' = [snapshots EXCEPT ![del.name] = left]
      /\ del.name \in Days /\ snapshots[del.name] # Missing
      /\ snapshots \in [Days -> Contents]
  BY DEF RemoveSnapshot, RemovalFails, AllInv, TypeInv, DiskTyped, Target, Present
<1>3. Directory!Changed \subseteq {del.name} /\ Directory!Changed \subseteq Directory!Removed
  BY <1>2 DEF Directory!Changed, Directory!Removed
<1>4. Directory!Removed \subseteq {del.name}
  BY <1>3 DEF Directory!Removed
<1>5. QED
  BY <1>1, <1>2, <1>3, <1>4 DEF Directory!DeleteOne

LEMMA DirectoryStep == AllInv /\ [BackupNext]_backupVars => [Directory!Next]_<<snapshots, holder>>
<1> SUFFICES ASSUME AllInv, [BackupNext]_backupVars PROVE [Directory!Next]_<<snapshots, holder>>
  OBVIOUS
<1> USE DEF diskVars
<1>1. ASSUME NEW w \in Runners, Claim(w) \/ Release(w) \/ Queue(w)
      PROVE  UNCHANGED <<snapshots, holder>>
  BY <1>1 DEF Claim, Claims, Release, Queue
<1>2. ASSUME NEW w \in Runners, Unlock(w)
      PROVE  Directory!Leave
  <2>1. holder = w /\ holder' = Nobody /\ snapshots' = snapshots
    BY <1>2 DEF Unlock, RunAt, AllInv, SingleFlight, Holds
  <2>2. QED
    BY <2>1, RunnersAssumption DEF Directory!Leave
<1>3. CASE BeginDelete
  <2>1. holder = Nobody /\ holder' = Deletion /\ snapshots' = snapshots
    BY <1>3 DEF BeginDelete
  <2>2. QED
    BY <2>1 DEF Directory!Take, Directory!Next
<1>4. CASE EndDelete
  <2>1. holder = Deletion /\ holder' = Nobody /\ snapshots' = snapshots
    BY <1>4 DEF EndDelete, AllInv, SingleFlight
  <2>2. QED
    BY <2>1, RunnersAssumption DEF Directory!Leave, Directory!Next
<1>5. CASE Die
  <2>1. PICK C \in SUBSET Present, d \in Days :
          /\ snapshots' = [e \in Days |-> IF e \in C THEN Partial ELSE snapshots[e]]
          /\ C \subseteq {d}
          /\ C # {} => holder # Nobody
    BY <1>5, DeathCuts
  <2>2. holder' = Nobody /\ snapshots \in [Days -> Contents]
    BY <1>5 DEF Die, AllInv, TypeInv, DiskTyped
  <2>3. CASE holder = Nobody
    <3>1. snapshots' = snapshots
      BY <2>1, <2>2, <2>3
    <3>2. QED
      BY <2>2, <2>3, <3>1
  <2>4. CASE holder # Nobody
    <3>1. Directory!Changed \subseteq {d} /\ \A e \in Directory!Changed : snapshots'[e] = Partial
      BY <2>1, <2>2 DEF Directory!Changed
    <3>2. Directory!Die
      BY <2>2, <2>4, <3>1 DEF Directory!Die
    <3>3. QED
      BY <3>2 DEF Directory!Next
  <2>5. QED
    BY <2>3, <2>4
<1>6. CASE WorkerStep \/ Stop \/ Shutdown \/ Start \/ UNCHANGED backupVars
  <2>1. CASE WorkerStep
    BY <2>1 DEF WorkerStep, TakeNext, Look, StoreSize
  <2>2. CASE Stop \/ Shutdown \/ Start \/ UNCHANGED backupVars
    BY <2>2 DEF Stop, Shutdown, Start, backupVars
  <2>3. QED
    BY <1>6, <2>1, <2>2
<1>7. QED
  BY <1>1, <1>2, <1>3, <1>4, <1>5, <1>6, TakeTheDirectory, WriteOneSnapshot, ThinTheDirectory,
     DeleteOneSnapshot, Zenon DEF BackupNext, BackupStep, RunStep, DeleteStep, Directory!Next

(***************************************************************************)
(* The manager implements OneBackup: the directory has one writer at a     *)
(* time, each writes one snapshot, and retention removes none, in whole or *)
(* in part, that is not older than one it leaves alone (the comment at     *)
(* disk in backup/manager.go).                                             *)
(***************************************************************************)
THEOREM ManagerIsOneWriter == BackupSpec => OneWriter
<1>1. BackupInit => Directory!Init
  BY DEF BackupInit, Directory!Init
<1>2. QED
  BY <1>1, DirectoryStep, AllInvStarts, AllInvStep, PTL DEF BackupSpec, OneWriter, Directory!Spec

----------------------------------------------------------------------------
(***************************************************************************)
(* The sizes.  Snapshots share inodes with their neighbours only, so that  *)
(* what a change of one snapshot does to the size of another is done to a  *)
(* neighbour; and a run or a deletion that has changed a snapshot has its  *)
(* neighbours measured, those it has when the measuring is queued, which   *)
(* are no others than it had at the change, or newer ones than it.         *)
(***************************************************************************)
\* No snapshot lies between the days t and d.
Near(t, d) == \A m \in Present : ~(t < m /\ m < d) /\ ~(d < m /\ m < t)

\* Somebody will have the neighbours of t measured.
Noticed(t) == (\E w \in Runners : t \in run[w].touched) \/ (del.at = "queue" /\ t = del.name)

Awaited(d) ==
  \/ d \in pending
  \/ worker.at = "look" /\ worker.name = d
  \/ \E t \in Days : Noticed(t) /\ Near(t, d)

\* The size of d is known, or the worker has it in hand.
Right(d) ==
  IF worker.at = "store" /\ worker.name = d THEN worker.seen = Measure(d)
  ELSE sizes[d] = Measure(d)

Measured == dropped = {} => \A d \in Present : Awaited(d) \/ Right(d)

Touching ==
  /\ \A w \in Runners : run[w].at \in {"idle", "claimed"} => run[w].touched = {}
  /\ \A w \in Runners : Busy(w) => run[w].name \in run[w].touched
  /\ \A t \in Days : Noticed(t) => t <= today

SizesInv == (dropped = {} => LinkedInRow(snapshots)) /\ Touching /\ Measured

LEMMA OldestIsThere ==
  ASSUME NEW T, T \subseteq Days, T # {}
  PROVE  OldestOf(T) \in T /\ \A e \in T : OldestOf(T) <= e
<1>1. T \subseteq Nat
  BY LastDayAssumption DEF Days
<1>2. \E n \in T : \A m \in T : n <= m
  BY <1>1, LeastOf
<1>3. QED
  BY <1>2 DEF OldestOf

LEMMA NearIsAround ==
  ASSUME NEW t \in Days, NEW d \in Present, Near(t, d)
  PROVE  d \in Around(t)
<1>0. Present \subseteq Days /\ \A e \in Days : e \in Nat
  BY LastDayAssumption DEF Present, Days
<1>1. CASE d = t
  BY <1>1 DEF Around
<1>2. CASE d < t
  <2>1. OlderOnDisk(t) \subseteq Days /\ d \in OlderOnDisk(t)
    BY <1>0, <1>2 DEF OlderOnDisk
  <2>2. PICK o : o = NewestOf(OlderOnDisk(t))
    OBVIOUS
  <2>3. o \in OlderOnDisk(t) /\ d <= o
    BY <2>1, <2>2, NewestIsThere
  <2>4. o = d
    BY <1>0, <2>3 DEF Near, OlderOnDisk
  <2>5. QED
    BY <2>1, <2>2, <2>4 DEF Around
<1>3. CASE d > t
  <2> DEFINE newer == {e \in Present : e > t}
  <2>1. newer \subseteq Days /\ d \in newer
    BY <1>0, <1>3
  <2>2. PICK o : o = OldestOf(newer)
    OBVIOUS
  <2>3. o \in newer /\ o <= d
    BY <2>1, <2>2, OldestIsThere
  <2>4. o = d
    BY <1>0, <2>3 DEF Near
  <2>5. QED
    BY <2>1, <2>2, <2>4 DEF Around
<1>4. QED
  BY <1>0, <1>1, <1>2, <1>3

\* Removing whole snapshots, or leaving the newest one partial, keeps links in a row.
LEMMA RowKeeps ==
  ASSUME LinkedInRow(snapshots), DiskTyped,
         \A x \in Days : \/ snapshots'[x] \in {snapshots[x], Missing}
                         \/ snapshots'[x] = Partial /\ \A e \in Present : e <= x
  PROVE  LinkedInRow(snapshots')
<1> SUFFICES ASSUME NEW d \in Days, NEW m \in Days, NEW e \in Days, d < m, m < e,
                    snapshots'[d] = snapshots'[e], snapshots'[d] \in Days, snapshots'[m] # Missing
             PROVE  snapshots'[m] = snapshots'[d]
  BY DEF LinkedInRow
<1>1. snapshots'[d] = snapshots[d] /\ snapshots'[e] = snapshots[e]
  BY NoDays
<1>2. e \in Present
  BY <1>1, NoDays DEF Present
<1>3. snapshots'[m] = snapshots[m]
  <2>1. ~(e <= m)
    BY LastDayAssumption DEF Days
  <2>2. QED
    BY <1>2, <2>1
<1>4. QED
  BY <1>1, <1>3 DEF LinkedInRow


(***************************************************************************)
(* Where C is removed, or one snapshot becomes partial, the size of another *)
(* changes only if it is a neighbour.                                      *)
(***************************************************************************)
LEMMA OnlyNeighbours ==
  ASSUME LinkedInRow(snapshots), DiskTyped, NEW C \in SUBSET Days,
         \A e \in Days \ C : snapshots'[e] = snapshots[e],
         \A m \in C : snapshots'[m] = Missing \/ (snapshots'[m] = Partial /\ C = {m}),
         NEW d \in Present, d \notin C, Measure(d)' # Measure(d)
  PROVE  \E t \in C : Near(t, d)'
<1>1. d \in Days /\ snapshots'[d] = snapshots[d] /\ snapshots[d] # Missing
  BY DEF Present
<1>2. snapshots[d] # Partial /\ snapshots[d] \in Days
  BY <1>1 DEF DiskTyped, Contents, Measure
<1>3. \A e \in C : snapshots'[e] # snapshots[d]
  BY <1>2, NoDays
<1>4. PICK t \in C : snapshots[t] = snapshots[d]
  BY <1>1, <1>2, <1>3 DEF Measure
<1>5. \A e \in Days \ {d} : snapshots'[e] # snapshots[d]
  BY <1>1, <1>2, <1>4 DEF Measure
<1>6. ASSUME NEW m \in Days, snapshots'[m] # Missing, (t < m /\ m < d) \/ (d < m /\ m < t)
      PROVE  FALSE
  <2>1. m # t /\ m # d
    BY <1>6, LastDayAssumption DEF Days
  <2>2. m \notin C
    BY <1>4, <1>6, <2>1
  <2>3. snapshots'[m] = snapshots[m] /\ snapshots[m] # Missing
    BY <1>6, <2>2
  <2>4. snapshots[m] = snapshots[d]
    BY <1>1, <1>2, <1>4, <1>6, <2>3 DEF LinkedInRow
  <2>5. QED
    BY <1>5, <2>1, <2>3, <2>4
<1>7. Near(t, d)'
  BY <1>6 DEF Near, Present
<1>8. QED
  BY <1>7

\* A run that writes does so to the newest snapshot.
LEMMA WritesTheNewest ==
  ASSUME AllInv, NEW w \in Runners, Busy(w)
  PROVE  /\ run[w].name = today /\ today \in Days /\ today \in Present
         /\ \A e \in Present : e <= today
BY LastDayAssumption DEF AllInv, DiskInv, Newest, TypeInv, CountsTyped, Days

(***************************************************************************)
(* The copy of the newest snapshot is kept, linked to the one before, or   *)
(* new.                                                                    *)
(***************************************************************************)
LEMMA CopyOfTheNewest ==
  ASSUME LinkedInRow(snapshots), DiskTyped, NEW t \in Days, \A e \in Present : e <= t,
         NEW n \in Copies(t), snapshots' = [snapshots EXCEPT ![t] = n]
  PROVE  /\ LinkedInRow(snapshots')
         /\ \A d \in Present : d # t => Measure(d)' = Measure(d) \/ Near(t, d)'
<1>1. n \in Days /\ snapshots'[t] = n /\ \A e \in Days : e # t => snapshots'[e] = snapshots[e]
  BY CopiesAreContents DEF DiskTyped
<1>2. \A e \in Present : e \in Days /\ (e # t => e < t)
  BY LastDayAssumption DEF Present, Days
<1>3. \/ n = snapshots[t]
      \/ \A e \in Days \ {t} : snapshots[e] # n
      \/ \E o \in Present : o < t /\ snapshots[o] = n /\ \A e \in Present : e < t => e <= o
  <2>1. CASE n \in LinkDest(t)
    <3>1. PICK o : o = NewestOf(OlderOnDisk(t))
      OBVIOUS
    <3>2. OlderOnDisk(t) # {} /\ n = snapshots[o]
      BY <2>1, <3>1 DEF LinkDest
    <3>3. OlderOnDisk(t) \subseteq Days
      BY DEF OlderOnDisk, Present
    <3>4. o \in OlderOnDisk(t) /\ \A e \in OlderOnDisk(t) : e <= o
      BY <3>1, <3>2, <3>3, NewestIsThere
    <3>5. QED
      BY <3>2, <3>4 DEF OlderOnDisk
  <2>2. CASE n = Unused(t)
    <3> DEFINE free == {i \in Days : \A e \in Days \ {t} : snapshots[e] # i}
    <3>1. free \subseteq Days
      OBVIOUS
    <3>2. CASE free # {}
      <4>1. OldestOf(free) \in free
        BY <3>1, <3>2, OldestIsThere
      <4>2. QED
        BY <2>2, <4>1 DEF Unused
    <3>3. CASE free = {}
      BY <3>3, InodeLeft
    <3>4. QED
      BY <3>2, <3>3
  <2>3. QED
    BY <2>1, <2>2 DEF Copies
<1>4. LinkedInRow(snapshots')
  <2> SUFFICES ASSUME NEW d \in Days, NEW m \in Days, NEW e \in Days, d < m, m < e,
                      snapshots'[d] = snapshots'[e], snapshots'[d] \in Days, snapshots'[m] # Missing
               PROVE  snapshots'[m] = snapshots'[d]
    BY DEF LinkedInRow
  <2>1. d # e /\ d # m /\ m # e /\ d < e
    BY LastDayAssumption DEF Days
  <2>2. e \in Present \/ e = t
    BY <1>1, NoDays DEF Present
  <2>3. e <= t
    BY <2>2, LastDayAssumption DEF Days
  <2>4. d # t /\ m # t /\ d < t /\ m < t
    BY <2>1, <2>3, LastDayAssumption DEF Days
  <2>5. snapshots'[d] = snapshots[d] /\ snapshots'[m] = snapshots[m] /\ d \in Present /\ m \in Present
    BY <1>1, <2>4, NoDays DEF Present
  <2>6. CASE e # t \/ n = snapshots[t]
    <3>1. snapshots'[e] = snapshots[e]
      BY <1>1, <2>6
    <3>2. QED
      BY <2>5, <3>1 DEF LinkedInRow
  <2>7. CASE e = t /\ n # snapshots[t]
    <3>1. snapshots[d] = n
      BY <1>1, <2>5, <2>7
    <3>2. PICK o \in Present : o < t /\ snapshots[o] = n /\ \A x \in Present : x < t => x <= o
      BY <1>3, <2>4, <2>7, <3>1
    <3>3. o \in Days /\ m <= o
      BY <1>2, <2>4, <2>5, <3>2
    <3>4. CASE m = o
      BY <2>5, <3>1, <3>2, <3>4
    <3>5. CASE m # o
      <4>1. m < o
        BY <3>3, <3>5, LastDayAssumption DEF Days
      <4>2. QED
        BY <2>5, <3>1, <3>2, <3>3, <4>1 DEF LinkedInRow
    <3>6. QED
      BY <3>4, <3>5
  <2>8. QED
    BY <2>6, <2>7
<1>5. ASSUME NEW d \in Present, d # t, Measure(d)' # Measure(d)
      PROVE  Near(t, d)'
  <2>1. d \in Days /\ d < t /\ snapshots'[d] = snapshots[d] /\ snapshots[d] # Missing /\ snapshots[d] # Partial
    BY <1>1, <1>2, <1>5 DEF Present, Measure
  <2>2. snapshots[d] \in Days /\ n # snapshots[t]
    BY <1>1, <1>5, <2>1 DEF DiskTyped, Contents, Measure
  <2>3. CASE \E e \in Days \ {d} : snapshots[e] = snapshots[d]
    <3>1. \A e \in Days \ {d} : snapshots'[e] # snapshots[d]
      BY <1>5, <2>1, <2>3 DEF Measure
    <3>2. snapshots[t] = snapshots[d]
      BY <1>1, <2>3, <3>1
    <3>3. ASSUME NEW m \in Days, snapshots'[m] # Missing, (t < m /\ m < d) \/ (d < m /\ m < t)
          PROVE  FALSE
      <4>1. m # t /\ m # d /\ d < m /\ m < t
        BY <2>1, <3>3, LastDayAssumption DEF Days
      <4>2. snapshots'[m] = snapshots[m]
        BY <1>1, <4>1
      <4>3. snapshots[m] = snapshots[d]
        BY <2>1, <2>2, <3>2, <3>3, <4>1, <4>2 DEF LinkedInRow
      <4>4. QED
        BY <3>1, <4>1, <4>2, <4>3
    <3>4. QED
      BY <3>3 DEF Near, Present
  <2>4. CASE ~\E e \in Days \ {d} : snapshots[e] = snapshots[d]
    <3>1. n = snapshots[d]
      BY <1>1, <1>5, <2>1, <2>4 DEF Measure
    <3>2. PICK o \in Present : o < t /\ snapshots[o] = n /\ \A x \in Present : x < t => x <= o
      BY <1>3, <2>1, <2>2, <3>1
    <3>3. o = d
      BY <1>2, <2>4, <3>1, <3>2
    <3>4. ASSUME NEW m \in Days, snapshots'[m] # Missing, (t < m /\ m < d) \/ (d < m /\ m < t)
          PROVE  FALSE
      <4>1. m # t /\ d < m /\ m < t
        BY <2>1, <3>4, LastDayAssumption DEF Days
      <4>2. m \in Present
        BY <1>1, <3>4, <4>1 DEF Present
      <4>3. m <= d
        BY <3>2, <3>3, <4>1, <4>2
      <4>4. QED
        BY <2>1, <4>1, <4>3, LastDayAssumption DEF Days
    <3>5. QED
      BY <3>4 DEF Near, Present
  <2>5. QED
    BY <2>3, <2>4
<1>6. QED
  BY <1>4, <1>5

\* What each step of a run adds to what it touched.
LEMMA StageTouches ==
  ASSUME RunsTyped, NEW w \in Runners, NEW stage \in RunStages,
         run' = [run EXCEPT ![w].at = stage]
  PROVE  /\ Moved(w, stage)
         /\ run'[w].touched = run[w].touched /\ run'[w].name = run[w].name
<1>1. run[w] \in RunState
  BY DEF RunsTyped
<1>2. Moved(w, stage) /\ run'[w] = [run[w] EXCEPT !.at = stage]
  BY PutStage
<1>3. QED
  BY <1>1, <1>2 DEF RunState

LEMMA LeaveTouches ==
  ASSUME RunsTyped, NEW w \in Runners, NEW touched \in SUBSET Days, Leave(w, touched)
  PROVE  Moved(w, "unlock") /\ run'[w].touched = touched
<1> DEFINE r == [NoRun EXCEPT !.at = "unlock", !.touched = touched]
<1>1. r \in RunState /\ r.touched = touched
  BY IdleTyped DEF NoRun, RunState, RunStages
<1>2. run' = [run EXCEPT ![w] = r]
  BY DEF Leave
<1> HIDE DEF r
<1>3. run'[w] = r
  BY <1>1, <1>2, Put
<1>4. QED
  BY <1>1, <1>3, LeaveMoves

LEMMA ClaimTouches ==
  ASSUME RunsTyped, NEW w \in Runners, Claim(w)
  PROVE  Moved(w, "claimed") /\ run'[w].touched = run[w].touched
<1>1. PICK limits \in Tiers :
        run' = [run EXCEPT ![w].at = "claimed", ![w].limits = limits]
  BY DEF Claim, Claims
<1>2. run[w] \in RunState
  BY DEF RunsTyped
<1>3. run'[w] = [run[w] EXCEPT !.at = "claimed", !.limits = limits]
  BY <1>1, <1>2 DEF RunsTyped
<1>4. run'[w].touched = run[w].touched
  BY <1>2, <1>3 DEF RunState
<1>5. QED
  BY <1>4, ClaimMoves

LEMMA StartTouches ==
  ASSUME RunsTyped, NEW w \in Runners, StartRsync(w)
  PROVE  Moved(w, "copying") /\ run'[w].name = today' /\ run'[w].touched = {today'}
<1>1. PICK d \in Days :
        /\ today' = d
        /\ run' = [run EXCEPT ![w].at = "copying", ![w].name = d,
                              ![w].created = CreatedHere(d), ![w].touched = {d}]
  BY DEF StartRsync
<1>2. PICK made : made = CreatedHere(d)
  OBVIOUS
<1>3. run[w] \in RunState
  BY DEF RunsTyped
<1>4. run'[w] = [run[w] EXCEPT !.at = "copying", !.name = d, !.created = made, !.touched = {d}]
  BY <1>1, <1>2, <1>3 DEF RunsTyped
<1>5. run'[w].touched = {d}
  BY <1>3, <1>4 DEF RunState
<1>6. QED
  BY <1>1, <1>5, StartMoves

\* What retention takes away is noted.
LEMMA PruneTouches ==
  ASSUME RunsTyped, NEW w \in Runners, Prune(w)
  PROVE  /\ Moved(w, "unlock")
         /\ \E gone \in SUBSET Present :
              /\ dropped' = {} => snapshots' = [d \in Days |-> IF d \in gone THEN Missing ELSE snapshots[d]]
              /\ run'[w].touched = run[w].touched \cup gone
<1>1. PICK gone, half :
         /\ Takes(gone, half)
         /\ half = {} \/ dropped' # {}
         /\ Leave(w, run[w].touched \cup gone)
  BY PruneTakes, Zenon
<1>2. run[w].touched \cup gone \in SUBSET Days
  BY <1>1, TouchedTyped DEF Present, Takes
<1>3. Moved(w, "unlock") /\ run'[w].touched = run[w].touched \cup gone
  BY <1>1, <1>2, LeaveTouches
<1>4. gone \in SUBSET Present
  BY <1>1 DEF Takes
<1>5. dropped' = {} => snapshots' = [d \in Days |-> IF d \in gone THEN Missing ELSE snapshots[d]]
  BY <1>1 DEF Takes
<1>6. QED
  BY <1>3, <1>4, <1>5

LEMMA OtherTouches ==
  ASSUME RunsTyped, CountsTyped, NEW w \in Runners
  PROVE  /\ Unhealthy(w) => Moved(w, "unlock") /\ run'[w].touched \in {{}, {today}}
         /\ NeverStarts(w) => Moved(w, "unlock") /\ run'[w].touched = {today}
         /\ Succeed(w) => /\ Moved(w, "copied") /\ run'[w].name = run[w].name
                          /\ run'[w].touched = run[w].touched
         /\ Fail(w) \/ Cancel(w) => Moved(w, "unlock") /\ run'[w].touched = run[w].touched
         /\ Unlock(w) => Moved(w, "release") /\ run'[w].touched = run[w].touched
         /\ Release(w) => Moved(w, "queue") /\ run'[w].touched = run[w].touched
         /\ Queue(w) => Moved(w, "idle") /\ run'[w].touched = {}
<1>1. {} \in SUBSET Days /\ {today} \in SUBSET Days /\ run[w].touched \in SUBSET Days
  BY TouchedTyped DEF CountsTyped
<1>2. {"copied", "release", "queue"} \subseteq RunStages
  BY DEF RunStages
<1>3. ASSUME Unhealthy(w) PROVE Leave(w, {}) \/ Leave(w, {today})
  BY <1>3 DEF Unhealthy
<1>4. ASSUME NeverStarts(w) PROVE Leave(w, {today})
  BY <1>4 DEF NeverStarts
<1>5. ASSUME Fail(w) \/ Cancel(w) PROVE Leave(w, run[w].touched)
  BY <1>5 DEF Fail, Cancel
<1>6. ASSUME Succeed(w) PROVE run' = [run EXCEPT ![w].at = "copied"]
  BY <1>6 DEF Succeed
<1>7. ASSUME Unlock(w) PROVE run' = [run EXCEPT ![w].at = "release"]
  BY <1>7 DEF Unlock
<1>8. ASSUME Release(w) PROVE run' = [run EXCEPT ![w].at = "queue"]
  BY <1>8 DEF Release
<1>9. ASSUME Queue(w) PROVE Moved(w, "idle") /\ run'[w].touched = {}
  <2>1. run' = [run EXCEPT ![w] = NoRun]
    BY <1>9 DEF Queue
  <2>2. NoRun \in RunState /\ NoRun.at = "idle" /\ NoRun.touched = {}
    BY IdleTyped DEF NoRun
  <2>3. QED
    BY <2>1, <2>2, Put
<1>10. QED
  BY <1>1, <1>2, <1>3, <1>4, <1>5, <1>6, <1>7, <1>8, <1>9, StageTouches, LeaveTouches

\* Touching, after a step that moves one run.
LEMMA TouchingAfter ==
  ASSUME Touching, CountsTyped, today' \in Days, today <= today', del' = del,
         NEW w \in Runners, NEW stage, Moved(w, stage),
         stage \in {"idle", "claimed"} => run'[w].touched = {},
         stage \in {"copying", "copied"} => run'[w].name \in run'[w].touched,
         \A t \in run'[w].touched : t \in run[w].touched \/ t <= today'
  PROVE  Touching'
<1>1. \A v \in Runners : run'[v].at \in {"idle", "claimed"} => run'[v].touched = {}
  BY DEF Touching, Moved
<1>2. \A v \in Runners : Busy(v)' => run'[v].name \in run'[v].touched
  BY DEF Touching, Moved, Busy
<1>3. ASSUME NEW t \in Days, Noticed(t)'
      PROVE  t <= today'
  <2>1. Noticed(t) \/ t <= today'
    BY <1>3 DEF Noticed, Moved
  <2>2. QED
    BY <2>1, LastDayAssumption DEF Touching, CountsTyped, Days
<1>4. QED
  BY <1>1, <1>2, <1>3 DEF Touching

\* What was noticed stays so, unless the run that touched it has queued it.
StillNoticed == \A t \in Days : Noticed(t) => Noticed(t)'

LEMMA RunTouching ==
  ASSUME AllInv, Touching, NEW w \in Runners, Claim(w) \/ RunStep(w)
  PROVE  Touching' /\ (~Queue(w) => StillNoticed)
<1>1. RunsTyped /\ CountsTyped /\ today \in Days
  BY DEF AllInv, TypeInv, CountsTyped
<1>2. ASSUME NEW stage, Moved(w, stage), del' = del,
             run[w].touched \subseteq run'[w].touched
      PROVE  StillNoticed
  BY <1>2 DEF StillNoticed, Noticed, Moved
<1>3. CASE Claim(w)
  <2>1. today' = today /\ del' = del /\ run[w].touched = {}
    BY <1>3 DEF Claim, Claims, RunAt, processVars, Touching
  <2>2. Moved(w, "claimed") /\ run'[w].touched = {}
    BY <1>1, <1>3, <2>1, ClaimTouches
  <2>3. QED
    BY <1>1, <1>2, <2>1, <2>2, TouchingAfter, LastDayAssumption DEF Days
<1>4. CASE Unhealthy(w) \/ NeverStarts(w)
  <2>1. today' = today /\ del' = del /\ run[w].touched = {}
    BY <1>4 DEF Unhealthy, NeverStarts, RunAt, processVars, Touching
  <2>2. Moved(w, "unlock") /\ run'[w].touched \in {{}, {today}}
    BY <1>1, <1>4, OtherTouches
  <2>3. \A t \in run'[w].touched : t <= today'
    BY <1>1, <2>1, <2>2, LastDayAssumption DEF Days
  <2>4. QED
    BY <1>1, <1>2, <2>1, <2>2, <2>3, TouchingAfter, LastDayAssumption DEF Days
<1>5. CASE StartRsync(w)
  <2>1. /\ today' \in Days /\ today <= today' /\ del' = del /\ run[w].touched = {}
    BY <1>1, <1>5, LastDayAssumption DEF StartRsync, RunAt, Touching, Days
  <2>2. Moved(w, "copying") /\ run'[w].name = today' /\ run'[w].touched = {today'}
    BY <1>1, <1>5, StartTouches
  <2>3. \A t \in run'[w].touched : t <= today'
    BY <2>1, <2>2, LastDayAssumption DEF Days
  <2>4. QED
    BY <1>1, <1>2, <2>1, <2>2, <2>3, TouchingAfter
<1>6. CASE Succeed(w)
  <2>1. today' = today /\ del' = del /\ run[w].name \in run[w].touched
    BY <1>6 DEF Succeed, RsyncEnds, RunAt, processVars, Touching, Busy
  <2>2. /\ Moved(w, "copied") /\ run'[w].name = run[w].name
        /\ run'[w].touched = run[w].touched
    BY <1>1, <1>6, OtherTouches
  <2>3. QED
    BY <1>1, <1>2, <2>1, <2>2, TouchingAfter, LastDayAssumption DEF Days
<1>7. CASE Fail(w) \/ Cancel(w) \/ Unlock(w) \/ Release(w)
  <2>1. today' = today /\ del' = del
    BY <1>7 DEF Fail, Cancel, Interrupted, RsyncEnds, Unlock, Release, processVars
  <2>2. /\ \E stage \in {"unlock", "release", "queue"} : Moved(w, stage)
        /\ run'[w].touched = run[w].touched
    BY <1>1, <1>7, OtherTouches
  <2>3. QED
    BY <1>1, <1>2, <2>1, <2>2, TouchingAfter, LastDayAssumption DEF Days
<1>8. CASE Prune(w)
  <2>1. today' = today /\ del' = del
    BY <1>8 DEF Prune, processVars
  <2>2. Moved(w, "unlock")
    BY <1>1, <1>8, PruneTouches
  <2>3. PICK gone \in SUBSET Present : run'[w].touched = run[w].touched \cup gone
    BY <1>1, <1>8, PruneTouches
  <2>4. \A t \in gone : t <= today'
    BY <2>1, LastDayAssumption DEF AllInv, DiskInv
  <2>5. QED
    BY <1>1, <1>2, <2>1, <2>2, <2>3, <2>4, TouchingAfter, LastDayAssumption DEF Days
<1>9. CASE Queue(w)
  <2>1. today' = today /\ del' = del
    BY <1>9 DEF Queue, processVars
  <2>2. Moved(w, "idle") /\ run'[w].touched = {}
    BY <1>1, <1>9, OtherTouches
  <2>3. Touching'
    BY <1>1, <2>1, <2>2, TouchingAfter, LastDayAssumption DEF Days
  <2>4. QED
    BY <1>9, <2>3
<1>10. QED
  BY <1>3, <1>4, <1>5, <1>6, <1>7, <1>8, <1>9 DEF RunStep

\* What the steps of others leave alone.
LEMMA OthersFrame ==
  ASSUME \/ WorkerStep \/ BeginDelete \/ DeleteStep \/ Stop \/ Shutdown \/ Start
         \/ UNCHANGED backupVars
  PROVE  /\ today' = today
         /\ WorkerStep \/ BeginDelete \/ RemoveSnapshot \/ Stop \/ Shutdown \/ Start \/ UNCHANGED backupVars
            => dropped' = dropped
         /\ dropped \subseteq dropped'
         /\ WorkerStep \/ Stop \/ Shutdown \/ Start \/ UNCHANGED backupVars => del' = del
<1> USE DEF processVars, counters
<1>1. CASE WorkerStep
  BY <1>1 DEF WorkerStep, TakeNext, Look, StoreSize
<1>2. CASE BeginDelete \/ DeleteStep
  <2>1. /\ today' = today /\ dropped \subseteq dropped'
        /\ BeginDelete \/ RemoveSnapshot => dropped' = dropped
    BY <1>2 DEF BeginDelete, DeleteStep, RemoveSnapshot, RemovalFails, EndDelete, NotListed, CountEvent
  <2>2. ASSUME Stop \/ Shutdown \/ Start \/ UNCHANGED backupVars PROVE del' = del /\ dropped' = dropped
    BY <2>2 DEF Stop, Shutdown, Start, backupVars, CountEvent
  <2>3. ASSUME WorkerStep PROVE del' = del /\ dropped' = dropped
    BY <2>3 DEF WorkerStep, TakeNext, Look, StoreSize
  <2>4. QED
    BY <2>1, <2>2, <2>3
<1>3. CASE Stop \/ Shutdown \/ Start \/ UNCHANGED backupVars
  BY <1>3 DEF Stop, Shutdown, Start, backupVars, CountEvent
<1>4. QED
  BY <1>1, <1>2, <1>3

LEMMA TouchingStep == AllInv /\ Touching /\ [BackupNext]_backupVars => Touching'
<1> SUFFICES ASSUME AllInv, Touching, [BackupNext]_backupVars PROVE Touching'
  OBVIOUS
<1>1. ASSUME NEW w \in Runners, Claim(w) \/ RunStep(w)
      PROVE  Touching'
  BY <1>1, RunTouching
<1>2. ASSUME UNCHANGED <<run, today>>, \A t \in Days : Noticed(t)' => Noticed(t) \/ t <= today
      PROVE  Touching'
  <2>1. \A t \in Days : Noticed(t)' => t <= today'
    BY <1>2 DEF Touching
  <2>2. QED
    BY <1>2, <2>1 DEF Touching, Busy
<1>3. CASE WorkerStep \/ Stop \/ Shutdown \/ Start \/ UNCHANGED backupVars
  <2>1. UNCHANGED <<run, today, del>>
    BY <1>3, OthersMoveNoRun, OthersFrame
  <2>2. QED
    BY <1>2, <2>1 DEF Noticed
<1>4. CASE BeginDelete
  <2>1. UNCHANGED <<run, today>> /\ del'.at = "removing"
    BY <1>4, OthersMoveNoRun, OthersFrame DEF BeginDelete
  <2>2. \A t \in Days : Noticed(t)' => Noticed(t)
    BY <2>1 DEF Noticed
  <2>3. QED
    BY <1>2, <2>1, <2>2
<1>5. CASE DeleteStep
  <2>1. UNCHANGED <<run, today>>
    BY <1>5, OthersMoveNoRun, OthersFrame
  <2>2. \/ del.at = "removing" /\ del' = [del EXCEPT !.at = "queue"]
        \/ del'.at # "queue"
    BY <1>5 DEF DeleteStep, RemoveSnapshot, RemovalFails, EndDelete, NoDelete,
         AllInv, TypeInv, LocksTyped
  <2>3. del'.at = "queue" => del'.name = del.name /\ del.name <= today
    BY <2>2, LastDayAssumption DEF AllInv, TypeInv, LocksTyped, DiskInv, Target
  <2>4. \A t \in Days : Noticed(t)' => Noticed(t) \/ t <= today
    BY <2>1, <2>3 DEF Noticed
  <2>5. QED
    BY <1>2, <2>1, <2>4
<1>6. CASE Die
  <2>1. run' = AtStart /\ del'.at = "idle"
    BY <1>6 DEF Die, NoDelete
  <2>2. \A w \in Runners : run'[w].touched = {} /\ run'[w].at \in {"idle", "queue"}
    BY <2>1, IdleTyped DEF AtStart, NoRun
  <2>3. QED
    BY <2>1, <2>2 DEF Touching, Busy, Noticed
<1>7. QED
  BY <1>1, <1>3, <1>4, <1>5, <1>6 DEF BackupNext, BackupStep

(***************************************************************************)
(* Links stay in a row.                                                    *)
(***************************************************************************)
\* A run that wrote or was stopped.
LEMMA StoppedWrites ==
  ASSUME AllInv, NEW w \in Runners, Fail(w) \/ Cancel(w)
  PROVE  /\ Busy(w)
         /\ \E content \in {snapshots[today], Partial, Missing} : snapshots' = [snapshots EXCEPT ![today] = content]
<1>1. Busy(w)
  BY DEF Fail, Cancel, RunAt, Busy
<1>2. run[w].name = today
  BY <1>1, WritesTheNewest
<1>3. QED
  BY <1>1, <1>2 DEF Fail, Cancel, Interrupted, RsyncEnds

LEMMA SucceedWrites ==
  ASSUME AllInv, NEW w \in Runners, Succeed(w)
  PROVE  /\ Busy(w)
         /\ \E n \in Copies(today) : snapshots' = [snapshots EXCEPT ![today] = n]
<1>1. Busy(w)
  BY DEF Succeed, RunAt, Busy
<1>2. run[w].name = today
  BY <1>1, WritesTheNewest
<1>3. QED
  BY <1>1, <1>2 DEF Succeed, RsyncEnds

LEMMA StartWrites ==
  ASSUME AllInv, NEW w \in Runners, StartRsync(w)
  PROVE  /\ today' \in Days /\ \A e \in Present : e <= today'
         /\ \/ snapshots' = snapshots
            \/ today' \notin Present /\ snapshots' = [snapshots EXCEPT ![today'] = Partial]
<1>1. /\ today' \in Days /\ today \in Days /\ today <= today'
      /\ snapshots' = [snapshots EXCEPT ![today'] = IF @ = Missing THEN Partial ELSE @]
  BY LastDayAssumption DEF StartRsync, AllInv, TypeInv, CountsTyped, Days
<1>2. \A e \in Present : e \in Days /\ e <= today
  BY LastDayAssumption DEF AllInv, DiskInv, Present
<1>3. \A e \in Present : e <= today'
  BY <1>1, <1>2, LastDayAssumption DEF Days
<1>4. CASE snapshots[today'] = Missing
  BY <1>1, <1>3, <1>4 DEF Present
<1>5. CASE snapshots[today'] # Missing
  <2>1. snapshots' = snapshots
    BY <1>1, <1>5 DEF AllInv, TypeInv, DiskTyped
  <2>2. QED
    BY <1>1, <1>3, <2>1
<1>6. QED
  BY <1>4, <1>5

LEMMA RowStep ==
  AllInv /\ LinkedInRow(snapshots) /\ [BackupNext]_backupVars /\ dropped' = {} => LinkedInRow(snapshots')
<1> SUFFICES ASSUME AllInv, LinkedInRow(snapshots), [BackupNext]_backupVars, dropped' = {}
             PROVE  LinkedInRow(snapshots')
  OBVIOUS
<1>1. snapshots \in [Days -> Contents] /\ DiskTyped
  BY DEF AllInv, TypeInv, DiskTyped
<1>2. ASSUME NEW w \in Runners, StartRsync(w)
      PROVE  LinkedInRow(snapshots')
  <2>1. \A x \in Days : \/ snapshots'[x] = snapshots[x]
                        \/ snapshots'[x] = Partial /\ \A e \in Present : e <= x
    BY <1>1, <1>2, StartWrites
  <2>2. QED
    BY <1>1, <2>1, RowKeeps
<1>3. ASSUME NEW w \in Runners, Succeed(w)
      PROVE  LinkedInRow(snapshots')
  <2>1. today \in Days /\ \A e \in Present : e <= today
    BY <1>3, SucceedWrites, WritesTheNewest
  <2>2. PICK n \in Copies(today) : snapshots' = [snapshots EXCEPT ![today] = n]
    BY <1>3, SucceedWrites
  <2>3. QED
    BY <1>1, <2>1, <2>2, CopyOfTheNewest
<1>4. ASSUME NEW w \in Runners, Fail(w) \/ Cancel(w)
      PROVE  LinkedInRow(snapshots')
  <2>1. today \in Days /\ \A e \in Present : e <= today
    BY <1>4, StoppedWrites, WritesTheNewest
  <2>2. PICK content \in {snapshots[today], Partial, Missing} : snapshots' = [snapshots EXCEPT ![today] = content]
    BY <1>4, StoppedWrites
  <2>3. \A x \in Days : \/ snapshots'[x] \in {snapshots[x], Missing}
                        \/ snapshots'[x] = Partial /\ \A e \in Present : e <= x
    BY <1>1, <2>1, <2>2
  <2>4. QED
    BY <1>1, <2>3, RowKeeps
<1>5. ASSUME NEW w \in Runners, Prune(w)
      PROVE  LinkedInRow(snapshots')
  <2>1. \A x \in Days : snapshots'[x] \in {snapshots[x], Missing}
    BY <1>5, PruneTouches DEF AllInv, TypeInv
  <2>2. QED
    BY <1>1, <2>1, RowKeeps
<1>6. CASE RemoveSnapshot \/ RemovalFails
  <2>1. \A x \in Days : snapshots'[x] \in {snapshots[x], Missing}
    BY <1>1, <1>6 DEF RemoveSnapshot, RemovalFails
  <2>2. QED
    BY <1>1, <2>1, RowKeeps
<1>7. CASE Die
  BY <1>7 DEF Die
<1>8. QED
  BY <1>2, <1>3, <1>4, <1>5, <1>6, <1>7, OthersWriteNothing DEF BackupNext, BackupStep, RunStep, DeleteStep

(***************************************************************************)
(* Sizes after a step that changes the snapshots C and has noticed it.     *)
(***************************************************************************)
LEMMA MeasuredAfter ==
  ASSUME Measured, UNCHANGED <<sizes, pending, worker, dropped>>, StillNoticed,
         NEW C \in SUBSET Days, \A t \in C : Noticed(t)',
         \A d \in Days \ C : snapshots'[d] = snapshots[d],
         \A x \in Present' \ Present, t \in Days : t \in Present \/ Noticed(t) => t <= x,
         \A d \in Present \ C : Measure(d)' = Measure(d) \/ \E t \in C : Near(t, d)'
  PROVE  Measured'
<1> SUFFICES ASSUME dropped = {}, NEW d \in Present' PROVE (Awaited(d) \/ Right(d))'
  BY DEF Measured
<1>1. d \in Days /\ \A m \in Days : m \in Nat
  BY LastDayAssumption DEF Present, Days
<1>2. CASE d \in C
  <2>1. \A m \in Present' : ~(d < m /\ m < d)
    BY <1>1 DEF Present
  <2>2. Near(d, d)'
    BY <2>1 DEF Near
  <2>3. QED
    BY <1>1, <1>2, <2>2 DEF Awaited
<1>3. CASE d \notin C
  <2>1. d \in Present
    BY <1>1, <1>3 DEF Present
  <2>2. Awaited(d) \/ Right(d)
    BY <2>1 DEF Measured
  <2>3. CASE \E t \in C : Near(t, d)'
    BY <2>3 DEF Awaited
  <2>4. CASE d \in pending \/ (worker.at = "look" /\ worker.name = d)
    BY <2>4 DEF Awaited
  <2>5. CASE \E t \in Days : Noticed(t) /\ Near(t, d)
    <3>1. PICK t \in Days : Noticed(t) /\ Near(t, d)
      BY <2>5
    <3>2. ASSUME NEW m \in Present', (t < m /\ m < d) \/ (d < m /\ m < t)
          PROVE  FALSE
      <4>1. m \in Days
        BY DEF Present
      <4>2. m \notin Present
        BY <3>1, <3>2 DEF Near
      <4>3. t <= m /\ d <= m
        BY <1>1, <2>1, <3>1, <4>2
      <4>4. QED
        BY <1>1, <3>2, <4>1, <4>3
    <3>3. Near(t, d)' /\ Noticed(t)'
      BY <3>1, <3>2 DEF Near, StillNoticed
    <3>4. QED
      BY <3>3 DEF Awaited
  <2>6. CASE Right(d) /\ Measure(d)' = Measure(d)
    BY <2>6 DEF Right
  <2>7. QED
    BY <1>3, <2>1, <2>2, <2>3, <2>4, <2>5, <2>6 DEF Awaited
<1>4. QED
  BY <1>2, <1>3

LEMMA NothingChanged ==
  ASSUME Measured, UNCHANGED <<snapshots, sizes, pending, worker, dropped>>, StillNoticed
  PROVE  Measured'
<1>1. Present' = Present /\ \A d \in Present : Measure(d)' = Measure(d)
  BY DEF Present, Measure
<1>2. PICK C \in SUBSET Days : C = {}
  OBVIOUS
<1>3. QED
  BY <1>1, <1>2, MeasuredAfter

\* The steps of a run measure nothing until the run queues what it touched.
LEMMA RunSizesFrame ==
  ASSUME NEW w \in Runners, Claim(w) \/ RunStep(w), ~Queue(w), dropped' = {}
  PROVE  UNCHANGED <<sizes, pending, worker, dropped>>
<1> USE DEF sizeVars, counters
<1>1. CASE Claim(w)
  BY <1>1 DEF Claim, Claims, CountRun
<1>2. CASE Unhealthy(w) \/ NeverStarts(w) \/ StartRsync(w)
  BY <1>2 DEF Unhealthy, NeverStarts, StartRsync
<1>3. CASE Succeed(w) \/ Fail(w) \/ Cancel(w)
  BY <1>3 DEF Succeed, Fail, Cancel, Interrupted, RsyncEnds
<1>4. CASE Prune(w) \/ Unlock(w) \/ Release(w)
  BY <1>4 DEF Prune, Unlock, Release, CountEvent
<1>5. QED
  BY <1>1, <1>2, <1>3, <1>4 DEF RunStep

\* Nothing new appears on the disk, or only partial or removed snapshots.
LEMMA MeasuredTaken ==
  ASSUME LinkedInRow(snapshots), DiskTyped, Measured, StillNoticed,
         UNCHANGED <<sizes, pending, worker, dropped>>,
         NEW C \in SUBSET Days, \A t \in C : Noticed(t)',
         \A e \in Days \ C : snapshots'[e] = snapshots[e],
         \A m \in C : snapshots'[m] = Missing \/ (snapshots'[m] = Partial /\ C = {m}),
         \A x \in Present' \ Present, t \in Days : t \in Present \/ Noticed(t) => t <= x
  PROVE  Measured'
<1>1. ASSUME NEW d \in Present \ C, Measure(d)' # Measure(d)
      PROVE  \E t \in C : Near(t, d)'
  BY <1>1, OnlyNeighbours
<1>2. QED
  BY <1>1, MeasuredAfter

LEMMA RunMeasures ==
  ASSUME AllInv, SizesInv, NEW w \in Runners, Claim(w) \/ RunStep(w), ~Queue(w), dropped' = {}
  PROVE  Measured'
<1>1. UNCHANGED <<sizes, pending, worker, dropped>> /\ StillNoticed
  BY RunSizesFrame, RunTouching DEF SizesInv
<1>0. /\ LinkedInRow(snapshots) /\ Touching /\ Measured
      /\ RunsTyped /\ CountsTyped /\ DiskTyped /\ snapshots \in [Days -> Contents]
  BY <1>1 DEF SizesInv, AllInv, TypeInv, DiskTyped
<1>2. ASSUME snapshots' = snapshots
      PROVE  Measured'
  BY <1>0, <1>1, <1>2, NothingChanged
<1>3. CASE Claim(w) \/ Unhealthy(w) \/ NeverStarts(w) \/ Unlock(w) \/ Release(w)
  BY <1>2, <1>3, OthersWriteNothing
<1>4. CASE StartRsync(w) /\ snapshots' # snapshots
  <2>1. /\ today' \in Days /\ \A e \in Present : e <= today'
        /\ today' \notin Present /\ snapshots' = [snapshots EXCEPT ![today'] = Partial]
    BY <1>4, StartWrites
  <2>2. PICK day \in Days : day = today'
    BY <2>1
  <2>3. run'[w].touched = {day}
    BY <1>0, <1>4, <2>2, StartTouches
  <2>4. Noticed(day)'
    BY <2>3 DEF Noticed
  <2>5. today <= day /\ today \in Days
    BY <1>0, <1>4, <2>2, LastDayAssumption DEF StartRsync, CountsTyped, Days
  <2>6. \A t \in Days : Noticed(t) => t <= day
    BY <1>0, <2>5, LastDayAssumption DEF Touching, Days
  <2>7. \A x \in Present' \ Present : x = day
    BY <1>0, <2>1, <2>2 DEF Present
  <2>8. \A x \in Present' \ Present, t \in Days : t \in Present \/ Noticed(t) => t <= x
    BY <2>1, <2>2, <2>6, <2>7
  <2>9. /\ \A t \in {day} : Noticed(t)'
        /\ \A e \in Days \ {day} : snapshots'[e] = snapshots[e]
        /\ \A m \in {day} : snapshots'[m] = Missing \/ (snapshots'[m] = Partial /\ {day} = {m})
    BY <1>0, <2>1, <2>2, <2>4
  <2>10. {day} \in SUBSET Days
    OBVIOUS
  <2>11. QED
    BY <1>0, <1>1, <2>8, <2>9, <2>10, MeasuredTaken
<1>5. CASE Succeed(w)
  <2>1. /\ today \in Days /\ today \in Present /\ \A e \in Present : e <= today
        /\ run[w].name = today /\ Busy(w)
    BY <1>5, SucceedWrites, WritesTheNewest
  <2>2. PICK day \in Days : day = today
    BY <2>1
  <2>3. PICK n \in Copies(day) : snapshots' = [snapshots EXCEPT ![day] = n]
    BY <1>5, <2>2, SucceedWrites
  <2>4. \A e \in Present : e <= day
    BY <2>1, <2>2
  <2>5. \A d \in Present : d # day => Measure(d)' = Measure(d) \/ Near(day, d)'
    BY <1>0, <2>3, <2>4, CopyOfTheNewest
  <2>6. Noticed(day)'
    BY <1>0, <1>1, <2>1, <2>2 DEF Touching, Noticed, StillNoticed
  <2>7. {day} \in SUBSET Days /\ \A d \in Days \ {day} : snapshots'[d] = snapshots[d]
    BY <1>0, <2>3
  <2>8. Present' \subseteq Present
    BY <2>1, <2>2, <2>7 DEF Present
  <2>9. \A d \in Present \ {day} : Measure(d)' = Measure(d) \/ \E t \in {day} : Near(t, d)'
    BY <2>5
  <2>10. \A t \in {day} : Noticed(t)'
    BY <2>6
  <2>11. QED
    BY <1>0, <1>1, <2>7, <2>8, <2>9, <2>10, MeasuredAfter
<1>6. CASE (Fail(w) \/ Cancel(w)) /\ snapshots' # snapshots
  <2>1. /\ today \in Days /\ today \in Present /\ run[w].name = today /\ Busy(w)
    BY <1>6, StoppedWrites, WritesTheNewest
  <2>2. PICK content \in {snapshots[today], Partial, Missing} : snapshots' = [snapshots EXCEPT ![today] = content]
    BY <1>6, StoppedWrites
  <2>3. content \in {Partial, Missing}
    BY <1>0, <1>6, <2>2
  <2>4. Noticed(today)
    BY <1>0, <2>1 DEF Touching, Noticed
  <2>5. PICK C \in SUBSET Days : C = {today}
    BY <2>1
  <2>6. \A t \in C : Noticed(t)'
    BY <1>1, <2>1, <2>4, <2>5 DEF StillNoticed
  <2>7. /\ \A d \in Days \ C : snapshots'[d] = snapshots[d]
        /\ \A m \in C : snapshots'[m] = Missing \/ (snapshots'[m] = Partial /\ C = {m})
    BY <1>0, <2>2, <2>3, <2>5
  <2>8. Present' \subseteq Present
    BY <2>1, <2>5, <2>7 DEF Present
  <2>9. QED
    BY <1>0, <1>1, <2>6, <2>7, <2>8, MeasuredTaken
<1>7. CASE Prune(w)
  <2>1. PICK gone \in SUBSET Present :
          /\ snapshots' = [d \in Days |-> IF d \in gone THEN Missing ELSE snapshots[d]]
          /\ run'[w].touched = run[w].touched \cup gone
    BY <1>0, <1>7, PruneTouches
  <2>2. gone \in SUBSET Days
    BY DEF Present
  <2>3. \A t \in gone : Noticed(t)'
    BY <2>1 DEF Noticed
  <2>4. /\ \A d \in Days \ gone : snapshots'[d] = snapshots[d]
        /\ \A m \in gone : snapshots'[m] = Missing
    BY <2>1, <2>2
  <2>5. Present' \subseteq Present
    BY <2>1 DEF Present
  <2>6. QED
    BY <1>0, <1>1, <2>2, <2>3, <2>4, <2>5, MeasuredTaken
<1>8. QED
  BY <1>2, <1>3, <1>4, <1>5, <1>6, <1>7 DEF RunStep

(***************************************************************************)
(* What was touched is queued: whoever waited for it finds it pending.     *)
(***************************************************************************)
LEMMA MeasuredQueued ==
  ASSUME Measured, SizesTyped, NEW touched, QueueSizes(touched), UNCHANGED <<snapshots, dropped>>,
         \A t \in Days : Noticed(t) => t \in touched \/ Noticed(t)'
  PROVE  Measured'
<1> SUFFICES ASSUME dropped = {}, NEW d \in Present' PROVE (Awaited(d) \/ Right(d))'
  BY DEF Measured
<1>1. d \in Present /\ Present' = Present /\ d \in Days /\ Measure(d)' = Measure(d)
  BY DEF Present, Measure
<1>2. /\ pending' = pending \cup SizesToMeasure(touched) /\ sizes'[d] = sizes[d]
      /\ worker' = worker \/ (worker.at = "idle" /\ worker' = [worker EXCEPT !.at = "next"])
  BY <1>1 DEF QueueSizes, StartMeasuring
<1>3. \/ worker' = worker
      \/ worker.at = "idle" /\ worker'.at = "next"
  BY <1>2 DEF SizesTyped
<1>4. Awaited(d) \/ Right(d)
  BY <1>1 DEF Measured
<1>5. CASE d \in pending \/ (worker.at = "look" /\ worker.name = d)
  BY <1>2, <1>3, <1>5 DEF Awaited
<1>6. CASE \E t \in Days : Noticed(t) /\ Near(t, d)
  <2>1. PICK t \in Days : Noticed(t) /\ Near(t, d)
    BY <1>6
  <2>2. CASE t \in touched
    <3>1. d \in Around(t)
      BY <1>1, <2>1, NearIsAround
    <3>2. d \in pending'
      BY <1>2, <2>2, <3>1 DEF SizesToMeasure
    <3>3. QED
      BY <3>2 DEF Awaited
  <2>3. CASE Noticed(t)'
    <3>1. Near(t, d)'
      BY <1>1, <2>1 DEF Near
    <3>2. QED
      BY <2>1, <2>3, <3>1 DEF Awaited
  <2>4. QED
    BY <2>1, <2>2, <2>3
<1>7. CASE Right(d)
  BY <1>1, <1>2, <1>3, <1>7 DEF Right
<1>8. QED
  BY <1>4, <1>5, <1>6, <1>7 DEF Awaited

LEMMA QueueMeasures ==
  ASSUME AllInv, SizesInv, NEW w \in Runners, Queue(w), dropped' = {}
  PROVE  Measured'
<1>1. QueueSizes(run[w].touched) /\ UNCHANGED <<snapshots, dropped, del>>
  BY DEF Queue, NotListed, diskVars, counters
<1>2. Moved(w, "idle")
  BY OtherTouches DEF AllInv, TypeInv
<1>3. \A t \in Days : Noticed(t) => t \in run[w].touched \/ Noticed(t)'
  BY <1>1, <1>2 DEF Noticed, Moved
<1>4. QED
  BY <1>1, <1>3, MeasuredQueued DEF SizesInv, AllInv, TypeInv

LEMMA EndDeleteMeasures ==
  ASSUME AllInv, SizesInv, EndDelete, dropped' = {}
  PROVE  Measured'
<1>1. UNCHANGED <<snapshots, dropped, run>>
  BY DEF EndDelete, NotListed, slotVars
<1>2. CASE del.at = "queue"
  <2>1. QueueSizes({del.name})
    BY <1>2 DEF EndDelete, NotListed
  <2>2. \A t \in Days : Noticed(t) => t \in {del.name} \/ Noticed(t)'
    BY <1>1 DEF Noticed
  <2>3. QED
    BY <1>1, <2>1, <2>2, MeasuredQueued DEF SizesInv, AllInv, TypeInv, EndDelete
<1>3. CASE del.at # "queue"
  <2>1. UNCHANGED <<sizes, pending, worker>>
    BY <1>3 DEF EndDelete, sizeVars
  <2>2. StillNoticed
    BY <1>1, <1>3 DEF StillNoticed, Noticed
  <2>3. QED
    BY <1>1, <2>1, <2>2, NothingChanged DEF SizesInv
<1>4. QED
  BY <1>2, <1>3

\* A deletion takes the snapshot and has its neighbours measured, or takes nothing.
LEMMA DeleteMeasures ==
  ASSUME AllInv, SizesInv, BeginDelete \/ RemoveSnapshot \/ RemovalFails, dropped' = {}
  PROVE  Measured'
<1>1. UNCHANGED <<sizes, pending, worker, dropped, run>>
  BY DEF BeginDelete, RemoveSnapshot, RemovalFails, sizeVars, slotVars, counters, CountEvent
<1>0. LinkedInRow(snapshots) /\ Measured /\ DiskTyped /\ snapshots \in [Days -> Contents]
  BY <1>1 DEF SizesInv, AllInv, TypeInv, DiskTyped
<1>2. CASE BeginDelete \/ RemovalFails
  <2>1. snapshots' = snapshots /\ del.at # "queue"
    BY <1>1, <1>2 DEF BeginDelete, RemovalFails
  <2>2. StillNoticed
    BY <1>1, <2>1 DEF StillNoticed, Noticed
  <2>3. QED
    BY <1>0, <1>1, <2>1, <2>2, NothingChanged
<1>3. CASE RemoveSnapshot
  <2>1. /\ snapshots' = [snapshots EXCEPT ![del.name] = Missing]
        /\ del.at = "removing" /\ del' = [del EXCEPT !.at = "queue"]
    BY <1>3 DEF RemoveSnapshot
  <2>2. del'.at = "queue" /\ del'.name = del.name
    BY <2>1 DEF AllInv, TypeInv, LocksTyped
  <2>3. StillNoticed
    BY <1>1, <2>1 DEF StillNoticed, Noticed
  <2>4. PICK C \in SUBSET Days : C = Days \cap {del.name}
    OBVIOUS
  <2>5. \A t \in C : Noticed(t)'
    BY <2>2, <2>4 DEF Noticed
  <2>6. /\ \A e \in Days \ C : snapshots'[e] = snapshots[e]
        /\ \A m \in C : snapshots'[m] = Missing
    BY <1>0, <2>1, <2>4
  <2>7. Present' \subseteq Present
    BY <2>6 DEF Present
  <2>8. QED
    BY <1>0, <1>1, <2>3, <2>5, <2>6, <2>7, MeasuredTaken
<1>4. QED
  BY <1>2, <1>3

\* A snapshot is pending, or being looked at, or its size is in hand, or known.
LEMMA WorkerMeasures ==
  ASSUME AllInv, SizesInv, WorkerStep
  PROVE  Measured'
<1>0. /\ worker \in [at : {"idle", "next", "look", "store"}, name : Days \cup {NoDay}, seen : Sizes]
      /\ sizes \in [Days -> Sizes] /\ pending \subseteq Days
  BY DEF AllInv, TypeInv, SizesTyped
<1>1. UNCHANGED <<snapshots, dropped, run, del>>
  BY OthersMoveNoRun, OthersFrame DEF WorkerStep, TakeNext, Look, StoreSize, diskVars
<1> SUFFICES ASSUME dropped = {}, NEW d \in Present' PROVE (Awaited(d) \/ Right(d))'
  BY <1>1 DEF Measured
<1>2. d \in Present /\ Present' = Present /\ d \in Days /\ Measure(d)' = Measure(d)
  BY <1>1 DEF Present, Measure
<1>3. Awaited(d) \/ Right(d)
  BY <1>2 DEF Measured, SizesInv
<1>4. ASSUME \E t \in Days : Noticed(t) /\ Near(t, d)
      PROVE  Awaited(d)'
  BY <1>1, <1>2, <1>4 DEF Awaited, Noticed, Near
<1>5. CASE TakeNext
  <2>1. worker.at = "next" /\ sizes' = sizes
    BY <1>5 DEF TakeNext
  <2>2. CASE worker' = Resting /\ pending' = pending
    <3>1. worker'.at = "idle"
      BY <2>2 DEF Resting
    <3>2. QED
      BY <1>2, <1>3, <1>4, <2>1, <2>2, <3>1 DEF Awaited, Right
  <2>3. CASE /\ worker' = [at |-> "look", name |-> NewestOf(pending), seen |-> "unmeasured"]
             /\ pending' = pending \ {NewestOf(pending)}
    <3>1. worker'.at = "look" /\ worker'.name = NewestOf(pending)
      BY <2>3
    <3>2. ASSUME d \in pending PROVE Awaited(d)'
      BY <2>3, <3>1, <3>2 DEF Awaited
    <3>3. ASSUME Right(d) PROVE Right(d)'
      BY <1>2, <2>1, <3>1, <3>3 DEF Right
    <3>4. QED
      BY <1>3, <1>4, <2>1, <3>2, <3>3 DEF Awaited
  <2>4. QED
    BY <1>5, <2>2, <2>3 DEF TakeNext
<1>6. CASE Look
  <2>1. /\ worker.at = "look" /\ sizes' = sizes /\ pending' = pending
        /\ worker' = IF snapshots[worker.name] = Missing THEN [Resting EXCEPT !.at = "next"]
                     ELSE [worker EXCEPT !.at = "store", !.seen = Measure(worker.name)]
    BY <1>6 DEF Look
  <2>2. CASE worker.name = d
    <3>1. snapshots[d] # Missing
      BY <1>2 DEF Present
    <3>2. worker' = [worker EXCEPT !.at = "store", !.seen = Measure(d)]
      BY <2>1, <2>2, <3>1
    <3>3. worker'.at = "store" /\ worker'.name = d /\ worker'.seen = Measure(d)
      BY <1>0, <2>2, <3>2
    <3>4. QED
      BY <1>2, <3>3 DEF Right
  <2>3. CASE worker.name # d
    <3>1. worker'.at = "next" \/ (worker'.at = "store" /\ worker'.name = worker.name)
      BY <1>0, <2>1 DEF Resting
    <3>2. QED
      BY <1>2, <1>3, <1>4, <2>1, <2>3, <3>1 DEF Awaited, Right
  <2>4. QED
    BY <2>2, <2>3
<1>7. CASE StoreSize
  <2>1. /\ worker.at = "store" /\ pending' = pending
        /\ sizes' = [sizes EXCEPT ![worker.name] = worker.seen]
        /\ worker' = [Resting EXCEPT !.at = "next"]
    BY <1>7 DEF StoreSize
  <2>2. worker'.at = "next"
    BY <2>1 DEF Resting
  <2>3. sizes'[d] = IF d = worker.name THEN worker.seen ELSE sizes[d]
    BY <1>0, <1>2, <2>1
  <2>4. QED
    BY <1>2, <1>3, <1>4, <2>1, <2>2, <2>3 DEF Awaited, Right
<1>8. QED
  BY <1>5, <1>6, <1>7 DEF WorkerStep

\* What was dropped stays dropped.
LEMMA DropsStay == [BackupNext]_backupVars /\ dropped' = {} => dropped = {}
<1> SUFFICES ASSUME [BackupNext]_backupVars, dropped' = {} PROVE dropped = {}
  OBVIOUS
<1>1. ASSUME NEW w \in Runners, Claim(w) \/ RunStep(w)
      PROVE  dropped \subseteq dropped'
  <2>1. CASE Claim(w)
    BY <2>1 DEF Claim, Claims, CountRun
  <2>2. CASE RunStep(w)
    BY <2>2, RunFrame
  <2>3. QED
    BY <1>1, <2>1, <2>2
<1>2. CASE Die
  BY <1>2 DEF Die
<1>3. QED
  BY <1>1, <1>2, OthersFrame DEF BackupNext, BackupStep

LEMMA MeasuredStep == AllInv /\ SizesInv /\ [BackupNext]_backupVars => Measured'
<1> SUFFICES ASSUME AllInv, SizesInv, [BackupNext]_backupVars, dropped' = {} PROVE Measured'
  BY DEF Measured
<1>1. CASE Stop \/ Shutdown \/ Start \/ UNCHANGED backupVars
  <2>1. UNCHANGED <<snapshots, run, del, dropped>>
    BY <1>1, OthersWriteNothing, OthersMoveNoRun, OthersFrame
  <2>2. UNCHANGED <<sizes, pending, worker>>
    BY <1>1 DEF Stop, Shutdown, Start, backupVars, sizeVars
  <2>3. StillNoticed
    BY <2>1 DEF StillNoticed, Noticed
  <2>4. QED
    BY <2>1, <2>2, <2>3, NothingChanged DEF SizesInv
<1>2. CASE Die
  BY <1>2 DEF Die
<1>3. QED
  BY <1>1, <1>2, RunMeasures, QueueMeasures, EndDeleteMeasures, DeleteMeasures, WorkerMeasures
     DEF BackupNext, BackupStep, DeleteStep, RunStep

LEMMA SizesInvStarts == BackupInit => SizesInv
<1> SUFFICES ASSUME BackupInit PROVE SizesInv
  OBVIOUS
<1>1. LinkedInRow(snapshots)
  BY LinksAssumption DEF BackupInit
<1>2. \A w \in Runners : run[w].touched = {} /\ run[w].at \in {"idle", "queue"}
  BY IdleTyped DEF BackupInit, AtStart, NoRun
<1>3. Touching
  BY <1>2 DEF BackupInit, Touching, Busy, Noticed, NoDelete
<1>4. Measured
  <2>1. \A d \in Present : sizes[d] = Measure(d)
    BY DEF BackupInit, Present
  <2>2. worker.at # "store"
    BY DEF BackupInit, Resting
  <2>3. QED
    BY <2>1, <2>2 DEF Measured, Right
<1>5. QED
  BY <1>1, <1>3, <1>4 DEF SizesInv

LEMMA SizesInvStep == AllInv /\ SizesInv /\ [BackupNext]_backupVars => SizesInv'
<1> SUFFICES ASSUME AllInv, SizesInv, [BackupNext]_backupVars PROVE SizesInv'
  OBVIOUS
<1>1. dropped' = {} => LinkedInRow(snapshots')
  BY RowStep, DropsStay DEF SizesInv
<1>2. (dropped = {} => LinkedInRow(snapshots))'
  BY <1>1 DEF LinkedInRow
<1>3. QED
  BY <1>2, TouchingStep, MeasuredStep DEF SizesInv

(***************************************************************************)
(* The sizes shown are the sizes on the disk once everything rests,        *)
(* whatever was written, linked, pruned and deleted meanwhile and however  *)
(* it overlapped the walks: what a change does to a size it does to a      *)
(* neighbour, and the neighbours of all that changed are queued            *)
(* (sizesToMeasure and measureSizes in backup/manager.go).  That holds     *)
(* until the code drops a measurement it owes, which dropped records: a    *)
(* death, a removal that failed half-way, a directory that could not be    *)
(* listed.                                                                 *)
(***************************************************************************)
THEOREM SizesAreTrue == BackupSpec => []SizesTrue
<1>1. ASSUME AllInv, SizesInv PROVE SizesTrue
  <2>1. SUFFICES ASSUME Quiet, dropped = {}, NEW d \in Present PROVE sizes[d] = Measure(d)
    BY DEF SizesTrue
  <2>2. \A t \in Days : ~Noticed(t)
    BY <1>1, <2>1 DEF SizesInv, Touching, Noticed, Quiet
  <2>3. ~Awaited(d)
    BY <2>1, <2>2 DEF Awaited, Quiet
  <2>4. Right(d)
    BY <1>1, <2>1, <2>3 DEF SizesInv, Measured
  <2>5. QED
    BY <2>1, <2>4 DEF Right, Quiet
<1>2. BackupInit => AllInv /\ SizesInv
  BY AllInvStarts, SizesInvStarts
<1>3. AllInv /\ SizesInv /\ [BackupNext]_backupVars => AllInv' /\ SizesInv'
  BY AllInvStep, SizesInvStep
<1>4. QED
  BY <1>1, <1>2, <1>3, PTL DEF BackupSpec
=============================================================================
