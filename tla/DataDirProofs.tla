--------------------------- MODULE DataDirProofs ---------------------------
(***************************************************************************)
(* Proofs about DataDir for every set of paths, every rule documents and   *)
(* every interleaving of scan, watcher, restore, purge, uploads, changes   *)
(* by hand and crashes.                                                    *)
(***************************************************************************)
EXTENDS DataDir, TLAPS

----------------------------------------------------------------------------
(* Types. *)

LEMMA SomePath == AnyPath \in Paths
BY TreeAssumption DEF AnyPath

LEMMA RestTypes ==
  /\ \A stages : Resting \in Job(stages)
  /\ NoScan \in Janitor /\ NoSave \in Save
  /\ Resting.at = "idle" /\ Resting.fact = Nothing
BY SomePath, RulesAssumption DEF Resting, Job, NoScan, Janitor, NoSave, Save

LEMMA FirstTypes == Init => TypeOK
<1> SUFFICES ASSUME Init PROVE TypeOK
  OBVIOUS
<1>1. index \in [Paths -> Facts \cup {Nothing}] /\ disk \in [Paths -> File \cup {Directory, Nothing}]
  BY FirstAssumption DEF Init, Facts
<1>2. trash \subseteq Item
  BY FirstAssumption DEF Init, Item
<1>3. owed \subseteq Stamps
  BY <1>1, <1>2 DEF Init, Contents, IsFileAt, Item, File
<1>4. QED
  BY <1>1, <1>2, <1>3, RestTypes, RulesAssumption, BoundsAssumption DEF Init, TypeOK

DiskOK ==
  /\ disk \in [Paths -> File \cup {Directory, Nothing}]
  /\ trash \subseteq Item

LEMMA PlacedTypes ==
  ASSUME DiskOK, NEW p, NEW what \in File \cup {Directory, Nothing}
  PROVE  Placed(p, what) \in [Paths -> File \cup {Directory, Nothing}]
BY DEF DiskOK, Placed

LEMMA RemovalTypes ==
  ASSUME DiskOK, NEW p \in Paths
  PROVE  /\ \A S : Without(S) \in [Paths -> File \cup {Directory, Nothing}]
         /\ MovedToTrash(p) => DiskOK'
<1>1. \A S : Without(S) \in [Paths -> File \cup {Directory, Nothing}]
  BY DEF DiskOK, Without
<1>2. ASSUME MovedToTrash(p) PROVE DiskOK'
  <2>1. \A q \in Subtree(p) : IsFileAt(q) =>
          [path |-> q, file |-> disk[q], listed |-> q = p] \in Item
    BY DEF Subtree, IsFileAt, Item
  <2>2. trash' \subseteq Item
    BY <1>2, <2>1 DEF MovedToTrash, DiskOK
  <2>3. QED
    BY <1>1, <1>2, <2>2 DEF MovedToTrash, DiskOK
<1>3. QED
  BY <1>1, <1>2

LEMMA NoticedTypes ==
  ASSUME watched \subseteq Paths, timers \subseteq Paths, NEW S \in SUBSET Paths, Noticed(S)
  PROVE  watched' \subseteq Paths /\ timers' \subseteq Paths
BY DEF Noticed

LEMMA JanitorTypes ==
  ASSUME TypeOK, Load \/ JanitorStep
  PROVE  TypeOK'
<1>1. janitor' \in Janitor
  <2>1. janitor \in Janitor /\ stored \in Rules /\ disk \in [Paths -> File \cup {Directory, Nothing}]
        /\ index \in [Paths -> Facts \cup {Nothing}]
    BY DEF TypeOK
  <2>2. CASE Load
    BY <2>1, <2>2 DEF Load, Janitor
  <2>3. CASE SetRules
    BY <2>3, RestTypes DEF SetRules, Janitor
  <2>4. ASSUME NEW p \in Paths, Walk(p) PROVE janitor' \in Janitor
    <3>1. (IF Visible(p) THEN disk[p] ELSE Nothing) \in Facts \cup {Nothing}
      BY <2>1 DEF Facts
    <3>2. [janitor.found EXCEPT ![p] = IF Visible(p) THEN disk[p] ELSE Nothing]
            \in [Paths -> Facts \cup {Nothing}]
      BY <2>1, <3>1 DEF Janitor
    <3>3. QED
      BY <2>1, <2>4, <3>2 DEF Walk, Janitor
  <2>5. CASE List
    BY <2>1, <2>5 DEF List, Janitor
  <2>6. ASSUME NEW p \in Paths, Compare(p) PROVE janitor' \in Janitor
    <3>1. ASSUME NEW facts \in Facts,
                 janitor' = [janitor EXCEPT !.at = "upsert", !.todo = @ \ {p}, !.path = p,
                                            !.found[p] = facts]
          PROVE  janitor' \in Janitor
      <4>1. [janitor.found EXCEPT ![p] = facts] \in [Paths -> Facts \cup {Nothing}]
        BY <2>1 DEF Janitor
      <4>2. QED
        BY <2>1, <3>1, <4>1 DEF Janitor
    <3>2. ASSUME janitor' = [janitor EXCEPT !.todo = @ \ {p}] PROVE janitor' \in Janitor
      BY <2>1, <3>2 DEF Janitor
    <3>3. janitor.found[p] \in File /\ IsFileAt(p) =>
            [content |-> disk[p].content, stamp |-> janitor.found[p].stamp] \in Facts
      BY DEF IsFileAt, File, Facts
    <3>4. Directory \in Facts
      BY DEF Facts
    <3>5. QED
      BY <2>6, <3>1, <3>2, <3>3, <3>4 DEF Compare
  <2>7. CASE UpsertFound
    BY <2>1, <2>7, SomePath DEF UpsertFound, Janitor
  <2>8. CASE EndCompare
    <3>1. Missing \subseteq Paths
      BY DEF Missing
    <3>2. NoScan.found \in [Paths -> Facts \cup {Nothing}] /\ NoScan.known \in [Paths -> Facts \cup {Nothing}]
      BY DEF NoScan
    <3>3. QED
      BY <2>1, <2>8, <3>1, <3>2 DEF EndCompare, Janitor
  <2>9. ASSUME NEW p \in Paths, Tombstone(p) PROVE janitor' \in Janitor
    BY <2>1, <2>9 DEF Tombstone, Janitor
  <2>10. CASE EndScan
    BY <2>10, RestTypes DEF EndScan, Janitor
  <2>11. CASE PurgeTrash
    BY <2>11, RestTypes DEF PurgeTrash
  <2>12. QED
    BY <2>2, <2>3, <2>4, <2>5, <2>6, <2>7, <2>8, <2>9, <2>10, <2>11 DEF JanitorStep
<1>2. index' \in [Paths -> Facts \cup {Nothing}]
  <2>1. ASSUME UpsertFound PROVE janitor.found[janitor.path] \in Facts \cup {Nothing}
    BY DEF TypeOK, Janitor
  <2>2. QED
    BY <2>1 DEF TypeOK, Load, JanitorStep, SetRules, Walk, List, Compare, UpsertFound, Upsert,
        EndCompare, Tombstone, MarkDeleted, EndScan, PurgeTrash
<1>3. rules' \in Rules
  BY DEF TypeOK, Load, JanitorStep, SetRules, Walk, List, Compare, UpsertFound, EndCompare,
      Tombstone, EndScan, PurgeTrash, ScanOnly, Janitor
<1>4. disk' = disk /\ trash' \subseteq trash /\ owed' \subseteq owed
  BY DEF Load, JanitorStep, SetRules, Walk, List, Compare, UpsertFound, EndCompare,
      Tombstone, EndScan, PurgeTrash, ScanOnly
<1>5. serving' \in BOOLEAN /\ watched' \subseteq Paths
  BY DEF TypeOK, Load, JanitorStep, SetRules, Walk, List, Compare, UpsertFound, EndCompare,
      Tombstone, EndScan, PurgeTrash, ScanOnly
<1>6. calm' \in {"no", "scanning", "settled"}
  BY DEF TypeOK, Load, JanitorStep, SetRules, Walk, List, Compare, UpsertFound, EndCompare,
      Tombstone, EndScan, PurgeTrash, ScanOnly
<1>7. NotJanitors
  BY DEF Load, JanitorStep, SetRules, Walk, List, Compare, UpsertFound, EndCompare,
      Tombstone, EndScan, PurgeTrash, ScanOnly
<1>8. QED
  BY <1>1, <1>2, <1>3, <1>4, <1>5, <1>6, <1>7 DEF TypeOK, NotJanitors

LEMMA WatcherTypes ==
  ASSUME TypeOK, (\E p \in Paths : Look(p)) \/ WatcherStep
  PROVE  TypeOK'
<1>1. disk \in [Paths -> File \cup {Directory, Nothing}] /\ index \in [Paths -> Facts \cup {Nothing}]
      /\ apply \in Job({"lookup", "hash", "write", "mark"})
      /\ (apply.at = "hash" => apply.fact \in File)
  BY DEF TypeOK
<1>2. /\ apply' \in Job({"lookup", "hash", "write", "mark"})
      /\ apply'.at = "hash" => apply'.fact \in File
      /\ apply'.at = "write" => apply'.fact # Nothing
  <2>1. ASSUME NEW p \in Paths, Look(p)
        PROVE  apply' \in Job({"lookup", "hash", "write", "mark"}) /\ apply'.at = "lookup"
    BY <1>1, <2>1 DEF Look, Job, Facts
  <2>2. CASE Compared
    <3> DEFINE stage == IF apply.fact = Nothing THEN "mark"
                        ELSE IF apply.fact = Directory THEN "write" ELSE "hash"
               next == [apply EXCEPT !.known = index[apply.path], !.at = stage]
    <3>1. apply' = Resting \/ apply' = next
      BY <1>1, <2>2, KindsAssumption DEF Compared, Job, Facts
    <3>2. apply.fact \notin {Nothing, Directory} => apply.fact \in File
      BY <1>1 DEF Job, Facts
    <3>3. next \in Job({"lookup", "hash", "write", "mark"})
      BY <1>1 DEF Job
    <3>4. next.at = stage /\ next.fact = apply.fact
      BY <1>1 DEF Job
    <3> HIDE DEF next
    <3>5. QED
      BY <3>1, <3>2, <3>3, <3>4, RestTypes
  <2>3. CASE Hash
    <3>1. CASE apply' = Resting
      BY <3>1, RestTypes
    <3>2. CASE IsFileAt(apply.path)
               /\ apply' = [apply EXCEPT !.at = "write", !.fact.content = disk[apply.path].content]
      <4>1. [apply.fact EXCEPT !.content = disk[apply.path].content] \in Facts
        BY <1>1, <2>3, <3>2 DEF Hash, IsFileAt, Facts, File, Job
      <4>2. [apply.fact EXCEPT !.content = disk[apply.path].content] # Nothing
        BY <4>1, KindsAssumption
      <4>3. apply' = [apply EXCEPT !.at = "write",
                        !.fact = [apply.fact EXCEPT !.content = disk[apply.path].content]]
        BY <1>1, <3>2 DEF Job
      <4>4. QED
        BY <1>1, <4>1, <4>2, <4>3 DEF Job
    <3>3. QED
      BY <2>3, <3>1, <3>2 DEF Hash
  <2>4. CASE Apply
    BY <2>4, RestTypes DEF Apply
  <2>5. QED
    BY <2>1, <2>2, <2>3, <2>4 DEF WatcherStep
<1>3. index' \in [Paths -> Facts \cup {Nothing}]
  BY <1>1 DEF Look, WatcherStep, Compared, Hash, Apply, Upsert, MarkDeleted, Job
<1>4. timers' \subseteq Paths /\ calm' \in {"no", "scanning", "settled"}
  BY DEF TypeOK, Look, WatcherStep, Compared, Hash, Apply
<1>5. NotWatchers
  BY DEF Look, WatcherStep, Compared, Hash, Apply
<1>6. QED
  BY <1>2, <1>3, <1>4, <1>5 DEF TypeOK, NotWatchers, ruleVars, diskVars

LEMMA CallTypes ==
  ASSUME TypeOK, (\E p \in Paths : Arrive(p)) \/ CallStep
  PROVE  TypeOK'
<1>1. DiskOK /\ index \in [Paths -> Facts \cup {Nothing}] /\ owed \subseteq Stamps
      /\ call \in Job({"trash", "place", "record", "mark"}) /\ call.fact \in File \cup {Nothing}
      /\ (call.at \in {"place", "record"} => call.fact \in File)
      /\ watched \subseteq Paths /\ timers \subseteq Paths
      /\ stamps \in 0 .. MaxStamps /\ events \in 0 .. MaxEvents
  BY DEF TypeOK, DiskOK
<1>2. /\ call' \in Job({"trash", "place", "record", "mark"}) /\ call'.fact \in File \cup {Nothing}
      /\ call'.at \in {"place", "record"} => call'.fact \in File
  <2>1. ASSUME NEW p \in Paths, Arrive(p)
        PROVE  /\ call' \in Job({"trash", "place", "record", "mark"})
               /\ call'.fact \in File \cup {Nothing}
               /\ call'.at \in {"place", "record"} => call'.fact \in File
    <3>1. stamps < MaxStamps /\ stamps' = stamps + 1 =>
            [content |-> stamps', stamp |-> stamps'] \in File
      BY <1>1, BoundsAssumption DEF Stamps, File
    <3>2. QED
      BY <2>1, <3>1 DEF Arrive, Job, Facts
  <2>2. CASE MakeRoom
    BY <1>1, <2>2 DEF MakeRoom, Job
  <2>3. CASE Place
    BY <1>1, <2>3, RestTypes DEF Place, Job
  <2>4. CASE Record \/ Mark
    BY <2>4, RestTypes DEF Record, Mark
  <2>5. QED
    BY <2>1, <2>2, <2>3, <2>4 DEF CallStep
<1>3. DiskOK' /\ index' \in [Paths -> Facts \cup {Nothing}]
  <2>1. CASE UNCHANGED <<disk, trash>>
    BY <1>1, <2>1 DEF Arrive, CallStep, MakeRoom, Place, Record, Mark, Upsert, MarkDeleted, Job,
        DiskOK, diskVars
  <2>2. CASE MakeRoom
    BY <1>1, <2>2, RemovalTypes DEF MakeRoom, Job
  <2>3. CASE Place
    BY <1>1, <2>1, <2>3, PlacedTypes DEF Place, DiskOK
  <2>4. QED
    BY <2>1, <2>2, <2>3 DEF Arrive, CallStep, Record, Mark, diskVars
<1>4. owed' \subseteq Stamps
  BY <1>1 DEF Arrive, CallStep, MakeRoom, Place, Record, Mark, diskVars, File
<1>5. watched' \subseteq Paths /\ timers' \subseteq Paths
  <2>1. Subtree(call.path) \subseteq Paths /\ ({call.path} \cup Above[call.path]) \subseteq Paths
    BY <1>1, TreeAssumption DEF Subtree, Job
  <2>2. QED
    BY <1>1, <2>1, NoticedTypes DEF Arrive, CallStep, MakeRoom, Place, Record, Mark
<1>6. stamps' \in 0 .. MaxStamps /\ events' \in 0 .. MaxEvents
  BY <1>1, BoundsAssumption DEF Arrive, CountEvent, CallStep, MakeRoom, Place, Record, Mark
<1>7. calm' = "no" /\ NotCalls
  BY DEF Arrive, CallStep, MakeRoom, Place, Record, Mark, Disturb
<1>8. QED
  BY <1>2, <1>3, <1>4, <1>5, <1>6, <1>7 DEF TypeOK, DiskOK, NotCalls, ruleVars

LEMMA RestoreTypes ==
  ASSUME TypeOK, (\E i \in trash : BeginRestore(i)) \/ RestoreStep
  PROVE  TypeOK'
<1>1. DiskOK /\ index \in [Paths -> Facts \cup {Nothing}]
      /\ restore \in Job({"rename", "stat", "hash", "record"})
      /\ (restore.at # "idle" => restore.fact \in File)
      /\ watched \subseteq Paths /\ timers \subseteq Paths /\ events \in 0 .. MaxEvents
  BY DEF TypeOK, DiskOK
<1>2. restore' \in Job({"rename", "stat", "hash", "record"})
      /\ (restore'.at # "idle" => restore'.fact \in File)
  <2>1. ASSUME NEW i \in trash, BeginRestore(i)
        PROVE  restore' \in Job({"rename", "stat", "hash", "record"}) /\ restore'.fact \in File
    BY <1>1, <2>1 DEF BeginRestore, DiskOK, Item, Job, Facts
  <2>2. CASE PutBack
    BY <1>1, <2>2, RestTypes DEF PutBack, Job
  <2>3. CASE Stat
    <3>1. IsFileAt(restore.path) => disk[restore.path] \in File
      BY DEF IsFileAt
    <3>2. CASE restore.at = "stat" /\ IsFileAt(restore.path)
      BY <1>1, <2>3, <3>1, <3>2 DEF Stat, Job, Facts
    <3>3. CASE restore.at = "hash" /\ IsFileAt(restore.path)
      <4>1. [restore.fact EXCEPT !.content = disk[restore.path].content] \in File
        BY <1>1, <3>1, <3>3 DEF File
      <4>2. restore' = [restore EXCEPT !.at = "record",
              !.fact = [restore.fact EXCEPT !.content = disk[restore.path].content]]
        BY <1>1, <2>3, <3>3 DEF Stat, Job
      <4>3. QED
        BY <1>1, <4>1, <4>2 DEF Job, Facts
    <3>4. CASE ~IsFileAt(restore.path)
      BY <2>3, <3>4, RestTypes DEF Stat
    <3>5. QED
      BY <2>3, <3>2, <3>3, <3>4 DEF Stat
  <2>4. CASE RecordRestored
    BY <2>4, RestTypes DEF RecordRestored
  <2>5. QED
    BY <2>1, <2>2, <2>3, <2>4 DEF RestoreStep
<1>3. DiskOK'
  <2>1. CASE UNCHANGED <<disk, trash>>
    BY <1>1, <2>1 DEF DiskOK
  <2>2. CASE PutBack
    <3>1. restore.fact \in File /\ disk[restore.path] \in File \cup {Directory, Nothing}
      BY <1>1, <2>2 DEF PutBack, DiskOK, Job
    <3>2. [path |-> restore.path, file |-> restore.fact, listed |-> TRUE].file = restore.fact
      OBVIOUS
    <3>3. disk' \in [Paths -> File \cup {Directory, Nothing}]
      BY <1>1, <2>2, <3>1, <3>2, PlacedTypes DEF PutBack, DiskOK
    <3>4. trash' \subseteq trash
      BY <2>2 DEF PutBack
    <3>5. QED
      BY <1>1, <3>3, <3>4 DEF DiskOK
  <2>3. QED
    BY <2>1, <2>2 DEF BeginRestore, RestoreStep, Stat, RecordRestored
<1>4. index' \in [Paths -> Facts \cup {Nothing}]
  BY <1>1 DEF BeginRestore, RestoreStep, PutBack, Stat, RecordRestored, Upsert, Job
<1>5. watched' \subseteq Paths /\ timers' \subseteq Paths
  <2>1. ({restore.path} \cup Above[restore.path]) \subseteq Paths
    BY <1>1, TreeAssumption DEF Job
  <2>2. QED
    BY <1>1, <2>1, NoticedTypes DEF BeginRestore, RestoreStep, PutBack, Stat, RecordRestored
<1>6. events' \in 0 .. MaxEvents /\ calm' \in {"no", "scanning", "settled"}
  BY <1>1, BoundsAssumption DEF TypeOK, BeginRestore, CountEvent, Disturb, RestoreStep, PutBack,
      Stat, RecordRestored
<1>7. NotRestores
  BY DEF BeginRestore, RestoreStep, PutBack, Stat, RecordRestored
<1>8. QED
  BY <1>2, <1>3, <1>4, <1>5, <1>6, <1>7 DEF TypeOK, DiskOK, NotRestores, ruleVars

LEMMA SaveTypes ==
  ASSUME TypeOK, (\E r \in Rules : StoreRules(r)) \/ SaveStep
  PROVE  TypeOK'
<1>1. DiskOK /\ index \in [Paths -> Facts \cup {Nothing}] /\ save \in Save
      /\ stored \in Rules /\ rules \in Rules
      /\ watched \subseteq Paths /\ timers \subseteq Paths /\ events \in 0 .. MaxEvents
  BY DEF TypeOK, DiskOK
<1>2. ASSUME NEW e, Done(e) PROVE save' \in Save
  BY <1>1, <1>2, RestTypes DEF Done, Save
<1>3. save' \in Save
  <2>1. CASE (\E r \in Rules : StoreRules(r)) \/ ReadBack \/ SwapRules
    BY <1>1, <2>1 DEF StoreRules, ReadBack, SwapRules, Save
  <2>2. CASE ListLive
    <3>1. {<<p, index[p] = Directory>> : p \in {q \in Paths : index[q] # Nothing}}
            \subseteq Paths \X BOOLEAN
      <4>1. \A p \in Paths : (index[p] = Directory) \in BOOLEAN
        BY Zenon
      <4>2. \A p \in {q \in Paths : index[q] # Nothing} :
              <<p, index[p] = Directory>> \in Paths \X BOOLEAN
        BY <4>1, Zenon
      <4>3. QED
        BY <4>2, Zenon
    <3>2. QED
      BY <1>1, <2>2, <3>1 DEF ListLive, Save
  <2>3. CASE Purge
    BY <1>1, <1>2, <2>3, RestTypes DEF Purge, Save
  <2>4. CASE MarkPurged
    BY <1>2, <2>4 DEF MarkPurged
  <2>5. QED
    BY <2>1, <2>2, <2>3, <2>4 DEF SaveStep
<1>4. index' \in [Paths -> Facts \cup {Nothing}]
  BY <1>1 DEF StoreRules, SaveStep, ReadBack, SwapRules, ListLive, Purge, MarkPurged, MarkDeleted
<1>5. DiskOK' /\ watched' \subseteq Paths /\ timers' \subseteq Paths
  <2>1. CASE UNCHANGED <<disk, trash, watched, timers>>
    BY <1>1, <2>1 DEF DiskOK
  <2>2. ASSUME NEW p \in Paths, NEW isDir \in BOOLEAN, TakeOut(p, isDir), Noticed(Subtree(p))
        PROVE  DiskOK' /\ watched' \subseteq Paths /\ timers' \subseteq Paths
    <3>1. Subtree(p) \subseteq Paths
      BY DEF Subtree
    <3>2. DiskOK'
      BY <1>1, <2>2, RemovalTypes DEF TakeOut, DiskOK
    <3>3. QED
      BY <1>1, <2>2, <3>1, <3>2, NoticedTypes
  <2>3. QED
    BY <2>1, <2>2 DEF StoreRules, SaveStep, ReadBack, SwapRules, ListLive, Purge, MarkPurged
<1>6. stored' \in Rules /\ rules' \in Rules
  BY <1>1 DEF StoreRules, SaveStep, ReadBack, SwapRules, ListLive, Purge, MarkPurged, ruleVars, Save
<1>7. events' \in 0 .. MaxEvents /\ calm' \in {"no", "scanning", "settled"}
  <2>1. events' \in 0 .. MaxEvents
    BY <1>1, BoundsAssumption DEF StoreRules, CountEvent, SaveStep, ReadBack, SwapRules, ListLive,
        Purge, MarkPurged
  <2>2. calm' = "no" \/ calm' = calm
    BY DEF StoreRules, Disturb, SaveStep, ReadBack, SwapRules, ListLive, Purge, MarkPurged
  <2>3. QED
    BY <2>1, <2>2 DEF TypeOK
<1>8. NotSaves
  BY DEF StoreRules, SaveStep, ReadBack, SwapRules, ListLive, Purge, MarkPurged
<1>9. QED
  BY <1>3, <1>4, <1>5, <1>6, <1>7, <1>8 DEF TypeOK, DiskOK, NotSaves

LEMMA HandTypes ==
  ASSUME TypeOK, NEW p \in Paths, ByHand(p)
  PROVE  TypeOK'
<1>1. DiskOK /\ watched \subseteq Paths /\ timers \subseteq Paths /\ owed \subseteq Stamps
      /\ stamps \in 0 .. MaxStamps /\ events \in 0 .. MaxEvents
  BY DEF TypeOK, DiskOK
<1>2. stamps' \in 0 .. MaxStamps /\ events' \in 0 .. MaxEvents
  BY <1>1, BoundsAssumption DEF ByHand, WriteByHand, Touch, MakeDirectory, RemoveByHand, CountEvent
<1>3. disk' \in [Paths -> File \cup {Directory, Nothing}]
  <2>1. CASE WriteByHand(p)
    <3>1. [content |-> stamps', stamp |-> stamps'] \in File
      BY <1>1, <2>1, BoundsAssumption DEF WriteByHand, File, Stamps
    <3>2. QED
      BY <1>1, <2>1, <3>1, PlacedTypes DEF WriteByHand
  <2>2. CASE Touch(p)
    <3>1. [disk[p] EXCEPT !.stamp = stamps'] \in File
      BY <1>1, <2>2, BoundsAssumption DEF Touch, IsFileAt, File, Stamps
    <3>2. disk' = [disk EXCEPT ![p] = [disk[p] EXCEPT !.stamp = stamps']]
      BY <2>2 DEF Touch
    <3>3. QED
      BY <1>1, <3>1, <3>2 DEF DiskOK
  <2>3. CASE MakeDirectory(p)
    BY <1>1, <2>3, PlacedTypes DEF MakeDirectory
  <2>4. CASE RemoveByHand(p)
    BY <1>1, <2>4, RemovalTypes DEF RemoveByHand
  <2>5. QED
    BY <2>1, <2>2, <2>3, <2>4 DEF ByHand
<1>4. watched' \subseteq Paths /\ timers' \subseteq Paths
  <2>1. Subtree(p) \subseteq Paths /\ ({p} \cup Above[p]) \subseteq Paths
    BY TreeAssumption DEF Subtree
  <2>2. QED
    BY <1>1, <2>1, NoticedTypes DEF ByHand, WriteByHand, Touch, MakeDirectory, RemoveByHand
<1>5. owed' \subseteq owed /\ calm' \in {"no", "scanning", "settled"}
  BY DEF TypeOK, ByHand, WriteByHand, Touch, MakeDirectory, RemoveByHand, GiveUp, Disturb
<1>6. NotByHand
  BY DEF ByHand, WriteByHand, Touch, MakeDirectory, RemoveByHand
<1>7. QED
  BY <1>1, <1>2, <1>3, <1>4, <1>5, <1>6 DEF TypeOK, DiskOK, NotByHand, ruleVars

LEMMA CrashTypes ==
  ASSUME TypeOK, Crash
  PROVE  TypeOK'
<1>1. janitor' \in Janitor
  BY RestTypes DEF Crash, Janitor
<1>2. events' \in 0 .. MaxEvents
  BY BoundsAssumption DEF TypeOK, Crash, CountEvent
<1>3. QED
  BY <1>1, <1>2, RestTypes, RulesAssumption, KindsAssumption DEF TypeOK, Crash, Disturb, diskVars

LEMMA TypesStay ==
  ASSUME TypeOK, [Next]_vars
  PROVE  TypeOK'
<1>1. CASE UNCHANGED vars
  BY <1>1 DEF vars, ruleVars, diskVars, TypeOK
<1>2. QED
  BY <1>1, JanitorTypes, WatcherTypes, CallTypes, RestoreTypes, SaveTypes, HandTypes, CrashTypes
  DEF Next, Requests, Handlers

(***************************************************************************)
(* Every variable keeps its type, whatever the seven writers of the data   *)
(* directory and the index do to each other: what is hashed or put back is *)
(* a file, what the watcher writes is something (watch.go, misc.go).       *)
(***************************************************************************)
THEOREM TypeCorrect == Spec => []TypeOK
BY FirstTypes, TypesStay, PTL DEF Spec

----------------------------------------------------------------------------
(* What is accepted. *)

\* A file at p whose content is owed.
Due(p) == IsFileAt(p) /\ disk[p].content \in owed

(***************************************************************************)
(* The steps that end an accepted content: the rename of an upload over a  *)
(* file the index does not know (files.go), the rename of a restore over a *)
(* file that came after its check (misc.go), and the removal, as an empty  *)
(* directory, of a path that was listed as a directory and is a file by    *)
(* then (misc.go).                                                         *)
(***************************************************************************)
Destroys ==
  \/ Place /\ call' # Resting /\ Due(call.path)
  \/ PutBack /\ restore' # Resting /\ Due(restore.path)
  \/ Purge /\ UNCHANGED trash /\ \E p \in Paths : Due(p) /\ ~IsFileAt(p)'

LEMMA SomewhereIs ==
  \A x : x \in Contents <=> \/ \E p \in Paths : IsFileAt(p) /\ disk[p].content = x
                            \/ \E i \in trash : i.file.content = x
BY DEF Contents

LEMMA NothingMoves ==
  ASSUME NothingDestroyed, UNCHANGED disk, UNCHANGED trash, owed' \subseteq owed
  PROVE  NothingDestroyed'
<1>1. Contents' = Contents
  BY DEF Contents, IsFileAt
<1>2. QED
  BY <1>1 DEF NothingDestroyed

\* All that can be lost is what is lost from the disk.
LEMMA LostFromDisk ==
  ASSUME NothingDestroyed, trash \subseteq trash', owed' \subseteq owed,
         \A p \in Paths : IsFileAt(p) /\ disk[p].content \in owed' => disk[p].content \in Contents'
  PROVE  NothingDestroyed'
<1> SUFFICES ASSUME NEW x \in owed' PROVE x \in Contents'
  BY DEF NothingDestroyed
<1>1. x \in Contents
  BY DEF NothingDestroyed
<1>2. CASE \E i \in trash : i.file.content = x
  BY <1>2 DEF Contents
<1>3. CASE \E p \in Paths : IsFileAt(p) /\ disk[p].content = x
  BY <1>3
<1>4. QED
  BY <1>1, <1>2, <1>3, SomewhereIs

LEMMA IntoTrash ==
  ASSUME TypeOK, NothingDestroyed, NEW p \in Paths, MovedToTrash(p), owed' \subseteq owed
  PROVE  NothingDestroyed'
<1>1. \A q \in Paths : disk'[q] = IF q \in Subtree(p) THEN Nothing ELSE disk[q]
  BY DEF MovedToTrash, Without
<1>2. trash \subseteq trash'
  BY DEF MovedToTrash
<1>3. ASSUME NEW q \in Paths, IsFileAt(q) PROVE disk[q].content \in Contents'
  <2>1. CASE q \in Subtree(p)
    <3>1. [path |-> q, file |-> disk[q], listed |-> q = p] \in trash'
      BY <1>3, <2>1 DEF MovedToTrash
    <3>2. QED
      BY <3>1 DEF Contents
  <2>2. CASE q \notin Subtree(p)
    <3>1. disk'[q] = disk[q]
      BY <1>1, <2>2
    <3>2. QED
      BY <1>3, <3>1 DEF Contents, IsFileAt
  <2>3. QED
    BY <2>1, <2>2
<1>4. QED
  BY <1>2, <1>3, LostFromDisk

LEMMA PlacedFiles ==
  ASSUME TypeOK, NEW p \in Paths, NEW f \in File, CanMakeParents(p), disk' = Placed(p, f)
  PROVE  /\ IsFileAt(p)' /\ disk'[p] = f
         /\ \A q \in Paths : q # p => /\ IsFileAt(q)' <=> IsFileAt(q)
                                      /\ IsFileAt(q) => disk'[q] = disk[q]
<1>1. p \notin Above[p] /\ Above[p] \subseteq Paths
  BY TreeAssumption
<1>2. \A q \in Paths : disk'[q] = IF q = p THEN f ELSE IF q \in Above[p] THEN Directory ELSE disk[q]
  BY DEF Placed
<1>3. \A a \in Above[p] : disk[a] \notin File
  BY DEF CanMakeParents, IsFileAt
<1>4. QED
  BY <1>1, <1>2, <1>3, KindsAssumption DEF IsFileAt

\* A new file at p takes nothing but what was at p.
LEMMA PlacedContents ==
  ASSUME TypeOK, NEW p \in Paths, NEW f \in File, CanMakeParents(p), disk' = Placed(p, f)
  PROVE  /\ f.content \in Contents'
         /\ \A q \in Paths : IsFileAt(q) /\ q # p => disk[q].content \in Contents'
<1>1. /\ IsFileAt(p)' /\ disk'[p] = f
      /\ \A q \in Paths : q # p => /\ IsFileAt(q)' <=> IsFileAt(q)
                                   /\ IsFileAt(q) => disk'[q] = disk[q]
  BY PlacedFiles
<1>2. f.content \in Contents'
  BY <1>1 DEF Contents, IsFileAt
<1>3. ASSUME NEW q \in Paths, IsFileAt(q), q # p PROVE disk[q].content \in Contents'
  <2>1. IsFileAt(q)' /\ disk'[q] = disk[q]
    BY <1>1, <1>3
  <2>2. QED
    BY <2>1 DEF Contents, IsFileAt
<1>4. QED
  BY <1>2, <1>3

----------------------------------------------------------------------------
(* Each goroutine in turn. *)

LEMMA JanitorKeeps ==
  ASSUME TypeOK, NothingDestroyed, Load \/ JanitorStep
  PROVE  NothingDestroyed'
<1>1. UNCHANGED disk
  BY DEF Load, JanitorStep, SetRules, List, UpsertFound, EndCompare, EndScan, PurgeTrash, Walk,
     Compare, Tombstone, ScanOnly, NotJanitors
<1>2. CASE PurgeTrash
  <2>1. PICK old \in SUBSET (trash \cap Kept) :
          trash' = trash \ old /\ owed' = owed \ {i.file.content : i \in old}
    BY <1>2 DEF PurgeTrash
  <2>2. ASSUME NEW x \in owed' PROVE x \in Contents'
    <3>1. x \in owed /\ \A i \in old : i.file.content # x
      BY <2>1, <2>2
    <3>2. CASE \E p \in Paths : IsFileAt(p) /\ disk[p].content = x
      BY <1>1, <3>2 DEF Contents, IsFileAt
    <3>3. CASE \E i \in trash : i.file.content = x
      BY <2>1, <3>1, <3>3 DEF Contents
    <3>4. QED
      BY <3>1, <3>2, <3>3, SomewhereIs DEF NothingDestroyed
  <2>3. QED
    BY <2>2 DEF NothingDestroyed
<1>3. CASE ~PurgeTrash
  <2>1. UNCHANGED trash /\ UNCHANGED owed
    BY <1>3 DEF Load, JanitorStep, SetRules, List, UpsertFound, EndCompare, EndScan, Walk,
       Compare, Tombstone, ScanOnly
  <2>2. QED
    BY <1>1, <2>1, NothingMoves
<1>4. QED
  BY <1>2, <1>3

LEMMA CallKeeps ==
  ASSUME TypeOK, NothingDestroyed, CallStep, ~Destroys
  PROVE  NothingDestroyed'
<1> DEFINE p == call.path
<1>1. p \in Paths
  BY DEF TypeOK, Job
<1>2. CASE MakeRoom
  BY <1>1, <1>2, IntoTrash DEF MakeRoom
<1>3. CASE Place /\ call' # Resting
  <2>1. /\ call.fact \in File /\ CanMakeParents(p) /\ disk' = Placed(p, call.fact)
        /\ UNCHANGED trash /\ owed' = owed \cup {call.fact.content}
    BY <1>3 DEF Place, TypeOK, Job
  <2>2. ~Due(p)
    BY <1>3 DEF Destroys
  <2>3. /\ call.fact.content \in Contents'
        /\ \A q \in Paths : IsFileAt(q) /\ q # p => disk[q].content \in Contents'
    BY <1>1, <2>1, PlacedContents
  <2>4. ASSUME NEW x \in owed PROVE x \in Contents'
    <3>1. CASE \E i \in trash : i.file.content = x
      BY <2>1, <3>1 DEF Contents
    <3>2. CASE \E q \in Paths : IsFileAt(q) /\ disk[q].content = x
      BY <2>2, <2>3, <2>4, <3>2 DEF Due
    <3>3. QED
      BY <2>4, <3>1, <3>2, SomewhereIs DEF NothingDestroyed
  <2>5. QED
    BY <2>1, <2>3, <2>4 DEF NothingDestroyed
<1>4. CASE Place /\ call' = Resting
  <2>1. [call EXCEPT !.at = "record"] # Resting
    BY DEF Resting, TypeOK, Job
  <2>2. UNCHANGED disk /\ UNCHANGED trash /\ UNCHANGED owed
    BY <1>4, <2>1 DEF Place
  <2>3. QED
    BY <2>2, NothingMoves
<1>5. CASE Record \/ Mark
  BY <1>5, NothingMoves DEF Record, Mark, diskVars
<1>6. QED
  BY <1>2, <1>3, <1>4, <1>5 DEF CallStep

\* The item is back where it was, and no longer in the trash.
LEMMA BackInPlace ==
  ASSUME TypeOK, NothingDestroyed, PutBack, restore' # Resting, ~Destroys
  PROVE  NothingDestroyed'
<1> DEFINE p == restore.path
<1> DEFINE f == restore.fact
<1> DEFINE i == [path |-> p, file |-> f, listed |-> TRUE]
<1>1. /\ p \in Paths /\ f \in File /\ CanMakeParents(p) /\ disk' = Placed(p, f)
      /\ trash' = trash \ {i} /\ UNCHANGED owed
  BY DEF PutBack, NotRestores, TypeOK, Job, Resting
<1>2. ~Due(p)
  BY DEF Destroys
<1>3. /\ f.content \in Contents'
      /\ \A q \in Paths : IsFileAt(q) /\ q # p => disk[q].content \in Contents'
  BY <1>1, PlacedContents
<1>4. ASSUME NEW x \in owed PROVE x \in Contents'
  <2>1. CASE \E q \in Paths : IsFileAt(q) /\ disk[q].content = x
    BY <1>2, <1>3, <1>4, <2>1 DEF Due
  <2>2. CASE \E j \in trash : j.file.content = x
    <3>1. PICK j \in trash : j.file.content = x
      BY <2>2
    <3>2. CASE j = i
      BY <1>3, <3>1, <3>2
    <3>3. CASE j # i
      BY <1>1, <3>1, <3>3 DEF Contents
    <3>4. QED
      BY <3>2, <3>3
  <2>3. QED
    BY <1>4, <2>1, <2>2, SomewhereIs DEF NothingDestroyed
<1>5. QED
  BY <1>1, <1>4 DEF NothingDestroyed

LEMMA RestoreKeeps ==
  ASSUME TypeOK, NothingDestroyed, RestoreStep, ~Destroys
  PROVE  NothingDestroyed'
<1> DEFINE p == restore.path
<1>1. p \in Paths /\ UNCHANGED owed
  BY DEF RestoreStep, PutBack, Stat, RecordRestored, NotRestores, TypeOK, Job
<1>2. CASE Stat \/ RecordRestored
  BY <1>1, <1>2, NothingMoves DEF Stat, RecordRestored
<1>3. CASE PutBack /\ restore' = Resting
  <2>1. [restore EXCEPT !.at = "stat"] # Resting
    BY DEF Resting, TypeOK, Job
  <2>2. UNCHANGED trash /\ disk' = IF CanMakeParents(p) THEN Placed(p, disk[p]) ELSE disk
    BY <1>3, <2>1 DEF PutBack
  <2>3. \A q \in Paths : IsFileAt(q) => IsFileAt(q)' /\ disk'[q] = disk[q]
    <3>1. CASE CanMakeParents(p)
      <4>1. \A q \in Paths : disk'[q] =
              IF q = p THEN disk[p] ELSE IF q \in Above[p] THEN Directory ELSE disk[q]
        BY <2>2, <3>1 DEF Placed
      <4>2. \A a \in Above[p] : disk[a] \notin File
        BY <3>1 DEF CanMakeParents, IsFileAt
      <4>3. QED
        BY <4>1, <4>2 DEF IsFileAt
    <3>2. CASE ~CanMakeParents(p)
      BY <2>2, <3>2 DEF IsFileAt
    <3>3. QED
      BY <3>1, <3>2
  <2>4. \A q \in Paths : IsFileAt(q) => disk[q].content \in Contents'
    BY <2>3 DEF Contents, IsFileAt
  <2>5. QED
    BY <1>1, <2>2, <2>4, LostFromDisk
<1>4. CASE PutBack /\ restore' # Resting
  BY <1>4, BackInPlace
<1>5. QED
  BY <1>2, <1>3, <1>4 DEF RestoreStep

LEMMA SaveKeeps ==
  ASSUME TypeOK, NothingDestroyed, (\E r \in Rules : StoreRules(r)) \/ SaveStep, ~Destroys
  PROVE  NothingDestroyed'
<1>1. UNCHANGED owed
  BY DEF StoreRules, SaveStep, ReadBack, SwapRules, ListLive, Purge, MarkPurged, NotSaves
<1>2. CASE UNCHANGED disk /\ UNCHANGED trash
  BY <1>1, <1>2, NothingMoves
<1>3. CASE Purge /\ ~(UNCHANGED disk /\ UNCHANGED trash)
  <2>1. PICK p \in Paths, isDir \in BOOLEAN : TakeOut(p, isDir)
    BY <1>3 DEF Purge
  <2>2. CASE MovedToTrash(p)
    BY <1>1, <2>2, IntoTrash
  <2>3. CASE disk' = Without({p}) /\ UNCHANGED trash
    <3>1. \A q \in Paths : disk'[q] = IF q = p THEN Nothing ELSE disk[q]
      BY <2>3 DEF Without
    <3>2. ~Due(p)
      BY <1>3, <2>3, <3>1, KindsAssumption DEF Destroys, IsFileAt, Facts
    <3>3. \A q \in Paths : IsFileAt(q) /\ q # p => disk[q].content \in Contents'
      BY <3>1 DEF Contents, IsFileAt
    <3>4. \A q \in Paths : IsFileAt(q) /\ disk[q].content \in owed' => disk[q].content \in Contents'
      BY <1>1, <3>2, <3>3 DEF Due
    <3>5. QED
      BY <1>1, <2>3, <3>4, LostFromDisk
  <2>4. QED
    BY <1>3, <2>1, <2>2, <2>3 DEF TakeOut
<1>4. QED
  BY <1>2, <1>3 DEF StoreRules, SaveStep, ReadBack, SwapRules, ListLive, MarkPurged

LEMMA HandKeeps ==
  ASSUME TypeOK, TypeOK', NothingDestroyed, NEW p \in Paths, ByHand(p)
  PROVE  NothingDestroyed'
<1>1. UNCHANGED trash /\ owed' \subseteq owed
  BY DEF ByHand, WriteByHand, Touch, MakeDirectory, RemoveByHand, NotByHand, GiveUp
<1>2. Directory \notin File /\ Nothing \notin File
  BY KindsAssumption DEF Facts
<1> SUFFICES ASSUME NEW q \in Paths, IsFileAt(q), disk[q].content \in owed'
             PROVE  disk[q].content \in Contents'
  BY <1>1, LostFromDisk
<1>3. CASE WriteByHand(p)
  <2>1. q # p
    BY <1>3 DEF WriteByHand, GiveUp
  <2>2. [content |-> stamps', stamp |-> stamps'] \in File
    <3>1. stamps' \in Stamps
      BY <1>3, BoundsAssumption DEF WriteByHand, Stamps, TypeOK
    <3>2. QED
      BY <3>1 DEF File
  <2>3. QED
    BY <1>3, <2>1, <2>2, PlacedContents DEF WriteByHand
<1>4. CASE Touch(p)
  <2>1. disk' = [disk EXCEPT ![p] = [disk[p] EXCEPT !.stamp = stamps']] /\ stamps' \in Stamps
    BY <1>4, BoundsAssumption DEF Touch, Stamps, TypeOK
  <2>2. IsFileAt(q)' /\ disk'[q].content = disk[q].content
    <3>1. CASE q = p
      <4>1. disk'[q] = [disk[q] EXCEPT !.stamp = stamps']
        BY <2>1, <3>1 DEF TypeOK
      <4>2. QED
        BY <2>1, <4>1 DEF IsFileAt, File
    <3>2. CASE q # p
      BY <2>1, <3>2 DEF IsFileAt, TypeOK
    <3>3. QED
      BY <3>1, <3>2
  <2>3. QED
    BY <2>2 DEF Contents, IsFileAt
<1>5. CASE MakeDirectory(p)
  <2>1. \A s \in Paths : disk'[s] =
          IF s = p THEN Directory ELSE IF s \in Above[p] THEN Directory ELSE disk[s]
    BY <1>5 DEF MakeDirectory, Placed
  <2>2. disk[p] = Nothing /\ \A a \in Above[p] : disk[a] \notin File
    BY <1>5 DEF MakeDirectory, CanMakeParents, IsFileAt
  <2>3. IsFileAt(q)' /\ disk'[q] = disk[q]
    BY <1>2, <2>1, <2>2 DEF IsFileAt
  <2>4. QED
    BY <2>3 DEF Contents, IsFileAt
<1>6. CASE RemoveByHand(p)
  <2>1. q \notin Subtree(p)
    BY <1>6 DEF RemoveByHand, GiveUp
  <2>2. disk'[q] = disk[q]
    BY <1>6, <2>1 DEF RemoveByHand, Without
  <2>3. QED
    BY <2>2 DEF Contents, IsFileAt
<1>7. QED
  BY <1>3, <1>4, <1>5, <1>6 DEF ByHand

LEMMA NothingLost ==
  ASSUME TypeOK, NothingDestroyed, [Next]_vars, [~Destroys]_vars
  PROVE  NothingDestroyed'
<1>1. TypeOK'
  BY TypesStay
<1>2. CASE UNCHANGED vars
  BY <1>2, NothingMoves DEF vars, diskVars
<1>3. CASE Next /\ ~Destroys
  <2>1. CASE Load \/ JanitorStep
    BY <2>1, JanitorKeeps
  <2>2. CASE (\E p \in Paths : Look(p)) \/ WatcherStep
    BY <2>2, NothingMoves DEF Look, WatcherStep, Compared, Hash, Apply, NotWatchers, diskVars
  <2>3. CASE Handlers \/ \E r \in Rules : StoreRules(r)
    BY <1>3, <2>3, CallKeeps, RestoreKeeps, SaveKeeps DEF Handlers
  <2>4. CASE (\E p \in Paths : Arrive(p)) \/ (\E i \in trash : BeginRestore(i)) \/ Crash
    BY <2>4, NothingMoves DEF Arrive, BeginRestore, NotRestores, Crash, diskVars
  <2>5. CASE \E p \in Paths : ByHand(p)
    BY <1>1, <2>5, HandKeeps
  <2>6. QED
    BY <1>3, <2>1, <2>2, <2>3, <2>4, <2>5 DEF Next, Requests
<1>4. QED
  BY <1>2, <1>3

(***************************************************************************)
(* Three steps and no other destroy what was accepted, whether or not      *)
(* requests and purges come upon a path the index has wrong: uploads,      *)
(* deletions, restores, the watcher, the scan, purges of ignored paths,    *)
(* crashes and changes by hand, in any order and any number, keep every    *)
(* accepted content on the disk or in the trash as long as none of the     *)
(* three comes upon one (files.go, misc.go, trash.go).                     *)
(***************************************************************************)
THEOREM NothingIsDestroyed ==
  Spec /\ [][~Destroys]_vars => []NothingDestroyed
<1>1. Init => TypeOK /\ NothingDestroyed
  BY FirstTypes DEF Init, NothingDestroyed
<1>2. TypeOK /\ NothingDestroyed /\ [Next]_vars /\ [~Destroys]_vars => (TypeOK /\ NothingDestroyed)'
  BY TypesStay, NothingLost
<1>3. QED
  BY <1>1, <1>2, PTL DEF Spec
----------------------------------------------------------------------------
(***************************************************************************)
(* What a scan leaves behind, if nothing comes between.  The tree is one;  *)
(* the walk finds what is to be shown (Seen); what has been compared is in *)
(* the index (Compares); and once all is at rest only a touched file is    *)
(* looked at, of which the watcher finds that its content has not changed. *)
(***************************************************************************)

\* Nothing is in a file.
TreeOK == \A p \in Paths : disk[p] # Nothing => \A a \in Above[p] : disk[a] = Directory

\* The files of an excluded directory are excluded.
FilesGoAlong ==
  \A r \in Rules, p \in Paths : \A a \in Above[p] :
    <<a, TRUE>> \in Excluded[r] => <<p, FALSE>> \in Excluded[r]

Seen(S) == \A p \in S : Agree(Shown(p), janitor.found[p])

\* Of one stamp, of one content.
Tells(x, y) == x \in File /\ y \in File /\ x.stamp = y.stamp => x.content = y.content

\* The paths whose row the comparison has yet to write.
Ahead == janitor.todo \cup (IF JanitorAt("upsert") THEN {janitor.path} ELSE {})

Compares ==
  /\ Seen(Paths)
  /\ \A p \in Paths :
       /\ Tells(janitor.found[p], janitor.known[p])
       /\ p \in Ahead \/ janitor.found[p] = Nothing => index[p] = janitor.known[p]
       /\ p \notin Ahead /\ janitor.found[p] # Nothing => Agree(Shown(p), index[p])
  /\ JanitorAt("upsert") => janitor.path \notin janitor.todo /\ janitor.found[janitor.path] # Nothing

Scanning ==
  /\ janitor.at \in {"walk", "compare", "upsert", "delete"}
  /\ JanitorAt("walk") =>
       /\ Seen(Paths \ janitor.todo)
       /\ \A p \in Paths \ janitor.todo : Tells(janitor.found[p], index[p])
  /\ janitor.at \in {"compare", "upsert"} => Compares
  /\ JanitorAt("delete") =>
       \A p \in Paths :
         IF p \in janitor.todo THEN Shown(p) = Nothing ELSE Agree(Shown(p), index[p])

\* A scan of what is true already.
Rescanning ==
  /\ JanitorAt("walk") => Seen(Paths \ janitor.todo)
  /\ JanitorAt("compare") => Seen(Paths) /\ janitor.known = index
  /\ JanitorAt("delete") => janitor.todo = {}
  /\ ~JanitorAt("upsert")

\* A file that no rule leaves out.
Plain(p) == IsFileAt(p) /\ ~Skip(p, FALSE)

OnlyTouched ==
  /\ call = Resting /\ restore = Resting /\ save = NoSave
  /\ \A p \in timers : Plain(p)
  /\ apply # Resting =>
       /\ Plain(apply.path) /\ apply.at \in {"lookup", "hash"} /\ apply.fact \in File
       /\ apply.at = "hash" => apply.known = index[apply.path]

ScanInv ==
  /\ calm = "scanning" => Scanning
  /\ calm = "settled" => IndexIsDisk /\ Rescanning /\ OnlyTouched

LEMMA AgreeIs ==
  /\ \A x, y : x \in File => (Agree(x, y) <=> y \in File /\ x.content = y.content)
  /\ \A x, y : x \notin File => (Agree(x, y) <=> x = y)
  /\ Directory \notin File /\ Nothing \notin File /\ Directory # Nothing
BY KindsAssumption DEF Agree, Facts

----------------------------------------------------------------------------
(* The tree. *)

LEMMA PlacedTree ==
  ASSUME TypeOK, TreeOK, NEW p \in Paths, NEW what, disk[p] = Directory => what = Directory,
         disk' = Placed(p, what)
  PROVE  TreeOK'
<1>1. SUFFICES ASSUME NEW q \in Paths, disk'[q] # Nothing, NEW a \in Above[q]
               PROVE  disk'[a] = Directory
  BY DEF TreeOK
<1>2. a \in Paths /\ a # q /\ Above[q] \subseteq Paths /\ p \notin Above[p]
      /\ \A b \in Above[p] : Above[b] \subseteq Above[p]
  BY TreeAssumption
<1>3. \A b \in Paths : disk'[b] = IF b = p THEN what ELSE IF b \in Above[p] THEN Directory ELSE disk[b]
  BY DEF Placed
<1>4. CASE q = p \/ q \in Above[p]
  BY <1>2, <1>3, <1>4
<1>5. CASE q # p /\ q \notin Above[p]
  BY <1>1, <1>2, <1>3, <1>5 DEF TreeOK
<1>6. QED
  BY <1>4, <1>5

LEMMA RemovedTree ==
  ASSUME TreeOK, NEW S, \A q \in Paths : \A a \in Above[q] : a \in S /\ disk[q] # Nothing => q \in S,
         disk' = Without(S)
  PROVE  TreeOK'
<1>1. SUFFICES ASSUME NEW q \in Paths, disk'[q] # Nothing, NEW a \in Above[q]
               PROVE  disk'[a] = Directory
  BY DEF TreeOK
<1>2. a \in Paths
  BY TreeAssumption
<1>3. q \notin S /\ disk[q] # Nothing
  BY <1>1 DEF Without
<1>4. a \notin S /\ disk[a] = Directory
  BY <1>3 DEF TreeOK
<1>5. QED
  BY <1>2, <1>4 DEF Without

LEMMA SubtreeCloses ==
  ASSUME NEW p \in Paths, NEW q \in Paths, NEW a \in Above[q], a \in Subtree(p)
  PROVE  q \in Subtree(p)
BY TreeAssumption DEF Subtree

LEMMA TreeStays ==
  ASSUME TypeOK, TreeOK, [Next]_vars
  PROVE  TreeOK'
<1>1. CASE disk' = disk
  BY <1>1 DEF TreeOK
<1>2. ASSUME NEW p \in Paths, disk' = Without(Subtree(p)) PROVE TreeOK'
  BY <1>2, SubtreeCloses, RemovedTree
<1>3. CASE CallStep
  <2>1. call.path \in Paths /\ (call.at = "place" => call.fact \in File)
    BY DEF TypeOK, Job
  <2>2. CASE MakeRoom
    BY <1>2, <2>1, <2>2 DEF MakeRoom, MovedToTrash
  <2>3. CASE Place
    BY <1>1, <2>1, <2>3, PlacedTree DEF Place
  <2>4. QED
    BY <1>1, <1>3, <2>2, <2>3 DEF CallStep, Record, Mark, diskVars
<1>4. CASE RestoreStep
  <2>1. restore.path \in Paths
    BY DEF TypeOK, Job
  <2>2. CASE PutBack
    BY <1>1, <2>1, <2>2, PlacedTree DEF PutBack
  <2>3. QED
    BY <1>1, <1>4, <2>2 DEF RestoreStep, Stat, RecordRestored
<1>5. CASE SaveStep
  <2>1. ASSUME NEW p \in Paths, NEW isDir \in BOOLEAN, TakeOut(p, isDir) PROVE TreeOK'
    <3>1. CASE ~HasChild(p) /\ disk' = Without({p})
      BY <3>1, RemovedTree DEF HasChild
    <3>2. QED
      BY <1>1, <1>2, <2>1, <3>1 DEF TakeOut, MovedToTrash
  <2>2. CASE Purge
    BY <1>1, <2>1, <2>2 DEF Purge
  <2>3. QED
    BY <1>1, <1>5, <2>2 DEF SaveStep, ReadBack, SwapRules, ListLive, MarkPurged
<1>6. ASSUME NEW p \in Paths, ByHand(p) PROVE TreeOK'
  <2>1. CASE WriteByHand(p)
    BY <2>1, PlacedTree DEF WriteByHand
  <2>2. CASE Touch(p)
    <3>1. \A q \in Paths : q # p => disk'[q] = disk[q]
      BY <2>2 DEF Touch, TypeOK
    <3>2. disk[p] # Directory /\ disk[p] # Nothing
      BY <2>2, AgreeIs DEF Touch, IsFileAt
    <3>3. \A q \in Paths : Above[q] \subseteq Paths
      BY TreeAssumption
    <3>4. QED
      BY <3>1, <3>2, <3>3 DEF TreeOK
  <2>3. CASE MakeDirectory(p)
    BY <2>3, PlacedTree DEF MakeDirectory
  <2>4. CASE RemoveByHand(p)
    BY <1>2, <2>4 DEF RemoveByHand
  <2>5. QED
    BY <1>6, <2>1, <2>2, <2>3, <2>4 DEF ByHand
<1>7. CASE Load \/ JanitorStep \/ (\E p \in Paths : Look(p)) \/ WatcherStep \/ Requests \/ Crash
           \/ UNCHANGED vars
  BY <1>1, <1>7 DEF Load, JanitorStep, SetRules, List, UpsertFound, EndCompare, EndScan, PurgeTrash,
       Walk, Compare, Tombstone, ScanOnly, Look, WatcherStep, Compared, Hash, Apply, NotWatchers,
       Requests, Arrive, BeginRestore, StoreRules, Crash, vars, diskVars
<1>8. QED
  BY <1>3, <1>4, <1>5, <1>6, <1>7 DEF Next, Handlers
----------------------------------------------------------------------------
(* The steps of a scan. *)

LEMMA JanitorIs ==
  ASSUME TypeOK
  PROVE  /\ janitor \in Janitor /\ janitor.todo \subseteq Paths /\ janitor.path \in Paths
         /\ janitor.found \in [Paths -> Facts \cup {Nothing}]
         /\ janitor.known \in [Paths -> Facts \cup {Nothing}]
         /\ disk \in [Paths -> File \cup {Directory, Nothing}]
         /\ index \in [Paths -> Facts \cup {Nothing}]
         /\ \A p \in Paths : IsFileAt(p) <=> disk[p] \in File
BY DEF TypeOK, Janitor, IsFileAt

\* What is shown depends on disk and rules alone.
LEMMA ShownStays ==
  ASSUME UNCHANGED <<disk, rules>>
  PROVE  /\ \A p : Shown(p)' = Shown(p) /\ (Plain(p)' <=> Plain(p))
         /\ IndexIsDisk /\ index' = index => IndexIsDisk'
<1>1. \A p : Shown(p)' = Shown(p) /\ (Plain(p)' <=> Plain(p))
  BY DEF Shown, Reached, Skip, Plain, IsFileAt
<1>2. QED
  BY <1>1 DEF IndexIsDisk

LEMMA ShownIs ==
  ASSUME TypeOK, NEW p \in Paths
  PROVE  /\ Shown(p) \in File \cup {Directory, Nothing}
         /\ Shown(p) \in File => Shown(p) = disk[p] /\ IsFileAt(p)
         /\ Shown(p) = Directory <=> Reached(p) /\ ~Skip(p, TRUE) /\ disk[p] = Directory
<1>1. disk[p] \in File \cup {Directory, Nothing}
  BY DEF TypeOK
<1>2. (disk[p] = Directory) \in BOOLEAN
  OBVIOUS
<1>3. QED
  BY <1>1, AgreeIs DEF Shown, IsFileAt

\* The walk comes to a directory before it comes to what is in it.
LEMMA WalkShows ==
  ASSUME TypeOK, NEW p \in Paths, First(p), Seen(Paths \ janitor.todo)
  PROVE  (IF Visible(p) THEN disk[p] ELSE Nothing) = Shown(p)
<1>1. ASSUME NEW a \in Above[p]
      PROVE  a \in Paths /\ Above[a] \subseteq Above[p] /\ (janitor.found[a] = Directory <=> Shown(a) = Directory)
  <2>1. a \in Paths /\ Above[a] \subseteq Above[p] /\ Order[a] < Order[p] /\ Order[a] \in Nat /\ Order[p] \in Nat
    BY TreeAssumption
  <2>2. a \notin janitor.todo
    BY <2>1 DEF First
  <2>3. Agree(Shown(a), janitor.found[a])
    BY <2>1, <2>2 DEF Seen
  <2>4. Shown(a) \in File => janitor.found[a] \in File
    BY <2>3, AgreeIs
  <2>5. QED
    BY <2>1, <2>3, <2>4, AgreeIs
<1>2. Entered(p) <=> Reached(p)
  <2>1. Entered(p) <=> \A a \in Above[p] : Shown(a) = Directory
    BY <1>1 DEF Entered
  <2>2. \A a \in Above[p] : Shown(a) = Directory <=> Reached(a) /\ ~Skip(a, TRUE) /\ disk[a] = Directory
    BY <1>1, ShownIs
  <2>3. QED
    BY <1>1, <2>1, <2>2 DEF Reached
<1>3. QED
  BY <1>2 DEF Visible, Shown

\* While it is compared, a path stands as the walk found it.
LEMMA Standing ==
  ASSUME TypeOK, NEW p \in Paths, Agree(Shown(p), janitor.found[p])
  PROVE  /\ janitor.found[p] = Directory <=> Shown(p) = Directory
         /\ janitor.found[p] = Nothing <=> Shown(p) = Nothing
         /\ janitor.found[p] \in File <=> Shown(p) \in File
         /\ janitor.found[p] \in File =>
              /\ IsFileAt(p) /\ Shown(p) = disk[p] /\ disk[p].content = janitor.found[p].content
         /\ janitor.found[p] \in File \cup {Directory, Nothing}
<1>1. CASE Shown(p) \in File
  <2>1. janitor.found[p] \in File /\ Shown(p).content = janitor.found[p].content
    BY <1>1, AgreeIs
  <2>2. Shown(p) = disk[p] /\ IsFileAt(p)
    BY <1>1, ShownIs
  <2>3. QED
    BY <1>1, <2>1, <2>2, AgreeIs
<1>2. CASE Shown(p) \notin File
  <2>1. janitor.found[p] = Shown(p)
    BY <1>2, AgreeIs
  <2>2. Shown(p) \in {Directory, Nothing}
    BY <1>2, ShownIs
  <2>3. QED
    BY <1>2, <2>1, <2>2
<1>3. QED
  BY <1>1, <1>2

LEMMA WalkScans ==
  ASSUME TypeOK, StampsTell, ScanInv, NEW p \in Paths, Walk(p)
  PROVE  ScanInv'
<1>1. /\ janitor' = [janitor EXCEPT !.todo = @ \ {p},
                       !.found[p] = IF Visible(p) THEN disk[p] ELSE Nothing]
      /\ JanitorAt("walk") /\ First(p) /\ p \in janitor.todo
  BY DEF Walk, First
<1>2. UNCHANGED <<index, disk, rules, calm, call, restore, save, timers, apply>>
  BY DEF Walk, ScanOnly, NotJanitors
<1>3. ASSUME Seen(Paths \ janitor.todo)
      PROVE  /\ janitor'.found[p] = Shown(p)
             /\ \A q \in Paths : q # p => janitor'.found[q] = janitor.found[q]
             /\ Seen(Paths \ janitor.todo)'
             /\ janitor'.at = "walk" /\ janitor'.todo = janitor.todo \ {p}
  <2>1. /\ janitor'.found[p] = Shown(p)
        /\ \A q \in Paths : q # p => janitor'.found[q] = janitor.found[q]
        /\ janitor'.at = "walk" /\ janitor'.todo = janitor.todo \ {p}
    BY <1>1, <1>3, WalkShows, JanitorIs DEF JanitorAt, Janitor
  <2>2. ASSUME NEW q \in Paths \ janitor'.todo PROVE Agree(Shown(q)', janitor'.found[q])
    <3>1. Agree(Shown(q), janitor'.found[q])
      BY <1>3, <2>1, <2>2 DEF Seen, Agree
    <3>2. QED
      BY <1>2, <3>1, ShownStays DEF Agree
  <2>3. QED
    BY <2>1, <2>2 DEF Seen, Agree
<1>4. CASE calm = "scanning"
  <2>1. Seen(Paths \ janitor.todo) /\ \A q \in Paths \ janitor.todo : Tells(janitor.found[q], index[q])
    BY <1>1, <1>4 DEF ScanInv, Scanning
  <2>2. Tells(Shown(p), index[p])
    BY ShownIs DEF StampsTell, Tells
  <2>3. \A q \in Paths \ janitor'.todo : Tells(janitor'.found[q], index'[q])
    BY <1>2, <1>3, <2>1, <2>2
  <2>4. Scanning'
    BY <1>3, <2>1, <2>3 DEF Scanning, JanitorAt, Tells
  <2>5. QED
    BY <1>2, <1>4, <2>4 DEF ScanInv
<1>5. CASE calm = "settled"
  <2>1. Seen(Paths \ janitor.todo) /\ IndexIsDisk /\ OnlyTouched
    BY <1>1, <1>5 DEF ScanInv, Rescanning
  <2>2. Rescanning'
    BY <1>3, <2>1 DEF Rescanning, JanitorAt
  <2>3. IndexIsDisk' /\ OnlyTouched'
    BY <1>2, <2>1, ShownStays, JanitorIs DEF OnlyTouched
  <2>4. QED
    BY <1>2, <1>5, <2>2, <2>3 DEF ScanInv
<1>6. QED
  BY <1>2, <1>4, <1>5 DEF ScanInv
\* What the comparison of one path with its row may do.
LEMMA CompareIs ==
  ASSUME TypeOK, NEW p \in Paths, Compare(p)
  PROVE  /\ JanitorAt("compare") /\ p \in janitor.todo
         /\ UNCHANGED <<index, disk, rules, calm, call, restore, save, timers, apply>>
         /\ \/ /\ janitor' = [janitor EXCEPT !.todo = @ \ {p}]
               /\ \/ janitor.found[p] = Nothing
                  \/ QuickCheck(janitor.found[p], janitor.known[p])
                  \/ /\ janitor.found[p] \in File
                     /\ ~IsFileAt(p) \/ SameContent(disk[p].content, janitor.known[p])
            \/ \E facts \in Facts :
                 /\ janitor' = [janitor EXCEPT !.at = "upsert", !.todo = @ \ {p}, !.path = p,
                                               !.found[p] = facts]
                 /\ ~QuickCheck(janitor.found[p], janitor.known[p])
                 /\ \/ facts = Directory /\ janitor.found[p] = Directory
                    \/ /\ janitor.found[p] \in File /\ IsFileAt(p)
                       /\ ~SameContent(disk[p].content, janitor.known[p])
                       /\ facts = [content |-> disk[p].content, stamp |-> janitor.found[p].stamp]
<1>1. /\ JanitorAt("compare") /\ p \in janitor.todo
      /\ UNCHANGED <<index, disk, rules, calm, call, restore, save, timers, apply>>
  BY DEF Compare, ScanOnly, NotJanitors
<1>2. Directory \in Facts
  BY DEF Facts
<1>3. ASSUME janitor.found[p] \in File, IsFileAt(p)
      PROVE  [content |-> disk[p].content, stamp |-> janitor.found[p].stamp] \in Facts
  BY <1>3 DEF IsFileAt, File, Facts
<1>4. QED
  BY <1>1, <1>2, <1>3 DEF Compare

LEMMA CompareScans ==
  ASSUME TypeOK, ScanInv, NEW p \in Paths, Compare(p), calm = "scanning"
  PROVE  Scanning'
<1>1. /\ JanitorAt("compare") /\ p \in janitor.todo
      /\ UNCHANGED <<index, disk, rules, calm>>
  BY CompareIs
<1>2. Compares /\ Ahead = janitor.todo
  BY <1>1 DEF ScanInv, Scanning, Ahead, JanitorAt
<1>3. Agree(Shown(p), janitor.found[p]) /\ Tells(janitor.found[p], janitor.known[p])
      /\ index[p] = janitor.known[p]
  BY <1>1, <1>2 DEF Compares, Seen
<1>4. CASE /\ janitor' = [janitor EXCEPT !.todo = @ \ {p}]
           /\ \/ janitor.found[p] = Nothing
              \/ QuickCheck(janitor.found[p], janitor.known[p])
              \/ /\ janitor.found[p] \in File
                 /\ ~IsFileAt(p) \/ SameContent(disk[p].content, janitor.known[p])
  <2>1. /\ janitor'.at = "compare" /\ janitor'.todo = janitor.todo \ {p}
        /\ janitor'.found = janitor.found /\ janitor'.known = janitor.known
    BY <1>1, <1>4, JanitorIs DEF Janitor, JanitorAt
  <2>2. janitor.found[p] # Nothing => Agree(Shown(p), index[p])
    <3>1. CASE janitor.found[p] \in File
      <4>1. Shown(p) = disk[p] /\ disk[p] \in File /\ IsFileAt(p) /\ disk[p].content = janitor.found[p].content
        BY <1>3, <3>1, Standing DEF IsFileAt
      <4>2. index[p] \in File /\ index[p].content = disk[p].content
        BY <1>3, <1>4, <3>1, <4>1, AgreeIs DEF QuickCheck, SameContent, Tells
      <4>3. QED
        BY <4>1, <4>2 DEF Agree
    <3>2. CASE janitor.found[p] = Directory
      BY <1>3, <1>4, <3>2, Standing, AgreeIs DEF QuickCheck, Agree
    <3>3. QED
      BY <1>3, <3>1, <3>2, Standing
  <2>3. Ahead' = janitor.todo \ {p}
    BY <2>1 DEF Ahead, JanitorAt
  <2>4. ASSUME NEW q \in Paths
        PROVE  /\ Agree(Shown(q), janitor.found[q])
               /\ Tells(janitor.found[q], janitor.known[q])
               /\ q \in janitor.todo \ {p} \/ janitor.found[q] = Nothing => index[q] = janitor.known[q]
               /\ q \notin janitor.todo \ {p} /\ janitor.found[q] # Nothing => Agree(Shown(q), index[q])
    BY <1>2, <1>3, <2>2 DEF Compares, Seen
  <2>5. Compares'
    BY <1>1, <2>1, <2>3, <2>4, ShownStays DEF Compares, Seen, JanitorAt, Agree, Tells
  <2>6. QED
    BY <2>1, <2>5 DEF Scanning, JanitorAt
<1>5. ASSUME NEW facts \in Facts,
             janitor' = [janitor EXCEPT !.at = "upsert", !.todo = @ \ {p}, !.path = p, !.found[p] = facts],
             ~QuickCheck(janitor.found[p], janitor.known[p]),
             \/ facts = Directory /\ janitor.found[p] = Directory
             \/ /\ janitor.found[p] \in File /\ IsFileAt(p)
                /\ facts = [content |-> disk[p].content, stamp |-> janitor.found[p].stamp]
      PROVE  Scanning'
  <2>1. /\ janitor'.at = "upsert" /\ janitor'.todo = janitor.todo \ {p} /\ janitor'.path = p
        /\ janitor'.found[p] = facts /\ janitor'.known = janitor.known
        /\ \A q \in Paths : q # p => janitor'.found[q] = janitor.found[q]
    BY <1>5, JanitorIs DEF Janitor
  <2>2. /\ facts # Nothing /\ Agree(Shown(p), facts) /\ Tells(facts, janitor.known[p])
    <3>1. CASE facts = Directory /\ janitor.found[p] = Directory
      BY <1>3, <3>1, AgreeIs DEF Tells
    <3>2. CASE /\ janitor.found[p] \in File /\ IsFileAt(p)
               /\ facts = [content |-> disk[p].content, stamp |-> janitor.found[p].stamp]
      <4>1. facts \in File /\ facts.content = disk[p].content /\ facts.stamp = janitor.found[p].stamp
        BY <3>2 DEF File, IsFileAt
      <4>2. Shown(p) = disk[p] /\ disk[p] \in File
        BY <1>3, <3>2, Standing DEF IsFileAt
      <4>3. janitor.known[p] \in File => janitor.found[p].stamp # janitor.known[p].stamp
        BY <1>5, <3>2 DEF QuickCheck
      <4>4. QED
        BY <4>1, <4>2, <4>3, AgreeIs DEF Tells
    <3>3. QED
      BY <1>5, <3>1, <3>2
  <2>3. Ahead' = (janitor.todo \ {p}) \cup {p}
    BY <2>1 DEF Ahead, JanitorAt
  <2>4. ASSUME NEW q \in Paths
        PROVE  /\ Agree(Shown(q), janitor'.found[q])
               /\ Tells(janitor'.found[q], janitor.known[q])
               /\ q \in Ahead' \/ janitor'.found[q] = Nothing => index[q] = janitor.known[q]
               /\ q \notin Ahead' /\ janitor'.found[q] # Nothing => Agree(Shown(q), index[q])
    <3>1. CASE q = p
      BY <1>3, <2>1, <2>2, <2>3, <3>1
    <3>2. CASE q # p
      BY <1>2, <2>1, <2>3, <3>2 DEF Compares, Seen
    <3>3. QED
      BY <3>1, <3>2
  <2>5. Seen(Paths)'
    BY <1>1, <2>4, ShownStays DEF Seen, Agree
  <2>6. Compares'
    BY <1>1, <2>1, <2>2, <2>4, <2>5, ShownStays DEF Compares, JanitorAt, Agree, Tells
  <2>7. QED
    BY <2>1, <2>6 DEF Scanning, JanitorAt
<1>6. QED
  BY <1>4, <1>5, CompareIs
LEMMA CompareRescans ==
  ASSUME TypeOK, ScanInv, NEW p \in Paths, Compare(p), calm = "settled"
  PROVE  Rescanning' /\ UNCHANGED <<index, disk, rules, call, restore, save, timers, apply>>
<1>1. /\ JanitorAt("compare") /\ p \in janitor.todo
      /\ UNCHANGED <<index, disk, rules, calm, call, restore, save, timers, apply>>
  BY CompareIs
<1>2. Seen(Paths) /\ janitor.known = index /\ IndexIsDisk
  BY <1>1, <1>1 DEF ScanInv, Rescanning
<1>3. Agree(Shown(p), janitor.found[p]) /\ Agree(Shown(p), index[p])
  BY <1>2 DEF Seen, IndexIsDisk
<1>4. ~(/\ ~QuickCheck(janitor.found[p], janitor.known[p])
        /\ \/ janitor.found[p] = Directory
           \/ /\ janitor.found[p] \in File /\ IsFileAt(p)
              /\ ~SameContent(disk[p].content, janitor.known[p]))
  <2>1. CASE janitor.found[p] = Directory
    BY <1>2, <1>3, <2>1, Standing, AgreeIs DEF QuickCheck
  <2>2. CASE janitor.found[p] \in File
    <3>1. Shown(p) = disk[p] /\ Shown(p) \in File
      BY <1>3, <2>2, Standing
    <3>2. index[p] \in File /\ index[p].content = disk[p].content
      BY <1>3, <3>1, AgreeIs
    <3>3. QED
      BY <1>2, <2>2, <3>2, AgreeIs DEF SameContent
  <2>3. QED
    BY <2>1, <2>2
<1>5. janitor' = [janitor EXCEPT !.todo = @ \ {p}]
  BY <1>4, CompareIs
<1>6. janitor'.at = "compare" /\ janitor'.found = janitor.found /\ janitor'.known = janitor.known
  BY <1>1, <1>5, JanitorIs DEF Janitor, JanitorAt
<1>7. Seen(Paths)'
  BY <1>1, <1>2, <1>6, ShownStays DEF Seen, Agree
<1>8. QED
  BY <1>1, <1>2, <1>6, <1>7 DEF Rescanning, JanitorAt

\* All else that the janitor does.
LEMMA JanitorScans ==
  ASSUME TypeOK, StampsTell, ScanInv, Load \/ JanitorStep
  PROVE  ScanInv' /\ (calm = "settled" => index' = index)
<1>1. UNCHANGED <<disk, call, restore, save, timers, apply>>
  BY DEF Load, JanitorStep, SetRules, List, UpsertFound, EndCompare, EndScan, PurgeTrash,
         Walk, Compare, Tombstone, ScanOnly, NotJanitors
<1>2. ASSUME rules' = rules, index' = index, calm' = calm,
             calm = "settled" => Rescanning', calm = "scanning" => Scanning'
      PROVE  ScanInv' /\ (calm = "settled" => index' = index)
  BY <1>1, <1>2, ShownStays DEF ScanInv, OnlyTouched
<1>3. CASE Load
  <2>1. janitor'.at = "set" /\ calm # "scanning"
    BY <1>3, JanitorIs DEF Load, Janitor, ScanInv, Scanning
  <2>2. QED
    BY <1>2, <1>3, <2>1 DEF Load, ScanOnly, Rescanning, JanitorAt
<1>4. CASE SetRules
  <2>1. janitor'.at = "walk" /\ janitor'.todo = Paths /\ UNCHANGED index
    BY <1>4 DEF SetRules, NoScan
  <2>2. Scanning' /\ Rescanning'
    BY <2>1 DEF Scanning, Rescanning, JanitorAt, Seen
  <2>3. CASE calm' = "settled"
    <3>1. calm = "settled" /\ rules' = rules /\ calm' = calm
      BY <1>4, <2>3 DEF SetRules
    <3>2. QED
      BY <1>2, <2>1, <2>2, <3>1
  <2>4. CASE calm' # "settled"
    BY <2>1, <2>2, <2>4 DEF ScanInv
  <2>5. QED
    BY <2>3, <2>4
<1>5. ASSUME NEW p \in Paths, Walk(p) PROVE ScanInv' /\ index' = index
  BY <1>5, WalkScans DEF Walk
<1>6. CASE List
  <2>1. /\ janitor.at = "walk" /\ janitor.todo = {}
        /\ janitor'.at = "compare" /\ janitor'.todo = Paths
        /\ janitor'.known = index /\ janitor'.found = janitor.found
        /\ UNCHANGED <<index, rules, calm>>
    BY <1>6, JanitorIs DEF List, Janitor, JanitorAt, ScanOnly
  <2>2. \A p : Shown(p)' = Shown(p)
    BY <1>1, <2>1, ShownStays
  <2>3. ASSUME calm = "scanning" PROVE Scanning'
    <3>1. Seen(Paths) /\ \A p \in Paths : Tells(janitor.found[p], index[p])
      BY <2>1, <2>3 DEF ScanInv, Scanning, JanitorAt
    <3>2. Seen(Paths)'
      BY <2>1, <2>2, <3>1 DEF Seen, Agree
    <3>3. Ahead' = Paths
      BY <2>1 DEF Ahead, JanitorAt
    <3>4. Compares'
      BY <2>1, <3>1, <3>2, <3>3 DEF Compares, JanitorAt, Tells
    <3>5. QED
      BY <2>1, <3>4 DEF Scanning, JanitorAt
  <2>4. ASSUME calm = "settled" PROVE Rescanning'
    <3>1. Seen(Paths)
      BY <2>1, <2>4 DEF ScanInv, Rescanning, JanitorAt
    <3>2. Seen(Paths)'
      BY <2>1, <2>2, <3>1 DEF Seen, Agree
    <3>3. QED
      BY <2>1, <3>2 DEF Rescanning, JanitorAt
  <2>5. QED
    BY <1>2, <2>1, <2>3, <2>4
<1>7. ASSUME NEW p \in Paths, Compare(p) PROVE ScanInv' /\ index' = index
  <2>1. rules' = rules /\ index' = index /\ calm' = calm
    BY <1>7, CompareIs
  <2>2. QED
    BY <1>2, <1>7, <2>1, CompareScans, CompareRescans
<1>8. CASE UpsertFound
  <2>1. /\ janitor.at = "upsert" /\ index' = [index EXCEPT ![janitor.path] = janitor.found[janitor.path]]
        /\ janitor'.at = "compare" /\ janitor'.todo = janitor.todo
        /\ janitor'.known = janitor.known /\ janitor'.found = janitor.found
        /\ UNCHANGED <<rules, calm>>
    BY <1>8, JanitorIs DEF UpsertFound, Upsert, Janitor, JanitorAt, ScanOnly
  <2>2. calm # "settled"
    BY <2>1 DEF ScanInv, Rescanning, JanitorAt
  <2>3. ASSUME calm = "scanning" PROVE Scanning'
    <3>1. Compares /\ Ahead = janitor.todo \cup {janitor.path}
          /\ janitor.path \notin janitor.todo /\ janitor.found[janitor.path] # Nothing
      BY <2>1, <2>3 DEF ScanInv, Scanning, Compares, Ahead, JanitorAt
    <3>2. Ahead' = janitor.todo
      BY <2>1 DEF Ahead, JanitorAt
    <3>3. ASSUME NEW q \in Paths
          PROVE  /\ Agree(Shown(q), janitor.found[q])
                 /\ Tells(janitor.found[q], janitor.known[q])
                 /\ q \in janitor.todo \/ janitor.found[q] = Nothing => index'[q] = janitor.known[q]
                 /\ q \notin janitor.todo /\ janitor.found[q] # Nothing => Agree(Shown(q), index'[q])
      <4>1. index'[q] = IF q = janitor.path THEN janitor.found[q] ELSE index[q]
        BY <2>1, JanitorIs
      <4>2. QED
        BY <3>1, <4>1 DEF Compares, Seen
    <3>4. \A q : Shown(q)' = Shown(q)
      BY <1>1, <2>1, ShownStays
    <3>5. Compares'
      BY <2>1, <3>2, <3>3, <3>4 DEF Compares, Seen, JanitorAt, Agree, Tells
    <3>6. QED
      BY <2>1, <3>5 DEF Scanning, JanitorAt
  <2>4. QED
    BY <2>1, <2>2, <2>3 DEF ScanInv
<1>9. CASE EndCompare
  <2>1. /\ janitor.at = "compare" /\ janitor.todo = {}
        /\ janitor'.at = "delete" /\ janitor'.todo = Missing
        /\ UNCHANGED <<index, rules, calm>>
    BY <1>9, JanitorIs DEF EndCompare, Janitor, JanitorAt, ScanOnly
  <2>2. \A p : Shown(p)' = Shown(p)
    BY <1>1, <2>1, ShownStays
  <2>3. ASSUME calm = "scanning" PROVE Scanning'
    <3>1. Compares /\ Ahead = {}
      BY <2>1, <2>3 DEF ScanInv, Scanning, Ahead, JanitorAt
    <3>2. ASSUME NEW p \in Paths
          PROVE  IF p \in Missing THEN Shown(p) = Nothing ELSE Agree(Shown(p), index[p])
      <4>1. /\ Agree(Shown(p), janitor.found[p])
            /\ janitor.found[p] = Nothing => index[p] = janitor.known[p]
            /\ janitor.found[p] # Nothing => Agree(Shown(p), index[p])
        BY <3>1 DEF Compares, Seen
      <4>2. janitor.found[p] = Nothing => Shown(p) = Nothing
        BY <4>1, Standing
      <4>3. QED
        BY <4>1, <4>2 DEF Missing, Agree
    <3>3. QED
      BY <2>1, <2>2, <3>2 DEF Scanning, JanitorAt, Agree
  <2>4. ASSUME calm = "settled" PROVE Rescanning'
    <3>1. Seen(Paths) /\ janitor.known = index /\ IndexIsDisk
      BY <2>1, <2>4 DEF ScanInv, Rescanning, JanitorAt
    <3>2. ASSUME NEW p \in Missing PROVE FALSE
      <4>1. p \in Paths /\ janitor.found[p] = Nothing /\ index[p] # Nothing
        BY <3>1, <3>2 DEF Missing
      <4>2. Shown(p) = Nothing
        BY <3>1, <4>1, Standing DEF Seen
      <4>3. QED
        BY <3>1, <4>1, <4>2, AgreeIs DEF IndexIsDisk
    <3>3. QED
      BY <2>1, <3>2 DEF Rescanning, JanitorAt
  <2>5. QED
    BY <1>2, <2>1, <2>3, <2>4
<1>10. ASSUME NEW p \in Paths, Tombstone(p)
       PROVE  ScanInv' /\ (calm = "settled" => index' = index)
  <2>1. /\ janitor.at = "delete" /\ p \in janitor.todo /\ index' = [index EXCEPT ![p] = Nothing]
        /\ janitor'.at = "delete" /\ janitor'.todo = janitor.todo \ {p}
        /\ UNCHANGED <<rules, calm>>
    BY <1>10, JanitorIs DEF Tombstone, MarkDeleted, Janitor, JanitorAt, ScanOnly
  <2>2. calm # "settled"
    BY <2>1 DEF ScanInv, Rescanning, JanitorAt
  <2>3. ASSUME calm = "scanning" PROVE Scanning'
    <3>1. \A q \in Paths :
            IF q \in janitor.todo THEN Shown(q) = Nothing ELSE Agree(Shown(q), index[q])
      BY <2>1, <2>3 DEF ScanInv, Scanning, JanitorAt
    <3>2. \A q \in Paths : index'[q] = IF q = p THEN Nothing ELSE index[q]
      BY <2>1, JanitorIs
    <3>3. \A q : Shown(q)' = Shown(q)
      BY <1>1, <2>1, ShownStays
    <3>4. QED
      BY <2>1, <3>1, <3>2, <3>3 DEF Scanning, JanitorAt, Agree
  <2>4. QED
    BY <2>1, <2>2, <2>3 DEF ScanInv
<1>11. CASE EndScan
  <2>1. /\ janitor.at = "delete" /\ janitor.todo = {} /\ janitor'.at \in {"purge", "idle"}
        /\ UNCHANGED <<index, rules>>
        /\ calm' = IF calm # "no" /\ NobodyElse THEN "settled" ELSE "no"
    BY <1>11 DEF EndScan, JanitorAt, NoScan
  <2>2. Rescanning'
    BY <2>1 DEF Rescanning, JanitorAt
  <2>3. ASSUME calm # "no" PROVE IndexIsDisk
    <3>1. calm \in {"scanning", "settled"}
      BY <2>3 DEF TypeOK
    <3>2. QED
      BY <2>1, <3>1 DEF ScanInv, Scanning, JanitorAt, IndexIsDisk
  <2>4. NobodyElse => OnlyTouched'
    BY <1>1 DEF NobodyElse, OnlyTouched
  <2>5. QED
    BY <1>1, <2>1, <2>2, <2>3, <2>4, ShownStays DEF ScanInv
<1>12. CASE PurgeTrash
  <2>1. janitor.at = "purge" /\ janitor'.at = "idle" /\ UNCHANGED <<index, rules, calm>>
    BY <1>12 DEF PurgeTrash, JanitorAt, NoScan
  <2>2. calm # "scanning" /\ Rescanning'
    BY <2>1 DEF ScanInv, Scanning, Rescanning, JanitorAt
  <2>3. QED
    BY <1>2, <2>1, <2>2
<1>13. QED
  BY <1>3, <1>4, <1>5, <1>6, <1>7, <1>8, <1>9, <1>10, <1>11, <1>12 DEF JanitorStep
\* A file that no rule leaves out is shown: the directories it is in are no
\* more left out than it is.
LEMMA PlainShows ==
  ASSUME TypeOK, TreeOK, FilesGoAlong, NEW p \in Paths, Plain(p)
  PROVE  Shown(p) = disk[p] /\ disk[p] \in File
<1>1. disk[p] \in File /\ disk[p] # Nothing /\ disk[p] # Directory /\ rules \in Rules
  BY AgreeIs DEF Plain, IsFileAt, TypeOK
<1>2. \A a \in Above[p] : disk[a] = Directory /\ ~Skip(a, TRUE)
  BY <1>1 DEF TreeOK, FilesGoAlong, Plain, Skip
<1>3. (disk[p] = Directory) = FALSE
  BY <1>1
<1>4. Skip(p, disk[p] = Directory) = Skip(p, FALSE)
  BY <1>3
<1>5. QED
  BY <1>1, <1>2, <1>4 DEF Shown, Reached, Plain

LEMMA WatcherScans ==
  ASSUME TypeOK, TreeOK, FilesGoAlong, ScanInv, (\E p \in Paths : Look(p)) \/ WatcherStep
  PROVE  ScanInv' /\ (calm = "settled" => index' = index)
<1>1. /\ UNCHANGED <<disk, rules, janitor, call, restore, save>> /\ timers' \subseteq timers
      /\ calm' = calm \/ calm' = "no"
  BY DEF Look, WatcherStep, Compared, Hash, Apply, NotWatchers, ruleVars, diskVars
<1>2. ASSUME calm = "settled"
      PROVE  index' = index /\ OnlyTouched'
  <2>1. OnlyTouched /\ IndexIsDisk /\ apply.path \in Paths
    BY <1>2 DEF ScanInv, TypeOK, Job
  <2>2. \A p : Plain(p)' <=> Plain(p)
    BY <1>1, ShownStays
  <2>3. ASSUME index' = index,
               apply' # Resting =>
                 /\ Plain(apply'.path) /\ apply'.at \in {"lookup", "hash"} /\ apply'.fact \in File
                 /\ apply'.at = "hash" => apply'.known = index[apply'.path]
        PROVE  index' = index /\ OnlyTouched'
    BY <1>1, <2>1, <2>2, <2>3 DEF OnlyTouched
  <2>4. ASSUME NEW p \in Paths, Look(p) PROVE index' = index /\ OnlyTouched'
    <3>1. Plain(p) /\ disk[p] \in File
      BY <2>1, <2>4 DEF Look, OnlyTouched, Plain, IsFileAt
    <3>2. QED
      BY <2>3, <2>4, <3>1 DEF Look
  <2>5. CASE Compared
    <3>1. apply # Resting /\ apply.fact \in File /\ Plain(apply.path)
      BY <2>1, <2>5 DEF Compared, Resting, OnlyTouched
    <3>2. apply.fact # Nothing /\ apply.fact # Directory
      BY <3>1, AgreeIs
    <3>3. apply' = Resting \/ apply' = [apply EXCEPT !.known = index[apply.path], !.at = "hash"]
      BY <2>5, <3>2 DEF Compared
    <3>4. apply \in [at : {"lookup", "hash", "write", "mark", "idle"}, path : Paths,
                     fact : Facts \cup {Nothing}, known : Facts \cup {Nothing}]
      BY DEF TypeOK, Job
    <3>5. QED
      BY <2>3, <2>5, <3>1, <3>3, <3>4 DEF Compared
  <2>6. CASE Hash
    <3>1. apply # Resting /\ Plain(apply.path) /\ apply.known = index[apply.path]
      BY <2>1, <2>6 DEF Hash, Resting, OnlyTouched
    <3>2. Shown(apply.path) = disk[apply.path] /\ disk[apply.path] \in File
      BY <2>1, <3>1, PlainShows
    <3>3. index[apply.path] \in File /\ index[apply.path].content = disk[apply.path].content
      BY <2>1, <3>2, AgreeIs DEF IndexIsDisk
    <3>4. apply' = Resting
      BY <2>6, <3>1, <3>3 DEF Hash, SameContent
    <3>5. QED
      BY <2>3, <2>6, <3>4 DEF Hash
  <2>7. ~Apply
    BY <2>1 DEF Apply, OnlyTouched, Resting
  <2>8. QED
    BY <2>4, <2>5, <2>6, <2>7 DEF WatcherStep
<1>3. CASE calm' = "no"
  BY <1>2, <1>3 DEF ScanInv
<1>4. CASE calm' = calm /\ calm = "settled"
  BY <1>1, <1>2, <1>4, ShownStays DEF ScanInv, Rescanning, JanitorAt, Seen, Agree
<1>5. CASE calm' = calm /\ calm = "scanning"
  <2>1. index' = index
    BY <1>4, <1>5 DEF Look, WatcherStep, Compared, Hash, Apply
  <2>2. \A p : Shown(p)' = Shown(p)
    BY <1>1, ShownStays
  <2>3. QED
    BY <1>1, <1>5, <2>1, <2>2
       DEF ScanInv, Scanning, Compares, Seen, Ahead, JanitorAt, Tells, Agree
<1>6. QED
  BY <1>1, <1>2, <1>3, <1>4, <1>5 DEF TypeOK

\* A touch changes nothing that is compared by content.
LEMMA TouchScans ==
  ASSUME TypeOK, TypeOK', ScanInv, NEW p \in Paths, Touch(p)
  PROVE  ScanInv' /\ index' = index
<1>1. /\ UNCHANGED <<index, rules, janitor, apply, call, restore, save, calm>>
      /\ disk[p] \in File /\ disk' = [disk EXCEPT ![p] = [disk[p] EXCEPT !.stamp = stamps']]
  BY DEF Touch, NotByHand, ruleVars, IsFileAt
<1>2. /\ disk'[p] \in File /\ disk'[p].content = disk[p].content
      /\ \A q \in Paths : q # p => disk'[q] = disk[q]
  <2>1. \A q \in Paths : disk'[q] = IF q = p THEN [disk[p] EXCEPT !.stamp = stamps'] ELSE disk[q]
    BY <1>1, JanitorIs
  <2>2. stamps' \in Stamps
    BY BoundsAssumption DEF Touch, TypeOK, Stamps
  <2>3. QED
    BY <1>1, <2>1, <2>2 DEF File
<1>3. \A q \in Paths : (disk'[q] = Directory <=> disk[q] = Directory) /\ Above[q] \subseteq Paths
  BY <1>1, <1>2, TreeAssumption, AgreeIs
<1>4. ASSUME NEW q \in Paths
      PROVE  /\ q # p => Shown(q)' = Shown(q)
             /\ Shown(q) = Nothing => Shown(q)' = Nothing
             /\ Shown(q) \in File => Shown(q)' \in File /\ Shown(q)'.content = Shown(q).content
             /\ Shown(q) \notin File => Shown(q)' = Shown(q)
  <2>1. Reached(q)' <=> Reached(q)
    BY <1>1, <1>3 DEF Reached, Skip
  <2>2. Skip(q, disk[q] = Directory)' <=> Skip(q, disk[q] = Directory)
    <3>1. (disk'[q] = Directory) = (disk[q] = Directory)
      BY <1>3
    <3>2. QED
      BY <1>1, <3>1 DEF Skip
  <2>3. Shown(q)' = IF Reached(q) /\ ~Skip(q, disk[q] = Directory) THEN disk'[q] ELSE Nothing
    BY <2>1, <2>2 DEF Shown
  <2>4. QED
    BY <1>1, <1>2, <2>3, AgreeIs DEF Shown
<1>5. ASSUME NEW q \in Paths, NEW x, Agree(Shown(q), x) PROVE Agree(Shown(q)', x)
  BY <1>4, <1>5, AgreeIs
<1>6. ASSUME calm = "scanning" PROVE Scanning'
  <2>1. Scanning
    BY <1>6 DEF ScanInv
  <2>2. \A S \in SUBSET Paths : Seen(S) => Seen(S)'
    BY <1>1, <1>5 DEF Seen, Agree
  <2>3. JanitorAt("walk") => Scanning'
    BY <1>1, <2>1, <2>2 DEF Scanning, JanitorAt, Tells
  <2>4. ASSUME janitor.at \in {"compare", "upsert"} PROVE Scanning'
    <3>1. Compares
      BY <2>1, <2>4 DEF Scanning
    <3>2. Seen(Paths)'
      BY <2>2, <3>1 DEF Compares
    <3>3. Compares'
      BY <1>1, <1>5, <3>1, <3>2 DEF Compares, Ahead, JanitorAt, Tells, Agree
    <3>4. QED
      BY <1>1, <2>4, <3>3 DEF Scanning, JanitorAt
  <2>5. JanitorAt("delete") => Scanning'
    BY <1>1, <1>4, <1>5, <2>1 DEF Scanning, JanitorAt, Agree
  <2>6. QED
    BY <2>1, <2>3, <2>4, <2>5 DEF Scanning, JanitorAt
<1>7. ASSUME calm = "settled" PROVE IndexIsDisk' /\ Rescanning' /\ OnlyTouched'
  <2>1. IndexIsDisk /\ Rescanning /\ OnlyTouched
    BY <1>7 DEF ScanInv
  <2>2. IndexIsDisk'
    BY <1>1, <1>5, <2>1 DEF IndexIsDisk, Agree
  <2>3. Rescanning'
    BY <1>1, <1>5, <2>1 DEF Rescanning, Seen, JanitorAt, Agree
  <2>4. \A q \in Paths : Plain(q) => Plain(q)'
    BY <1>1, <1>2 DEF Plain, IsFileAt, Skip
  <2>5. \A q \in timers' : q \in timers \/ (q = p /\ ~Skip(p, FALSE))
    <3>1. (disk'[p] = Directory) = FALSE
      BY <1>2, AgreeIs
    <3>2. Noticed({p})
      BY DEF Touch
    <3>3. QED
      BY <3>1, <3>2 DEF Noticed
  <2>6. timers \subseteq Paths /\ apply.path \in Paths
    BY DEF TypeOK, Job
  <2>7. \A q \in timers' : Plain(q)'
    BY <1>1, <1>2, <2>1, <2>4, <2>5, <2>6 DEF OnlyTouched, Plain, IsFileAt, Skip
  <2>8. OnlyTouched'
    BY <1>1, <2>1, <2>4, <2>6, <2>7 DEF OnlyTouched
  <2>9. QED
    BY <2>2, <2>3, <2>8
<1>8. QED
  BY <1>1, <1>6, <1>7 DEF ScanInv

\* What a request, a handler, a hand or a crash does disturbs, or nothing
\* that is compared has changed; and no handler is at work when all is settled.
LEMMA OthersScan ==
  ASSUME TypeOK, ScanInv, Requests \/ Handlers \/ Crash
  PROVE  ScanInv' /\ (calm = "settled" /\ calm' = "settled" => index' = index)
<1>1. ASSUME calm' # "no"
      PROVE  /\ Stat \/ ReadBack \/ ListLive \/ Purge
             /\ UNCHANGED <<index, disk, rules, janitor, calm>>
  BY <1>1 DEF Requests, Arrive, BeginRestore, StoreRules, Handlers, CallStep, MakeRoom, Place, Record,
     Mark, RestoreStep, PutBack, Stat, RecordRestored, SaveStep, ReadBack, SwapRules, ListLive, Purge,
     MarkPurged, Crash, Disturb, NotRestores, NotSaves, ruleVars
<1>2. ASSUME Stat \/ ReadBack \/ ListLive \/ Purge PROVE calm # "settled"
  BY <1>2 DEF ScanInv, OnlyTouched, Stat, ReadBack, ListLive, Purge, Resting, NoSave
<1>3. CASE calm' = "no"
  BY <1>3 DEF ScanInv
<1>4. CASE calm' # "no"
  <2>1. \A p : Shown(p)' = Shown(p)
    BY <1>1, <1>4, ShownStays
  <2>2. calm # "settled" /\ calm' = calm
    BY <1>1, <1>2, <1>4
  <2>3. calm = "scanning" => Scanning'
    BY <1>1, <1>4, <2>1 DEF ScanInv, Scanning, Compares, Seen, Ahead, JanitorAt, Tells, Agree
  <2>4. QED
    BY <2>2, <2>3 DEF ScanInv
<1>5. QED
  BY <1>3, <1>4

LEMMA ScanGoesOn ==
  ASSUME TypeOK, TypeOK', TreeOK, FilesGoAlong, StampsTell, ScanInv, [Next]_vars
  PROVE  ScanInv' /\ (calm = "settled" /\ calm' = "settled" => index' = index)
<1>1. CASE UNCHANGED vars
  <2>1. UNCHANGED <<index, disk, rules, janitor, calm, timers, apply, call, restore, save>>
    BY <1>1 DEF vars, ruleVars, diskVars
  <2>2. \A p : Shown(p)' = Shown(p) /\ (Plain(p)' <=> Plain(p))
    BY <2>1, ShownStays
  <2>3. calm = "scanning" => Scanning'
    BY <2>1, <2>2 DEF ScanInv, Scanning, Compares, Seen, Ahead, JanitorAt, Tells, Agree
  <2>4. calm = "settled" => IndexIsDisk' /\ Rescanning' /\ OnlyTouched'
    BY <2>1, <2>2 DEF ScanInv, IndexIsDisk, Rescanning, OnlyTouched, Seen, JanitorAt, Agree
  <2>5. QED
    BY <2>1, <2>3, <2>4 DEF ScanInv
<1>2. ASSUME NEW p \in Paths, ByHand(p)
      PROVE  ScanInv' /\ (calm = "settled" /\ calm' = "settled" => index' = index)
  <2>1. CASE Touch(p)
    BY <2>1, TouchScans
  <2>2. CASE ~Touch(p)
    BY <1>2, <2>2 DEF ByHand, WriteByHand, MakeDirectory, RemoveByHand, Disturb, ScanInv
  <2>3. QED
    BY <2>1, <2>2
<1>3. QED
  BY <1>1, <1>2, JanitorScans, WatcherScans, OthersScan DEF Next

LEMMA ScanAtFirst == Init => TreeOK /\ ScanInv
BY FirstAssumption DEF Init, TreeOK, ScanInv

(***************************************************************************)
(* One scan that nothing else disturbed makes index and disk agree, and    *)
(* they agree until something happens ("the thing that actually guarantees *)
(* the index is true", scan.go), as long as what the quick check supposes  *)
(* is so, and rules that exclude a directory exclude its files.            *)
(***************************************************************************)
THEOREM ScanMakesTrue ==
  ASSUME FilesGoAlong
  PROVE  Spec /\ []StampsTell => []ScanIsTrue
<1>1. Init => TypeOK /\ TreeOK /\ ScanInv
  BY FirstTypes, ScanAtFirst
<1>2. TypeOK /\ TreeOK /\ ScanInv /\ StampsTell /\ [Next]_vars => (TypeOK /\ TreeOK /\ ScanInv)'
  BY TypesStay, TreeStays, ScanGoesOn
<1>3. ScanInv => ScanIsTrue
  BY DEF ScanInv, ScanIsTrue
<1>4. QED
  BY <1>1, <1>2, <1>3, PTL DEF Spec

(***************************************************************************)
(* Once index and disk agree, neither a touched file nor another scan      *)
(* hands out a revision: the watcher and the scan both find the content    *)
(* they know (scan.go and watch.go, where the hash is compared).           *)
(***************************************************************************)
THEOREM TouchStaysQuiet ==
  ASSUME FilesGoAlong
  PROVE  Spec /\ []StampsTell => TouchIsQuiet
<1>1. Init => TypeOK /\ TreeOK /\ ScanInv
  BY FirstTypes, ScanAtFirst
<1>2. TypeOK /\ TreeOK /\ ScanInv /\ StampsTell /\ [Next]_vars => (TypeOK /\ TreeOK /\ ScanInv)'
  BY TypesStay, TreeStays, ScanGoesOn
<1>3. TypeOK /\ TypeOK' /\ TreeOK /\ ScanInv /\ StampsTell /\ [Next]_vars
        => [calm = "settled" /\ calm' = "settled" => UNCHANGED index]_vars
  BY ScanGoesOn
<1>4. QED
  BY <1>1, <1>2, <1>3, PTL DEF Spec, TouchIsQuiet
----------------------------------------------------------------------------
(* What the quick check supposes.                                          *)

\* What anybody has noted of p: the row, the scan, the watcher, an upload.
Noted(p) ==
  {f \in File : \/ f = index[p] \/ f = janitor.found[p]
                \/ p = apply.path /\ f = apply.fact
                \/ p = call.path /\ call.at = "record" /\ f = call.fact}

Fits(p, f) == IsFileAt(p) /\ disk[p].stamp = f.stamp => disk[p].content = f.content

\* A file on its way to the disk, which nobody can have seen yet.
Carried == call.at \in {"trash", "place"} /\ call.fact # Nothing

StampsInv ==
  /\ \A p \in Paths : \A f \in Noted(p) : f.stamp <= stamps /\ Fits(p, f)
  /\ \A p \in Paths : IsFileAt(p) => disk[p].stamp <= stamps
  /\ Carried =>
       /\ call.fact.stamp <= stamps
       /\ \A f \in Noted(call.path) : f.stamp # call.fact.stamp
       /\ IsFileAt(call.path) => disk[call.path].stamp # call.fact.stamp

\* A fact that is noted for the first time: of now, or its content is.
LookedAt(p, f) ==
  /\ IsFileAt(p) /\ f.content = disk[p].content
  /\ f.stamp = disk[p].stamp \/ \E g \in Noted(p) : g.stamp = f.stamp

CarriedOn == Carried' => Carried /\ call'.path = call.path /\ call'.fact = call.fact

LEMMA NotFiles == Nothing \notin File /\ Directory \notin File
BY KindsAssumption DEF Facts

LEMMA FileIs ==
  /\ \A f \in File : f.content \in Nat /\ f.stamp \in Nat
  /\ \A p \in Paths : IsFileAt(p) <=> disk[p] \in File
  /\ \A p \in Paths : \A f \in Noted(p) : f \in File
BY BoundsAssumption DEF File, Stamps, IsFileAt, Noted

LEMMA NothingStamped ==
  ASSUME TypeOK, TypeOK', StampsInv, stamps' = stamps,
         \A p \in Paths : IsFileAt(p)' => IsFileAt(p) /\ disk'[p] = disk[p],
         \A p \in Paths : \A f \in Noted(p)' : f \in Noted(p) \/ LookedAt(p, f),
         CarriedOn
  PROVE  StampsInv'
<1>1. ASSUME NEW p \in Paths, NEW f \in Noted(p)' PROVE f.stamp <= stamps' /\ Fits(p, f)'
  <2>1. CASE f \in Noted(p)
    BY <2>1 DEF StampsInv, Fits, IsFileAt
  <2>2. CASE LookedAt(p, f)
    BY <2>2 DEF StampsInv, Fits, LookedAt, IsFileAt
  <2>3. QED
    BY <2>1, <2>2
<1>2. \A p \in Paths : IsFileAt(p)' => disk'[p].stamp <= stamps'
  BY DEF StampsInv
<1>3. Carried' =>
        /\ call'.fact.stamp <= stamps'
        /\ \A f \in Noted(call.path)' : f.stamp # call'.fact.stamp
        /\ IsFileAt(call.path)' => disk'[call'.path].stamp # call'.fact.stamp
  <2>1. SUFFICES ASSUME Carried'
                 PROVE  /\ call'.fact.stamp <= stamps'
                        /\ \A f \in Noted(call.path)' : f.stamp # call'.fact.stamp
                        /\ IsFileAt(call.path)' => disk'[call'.path].stamp # call'.fact.stamp
    OBVIOUS
  <2>2. Carried /\ call'.path = call.path /\ call'.fact = call.fact /\ call.path \in Paths
    BY <2>1 DEF CarriedOn, TypeOK, Job
  <2>3. \A f \in Noted(call.path)' : f \in Noted(call.path) \/ LookedAt(call.path, f)
    BY <2>2 DEF Noted
  <2>4. \A f \in Noted(call.path)' : f.stamp # call.fact.stamp
    BY <2>2, <2>3 DEF StampsInv, LookedAt
  <2>5. IsFileAt(call.path)' => IsFileAt(call.path) /\ disk'[call'.path] = disk[call.path]
    BY <2>2 DEF IsFileAt
  <2>6. QED
    BY <2>2, <2>4, <2>5 DEF StampsInv
<1>4. QED
  BY <1>1, <1>2, <1>3 DEF StampsInv, IsFileAt, Carried

\* A file that is written or touched has a stamp nobody has noted.
LEMMA NewlyStamped ==
  ASSUME TypeOK, TypeOK', StampsInv, stamps' = stamps + 1, UNCHANGED call,
         \A p \in Paths : IsFileAt(p)' =>
           (IsFileAt(p) /\ disk'[p] = disk[p]) \/ disk'[p].stamp = stamps',
         \A p \in Paths : Noted(p)' \subseteq Noted(p)
  PROVE  StampsInv'
<1>0. stamps \in Nat /\ call.path \in Paths
  BY BoundsAssumption DEF TypeOK, Job
<1>1. ASSUME NEW p \in Paths, NEW f \in Noted(p)' PROVE f.stamp <= stamps' /\ Fits(p, f)'
  <2>1. f \in Noted(p) /\ f.stamp \in Nat /\ f.stamp <= stamps /\ Fits(p, f)
    BY <1>1, FileIs DEF StampsInv
  <2>2. QED
    BY <1>0, <2>1 DEF Fits, IsFileAt
<1>2. ASSUME NEW p \in Paths, IsFileAt(p)' PROVE disk'[p].stamp <= stamps'
  <2>1. CASE IsFileAt(p) /\ disk'[p] = disk[p]
    BY <1>0, <2>1, FileIs DEF StampsInv
  <2>2. CASE disk'[p].stamp = stamps'
    BY <1>0, <2>2
  <2>3. QED
    BY <1>2, <2>1, <2>2
<1>3. Carried' =>
        /\ call.fact.stamp <= stamps'
        /\ \A f \in Noted(call.path)' : f.stamp # call.fact.stamp
        /\ IsFileAt(call.path)' => disk'[call.path].stamp # call.fact.stamp
  <2>1. SUFFICES ASSUME Carried
                 PROVE  /\ call.fact.stamp <= stamps'
                        /\ \A f \in Noted(call.path)' : f.stamp # call.fact.stamp
                        /\ IsFileAt(call.path)' => disk'[call.path].stamp # call.fact.stamp
    BY DEF Carried
  <2>2. call.fact.stamp \in Nat /\ call.fact.stamp <= stamps
    BY <2>1, FileIs DEF StampsInv, Carried, TypeOK
  <2>3. QED
    BY <1>0, <2>1, <2>2 DEF StampsInv
<1>4. QED
  BY <1>1, <1>2, <1>3 DEF StampsInv, IsFileAt

LEMMA JanitorStamps ==
  ASSUME TypeOK, TypeOK', StampsInv, Load \/ JanitorStep
  PROVE  StampsInv'
<1>1. UNCHANGED <<disk, call, apply, stamps>>
  BY DEF Load, JanitorStep, SetRules, List, UpsertFound, EndCompare, EndScan, PurgeTrash, Walk,
     Compare, Tombstone, ScanOnly, NotJanitors
<1>2. \A p \in Paths : janitor.found[p] \in Facts \cup {Nothing}
  BY DEF TypeOK, Janitor
<1>3. ASSUME NEW q \in Paths, janitor'.found[q] \in File
      PROVE  janitor'.found[q] = janitor.found[q] \/ LookedAt(q, janitor'.found[q])
  <2>1. janitor \in Janitor
    BY DEF TypeOK
  <2>2. NoScan.found[q] = Nothing
    BY DEF NoScan
  <2>3. CASE SetRules \/ EndScan \/ PurgeTrash \/ EndCompare
    <3>1. janitor'.found = NoScan.found
      BY <2>1, <2>3 DEF SetRules, EndScan, PurgeTrash, EndCompare, NoScan, Janitor
    <3>2. QED
      BY <1>3, <2>2, <3>1, NotFiles
  <2>4. CASE Load \/ List \/ UpsertFound \/ \E p \in Paths : Tombstone(p)
    BY <2>1, <2>4 DEF Load, List, UpsertFound, Tombstone, Janitor
  <2>5. ASSUME NEW p \in Paths, Walk(p)
        PROVE  janitor'.found[q] = janitor.found[q] \/ LookedAt(q, janitor'.found[q])
    <3>1. janitor'.found[q] = IF q = p THEN (IF Visible(p) THEN disk[p] ELSE Nothing) ELSE janitor.found[q]
      BY <2>1, <2>5 DEF Walk, Janitor
    <3>2. QED
      BY <1>3, <3>1, NotFiles DEF LookedAt, IsFileAt
  <2>6. ASSUME NEW p \in Paths, Compare(p)
        PROVE  janitor'.found[q] = janitor.found[q] \/ LookedAt(q, janitor'.found[q])
    <3>1. CASE janitor' = [janitor EXCEPT !.todo = @ \ {p}]
      BY <2>1, <3>1 DEF Janitor
    <3>2. ASSUME NEW facts,
                 janitor' = [janitor EXCEPT !.at = "upsert", !.todo = @ \ {p}, !.path = p,
                                            !.found[p] = facts],
                 \/ facts = Directory
                 \/ /\ janitor.found[p] \in File /\ IsFileAt(p)
                    /\ facts = [content |-> disk[p].content, stamp |-> janitor.found[p].stamp]
          PROVE  janitor'.found[q] = janitor.found[q] \/ LookedAt(q, janitor'.found[q])
      <4>1. janitor'.found[q] = IF q = p THEN facts ELSE janitor.found[q]
        BY <2>1, <3>2 DEF Janitor
      <4>2. janitor.found[q] \in File => janitor.found[q] \in Noted(q)
        BY DEF Noted
      <4>3. QED
        BY <1>3, <3>2, <4>1, <4>2, NotFiles DEF LookedAt
    <3>3. QED
      BY <2>6, <3>1, <3>2 DEF Compare
  <2>7. QED
    BY <2>3, <2>4, <2>5, <2>6 DEF JanitorStep
<1>4. ASSUME NEW q \in Paths, index'[q] \in File PROVE index'[q] \in Noted(q)
  <2>1. index \in [Paths -> Facts \cup {Nothing}]
    BY DEF TypeOK
  <2>2. CASE UpsertFound
    <3>1. index'[q] = IF q = janitor.path THEN janitor.found[q] ELSE index[q]
      BY <2>1, <2>2 DEF UpsertFound, Upsert
    <3>2. QED
      BY <1>4, <3>1 DEF Noted
  <2>3. ASSUME NEW p \in Paths, Tombstone(p) PROVE index'[q] \in Noted(q)
    <3>1. index'[q] = IF q = p THEN Nothing ELSE index[q]
      BY <2>1, <2>3 DEF Tombstone, MarkDeleted
    <3>2. QED
      BY <1>4, <3>1, NotFiles DEF Noted
  <2>4. CASE ~UpsertFound /\ ~\E p \in Paths : Tombstone(p)
    <3>1. index' = index
      BY <2>4 DEF Load, JanitorStep, SetRules, List, EndCompare, EndScan, PurgeTrash, Walk, Compare
    <3>2. QED
      BY <1>4, <3>1 DEF Noted
  <2>5. QED
    BY <2>2, <2>3, <2>4
<1>5. \A q \in Paths : \A f \in Noted(q)' : f \in Noted(q) \/ LookedAt(q, f)
  <2>1. SUFFICES ASSUME NEW q \in Paths, NEW f \in Noted(q)' PROVE f \in Noted(q) \/ LookedAt(q, f)
    OBVIOUS
  <2>2. f \in File /\ \/ f = index'[q] \/ f = janitor'.found[q]
                      \/ q = apply.path /\ f = apply.fact
                      \/ q = call.path /\ call.at = "record" /\ f = call.fact
    BY <1>1 DEF Noted
  <2>3. QED
    BY <1>3, <1>4, <2>2 DEF Noted
<1>6. CarriedOn
  BY <1>1 DEF CarriedOn, Carried
<1>7. QED
  BY <1>1, <1>5, <1>6, NothingStamped DEF IsFileAt

LEMMA WatcherStamps ==
  ASSUME TypeOK, TypeOK', StampsInv, (\E p \in Paths : Look(p)) \/ WatcherStep
  PROVE  StampsInv'
<1>1. UNCHANGED <<disk, call, janitor, stamps>>
  BY DEF Look, WatcherStep, Compared, Hash, Apply, NotWatchers, diskVars
<1>2. apply \in Job({"lookup", "hash", "write", "mark"}) /\ apply.path \in Paths
      /\ (apply.at = "hash" => apply.fact \in File)
  BY DEF TypeOK, Job
<1>3. ASSUME apply'.fact \in File
      PROVE  \/ apply'.path = apply.path /\ apply'.fact = apply.fact
             \/ LookedAt(apply'.path, apply'.fact)
  <2>1. apply' # Resting
    BY <1>3, NotFiles, RestTypes
  <2>2. ASSUME NEW p \in Paths, Look(p) PROVE LookedAt(apply'.path, apply'.fact)
    BY <1>3, <2>2 DEF Look, LookedAt, IsFileAt
  <2>3. CASE Compared
    BY <1>2, <2>1, <2>3 DEF Compared, Job
  <2>4. CASE Hash
    <3>1. /\ IsFileAt(apply.path)
          /\ apply' = [apply EXCEPT !.at = "write", !.fact.content = disk[apply.path].content]
      BY <2>1, <2>4 DEF Hash
    <3>2. /\ apply.fact \in File /\ apply.fact \in Noted(apply.path)
      BY <1>2, <2>4 DEF Hash, Noted
    <3>3. /\ apply'.path = apply.path
          /\ apply'.fact = [apply.fact EXCEPT !.content = disk[apply.path].content]
      BY <1>2, <3>1 DEF Job
    <3>4. apply'.fact.content = disk[apply.path].content /\ apply'.fact.stamp = apply.fact.stamp
      BY <3>2, <3>3 DEF File
    <3>5. QED
      BY <3>1, <3>2, <3>3, <3>4 DEF LookedAt
  <2>5. CASE Apply
    BY <2>1, <2>5 DEF Apply
  <2>6. QED
    BY <2>2, <2>3, <2>4, <2>5 DEF WatcherStep
<1>4. ASSUME NEW q \in Paths, index'[q] \in File PROVE index'[q] \in Noted(q)
  <2>1. index \in [Paths -> Facts \cup {Nothing}]
    BY DEF TypeOK
  <2>2. index' = index \/ index' = [index EXCEPT ![apply.path] = apply.fact]
        \/ index' = [index EXCEPT ![apply.path] = Nothing]
    BY DEF Look, WatcherStep, Compared, Hash, Apply, Upsert, MarkDeleted
  <2>3. index'[q] = index[q] \/ (q = apply.path /\ index'[q] \in {apply.fact, Nothing})
    BY <1>2, <2>1, <2>2
  <2>4. QED
    BY <1>4, <2>3, NotFiles DEF Noted
<1>5. \A q \in Paths : \A f \in Noted(q)' : f \in Noted(q) \/ LookedAt(q, f)
  <2>1. SUFFICES ASSUME NEW q \in Paths, NEW f \in Noted(q)' PROVE f \in Noted(q) \/ LookedAt(q, f)
    OBVIOUS
  <2>2. f \in File /\ \/ f = index'[q] \/ f = janitor.found[q]
                      \/ q = apply'.path /\ f = apply'.fact
                      \/ q = call.path /\ call.at = "record" /\ f = call.fact
    BY <1>1 DEF Noted
  <2>3. QED
    BY <1>3, <1>4, <2>2 DEF Noted
<1>6. CarriedOn
  BY <1>1 DEF CarriedOn, Carried
<1>7. QED
  BY <1>1, <1>5, <1>6, NothingStamped DEF IsFileAt

\* Renames into the trash and removals leave what they leave as it was.
LEMMA Leaves ==
  ASSUME TypeOK, NEW S
  PROVE  /\ disk' = Without(S) =>
              \A q \in Paths : IsFileAt(q)' => IsFileAt(q) /\ disk'[q] = disk[q]
         /\ \A p \in Paths : MovedToTrash(p) =>
              \A q \in Paths : IsFileAt(q)' => IsFileAt(q) /\ disk'[q] = disk[q]
BY NotFiles DEF Without, MovedToTrash, IsFileAt

LEMMA CallStamps ==
  ASSUME TypeOK, TypeOK', StampsInv, CallStep
  PROVE  StampsInv'
<1>1. UNCHANGED <<apply, janitor, stamps>>
  BY DEF CallStep, MakeRoom, Place, Record, Mark, NotCalls
<1>2. call \in Job({"trash", "place", "record", "mark"}) /\ call.path \in Paths
  BY DEF TypeOK, Job
<1>3. index \in [Paths -> Facts \cup {Nothing}]
  BY DEF TypeOK
<1>4. \A q \in Paths : \A f \in Noted(q)' :
         f \in File /\ (\/ f = index'[q] \/ f = janitor.found[q]
                        \/ q = apply.path /\ f = apply.fact
                        \/ q = call'.path /\ call'.at = "record" /\ f = call'.fact)
  BY <1>1 DEF Noted
<1>5. CASE MakeRoom
  <2>1. /\ call'.path = call.path /\ call'.fact = call.fact /\ call'.at \in {"mark", "place"}
        /\ call.at = "trash" /\ (call'.at = "place" => call.fact # Nothing)
    BY <1>2, <1>5 DEF MakeRoom, Job
  <2>2. index' = index
    BY <1>5 DEF MakeRoom
  <2>3. \A q \in Paths : \A f \in Noted(q)' : f \in Noted(q)
    BY <1>4, <2>1, <2>2 DEF Noted
  <2>4. CarriedOn
    BY <2>1 DEF CarriedOn, Carried
  <2>5. \A q \in Paths : IsFileAt(q)' => IsFileAt(q) /\ disk'[q] = disk[q]
    BY <1>2, <1>5, Leaves DEF MakeRoom
  <2>6. QED
    BY <1>1, <2>3, <2>4, <2>5, NothingStamped
<1>6. CASE Place /\ call' = Resting
  <2>1. UNCHANGED <<index, disk>>
    <3>1. CASE UNCHANGED disk
      BY <1>6, <3>1 DEF Place
    <3>2. CASE call' = [call EXCEPT !.at = "record"]
      <4>1. call'.at = "record" /\ Resting.at = "idle"
        BY <1>2, <3>2 DEF Job, Resting
      <4>2. QED
        BY <1>6, <4>1
    <3>3. QED
      BY <1>6, <3>1, <3>2 DEF Place
  <2>2. call'.at = "idle"
    BY <1>6 DEF Resting
  <2>3. \A q \in Paths : \A f \in Noted(q)' : f \in Noted(q)
    BY <1>4, <2>1, <2>2 DEF Noted
  <2>4. QED
    BY <1>1, <2>1, <2>2, <2>3, NothingStamped DEF CarriedOn, Carried, IsFileAt
<1>7. CASE Place /\ call' # Resting
  <2>1. /\ call.at = "place" /\ CanMakeParents(call.path) /\ disk' = Placed(call.path, call.fact)
        /\ call' = [call EXCEPT !.at = "record"] /\ index' = index
    BY <1>7 DEF Place
  <2>2. call.fact \in File /\ call.fact # Nothing /\ call.fact.stamp <= stamps
    BY <2>1, NotFiles DEF TypeOK, StampsInv, Carried
  <2>3. call'.path = call.path /\ call'.fact = call.fact /\ call'.at = "record"
    BY <1>2, <2>1 DEF Job
  <2>4. /\ IsFileAt(call.path)' /\ disk'[call.path] = call.fact
        /\ \A q \in Paths : q # call.path => /\ IsFileAt(q)' <=> IsFileAt(q)
                                             /\ IsFileAt(q) => disk'[q] = disk[q]
    <3>1. PICK p \in Paths, g \in File : p = call.path /\ g = call.fact
      BY <1>2, <2>2
    <3>2. /\ disk'[p] = g /\ g \in File
          /\ \A q \in Paths : q # p => /\ IsFileAt(q)' <=> IsFileAt(q)
                                       /\ IsFileAt(q) => disk'[q] = disk[q]
      BY <2>1, <3>1, PlacedFiles
    <3>3. QED
      BY <2>3, <3>1, <3>2 DEF IsFileAt
  <2>5. \A q \in Paths : \A f \in Noted(q)' : f \in Noted(q) \/ (q = call.path /\ f = call.fact)
    BY <1>4, <2>1, <2>3 DEF Noted
  <2>6. ASSUME NEW q \in Paths, NEW f \in Noted(q)' PROVE f.stamp <= stamps' /\ Fits(q, f)'
    <3>1. CASE f \in Noted(q) /\ q # call.path
      BY <1>1, <2>4, <3>1 DEF StampsInv, Fits, IsFileAt
    <3>2. CASE f \in Noted(q) /\ q = call.path
      <4>1. f.stamp # call.fact.stamp /\ f.stamp <= stamps
        BY <2>1, <2>2, <3>2 DEF StampsInv, Carried
      <4>2. QED
        BY <1>1, <2>4, <3>2, <4>1 DEF Fits
    <3>3. CASE q = call.path /\ f = call.fact
      BY <1>1, <2>2, <2>4, <3>3 DEF Fits
    <3>4. QED
      BY <2>5, <3>1, <3>2, <3>3
  <2>7. \A q \in Paths : IsFileAt(q)' => disk'[q].stamp <= stamps'
    BY <1>1, <2>2, <2>4 DEF StampsInv
  <2>8. ~Carried'
    BY <2>3 DEF Carried
  <2>9. QED
    BY <2>6, <2>7, <2>8 DEF StampsInv, IsFileAt
<1>8. CASE Record \/ Mark
  <2>1. disk' = disk /\ call' = Resting
    BY <1>8 DEF Record, Mark, diskVars
  <2>2. call'.at = "idle"
    BY <2>1 DEF Resting
  <2>3. \/ index' = [index EXCEPT ![call.path] = call.fact] /\ call.at = "record"
        \/ index' = [index EXCEPT ![call.path] = Nothing]
    BY <1>8 DEF Record, Mark, Upsert, MarkDeleted
  <2>4. \A q \in Paths : index'[q] = index[q] \/ index'[q] = Nothing
                         \/ (q = call.path /\ call.at = "record" /\ index'[q] = call.fact)
    BY <1>2, <1>3, <2>3
  <2>5. \A q \in Paths : \A f \in Noted(q)' : f \in Noted(q)
    BY <1>4, <2>2, <2>4, NotFiles DEF Noted
  <2>6. QED
    BY <1>1, <2>1, <2>2, <2>5, NothingStamped DEF CarriedOn, Carried, IsFileAt
<1>9. QED
  BY <1>5, <1>6, <1>7, <1>8 DEF CallStep

\* An upload brings a file nobody has seen.
LEMMA ArriveStamps ==
  ASSUME TypeOK, TypeOK', StampsInv, NEW p \in Paths, Arrive(p)
  PROVE  StampsInv'
<1>1. UNCHANGED <<index, disk, apply, janitor>> /\ call = Resting /\ stamps \in Nat
  BY BoundsAssumption DEF Arrive, NotCalls, diskVars, TypeOK
<1>2. call'.path = p /\ call'.at \in {"trash", "place"}
      /\ \/ stamps' = stamps + 1 /\ call'.fact = [content |-> stamps', stamp |-> stamps']
         \/ stamps' = stamps /\ call'.fact = Nothing
  BY DEF Arrive
<1>3. \A q \in Paths : Noted(q)' \subseteq Noted(q)
  <2>1. call'.at # "record"
    BY <1>2
  <2>2. QED
    BY <1>1, <2>1 DEF Noted
<1>4. CASE stamps' = stamps /\ call'.fact = Nothing
  <2>1. CarriedOn
    BY <1>4 DEF CarriedOn, Carried
  <2>2. QED
    BY <1>1, <1>3, <1>4, <2>1, NothingStamped DEF IsFileAt
<1>5. CASE stamps' = stamps + 1 /\ call'.fact = [content |-> stamps', stamp |-> stamps']
  <2>1. \A q \in Paths : \A f \in Noted(q) : f.stamp \in Nat /\ f.stamp <= stamps /\ Fits(q, f)
    BY FileIs DEF StampsInv
  <2>2. \A q \in Paths : IsFileAt(q) => disk[q].stamp \in Nat /\ disk[q].stamp <= stamps
    BY FileIs DEF StampsInv
  <2>3. call'.fact.stamp = stamps + 1
    BY <1>5
  <2>4. \A q \in Paths : \A f \in Noted(q)' : f.stamp <= stamps' /\ f.stamp # stamps + 1 /\ Fits(q, f)'
    BY <1>1, <1>3, <1>5, <2>1 DEF Fits, IsFileAt
  <2>5. \A q \in Paths : IsFileAt(q)' => disk'[q].stamp <= stamps' /\ disk'[q].stamp # stamps + 1
    BY <1>1, <1>5, <2>2 DEF IsFileAt
  <2>6. /\ call'.fact.stamp <= stamps'
        /\ \A f \in Noted(call.path)' : f.stamp # call'.fact.stamp
        /\ IsFileAt(call.path)' => disk'[call'.path].stamp # call'.fact.stamp
    <3>1. \A f \in Noted(p)' : f.stamp # stamps + 1
      BY <2>4
    <3>2. Noted(call.path)' = Noted(p)' /\ (IsFileAt(call.path)' <=> IsFileAt(p)')
      BY <1>2 DEF Noted, IsFileAt
    <3>3. QED
      BY <1>1, <1>2, <1>5, <2>3, <2>5, <3>1, <3>2
  <2>7. QED
    BY <2>4, <2>5, <2>6 DEF StampsInv, IsFileAt
<1>6. QED
  BY <1>2, <1>4, <1>5

LEMMA SaveStamps ==
  ASSUME TypeOK, TypeOK', StampsInv, (\E r \in Rules : StoreRules(r)) \/ SaveStep
  PROVE  StampsInv'
<1>1. UNCHANGED <<call, apply, janitor, stamps>>
  BY DEF StoreRules, SaveStep, ReadBack, SwapRules, ListLive, Purge, MarkPurged, NotSaves
<1>2. \A q \in Paths : IsFileAt(q)' => IsFileAt(q) /\ disk'[q] = disk[q]
  <2>1. CASE UNCHANGED disk
    BY <2>1 DEF IsFileAt
  <2>2. ASSUME NEW p \in Paths, NEW isDir \in BOOLEAN, TakeOut(p, isDir)
        PROVE  \A q \in Paths : IsFileAt(q)' => IsFileAt(q) /\ disk'[q] = disk[q]
    BY <2>1, <2>2, Leaves DEF TakeOut
  <2>3. QED
    BY <2>1, <2>2 DEF StoreRules, SaveStep, ReadBack, SwapRules, ListLive, Purge, MarkPurged
<1>3. \A q \in Paths : index'[q] \in {index[q], Nothing}
  BY DEF TypeOK, StoreRules, SaveStep, ReadBack, SwapRules, ListLive, Purge, MarkPurged, MarkDeleted
<1>4. \A q \in Paths : \A f \in Noted(q)' : f \in Noted(q)
  BY <1>1, <1>3, NotFiles DEF Noted
<1>5. QED
  BY <1>1, <1>2, <1>4, NothingStamped DEF CarriedOn, Carried

LEMMA HandStamps ==
  ASSUME TypeOK, TypeOK', StampsInv, NEW p \in Paths, ByHand(p)
  PROVE  StampsInv'
<1>1. UNCHANGED <<index, call, apply, janitor>> /\ stamps \in Nat
  BY BoundsAssumption DEF ByHand, WriteByHand, Touch, MakeDirectory, RemoveByHand, NotByHand, TypeOK
<1>2. \A q \in Paths : Noted(q)' = Noted(q)
  BY <1>1 DEF Noted
<1>3. CarriedOn
  BY <1>1 DEF CarriedOn, Carried
<1>4. disk \in [Paths -> File \cup {Directory, Nothing}]
  BY DEF TypeOK
<1>5. CASE WriteByHand(p)
  <2>1. \A q \in Paths : disk'[q] = IF q = p THEN [content |-> stamps', stamp |-> stamps']
                                    ELSE IF q \in Above[p] THEN Directory ELSE disk[q]
    BY <1>5 DEF WriteByHand, Placed
  <2>2. \A q \in Paths : IsFileAt(q)' =>
          (IsFileAt(q) /\ disk'[q] = disk[q]) \/ disk'[q].stamp = stamps'
    BY <2>1, NotFiles DEF IsFileAt
  <2>3. stamps' = stamps + 1
    BY <1>5 DEF WriteByHand
  <2>4. QED
    BY <1>1, <1>2, <2>2, <2>3, NewlyStamped
<1>6. CASE Touch(p)
  <2>1. stamps' = stamps + 1 /\ IsFileAt(p) /\ disk' = [disk EXCEPT ![p].stamp = stamps']
    BY <1>6 DEF Touch
  <2>2. disk'[p] = [disk[p] EXCEPT !.stamp = stamps'] /\ \A q \in Paths : q # p => disk'[q] = disk[q]
    BY <1>4, <2>1
  <2>3. disk'[p].stamp = stamps'
    BY <2>1, <2>2 DEF IsFileAt, File
  <2>4. \A q \in Paths : IsFileAt(q)' =>
          (IsFileAt(q) /\ disk'[q] = disk[q]) \/ disk'[q].stamp = stamps'
    BY <2>2, <2>3 DEF IsFileAt
  <2>5. QED
    BY <1>1, <1>2, <2>1, <2>4, NewlyStamped
<1>7. CASE MakeDirectory(p) \/ RemoveByHand(p)
  <2>1. \A q \in Paths : IsFileAt(q)' => IsFileAt(q) /\ disk'[q] = disk[q]
    <3>1. CASE MakeDirectory(p)
      BY <3>1, NotFiles DEF MakeDirectory, Placed, IsFileAt
    <3>2. CASE RemoveByHand(p)
      BY <3>2, Leaves DEF RemoveByHand
    <3>3. QED
      BY <1>7, <3>1, <3>2
  <2>2. stamps' = stamps
    BY <1>7 DEF MakeDirectory, RemoveByHand
  <2>3. QED
    BY <1>2, <1>3, <2>1, <2>2, NothingStamped
<1>8. QED
  BY <1>5, <1>6, <1>7 DEF ByHand

LEMMA CrashStamps ==
  ASSUME TypeOK, TypeOK', StampsInv, Crash
  PROVE  StampsInv'
<1>1. UNCHANGED <<index, disk, stamps>> /\ apply' = Resting /\ call' = Resting
      /\ janitor' = [NoScan EXCEPT !.at = "load"]
  BY DEF Crash, diskVars
<1>2. apply'.fact = Nothing /\ call'.at = "idle" /\ \A q \in Paths : janitor'.found[q] = Nothing
  BY <1>1 DEF Resting, NoScan
<1>3. \A q \in Paths : \A f \in Noted(q)' : f \in Noted(q)
  BY <1>1, <1>2, NotFiles DEF Noted
<1>4. QED
  BY <1>1, <1>2, <1>3, NothingStamped DEF CarriedOn, Carried, IsFileAt

LEMMA StampsAtFirst == Init => StampsInv
<1> SUFFICES ASSUME Init PROVE StampsInv
  OBVIOUS
<1>1. call.at = "idle" /\ apply.fact = Nothing /\ \A q \in Paths : janitor.found[q] = Nothing
  BY DEF Init, Resting, NoScan
<1>2. \A q \in Paths : IsFileAt(q) => disk[q].stamp <= stamps
  BY FirstAssumption DEF Init, IsFileAt
<1>3. \A q \in Paths : \A f \in Noted(q) : f = disk[q] /\ IsFileAt(q)
  BY <1>1, NotFiles DEF Init, Noted, IsFileAt
<1>4. QED
  BY <1>1, <1>2, <1>3 DEF StampsInv, Fits, Carried

LEMMA StampsStay ==
  ASSUME TypeOK, TypeOK', StampsInv, restore = Resting, restore' = Resting, [Next]_vars
  PROVE  StampsInv'
<1>1. ASSUME NEW i \in trash, BeginRestore(i) PROVE FALSE
  <2>1. restore'.at = "rename"
    BY <1>1 DEF BeginRestore
  <2>2. QED
    BY <2>1 DEF Resting
<1>2. ASSUME RestoreStep PROVE FALSE
  BY <1>2 DEF RestoreStep, PutBack, Stat, RecordRestored, Resting
<1>3. CASE UNCHANGED vars
  <2>1. UNCHANGED <<index, disk, janitor, apply, call, stamps>>
    BY <1>3 DEF vars, diskVars
  <2>2. \A q \in Paths : Noted(q)' = Noted(q)
    BY <2>1 DEF Noted
  <2>3. QED
    BY <2>1, <2>2, NothingStamped DEF CarriedOn, Carried, IsFileAt
<1>4. QED
  BY <1>1, <1>2, <1>3, JanitorStamps, WatcherStamps, CallStamps, ArriveStamps, SaveStamps, HandStamps,
     CrashStamps DEF Next, Requests, Handlers

(***************************************************************************)
(* As long as nothing is put back from the trash, a file that has the size *)
(* and time of its row has its content, whatever races: a row of two looks *)
(* has a time that no file of that path will have again (scan.go, where    *)
(* size and time are the walk's and the hash is of later).                 *)
(***************************************************************************)
THEOREM StampsTellUnrestored == Spec /\ [](restore = Resting) => []StampsTell
<1>1. Init => TypeOK /\ StampsInv
  BY FirstTypes, StampsAtFirst
<1>2. TypeOK /\ StampsInv /\ restore = Resting /\ (restore = Resting)' /\ [Next]_vars
        => (TypeOK /\ StampsInv)'
  BY TypesStay, StampsStay
<1>3. TypeOK /\ StampsInv => StampsTell
  <2>1. SUFFICES ASSUME TypeOK, StampsInv, NEW p \in Paths, IsFileAt(p), index[p] \in File,
                        disk[p].stamp = index[p].stamp
                 PROVE  disk[p].content = index[p].content
    BY DEF StampsTell
  <2>2. index[p] \in Noted(p)
    BY <2>1 DEF Noted
  <2>3. QED
    BY <2>1, <2>2 DEF StampsInv, Fits
<1>4. QED
  BY <1>1, <1>2, <1>3, PTL DEF Spec

----------------------------------------------------------------------------
(* The same with restores, if every look is whole. *)

\* Nobody replaces a file between the look at its time and its hash.
LooksWhole ==
  /\ \A p \in Paths : Compare(p) /\ janitor.found[p] \in File /\ IsFileAt(p)
                        => disk[p].stamp = janitor.found[p].stamp
  /\ Hash /\ IsFileAt(apply.path) => disk[apply.path].stamp = apply.fact.stamp
  /\ Stat /\ restore.at = "hash" /\ IsFileAt(restore.path)
       => disk[restore.path].stamp = restore.fact.stamp

\* What there is of a path at first has its content by its stamp, too.
FirstTell ==
  \A p \in Paths : \A f, g \in {Found[p]} \cup {i.file : i \in {k \in Kept : k.path = p}} :
    f \in File /\ g \in File /\ f.stamp = g.stamp => f.content = g.content

\* Every file there is of a path, somewhere.
AllFiles(p) ==
  {f \in File : \/ f \in {index[p], disk[p], janitor.found[p]}
                \/ \E job \in {apply, call, restore} : job.path = p /\ f = job.fact
                \/ \E i \in trash : i.path = p /\ f = i.file}

OneContent ==
  \A p \in Paths :
    /\ \A f \in AllFiles(p) : f.stamp <= stamps
    /\ \A f, g \in AllFiles(p) : f.stamp = g.stamp => f.content = g.content

Old(p, x) == x \in File => x \in AllFiles(p)

\* There is nothing new anywhere but x.
OnlyNew(x) ==
  /\ \A p \in Paths : /\ Old(p, index'[p]) \/ index'[p] = x
                      /\ Old(p, disk'[p]) \/ disk'[p] = x
                      /\ Old(p, janitor'.found[p]) \/ janitor'.found[p] = x
  /\ Old(apply'.path, apply'.fact) \/ apply'.fact = x
  /\ Old(call'.path, call'.fact) \/ call'.fact = x
  /\ Old(restore'.path, restore'.fact) \/ restore'.fact = x
  /\ \A i \in trash' : Old(i.path, i.file) \/ i.file = x

LEMMA OldOnes ==
  /\ \A p \in Paths : Old(p, index[p]) /\ Old(p, disk[p]) /\ Old(p, janitor.found[p])
  /\ Old(apply.path, apply.fact) /\ Old(call.path, call.fact) /\ Old(restore.path, restore.fact)
  /\ \A i \in trash : Old(i.path, i.file)
  /\ \A p : Old(p, Nothing) /\ Old(p, Directory)
BY NotFiles DEF Old, AllFiles

LEMMA NewFiles ==
  ASSUME NEW x, OnlyNew(x), NEW p \in Paths, NEW f \in AllFiles(p)'
  PROVE  f \in AllFiles(p) \/ f = x
<1>1. f \in File /\ (\/ f \in {index'[p], disk'[p], janitor'.found[p]}
                     \/ \E job \in {apply', call', restore'} : job.path = p /\ f = job.fact
                     \/ \E i \in trash' : i.path = p /\ f = i.file)
  BY DEF AllFiles
<1>2. QED
  BY <1>1 DEF OnlyNew, Old

LEMMA NoneNew ==
  ASSUME TypeOK, OneContent, stamps' = stamps, OnlyNew(Nothing)
  PROVE  OneContent'
<1>1. ASSUME NEW p \in Paths, NEW f \in AllFiles(p)' PROVE f \in AllFiles(p)
  <2>1. f \in File
    BY <1>1 DEF AllFiles
  <2>2. QED
    BY <1>1, <2>1, NewFiles, NotFiles
<1>2. QED
  BY <1>1 DEF OneContent

LEMMA OneNew ==
  ASSUME TypeOK, OneContent, stamps' = stamps + 1, NEW x \in File, x.stamp = stamps', OnlyNew(x)
  PROVE  OneContent'
<1> SUFFICES ASSUME NEW p \in Paths
             PROVE  /\ \A f \in AllFiles(p)' : f.stamp <= stamps'
                    /\ \A f, g \in AllFiles(p)' : f.stamp = g.stamp => f.content = g.content
  BY DEF OneContent
<1>1. stamps \in Nat /\ \A f \in AllFiles(p) : f.stamp \in Nat /\ f.stamp <= stamps
  BY BoundsAssumption, FileIs DEF TypeOK, OneContent, AllFiles
<1>2. \A f \in AllFiles(p)' : f \in AllFiles(p) \/ f = x
  BY NewFiles
<1>3. \A f \in AllFiles(p) : f.stamp # x.stamp
  BY <1>1
<1>4. \A f \in AllFiles(p)' : f.stamp <= stamps'
  BY <1>1, <1>2
<1>5. \A f, g \in AllFiles(p)' : f.stamp = g.stamp => f.content = g.content
  BY <1>2, <1>3 DEF OneContent
<1>6. QED
  BY <1>4, <1>5

\* A hash of what was looked at is a look.
LEMMA WholeLook ==
  ASSUME NEW p \in Paths, IsFileAt(p), NEW s, s = disk[p].stamp
  PROVE  [content |-> disk[p].content, stamp |-> s] = disk[p]
BY DEF IsFileAt, File

LEMMA JanitorWhole ==
  ASSUME TypeOK, OneContent, LooksWhole, Load \/ JanitorStep
  PROVE  OneContent'
<1>1. UNCHANGED <<disk, call, apply, restore, stamps>> /\ trash' \subseteq trash
  BY DEF Load, JanitorStep, SetRules, List, UpsertFound, EndCompare, EndScan, PurgeTrash, Walk,
     Compare, Tombstone, ScanOnly, NotJanitors
<1>2. janitor \in Janitor /\ index \in [Paths -> Facts \cup {Nothing}]
  BY DEF TypeOK
<1>3. ASSUME NEW q \in Paths PROVE Old(q, janitor'.found[q])
  <2>1. NoScan.found[q] = Nothing
    BY DEF NoScan
  <2>2. CASE SetRules \/ EndScan \/ PurgeTrash \/ EndCompare
    <3>1. janitor'.found = NoScan.found
      BY <1>2, <2>2 DEF SetRules, EndScan, PurgeTrash, EndCompare, NoScan, Janitor
    <3>2. QED
      BY <2>1, <3>1, OldOnes
  <2>3. CASE Load \/ List \/ UpsertFound \/ \E p \in Paths : Tombstone(p)
    <3>1. janitor'.found = janitor.found
      BY <1>2, <2>3 DEF Load, List, UpsertFound, Tombstone, Janitor
    <3>2. QED
      BY <3>1, OldOnes
  <2>4. ASSUME NEW p \in Paths, Walk(p) PROVE Old(q, janitor'.found[q])
    <3>1. janitor'.found[q] = IF q = p THEN (IF Visible(p) THEN disk[p] ELSE Nothing) ELSE janitor.found[q]
      BY <1>2, <2>4 DEF Walk, Janitor
    <3>2. QED
      BY <3>1, OldOnes
  <2>5. ASSUME NEW p \in Paths, Compare(p) PROVE Old(q, janitor'.found[q])
    <3>1. CASE janitor' = [janitor EXCEPT !.todo = @ \ {p}]
      <4>1. janitor'.found = janitor.found
        BY <1>2, <3>1 DEF Janitor
      <4>2. QED
        BY <4>1, OldOnes
    <3>2. ASSUME NEW facts,
                 janitor' = [janitor EXCEPT !.at = "upsert", !.todo = @ \ {p}, !.path = p,
                                            !.found[p] = facts],
                 facts = Directory \/ facts = disk[p]
          PROVE  Old(q, janitor'.found[q])
      <4>1. janitor'.found[q] = IF q = p THEN facts ELSE janitor.found[q]
        BY <1>2, <3>2 DEF Janitor
      <4>2. QED
        BY <3>2, <4>1, OldOnes
    <3>3. janitor.found[p] \in File /\ IsFileAt(p) =>
            [content |-> disk[p].content, stamp |-> janitor.found[p].stamp] = disk[p]
      BY <2>5, WholeLook DEF LooksWhole
    <3>4. QED
      BY <2>5, <3>1, <3>2, <3>3 DEF Compare
  <2>6. QED
    BY <2>2, <2>3, <2>4, <2>5 DEF JanitorStep
<1>4. ASSUME NEW q \in Paths PROVE Old(q, index'[q])
  <2>1. index' = index \/ index' = [index EXCEPT ![janitor.path] = janitor.found[janitor.path]]
        \/ \E p \in Paths : index' = [index EXCEPT ![p] = Nothing]
    BY DEF Load, JanitorStep, SetRules, List, EndCompare, EndScan, PurgeTrash, Walk, Compare,
       UpsertFound, Tombstone, Upsert, MarkDeleted
  <2>2. index'[q] \in {index[q], Nothing} \/ index'[q] = janitor.found[q]
    BY <1>2, <2>1
  <2>3. QED
    BY <2>2, OldOnes
<1>5. OnlyNew(Nothing)
  BY <1>1, <1>3, <1>4, OldOnes DEF OnlyNew
<1>6. QED
  BY <1>1, <1>5, NoneNew

LEMMA WatcherWhole ==
  ASSUME TypeOK, OneContent, LooksWhole, (\E p \in Paths : Look(p)) \/ WatcherStep
  PROVE  OneContent'
<1>1. UNCHANGED <<disk, trash, call, janitor, restore, stamps>>
  BY DEF Look, WatcherStep, Compared, Hash, Apply, NotWatchers, diskVars
<1>2. apply \in Job({"lookup", "hash", "write", "mark"}) /\ apply.path \in Paths
      /\ (apply.at = "hash" => apply.fact \in File)
  BY DEF TypeOK, Job
<1>3. Old(apply'.path, apply'.fact)
  <2>1. CASE apply' = Resting
    BY <2>1, RestTypes, OldOnes
  <2>2. ASSUME NEW p \in Paths, Look(p) PROVE Old(apply'.path, apply'.fact)
    <3>1. apply'.path = p /\ apply'.fact = disk[p]
      BY <2>2 DEF Look
    <3>2. QED
      BY <3>1, OldOnes
  <2>3. CASE Compared /\ apply' # Resting
    <3>1. apply'.path = apply.path /\ apply'.fact = apply.fact
      BY <1>2, <2>3 DEF Compared, Job
    <3>2. QED
      BY <3>1, OldOnes
  <2>4. CASE Hash /\ apply' # Resting
    <3>1. /\ IsFileAt(apply.path) /\ apply.fact \in File
          /\ apply' = [apply EXCEPT !.at = "write", !.fact.content = disk[apply.path].content]
      BY <1>2, <2>4 DEF Hash
    <3>2. apply'.path = apply.path /\ apply'.fact = [apply.fact EXCEPT !.content = disk[apply.path].content]
      BY <1>2, <3>1 DEF Job
    <3>3. apply'.fact = [content |-> disk[apply.path].content, stamp |-> apply.fact.stamp]
      BY <3>1, <3>2 DEF File
    <3>4. apply.fact.stamp = disk[apply.path].stamp
      BY <2>4, <3>1 DEF LooksWhole
    <3>5. apply'.path = apply.path /\ apply'.fact = disk[apply.path]
      BY <1>2, <3>1, <3>2, <3>3, <3>4, WholeLook
    <3>6. QED
      BY <1>2, <3>5, OldOnes
  <2>5. QED
    BY <2>1, <2>2, <2>3, <2>4 DEF WatcherStep, Apply
<1>4. ASSUME NEW q \in Paths PROVE Old(q, index'[q])
  <2>1. index \in [Paths -> Facts \cup {Nothing}]
    BY DEF TypeOK
  <2>2. index' = index \/ index' = [index EXCEPT ![apply.path] = apply.fact]
        \/ index' = [index EXCEPT ![apply.path] = Nothing]
    BY DEF Look, WatcherStep, Compared, Hash, Apply, Upsert, MarkDeleted
  <2>3. index'[q] \in {index[q], Nothing} \/ (q = apply.path /\ index'[q] = apply.fact)
    BY <1>2, <2>1, <2>2
  <2>4. QED
    BY <2>3, OldOnes
<1>5. OnlyNew(Nothing)
  BY <1>1, <1>3, <1>4, OldOnes DEF OnlyNew
<1>6. QED
  BY <1>1, <1>5, NoneNew

LEMMA TrashWhole ==
  ASSUME NEW p \in Paths, MovedToTrash(p)
  PROVE  /\ \A q \in Paths : Old(q, disk'[q])
         /\ \A i \in trash' : Old(i.path, i.file)
<1>1. \A q \in Paths : disk'[q] \in {disk[q], Nothing}
  BY DEF MovedToTrash, Without
<1>2. \A i \in trash' : i \in trash \/ \E q \in Paths : i.path = q /\ i.file = disk[q]
  BY DEF MovedToTrash, Subtree
<1>3. QED
  BY <1>1, <1>2, OldOnes

LEMMA PlacedWhole ==
  ASSUME NEW p \in Paths, NEW x, disk' = Placed(p, x)
  PROVE  \A q \in Paths : Old(q, disk'[q]) \/ (q = p /\ disk'[q] = x)
<1>1. \A q \in Paths : disk'[q] \in {disk[q], Directory} \/ (q = p /\ disk'[q] = x)
  BY DEF Placed
<1>2. QED
  BY <1>1, OldOnes

LEMMA CallWhole ==
  ASSUME TypeOK, OneContent, CallStep
  PROVE  OneContent'
<1>1. UNCHANGED <<apply, janitor, restore, stamps>>
  BY DEF CallStep, MakeRoom, Place, Record, Mark, NotCalls
<1>2. call \in Job({"trash", "place", "record", "mark"}) /\ call.path \in Paths
      /\ index \in [Paths -> Facts \cup {Nothing}]
  BY DEF TypeOK, Job
<1>3. Old(call'.path, call'.fact)
  <2>1. call' = Resting \/ (call'.path = call.path /\ call'.fact = call.fact)
    BY <1>2 DEF CallStep, MakeRoom, Place, Record, Mark, Job
  <2>2. QED
    BY <2>1, RestTypes, OldOnes
<1>4. ASSUME NEW q \in Paths PROVE Old(q, index'[q])
  <2>1. index' = index \/ index' = [index EXCEPT ![call.path] = call.fact]
        \/ index' = [index EXCEPT ![call.path] = Nothing]
    BY DEF CallStep, MakeRoom, Place, Record, Mark, Upsert, MarkDeleted
  <2>2. index'[q] \in {index[q], Nothing} \/ (q = call.path /\ index'[q] = call.fact)
    BY <1>2, <2>1
  <2>3. QED
    BY <2>2, OldOnes
<1>5. (\A q \in Paths : Old(q, disk'[q])) /\ (\A i \in trash' : Old(i.path, i.file))
  <2>1. CASE MakeRoom
    BY <1>2, <2>1, TrashWhole DEF MakeRoom
  <2>2. CASE UNCHANGED <<disk, trash>>
    BY <2>2, OldOnes
  <2>3. CASE UNCHANGED trash /\ disk' = Placed(call.path, call.fact)
    <3>1. \A q \in Paths : Old(q, disk'[q]) \/ (q = call.path /\ disk'[q] = call.fact)
      BY <1>2, <2>3, PlacedWhole
    <3>2. QED
      BY <2>3, <3>1, OldOnes
  <2>4. QED
    BY <2>1, <2>2, <2>3 DEF CallStep, Place, Record, Mark, diskVars
<1>6. OnlyNew(Nothing)
  BY <1>1, <1>3, <1>4, <1>5, OldOnes DEF OnlyNew
<1>7. QED
  BY <1>1, <1>6, NoneNew

LEMMA RestoreWhole ==
  ASSUME TypeOK, OneContent, LooksWhole, (\E i \in trash : BeginRestore(i)) \/ RestoreStep
  PROVE  OneContent'
<1>1. UNCHANGED <<apply, janitor, call, stamps>> /\ trash' \subseteq trash
  BY DEF BeginRestore, RestoreStep, PutBack, Stat, RecordRestored, NotRestores
<1>2. restore \in Job({"rename", "stat", "hash", "record"}) /\ restore.path \in Paths
      /\ index \in [Paths -> Facts \cup {Nothing}]
  BY DEF TypeOK, Job
<1>3. Old(restore'.path, restore'.fact)
  <2>1. CASE restore' = Resting
    BY <2>1, RestTypes, OldOnes
  <2>2. ASSUME NEW i \in trash, BeginRestore(i) PROVE Old(restore'.path, restore'.fact)
    <3>1. restore'.path = i.path /\ restore'.fact = i.file
      BY <2>2 DEF BeginRestore
    <3>2. QED
      BY <3>1, OldOnes
  <2>3. CASE PutBack /\ restore' # Resting
    <3>1. restore'.path = restore.path /\ restore'.fact = restore.fact
      BY <1>2, <2>3 DEF PutBack, Job
    <3>2. QED
      BY <3>1, OldOnes
  <2>4. CASE Stat /\ restore' # Resting /\ restore.at = "stat"
    <3>1. restore'.path = restore.path /\ restore'.fact = disk[restore.path]
      BY <1>2, <2>4 DEF Stat, Job
    <3>2. QED
      BY <1>2, <3>1, OldOnes
  <2>5. CASE Stat /\ restore' # Resting /\ restore.at # "stat"
    <3>1. /\ IsFileAt(restore.path) /\ restore.fact \in File /\ restore.at = "hash"
          /\ restore' = [restore EXCEPT !.at = "record", !.fact.content = disk[restore.path].content]
      BY <2>5, RestTypes DEF Stat, TypeOK
    <3>2. /\ restore'.path = restore.path
          /\ restore'.fact = [restore.fact EXCEPT !.content = disk[restore.path].content]
      BY <1>2, <3>1 DEF Job
    <3>3. restore'.fact = [content |-> disk[restore.path].content, stamp |-> restore.fact.stamp]
      BY <3>1, <3>2 DEF File
    <3>4. restore.fact.stamp = disk[restore.path].stamp
      BY <2>5, <3>1 DEF LooksWhole
    <3>5. restore'.path = restore.path /\ restore'.fact = disk[restore.path]
      BY <1>2, <3>1, <3>2, <3>3, <3>4, WholeLook
    <3>6. QED
      BY <1>2, <3>5, OldOnes
  <2>6. QED
    BY <2>1, <2>2, <2>3, <2>4, <2>5 DEF RestoreStep, RecordRestored
<1>4. ASSUME NEW q \in Paths PROVE Old(q, index'[q])
  <2>1. index' = index \/ index' = [index EXCEPT ![restore.path] = restore.fact]
    BY DEF BeginRestore, RestoreStep, PutBack, Stat, RecordRestored, Upsert
  <2>2. index'[q] = index[q] \/ (q = restore.path /\ index'[q] = restore.fact)
    BY <1>2, <2>1
  <2>3. QED
    BY <2>2, OldOnes
<1>5. ASSUME NEW q \in Paths PROVE Old(q, disk'[q])
  <2>1. CASE disk' = disk
    BY <2>1, OldOnes
  <2>2. ASSUME NEW x, disk' = Placed(restore.path, x), x \in {restore.fact, disk[restore.path]}
        PROVE  Old(q, disk'[q])
    <3>1. Old(q, disk'[q]) \/ (q = restore.path /\ disk'[q] = x)
      BY <1>2, <2>2, PlacedWhole
    <3>2. QED
      BY <1>2, <2>2, <3>1, OldOnes
  <2>3. QED
    BY <2>1, <2>2 DEF BeginRestore, RestoreStep, PutBack, Stat, RecordRestored
<1>6. OnlyNew(Nothing)
  BY <1>1, <1>3, <1>4, <1>5, OldOnes DEF OnlyNew
<1>7. QED
  BY <1>1, <1>6, NoneNew

LEMMA SaveWhole ==
  ASSUME TypeOK, OneContent, (\E r \in Rules : StoreRules(r)) \/ SaveStep
  PROVE  OneContent'
<1>1. UNCHANGED <<call, apply, restore, janitor, stamps>>
  BY DEF StoreRules, SaveStep, ReadBack, SwapRules, ListLive, Purge, MarkPurged, NotSaves
<1>2. \A q \in Paths : index'[q] \in {index[q], Nothing}
  BY DEF TypeOK, StoreRules, SaveStep, ReadBack, SwapRules, ListLive, Purge, MarkPurged, MarkDeleted
<1>3. (\A q \in Paths : Old(q, disk'[q])) /\ (\A i \in trash' : Old(i.path, i.file))
  <2>1. CASE UNCHANGED <<disk, trash>>
    BY <2>1, OldOnes
  <2>2. ASSUME NEW p \in Paths, NEW isDir \in BOOLEAN, TakeOut(p, isDir)
        PROVE  (\A q \in Paths : Old(q, disk'[q])) /\ (\A i \in trash' : Old(i.path, i.file))
    <3>1. CASE UNCHANGED trash /\ disk' = Without({p})
      <4>1. \A q \in Paths : disk'[q] \in {disk[q], Nothing}
        BY <3>1 DEF Without
      <4>2. QED
        BY <3>1, <4>1, OldOnes
    <3>2. CASE MovedToTrash(p)
      BY <3>2, TrashWhole
    <3>3. QED
      BY <2>1, <2>2, <3>1, <3>2 DEF TakeOut
  <2>3. QED
    BY <2>1, <2>2 DEF StoreRules, SaveStep, ReadBack, SwapRules, ListLive, Purge, MarkPurged
<1>4. OnlyNew(Nothing)
  BY <1>1, <1>2, <1>3, OldOnes DEF OnlyNew
<1>5. QED
  BY <1>1, <1>4, NoneNew

\* What an upload brings and a hand writes has a new stamp.
LEMMA NewWhole ==
  ASSUME TypeOK, OneContent, NEW p \in Paths, Arrive(p) \/ ByHand(p)
  PROVE  OneContent'
<1>1. UNCHANGED <<index, apply, restore, janitor, trash>> /\ stamps \in Nat
  BY BoundsAssumption
  DEF Arrive, ByHand, WriteByHand, Touch, MakeDirectory, RemoveByHand, NotByHand, NotCalls, diskVars,
      TypeOK
<1>2. ASSUME stamps' = stamps + 1, stamps < MaxStamps
      PROVE  stamps' \in Stamps
  BY <1>1, <1>2, BoundsAssumption DEF Stamps
<1>3. CASE Arrive(p)
  <2>1. disk' = disk
    BY <1>3 DEF Arrive, diskVars
  <2>2. CASE stamps' = stamps /\ call'.fact = Nothing
    <3>1. OnlyNew(Nothing)
      BY <1>1, <2>1, <2>2, OldOnes DEF OnlyNew
    <3>2. QED
      BY <2>2, <3>1, NoneNew
  <2>3. CASE stamps' = stamps + 1 /\ stamps < MaxStamps
             /\ call'.fact = [content |-> stamps', stamp |-> stamps']
    <3>1. PICK x : x = [content |-> stamps', stamp |-> stamps']
      OBVIOUS
    <3>2. x \in File /\ x.stamp = stamps'
      BY <1>2, <2>3, <3>1 DEF File
    <3>3. OnlyNew(x)
      BY <1>1, <2>1, <2>3, <3>1, OldOnes DEF OnlyNew
    <3>4. QED
      BY <2>3, <3>2, <3>3, OneNew
  <2>4. QED
    BY <1>3, <2>2, <2>3 DEF Arrive
<1>4. CASE ByHand(p)
  <2>0. call' = call
    BY <1>4 DEF ByHand, WriteByHand, Touch, MakeDirectory, RemoveByHand, NotByHand
  <2>1. CASE WriteByHand(p)
    <3>1. PICK x : x = [content |-> stamps', stamp |-> stamps']
      OBVIOUS
    <3>2. stamps' = stamps + 1 /\ stamps < MaxStamps /\ disk' = Placed(p, x)
      BY <2>1, <3>1 DEF WriteByHand
    <3>3. x \in File /\ x.stamp = stamps'
      BY <1>2, <3>1, <3>2 DEF File
    <3>4. OnlyNew(x)
      BY <1>1, <2>0, <3>2, PlacedWhole, OldOnes DEF OnlyNew
    <3>5. QED
      BY <3>2, <3>3, <3>4, OneNew
  <2>2. CASE Touch(p)
    <3>1. /\ stamps' = stamps + 1 /\ stamps < MaxStamps /\ disk[p] \in File
          /\ disk' = [disk EXCEPT ![p].stamp = stamps']
      BY <2>2 DEF Touch, IsFileAt
    <3>2. PICK x : x = [disk[p] EXCEPT !.stamp = stamps']
      OBVIOUS
    <3>3. x \in File /\ x.stamp = stamps'
      BY <1>2, <3>1, <3>2 DEF File
    <3>4. \A q \in Paths : disk'[q] \in {disk[q], x}
      BY <3>1, <3>2 DEF TypeOK
    <3>5. OnlyNew(x)
      BY <1>1, <2>0, <3>4, OldOnes DEF OnlyNew
    <3>6. QED
      BY <3>1, <3>3, <3>5, OneNew
  <2>3. CASE MakeDirectory(p) \/ RemoveByHand(p)
    <3>1. \A q \in Paths : disk'[q] \in {disk[q], Nothing, Directory}
      BY <2>3 DEF MakeDirectory, RemoveByHand, Placed, Without
    <3>2. stamps' = stamps
      BY <2>3 DEF MakeDirectory, RemoveByHand
    <3>3. OnlyNew(Nothing)
      BY <1>1, <2>0, <3>1, OldOnes DEF OnlyNew
    <3>4. QED
      BY <3>2, <3>3, NoneNew
  <2>4. QED
    BY <1>4, <2>1, <2>2, <2>3 DEF ByHand
<1>5. QED
  BY <1>3, <1>4

LEMMA OneContentStays ==
  ASSUME TypeOK, OneContent, [LooksWhole]_vars, [Next]_vars
  PROVE  OneContent'
<1>1. CASE Crash
  <2>1. /\ UNCHANGED <<index, disk, trash, stamps>> /\ apply' = Resting /\ call' = Resting
        /\ restore' = Resting /\ janitor' = [NoScan EXCEPT !.at = "load"]
    BY <1>1 DEF Crash, diskVars
  <2>2. \A q \in Paths : janitor'.found[q] = Nothing
    BY <2>1 DEF NoScan
  <2>3. OnlyNew(Nothing)
    BY <2>1, <2>2, RestTypes, OldOnes DEF OnlyNew
  <2>4. QED
    BY <2>1, <2>3, NoneNew
<1>2. CASE UNCHANGED vars
  BY <1>2 DEF vars, diskVars, OneContent, AllFiles
<1>3. CASE ~UNCHANGED vars
  BY <1>1, <1>3, JanitorWhole, WatcherWhole, CallWhole, RestoreWhole, SaveWhole, NewWhole
  DEF Next, Requests, Handlers
<1>4. QED
  BY <1>2, <1>3

LEMMA OneContentAtFirst == FirstTell /\ Init => OneContent
<1> SUFFICES ASSUME FirstTell, Init PROVE OneContent
  OBVIOUS
<1>1. ASSUME NEW p \in Paths, NEW f \in AllFiles(p)
      PROVE  f \in File /\ f \in {Found[p]} \cup {i.file : i \in {k \in Kept : k.path = p}}
  BY <1>1, NotFiles DEF Init, AllFiles, Resting, NoScan
<1>2. \A p \in Paths : \A f \in AllFiles(p) : f.stamp <= stamps
  BY <1>1, FirstAssumption DEF Init
<1>3. QED
  BY <1>1, <1>2 DEF OneContent, FirstTell

(***************************************************************************)
(* The other way: restores or not, a file that has the size and time of    *)
(* its row has its content as long as no file is replaced between the look *)
(* at its time and its hash.  It takes a torn look and a restore to make   *)
(* the quick check (scan.go, watch.go) wrong.                              *)
(***************************************************************************)
THEOREM StampsTellWhole ==
  ASSUME FirstTell
  PROVE  Spec /\ [][LooksWhole]_vars => []StampsTell
<1>1. Init => TypeOK /\ OneContent
  BY FirstTypes, OneContentAtFirst
<1>2. TypeOK /\ OneContent /\ [LooksWhole]_vars /\ [Next]_vars => (TypeOK /\ OneContent)'
  BY TypesStay, OneContentStays
<1>3. OneContent => StampsTell
  BY DEF OneContent, StampsTell, AllFiles, IsFileAt
<1>4. QED
  BY <1>1, <1>2, <1>3, PTL DEF Spec

(***************************************************************************)
(* So a scan that nothing disturbed makes the index true (scan.go: "the    *)
(* thing that actually guarantees the index is true") and touching a file  *)
(* wakes nobody, if nothing is restored or if every look is whole.         *)
(***************************************************************************)
THEOREM ScanMakesTrueUnrestored ==
  ASSUME FilesGoAlong
  PROVE  Spec /\ [](restore = Resting) => []ScanIsTrue /\ TouchIsQuiet
BY StampsTellUnrestored, ScanMakesTrue, TouchStaysQuiet, PTL

THEOREM ScanMakesTrueWhole ==
  ASSUME FilesGoAlong, FirstTell
  PROVE  Spec /\ [][LooksWhole]_vars => []ScanIsTrue /\ TouchIsQuiet
BY StampsTellWhole, ScanMakesTrue, TouchStaysQuiet, PTL

=============================================================================
