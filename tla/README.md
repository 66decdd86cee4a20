# HomeSync, specified

TLA+ models of HomeSync: the server that owns the files, keeps an index of them and
backs them up, and the command line client that keeps a folder in step with it. The
models are translated from the Go sources (`server/internal/...`, `server/cmd/homesync`,
`clients/cli/...`); every definition's source lines are in `PROJECT.json` under `map`.

## 1. The system

```
 user's folder <-> sync engine <---- HTTP ---->  file API  <-> file store, trash
                   state db           |              |
                      ^               |              v
                      +--- events <---+---------  index (SQLite) <-- rescan, watcher,
                                                     ^                janitor, restore, ignore rules
                                                     +-- change feed
```

| component | state | operations | what makes it correct |
|---|---|---|---|
| index (`index/index.go`) | one row per path with a revision, the counter `current_rev` | Lookup, Upsert, MarkDeleted, PruneTombstones, Changes, All | revisions unique and rising; no two live names equal but for case |
| change feed (`api/changes.go`, `AllChanges`) | client: cursor, page, persisted `last_rev` | page, collect, apply, store the cursor | nothing at or below the cursor missed; never backwards; catches up |
| file API (`api/files.go`) | none of its own; disk, trash and index | PUT/DELETE file, PUT/DELETE directory, GET | no accepted content lost; index and disk agree; each request seems atomic against the revision it names |
| file store, trash (`store`, `trash`) | the data directory, the trash directory | Write (temporary file and rename), Mkdir, Remove; Put, List, Lookup, Purge | a reader sees whole files; what is trashed can be restored |
| rescan, watcher (`index/scan.go`, `watch.go`) | timers per path | walk and compare, delayed apply | index converges to the disk; no live upload tombstoned |
| restore, ignore rules (`api/misc.go`, `ignore/`) | rules and their version | restore, save, refresh, purge | restoring clobbers nothing; both sides read a rule alike |
| events (`api/events.go`, daemon loop) | a bounded channel per subscriber, a wake flag | subscribe, publish, coalesce | a change is followed by a cycle |
| sync engine (`engine.go`, `state.go`, `store.go`) | the folder, the state database, `last_rev` | pull, delete guard, apply, park, push, push deletions | no edit lost, only users delete, everything settles |
| backup (`backup/`) | run slot, disk lock, snapshots, history | trigger, run, cancel, stop, prune, schedule | one run at a time; only complete snapshots count; retention keeps what it promises |
| schedule (`backup/cron.go`, `manager.go`) | configuration in memory and stored, a wake channel | parse, next firing, save, wait | fires at every minute that matches and at no other; a saved schedule takes effect |
| encryption (`crypt/`, `cmd/homesync/key.go`) | chunked file format | encrypt, open, read at an offset, convert a tree | no damaged file reads as another content; an interrupted conversion can be finished |

Components interact by HTTP calls, through the shared SQLite index (a single
connection, so a transaction is one atomic step), through the shared data
directory (renames, no lock), and by the index's change callback, which feeds the
event stream.

What is hard here: HTTP handlers run concurrently and take no lock; a change
query is two SQL queries; a client applies a page that may be out of date; a
cycle can die between any two steps and the next one starts from disk, state
database and cursor alone; an upload's answer can be lost; users edit while
all this happens. On the server the rescan, the watcher, restores, purges and
uploads share a directory and an index and take no common lock. A backup, a deletion of a
snapshot, a shutdown and a saved schedule race for the one slot a run has. The full list, each at its line, is `hazards` in `PROJECT.json`.

## 2. The modules

`Index` has variables and operations but no behaviour of its own. A row's contents
are abstract (`Facts`), `Fold` stands for `FoldPath`. `Retention` and `Cron` are pure
functions: each has the code's loop and the same thing said without one.

```
Index <- FileCalls     <- FileServer              (the promise)
         FileCalls     <- ServerFiles <- MCServerFiles, ServerFilesProofs
                          ServerFiles instantiates FileServer
DataDir                <- MCDataDir, DataDirProofs

OneBackup                                         (the promise)
Retention <- BackupManager   instantiates OneBackup
Index     <- SyncEngine <- MCSyncEngine, SyncEngineProofs
SyncEngine, BackupManager <- SyncAndBackup
MCSyncEngine, SyncAndBackup <- MCSyncAndBackup

Index     <- Changes <- MCChanges, ChangesProofs
Retention <- Thinning
Cron      <- Scheduler
Volume, EventStream
Scheduler, Volume, EventStream, Thinning, Changes <- Parts <- MCParts

Retention <- RetentionProofs
RetentionProofs, BackupManager <- BackupManagerProofs
RetentionProofs, Parts         <- PartsProofs
RetentionProofs, Volume        <- VolumeProofs
```

### Changes
One client pulls while the server writes. `ReadCounter` and
`ReadPageAndGoOn`/`ReadLastPage` are the two queries of `Index.Changes`, so writes
land between them; `CursorAfterPull` is what `Engine.pull` stores. `view[p]`
records which entry of `p` the client processed last; it exists for the properties.
`SkipEntry` is the `IsNotFound` branch of `pull`. `AbandonPull` is an error or a
death of the client at any point.

Assumption: `WithinRetention` says no client stays away longer than
`TOMBSTONE_DAYS`; the server itself does not check it. `DiskMayLoseContent` says
whether a row can be live while its content is away, which `ServerFiles` shows to
be possible.

### FileCalls, FileServer, ServerFiles
`ServerFiles` has one action per query, transaction or rename of a handler:
`LookupPut`/`LookupDelete`/`LookupDir`, `CheckCase`, `CheckPut`, `CheckDir`, `MoveToTrash`,
`Write`/`WriteFails`, `Undo`, `RecordFile`/`RecordDir`, `Mkdir`, `Remove`, `Mark`, and
`Crash`. Any number of requests interleave. The row read by the lookup is
remembered and used later (`seen`), as in the code. The index goes by the spelling of a path, the disk by what the
volume makes of it: `On[p]` is the name under which the volume files `p`, so that on a case-insensitive volume a body
written for one spelling replaces what lies there under another (`NoTwin` is the early check of `files.go:168-175`
against that). A directory's rename takes its
subtree along; making a file's parents turns them into directories on disk only.
`Failures` says which errors happen: an upload that breaks off, a body with the wrong
hash, an index write that fails, a death of the process.

`FileServer` is what a client may rely on: each request takes effect at one
moment against the revision it names, and accepted bodies are kept. It is the
`PROPERTY` `PromiseKept` of `ServerFiles`, with `kept` refined to the accepted
bodies that are on disk or in the trash.

`Racing` and `ConflictsApart` name the two conditions under which the code keeps the
promise: requests on one place of the volume (or one inside the other) do not overlap, where two spellings the volume takes
for one file are one place; and every conflict name is a new one (no two conflicts of a path share a second, and nobody has
asked for such a name before it exists). The violation run `server_race`
shows that the first is necessary, and what it shows of one path two twins do to each other on a
case-insensitive volume: a collision found in the transaction (`index.go:278-281`) is found after the rename. A third
condition is an assumption, `VolumeAssumption`: `FoldPath`, which is `strings.ToLower`, folds every two spellings the volume takes for
one (a volume that folds more, by Unicode normalisation for example, is outside it). A conflict's copy whose name differs by case only from a live
one is refused with `case_collision` when it is recorded; `FileServer` has that answer too.

### SyncEngine
Any number of machines, each running `SyncOnce` against the server that `FileServer`
promises. A cycle is cut where another actor can come between: between the engine's
look at a file and the rename, between request and answer, between the file
system and the state database. A body stands for content and modification
time together; `stamp` is the recorded size and time, `sum` the recorded hash. Hence
the size-and-mtime check of `pushFile` and the hash comparison of `deletable` are both
there, and a download that is newer than its entry is recorded with the
entry's hash, as the code does. `archive` holds all bodies the server accepted.
`edits`, `aborts` and `deleted` are for bounds and properties. `WhileStopped` keeps users off the folder while a cycle runs. The guard compares with a
quarter of the known files, as the default configuration does.

Paths are files only. The pull's pages are read at once: `Changes` shows that this
is sound.

### DataDir
All goroutines of the server that write the data directory or the index: the
janitor's loop (`Load` and `SetRules` are `Shared.Refresh`; `Walk`, `List`, `Compare`, `UpsertFound`,
`EndCompare`, `Tombstone` are `Index.Scan`; `PurgeTrash`), the watcher (`Noticed` is its event
handler, `Look`, `Compared`, `Hash`, `Apply` its delayed `apply`), a restore from the trash
(`BeginRestore`, `PutBack`, `Stat`, `RecordRestored`), a save of the rules with its purge
(`StoreRules` ... `MarkPurged`), an upload or a deletion, changes by hand, and a crash after
which the first scan comes before anything is served. Each step is one system call, query or
transaction; what a goroutine has read is carried along and may be out of date when it is
used. A file is a content and a stamp, so the quick check and the hash are
different tests. `calm` and `owed` exist for the properties. What disk and trash hold at first was accepted
before (`Used` contents and stamps are taken by then).

`Blind` says whether a request may come upon a path the server is wrong about: an upload or a deletion where
index and disk differ or a restore is under way, a restore of a path an upload is at, and a purge that
lists, or has listed, as a directory what is by now a file. With `Blind = TRUE` the code destroys accepted content;
`disk_restore` shows one case, and the theorem `NothingIsDestroyed` says that there are just three (section 4).

`DataDir` and `ServerFiles` divide the work: `ServerFiles` has the file API with all its refusals and
failures and nothing beside it, `DataDir` everything beside it with the accepted path of the API only.

### Retention, Thinning
`Classify` is the code's loop, a recursive function over the snapshots from the newest down with
what each tier has seen (`Visit`). `GrandfatherFatherSon` is the promise as a set: a snapshot stays if it is among the
newest `daily`, dated or not, or the last of one of the newest weeks or months, of those with a date. `Pruned` is
`prune`, stopped by an error after any number of removals. `Thinning` repeats it day by day,
each time on what the last prune left. (In `BackupManager` the prune can also stop with a snapshot half removed.)

### BackupManager, OneBackup
`Claim` takes the slot under `mu`; `StartRsync` takes the mutex `disk`; `Succeed`, `Fail`, `Cancel`
are the ways rsync ends; then `Prune`, and the deferred `Unlock` and `Release`, then
`Queue` (`queueSizes`, after the slot is free). `TakeNext`, `Look` and `StoreSize` are the worker
that measures, `BeginDelete` to `EndDelete` the deletion by name with its `TryLock`. Every removal can fail and leave part of the
tree: that of a stopped run (a warning, `run.go:242-244`), the prune's (`retention.go:128`) and the one by name (`RemovalFails`,
`manager.go:317`, after which no size is queued); and the directory may not be listed when sizes are to be queued
(`NotListed`, `manager.go:327-330`). `fate` tells how the last write of a snapshot ended, `left` being a removal that failed, and
`dropped` why sizes that ought to be measured again are not. `Stop`, `Shutdown`
and `Die` happen at any time. Hard links are inodes: a snapshot's
content is the inode of its one file, taken over from the newest older
snapshot (`LinkDest`), kept from an earlier run of the day, or new. `OneBackup` says what the directory may
rely on: one writer at a time; a run writes one snapshot and may thin out others while a newer one stays.

### Cron, Scheduler
The calendar is a table from minutes to wall clock values (`Minute`, `Hour`, `Date` and so on), so that an hour can be
missing or doubled. A field of an expression is a list of parts, and `*/1` counts as restricted although `*` does not, as in
`cron.go:64`. `NextFiring` is `Next` with its skips over months, days, hours and
minutes; `Matches` is what an expression means. `Scheduler` is `Manager.Run` with `Save` and
the channel of one that wakes it.

### Volume
A sealed byte stands for everything its chunk was sealed from, so that a chunk opens in its
place and nowhere else. `ReadFrom` is the reader at an offset, `PlainSize` the size from the
sealed length. The command of `key.go` goes file by file (`OpenSource`, `Fill`, `SealLast`, `CopyOut`,
`Install`) and can be interrupted anywhere and run again with either key, in either direction. `Misplace` and `CutShort` are
damage on the disk.

### EventStream, Parts
The server's side (`Commit`, `Publish`, `Subscribe`, `Greet`, `Announce`), the daemon's
(`Settled`, `LocalRequest`, `EventRequest`, `Tick`, the cycle), broken streams, a greeting that fails (`events.go:81`: nothing is
sent and the stream stays open), a server or client that
restarts, cycles and fetches that fail. A cycle is reduced to what it has caught up
with. `massive` is a revision that deletes more than the client's guard lets pass: a cycle that reads it is paused (`Pause`)
until somebody starts the client with a higher limit (`LetPass`). `LoadRules` and `LoadVersion` are the two queries of `Load`, `StoreRules` and `StoreVersion`
the two writes of `SetIgnore`.

`Parts` puts `Scheduler`, `Thinning`, `Volume`, `EventStream` and `Changes` side by side. They share nothing, and one of them, chosen at
the start (`subject`), moves. `SyncAndBackup` does the same with `SyncEngine` and `BackupManager` (`half`).

## 3. The runs

| run | question | result |
|---|---|---|
| `server` | do the handlers keep the promise with all failures? | holds; 184,784 states |
| `server_race` | and if requests on one path overlap? | an accepted body is lost |
| `server_interrupted` | does an upload that breaks off leave things as they were? | the file it was to replace is gone |
| `both` | two machines, three edits, one cycle dying anywhere; and backups: one writer, whole snapshots, true sizes, an end to every run? | holds; 909,099 states |
| `sync_overwrite` | the machines without a record of the file | a created file is overwritten |
| `sync_midair` | edits during a download | an edit is overwritten |
| `sync_stopped` | does a file removed from a stopped client's folder come back? | it is deleted on the server |
| `disk` | does the index come true, and is anything destroyed, whatever races, two requests at a time and none upon a path the server has wrong? | holds; 1,621,423 states |
| `disk_restore` | and if a restore meets an upload? | the uploaded content is destroyed |
| `parts` | schedule, sealed files, events, retention, paging, each on its own | holds; 1,030,520 states |
| `changes_skip` | what if content is away from the disk while a client pages? | the cursor passes a skipped entry |
| `rules_torn` | do saved rules reach a client that asks while they are saved? | old rules under the new version, for good |

The eight violation runs are recorded as findings: each quotes the line of the
repository that says otherwise. Further lines the code contradicts, for which there is no run, are in section 6.

### Properties
Each is followed in `PROJECT.json` by a mutant of the code under which it fails.

- Change feed: `CursorComplete`, `NoGhost`, `NeverBackwards`, `CatchesUp`.
- File API: `NoLostContent`, `NoCaseCollision`, `IndexTrue`, `PromiseKept`.
- Sync engine: `RecordedIsSafe` (the engine never removes the last copy of a body the state
  database has a record for), `OnlyUsersDelete` (a live row becomes a tombstone only
  for a user's deletion), `DeletionsStay` (our own write coming back does not undo
  a deletion), `Settles` (when users stop, all folders equal the server and uploads end).
- Data directory: `ScanIsTrue` (one undisturbed scan makes index and disk agree), `TouchIsQuiet`
  (once they agree, neither touching a file nor a scan hands out a revision), `NothingDestroyed`
  (an accepted content is on the disk or in the trash until it is purged or replaced by hand),
  `Settles` (index, disk and rules agree in the end). The first two and the last rest on `StampsTell`, that a file with the size and
  time of its row has its content; within the run's two events nothing breaks that, a third can (section 4).
- Backup: `SingleFlight` and `OneWriter` (slot and disk have one owner), `NoHalfBackup` (a stopped run leaves
  nothing half-made, or the failed removal was reported), `NewestGoodStays`, `GoodOnesThinOut` (only a newer good snapshot lets
  retention take a good one), `SizesTrue` (what is shown is what hard links make it once all rests, unless the code dropped a measurement: a death, a
  removal that failed, a directory that could not be listed), `EverySizeMeasured`, `EveryRunEnds`.
- Schedule: `FiresOnTime` (the sleeping loop waits for exactly the next minute that matches),
  `TakesEffect` (a saved schedule is the one the loop ends up with).
- Sealed files: `ReadsTrue` (a read gives the content or an error, at any offset, after any damage or
  interruption), `LooksUntouched` (conversion burns no revision), `WholeTree` (a run that says it is through is).
- Events: `VersionTrue` (a version is stored no sooner than its rules), `EventsSuffice` (without failures,
  a failed greeting among them, the client catches up without its poll, unless the guard has paused it), `PollingSuffices` (with the poll it
  has the newest rules whatever failed, and catches up unless it is paused).
- Retention: `ThinsAsPromised` (thinning what earlier prunes left gives what one look at all snapshots
  ever taken would keep).

### Bounds
`server`: three requests over
a file, two other spellings of its name, one of which the volume takes for the same file, a directory and a file in it, with their
conflict names; two requests conflict, the third observes or fails. Symmetry
permutes the requests, which are interchangeable.

`both`: one half moves, so the state spaces add up. Two machines, one edited
path and two conflict names, three edits or deletions in all and one aborted cycle,
with no symmetry (a liveness property is checked). Three edits are a
common ancestor and one on either side. Four edits without liveness were
explored once (3.16 million states) with the same result. Backups: three days in two weeks, the scheduler and one runner by hand, two runs, and one
other event (deletion, stop, shutdown, death, or a removal or listing that fails) between or in them; retention keeps one daily and two
weekly snapshots, so that the first day is pruned for the second. The disk begins with two
snapshots of the first week that are hard links of each other; a copy may share the file or not. Two runs of one day are
among the behaviours.

`disk`: a directory and a path in it that is a file or a directory, an item in the trash for that path,
two rule documents (one of which excludes the directory the way an anchored rule does: its
file, but no directory below it), four stamps (two are in use), and two events among requests, saves, changes by hand and crashes.
Two events are enough for any two goroutines to meet, with the janitor and the watcher always there; what three can do is in section 4.

`parts`: the subject is chosen at the start, so the five state spaces add up and do not
multiply. Paging: four paths, two of them equal but for case and one outside the
scope, pages of one entry, four revisions, one abandoned pull. Pages of one make any
pull of two entries span two requests; four revisions let a path be written,
read, written again and deleted within one pull. Calendar: five days of three hours of two minutes, weeks and months of three days; on the second day an hour
is missing, on the fourth it comes twice; six expressions (a plain one, day of month or weekday, a list with a range and
a step, a day no month has, one that does not parse, a weekday of `*/1`) and one disabled configuration, one save (two saves, 902,297 states of the scheduler alone, do not fit the run, so two reloads that become one in the
channel are not exercised). `Span` is the
horizon after which `Next` gives up. Volume: two files of up to three bytes, chunks of two, tags of two, a header of one: empty,
partial, exact and more than one chunk all occur; two keys, three runs, one damage. Events:
a channel of one, two revisions, of which one may delete too much, one save, one edit, one failure, one broken stream, one restart.
Retention: nine days, weeks of two and months of six, the fifth day without a date, every limit from its
least to two.

`rules_torn`: two saves and nothing else. `sync_stopped`: one machine, and a user who keeps off the folder while a cycle runs.

**Deadlock** is checked in `changes_skip` only: a
server without further requests rests, the guard of `SyncEngine` may pause a client for
good, and the clocks of `Scheduler` and `Thinning` end at their bound.

### Fairness
`Changes`: weak fairness of the pull's steps together, since the daemon
loop's ticker requests a cycle for ever and each step is a returning call; none for the server's
writes, for skips or for abandoning. `SyncEngine`: weak fairness of each
client's engine steps, for the same reason; none for users and failures, which are
bounded. `DataDir`: the janitor's loop (a ticker), the watcher's work once begun, and each handler
once begun; nothing is asked of requests or of the watcher's timers, whose events may be lost. `BackupManager`: the steps
of runs, worker and deletion together, because rsync has a time limit and mutexes are held for bounded
work; none for requests, stops, deaths and starts. `Scheduler`: the loop and a save once
begun, not the clock. `EventStream`: goroutines, answered requests and reconnection. The poll's ticker is not in the
fairness: `PollingSuffices` and `RulesReachEveryone` assume it, `EventsSuffice` does
without. `ServerFiles`, `Volume` and `Thinning` state safety only. In `Parts` and `SyncAndBackup` each
condition names the subject, because a part at rest owes no step.

## 4. The proofs

All for every value of the constants, under the assumptions their modules name
(`PathsAssumption`, `RunnersAssumption` and so on), which TLC evaluates in the passing runs. A theorem that needs more says so:

| hypothesis | of | meaning | without it |
|---|---|---|---|
| `~DiskMayLoseContent` | `Changes` | no row is live while its content is away | `changes_skip` |
| `~Racing` | `ServerFiles` | requests on related paths do not overlap | `server_race` |
| `ConflictsApart` | `ServerFiles` | every conflict name is new | two conflicts in a second share a name, and one copy replaces the other |
| `~MidAirEdits` | `SyncEngine` | no edit between the engine's look at a file and its rename | `sync_midair` |
| `[][~Destroys]_vars` | `DataDir` | none of three steps comes upon content it should have spared | `disk_restore` |
| `[](restore = Resting)`, or `FirstTell` and `[][LooksWhole]_vars` | `DataDir` | nothing is put back from the trash, or no file is replaced between the look at its time and its hash | see `DataDirProofs` |
| `FilesGoAlong` | `DataDir` | files of an excluded directory are excluded | see `DataDirProofs` |
| `~Torn` | `EventStream` | no save between the two queries of `Load` | `rules_torn` |

Three of the named assumptions say something of the world. `VolumeAssumption` of `ServerFiles`: the index folds every two spellings the
volume takes for one file. `CalendarAgrees` of `Cron`: clocks change at the full hour of
what they show, which is what lets `Next` jump to the end of an hour that does not match. `LinksAssumption` of `BackupManager`:
the snapshots found at the start are linked to their neighbours only, as those of this program are.

`ChangesProofs`: `PagingMissesNothing` (`CursorComplete`), `DeletionsAreLearnt` (`NoGhost`),
`ClientGoesForward` (`NeverBackwards`), `TypeCorrect`. `CursorComplete` speaks only of the stored cursor, so it is
not inductive. `IInv` adds what holds during a pull: entries collected
and entries processed before cover every row up to the paging cursor
(`Covered(cursor)`), and once the last page is read every row up to `pageRev`. The
argument rests on `PageHasNoGap` (a page of the n lowest revisions leaves none out
below its last) and on `WriteMovesOneRow` (a write moves exactly one row, above
everything any client holds). The counter being read before the rows is used in
`ReadLastPagePreserves`.

`ServerFilesProofs`. Whatever overlaps or fails: `TypeCorrect`, which
includes that a request is open exactly as long as it has a handler, and `NamesStayApart` (`NoCaseCollision`), where the check
inside the transaction alone carries the proof and the check before the write is not used. For requests
apart: `NoContentIsLost` (`NoLostContent`), `IndexStaysTrue` (`IndexTrue`) and `PromiseIsKept` (`PromiseKept`, the refinement of `FileServer`).
What the refinement is for is `NobodyOverwritesUnseen`: a live row is replaced or deleted only by the step that answers a request naming
the revision the row has at that moment, although a handler looks at the row several steps before it writes. (With `Racing` TLC
refutes that, so the condition is needed.) Their
invariant, `Safe`, is made of `Apart` (what open requests claim is unrelated), `HandlersOK` (the row a handler looked up is still the row,
the handler goes on as that row demands, and what lies where it writes is what its step supposes) and `Kept` (an
accepted body is in the trash or the content of a live file); the index adds `TreeOK` (nothing is in a file) and `Settled` (where nothing has
failed and nothing is half done, index and disk agree). `Apart` is what lets a handler use its old look: a step of
another request leaves alone all that it claims. In the refinement the one query of a handler that writes the index is the atomic
effect, a refusal or a failure is one of the promise's, and all other steps stutter.

`SyncEngineProofs`, for any number of machines and paths: `TypeCorrect`, `OnlyUsers` (`OnlyUsersDelete`, with edits at any moment);
`RecordedStaysSafe` (`RecordedIsSafe`) and `DeletedStaysDeleted` (`DeletionsStay`). `Shapes` are the types. `Believed` says what a machine may believe: a record of a path stands for a
body the server had at that revision, an entry of a pull is no older than the record, and a file the record has and the folder has
not was deleted by its user or is older than the server's. `Safe` says that what passes for synced by its
size and time is on the server, and that at each step of a cycle the file under work is what the machine last saw (`Untouched`).

`DataDirProofs`, for any tree, rules and interleaving of all the goroutines, and with `Blind` as it may be: `TypeCorrect` and
`NothingIsDestroyed` (`NothingDestroyed`). The code does destroy accepted content, and the theorem says where. `Destroys` names three
steps: an upload renamed over a file that is owed to somebody (`files.go:342`, after a look that missed it), a restore renamed over one
(`misc.go:101`), and a purge that takes out as a directory what is by now a file (`misc.go:233`). A behaviour none of whose steps
is one of these keeps every accepted content on the disk or in the trash, whatever crashes and races; each step's own lemma goes through what
its rename takes away and where that goes.

`ScanMakesTrue` (`ScanIsTrue`) and `TouchStaysQuiet` (`TouchIsQuiet`) follow from `ScanInv`: as long as nothing disturbs it, the walk has
found what is to be shown (`Seen`, because the order of names brings a directory before what is in it), what has been compared is in the index and the
rest of the index is as it was listed (`Compares`), and what is left to delete is not to be shown. Once all is at rest the only thing the watcher can be
looking at is a touched file that no rule leaves out (`OnlyTouched`), and its hash is the one it knows. Both suppose
`[]StampsTell` and `FilesGoAlong`. `StampsTell` is what the quick check supposes, and it is not true of every behaviour: a walk that reads a file's size and time and
hashes what has taken its place since makes a row of the new content and the old time, and restoring the old file makes the disk
fit that row. Three events do it, where the run has two (with `Blind = TRUE` two do): a deletion after the walk, a restore, and between the restore's check and its
rename a write by hand that the scan hashes. From then on no scan finds the difference, although `scan.go:43-45` has the full pass as
what "actually guarantees the index is true". It takes both, the torn look and the restore, and this is proved:

- `StampsTellUnrestored`: without restores `StampsTell` holds whatever races, torn looks included. The invariant is
  `StampsInv`: where a file on disk has a time that somebody has noted of its path (in the row, the walk, the watcher or
  an upload about to be recorded), it has the content noted with it, and an upload on its way has a time nobody has noted.
  A torn row then carries a time that this path never has again.
- `StampsTellWhole`: with restores it holds if no file is replaced between a look at its time and its hash (`LooksWhole`).
  The invariant is `OneContent`: of all that index, disk, trash and goroutines hold of a path, what has one time has one
  content. It needs `FirstTell`, the same of what is there when the server starts.

Hence `ScanMakesTrueUnrestored` and `ScanMakesTrueWhole`: `ScanIsTrue` and `TouchIsQuiet` in either case. `FilesGoAlong` is needed
because a directory that a rule excludes may go on being watched; it fails where a device's scope lies inside an excluded
directory (`ignore/shared.go:207-222`).

`RetentionProofs`: `ClassifyKeepsItsPromise`, that the loop equals `GrandfatherFatherSon` for every calendar, set of snapshots and
limits. `VisitAgrees` is the loop's invariant: having visited the snapshots from day
`d` up, the loop has kept exactly those the promise keeps and each tier's last period is that of
the oldest dated one visited. The induction is over the days downwards, by a smallest
counterexample (`LeastOf`, `Countdown`). Further: `PromiseStable`, that thinning what was thinned changes nothing as long as everything the promise keeps is still
there, and `NewestStays`.

`BackupManagerProofs`: `TypeCorrect`, `OneRunAtATime` (`SingleFlight`), `NoHalfBackupEver` (`NoHalfBackup`), `NewestGoodIsThere`
(`NewestGoodStays`), `GoodOnesThinOutAlways` (`GoodOnesThinOut`), `ManagerIsOneWriter` (`OneWriter`, the refinement of `OneBackup`). The
invariant is `AllInv`: types, `SingleFlight`, and `DiskInv`. The last is needed because neither
property about snapshots is inductive: it says that nothing on the disk is younger than today, that a run that is writing or thinning
writes the newest day on the disk, that a snapshot being made is partial, and that every other one is as its
`fate` says. `NewestStays` of the retention proofs then gives that a prune never
takes the snapshot the run wrote. `SizesAreTrue` (`SizesTrue`) needs `SizesInv` besides: links skip no snapshot (`LinkedInRow`), so
that a change to one snapshot changes the measure of its neighbours only; a run has noted what it writes (`Touching`); and
every size is what would be measured now, or waits in the queue, or is next to what a run or a deletion at work has noted (`Measured`).

`PartsProofs`, of the parts that share nothing:

- `ThinningKeepsItsPromise` (`ThinsAsPromised`), from `PromiseStable`: the promise about all snapshots ever taken is a subset of what is
  left, and a new day only shrinks what each tier wants of the old.
- `NextIsFirst`: `Next` of `cron.go`, with its jumps to the next month, day and hour, finds the first minute that matches, or finds none because there
  is none before its horizon. The search is a recursive function; the proof counts down from its horizon, and each jump is shown to pass no match. With it
  `FiresOnTimeAlways` (`FiresOnTime`) and `SchedulerTypeCorrect`.
- `EventTypeCorrect` (the channel keeps to its capacity), and `VersionIsTrue` (`VersionTrue`), whose invariant follows rules and version from the answer
  through the cycle into the client's database.
- `TypeCorrect` (`TypeOK`) of all of them together, from `StepOfOnePart`.

`VolumeProofs`, for every chunk and tag size, any files, keys and number of runs: `ReadsStayTrue` (`ReadsTrue`), `ConversionGoesUnseen`
(`LooksUntouched`), `ConversionIsWhole` (`WholeTree`). Every sealed byte says from what it was sealed, and the invariant `VolumeInv` is that
what they say is true. A file is its content or sealed (`Stored`): under its own header, of bytes each of which was
sealed as it says, and if no damage was done to it the chunks of its content in their order (`Whole`). A file cut short or mixed with another stays sealed in that
sense (`CutStaysSealed`, `MixStaysSealed`). `ReadFromTrue` says that a read of such a file from any offset gives its
content or an error, by counting down over the chunks; `WholeIsRead` that one without damage is read; `SealOneMore` that the
conversion's next chunk extends a true beginning; and `StepIsGood` goes through the conversion step by step, interruptions and
damage among them. What a cipher guarantees, that a chunk opens where it was sealed and nowhere else, is the model's definition `Opens`.

Model-checked only: liveness (`CatchesUp`, both `Settles`, `EverySizeMeasured`, `EveryRunEnds`, `TakesEffect`, `EventsSuffice`,
`PollingSuffices`), since fairness and `ENABLED` are out of the prover's reach.

## 5. The plan

Done: the change feed, the file API, the sync engine for files, the data directory, backup with
retention and schedule, encryption at rest, events. What is left, the most important first:

1. `SyncEngine`: directories (pushed with revision 0, deletions deepest first,
   `not_empty`), two edited paths so that the delete guard can trip, ignore rules as a set of
   paths that changes; a run with edits between install and record. Its proofs grow with it.
2. `ServerFiles` without `ConflictsApart`: two conflicts in one second.

## 6. Not modelled

- The macOS client: a second implementation in Swift of what `SyncEngine` models from Go.
- Administration pages, authentication and tokens, routing, configuration files: no state the sync
  properties depend on. The backup's history and progress are records for a page.
- Cryptographic primitives, SQLite, `net/http`, rsync's inner workings, file system durability: taken to
  do what the code relies on (atomic transactions, atomic renames; a chunk opens where it was sealed).
- Path cleaning, glob matching, and what a rule or a scope excludes, as string processing: which path
  a document excludes is a constant of `DataDir`.
- The conformance suite, a test harness.

Left out inside what is modelled, and why:

- In the run `disk`, what `Blind = TRUE` adds: an upload that meets a path the index has wrong, a restore that is
  under way at the same path, or a purge whose list is out of date. The code destroys content there: `disk_restore` shows the restore, and
  `purgeIgnored` (`misc.go:209-245`) removes with `store.Remove` what it listed as a directory, which
  by then can be an uploaded or restored file, although its comment (`misc.go:201-206`) says
  content goes to the trash rather than being destroyed. The theorem covers both values.
- Two versions of a file with one size and one millisecond, which the quick check cannot tell apart.
- A save of the rules between the two queries of `Load` in `parts` (`Torn = FALSE`): `rules_torn` has it.
- Two saves of the backup configuration at once; the listing of snapshots and its use in `queueSizes`, which are one step.
- A day without a midnight in `Cron`: `cron.go:149-156` makes the next day's midnight with `time.Date`, which west of UTC
  gives an hour of the day before where that midnight does not exist.
- The chunk the reader has loaded (`crypt.go:400-407`): after a load that failed it keeps the number of the old chunk with an empty
  buffer; no caller goes on reading after an error.
- Two saves of the rules in one millisecond, or with the clock set back: the version is `UnixMilli` (`shared.go:144`) and unique in the model.
- A sealed file cut inside its header, and a plaintext that begins with the magic: both are taken for
  what they look like.
- Files the walk passes over: symlinks, unreadable and unrepresentable names.

Where the code differs from a comment or a document and no run shows it; the models follow the code:

- `scan.go:43-45`: a full pass "actually guarantees the index is true". Not after a torn look and a restore (section 4).
- `scan.go:175-177` says that a touched file's new time is recorded. The code goes on without writing, so the file is hashed at every scan.
- `watch.go:253` compares size and time but not the type, which the scan does compare; in the model no directory's row has a file's time.
- `main.go:206-207` and `clients/cli/README.md:267-269`: a cycle the delete guard paused is "not retried on a timer". The branch
  only passes over the warning, and the ticker asks for the next cycle as for any other. (`PollingSuffices` would fail without that: a client whose
  deletions have become plausible would wait for an event.)
- `retention.go:88-89`: nothing claims a snapshot whose name is no date. It is kept while it is among the newest `Daily`.
- `manager.go:101-116`: `Save` is not serialised, and two at once can leave one configuration in memory and the other in the database. The
  model has one at a time.
