-------------------------- MODULE SyncEngineProofs --------------------------
(***************************************************************************)
(* Proofs about SyncEngine for every number of machines, paths, edits and  *)
(* cycles cut short: types, what makes a deletion, and, while nobody edits *)
(* a file that is being replaced, that recorded files are safe and that a  *)
(* deletion is not undone.                                                 *)
(***************************************************************************)
EXTENDS SyncEngine, TLAPS

LEMMA BodiesAre == Absent = NoFacts /\ Bodies \cup {Absent} = Facts \cup {NoFacts} /\ Absent \notin Bodies
BY BodiesAssumption, FactsAssumption DEF Absent, Bodies

LEMMA IdleIs ==
  /\ Idle \in Job
  /\ \A p \in Paths : Idle.batch[p] = NoRow /\ Idle.found[p] = Absent
  /\ Idle.at = "idle" /\ Idle.gone = {}
<1>1. (CHOOSE p \in Paths : TRUE) \in Paths
  BY FolderAssumption
<1>2. NoRow \in Row
  BY DEF NoRow, Row
<1>3. NoBatch \in [Paths -> Row] /\ NoFiles \in [Paths -> Bodies \cup {Absent}]
  BY <1>2 DEF NoBatch, NoFiles
<1>4. QED
  BY <1>1, <1>3 DEF Idle, Job, Stages, NoBatch, NoFiles

LEMMA UpsertTyped ==
  ASSUME IndexTypeOK, NEW p \in Paths, NEW f \in Facts \cup {NoFacts}, Upsert(p, f)
  PROVE  IndexTypeOK'
<1>1. currentRev' \in Nat /\ [rev |-> currentRev', deleted |-> FALSE, facts |-> f] \in Row
  BY DEF Upsert, IndexTypeOK, Row
<1>2. QED
  BY <1>1 DEF Upsert, IndexTypeOK

LEMMA MarkTyped ==
  ASSUME IndexTypeOK, NEW p \in Paths, MarkDeleted(p)
  PROVE  IndexTypeOK'
<1>1. currentRev' \in Nat /\ [rev |-> currentRev', deleted |-> TRUE, facts |-> NoFacts] \in Row
  BY DEF MarkDeleted, IndexTypeOK, Row
<1>2. QED
  BY <1>1 DEF MarkDeleted, IndexTypeOK

(***************************************************************************)
(* The shapes of the variables.  A record says no more here than that its  *)
(* parts are bodies or absent: what a record may hold is TypeOK's, and     *)
(* needs what the server has told the client.                              *)
(***************************************************************************)
Recorded == [stamp : Bodies \cup {Absent}, sum : Bodies \cup {Absent}, rev : Nat]

DiskType == disk \in [Clients -> [Paths -> Bodies \cup {Absent}]]
RecordType == record \in [Clients -> [Paths -> Recorded]]
JobType == job \in [Clients -> Job]

Shapes ==
  /\ IndexTypeOK /\ DiskType /\ RecordType /\ JobType
  /\ archive \subseteq Bodies
  /\ lastRev \in [Clients -> Nat]
  /\ edits \in 0 .. MaxEdits /\ aborts \in 0 .. MaxAborts
  /\ deleted \in [Clients -> SUBSET Paths]

LEMMA NothingIsTyped == NoRow \in Row /\ NoRecord \in Recorded
<1>1. NoRow \in Row
  BY DEF NoRow, Row
<1>2. NoRecord \in Recorded
  BY DEF NoRecord, Recorded
<1>3. QED
  BY <1>1, <1>2

LEMMA RowsAre ==
  ASSUME Shapes
  PROVE  /\ currentRev \in Nat
         /\ \A p \in Paths : rows[p].rev \in Nat /\ rows[p].facts \in Bodies \cup {Absent}
BY BodiesAre DEF Shapes, IndexTypeOK, Row

LEMMA Parts ==
  ASSUME Shapes, NEW c \in Clients
  PROVE  /\ job[c] \in Job /\ job[c].path \in Paths /\ job[c].got \in Bodies \cup {Absent}
         /\ job[c].gotRev \in Nat /\ job[c].gone \subseteq Paths /\ job[c].at \in Stages
         /\ \A p \in Paths :
              /\ disk[c][p] \in Bodies \cup {Absent} /\ job[c].found[p] \in Bodies \cup {Absent}
              /\ record[c][p].rev \in Nat /\ record[c][p].sum \in Bodies \cup {Absent}
              /\ record[c][p].stamp \in Bodies \cup {Absent}
              /\ job[c].batch[p] \in Row /\ job[c].batch[p].rev \in Nat
              /\ job[c].batch[p].facts \in Bodies \cup {Absent}
<1>1. job[c] \in Job
  BY DEF Shapes, JobType
<1>2. \A p \in Paths : disk[c][p] \in Bodies \cup {Absent} /\ record[c][p] \in Recorded
  BY DEF Shapes, DiskType, RecordType
<1>3. \A p \in Paths : job[c].batch[p] \in Row /\ job[c].found[p] \in Bodies \cup {Absent}
  BY <1>1 DEF Job
<1>4. \A e \in Row : e.rev \in Nat /\ e.facts \in Bodies \cup {Absent}
  BY BodiesAre DEF Row
<1>5. QED
  BY <1>1, <1>2, <1>3, <1>4 DEF Job, Recorded

LEMMA PutIs ==
  ASSUME DiskType, NEW c \in Clients, NEW p \in Paths, NEW b \in Bodies \cup {Absent}, Put(c, p, b)
  PROVE  /\ DiskType'
         /\ \A d \in Clients, q \in Paths :
              disk'[d][q] = IF d = c /\ q = p THEN b ELSE disk[d][q]
BY DEF DiskType, Put

LEMMA RecordIs ==
  ASSUME RecordType, NEW c \in Clients, NEW p \in Paths, NEW r \in Recorded, Record(c, p, r)
  PROVE  /\ RecordType'
         /\ \A d \in Clients, q \in Paths :
              record'[d][q] = IF d = c /\ q = p THEN r ELSE record[d][q]
BY DEF RecordType, Record

LEMMA ForgetIs ==
  ASSUME RecordType, NEW c \in Clients, NEW p \in Paths, Forget(c, p)
  PROVE  /\ RecordType'
         /\ \A d \in Clients, q \in Paths :
              record'[d][q] = IF d = c /\ q = p THEN NoRecord ELSE record[d][q]
BY NothingIsTyped DEF RecordType, Record, Forget

LEMMA JobIs ==
  ASSUME JobType, NEW c \in Clients, NEW j \in Job, job' = [job EXCEPT ![c] = j]
  PROVE  JobType' /\ job'[c] = j /\ \A d \in Clients : d # c => job'[d] = job[d]
BY DEF JobType

\* A step of a job that leaves its lists alone.
Moved(c, stage, p, g, r) ==
  /\ JobType' /\ \A d \in Clients : d # c => job'[d] = job[d]
  /\ job'[c].at = stage /\ job'[c].path = p /\ job'[c].got = g /\ job'[c].gotRev = r
  /\ job'[c].batch = job[c].batch /\ job'[c].found = job[c].found
  /\ job'[c].gone = job[c].gone

LEMMA Moves ==
  ASSUME JobType, NEW c \in Clients, NEW stage \in Stages, NEW p \in Paths,
         NEW g \in Bodies \cup {Absent}, NEW r \in Nat,
         \/ job' = [job EXCEPT ![c].at = stage]
            /\ p = job[c].path /\ g = job[c].got /\ r = job[c].gotRev
         \/ job' = [job EXCEPT ![c].path = p, ![c].at = stage]
            /\ g = job[c].got /\ r = job[c].gotRev
         \/ job' = [job EXCEPT ![c].got = g, ![c].at = stage]
            /\ p = job[c].path /\ r = job[c].gotRev
         \/ job' = [job EXCEPT ![c].path = p, ![c].got = g, ![c].at = stage]
            /\ r = job[c].gotRev
         \/ job' = [job EXCEPT ![c].gotRev = r, ![c].at = stage]
            /\ p = job[c].path /\ g = job[c].got
         \/ job' = [job EXCEPT ![c].got = g, ![c].gotRev = r, ![c].at = stage]
            /\ p = job[c].path
  PROVE  Moved(c, stage, p, g, r)
<1>1. job[c] \in Job
  BY DEF JobType
<1>2. /\ job'[c].at = stage /\ job'[c].path = p /\ job'[c].got = g /\ job'[c].gotRev = r
      /\ job'[c].batch = job[c].batch /\ job'[c].found = job[c].found
      /\ job'[c].gone = job[c].gone /\ job'[c].upTo = job[c].upTo
      /\ job'[c] \in Job
  BY <1>1 DEF JobType, Job
<1>3. DOMAIN job' = Clients /\ \A d \in Clients : d # c => job'[d] = job[d]
  BY DEF JobType
<1>4. JobType'
  BY <1>1, <1>2, <1>3 DEF JobType
<1>5. QED
  BY <1>2, <1>3, <1>4 DEF Moved

LEMMA EntryDoneIs ==
  ASSUME JobType, NEW c \in Clients, NEW p \in Paths, EntryDone(c, p)
  PROVE  /\ JobType'
         /\ \A d \in Clients : d # c => job'[d] = job[d]
         /\ job'[c].at = "apply" /\ job'[c].found = job[c].found /\ job'[c].gone = job[c].gone
         /\ \A q \in Paths : job'[c].batch[q] = IF q = p THEN NoRow ELSE job[c].batch[q]
<1> DEFINE b == [job[c].batch EXCEPT ![p] = NoRow]
<1> DEFINE j == [job[c] EXCEPT !.batch = b, !.at = "apply"]
<1>1. job[c] \in Job /\ job[c].batch \in [Paths -> Row]
  BY DEF JobType, Job
<1>2. b \in [Paths -> Row]
  BY <1>1, NothingIsTyped
<1>3. \A q \in Paths : b[q] = IF q = p THEN NoRow ELSE job[c].batch[q]
  BY <1>1
<1>4. job' = [job EXCEPT ![c] = j]
  BY DEF EntryDone
<1> HIDE DEF b
<1>5. j \in Job /\ j.at = "apply" /\ j.batch = b /\ j.found = job[c].found /\ j.gone = job[c].gone
  BY <1>1, <1>2 DEF Job, Stages
<1> HIDE DEF j
<1>6. QED
  BY <1>3, <1>4, <1>5, JobIs

LEMMA FileDoneIs ==
  ASSUME JobType, NEW c \in Clients, NEW p \in Paths, FileDone(c, p)
  PROVE  /\ JobType'
         /\ \A d \in Clients : d # c => job'[d] = job[d]
         /\ job'[c].at = "push" /\ job'[c].batch = job[c].batch /\ job'[c].gone = job[c].gone
         /\ \A q \in Paths : job'[c].found[q] = IF q = p THEN Absent ELSE job[c].found[q]
<1> DEFINE f == [job[c].found EXCEPT ![p] = Absent]
<1> DEFINE j == [job[c] EXCEPT !.found = f, !.at = "push"]
<1>1. job[c] \in Job /\ job[c].found \in [Paths -> Bodies \cup {Absent}]
  BY DEF JobType, Job
<1>2. f \in [Paths -> Bodies \cup {Absent}]
  BY <1>1
<1>3. \A q \in Paths : f[q] = IF q = p THEN Absent ELSE job[c].found[q]
  BY <1>1
<1>4. job' = [job EXCEPT ![c] = j]
  BY DEF FileDone
<1> HIDE DEF f
<1>5. j \in Job /\ j.at = "push" /\ j.found = f /\ j.batch = job[c].batch /\ j.gone = job[c].gone
  BY <1>1, <1>2 DEF Job, Stages
<1> HIDE DEF j
<1>6. QED
  BY <1>3, <1>4, <1>5, JobIs

----------------------------------------------------------------------------
(* What the clients know of the server. *)

(***************************************************************************)
(* What a client may believe: rev and body were the server's for p, and if *)
(* they are not any more, something newer is.                              *)
(***************************************************************************)
SeenAt(p, rev, body) ==
  /\ 0 < rev /\ rev <= rows[p].rev
  /\ rev = rows[p].rev => Live(p) /\ rows[p].facts = body
  /\ body \in archive

RowsOK ==
  \A p \in Paths :
    /\ rows[p].rev <= currentRev
    /\ Live(p) => 0 < rows[p].rev /\ rows[p].facts \in archive

\* Stages of a pull with an entry under way, and of a push with a file.
Fetching == {"unpark", "download", "install", "record"}
Sending == {"upload", "uploaded", "refetch", "reinstall", "rerecord"}
Pushing == Sending \cup {"push", "deletions", "forgetgone"}

RecordsOK(c) ==
  \A p \in Paths : Known(c, p) => SeenAt(p, record[c][p].rev, record[c][p].sum)

\* An entry is never older than the record, and as old only if it is an echo.
EntryOK(c, p) ==
  LET e == job[c].batch[p] IN
  e # NoRow =>
    /\ 0 < e.rev /\ e.rev <= rows[p].rev
    /\ ~e.deleted => SeenAt(p, e.rev, e.facts)
    /\ record[c][p].rev <= e.rev
    /\ record[c][p].rev = e.rev => ~e.deleted /\ record[c][p].sum = e.facts

UnderWay(c) ==
  LET p == job[c].path IN
  /\ job[c].at \in Fetching =>
       /\ job[c].batch[p] # NoRow /\ ~job[c].batch[p].deleted
       /\ record[c][p].rev < job[c].batch[p].rev
  /\ At(c, "forget") => job[c].batch[p] # NoRow /\ job[c].batch[p].deleted
  /\ job[c].at \in {"install", "record"} => job[c].got \in archive
  /\ job[c].at \in Pushing => job[c].batch = NoBatch
  /\ job[c].at \notin Pushing => job[c].gone = {}
  /\ job[c].at \in Sending => job[c].found[p] # Absent
  /\ At(c, "upload") => job[c].got # Absent
  /\ job[c].at \in {"uploaded", "reinstall", "rerecord"} => SeenAt(p, job[c].gotRev, job[c].got)
  /\ job[c].at \in {"upload", "uploaded", "record", "rerecord"} /\ disk[c][p] = Absent
       => p \in deleted[c]

\* A file the record has and the disk has not was deleted by its user, or is
\* on its way: the server has something newer.
Vanished(c) ==
  /\ \A p \in Paths : Known(c, p) /\ disk[c][p] = Absent
       => p \in deleted[c] \/ record[c][p].rev < rows[p].rev
  /\ \A p \in job[c].gone :
       /\ job[c].found[p] = Absent
       /\ p \in deleted[c] \/ record[c][p].rev < rows[p].rev

ClientOK(c) ==
  RecordsOK(c) /\ (\A p \in Paths : EntryOK(c, p)) /\ UnderWay(c) /\ Vanished(c)

Believed == RowsOK /\ \A c \in Clients : ClientOK(c)

ServerGoesOn ==
  /\ archive \subseteq archive'
  /\ \A p \in Paths : rows'[p] = rows[p] \/ rows[p].rev < rows'[p].rev

OthersAlone(c) ==
  \A d \in Clients : d # c =>
    /\ job'[d] = job[d] /\ disk'[d] = disk[d] /\ record'[d] = record[d]
    /\ deleted'[d] = deleted[d]

LEMMA SeenStays ==
  ASSUME Shapes, Shapes', ServerGoesOn, NEW p \in Paths, NEW r \in Nat, NEW b, SeenAt(p, r, b)
  PROVE  SeenAt(p, r, b)'
<1>1. rows[p].rev \in Nat /\ rows'[p].rev \in Nat
  BY DEF Shapes, IndexTypeOK, Row
<1>2. QED
  BY <1>1 DEF ServerGoesOn, SeenAt, Live

\* What a client knows stays true when somebody else moves.
LEMMA StandsStill ==
  ASSUME Shapes, Shapes', ServerGoesOn, NEW d \in Clients, ClientOK(d),
         job'[d] = job[d], disk'[d] = disk[d], record'[d] = record[d], deleted'[d] = deleted[d]
  PROVE  ClientOK(d)'
<1>1. \A p \in Paths : /\ rows[p].rev \in Nat /\ rows'[p].rev \in Nat /\ rows[p].rev <= rows'[p].rev
                       /\ record[d][p].rev \in Nat /\ job[d].batch[p].rev \in Nat
  <2>1. \A p \in Paths : rows[p].rev \in Nat /\ rows'[p].rev \in Nat
    BY DEF Shapes, IndexTypeOK, Row
  <2>2. \A p \in Paths : rows[p].rev <= rows'[p].rev
    BY <2>1 DEF ServerGoesOn
  <2>3. QED
    BY <2>1, <2>2, Parts
<1>2. job[d].path \in Paths /\ job[d].gotRev \in Nat /\ job[d].gone \subseteq Paths
  BY DEF Shapes, JobType, Job
<1>3. \A p \in Paths : Known(d, p)' <=> Known(d, p)
  BY DEF Known
<1>4. RecordsOK(d)'
  <2>1. \A p \in Paths : Known(d, p) => SeenAt(p, record[d][p].rev, record[d][p].sum)
    BY DEF ClientOK, RecordsOK
  <2>2. \A p \in Paths : \A r \in Nat : \A b : SeenAt(p, r, b) => SeenAt(p, r, b)'
    BY SeenStays
  <2>3. QED
    BY <1>1, <1>3, <2>1, <2>2 DEF RecordsOK, SeenAt, Live
<1>5. \A p \in Paths : EntryOK(d, p)'
  <2>1. ASSUME NEW p \in Paths PROVE EntryOK(d, p)'
    <3>1. EntryOK(d, p)
      BY DEF ClientOK
    <3>2. \A b : SeenAt(p, job[d].batch[p].rev, b) => SeenAt(p, job[d].batch[p].rev, b)'
      BY <1>1, SeenStays
    <3>3. QED
      BY <1>1, <3>1, <3>2 DEF EntryOK, SeenAt, Live
  <2>2. QED
    BY <2>1
<1>6. UnderWay(d)'
  <2>1. archive \subseteq archive'
    BY DEF ServerGoesOn
  <2>2. UnderWay(d)
    BY DEF ClientOK
  <2>3. \A b : SeenAt(job[d].path, job[d].gotRev, b) => SeenAt(job[d].path, job[d].gotRev, b)'
    BY <1>2, SeenStays
  <2>4. QED
    BY <2>1, <2>2, <2>3 DEF UnderWay, SeenAt, Live, At
<1>7. Vanished(d)'
  BY <1>1, <1>2, <1>3 DEF ClientOK, Vanished
<1>8. QED
  BY <1>4, <1>5, <1>6, <1>7 DEF ClientOK

LEMMA OthersStay ==
  ASSUME Shapes, Shapes', Believed, NEW c \in Clients, OthersAlone(c), ServerGoesOn,
         RowsOK', ClientOK(c)'
  PROVE  Believed'
<1>1. \A d \in Clients : d # c => ClientOK(d)'
  BY StandsStill DEF Believed, OthersAlone
<1>2. QED
  BY <1>1 DEF Believed

\* A step of one client that is not a request.
LEMMA ServerAlone ==
  ASSUME Shapes, Shapes', Believed, NEW c \in Clients, OthersAlone(c), UNCHANGED serverVars,
         ClientOK(c)'
  PROVE  Believed'
<1>1. ServerGoesOn /\ RowsOK'
  BY DEF ServerGoesOn, Believed, RowsOK, serverVars, Live
<1>2. QED
  BY <1>1, OthersStay

----------------------------------------------------------------------------
(* Steps of a pull. *)

\* What a step of c may touch apart from the server, its record and its folder.
Rest(c) ==
  /\ UNCHANGED aborts
  /\ edits' \in 0 .. MaxEdits
  /\ lastRev' \in [Clients -> Nat] /\ deleted' \in [Clients -> SUBSET Paths]
  /\ \A d \in Clients : d # c => deleted'[d] = deleted[d]

\* The records of S are as good as what they replace, and the folder fits them.
RecordsFit(c, S) ==
  \A p \in S : Known(c, p)' =>
    /\ SeenAt(p, record'[c][p].rev, record'[c][p].sum)
    /\ disk'[c][p] = Absent => p \in deleted'[c] \/ record'[c][p].rev < rows[p].rev

OnlyTouches(c, S) ==
  /\ DiskType' /\ RecordType'
  /\ \A d \in Clients, q \in Paths :
       d # c \/ q \notin S => disk'[d][q] = disk[d][q] /\ record'[d][q] = record[d][q]
  /\ \A q \in Paths \ S : q \in deleted[c] => q \in deleted'[c]

LEMMA SameRow ==
  ASSUME DiskType, DiskType', RecordType, RecordType', NEW d \in Clients,
         \A q \in Paths : disk'[d][q] = disk[d][q] /\ record'[d][q] = record[d][q]
  PROVE  disk'[d] = disk[d] /\ record'[d] = record[d]
BY DEF DiskType, RecordType

LEMMA OthersLeft ==
  ASSUME Shapes, NEW c \in Clients, NEW S, OnlyTouches(c, S), Rest(c),
         \A d \in Clients : d # c => job'[d] = job[d]
  PROVE  OthersAlone(c)
BY SameRow DEF OthersAlone, OnlyTouches, Rest, Shapes

\* A step of a pull, all but what it leaves under way.
LEMMA InPull ==
  ASSUME Shapes, Believed, NEW c \in Clients, NEW S \in SUBSET Paths,
         JobType', \A d \in Clients : d # c => job'[d] = job[d],
         job[c].at \notin Pushing, job'[c].gone = job[c].gone, UNCHANGED serverVars, Rest(c),
         OnlyTouches(c, S), RecordsFit(c, S), UnderWay(c)',
         \A q \in Paths \ S : job'[c].batch[q] \in {NoRow, job[c].batch[q]},
         \A q \in S : EntryOK(c, q)'
  PROVE  Shapes' /\ Believed'
<1>1. Shapes'
  BY DEF Shapes, Rest, OnlyTouches, serverVars, IndexTypeOK
<1>2. OthersAlone(c)
  BY OthersLeft
<1>3. ClientOK(c) /\ job[c].gone = {}
  BY DEF Believed, ClientOK, UnderWay
<1>4. \A q \in Paths \ S : Known(c, q)' <=> Known(c, q)
  BY DEF Known, OnlyTouches
<1>5. rows' = rows /\ archive' = archive
  BY DEF serverVars
<1>6. RecordsOK(c)'
  <2>1. ASSUME NEW q \in Paths, Known(c, q)' PROVE SeenAt(q, record[c][q].rev, record[c][q].sum)'
    <3>1. CASE q \in S
      BY <1>5, <2>1, <3>1 DEF RecordsFit, SeenAt, Live
    <3>2. CASE q \notin S
      BY <1>3, <1>4, <1>5, <2>1, <3>2 DEF ClientOK, RecordsOK, SeenAt, Live, OnlyTouches
    <3>3. QED
      BY <3>1, <3>2
  <2>2. QED
    BY <2>1 DEF RecordsOK
<1>7. \A q \in Paths : EntryOK(c, q)'
  <2>1. ASSUME NEW q \in Paths, q \notin S PROVE EntryOK(c, q)'
    <3>1. record'[c][q] = record[c][q] /\ EntryOK(c, q)
      BY <1>3, <2>1 DEF OnlyTouches, ClientOK
    <3>2. CASE job'[c].batch[q] = NoRow
      BY <3>2 DEF EntryOK
    <3>3. CASE job'[c].batch[q] = job[c].batch[q]
      BY <1>5, <3>1, <3>3 DEF EntryOK, SeenAt, Live
    <3>4. QED
      BY <2>1, <3>2, <3>3
  <2>2. QED
    BY <2>1
<1>8. Vanished(c)'
  <2>1. ASSUME NEW q \in Paths, Known(c, q)', disk'[c][q] = Absent
        PROVE  q \in deleted'[c] \/ record'[c][q].rev < rows'[q].rev
    BY <1>3, <1>4, <1>5, <2>1 DEF RecordsFit, OnlyTouches, ClientOK, Vanished
  <2>2. QED
    BY <1>3, <2>1 DEF Vanished
<1>9. QED
  BY <1>1, <1>2, <1>6, <1>7, <1>8, ServerAlone DEF ClientOK

\* An entry is over and done with.
LEMMA AtApply ==
  ASSUME Shapes, Believed, NEW c \in Clients, NEW p \in Paths, job[c].at \notin Pushing,
         EntryDone(c, p), UNCHANGED serverVars,
         OnlyTouches(c, {p}), RecordsFit(c, {p}), Rest(c)
  PROVE  Shapes' /\ Believed'
<1>1. /\ JobType' /\ (\A d \in Clients : d # c => job'[d] = job[d])
      /\ job'[c].at = "apply" /\ job'[c].found = job[c].found /\ job'[c].gone = job[c].gone
      /\ \A q \in Paths : job'[c].batch[q] = IF q = p THEN NoRow ELSE job[c].batch[q]
  BY EntryDoneIs DEF Shapes
<1>2. job[c].gone = {}
  BY DEF Believed, ClientOK, UnderWay
<1>3. UnderWay(c)'
  BY <1>1, <1>2 DEF UnderWay, Fetching, Sending, Pushing, At
<1>4. EntryOK(c, p)'
  BY <1>1 DEF EntryOK
<1>5. QED
  BY <1>1, <1>3, <1>4, InPull

LEMMA NextEntryIs ==
  ASSUME Shapes, Believed, NEW c \in Clients, NEW p \in Paths, job[c].batch[p] # NoRow
  PROVE  LET e == job[c].batch[p] IN
         /\ 0 < e.rev /\ e.rev <= rows[p].rev
         /\ ~e.deleted => SeenAt(p, e.rev, e.facts) /\ e.facts # Absent
         /\ record[c][p].rev <= e.rev
         /\ record[c][p].rev = e.rev => ~e.deleted /\ record[c][p].sum = e.facts
BY BodiesAre DEF Believed, ClientOK, EntryOK, SeenAt, Shapes

LEMMA Nobody ==
  ASSUME Shapes, NEW c \in Clients, UNCHANGED <<lastRev, userVars, aborts>>
  PROVE  Rest(c)
BY DEF Rest, Shapes, userVars

LEMMA NotPushing ==
  /\ {"apply", "forget", "unpark", "download", "install", "record", "idle"} \cap Pushing = {}
  /\ {"unpark", "download", "install", "record", "forget", "apply", "idle"} \cap Sending = {}
BY DEF Pushing, Sending

LEMMA FolderAlone ==
  ASSUME Shapes, UNCHANGED disk
  PROVE  DiskType' /\ \A d \in Clients, q \in Paths : disk'[d][q] = disk[d][q]
BY DEF Shapes, DiskType

LEMMA FoldersAlone ==
  ASSUME Shapes, UNCHANGED disk, UNCHANGED record, UNCHANGED deleted, NEW c \in Clients, NEW S
  PROVE  OnlyTouches(c, S)
BY DEF OnlyTouches, Shapes, DiskType, RecordType

LEMMA StillFits ==
  ASSUME Shapes, Believed, UNCHANGED disk, UNCHANGED record, UNCHANGED deleted,
         NEW c \in Clients, NEW S \in SUBSET Paths
  PROVE  RecordsFit(c, S)
BY DEF RecordsFit, Believed, ClientOK, RecordsOK, Vanished, Known

LEMMA EchoKeeps ==
  ASSUME Shapes, Believed, NEW c \in Clients, ApplyEcho(c)
  PROVE  Shapes' /\ Believed'
<1>1. PICK p \in Paths : NextEntry(c, p) /\ EntryDone(c, p)
  BY DEF ApplyEcho
<1>2. UNCHANGED <<serverVars, disk, record, lastRev, userVars, aborts>> /\ job[c].at \notin Pushing
  BY NotPushing DEF ApplyEcho, At
<1>3. QED
  BY <1>1, <1>2, FoldersAlone, StillFits, AtApply, Nobody DEF userVars

LEMMA ForgetTouches ==
  ASSUME Shapes, NEW c \in Clients, NEW p \in Paths, Forget(c, p), UNCHANGED disk, UNCHANGED deleted
  PROVE  OnlyTouches(c, {p}) /\ RecordsFit(c, {p}) /\ record'[c][p] = NoRecord
<1>1. /\ RecordType'
      /\ \A d \in Clients, q \in Paths :
           record'[d][q] = IF d = c /\ q = p THEN NoRecord ELSE record[d][q]
  BY ForgetIs DEF Shapes
<1>2. OnlyTouches(c, {p}) /\ record'[c][p] = NoRecord
  BY <1>1, FolderAlone DEF OnlyTouches
<1>3. QED
  BY <1>2 DEF RecordsFit, Known

LEMMA DeletionKeeps ==
  ASSUME Shapes, Believed, NEW c \in Clients, ApplyDeletionKeeps(c) \/ ForgetRemoved(c)
  PROVE  Shapes' /\ Believed'
<1>1. PICK p \in Paths : Forget(c, p) /\ EntryDone(c, p)
  BY Parts DEF ApplyDeletionKeeps, ForgetRemoved
<1>2. UNCHANGED <<serverVars, disk, lastRev, userVars, aborts>> /\ job[c].at \notin Pushing
  BY NotPushing DEF ApplyDeletionKeeps, ForgetRemoved, At
<1>3. QED
  BY <1>1, <1>2, ForgetTouches, AtApply, Nobody DEF userVars

LEMMA RecordTouches ==
  ASSUME Shapes, NEW c \in Clients, NEW p \in Paths, NEW r \in Recorded, Record(c, p, r),
         UNCHANGED disk, UNCHANGED deleted,
         SeenAt(p, r.rev, r.sum), disk[c][p] = Absent => p \in deleted[c]
  PROVE  OnlyTouches(c, {p}) /\ RecordsFit(c, {p}) /\ record'[c][p] = r
<1>1. /\ RecordType'
      /\ \A d \in Clients, q \in Paths :
           record'[d][q] = IF d = c /\ q = p THEN r ELSE record[d][q]
  BY RecordIs DEF Shapes
<1>2. OnlyTouches(c, {p}) /\ record'[c][p] = r
  BY <1>1, FolderAlone DEF OnlyTouches
<1>3. QED
  BY <1>2 DEF RecordsFit

LEMMA IdenticalKeeps ==
  ASSUME Shapes, Believed, NEW c \in Clients, ApplyIdentical(c)
  PROVE  Shapes' /\ Believed'
<1>1. PICK p \in Paths :
        /\ FileEntry(c, p) /\ disk[c][p] = job[c].batch[p].facts
        /\ Record(c, p, [stamp |-> disk[c][p], sum |-> disk[c][p], rev |-> job[c].batch[p].rev])
        /\ EntryDone(c, p)
  BY DEF ApplyIdentical
<1> DEFINE r == [stamp |-> disk[c][p], sum |-> disk[c][p], rev |-> job[c].batch[p].rev]
<1>2. UNCHANGED <<serverVars, disk, lastRev, userVars, aborts>> /\ job[c].at \notin Pushing
  BY NotPushing DEF ApplyIdentical, At
<1>3. r \in Recorded /\ r.rev = job[c].batch[p].rev /\ r.sum = job[c].batch[p].facts
  BY <1>1, Parts DEF Recorded
<1>4. SeenAt(p, r.rev, r.sum) /\ disk[c][p] # Absent
  BY <1>1, <1>3, NextEntryIs DEF FileEntry, NextEntry
<1> HIDE DEF r
<1>5. OnlyTouches(c, {p}) /\ RecordsFit(c, {p})
  BY <1>1, <1>2, <1>3, <1>4, RecordTouches DEF r, userVars
<1>6. QED
  BY <1>1, <1>2, <1>5, AtApply, Nobody

LEMMA PulledKeeps ==
  ASSUME Shapes, Believed, NEW c \in Clients, RecordPulled(c)
  PROVE  Shapes' /\ Believed'
<1>0. PICK p \in Paths : p = job[c].path
  BY Parts
<1> DEFINE r == [stamp |-> disk[c][p], sum |-> job[c].batch[p].facts, rev |-> job[c].batch[p].rev]
<1>1. Record(c, p, r) /\ EntryDone(c, p)
  BY <1>0, Parts DEF RecordPulled
<1>2. UNCHANGED <<serverVars, disk, lastRev, userVars, aborts>> /\ job[c].at \notin Pushing
  BY <1>0, NotPushing DEF RecordPulled, At
<1>3. r \in Recorded /\ r.rev = job[c].batch[p].rev /\ r.sum = job[c].batch[p].facts
  BY <1>0, <1>1, Parts DEF Recorded
<1>4. /\ job[c].batch[p] # NoRow /\ ~job[c].batch[p].deleted
      /\ disk[c][p] = Absent => p \in deleted[c]
  BY <1>0 DEF RecordPulled, At, Believed, ClientOK, UnderWay, Fetching
<1>5. SeenAt(p, r.rev, r.sum)
  BY <1>0, <1>1, <1>3, <1>4, NextEntryIs
<1> HIDE DEF r
<1>6. OnlyTouches(c, {p}) /\ RecordsFit(c, {p})
  BY <1>0, <1>1, <1>2, <1>3, <1>4, <1>5, RecordTouches DEF userVars
<1>7. QED
  BY <1>0, <1>1, <1>2, <1>6, AtApply, Nobody

\* A step from one stage of an entry to the next.
LEMMA AtEntry ==
  ASSUME Shapes, Believed, NEW c \in Clients, NEW stage \in Stages, NEW p \in Paths,
         NEW g \in Bodies \cup {Absent}, Moved(c, stage, p, g, job[c].gotRev),
         job[c].at \notin Pushing, stage \in {"forget", "unpark", "download", "install", "record"},
         UNCHANGED serverVars, Rest(c), NEW S \in SUBSET Paths, p \in S,
         OnlyTouches(c, S), RecordsFit(c, S),
         \A q \in S : EntryOK(c, q)',
         job[c].batch[p] # NoRow, job[c].batch[p].deleted <=> stage = "forget",
         stage # "forget" => record'[c][p].rev < job[c].batch[p].rev,
         stage \in {"install", "record"} => g \in archive,
         stage = "record" /\ disk'[c][p] = Absent => p \in deleted'[c]
  PROVE  Shapes' /\ Believed'
<1>1. job[c].gone = {}
  BY DEF Believed, ClientOK, UnderWay
<1>2. UnderWay(c)'
  BY <1>1, NotPushing DEF Moved, UnderWay, Fetching, Sending, Pushing, At, serverVars
<1>3. QED
  BY <1>2, InPull DEF Moved

LEMMA AtOneEntry ==
  ASSUME Shapes, Believed, NEW c \in Clients,
         NEW stage \in {"forget", "unpark", "download", "install", "record"}, NEW p \in Paths,
         NEW g, Moved(c, stage, p, g, job[c].gotRev), g = job[c].got \/ g \in archive,
         job[c].at \notin Pushing, UNCHANGED serverVars, Rest(c),
         OnlyTouches(c, {p}), RecordsFit(c, {p}), EntryOK(c, p)',
         job[c].batch[p] # NoRow, job[c].batch[p].deleted <=> stage = "forget",
         stage # "forget" => record'[c][p].rev < job[c].batch[p].rev,
         stage \in {"install", "record"} => g \in archive,
         stage = "record" /\ disk'[c][p] = Absent => p \in deleted'[c]
  PROVE  Shapes' /\ Believed'
<1>1. g \in Bodies \cup {Absent}
  BY Parts DEF Shapes
<1>2. stage \in Stages
  BY DEF Stages
<1>3. QED
  BY <1>1, <1>2, AtEntry

LEMMA EntryStays ==
  ASSUME Shapes, Believed, NEW c \in Clients, NEW p \in Paths, UNCHANGED serverVars,
         job'[c].batch = job[c].batch, record'[c][p] \in {record[c][p], NoRecord}
  PROVE  EntryOK(c, p)'
<1>1. EntryOK(c, p)
  BY DEF Believed, ClientOK
<1>2. CASE record'[c][p] = record[c][p]
  BY <1>1, <1>2 DEF EntryOK, SeenAt, Live, serverVars
<1>3. CASE record'[c][p] = NoRecord
  <2>1. record'[c][p].rev = 0 /\ job[c].batch[p].rev \in Nat
    BY <1>3, Parts DEF NoRecord
  <2>2. QED
    BY <1>1, <2>1 DEF EntryOK, SeenAt, Live, serverVars
<1>4. QED
  BY <1>2, <1>3

LEMMA PutTouches ==
  ASSUME Shapes, NEW c \in Clients, NEW p \in Paths, NEW b \in Bodies \cup {Absent}, Put(c, p, b),
         UNCHANGED record, \A q \in Paths \ {p} : q \in deleted[c] => q \in deleted'[c]
  PROVE  OnlyTouches(c, {p}) /\ disk'[c][p] = b
<1>1. DiskType' /\ \A d \in Clients, q \in Paths :
                     disk'[d][q] = IF d = c /\ q = p THEN b ELSE disk[d][q]
  BY PutIs DEF Shapes
<1>2. QED
  BY <1>1 DEF OnlyTouches, Shapes, RecordType

\* A folder without p fits a record that the server has left behind.
LEMMA LeftBehind ==
  ASSUME Shapes, Believed, NEW c \in Clients, NEW p \in Paths, UNCHANGED record,
         record[c][p].rev < rows[p].rev \/ disk'[c][p] # Absent
  PROVE  RecordsFit(c, {p})
BY DEF RecordsFit, Believed, ClientOK, RecordsOK, Known

LEMMA RemovesKeeps ==
  ASSUME Shapes, Believed, NEW c \in Clients, ApplyDeletionRemoves(c)
  PROVE  Shapes' /\ Believed'
<1>1. PICK p \in Paths :
        /\ NextEntry(c, p) /\ job[c].batch[p].deleted /\ Put(c, p, Absent)
        /\ job' = [job EXCEPT ![c].path = p, ![c].at = "forget"]
  BY DEF ApplyDeletionRemoves
<1>2. UNCHANGED <<serverVars, record, lastRev, userVars, aborts>> /\ job[c].at \notin Pushing
  BY NotPushing DEF ApplyDeletionRemoves, At
<1>3. Moved(c, "forget", p, job[c].got, job[c].gotRev)
  BY <1>1, Moves, Parts DEF Shapes, Stages
<1>4. job[c].batch[p] # NoRow /\ record[c][p].rev < rows[p].rev
  <2>1. job[c].batch[p] # NoRow
    BY <1>1 DEF NextEntry
  <2>2. record[c][p].rev \in Nat /\ job[c].batch[p].rev \in Nat /\ rows[p].rev \in Nat
    BY Parts, RowsAre
  <2>3. QED
    BY <1>1, <2>1, <2>2, NextEntryIs
<1>5. OnlyTouches(c, {p}) /\ RecordsFit(c, {p})
  BY <1>1, <1>2, <1>4, PutTouches, LeftBehind DEF userVars
<1>6. EntryOK(c, p)'
  BY <1>2, <1>3, EntryStays DEF Moved
<1>7. QED
  BY <1>1, <1>2, <1>3, <1>4, <1>5, <1>6, AtOneEntry, Nobody

\* Not an echo, so the record is older than the entry.
LEMMA OlderRecord ==
  ASSUME Shapes, Believed, NEW c \in Clients, NEW p \in Paths, FileEntry(c, p)
  PROVE  /\ job[c].batch[p] # NoRow /\ ~job[c].batch[p].deleted
         /\ record[c][p].rev < job[c].batch[p].rev
         /\ record[c][p].rev < rows[p].rev
<1>1. job[c].batch[p] # NoRow /\ ~job[c].batch[p].deleted /\ ~Echo(c, p)
  BY DEF FileEntry, NextEntry
<1>2. record[c][p].rev \in Nat /\ job[c].batch[p].rev \in Nat /\ rows[p].rev \in Nat
  BY Parts, RowsAre
<1>3. /\ 0 < job[c].batch[p].rev /\ job[c].batch[p].rev <= rows[p].rev
      /\ record[c][p].rev <= job[c].batch[p].rev
      /\ record[c][p].rev = job[c].batch[p].rev => record[c][p].sum = job[c].batch[p].facts
  BY <1>1, NextEntryIs
<1>4. ~Known(c, p) => record[c][p].rev = 0
  BY DEF Known, NoRecord
<1>5. record[c][p].rev # job[c].batch[p].rev
  BY <1>1, <1>2, <1>3, <1>4 DEF Echo
<1>6. QED
  BY <1>1, <1>2, <1>3, <1>5

LEMMA RemoteKeeps ==
  ASSUME Shapes, Believed, NEW c \in Clients, ApplyRemote(c)
  PROVE  Shapes' /\ Believed'
<1>1. PICK p \in Paths : FileEntry(c, p) /\ job' = [job EXCEPT ![c].path = p, ![c].at = "download"]
  BY DEF ApplyRemote
<1>2. UNCHANGED <<serverVars, disk, record, lastRev, userVars, aborts>> /\ job[c].at \notin Pushing
  BY NotPushing DEF ApplyRemote, At
<1>3. Moved(c, "download", p, job[c].got, job[c].gotRev)
  BY <1>1, Moves, Parts DEF Shapes, Stages
<1>4. OnlyTouches(c, {p}) /\ RecordsFit(c, {p}) /\ EntryOK(c, p)'
  BY <1>2, <1>3, FoldersAlone, StillFits, EntryStays DEF Moved, userVars
<1>5. record'[c][p].rev < job[c].batch[p].rev
  BY <1>1, <1>2, OlderRecord
<1>6. QED
  BY <1>1, <1>2, <1>3, <1>4, <1>5, AtOneEntry, Nobody, OlderRecord

LEMMA ParkedKeeps ==
  ASSUME Shapes, Believed, NEW c \in Clients, ForgetParked(c)
  PROVE  Shapes' /\ Believed'
<1>0. PICK p \in Paths : p = job[c].path
  BY Parts
<1>1. Forget(c, p) /\ job' = [job EXCEPT ![c].at = "download"]
  BY <1>0, Parts DEF ForgetParked, Go
<1>2. UNCHANGED <<serverVars, disk, lastRev, userVars, aborts>> /\ job[c].at \notin Pushing
  BY <1>0, NotPushing DEF ForgetParked, At
<1>3. Moved(c, "download", p, job[c].got, job[c].gotRev)
  BY <1>0, <1>1, Moves, Parts DEF Shapes, Stages
<1>4. OnlyTouches(c, {p}) /\ RecordsFit(c, {p}) /\ record'[c][p] = NoRecord
  BY <1>0, <1>1, <1>2, ForgetTouches DEF userVars
<1>5. EntryOK(c, p)'
  BY <1>0, <1>1, <1>2, <1>3, <1>4, EntryStays DEF Moved
<1>6. job[c].batch[p] # NoRow /\ ~job[c].batch[p].deleted
  BY <1>0 DEF ForgetParked, At, Believed, ClientOK, UnderWay, Fetching
<1>7. record'[c][p].rev < job[c].batch[p].rev
  BY <1>0, <1>1, <1>4, <1>6, NextEntryIs DEF NoRecord
<1>8. QED
  BY <1>0, <1>1, <1>2, <1>3, <1>4, <1>5, <1>6, <1>7, AtOneEntry, Nobody

LEMMA ParkKeeps ==
  ASSUME Shapes, Believed, NEW c \in Clients, Park(c)
  PROVE  Shapes' /\ Believed'
<1>1. PICK p \in Paths, q \in Paths :
        /\ FileEntry(c, p) /\ BothMoved(c, p) /\ FirstFresh(q)
        /\ disk' = [disk EXCEPT ![c][q] = disk[c][p], ![c][p] = Absent]
        /\ job' = [job EXCEPT ![c].path = p, ![c].at = "unpark"]
  BY DEF Park
<1>2. UNCHANGED <<serverVars, record, lastRev, userVars, aborts>> /\ job[c].at \notin Pushing
  BY NotPushing DEF Park, At
<1>3. Moved(c, "unpark", p, job[c].got, job[c].gotRev)
  BY <1>1, Moves, Parts DEF Shapes, Stages
<1>4. p # q /\ rows[q] = NoRow /\ disk[c][p] # Absent
  BY <1>1 DEF BothMoved, FirstFresh, Fresh
<1>5. /\ DiskType' /\ disk'[c][p] = Absent /\ disk'[c][q] = disk[c][p]
      /\ \A d \in Clients, s \in Paths : d # c \/ s \notin {p, q} => disk'[d][s] = disk[d][s]
  BY <1>1, <1>4 DEF Shapes, DiskType
<1>6. OnlyTouches(c, {p, q})
  BY <1>2, <1>5 DEF OnlyTouches, Shapes, RecordType, userVars
<1>7. record[c][p].rev < rows[p].rev /\ record[c][p].rev < job[c].batch[p].rev
      /\ job[c].batch[p] # NoRow /\ ~job[c].batch[p].deleted
  BY <1>1, OlderRecord
<1>8. RecordsFit(c, {p, q})
  BY <1>2, <1>4, <1>5, <1>7 DEF RecordsFit, Believed, ClientOK, RecordsOK, Known
<1>9. EntryOK(c, p)' /\ EntryOK(c, q)'
  BY <1>2, <1>3, EntryStays DEF Moved
<1>10. Rest(c) /\ job[c].got \in Bodies \cup {Absent} /\ "unpark" \in Stages
  BY <1>2, Nobody, Parts DEF Stages
<1> DEFINE S == {p, q}
<1>11. S \in SUBSET Paths /\ p \in S /\ \A s \in S : EntryOK(c, s)'
  BY <1>9
<1>12. OnlyTouches(c, S) /\ RecordsFit(c, S)
  BY <1>6, <1>8
<1> HIDE DEF S
<1>13. QED
  BY <1>2, <1>3, <1>7, <1>10, <1>11, <1>12, AtEntry

LEMMA DownloadKeeps ==
  ASSUME Shapes, Believed, NEW c \in Clients, Download(c)
  PROVE  Shapes' /\ Believed'
<1>0. PICK p \in Paths : p = job[c].path
  BY Parts
<1>1. job[c].batch[p] # NoRow /\ ~job[c].batch[p].deleted
      /\ record[c][p].rev < job[c].batch[p].rev
  BY <1>0, Parts DEF Download, At, Believed, ClientOK, UnderWay, Fetching
<1>2. UNCHANGED <<serverVars, disk, record, lastRev, userVars, aborts>> /\ job[c].at \notin Pushing
  BY <1>0, NotPushing DEF Download, At
<1>3. OnlyTouches(c, {p}) /\ RecordsFit(c, {p}) /\ Rest(c)
  BY <1>0, <1>1, <1>2, FoldersAlone, StillFits, Nobody DEF userVars
<1>4. CASE EntryDone(c, p)
  <2>1. QED
    BY <1>0, <1>1, <1>2, <1>3, <1>4, AtApply
<1>5. CASE Live(p) /\ job' = [job EXCEPT ![c].got = rows[p].facts, ![c].at = "install"]
  <2>0. PICK g : g = rows[p].facts
    OBVIOUS
  <2>1. g \in archive
    BY <1>0, <1>1, <1>5, <2>0 DEF Believed, RowsOK
  <2>2. Moved(c, "install", p, g, job[c].gotRev)
    BY <1>0, <1>1, <1>5, <2>0, <2>1, Moves, Parts, RowsAre DEF Shapes, Stages
  <2>3. EntryOK(c, p)'
    BY <1>0, <1>1, <1>2, <2>2, EntryStays DEF Moved
  <2>4. QED
    BY <1>0, <1>1, <1>2, <1>3, <2>1, <2>2, <2>3, AtOneEntry
<1>6. QED
  BY <1>0, <1>4, <1>5 DEF Download

LEMMA InstallKeeps ==
  ASSUME Shapes, Believed, NEW c \in Clients, Install(c), At(c, "install")
  PROVE  Shapes' /\ Believed'
<1>0. PICK p \in Paths : p = job[c].path
  BY Parts
<1>a. PICK g : g = job[c].got
  OBVIOUS
<1>1. job[c].batch[p] # NoRow /\ ~job[c].batch[p].deleted
      /\ record[c][p].rev < job[c].batch[p].rev /\ g \in archive
  BY <1>0, <1>a, Parts DEF At, Believed, ClientOK, UnderWay, Fetching
<1>2. /\ UNCHANGED <<serverVars, record, lastRev, edits, aborts>> /\ job[c].at \notin Pushing
      /\ Put(c, p, g) /\ deleted' = [deleted EXCEPT ![c] = @ \ {p}]
      /\ job' = [job EXCEPT ![c].at = "record"]
  BY <1>0, <1>a, NotPushing DEF Install, At, Go
<1>3. g \in Bodies \cup {Absent} /\ g # Absent
  BY <1>0, <1>a, <1>1, BodiesAre DEF Shapes
<1>4. deleted' \in [Clients -> SUBSET Paths] /\ (\A d \in Clients : d # c => deleted'[d] = deleted[d])
      /\ deleted'[c] = deleted[c] \ {p}
  BY <1>2 DEF Shapes
<1>5. Rest(c)
  BY <1>2, <1>4 DEF Rest, Shapes
<1>6. OnlyTouches(c, {p}) /\ disk'[c][p] = g
  BY <1>0, <1>a, <1>1, <1>2, <1>3, <1>4, PutTouches
<1>7. RecordsFit(c, {p})
  BY <1>0, <1>a, <1>1, <1>2, <1>3, <1>6, LeftBehind
<1>8. Moved(c, "record", p, g, job[c].gotRev)
  BY <1>0, <1>a, <1>1, <1>2, <1>3, Moves, Parts DEF Shapes, Stages
<1>9. EntryOK(c, p)' /\ record'[c][p] = record[c][p]
  BY <1>0, <1>a, <1>1, <1>2, <1>8, EntryStays DEF Moved
<1>10. QED
  BY <1>0, <1>a, <1>1, <1>2, <1>3, <1>5, <1>6, <1>7, <1>8, <1>9, AtOneEntry

LEMMA StartKeeps ==
  ASSUME Shapes, Believed, NEW c \in Clients, StartCycle(c)
  PROVE  Shapes' /\ Believed'
<1> DEFINE since == lastRev[c]
<1> DEFINE j == [job[c] EXCEPT !.at = "apply", !.batch = Changed(since), !.upTo = currentRev]
<1>1. UNCHANGED <<serverVars, disk, record, lastRev, userVars, aborts>>
      /\ At(c, "idle") /\ job[c].at \notin Pushing
  BY NotPushing DEF StartCycle, At
<1>2. job[c] \in Job /\ Changed(since) \in [Paths -> Row]
      /\ \A p \in Paths : Changed(since)[p] # NoRow => Changed(since)[p] = rows[p] /\ 0 < rows[p].rev
  <2>1. rows \in [Paths -> Row] /\ since \in Nat /\ \A p \in Paths : rows[p].rev \in Nat
    BY RowsAre DEF Shapes, IndexTypeOK
  <2>2. QED
    BY <2>1, NothingIsTyped, Parts DEF Changed, Newer
<1>3. job' = [job EXCEPT ![c] = j]
  BY DEF StartCycle, Shapes, JobType
<1> DEFINE b == Changed(since)
<1>4. j \in Job /\ j.at = "apply" /\ j.batch = b /\ j.gone = job[c].gone
  BY <1>2, RowsAre DEF Job, Stages
<1> HIDE DEF j
<1>5. /\ JobType' /\ (\A d \in Clients : d # c => job'[d] = job[d])
      /\ job'[c].at = "apply" /\ job'[c].gone = job[c].gone /\ job'[c].batch = b
  BY <1>3, <1>4, JobIs DEF Shapes
<1>6. UnderWay(c)'
  <2>1. job[c].gone = {}
    BY <1>1 DEF Believed, ClientOK, UnderWay
  <2>2. QED
    BY <1>5, <2>1 DEF UnderWay, Fetching, Sending, Pushing, At
<1>7. ASSUME NEW p \in Paths PROVE EntryOK(c, p)'
  <2>1. CASE b[p] = NoRow
    BY <1>5, <2>1 DEF EntryOK
  <2>2. CASE b[p] # NoRow
    <3>1. b[p] = rows[p] /\ 0 < rows[p].rev /\ rows[p].rev \in Nat /\ record[c][p].rev \in Nat
      BY <1>2, <2>2, Parts, RowsAre
    <3>2. ~rows[p].deleted => rows[p].facts \in archive
      BY DEF Believed, RowsOK, Live
    <3>3. /\ record[c][p].rev <= rows[p].rev
          /\ record[c][p].rev = rows[p].rev => ~rows[p].deleted /\ record[c][p].sum = rows[p].facts
      BY <3>1 DEF Believed, ClientOK, RecordsOK, SeenAt, Live, Known, NoRecord
    <3>4. job'[c].batch[p] = rows[p] /\ rows' = rows /\ archive' = archive
          /\ record'[c][p] = record[c][p]
      BY <1>1, <1>5, <3>1 DEF serverVars
    <3>5. QED
      BY <3>1, <3>2, <3>3, <3>4 DEF EntryOK, SeenAt, Live
  <2>3. QED
    BY <2>1, <2>2
<1>8. OnlyTouches(c, Paths) /\ RecordsFit(c, Paths) /\ Rest(c)
  BY <1>1, FoldersAlone, StillFits, Nobody DEF userVars
<1>9. QED
  BY <1>1, <1>5, <1>6, <1>7, <1>8, InPull

----------------------------------------------------------------------------
(* Steps of a push. *)

\* Whatever a client does whose pull is over.
LEMMA NoMoreEntries ==
  ASSUME Shapes, Shapes', Believed, NEW c \in Clients, OthersAlone(c), ServerGoesOn, RowsOK',
         job'[c].batch = NoBatch, RecordsOK(c)', UnderWay(c)', Vanished(c)'
  PROVE  Believed'
<1>1. \A p \in Paths : EntryOK(c, p)'
  BY DEF EntryOK, NoBatch
<1>2. QED
  BY <1>1, OthersStay DEF ClientOK

LEMMA InPush ==
  ASSUME Shapes, Believed, NEW c \in Clients, NEW S \in SUBSET Paths,
         JobType', \A d \in Clients : d # c => job'[d] = job[d],
         job[c].at \in Pushing, job'[c].batch = job[c].batch, UNCHANGED serverVars, Rest(c),
         OnlyTouches(c, S), RecordsFit(c, S), UnderWay(c)',
         job'[c].gone \subseteq job[c].gone \ S,
         \A q \in job[c].gone : job'[c].found[q] \in {Absent, job[c].found[q]}
  PROVE  Shapes' /\ Believed'
<1>1. Shapes'
  BY DEF Shapes, Rest, OnlyTouches, serverVars, IndexTypeOK
<1>2. OthersAlone(c)
  BY OthersLeft
<1>3. ClientOK(c) /\ job[c].batch = NoBatch /\ RowsOK
  BY DEF Believed, ClientOK, UnderWay
<1>4. \A q \in Paths \ S : (Known(c, q)' <=> Known(c, q)) /\ record'[c][q] = record[c][q]
                           /\ disk'[c][q] = disk[c][q] /\ (q \in deleted[c] => q \in deleted'[c])
  BY DEF Known, OnlyTouches
<1>5. rows' = rows /\ archive' = archive /\ currentRev' = currentRev
  BY DEF serverVars
<1>6. RecordsOK(c)'
  <2>1. ASSUME NEW q \in Paths, Known(c, q)' PROVE SeenAt(q, record[c][q].rev, record[c][q].sum)'
    <3>1. CASE q \in S
      BY <1>5, <2>1, <3>1 DEF RecordsFit, SeenAt, Live
    <3>2. CASE q \notin S
      BY <1>3, <1>4, <1>5, <2>1, <3>2 DEF ClientOK, RecordsOK, SeenAt, Live
    <3>3. QED
      BY <3>1, <3>2
  <2>2. QED
    BY <2>1 DEF RecordsOK
<1>7. Vanished(c)'
  <2>1. ASSUME NEW q \in Paths, Known(c, q)', disk'[c][q] = Absent
        PROVE  q \in deleted'[c] \/ record'[c][q].rev < rows'[q].rev
    BY <1>3, <1>4, <1>5, <2>1 DEF RecordsFit, ClientOK, Vanished
  <2>2. ASSUME NEW q \in job'[c].gone
        PROVE  job'[c].found[q] = Absent /\ (q \in deleted'[c] \/ record'[c][q].rev < rows'[q].rev)
    <3>1. q \in job[c].gone /\ q \in Paths \ S
      BY <2>2, Parts
    <3>2. QED
      BY <1>3, <1>4, <1>5, <3>1 DEF ClientOK, Vanished
  <2>3. QED
    BY <2>1, <2>2 DEF Vanished
<1>8. ServerGoesOn /\ RowsOK'
  BY <1>3, <1>5 DEF ServerGoesOn, RowsOK, Live
<1>9. QED
  BY <1>1, <1>2, <1>3, <1>6, <1>7, <1>8, NoMoreEntries

\* The folder is scanned: what is gone was known and is gone by now.
LEMMA FinishKeeps ==
  ASSUME Shapes, Believed, NEW c \in Clients, FinishPull(c)
  PROVE  Shapes' /\ Believed'
<1> DEFINE gone == {p \in Paths : Known(c, p) /\ disk[c][p] = Absent}
<1> DEFINE j == [Idle EXCEPT !.at = "push", !.found = disk[c], !.gone = gone]
<1>1. UNCHANGED <<serverVars, disk, record, userVars, aborts>>
      /\ lastRev' = [lastRev EXCEPT ![c] = job[c].upTo] /\ job' = [job EXCEPT ![c] = j]
  BY DEF FinishPull
<1>2. j \in Job /\ j.at = "push" /\ j.found = disk[c] /\ j.gone = gone /\ j.batch = NoBatch
  BY IdleIs DEF Shapes, DiskType, Job, Stages, Idle
<1>3. lastRev' \in [Clients -> Nat]
  BY <1>1, Parts DEF Shapes, Job
<1> HIDE DEF j
<1>4. /\ JobType' /\ (\A d \in Clients : d # c => job'[d] = job[d])
      /\ job'[c].at = "push" /\ job'[c].found = disk[c] /\ job'[c].gone = gone
      /\ job'[c].batch = NoBatch
  BY <1>1, <1>2, JobIs DEF Shapes
<1>5. Shapes' /\ OthersAlone(c)
  BY <1>1, <1>3, <1>4 DEF Shapes, serverVars, userVars, IndexTypeOK, DiskType, RecordType, OthersAlone
<1>6. ClientOK(c) /\ RowsOK
  BY DEF Believed
<1>7. rows' = rows /\ archive' = archive /\ currentRev' = currentRev /\ deleted' = deleted
      /\ record' = record /\ disk' = disk
  BY <1>1 DEF serverVars, userVars
<1>8. RecordsOK(c)' /\ ServerGoesOn /\ RowsOK'
  BY <1>6, <1>7 DEF ClientOK, RecordsOK, Known, SeenAt, Live, ServerGoesOn, RowsOK
<1>9. UnderWay(c)'
  BY <1>4 DEF UnderWay, Fetching, Sending, Pushing, At
<1>10. Vanished(c)'
  <2>1. \A p \in gone : job'[c].found[p] = Absent /\ (p \in deleted[c] \/ record[c][p].rev < rows[p].rev)
    BY <1>4, <1>6 DEF ClientOK, Vanished
  <2> HIDE DEF gone
  <2>2. QED
    BY <1>4, <1>6, <1>7, <2>1 DEF ClientOK, Vanished, Known
<1>11. QED
  BY <1>4, <1>5, <1>8, <1>9, <1>10, NoMoreEntries

\* The file p is dealt with.
LEMMA AtPush ==
  ASSUME Shapes, Believed, NEW c \in Clients, NEW p \in Paths, job[c].at \in Pushing,
         FileDone(c, p), UNCHANGED serverVars, Rest(c), job[c].found[p] # Absent,
         OnlyTouches(c, {p}), RecordsFit(c, {p})
  PROVE  Shapes' /\ Believed'
<1>1. /\ JobType' /\ (\A d \in Clients : d # c => job'[d] = job[d])
      /\ job'[c].at = "push" /\ job'[c].batch = job[c].batch /\ job'[c].gone = job[c].gone
      /\ \A q \in Paths : job'[c].found[q] = IF q = p THEN Absent ELSE job[c].found[q]
  BY FileDoneIs DEF Shapes
<1>2. job[c].batch = NoBatch /\ p \notin job[c].gone
  BY DEF Believed, ClientOK, UnderWay, Vanished
<1>3. UnderWay(c)'
  BY <1>1, <1>2 DEF UnderWay, Fetching, Sending, Pushing, At
<1>4. job[c].gone \subseteq Paths
  BY Parts
<1> DEFINE S == {p}
<1>5. /\ S \in SUBSET Paths /\ OnlyTouches(c, S) /\ RecordsFit(c, S)
      /\ job'[c].gone \subseteq job[c].gone \ S
      /\ \A q \in job[c].gone : job'[c].found[q] \in {Absent, job[c].found[q]}
  BY <1>1, <1>2, <1>4
<1> HIDE DEF S
<1>6. QED
  BY <1>1, <1>3, <1>5, InPush

LEMMA NothingKeeps ==
  ASSUME Shapes, Believed, NEW c \in Clients, PushNothing(c)
  PROVE  Shapes' /\ Believed'
<1>1. PICK p \in Paths :
        /\ NextFile(c, p) /\ FileDone(c, p)
        /\ \/ UNCHANGED record
           \/ Known(c, p) /\ record' = [record EXCEPT ![c][p].stamp = job[c].found[p]]
  BY DEF PushNothing
<1>2. UNCHANGED <<serverVars, disk, lastRev, userVars, aborts>> /\ job[c].at \in Pushing
      /\ job[c].found[p] # Absent
  BY <1>1 DEF PushNothing, At, Pushing, NextFile
<1>3. CASE UNCHANGED record
  BY <1>1, <1>2, <1>3, AtPush, Nobody, FoldersAlone, StillFits DEF userVars
<1>4. CASE Known(c, p) /\ record' = [record EXCEPT ![c][p].stamp = job[c].found[p]]
  <2> DEFINE r == [record[c][p] EXCEPT !.stamp = job[c].found[p]]
  <2>1. record[c][p] \in Recorded
    BY DEF Shapes, RecordType
  <2>2. r \in Recorded /\ r.rev = record[c][p].rev /\ r.sum = record[c][p].sum
    BY <2>1, Parts DEF Recorded
  <2>3. Record(c, p, r)
    BY <1>4 DEF Record, Shapes, RecordType
  <2> HIDE DEF r
  <2>4. /\ RecordType'
        /\ \A d \in Clients, q \in Paths :
             record'[d][q] = IF d = c /\ q = p THEN r ELSE record[d][q]
    BY <2>2, <2>3, RecordIs DEF Shapes
  <2>5. OnlyTouches(c, {p})
    BY <1>2, <2>4, FolderAlone DEF OnlyTouches, userVars
  <2>6. RecordsFit(c, {p})
    BY <1>2, <1>4, <2>2, <2>4 DEF RecordsFit, Believed, ClientOK, RecordsOK, Vanished, userVars
  <2>7. QED
    BY <1>1, <1>2, <2>5, <2>6, AtPush, Nobody
<1>5. QED
  BY <1>1, <1>3, <1>4

\* What was sent, or fetched after a conflict, is what the server has or had.
LEMMA SentKeeps ==
  ASSUME Shapes, Believed, NEW c \in Clients, RecordUploaded(c) \/ RecordRefetched(c)
  PROVE  Shapes' /\ Believed'
<1>0. PICK p \in Paths : p = job[c].path
  BY Parts
<1>1. PICK s \in Bodies \cup {Absent} :
        Record(c, p, [stamp |-> s, sum |-> job[c].got, rev |-> job[c].gotRev])
  BY <1>0, Parts DEF RecordUploaded, RecordRefetched
<1>2. /\ UNCHANGED <<serverVars, disk, lastRev, userVars, aborts>> /\ FileDone(c, p)
      /\ job[c].at \in {"uploaded", "rerecord"} /\ job[c].at \in Pushing /\ job[c].at \in Sending
  BY <1>0 DEF RecordUploaded, RecordRefetched, At, Pushing, Sending
<1>3. /\ job[c].found[p] # Absent /\ SeenAt(p, job[c].gotRev, job[c].got)
      /\ disk[c][p] = Absent => p \in deleted[c]
  BY <1>0, <1>2 DEF Believed, ClientOK, UnderWay
<1>4. PICK r : r = [stamp |-> s, sum |-> job[c].got, rev |-> job[c].gotRev]
  OBVIOUS
<1>5. r \in Recorded /\ r.rev = job[c].gotRev /\ r.sum = job[c].got
  BY <1>4, Parts DEF Recorded
<1>6. OnlyTouches(c, {p}) /\ RecordsFit(c, {p})
  BY <1>1, <1>2, <1>3, <1>4, <1>5, RecordTouches DEF userVars
<1>7. QED
  BY <1>2, <1>3, <1>6, AtPush, Nobody

\* A step from one stage of a push to the next.
LEMMA AtFile ==
  ASSUME Shapes, Believed, NEW c \in Clients, NEW stage \in Stages, NEW p \in Paths, NEW g, NEW r,
         Moved(c, stage, p, g, r), stage \in Pushing, job[c].at \in Pushing,
         UNCHANGED serverVars, Rest(c), OnlyTouches(c, {p}), RecordsFit(c, {p}),
         p \notin job[c].gone,
         stage \in Sending => job[c].found[p] # Absent,
         stage = "upload" => g # Absent,
         stage \in {"uploaded", "reinstall", "rerecord"} => SeenAt(p, r, g),
         stage \in {"upload", "uploaded", "rerecord"} /\ disk'[c][p] = Absent => p \in deleted'[c]
  PROVE  Shapes' /\ Believed'
<1>1. job[c].batch = NoBatch
  BY DEF Believed, ClientOK, UnderWay
<1>2. UnderWay(c)'
  BY <1>1 DEF Moved, UnderWay, Fetching, Sending, Pushing, At, serverVars, SeenAt, Live
<1> DEFINE S == {p}
<1>3. /\ S \in SUBSET Paths /\ OnlyTouches(c, S) /\ RecordsFit(c, S)
      /\ job'[c].gone \subseteq job[c].gone \ S
      /\ \A q \in job[c].gone : job'[c].found[q] \in {Absent, job[c].found[q]}
  BY DEF Moved
<1> HIDE DEF S
<1>4. QED
  BY <1>2, <1>3, InPush DEF Moved

LEMMA SnapshotKeeps ==
  ASSUME Shapes, Believed, NEW c \in Clients, Snapshot(c)
  PROVE  Shapes' /\ Believed'
<1>1. PICK p \in Paths :
        /\ NextFile(c, p) /\ disk[c][p] # Absent
        /\ job' = [job EXCEPT ![c].path = p, ![c].got = disk[c][p], ![c].at = "upload"]
        /\ deleted' = [deleted EXCEPT ![c] = @ \ {p}]
  BY DEF Snapshot
<1>2. UNCHANGED <<serverVars, disk, record, lastRev, edits, aborts>> /\ job[c].at \in Pushing
  BY DEF Snapshot, At, Pushing
<1>3. PICK g \in Bodies \cup {Absent} : g = disk[c][p]
  BY Parts
<1>4. Moved(c, "upload", p, g, job[c].gotRev)
  BY <1>1, <1>3, Moves, Parts DEF Shapes, Stages
<1>5. deleted' \in [Clients -> SUBSET Paths] /\ (\A d \in Clients : d # c => deleted'[d] = deleted[d])
      /\ deleted'[c] = deleted[c] \ {p}
  BY <1>1 DEF Shapes
<1>6. Rest(c)
  BY <1>2, <1>5 DEF Rest, Shapes
<1>7. OnlyTouches(c, {p})
  BY <1>2, <1>5 DEF OnlyTouches, Shapes, DiskType, RecordType
<1>8. RecordsFit(c, {p})
  BY <1>1, <1>2, LeftBehind
<1>9. job[c].found[p] # Absent /\ p \notin job[c].gone
  BY <1>1 DEF NextFile, Believed, ClientOK, Vanished
<1>10. QED
  BY <1>1, <1>2, <1>3, <1>4, <1>6, <1>7, <1>8, <1>9, AtFile DEF Stages, Pushing, Sending

LEMMA RefetchKeeps ==
  ASSUME Shapes, Believed, NEW c \in Clients, Refetch(c), Live(job[c].path)
  PROVE  Shapes' /\ Believed'
<1>1. PICK p \in Paths : p = job[c].path
  BY Parts
<1>2. PICK g \in Bodies \cup {Absent}, r \in Nat : g = rows[p].facts /\ r = rows[p].rev
  BY RowsAre
<1>3. /\ UNCHANGED <<serverVars, disk, record, lastRev, userVars, aborts>>
      /\ job[c].at = "refetch" /\ Live(p)
      /\ job' = [job EXCEPT ![c].got = g, ![c].gotRev = r, ![c].at = "reinstall"]
  BY <1>1, <1>2 DEF Refetch, At
<1>4. Moved(c, "reinstall", p, g, r)
  BY <1>1, <1>3, Moves DEF Shapes, Stages
<1>5. SeenAt(p, r, g)
  BY <1>2, <1>3 DEF Believed, RowsOK, SeenAt
<1>6. job[c].found[p] # Absent /\ p \notin job[c].gone
  BY <1>1, <1>3 DEF Believed, ClientOK, UnderWay, Vanished, Sending
<1>7. OnlyTouches(c, {p}) /\ RecordsFit(c, {p}) /\ Rest(c)
  BY <1>3, FoldersAlone, StillFits, Nobody DEF userVars
<1>8. QED
  BY <1>3, <1>4, <1>5, <1>6, <1>7, AtFile DEF Stages, Pushing, Sending

LEMMA ReinstallKeeps ==
  ASSUME Shapes, Believed, NEW c \in Clients, Install(c), At(c, "reinstall")
  PROVE  Shapes' /\ Believed'
<1>1. PICK p \in Paths, g \in Bodies \cup {Absent} : p = job[c].path /\ g = job[c].got
  BY Parts
<1>2. /\ UNCHANGED <<serverVars, record, lastRev, edits, aborts>>
      /\ Put(c, p, g) /\ deleted' = [deleted EXCEPT ![c] = @ \ {p}]
      /\ job' = [job EXCEPT ![c].at = "rerecord"] /\ job[c].at = "reinstall"
  BY <1>1 DEF Install, At, Go
<1>3. /\ SeenAt(p, job[c].gotRev, g) /\ job[c].found[p] # Absent /\ p \notin job[c].gone
  BY <1>1, <1>2 DEF Believed, ClientOK, UnderWay, Vanished, Sending
<1>4. g # Absent
  BY <1>3, BodiesAre DEF SeenAt, Shapes
<1>5. deleted' \in [Clients -> SUBSET Paths] /\ (\A d \in Clients : d # c => deleted'[d] = deleted[d])
      /\ deleted'[c] = deleted[c] \ {p}
  BY <1>2 DEF Shapes
<1>6. Rest(c)
  BY <1>2, <1>5 DEF Rest, Shapes
<1>7. OnlyTouches(c, {p}) /\ disk'[c][p] = g
  BY <1>2, <1>5, PutTouches
<1>8. RecordsFit(c, {p})
  BY <1>2, <1>4, <1>7, LeftBehind
<1>9. Moved(c, "rerecord", p, g, job[c].gotRev)
  BY <1>1, <1>2, Moves, Parts DEF Shapes, Stages
<1>10. QED
  BY <1>2, <1>3, <1>4, <1>6, <1>7, <1>8, <1>9, AtFile DEF Stages, Pushing, Sending

LEMMA PushedKeeps ==
  ASSUME Shapes, Believed, NEW c \in Clients, FilesPushed(c)
  PROVE  Shapes' /\ Believed'
<1>1. /\ UNCHANGED <<serverVars, disk, record, lastRev, userVars, aborts>> /\ job[c].at = "push"
      /\ job' = [job EXCEPT ![c].at = "deletions"]
  BY DEF FilesPushed, At, Go
<1>2. Moved(c, "deletions", job[c].path, job[c].got, job[c].gotRev)
  BY <1>1, Moves, Parts DEF Shapes, Stages
<1>3. job[c].batch = NoBatch /\ job[c].at \in Pushing
  BY <1>1 DEF Believed, ClientOK, UnderWay, Pushing
<1>4. UnderWay(c)'
  BY <1>2, <1>3 DEF Moved, UnderWay, Fetching, Sending, Pushing, At
<1>5. OnlyTouches(c, {}) /\ RecordsFit(c, {}) /\ Rest(c)
  BY <1>1, FoldersAlone, StillFits, Nobody DEF userVars
<1>6. QED
  BY <1>1, <1>2, <1>3, <1>4, <1>5, InPush DEF Moved

LEMMA GoneKeeps ==
  ASSUME Shapes, Believed, NEW c \in Clients, ForgetGone(c)
  PROVE  Shapes' /\ Believed'
<1>1. PICK p \in Paths : p = job[c].path
  BY Parts
<1>2. /\ UNCHANGED <<serverVars, disk, lastRev, userVars, aborts>> /\ job[c].at = "forgetgone"
      /\ Forget(c, p) /\ job' = [job EXCEPT ![c].gone = @ \ {p}, ![c].at = "deletions"]
  BY <1>1 DEF ForgetGone, At
<1>3. job[c].batch = NoBatch /\ job[c].at \in Pushing
  BY <1>2 DEF Believed, ClientOK, UnderWay, Pushing
<1> DEFINE j == [job[c] EXCEPT !.gone = @ \ {p}, !.at = "deletions"]
<1>4. job[c] \in Job
  BY Parts
<1>5. j \in Job /\ j.at = "deletions" /\ j.batch = job[c].batch /\ j.found = job[c].found
      /\ j.gone = job[c].gone \ {p}
  BY <1>4 DEF Job, Stages
<1>6. job' = [job EXCEPT ![c] = j]
  BY <1>2 DEF Shapes, JobType
<1> HIDE DEF j
<1>7. /\ JobType' /\ (\A d \in Clients : d # c => job'[d] = job[d])
      /\ job'[c].at = "deletions" /\ job'[c].batch = job[c].batch /\ job'[c].found = job[c].found
      /\ job'[c].gone = job[c].gone \ {p}
  BY <1>5, <1>6, JobIs DEF Shapes
<1>8. UnderWay(c)'
  BY <1>3, <1>7 DEF UnderWay, Fetching, Sending, Pushing, At
<1>9. OnlyTouches(c, {p}) /\ RecordsFit(c, {p}) /\ Rest(c)
  BY <1>2, ForgetTouches, Nobody DEF userVars
<1> DEFINE S == {p}
<1>10. S \in SUBSET Paths /\ OnlyTouches(c, S) /\ RecordsFit(c, S)
       /\ job'[c].gone \subseteq job[c].gone \ S
  BY <1>7, <1>9
<1> HIDE DEF S
<1>11. QED
  BY <1>2, <1>3, <1>7, <1>8, <1>9, <1>10, InPush

\* The cycle is over, at its end or before.
LEMMA EndKeeps ==
  ASSUME Shapes, Believed, NEW c \in Clients, End(c),
         UNCHANGED <<serverVars, disk, record, lastRev, userVars>>, aborts' \in 0 .. MaxAborts
  PROVE  Shapes' /\ Believed'
<1>1. /\ JobType' /\ job'[c] = Idle /\ \A d \in Clients : d # c => job'[d] = job[d]
  BY IdleIs, JobIs DEF End, Shapes
<1>2. Shapes'
  BY <1>1 DEF Shapes, serverVars, userVars, IndexTypeOK, DiskType, RecordType
<1>3. OthersAlone(c)
  BY <1>1 DEF OthersAlone, userVars
<1>4. ClientOK(c) /\ RowsOK
  BY DEF Believed
<1>5. rows' = rows /\ archive' = archive /\ currentRev' = currentRev
  BY DEF serverVars
<1>6. RecordsOK(c)' /\ ServerGoesOn /\ RowsOK'
  BY <1>4, <1>5 DEF ClientOK, RecordsOK, Known, SeenAt, Live, ServerGoesOn, RowsOK
<1>7. UnderWay(c)'
  BY <1>1, IdleIs DEF UnderWay, Fetching, Sending, Pushing, At
<1>8. Vanished(c)'
  BY <1>1, <1>4, <1>5, IdleIs DEF ClientOK, Vanished, Known, userVars
<1>9. job'[c].batch = NoBatch
  BY <1>1 DEF Idle
<1>10. QED
  BY <1>2, <1>3, <1>6, <1>7, <1>8, <1>9, NoMoreEntries

----------------------------------------------------------------------------
(* Requests that change the server. *)

\* A write of the index gives the row a revision of its own.
LEMMA RowWritten ==
  ASSUME Shapes, Believed, NEW p \in Paths,
         IndexTypeOK', currentRev' = currentRev + 1, rows'[p].rev = currentRev + 1,
         \A q \in Paths : q # p => rows'[q] = rows[q],
         archive \subseteq archive', Live(p)' => rows'[p].facts \in archive'
  PROVE  ServerGoesOn /\ RowsOK'
<1>1. currentRev \in Nat /\ (\A q \in Paths : rows[q].rev \in Nat /\ rows[q].rev <= currentRev)
  BY RowsAre DEF Believed, RowsOK
<1>2. ServerGoesOn
  BY <1>1 DEF ServerGoesOn
<1>3. ASSUME NEW q \in Paths
      PROVE  rows'[q].rev <= currentRev' /\ (Live(q)' => 0 < rows'[q].rev /\ rows'[q].facts \in archive')
    <2>1. CASE q = p
      BY <1>1, <2>1
    <2>2. CASE q # p
      BY <1>1, <2>2 DEF Believed, RowsOK, Live
    <2>3. QED
      BY <2>1, <2>2
<1>4. QED
  BY <1>2, <1>3 DEF RowsOK

LEMMA AfterRequest ==
  ASSUME Shapes, Shapes', Believed, NEW c \in Clients, ServerGoesOn, RowsOK',
         UNCHANGED <<disk, record, deleted>>,
         \A d \in Clients : d # c => job'[d] = job[d],
         job'[c].batch = NoBatch, job'[c].found = job[c].found, job'[c].gone = job[c].gone,
         UnderWay(c)'
  PROVE  Believed'
<1>1. ClientOK(c)
  BY DEF Believed
<1>2. RecordsOK(c)'
  <2>1. ASSUME NEW p \in Paths, Known(c, p) PROVE SeenAt(p, record[c][p].rev, record[c][p].sum)'
    <3>1. PICK r, b : r \in Nat /\ r = record[c][p].rev /\ b = record[c][p].sum
      BY Parts
    <3>2. SeenAt(p, r, b)'
      BY <1>1, <2>1, <3>1, SeenStays DEF ClientOK, RecordsOK
    <3>3. QED
      BY <3>1, <3>2 DEF SeenAt, Live
  <2>2. QED
    BY <2>1 DEF RecordsOK, Known
<1>3. Vanished(c)'
  <2>1. \A p \in Paths : rows[p].rev \in Nat /\ rows'[p].rev \in Nat /\ rows[p].rev <= rows'[p].rev
    <3>1. \A p \in Paths : rows[p].rev \in Nat /\ rows'[p].rev \in Nat
      BY DEF Shapes, IndexTypeOK, Row
    <3>2. QED
      BY <3>1 DEF ServerGoesOn
  <2>2. \A p \in Paths : record[c][p].rev \in Nat
    BY Parts
  <2>3. job[c].gone \subseteq Paths
    BY Parts
  <2>4. QED
    BY <1>1, <2>1, <2>2, <2>3 DEF ClientOK, Vanished, Known
<1>4. OthersAlone(c)
  BY DEF OthersAlone
<1>5. QED
  BY <1>2, <1>3, <1>4, NoMoreEntries

LEMMA UploadKeeps ==
  ASSUME Shapes, Believed, NEW c \in Clients, Upload(c)
  PROVE  Shapes' /\ Believed'
<1>1. PICK p \in Paths, g \in Bodies \cup {Absent} : p = job[c].path /\ g = job[c].got
  BY Parts
<1>2. /\ job[c].at = "upload" /\ archive' = archive \cup {g}
      /\ UNCHANGED <<disk, record, lastRev, userVars, aborts>>
  BY <1>1 DEF Upload, At
<1>3. /\ g # Absent /\ job[c].batch = NoBatch /\ job[c].found[p] # Absent
      /\ disk[c][p] = Absent => p \in deleted[c]
  BY <1>1, <1>2 DEF Believed, ClientOK, UnderWay, Pushing, Sending, At
<1>4. g \in Bodies /\ g \in Facts
  BY <1>3, BodiesAssumption
<1>5. ASSUME NEW q \in Paths, Upsert(q, g), NEW r, r = currentRev'
      PROVE  /\ IndexTypeOK' /\ ServerGoesOn /\ RowsOK' /\ r \in Nat
             /\ SeenAt(q, r, g)'
  <2>1. IndexTypeOK'
    BY <1>4, <1>5, UpsertTyped DEF Shapes
  <2>2. /\ currentRev \in Nat /\ currentRev' = currentRev + 1
        /\ rows'[q] = [rev |-> currentRev + 1, deleted |-> FALSE, facts |-> g]
        /\ \A s \in Paths : s # q => rows'[s] = rows[s]
    BY <1>5 DEF Upsert, Shapes, IndexTypeOK
  <2>3. ServerGoesOn /\ RowsOK'
    BY <1>2, <2>1, <2>2, RowWritten
  <2>4. /\ r \in Nat /\ 0 < r /\ rows'[q].rev = r
        /\ ~rows'[q].deleted /\ rows'[q].facts = g
    BY <1>5, <2>2
  <2>5. SeenAt(q, r, g)'
    BY <1>2, <2>4 DEF SeenAt, Live
  <2>6. QED
    BY <2>1, <2>3, <2>4, <2>5
<1>6. CASE Upsert(p, g) /\ job' = [job EXCEPT ![c].gotRev = currentRev', ![c].at = "uploaded"]
  <2>1. PICK r \in Nat : r = currentRev'
    BY <1>6, RowsAre DEF Upsert
  <2>2. Moved(c, "uploaded", p, g, r)
    BY <1>1, <1>6, <2>1, Moves DEF Shapes, Stages
  <2>3. Shapes'
    BY <1>2, <1>4, <1>5, <1>6, <2>1, <2>2 DEF Shapes, userVars, DiskType, RecordType, Moved
  <2>4. SeenAt(p, r, g)' /\ ServerGoesOn /\ RowsOK'
    BY <1>5, <1>6, <2>1
  <2>5. UnderWay(c)'
    BY <1>2, <1>3, <2>2, <2>4
    DEF Moved, UnderWay, Fetching, Sending, Pushing, At, userVars, SeenAt, Live
  <2>6. QED
    BY <1>2, <1>3, <2>2, <2>3, <2>4, <2>5, AfterRequest DEF Moved, userVars
<1>7. CASE (\E q \in Paths : Upsert(q, g)) /\ job' = [job EXCEPT ![c].at = "refetch"]
  <2>1. Moved(c, "refetch", p, g, job[c].gotRev)
    BY <1>1, <1>7, Moves, Parts DEF Shapes, Stages
  <2>2. IndexTypeOK' /\ ServerGoesOn /\ RowsOK'
    BY <1>5, <1>7
  <2>3. Shapes'
    BY <1>2, <1>4, <2>1, <2>2 DEF Shapes, userVars, DiskType, RecordType, Moved
  <2>4. UnderWay(c)'
    BY <1>3, <2>1 DEF Moved, UnderWay, Fetching, Sending, Pushing, At
  <2>5. QED
    BY <1>2, <1>3, <2>1, <2>2, <2>3, <2>4, AfterRequest DEF Moved, userVars
<1>8. QED
  BY <1>1, <1>6, <1>7 DEF Upload, FirstFresh, Go

LEMMA PushDeletionKeeps ==
  ASSUME Shapes, Believed, NEW c \in Clients, PushDeletion(c)
  PROVE  Shapes' /\ Believed'
<1>1. PICK p \in Paths :
        /\ (Live(p) /\ MarkDeleted(p)) \/ UNCHANGED <<rows, currentRev>>
        /\ job' = [job EXCEPT ![c].path = p, ![c].at = "forgetgone"]
  BY Parts DEF PushDeletion
<1>2. job[c].at = "deletions" /\ UNCHANGED <<archive, disk, record, lastRev, userVars, aborts>>
  BY DEF PushDeletion, At
<1>3. job[c].batch = NoBatch
  BY <1>2 DEF Believed, ClientOK, UnderWay, Pushing
<1>4. Moved(c, "forgetgone", p, job[c].got, job[c].gotRev)
  BY <1>1, Moves, Parts DEF Shapes, Stages
<1>5. IndexTypeOK' /\ ServerGoesOn /\ RowsOK'
  <2>1. CASE UNCHANGED <<rows, currentRev>>
    BY <1>2, <2>1 DEF Shapes, IndexTypeOK, ServerGoesOn, Believed, RowsOK, Live
  <2>2. CASE Live(p) /\ MarkDeleted(p)
    <3>1. IndexTypeOK'
      BY <2>2, MarkTyped DEF Shapes
    <3>2. rows[p] # NoRow
      BY <2>2 DEF Live, NoRow
    <3>3. /\ currentRev' = currentRev + 1
          /\ rows'[p] = [rev |-> currentRev + 1, deleted |-> TRUE, facts |-> NoFacts]
          /\ \A s \in Paths : s # p => rows'[s] = rows[s]
      BY <2>2, <3>2 DEF MarkDeleted, Shapes, IndexTypeOK
    <3>4. QED
      BY <1>2, <3>1, <3>3, RowWritten DEF Live
  <2>3. QED
    BY <1>1, <2>1, <2>2
<1>6. Shapes'
  BY <1>2, <1>4, <1>5 DEF Shapes, userVars, DiskType, RecordType, Moved
<1>7. UnderWay(c)'
  BY <1>3, <1>4 DEF Moved, UnderWay, Fetching, Sending, Pushing, At
<1>8. QED
  BY <1>2, <1>3, <1>4, <1>5, <1>6, <1>7, AfterRequest DEF Moved, userVars

----------------------------------------------------------------------------
(* Users. *)

LEMMA UserKeeps ==
  ASSUME Shapes, Believed, NEW c \in Clients, UserStep(c)
  PROVE  Shapes' /\ Believed'
<1>1. PICK p \in Paths : UserWrites(c, p) \/ UserDeletes(c, p)
  BY FolderAssumption DEF UserStep
<1>2. /\ UNCHANGED <<serverVars, record, lastRev, job, aborts>>
      /\ edits' = edits + 1 /\ edits < MaxEdits
  BY <1>1 DEF UserWrites, UserDeletes, UserMayTouch
<1>3. edits' \in 0 .. MaxEdits /\ edits + 1 \in Bodies /\ edits + 1 # Absent
  BY <1>2, BodiesAssumption DEF Shapes, Bodies, Absent
<1>4. PICK b \in Bodies \cup {Absent} : Put(c, p, b) /\ (b = Absent => p \in deleted'[c])
  <2>1. CASE UserWrites(c, p)
    BY <1>3, <2>1 DEF UserWrites
  <2>2. CASE UserDeletes(c, p)
    BY <2>2 DEF UserDeletes, Shapes
  <2>3. QED
    BY <1>1, <2>1, <2>2
<1>5. /\ DiskType' /\ disk'[c][p] = b
      /\ \A d \in Clients, q \in Paths : d # c \/ q # p => disk'[d][q] = disk[d][q]
  BY <1>4, PutIs DEF Shapes
<1>6. /\ deleted' \in [Clients -> SUBSET Paths] /\ deleted[c] \subseteq deleted'[c]
      /\ \A d \in Clients : d # c => deleted'[d] = deleted[d]
  BY <1>1 DEF UserWrites, UserDeletes, Shapes
<1>7. Shapes'
  BY <1>2, <1>3, <1>5, <1>6 DEF Shapes, serverVars, IndexTypeOK, RecordType, JobType
<1>8. OthersAlone(c)
  <2>1. \A d \in Clients : d # c => disk'[d] = disk[d]
    BY <1>5 DEF Shapes, DiskType
  <2>2. QED
    BY <1>2, <1>6, <2>1 DEF OthersAlone
<1>9. ClientOK(c) /\ rows' = rows /\ archive' = archive /\ job'[c] = job[c] /\ record'[c] = record[c]
  BY <1>2 DEF Believed, serverVars
<1>10. RecordsOK(c)' /\ \A q \in Paths : EntryOK(c, q)'
  BY <1>9 DEF ClientOK, RecordsOK, Known, EntryOK, SeenAt, Live
<1>11. \A q \in Paths : disk'[c][q] = Absent => disk[c][q] = Absent \/ q \in deleted'[c]
  BY <1>4, <1>5
<1>12. UnderWay(c)'
  <2>1. job[c].path \in Paths
    BY Parts
  <2>2. QED
    BY <1>6, <1>9, <1>11, <2>1 DEF ClientOK, UnderWay, SeenAt, Live, At
<1>13. Vanished(c)'
  BY <1>6, <1>9, <1>11 DEF ClientOK, Vanished, Known
<1>14. QED
  BY <1>2, <1>7, <1>8, <1>10, <1>12, <1>13, ServerAlone DEF ClientOK


----------------------------------------------------------------------------
(* Every behaviour. *)

LEMMA FirstOK == ASSUME Init PROVE Shapes /\ Believed
<1>1. NoRow \in Row /\ NoRecord \in Recorded /\ Idle \in Job
  BY NothingIsTyped, IdleIs
<1>2. IndexTypeOK /\ \A p \in Paths : rows[p] = NoRow
  BY <1>1 DEF Init, IndexInit, IndexTypeOK
<1>3. Shapes
  BY <1>1, <1>2, CycleAssumption, BodiesAssumption
  DEF Init, Shapes, DiskType, RecordType, JobType, NoFiles
<1>4. RowsOK
  BY <1>2 DEF Init, IndexInit, RowsOK, Live, NoRow
<1>5. ASSUME NEW c \in Clients PROVE ClientOK(c)
  <2>1. job[c] = Idle /\ \A p \in Paths : ~Known(c, p)
    BY <1>5 DEF Init, Known
  <2>2. RecordsOK(c) /\ Vanished(c) /\ \A p \in Paths : EntryOK(c, p)
    BY <2>1, IdleIs DEF RecordsOK, Vanished, EntryOK
  <2>3. UnderWay(c)
    BY <2>1, IdleIs, NotPushing DEF UnderWay, At, Fetching, Sending, Pushing
  <2>4. QED
    BY <2>2, <2>3 DEF ClientOK
<1>6. QED
  BY <1>3, <1>4, <1>5 DEF Believed

LEMMA PullKeeps ==
  ASSUME Shapes, Believed, NEW c \in Clients, PullStep(c)
  PROVE  Shapes' /\ Believed'
<1>1. CASE Install(c)
  BY <1>1, InstallKeeps, ReinstallKeeps DEF Install
<1>2. CASE ApplyDeletionKeeps(c) \/ ForgetRemoved(c)
  BY <1>2, DeletionKeeps
<1>3. QED
  BY <1>1, <1>2, StartKeeps, EchoKeeps, RemovesKeeps, IdenticalKeeps, ParkKeeps, ParkedKeeps,
     RemoteKeeps, DownloadKeeps, PulledKeeps, FinishKeeps DEF PullStep

LEMMA PushKeeps ==
  ASSUME Shapes, Believed, NEW c \in Clients, PushStep(c)
  PROVE  Shapes' /\ Believed'
<1>1. CASE (Refetch(c) /\ ~Live(job[c].path)) \/ EndCycle(c)
  <2>1. End(c) /\ UNCHANGED <<serverVars, disk, record, lastRev, userVars, aborts>>
    BY <1>1 DEF Refetch, EndCycle
  <2>2. QED
    BY <2>1, EndKeeps DEF Shapes
<1>2. CASE Refetch(c) /\ Live(job[c].path)
  BY <1>2, RefetchKeeps
<1>3. CASE RecordUploaded(c) \/ RecordRefetched(c)
  BY <1>3, SentKeeps
<1>4. QED
  BY <1>1, <1>2, <1>3, NothingKeeps, SnapshotKeeps, UploadKeeps, PushedKeeps,
     PushDeletionKeeps, GoneKeeps DEF PushStep

LEMMA StepKeeps == ASSUME Shapes, Believed, [Next]_vars PROVE Shapes' /\ Believed'
<1>1. CASE UNCHANGED vars
  <2>1. Shapes'
    BY <1>1 DEF vars, Shapes, IndexTypeOK, DiskType, RecordType, JobType
  <2>2. Believed'
    BY <1>1 DEF vars, Believed, ClientOK, RowsOK, RecordsOK, EntryOK, UnderWay, Vanished,
                Known, SeenAt, Live, At
  <2>3. QED
    BY <2>1, <2>2
<1>2. ASSUME NEW c \in Clients, AbortCycle(c) PROVE Shapes' /\ Believed'
  <2>1. aborts' \in 0 .. MaxAborts
    BY <1>2, CycleAssumption DEF AbortCycle, Shapes
  <2>2. QED
    BY <1>2, <2>1, EndKeeps DEF AbortCycle
<1>3. QED
  BY <1>1, <1>2, PullKeeps, PushKeeps, UserKeeps DEF Next, EngineStep

LEMMA Always == Spec => [](Shapes /\ Believed)
<1>1. Init => Shapes /\ Believed
  BY FirstOK
<1>2. (Shapes /\ Believed) /\ [Next]_vars => (Shapes /\ Believed)'
  BY StepKeeps
<1>3. QED
  BY <1>1, <1>2, PTL DEF Spec

LEMMA Typed == ASSUME Shapes, Believed PROVE TypeOK
<1>1. ASSUME NEW c \in Clients, NEW p \in Paths PROVE record[c][p] \in Synced \cup {NoRecord}
  <2>1. record[c][p] \in Recorded
    BY DEF Shapes, RecordType
  <2>2. Known(c, p) => record[c][p].sum \in Bodies
    BY DEF Believed, ClientOK, RecordsOK, SeenAt, Shapes
  <2>3. QED
    BY <2>1, <2>2 DEF Known, Recorded, Synced
<1>2. record \in [Clients -> [Paths -> Synced \cup {NoRecord}]]
  <2>1. \A c \in Clients : record[c] \in [Paths -> Synced \cup {NoRecord}]
    BY <1>1 DEF Shapes, RecordType
  <2>2. QED
    BY <2>1 DEF Shapes, RecordType
<1>3. QED
  BY <1>2 DEF TypeOK, Shapes, DiskType, JobType

(***************************************************************************)
(* Every variable keeps its shape; in particular a row of the state        *)
(* database holds the hash of a body the server has accepted.              *)
(***************************************************************************)
THEOREM TypeCorrect == Spec => []TypeOK
<1>1. Shapes /\ Believed => TypeOK
  BY Typed
<1>2. QED
  BY <1>1, Always, PTL

\* A request writes no tombstone but the one of pushDeletions.
LEMMA OnlyPushDeletes ==
  ASSUME Shapes, NEW c \in Clients, EngineStep(c) \/ UserStep(c) \/ AbortCycle(c),
         NEW p \in Paths, Live(p), ~Live(p)'
  PROVE  PushDeletion(c)
<1>1. rows' # rows
  BY DEF Live
<1>2. CASE Upload(c)
  <2>1. \A q \in Paths, g \in Bodies \cup {Absent} : Upsert(q, g) => Live(p)'
    BY DEF Upsert, Live, Shapes, IndexTypeOK
  <2>2. job[c].path \in Paths /\ job[c].got \in Bodies \cup {Absent}
    BY Parts
  <2>3. QED
    BY <1>2, <2>1, <2>2 DEF Upload, FirstFresh
<1>3. CASE PullStep(c)
  BY <1>1, <1>3
  DEF PullStep, StartCycle, ApplyEcho, ApplyDeletionKeeps, ApplyDeletionRemoves, ForgetRemoved,
      ApplyIdentical, Park, ForgetParked, ApplyRemote, Download, Install, RecordPulled,
      FinishPull, serverVars
<1>4. CASE PushStep(c)
  BY <1>1, <1>2, <1>4
  DEF PushStep, PushNothing, Snapshot, RecordUploaded, Refetch, RecordRefetched, FilesPushed,
      ForgetGone, EndCycle, serverVars
<1>5. CASE UserStep(c) \/ AbortCycle(c)
  BY <1>1, <1>5 DEF UserStep, UserWrites, UserDeletes, AbortCycle, serverVars
<1>6. QED
  BY <1>3, <1>4, <1>5 DEF EngineStep

(***************************************************************************)
(* A path becomes a tombstone only by a client whose user deleted it: in   *)
(* every order of the machines' cycles, wherever they break off, and also  *)
(* when users edit in mid-air.                                             *)
(***************************************************************************)
THEOREM OnlyUsers == Spec => OnlyUsersDelete
<1>1. ASSUME Shapes, Believed, [Next]_vars, NEW p \in Paths, Live(p), ~Live(p)'
      PROVE  \E c \in Clients : p \in deleted[c]
  <2>1. ~UNCHANGED vars
    BY <1>1 DEF vars, Live
  <2>2. PICK c \in Clients : PushDeletion(c)
    BY <1>1, <2>1, OnlyPushDeletes DEF Next
  <2>3. PICK q \in job[c].gone :
          IF Live(q) /\ LiveRev(q) = record[c][q].rev
          THEN MarkDeleted(q) ELSE UNCHANGED <<rows, currentRev>>
    BY <2>2 DEF PushDeletion
  <2>4. q \in Paths
    BY <1>1, Parts
  <2>5. Live(q) /\ LiveRev(q) = record[c][q].rev /\ MarkDeleted(q)
    BY <1>1, <2>3 DEF Live
  <2>6. q = p
    BY <1>1, <2>4, <2>5 DEF MarkDeleted, Live, Shapes, IndexTypeOK
  <2>7. rows[p].rev = record[c][p].rev /\ rows[p].rev \in Nat
    BY <1>1, <2>5, <2>6, RowsAre DEF LiveRev
  <2>8. p \in deleted[c]
    BY <1>1, <2>3, <2>6, <2>7 DEF Believed, ClientOK, Vanished
  <2>9. QED
    BY <2>8
<1>2. (Shapes /\ Believed) /\ [Next]_vars
        => [\A p \in Paths : Live(p) /\ ~Live(p)' => \E c \in Clients : p \in deleted[c]]_vars
  BY <1>1
<1>3. QED
  BY <1>2, Always, PTL DEF Spec, OnlyUsersDelete

----------------------------------------------------------------------------
(* What is safe while nobody edits in mid-air. *)

\* Bodies are numbered as users make them.
Numbered(c) ==
  \A p \in Paths :
    disk[c][p] <= edits /\ record[c][p].stamp <= edits /\ job[c].found[p] <= edits

\* Nobody edits in mid-air.
Untouched(c) ==
  LET p == job[c].path IN
  /\ job[c].at \in {"download", "install"} /\ Known(c, p)
       => disk[c][p] \in {Absent, record[c][p].sum}
  /\ At(c, "unpark") => disk[c][p] = Absent
  /\ job[c].at \in {"upload", "record", "rerecord"} => disk[c][p] = job[c].got
  /\ job[c].at \in {"refetch", "reinstall"} => disk[c][p] \in archive
  /\ job[c].at \in {"upload", "uploaded"} /\ disk[c][p] = job[c].found[p]
       => disk[c][p] \in archive \cup {job[c].got}

\* What passes for synced by its stamp is on the server.
StampOK(c, p) ==
  Known(c, p) /\ disk[c][p] # Absent /\ disk[c][p] = record[c][p].stamp
    => disk[c][p] \in archive

Careful(c) == Numbered(c) /\ Untouched(c) /\ \A p \in Paths : StampOK(c, p)

Safe == (\A b \in archive : b <= edits) /\ \A c \in Clients : Careful(c)

Watched == {"unpark", "download", "install", "record",
            "upload", "uploaded", "refetch", "reinstall", "rerecord"}

LEMMA Unwatched ==
  ASSUME NEW c \in Clients, job'[c].at \notin Watched
  PROVE  Untouched(c)'
BY DEF Untouched, Watched, At

Beyond(c, S) ==
  /\ \A d \in Clients : d # c => job'[d] = job[d]
  /\ \A d \in Clients, q \in Paths :
       d # c \/ q \notin S => disk'[d][q] = disk[d][q] /\ record'[d][q] = record[d][q]

\* A step of c of which only c and the server know.
LEMMA CarefulOthers ==
  ASSUME Shapes, Shapes', Safe, NEW c \in Clients, NEW S, Beyond(c, S),
         edits <= edits', archive \subseteq archive',
         NEW d \in Clients, d # c
  PROVE  Careful(d)'
<1>1. Careful(d) /\ job'[d] = job[d] /\ job[d].path \in Paths
  BY Parts DEF Safe, Beyond
<1>2. \A q \in Paths : disk'[d][q] = disk[d][q] /\ record'[d][q] = record[d][q]
  BY DEF Beyond
<1>3. Numbered(d)'
  <2>1. edits \in Nat /\ edits' \in Nat
    BY DEF Shapes
  <2>2. \A q \in Paths : /\ disk[d][q] \in Nat /\ record[d][q].stamp \in Nat
                         /\ job[d].found[q] \in Nat
    BY Parts, BodiesAssumption DEF Bodies, Absent
  <2>3. QED
    BY <1>1, <1>2, <2>1, <2>2 DEF Careful, Numbered
<1>4. Untouched(d)'
  BY <1>1, <1>2 DEF Careful, Untouched, Known, At
<1>5. \A q \in Paths : StampOK(d, q)'
  BY <1>1, <1>2 DEF Careful, StampOK, Known
<1>6. QED
  BY <1>3, <1>4, <1>5 DEF Careful

LEMMA SafeStep ==
  ASSUME Shapes, Shapes', Safe, NEW c \in Clients, NEW S, Beyond(c, S),
         edits' = edits, archive \subseteq archive', \A b \in archive' : b <= edits,
         \A q \in Paths : q \in S =>
           disk'[c][q] <= edits /\ record'[c][q].stamp <= edits /\ StampOK(c, q)',
         \A q \in Paths : job'[c].found[q] \in {Absent, job[c].found[q], disk[c][q]},
         Untouched(c)'
  PROVE  Safe'
<1>1. Careful(c) /\ edits \in Nat
  BY DEF Safe, Shapes
<1>2. \A q \in Paths : /\ disk[c][q] \in Nat /\ record[c][q].stamp \in Nat
                       /\ job[c].found[q] \in Nat
  BY Parts, BodiesAssumption DEF Bodies, Absent
<1>3. Numbered(c)'
  BY <1>1, <1>2 DEF Careful, Numbered, Beyond, Absent
<1>4. \A q \in Paths : StampOK(c, q)'
  BY <1>1 DEF Careful, StampOK, Known, Beyond
<1>5. Careful(c)'
  BY <1>3, <1>4 DEF Careful
<1>6. \A d \in Clients : d # c => Careful(d)'
  BY <1>1, CarefulOthers
<1>7. QED
  BY <1>5, <1>6 DEF Safe

\* A step of c that changes neither the server nor the folder.
LEMMA SafeJob ==
  ASSUME Shapes, Shapes', Safe, NEW c \in Clients, UNCHANGED <<disk, record, edits, archive>>,
         \A d \in Clients : d # c => job'[d] = job[d],
         \A q \in Paths : job'[c].found[q] \in {Absent, job[c].found[q], disk[c][q]},
         Untouched(c)'
  PROVE  Safe'
<1>1. Beyond(c, {})
  BY DEF Beyond
<1>2. QED
  BY <1>1, SafeStep DEF Safe

\* A step of c that writes one row of its state database.
LEMMA SafeRecord ==
  ASSUME Shapes, Shapes', Safe, NEW c \in Clients, NEW p \in Paths,
         NEW r \in Recorded, Record(c, p, r), UNCHANGED <<disk, edits, archive>>,
         \A d \in Clients : d # c => job'[d] = job[d],
         \A q \in Paths : job'[c].found[q] \in {Absent, job[c].found[q], disk[c][q]},
         \/ r = NoRecord
         \/ r.stamp \in {disk[c][p], job[c].found[p]}
            /\ (disk[c][p] = r.stamp => disk[c][p] \in archive),
         Untouched(c)'
  PROVE  Safe'
<1>1. \A d \in Clients, q \in Paths :
        record'[d][q] = IF d = c /\ q = p THEN r ELSE record[d][q]
  BY RecordIs DEF Shapes
<1>2. Beyond(c, {p})
  BY <1>1 DEF Beyond
<1>3. record'[c][p] = r /\ edits \in Nat /\ disk[c][p] <= edits /\ r.stamp <= edits
  BY <1>1 DEF Safe, Careful, Numbered, Shapes, NoRecord, Absent
<1>4. StampOK(c, p)'
  BY <1>3 DEF StampOK, Known
<1>5. QED
  BY <1>2, <1>3, <1>4, SafeStep DEF Safe

\* A step of c that writes one file of its folder with what the server has.
LEMMA SafePut ==
  ASSUME Shapes, Shapes', Safe, NEW c \in Clients, NEW p \in Paths,
         NEW b \in Bodies \cup {Absent}, Put(c, p, b), UNCHANGED <<record, edits, archive>>,
         \A d \in Clients : d # c => job'[d] = job[d],
         \A q \in Paths : job'[c].found[q] = job[c].found[q],
         b = Absent \/ b \in archive,
         Untouched(c)'
  PROVE  Safe'
<1>1. \A d \in Clients, q \in Paths :
        disk'[d][q] = IF d = c /\ q = p THEN b ELSE disk[d][q]
  BY PutIs DEF Shapes
<1>2. Beyond(c, {p})
  BY <1>1 DEF Beyond
<1>3. /\ disk'[c][p] = b /\ edits \in Nat /\ b <= edits
      /\ record[c][p].stamp <= edits
  BY <1>1 DEF Safe, Careful, Numbered, Shapes, Absent
<1>4. StampOK(c, p)'
  BY <1>3 DEF StampOK
<1>5. QED
  BY <1>2, <1>3, <1>4, SafeStep DEF Safe

\* Nothing is under way at p any more.
LEMMA DoneIsUnwatched ==
  ASSUME Shapes, NEW c \in Clients, NEW p \in Paths, EntryDone(c, p) \/ FileDone(c, p)
  PROVE  /\ \A d \in Clients : d # c => job'[d] = job[d]
         /\ \A q \in Paths : job'[c].found[q] \in {Absent, job[c].found[q], disk[c][q]}
         /\ Untouched(c)'
<1>1. /\ \A d \in Clients : d # c => job'[d] = job[d]
      /\ \A q \in Paths : job'[c].found[q] \in {Absent, job[c].found[q]}
      /\ job'[c].at \in {"apply", "push"}
  BY EntryDoneIs, FileDoneIs DEF Shapes
<1>2. job'[c].at \notin Watched
  BY <1>1 DEF Watched
<1>3. QED
  BY <1>1, <1>2, Unwatched

LEMMA StageIs ==
  ASSUME Shapes, NEW c \in Clients, NEW stage \in Stages, Go(c, stage)
  PROVE  Moved(c, stage, job[c].path, job[c].got, job[c].gotRev)
<1>1. PICK p \in Paths, g \in Bodies \cup {Absent}, r \in Nat :
        p = job[c].path /\ g = job[c].got /\ r = job[c].gotRev
  BY Parts
<1>2. Moved(c, stage, p, g, r)
  BY <1>1, Moves DEF Go, Shapes
<1>3. QED
  BY <1>1, <1>2

\* Steps that change neither the folder nor the state database.
LEMMA QuietSafe ==
  ASSUME Shapes, Shapes', Safe, NEW c \in Clients,
         \/ StartCycle(c) \/ ApplyEcho(c) \/ FilesPushed(c) \/ PushDeletion(c) \/ FinishPull(c)
  PROVE  Safe'
<1>1. UNCHANGED <<disk, record, edits, archive>>
  BY DEF StartCycle, ApplyEcho, FilesPushed, PushDeletion, FinishPull, serverVars, userVars
<1>2. CASE ApplyEcho(c)
  BY <1>1, <1>2, DoneIsUnwatched, SafeJob DEF ApplyEcho
<1>3. CASE ~ApplyEcho(c)
  <2>1. job[c] \in Job /\ job \in [Clients -> Job]
    BY DEF Shapes, JobType
  <2>2. CASE StartCycle(c) \/ FilesPushed(c) \/ PushDeletion(c)
    <3>1. /\ job'[c].at \in {"apply", "deletions", "forgetgone"}
          /\ job'[c].found = job[c].found
          /\ \A d \in Clients : d # c => job'[d] = job[d]
      <4>1. CASE StartCycle(c)
        <5>1. PICK b, n : job' = [job EXCEPT ![c].at = "apply", ![c].batch = b, ![c].upTo = n]
          BY <4>1 DEF StartCycle
        <5>2. QED
          BY <2>1, <5>1 DEF Job
      <4>2. CASE FilesPushed(c)
        BY <2>1, <4>2 DEF FilesPushed, Go, Job
      <4>3. CASE PushDeletion(c)
        <5>1. PICK p : job' = [job EXCEPT ![c].path = p, ![c].at = "forgetgone"]
          BY <4>3 DEF PushDeletion
        <5>2. QED
          BY <2>1, <5>1 DEF Job
      <4>4. QED
        BY <2>2, <4>1, <4>2, <4>3
    <3>2. Untouched(c)'
      BY <3>1, Unwatched DEF Watched
    <3>3. QED
      BY <1>1, <3>1, <3>2, SafeJob
  <2>3. CASE FinishPull(c)
    <3>1. /\ job'[c].at = "push" /\ job'[c].found = disk[c]
          /\ \A d \in Clients : d # c => job'[d] = job[d]
      BY <2>1, <2>3, IdleIs DEF FinishPull, Job
    <3>2. Untouched(c)'
      BY <3>1, Unwatched DEF Watched
    <3>3. QED
      BY <1>1, <3>1, <3>2, SafeJob
  <2>4. QED
    BY <1>3, <2>2, <2>3
<1>4. QED
  BY <1>2, <1>3

LEMMA EndSafe ==
  ASSUME Shapes, Shapes', Safe, NEW c \in Clients, End(c), UNCHANGED <<disk, record, edits, archive>>
  PROVE  Safe'
<1>1. job'[c] = Idle /\ \A d \in Clients : d # c => job'[d] = job[d]
  BY IdleIs, JobIs DEF End, Shapes
<1>2. Untouched(c)' /\ \A q \in Paths : job'[c].found[q] = Absent
  BY <1>1, IdleIs, Unwatched DEF Watched
<1>3. QED
  BY <1>1, <1>2, SafeJob

\* Steps that forget a row.
LEMMA ForgetSafe ==
  ASSUME Shapes, Shapes', Safe, NEW c \in Clients,
         ApplyDeletionKeeps(c) \/ ForgetRemoved(c) \/ ForgetParked(c) \/ ForgetGone(c)
  PROVE  Safe'
<1>1. UNCHANGED <<disk, edits, archive>>
  BY DEF ApplyDeletionKeeps, ForgetRemoved, ForgetParked, ForgetGone, serverVars, userVars
<1>2. CASE ApplyDeletionKeeps(c) \/ ForgetRemoved(c)
  <2>1. PICK p \in Paths : Forget(c, p) /\ EntryDone(c, p)
    BY <1>2, Parts DEF ApplyDeletionKeeps, ForgetRemoved
  <2>2. QED
    BY <1>1, <2>1, DoneIsUnwatched, SafeRecord, NothingIsTyped DEF Forget
<1>3. CASE ForgetParked(c)
  <2>1. PICK p \in Paths : p = job[c].path
    BY Parts
  <2>2. Forget(c, p) /\ Moved(c, "download", p, job[c].got, job[c].gotRev)
    BY <1>3, <2>1, StageIs DEF ForgetParked, Stages
  <2>3. ~Known(c, p)'
    BY <2>2, ForgetIs DEF Known, Shapes
  <2>4. Untouched(c)'
    BY <2>2, <2>3 DEF Untouched, Moved, At
  <2>5. QED
    BY <1>1, <2>2, <2>4, SafeRecord, NothingIsTyped DEF Forget, Moved
<1>4. CASE ForgetGone(c)
  <2>1. PICK p \in Paths : p = job[c].path
    BY Parts
  <2>2. job[c] \in Job /\ job \in [Clients -> Job]
    BY DEF Shapes, JobType
  <2>3. /\ Forget(c, p) /\ job'[c].at = "deletions" /\ job'[c].found = job[c].found
        /\ \A d \in Clients : d # c => job'[d] = job[d]
    BY <1>4, <2>1, <2>2 DEF ForgetGone, Job
  <2>4. Untouched(c)'
    BY <2>3, Unwatched DEF Watched
  <2>5. QED
    BY <1>1, <2>1, <2>3, <2>4, SafeRecord, NothingIsTyped DEF Forget
<1>5. QED
  BY <1>2, <1>3, <1>4

LEMMA RemovesSafe ==
  ASSUME Shapes, Shapes', Safe, NEW c \in Clients, ApplyDeletionRemoves(c)
  PROVE  Safe'
<1>1. PICK p \in Paths :
        Put(c, p, Absent) /\ job' = [job EXCEPT ![c].path = p, ![c].at = "forget"]
  BY DEF ApplyDeletionRemoves
<1>2. Moved(c, "forget", p, job[c].got, job[c].gotRev)
  BY <1>1, Moves, Parts DEF Shapes, Stages
<1>3. Untouched(c)'
  BY <1>2, Unwatched DEF Moved, Watched
<1>4. UNCHANGED <<record, edits, archive>>
  BY DEF ApplyDeletionRemoves, serverVars, userVars
<1>5. QED
  BY <1>1, <1>2, <1>3, <1>4, SafePut DEF Moved

LEMMA IdenticalSafe ==
  ASSUME Shapes, Shapes', Believed, Safe, NEW c \in Clients, ApplyIdentical(c)
  PROVE  Safe'
<1>1. PICK p \in Paths :
        /\ FileEntry(c, p) /\ disk[c][p] = job[c].batch[p].facts
        /\ Record(c, p, [stamp |-> disk[c][p], sum |-> disk[c][p], rev |-> job[c].batch[p].rev])
        /\ EntryDone(c, p)
  BY DEF ApplyIdentical
<1>2. UNCHANGED <<disk, edits, archive>>
  BY DEF ApplyIdentical, serverVars, userVars
<1>3. disk[c][p] \in archive
  BY <1>1, NextEntryIs DEF FileEntry, NextEntry, SeenAt
<1>4. PICK r : r = [stamp |-> disk[c][p], sum |-> disk[c][p], rev |-> job[c].batch[p].rev]
  OBVIOUS
<1>5. r \in Recorded /\ r.stamp = disk[c][p] /\ Record(c, p, r)
  BY <1>1, <1>4, Parts DEF Recorded
<1>6. QED
  BY <1>1, <1>2, <1>3, <1>5, DoneIsUnwatched, SafeRecord

LEMMA ParkSafe ==
  ASSUME Shapes, Shapes', Believed, Safe, NEW c \in Clients, Park(c)
  PROVE  Safe'
<1>1. PICK p \in Paths, q \in Paths :
        /\ BothMoved(c, p) /\ FirstFresh(q)
        /\ disk' = [disk EXCEPT ![c][q] = disk[c][p], ![c][p] = Absent]
        /\ job' = [job EXCEPT ![c].path = p, ![c].at = "unpark"]
  BY DEF Park
<1>2. UNCHANGED <<record, edits, archive>>
  BY DEF Park, serverVars, userVars
<1>3. Moved(c, "unpark", p, job[c].got, job[c].gotRev)
  BY <1>1, Moves, Parts DEF Shapes, Stages
<1>4. p # q /\ rows[q] = NoRow
  BY <1>1 DEF BothMoved, FirstFresh, Fresh
<1>5. /\ disk'[c][p] = Absent /\ disk'[c][q] = disk[c][p]
      /\ \A d \in Clients, s \in Paths : d # c \/ s \notin {p, q} => disk'[d][s] = disk[d][s]
  BY <1>1, <1>4 DEF Shapes, DiskType
<1>6. ~Known(c, q)
  BY <1>4, Parts DEF Believed, ClientOK, RecordsOK, SeenAt, NoRow
<1>7. Untouched(c)'
  BY <1>3, <1>5 DEF Untouched, Moved, At
<1>8. Beyond(c, {p, q})
  BY <1>2, <1>3, <1>5 DEF Beyond, Moved
<1>9. /\ disk[c][p] <= edits /\ 0 <= edits
      /\ \A s \in Paths : record[c][s].stamp <= edits
  BY DEF Safe, Careful, Numbered, Shapes
<1>10. \A s \in {p, q} : /\ disk'[c][s] <= edits /\ record'[c][s].stamp <= edits
                         /\ StampOK(c, s)'
  BY <1>2, <1>5, <1>6, <1>9 DEF StampOK, Known, Absent
<1>11. QED
  BY <1>2, <1>3, <1>7, <1>8, <1>10, SafeStep DEF Safe, Moved

LEMMA RemoteSafe ==
  ASSUME Shapes, Shapes', Safe, NEW c \in Clients, ApplyRemote(c)
  PROVE  Safe'
<1>1. PICK p \in Paths :
        /\ ~BothMoved(c, p) /\ job' = [job EXCEPT ![c].path = p, ![c].at = "download"]
  BY DEF ApplyRemote
<1>2. UNCHANGED <<disk, record, edits, archive>>
  BY DEF ApplyRemote, serverVars, userVars
<1>3. Moved(c, "download", p, job[c].got, job[c].gotRev)
  BY <1>1, Moves, Parts DEF Shapes, Stages
<1>4. Untouched(c)'
  BY <1>1, <1>2, <1>3 DEF Untouched, Moved, At, BothMoved, Known
<1>5. QED
  BY <1>2, <1>3, <1>4, SafeJob DEF Moved

LEMMA DownloadSafe ==
  ASSUME Shapes, Shapes', Believed, Safe, NEW c \in Clients, Download(c)
  PROVE  Safe'
<1>1. PICK p, g : p \in Paths /\ p = job[c].path /\ g = rows[p].facts
  BY Parts
<1>2. UNCHANGED <<disk, record, edits, archive>>
  BY DEF Download, serverVars, userVars
<1>3. CASE EntryDone(c, p)
  BY <1>1, <1>2, <1>3, DoneIsUnwatched, SafeJob
<1>4. CASE job' = [job EXCEPT ![c].got = g, ![c].at = "install"]
  <2>1. Moved(c, "install", p, g, job[c].gotRev)
    BY <1>1, <1>4, Moves, Parts, RowsAre DEF Shapes, Stages
  <2>2. At(c, "download") /\ Untouched(c)
    BY DEF Download, Safe, Careful
  <2>3. Untouched(c)'
    BY <1>1, <1>2, <2>1, <2>2 DEF Untouched, Moved, At, Known
  <2>4. QED
    BY <1>2, <2>1, <2>3, SafeJob DEF Moved
<1>5. QED
  BY <1>1, <1>3, <1>4 DEF Download

LEMMA InstallSafe ==
  ASSUME Shapes, Shapes', Believed, Safe, NEW c \in Clients, Install(c)
  PROVE  Safe'
<1>1. PICK p \in Paths, g \in Bodies \cup {Absent} : p = job[c].path /\ g = job[c].got
  BY Parts
<1>2. Put(c, p, g) /\ UNCHANGED <<record, edits, archive>>
  BY <1>1 DEF Install, serverVars
<1>3. g \in archive
  BY <1>1 DEF Install, At, Believed, ClientOK, UnderWay, SeenAt
<1>4. PICK stage \in {"record", "rerecord"} : Go(c, stage)
  BY DEF Install
<1>5. Moved(c, stage, p, g, job[c].gotRev)
  BY <1>1, <1>4, StageIs DEF Stages
<1>6. disk'[c][p] = g
  BY <1>2, PutIs DEF Shapes
<1>7. Untouched(c)'
  BY <1>5, <1>6 DEF Untouched, Moved, At
<1>8. QED
  BY <1>2, <1>3, <1>5, <1>7, SafePut DEF Moved

LEMMA RecordsSafe ==
  ASSUME Shapes, Shapes', Believed, Safe, NEW c \in Clients,
         RecordPulled(c) \/ RecordUploaded(c) \/ RecordRefetched(c)
  PROVE  Safe'
<1>1. PICK p \in Paths : p = job[c].path
  BY Parts
<1>2. UNCHANGED <<disk, edits, archive>> /\ (EntryDone(c, p) \/ FileDone(c, p))
  BY <1>1 DEF RecordPulled, RecordUploaded, RecordRefetched, serverVars, userVars
<1>3. PICK r :
        /\ Record(c, p, r)
        /\ \/ /\ At(c, "record")
              /\ r = [stamp |-> disk[c][p], sum |-> job[c].batch[p].facts,
                      rev |-> job[c].batch[p].rev]
           \/ /\ At(c, "uploaded")
              /\ r = [stamp |-> job[c].found[p], sum |-> job[c].got, rev |-> job[c].gotRev]
           \/ /\ At(c, "rerecord")
              /\ r = [stamp |-> disk[c][p], sum |-> job[c].got, rev |-> job[c].gotRev]
  BY <1>1 DEF RecordPulled, RecordUploaded, RecordRefetched
<1>4. r \in Recorded /\ r.stamp \in {disk[c][p], job[c].found[p]}
  BY <1>3, Parts DEF Recorded
<1>5. Untouched(c) /\ UnderWay(c)
  BY DEF Safe, Careful, Believed, ClientOK
<1>6. disk[c][p] = r.stamp => disk[c][p] \in archive
  <2>1. CASE At(c, "record") \/ At(c, "rerecord")
    <3>1. disk[c][p] = job[c].got /\ job[c].got \in archive
      BY <1>1, <1>5, <2>1 DEF Untouched, UnderWay, SeenAt, At
    <3>2. QED
      BY <3>1
  <2>2. CASE At(c, "uploaded")
    <3>1. r.stamp = job[c].found[p] /\ job[c].got \in archive
      BY <1>1, <1>3, <1>5, <2>2 DEF UnderWay, SeenAt, At
    <3>2. QED
      BY <1>1, <1>5, <2>2, <3>1 DEF Untouched, At
  <2>3. QED
    BY <1>3, <2>1, <2>2
<1>7. QED
  BY <1>2, <1>3, <1>4, <1>6, DoneIsUnwatched, SafeRecord

LEMMA NothingSafe ==
  ASSUME Shapes, Shapes', Believed, Safe, NEW c \in Clients, PushNothing(c)
  PROVE  Safe'
<1>1. PICK p \in Paths :
        /\ FileDone(c, p)
        /\ \/ UNCHANGED record
           \/ /\ Known(c, p) /\ disk[c][p] = record[c][p].sum
              /\ record' = [record EXCEPT ![c][p].stamp = job[c].found[p]]
  BY DEF PushNothing
<1>2. UNCHANGED <<disk, edits, archive>>
  BY DEF PushNothing, serverVars, userVars
<1>3. CASE UNCHANGED record
  BY <1>1, <1>2, <1>3, DoneIsUnwatched, SafeJob
<1>4. CASE /\ Known(c, p) /\ disk[c][p] = record[c][p].sum
           /\ record' = [record EXCEPT ![c][p].stamp = job[c].found[p]]
  <2> DEFINE r == [record[c][p] EXCEPT !.stamp = job[c].found[p]]
  <2>1. record[c][p] \in Recorded
    BY DEF Shapes, RecordType
  <2>2. r \in Recorded /\ r.stamp = job[c].found[p]
    BY <2>1, Parts DEF Recorded
  <2>3. Record(c, p, r)
    BY <1>4 DEF Record, Shapes, RecordType
  <2>4. disk[c][p] \in archive
    BY <1>4 DEF Believed, ClientOK, RecordsOK, SeenAt
  <2> HIDE DEF r
  <2>5. QED
    BY <1>1, <1>2, <2>2, <2>3, <2>4, DoneIsUnwatched, SafeRecord
<1>5. QED
  BY <1>1, <1>3, <1>4

LEMMA SnapshotSafe ==
  ASSUME Shapes, Shapes', Safe, NEW c \in Clients, Snapshot(c)
  PROVE  Safe'
<1>1. PICK p \in Paths :
        job' = [job EXCEPT ![c].path = p, ![c].got = disk[c][p], ![c].at = "upload"]
  BY DEF Snapshot
<1>2. UNCHANGED <<disk, record, edits, archive>>
  BY DEF Snapshot, serverVars
<1>3. PICK g \in Bodies \cup {Absent} : g = disk[c][p]
  BY Parts
<1>4. Moved(c, "upload", p, g, job[c].gotRev)
  BY <1>1, <1>3, Moves, Parts DEF Shapes, Stages
<1>5. Untouched(c)'
  BY <1>2, <1>3, <1>4 DEF Untouched, Moved, At
<1>6. QED
  BY <1>2, <1>4, <1>5, SafeJob DEF Moved

LEMMA UploadSafe ==
  ASSUME Shapes, Shapes', Safe, NEW c \in Clients, Upload(c)
  PROVE  Safe'
<1>1. PICK p \in Paths, g \in Bodies \cup {Absent} : p = job[c].path /\ g = job[c].got
  BY Parts
<1>2. UNCHANGED <<disk, record, edits>> /\ archive' = archive \cup {g}
  BY <1>1 DEF Upload, userVars
<1>3. disk[c][p] = g
  BY <1>1 DEF Upload, At, Safe, Careful, Untouched
<1>4. PICK stage \in {"uploaded", "refetch"}, r \in Nat : Moved(c, stage, p, g, r)
  <2>1. CASE job' = [job EXCEPT ![c].gotRev = currentRev', ![c].at = "uploaded"]
    <3>1. PICK r \in Nat : r = currentRev'
      BY DEF Shapes, IndexTypeOK
    <3>2. Moved(c, "uploaded", p, g, r)
      BY <1>1, <2>1, <3>1, Moves DEF Shapes, Stages
    <3>3. QED
      BY <3>2
  <2>2. CASE Go(c, "refetch")
    <3>1. PICK r \in Nat : r = job[c].gotRev
      BY Parts
    <3>2. Moved(c, "refetch", p, g, r)
      BY <1>1, <2>2, <3>1, StageIs DEF Stages
    <3>3. QED
      BY <3>2
  <2>3. QED
    BY <2>1, <2>2 DEF Upload
<1>5. Untouched(c)'
  BY <1>2, <1>3, <1>4 DEF Untouched, Moved, At
<1>6. Beyond(c, {})
  BY <1>2, <1>4 DEF Beyond, Moved
<1>7. g <= edits
  BY <1>3 DEF Safe, Careful, Numbered
<1>8. QED
  BY <1>2, <1>4, <1>5, <1>6, <1>7, SafeStep DEF Safe, Moved

LEMMA RefetchSafe ==
  ASSUME Shapes, Shapes', Safe, NEW c \in Clients, Refetch(c)
  PROVE  Safe'
<1>1. PICK p, g, r :
        p \in Paths /\ p = job[c].path /\ g = rows[p].facts /\ r = rows[p].rev
  BY Parts
<1>2. UNCHANGED <<disk, record, edits, archive>>
  BY DEF Refetch, serverVars, userVars
<1>3. CASE job' = [job EXCEPT ![c].got = g, ![c].gotRev = r, ![c].at = "reinstall"]
  <2>1. Moved(c, "reinstall", p, g, r)
    BY <1>1, <1>3, Moves, RowsAre DEF Shapes, Stages
  <2>2. At(c, "refetch") /\ Untouched(c)
    BY DEF Refetch, Safe, Careful
  <2>3. Untouched(c)'
    BY <1>1, <1>2, <2>1, <2>2 DEF Untouched, Moved, At
  <2>4. QED
    BY <1>2, <2>1, <2>3, SafeJob DEF Moved
<1>4. CASE End(c)
  BY <1>2, <1>4, EndSafe
<1>5. QED
  BY <1>1, <1>3, <1>4 DEF Refetch

(***************************************************************************)
(* An edit is a body nobody has seen; where it could be taken for what the *)
(* engine is replacing, the user is not in mid-air.                        *)
(***************************************************************************)
LEMMA UserSafe ==
  ASSUME ~MidAirEdits, Shapes, Shapes', Believed, Safe, NEW c \in Clients, UserStep(c)
  PROVE  Safe'
<1>1. PICK p \in Paths : UserWrites(c, p) \/ UserDeletes(c, p)
  BY FolderAssumption DEF UserStep
<1>2. /\ UNCHANGED <<archive, record, job>> /\ edits' = edits + 1 /\ edits \in Nat
      /\ edits + 1 \in Bodies /\ ~InMidAir(c, p)
  BY <1>1, BodiesAssumption DEF UserWrites, UserDeletes, UserMayTouch, serverVars, Shapes, Bodies
<1>3. PICK b \in {Absent, edits + 1} : Put(c, p, b)
  BY <1>1 DEF UserWrites, UserDeletes
<1>4. \A d \in Clients, q \in Paths :
        disk'[d][q] = IF d = c /\ q = p THEN b ELSE disk[d][q]
  BY <1>2, <1>3, PutIs DEF Shapes
<1>5. b \in Nat /\ b <= edits + 1 /\ \A n \in Nat : n <= edits => b = Absent \/ b # n
  BY <1>2 DEF Absent
<1>6. Beyond(c, {p})
  BY <1>2, <1>4 DEF Beyond
<1>7. /\ Careful(c) /\ UnderWay(c) /\ archive \subseteq archive' /\ edits <= edits'
      /\ \A a \in archive : a \in Nat /\ a <= edits
  BY <1>2, BodiesAssumption DEF Safe, Believed, ClientOK, Shapes, Bodies
<1>8. \A q \in Paths : /\ disk[c][q] \in Nat /\ record[c][q].stamp \in Nat
                       /\ job[c].found[q] \in Nat
                       /\ disk[c][q] <= edits /\ record[c][q].stamp <= edits
                       /\ job[c].found[q] <= edits
  BY <1>7, Parts, BodiesAssumption DEF Bodies, Absent, Careful, Numbered
<1>9. Numbered(c)'
  BY <1>2, <1>4, <1>5, <1>8 DEF Numbered
<1>10. \A q \in Paths : StampOK(c, q)'
  BY <1>2, <1>4, <1>5, <1>7, <1>8 DEF StampOK, Careful, Known
<1>11. Untouched(c)'
  <2>1. CASE job[c].path # p
    BY <1>2, <1>4, <1>7, <2>1, Parts DEF Careful, Untouched, Known, At
  <2>2. CASE job[c].path = p
    <3>1. job[c].at \notin {"unpark", "download", "install", "record", "upload", "refetch",
                            "reinstall", "rerecord"}
      BY <1>2, <2>2 DEF InMidAir
    <3>2. At(c, "uploaded") => job[c].found[p] # Absent
      BY <1>7, <2>2 DEF UnderWay, Sending, At
    <3>3. At(c, "uploaded") => disk'[c][p] # job[c].found[p]
      BY <1>4, <1>5, <1>8, <3>2
    <3>4. job' = job
      BY <1>2
    <3>5. QED
      BY <2>2, <3>1, <3>3, <3>4 DEF Untouched, At
  <2>3. QED
    BY <2>1, <2>2
<1>12. Careful(c)'
  BY <1>9, <1>10, <1>11 DEF Careful
<1>13. \A d \in Clients : d # c => Careful(d)'
  BY <1>6, <1>7, CarefulOthers
<1>14. \A a \in archive' : a <= edits'
  BY <1>2, <1>7
<1>15. QED
  BY <1>12, <1>13, <1>14 DEF Safe

LEMMA SafeFirst == ASSUME Init PROVE Safe
<1>1. ASSUME NEW c \in Clients PROVE Careful(c)
  <2>1. job[c] = Idle /\ edits = 0
        /\ \A p \in Paths : disk[c][p] = 0 /\ record[c][p] = NoRecord
    BY DEF Init, NoFiles, Absent
  <2>2. Numbered(c) /\ \A p \in Paths : StampOK(c, p)
    BY <2>1, IdleIs DEF Numbered, StampOK, Known, NoRecord, Absent
  <2>3. Untouched(c)
    BY <2>1, IdleIs DEF Untouched, At
  <2>4. QED
    BY <2>2, <2>3 DEF Careful
<1>2. QED
  BY <1>1 DEF Init, Safe

LEMMA SafeNext ==
  ASSUME ~MidAirEdits, Shapes, Shapes', Believed, Safe, [Next]_vars
  PROVE  Safe'
<1>1. CASE UNCHANGED vars
  BY <1>1 DEF vars, Safe, Careful, Numbered, Untouched, StampOK, Known, At
<1>2. ASSUME NEW c \in Clients, PullStep(c) PROVE Safe'
  BY <1>2, QuietSafe, ForgetSafe, RemovesSafe, IdenticalSafe, ParkSafe, RemoteSafe,
     DownloadSafe, InstallSafe, RecordsSafe DEF PullStep
<1>3. ASSUME NEW c \in Clients, EndCycle(c) \/ AbortCycle(c) PROVE Safe'
  BY <1>3, EndSafe DEF EndCycle, AbortCycle, serverVars, userVars
<1>4. ASSUME NEW c \in Clients, PushStep(c) PROVE Safe'
  BY <1>3, <1>4, NothingSafe, SnapshotSafe, UploadSafe, RecordsSafe, RefetchSafe,
     QuietSafe, ForgetSafe DEF PushStep
<1>5. QED
  BY <1>1, <1>2, <1>3, <1>4, UserSafe DEF Next, EngineStep

LEMMA SafeAlways == ASSUME ~MidAirEdits PROVE Spec => [](Shapes /\ Believed /\ Safe)
<1>1. Init => Shapes /\ Believed /\ Safe
  BY FirstOK, SafeFirst
<1>2. (Shapes /\ Believed /\ Safe) /\ [Next]_vars => (Shapes /\ Believed /\ Safe)'
  BY StepKeeps, SafeNext
<1>3. QED
  BY <1>1, <1>2, PTL DEF Spec

\* The engine changes a folder in three places.
LEMMA WhoWrites ==
  ASSUME Shapes, [Next]_vars, edits' = edits, NEW c \in Clients, NEW p \in Paths,
         disk'[c][p] # disk[c][p]
  PROVE  ApplyDeletionRemoves(c) \/ Park(c) \/ Install(c)
<1>1. ~UNCHANGED disk
  OBVIOUS
<1>2. PICK d \in Clients : EngineStep(d) \/ UserStep(d) \/ AbortCycle(d)
  BY <1>1 DEF Next, vars
<1>3. ~UserStep(d)
  BY DEF UserStep, UserWrites, UserDeletes, Shapes
<1>4. ApplyDeletionRemoves(d) \/ Park(d) \/ Install(d)
  <2>1. ~AbortCycle(d)
    BY <1>1 DEF AbortCycle
  <2>2. ~PushStep(d)
    BY <1>1 DEF PushStep, PushNothing, Snapshot, Upload, RecordUploaded, Refetch, RecordRefetched,
                FilesPushed, PushDeletion, ForgetGone, EndCycle
  <2>3. PullStep(d)
    BY <1>2, <1>3, <2>1, <2>2 DEF EngineStep
  <2>4. QED
    BY <1>1, <2>3 DEF PullStep, StartCycle, ApplyEcho, ApplyDeletionKeeps, ForgetRemoved,
                      ApplyIdentical, ForgetParked, ApplyRemote, Download, RecordPulled, FinishPull
<1>5. d = c
  <2>1. \E f : disk' = [disk EXCEPT ![d] = f]
    BY <1>4 DEF ApplyDeletionRemoves, Park, Install, Put
  <2>2. QED
    BY <2>1 DEF Shapes, DiskType
<1>6. QED
  BY <1>4, <1>5

\* What the engine takes from a folder is on the server or beside it.
LEMMA NotDiscarded ==
  ASSUME Shapes, Shapes', Believed, Safe, [Next]_vars, NEW c \in Clients, NEW p \in Paths, Known(c, p)
  PROVE  ~Discards(c, p)
<1> SUFFICES ASSUME Discards(c, p) PROVE FALSE
  OBVIOUS
<1>1. /\ disk[c][p] # Absent /\ disk[c][p] \notin archive' /\ disk'[c][p] # disk[c][p]
      /\ \A q \in Paths : disk'[c][q] # disk[c][p]
  BY DEF Discards
<1>2. ApplyDeletionRemoves(c) \/ Park(c) \/ Install(c)
  BY <1>1, WhoWrites DEF Discards
<1>3. disk[c][p] \notin archive
  BY <1>1, <1>2 DEF ApplyDeletionRemoves, Park, Install, serverVars
<1>4. record[c][p].sum \in archive /\ Careful(c)
  BY DEF Believed, ClientOK, RecordsOK, SeenAt, Safe
<1>5. CASE ApplyDeletionRemoves(c)
  <2>1. PICK q \in Paths : Deletable(c, q) /\ Put(c, q, Absent)
    BY <1>5 DEF ApplyDeletionRemoves
  <2>2. q = p
    BY <1>1, <2>1, PutIs DEF Shapes
  <2>3. QED
    BY <1>1, <1>3, <1>4, <2>1, <2>2 DEF Deletable, Careful, StampOK
<1>6. CASE Park(c)
  <2>1. PICK q \in Paths, s \in Paths :
          /\ disk[c][q] # Absent /\ disk[c][s] = Absent
          /\ disk' = [disk EXCEPT ![c][s] = disk[c][q], ![c][q] = Absent]
    BY <1>6 DEF Park, FirstFresh, Fresh, BothMoved
  <2>2. /\ disk'[c][s] = disk[c][q]
        /\ \A x \in Paths : x \notin {q, s} => disk'[c][x] = disk[c][x]
    BY <2>1 DEF Shapes, DiskType
  <2>3. QED
    BY <1>1, <2>1, <2>2
<1>7. CASE Install(c)
  <2>1. PICK q \in Paths, g \in Bodies \cup {Absent} : q = job[c].path /\ g = job[c].got
    BY Parts
  <2>2. Put(c, q, g)
    BY <1>7, <2>1 DEF Install
  <2>3. q = p
    BY <1>1, <2>2, PutIs DEF Shapes
  <2>4. disk[c][p] \in {Absent, record[c][p].sum} \/ disk[c][p] \in archive
    BY <1>4, <1>7, <2>1, <2>3 DEF Install, At, Careful, Untouched
  <2>5. QED
    BY <1>1, <1>3, <1>4, <2>4
<1>8. QED
  BY <1>2, <1>5, <1>6, <1>7

(***************************************************************************)
(* While nobody edits a file that is just being replaced, an edit of a     *)
(* file the state database knows is never lost: whatever the engine        *)
(* removes, moves aside or overwrites is on the server or still in the     *)
(* folder, also after a cycle that broke off.                              *)
(***************************************************************************)
THEOREM RecordedStaysSafe == ASSUME ~MidAirEdits PROVE Spec => RecordedIsSafe
<1>1. (Shapes /\ Believed /\ Safe) /\ (Shapes /\ Believed /\ Safe)' /\ [Next]_vars
        => [\A c \in Clients, p \in Paths : Known(c, p) => ~Discards(c, p)]_vars
  BY NotDiscarded
<1>2. QED
  BY <1>1, SafeAlways, PTL DEF Spec, RecordedIsSafe

LEMMA NotUndone ==
  ASSUME Shapes, Believed, Safe, [Next]_vars, edits' = edits,
         NEW c \in Clients, NEW p \in Edited, disk[c][p] = Absent, disk'[c][p] # Absent
  PROVE  job[c].batch[p].rev > record[c][p].rev
<1>1. p \in Paths /\ Careful(c) /\ UnderWay(c)
  BY FolderAssumption DEF Safe, Believed, ClientOK
<1>2. ApplyDeletionRemoves(c) \/ Park(c) \/ Install(c)
  BY <1>1, WhoWrites
<1>3. ~ApplyDeletionRemoves(c)
  <2> SUFFICES ASSUME ApplyDeletionRemoves(c) PROVE FALSE
    OBVIOUS
  <2>1. PICK q \in Paths : Put(c, q, Absent)
    BY DEF ApplyDeletionRemoves
  <2>2. QED
    BY <1>1, <2>1, PutIs DEF Shapes
<1>4. ~Park(c)
  <2> SUFFICES ASSUME Park(c) PROVE FALSE
    OBVIOUS
  <2>1. PICK q \in Paths, s \in Paths :
          /\ s \notin Edited
          /\ disk' = [disk EXCEPT ![c][s] = disk[c][q], ![c][q] = Absent]
    BY DEF Park, FirstFresh, Fresh
  <2>2. QED
    BY <1>1, <2>1 DEF Shapes, DiskType
<1>5. PICK q \in Paths, g \in Bodies \cup {Absent} : q = job[c].path /\ g = job[c].got
  BY Parts
<1>6. Install(c) /\ Put(c, q, g)
  BY <1>2, <1>3, <1>4, <1>5 DEF Install
<1>7. q = p
  BY <1>1, <1>6, PutIs DEF Shapes
<1>8. ~At(c, "reinstall")
  BY <1>1, <1>5, <1>7, BodiesAre DEF Careful, Untouched, At, Shapes
<1>9. At(c, "install")
  BY <1>6, <1>8 DEF Install
<1>10. record[c][p].rev < job[c].batch[p].rev
  BY <1>1, <1>5, <1>7, <1>9 DEF UnderWay, Fetching, At
<1>11. QED
  BY <1>1, <1>10, Parts

(***************************************************************************)
(* While nobody edits a file that is just being replaced, a file that is   *)
(* gone from a folder is written again only for an entry newer than what   *)
(* the record says this machine had: the echo of one's own upload does not *)
(* undo a deletion.                                                        *)
(***************************************************************************)
THEOREM DeletedStaysDeleted == ASSUME ~MidAirEdits PROVE Spec => DeletionsStay
<1>1. (Shapes /\ Believed /\ Safe) /\ [Next]_vars
        => [ \A c \in Clients, p \in Edited :
               edits' = edits /\ p \in deleted[c] /\ disk[c][p] = Absent /\ disk'[c][p] # Absent
                 => job[c].batch[p].rev > record[c][p].rev ]_vars
  BY NotUndone
<1>2. QED
  BY <1>1, SafeAlways, PTL DEF Spec, DeletionsStay
=============================================================================
