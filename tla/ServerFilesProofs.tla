-------------------------- MODULE ServerFilesProofs --------------------------
(***************************************************************************)
(* Proofs about ServerFiles for every set of paths and requests and every  *)
(* kind of failure: what holds however requests overlap (types, names),    *)
(* and what holds while those that overlap are about unrelated paths       *)
(* (accepted bodies, the index, the promise of FileServer).  Two spellings *)
(* that the volume files under one name are related: nothing here is said  *)
(* of requests that overlap on them, see server_race.                      *)
(***************************************************************************)
EXTENDS ServerFiles, TLAPS

\* Of all the steps of all the handlers, only these two write the index.
LEMMA WhoWritesTheIndex ==
  ASSUME [Next]_vars
  PROVE  \/ \E r \in Reqs : \E f \in {r, Directory} : Record(r) /\ Upsert(job[r].target, f)
         \/ \E r \in Reqs : Mark(r) /\ MarkDeleted(Path(r))
         \/ UNCHANGED indexVars
<1>1. CASE UNCHANGED vars \/ Crash
  BY <1>1 DEF vars, Crash, indexVars
<1>2. ASSUME NEW r \in Reqs, Step(r)
      PROVE  \/ \E f \in {r, Directory} : Record(r) /\ Upsert(job[r].target, f)
             \/ Mark(r) /\ MarkDeleted(Path(r))
             \/ UNCHANGED indexVars
  <2>1. CASE Arrive(r) \/ Lookup(r) \/ Check(r) \/ MoveToTrash(r) \/ Write(r)
    BY <2>1 DEF Arrive, Lookup, LookupPut, LookupDelete, LookupDir,
                Check, CheckCase, CheckPut, CheckDir, MoveToTrash, Write
  <2>2. CASE WriteFails(r) \/ Undo(r) \/ Mkdir(r) \/ Remove(r)
    BY <2>2 DEF WriteFails, Undo, Mkdir, Remove
  <2>3. CASE Record(r)
    BY <2>3 DEF Record, RecordFile, RecordDir, RecordAs
  <2>4. CASE Mark(r)
    BY <2>4 DEF Mark
  <2>5. QED
    BY <1>2, <2>1, <2>2, <2>3, <2>4 DEF Step
<1>3. QED
  BY <1>1, <1>2 DEF Next

\* Every path is filed at a place, and what is at one place has one name at most.
LEMMA PlacesAreFixed ==
  ASSUME NEW p \in Paths
  PROVE  /\ On[p] \in Places /\ On[p] \in Paths /\ p \in Names(On[p])
         /\ \A k \in Above[On[p]] : k \in Places /\ On[k] = k
         /\ Above[On[p]] = {On[a] : a \in Above[p]}
         /\ \A q \in Paths : On[q] = On[p] => Fold[q] = Fold[p]
<1>1. Above[p] \subseteq Paths
  BY TreeAssumption
<1>2. QED
  BY <1>1, VolumeAssumption DEF Places, Names

LEMMA IndexTyped ==
  ASSUME IndexTypeOK, [Next]_vars
  PROVE  IndexTypeOK'
<1>1. ASSUME NEW p, NEW f \in Facts, Upsert(p, f)
      PROVE  IndexTypeOK'
  <2>1. /\ currentRev' \in Nat
        /\ [rev |-> currentRev', deleted |-> FALSE, facts |-> f] \in Row
    BY <1>1 DEF Upsert, IndexTypeOK, Row
  <2>2. rows' \in [Paths -> Row]
    BY <1>1, <2>1 DEF Upsert, IndexTypeOK
  <2>3. QED
    BY <2>1, <2>2 DEF IndexTypeOK
<1>2. ASSUME NEW p, MarkDeleted(p)
      PROVE  IndexTypeOK'
  <2>1. /\ currentRev' \in Nat
        /\ [rev |-> currentRev', deleted |-> TRUE, facts |-> NoFacts] \in Row
    BY <1>2 DEF MarkDeleted, IndexTypeOK, Row
  <2>2. rows' \in [Paths -> Row]
    <3>1. CASE p \in Paths
      BY <1>2, <2>1, <3>1 DEF MarkDeleted, IndexTypeOK
    <3>2. CASE p \notin Paths
      BY <1>2, <3>2 DEF MarkDeleted, IndexTypeOK
    <3>3. QED
      BY <3>1, <3>2
  <2>3. QED
    BY <2>1, <2>2 DEF IndexTypeOK
<1>3. CASE UNCHANGED indexVars
  BY <1>3 DEF indexVars, IndexTypeOK
<1>4. \A r \in Reqs : {r, Directory} \subseteq Facts
  BY RequestAssumption
<1>5. QED
  BY <1>1, <1>2, <1>3, <1>4, WhoWritesTheIndex

----------------------------------------------------------------------------
(* Types. *)

RequestsOK ==
  /\ CallsTypeOK
  /\ job \in [Reqs -> Job \cup {Idle}]
  /\ \A r \in Reqs : job[r] # Idle <=> Open(r)

DiskOK ==
  /\ disk \in [Paths -> Reqs \cup {Directory, Nothing}]
  /\ trash \subseteq Reqs

\* A request with a handler has arrived, and its handler has a stage.
LEMMA HandlerOfRequest ==
  ASSUME RequestsOK, NEW r \in Reqs, job[r] # Idle
  PROVE  /\ job[r] \in Job /\ call[r] \in Call /\ answer[r] = "none"
         /\ call[r] # NoCall /\ Path(r) \in Paths /\ job[r].target \in Paths
         /\ Place(r) \in Paths /\ Spot(r) \in Paths
<1>1. job[r] \in Job /\ Open(r)
  BY DEF RequestsOK
<1>2. call[r] \in Call /\ answer[r] = "none" /\ call[r] # NoCall
  BY <1>1 DEF Open, RequestsOK, CallsTypeOK
<1>3. QED
  BY <1>1, <1>2, NamesAssumption, VolumeAssumption DEF Call, Job, Path, Place, Spot

LEMMA JobIsNotIdle ==
  ASSUME NEW j \in Job
  PROVE  j # Idle
<1>1. j.at \in Stages
  BY DEF Job
<1>2. Idle.at = "idle"
  BY DEF Idle
<1>3. QED
  BY <1>1, <1>2 DEF Stages

LEMMA JobMoves ==
  ASSUME RequestsOK, NEW r \in Reqs, job[r] # Idle, NEW j \in Job,
         job' = [job EXCEPT ![r] = j], UNCHANGED callVars
  PROVE  RequestsOK'
<1>1. CallsTypeOK' /\ job' \in [Reqs -> Job \cup {Idle}]
  BY DEF RequestsOK, CallsTypeOK, callVars
<1>2. \A q \in Reqs : Open(q)' <=> Open(q)
  BY DEF Open, callVars
<1>3. \A q \in Reqs : job'[q] # Idle <=> job[q] # Idle
  BY JobIsNotIdle DEF RequestsOK
<1>4. QED
  BY <1>1, <1>2, <1>3 DEF RequestsOK

LEMMA GoTyped ==
  ASSUME RequestsOK, NEW r \in Reqs, job[r] # Idle, NEW stage \in Stages, Go(r, stage)
  PROVE  RequestsOK'
<1>1. [job[r] EXCEPT !.at = stage] \in Job
  BY HandlerOfRequest DEF Job
<1>2. job' = [job EXCEPT ![r] = [job[r] EXCEPT !.at = stage]]
  BY DEF Go
<1>3. QED
  BY <1>1, <1>2, JobMoves DEF Go

LEMMA FinishTyped ==
  ASSUME RequestsOK, NEW r \in Reqs, job[r] # Idle, NEW a \in Answers \ {"none"}, Finish(r, a)
  PROVE  RequestsOK'
<1>1. call[r] # NoCall
  BY HandlerOfRequest
<1>2. CallsTypeOK'
  BY <1>1 DEF RequestsOK, CallsTypeOK, Finish, Reply
<1>3. job' \in [Reqs -> Job \cup {Idle}]
  BY DEF RequestsOK, Finish
<1>4. \A q \in Reqs : job'[q] # Idle <=> Open(q)'
  BY DEF RequestsOK, CallsTypeOK, Finish, Reply, Open
<1>5. QED
  BY <1>2, <1>3, <1>4 DEF RequestsOK

LEMMA ArriveTyped ==
  ASSUME IndexTypeOK, RequestsOK, NEW r \in Reqs, Arrive(r)
  PROVE  RequestsOK'
<1>1. PICK op \in Ops, p \in Named, base \in 0 .. currentRev :
        /\ Ask(r, op, p, base)
        /\ job' = [job EXCEPT ![r] = [at |-> "lookup", seen |-> NoRow, target |-> p]]
  BY DEF Arrive
<1> DEFINE asked == [op |-> op, path |-> p, base |-> base]
           first == [at |-> "lookup", seen |-> NoRow, target |-> p]
<1>2. asked \in Call /\ asked # NoCall
  <2>1. asked.op # "none" /\ NoCall.op = "none"
    BY DEF Ops, NoCall
  <2>2. base \in Nat
    BY DEF IndexTypeOK
  <2>3. QED
    BY <2>1, <2>2 DEF Call
<1>3. first \in Job /\ first # Idle
  <2>1. first \in Job
    BY NamesAssumption DEF Job, Stages, NoRow, Row
  <2>2. QED
    BY <2>1, JobIsNotIdle
<1>4. answer[r] = "none"
  BY <1>1 DEF Ask, RequestsOK, CallsTypeOK
<1>5. call' = [call EXCEPT ![r] = asked] /\ answer' = answer
  BY <1>1 DEF Ask
<1> HIDE DEF asked, first
<1>6. CallsTypeOK'
  BY <1>2, <1>4, <1>5 DEF RequestsOK, CallsTypeOK
<1>7. job' = [job EXCEPT ![r] = first]
  BY <1>1 DEF first
<1>8. \A q \in Reqs : job'[q] # Idle <=> Open(q)'
  BY <1>2, <1>3, <1>4, <1>5, <1>7 DEF RequestsOK, CallsTypeOK, Open
<1>9. QED
  BY <1>3, <1>6, <1>7, <1>8 DEF RequestsOK

LEMMA CrashTyped ==
  ASSUME RequestsOK, Crash
  PROVE  RequestsOK'
<1>1. CallsTypeOK'
  BY DEF RequestsOK, CallsTypeOK, Crash, FailAll, Answers, Open
<1>2. \A q \in Reqs : job'[q] = Idle /\ ~Open(q)'
  BY DEF RequestsOK, CallsTypeOK, Crash, FailAll, Open
<1>3. QED
  BY <1>1, <1>2 DEF RequestsOK, Crash

LEMMA StepTyped ==
  ASSUME IndexTypeOK, RequestsOK, NEW r \in Reqs, Step(r)
  PROVE  RequestsOK'
<1>1. CASE Arrive(r)
  BY <1>1, ArriveTyped
<1>2. ASSUME ~Arrive(r) PROVE job[r] # Idle
  BY <1>2 DEF Step, Lookup, LookupPut, LookupDelete, LookupDir, Check, CheckCase, CheckPut,
      CheckDir, MoveToTrash, Write, WriteFails, Undo, Record, RecordFile, RecordDir,
      Mkdir, Remove, Mark, At
<1>3. ASSUME job[r] # Idle, NEW stage \in Stages, Proceed(r, stage)
      PROVE  RequestsOK'
  <2>1. [job[r] EXCEPT !.at = stage, !.seen = rows[Path(r)]] \in Job
    BY <1>3, HandlerOfRequest DEF Job, IndexTypeOK
  <2>2. job' = [job EXCEPT ![r] = [job[r] EXCEPT !.at = stage, !.seen = rows[Path(r)]]]
    BY <1>3 DEF Proceed, RequestsOK
  <2>3. QED
    BY <1>3, <2>1, <2>2, JobMoves DEF Proceed
<1>4. ASSUME job[r] # Idle, NEW c \in Paths, UNCHANGED callVars,
             job' = [job EXCEPT ![r].at = "write", ![r].target = c]
      PROVE  RequestsOK'
  <2>1. [job[r] EXCEPT !.at = "write", !.target = c] \in Job
    BY <1>4, HandlerOfRequest DEF Job, Stages
  <2>2. job' = [job EXCEPT ![r] = [job[r] EXCEPT !.at = "write", !.target = c]]
    BY <1>4 DEF RequestsOK
  <2>3. QED
    BY <1>4, <2>1, <2>2, JobMoves
<1>5. CASE job[r] # Idle
  <2>1. CASE Lookup(r)
    BY <1>3, <1>5, <2>1, FinishTyped
    DEF Lookup, LookupPut, LookupDelete, LookupDir, Answers, Refusals, Stages
  <2>2. CASE Check(r)
    <3>1. CASE CheckCase(r) \/ CheckDir(r)
      BY <1>5, <3>1, FinishTyped, GoTyped DEF CheckCase, CheckDir, Answers, Refusals, Stages
    <3>2. CASE CheckPut(r)
      BY <1>4, <1>5, <3>2, GoTyped DEF CheckPut, Stages
    <3>3. QED
      BY <2>2, <3>1, <3>2 DEF Check
  <2>3. CASE MoveToTrash(r) \/ Write(r) \/ Mkdir(r) \/ Remove(r)
    BY <1>5, <2>3, FinishTyped, GoTyped
    DEF MoveToTrash, Write, Mkdir, Remove, Answers, Stages
  <2>4. CASE WriteFails(r) \/ Undo(r) \/ Mark(r)
    BY <1>5, <2>4, FinishTyped DEF WriteFails, Undo, Mark, Answers
  <2>5. CASE Record(r)
    BY <1>5, <2>5, FinishTyped
    DEF Record, RecordFile, RecordDir, RecordAs, Answers, Refusals
  <2>6. QED
    BY <1>1, <2>1, <2>2, <2>3, <2>4, <2>5 DEF Step
<1>6. QED
  BY <1>1, <1>2, <1>5

LEMMA DiskTyped ==
  ASSUME RequestsOK, DiskOK, [Next]_vars
  PROVE  DiskOK'
<1>1. CASE UNCHANGED <<disk, trash>>
  BY <1>1 DEF DiskOK
<1>2. ASSUME NEW p, NEW d, d = disk \/ d = MakeParents(p)
      PROVE  d \in [Paths -> Reqs \cup {Directory, Nothing}]
  BY <1>2 DEF DiskOK, MakeParents
<1>3. ASSUME NEW p, ToTrash(p) PROVE DiskOK'
  <2>1. \A q \in Subtree(p) : Body(q) => disk[q] \in Reqs
    BY DEF DiskOK, Subtree, Body
  <2>2. trash' \subseteq Reqs
    BY <1>3, <2>1 DEF DiskOK, ToTrash
  <2>3. disk' \in [Paths -> Reqs \cup {Directory, Nothing}]
    BY <1>3 DEF DiskOK, ToTrash
  <2>4. QED
    BY <2>2, <2>3 DEF DiskOK
<1>4. ASSUME NEW p, RemovePath(p), UNCHANGED trash PROVE DiskOK'
  BY <1>4 DEF DiskOK, RemovePath
<1>5. ASSUME NEW r \in Reqs, Step(r) PROVE DiskOK'
  <2>1. CASE MoveToTrash(r) \/ Undo(r) \/ Remove(r)
    BY <1>1, <1>3, <1>4, <2>1 DEF MoveToTrash, Undo, Remove
  <2>2. CASE Write(r)
    BY <1>2, <2>2 DEF Write, DiskOK
  <2>3. CASE WriteFails(r)
    BY <1>2, <2>3 DEF WriteFails, DiskOK
  <2>4. CASE Mkdir(r)
    BY <1>2, <2>4 DEF Mkdir, DiskOK
  <2>5. CASE Arrive(r) \/ Lookup(r) \/ Check(r) \/ Record(r) \/ Mark(r)
    BY <1>1, <2>5 DEF Arrive, Lookup, LookupPut, LookupDelete, LookupDir, Check, CheckCase,
        CheckPut, CheckDir, Record, RecordFile, RecordDir, RecordAs, Mark
  <2>6. QED
    BY <1>5, <2>1, <2>2, <2>3, <2>4, <2>5 DEF Step
<1>6. QED
  BY <1>1, <1>5 DEF Next, Crash, vars

(***************************************************************************)
(* Every variable keeps its type and every open request has exactly one    *)
(* handler, however requests overlap and whatever fails (api/files.go).    *)
(***************************************************************************)
THEOREM TypeCorrect == Spec => []TypeOK
<1>1. TypeOK <=> IndexTypeOK /\ RequestsOK /\ DiskOK
  BY DEF TypeOK, RequestsOK, DiskOK
<1>2. Init => TypeOK
  BY DEF Init, TypeOK, IndexInit, IndexTypeOK, NoRow, Row, CallsInit, CallsTypeOK, Answers,
      Open
<1>3. TypeOK /\ [Next]_vars => TypeOK'
  <2> SUFFICES ASSUME TypeOK, [Next]_vars PROVE TypeOK'
    OBVIOUS
  <2>1. IndexTypeOK' /\ DiskOK'
    BY <1>1, IndexTyped, DiskTyped
  <2>2. RequestsOK'
    <3>1. CASE UNCHANGED vars
      BY <1>1, <3>1 DEF vars, RequestsOK, CallsTypeOK, Open
    <3>2. QED
      BY <1>1, <3>1, CrashTyped, StepTyped DEF Next
  <2>3. QED
    BY <2>1, <2>2 DEF TypeOK, RequestsOK, DiskOK
<1>4. QED
  BY <1>2, <1>3, PTL DEF Spec

----------------------------------------------------------------------------
(* Names. *)

LEMMA UpsertKeepsNamesApart ==
  ASSUME IndexTypeOK, NoCaseCollision, NEW p, NEW f, Upsert(p, f)
  PROVE  NoCaseCollision'
<1>1. \A q \in Paths \ {p} : rows'[q] = rows[q]
  BY DEF Upsert, IndexTypeOK
<1>2. SUFFICES ASSUME NEW a \in Paths, NEW b \in Paths,
                      Live(a)', Live(b)', Fold[a] = Fold[b], a # b
               PROVE  FALSE
  BY DEF NoCaseCollision
<1>3. CASE a = p
  BY <1>1, <1>2, <1>3 DEF Upsert, CaseCollision, Live
<1>4. CASE b = p
  BY <1>1, <1>2, <1>4 DEF Upsert, CaseCollision, Live
<1>5. CASE a # p /\ b # p
  BY <1>1, <1>2, <1>5 DEF NoCaseCollision, Live
<1>6. QED
  BY <1>3, <1>4, <1>5

LEMMA MarkDeletedKeepsNamesApart ==
  ASSUME IndexTypeOK, NoCaseCollision, NEW p, MarkDeleted(p)
  PROVE  NoCaseCollision'
<1>1. \A q \in Paths : Live(q)' => Live(q)
  BY DEF MarkDeleted, IndexTypeOK, Live, Row, NoRow
<1>2. QED
  BY <1>1 DEF NoCaseCollision

(***************************************************************************)
(* No two live rows differ by letter case only, even when two uploads of   *)
(* such names have both passed the check made before the disk is touched   *)
(* (CheckCaseCollision): the check inside the transaction (Index.Upsert)   *)
(* is enough by itself.                                                    *)
(***************************************************************************)
THEOREM NamesStayApart == Spec => []NoCaseCollision
<1> DEFINE Inv == IndexTypeOK /\ NoCaseCollision
<1>1. Init => Inv
  BY DEF Init, IndexInit, IndexTypeOK, NoCaseCollision, Live, NoRow, Row
<1>2. Inv /\ [Next]_vars => Inv'
  <2> SUFFICES ASSUME Inv, [Next]_vars PROVE Inv'
    OBVIOUS
  <2>1. IndexTypeOK'
    BY IndexTyped
  <2>2. CASE UNCHANGED indexVars
    BY <2>1, <2>2 DEF indexVars, NoCaseCollision, Live
  <2>3. QED
    BY <2>1, <2>2, WhoWritesTheIndex, UpsertKeepsNamesApart, MarkDeletedKeepsNamesApart
<1>3. QED
  BY <1>1, <1>2, PTL DEF Spec
----------------------------------------------------------------------------
(***************************************************************************)
(* Requests apart: the condition Racing and ConflictsApart describe.       *)
(***************************************************************************)

\* What one request writes no other request is about.
Apart ==
  \A q, r \in Reqs : Open(q) /\ Open(r) /\ q # r =>
    \A x \in Claims(q), y \in Claims(r) : ~Related(x, y)

\* A file is in directories, and nothing is in a file.
TreeOK == \A p \in Paths : disk[p] # Nothing => \A a \in Above[p] : disk[a] = Directory

\* The stages of the handler of each operation.
StagesOf(op) ==
  CASE op = "put"    -> {"lookup", "check", "trash", "write", "undo", "record"}
    [] op = "delete" -> {"lookup", "remove", "mark"}
    [] op = "mkdir"  -> {"lookup", "check", "mkdir", "record"}

(***************************************************************************)
(* What a handler knows: the row it looked up is still the row, and it     *)
(* goes on as that row demands.                                            *)
(***************************************************************************)
RowAsSeen(r) == job[r].at # "lookup" => rows[Path(r)] = job[r].seen

\* Past the check no other spelling of the path is live that the volume would
\* take for it.
Alone(r) ==
  job[r].at \notin {"lookup", "check"} =>
    \A p \in Names(Place(r)) : p # Path(r) => ~Live(p)

Target(r) ==
  IF call[r].op = "put" /\ job[r].at \in {"write", "undo", "record"} /\ Conflicts(r)
  THEN job[r].target \in Copies[Path(r)] /\ \A p \in Names(Spot(r)) : ~Live(p)
  ELSE job[r].target = Path(r)

Decided(r) ==
  LET op == call[r].op
      at == job[r].at
      seen == job[r].seen
  IN
  /\ at \in StagesOf(op)
  /\ at # "lookup" =>
       /\ op = "put" => seen.deleted \/ ReplacesFile(r)
       /\ op = "mkdir" => seen.deleted
       /\ op = "delete" => ~seen.deleted /\ ~Conflicts(r)
  /\ at = "trash" => ReplacesFile(r) /\ ~Conflicts(r)

\* What is on the disk where it writes.
InPlace(r) ==
  LET at == job[r].at
      there == disk[Spot(r)]
  IN
  /\ at = "write" /\ (Conflicts(r) \/ ReplacesFile(r)) => there = Nothing
  /\ at \in {"undo", "record"} => there = IF call[r].op = "put" THEN r ELSE Directory
  /\ at = "mark" => there = Nothing

HandlerOK(r) == RowAsSeen(r) /\ Alone(r) /\ Target(r) /\ Decided(r) /\ InPlace(r)

HandlersOK == \A r \in Reqs : Open(r) => HandlerOK(r)

\* An accepted body is in the trash or the content of a live file.
Kept ==
  \A r \in Reqs : Accepted(r) => r \in trash \/ \E p \in Paths : disk[On[p]] = r /\ IsFile(p)

----------------------------------------------------------------------------
(* Index and disk. *)

FailedAt(r) == answer[r] \in {"failed", "case_collision"}

HarmedAt(k) == \E r \in Reqs : FailedAt(r) /\ (k = Place(r) \/ Place(r) \in Above[k])

CopyLeftAt(k) == \E r \in Reqs : FailedAt(r) /\ k \in {On[c] : c \in Copies[Path(r)]}

Settling == {"write", "undo", "record", "mark"}

BusyAt(k) == \E r \in Reqs : Open(r) /\ k = Spot(r) /\ job[r].at \in Settling

Agrees(k) ==
  /\ \A p \in Names(k) : Live(p) => disk[k] = rows[p].facts
  /\ Body(k) /\ ~CopyLeftAt(k) => \E p \in Names(k) : Live(p)

\* Where nothing has gone wrong and nothing is half done, index and disk agree.
Settled == \A k \in Places : ~HarmedAt(k) /\ ~BusyAt(k) => Agrees(k)

----------------------------------------------------------------------------
(* What one step of one handler touches. *)

\* Only a request with a handler takes a step, other than to arrive.
LEMMA OnlyHandlersStep ==
  ASSUME RequestsOK, NEW r \in Reqs, Step(r), ~Arrive(r)
  PROVE  job[r] # Idle /\ Open(r)
BY DEF RequestsOK, Step, Lookup, LookupPut, LookupDelete, LookupDir, Check, CheckCase, CheckPut,
       CheckDir, MoveToTrash, Write, WriteFails, Undo, Record, RecordFile, RecordDir,
       Mkdir, Remove, Mark, At

\* How a handler's own part of the state looks after each way to go on.
LEMMA AfterGo ==
  ASSUME RequestsOK, NEW r \in Reqs, job[r] # Idle, NEW stage, Go(r, stage)
  PROVE  /\ job'[r].at = stage /\ job'[r].seen = job[r].seen /\ job'[r].target = job[r].target
         /\ \A q \in Reqs \ {r} : job'[q] = job[q]
         /\ call' = call /\ answer' = answer
<1>1. job[r] \in Job
  BY HandlerOfRequest
<1>2. job' = [job EXCEPT ![r] = [job[r] EXCEPT !.at = stage]]
  BY DEF Go
<1>3. job'[r] = [job[r] EXCEPT !.at = stage] /\ \A q \in Reqs \ {r} : job'[q] = job[q]
  BY <1>2 DEF RequestsOK
<1>4. QED
  BY <1>1, <1>3 DEF Go, callVars, Job

LEMMA AfterProceed ==
  ASSUME RequestsOK, NEW r \in Reqs, job[r] # Idle, NEW stage, Proceed(r, stage)
  PROVE  /\ job'[r].at = stage /\ job'[r].seen = rows[Path(r)] /\ job'[r].target = job[r].target
         /\ \A q \in Reqs \ {r} : job'[q] = job[q]
         /\ call' = call /\ answer' = answer
<1>1. job[r] \in Job
  BY HandlerOfRequest
<1>2. job'[r] = [job[r] EXCEPT !.at = stage, !.seen = rows[Path(r)]]
  BY DEF Proceed, RequestsOK
<1>3. \A q \in Reqs \ {r} : job'[q] = job[q]
  BY DEF Proceed, RequestsOK
<1>4. /\ [job[r] EXCEPT !.at = stage, !.seen = rows[Path(r)]].at = stage
      /\ [job[r] EXCEPT !.at = stage, !.seen = rows[Path(r)]].seen = rows[Path(r)]
      /\ [job[r] EXCEPT !.at = stage, !.seen = rows[Path(r)]].target = job[r].target
  BY <1>1 DEF Job
<1>5. QED
  BY <1>2, <1>3, <1>4 DEF Proceed, callVars

LEMMA AfterAside ==
  ASSUME RequestsOK, NEW r \in Reqs, job[r] # Idle, NEW c, UNCHANGED callVars,
         job' = [job EXCEPT ![r].at = "write", ![r].target = c]
  PROVE  /\ job'[r].at = "write" /\ job'[r].seen = job[r].seen /\ job'[r].target = c
         /\ \A q \in Reqs \ {r} : job'[q] = job[q]
         /\ call' = call /\ answer' = answer
<1>1. job[r] \in Job
  BY HandlerOfRequest
<1>2. job'[r] = [job[r] EXCEPT !.at = "write", !.target = c]
  BY DEF RequestsOK
<1>3. \A q \in Reqs \ {r} : job'[q] = job[q]
  BY DEF RequestsOK
<1>4. /\ [job[r] EXCEPT !.at = "write", !.target = c].at = "write"
      /\ [job[r] EXCEPT !.at = "write", !.target = c].seen = job[r].seen
      /\ [job[r] EXCEPT !.at = "write", !.target = c].target = c
  BY <1>1 DEF Job
<1>5. QED
  BY <1>2, <1>3, <1>4 DEF callVars

LEMMA AfterFinish ==
  ASSUME RequestsOK, NEW r \in Reqs, NEW a \in Answers \ {"none"}, Finish(r, a)
  PROVE  /\ answer'[r] = a /\ ~Open(r)'
         /\ \A q \in Reqs \ {r} : job'[q] = job[q] /\ answer'[q] = answer[q]
         /\ call' = call
BY DEF Finish, Reply, RequestsOK, CallsTypeOK, Open

LEMMA AfterArrive ==
  ASSUME RequestsOK, NEW r \in Reqs, Arrive(r)
  PROVE  /\ call[r] = NoCall /\ answer' = answer
         /\ job'[r].at = "lookup" /\ job'[r].seen = NoRow /\ job'[r].target = Path(r)'
         /\ call'[r].op \in Ops /\ Path(r)' \in Named
         /\ \A q \in Reqs \ {r} : job'[q] = job[q] /\ call'[q] = call[q]
         /\ Racing \/ \A q \in Reqs : Open(q) => \A x \in Claims(q) : ~Related(Place(r)', x)
BY DEF Arrive, Ask, RequestsOK, CallsTypeOK, Path, Place

LEMMA OthersWait ==
  ASSUME IndexTypeOK, RequestsOK, NEW r \in Reqs, Step(r), NEW q \in Reqs \ {r}
  PROVE  /\ job'[q] = job[q] /\ call'[q] = call[q] /\ answer'[q] = answer[q]
         /\ Open(q)' <=> Open(q)
         /\ Path(q)' = Path(q)
         /\ Place(q)' = Place(q) /\ Spot(q)' = Spot(q) /\ Claims(q)' = Claims(q)
<1>1. job'[q] = job[q]
  BY DEF Step, Arrive, Lookup, LookupPut, LookupDelete, LookupDir, Check, CheckCase, CheckPut,
         CheckDir, MoveToTrash, Write, WriteFails, Undo, Record, RecordFile, RecordDir, RecordAs,
         Mkdir, Remove, Mark, Go, Proceed, Finish, RequestsOK
<1>2. call'[q] = call[q] /\ answer'[q] = answer[q]
  BY DEF Step, Arrive, Ask, Lookup, LookupPut, LookupDelete, LookupDir, Check, CheckCase,
         CheckPut, CheckDir, MoveToTrash, Write, WriteFails, Undo, Record, RecordFile,
         RecordDir, RecordAs, Mkdir, Remove, Mark, Go, Proceed, Finish, Reply, callVars,
         RequestsOK, CallsTypeOK
<1>3. QED
  BY <1>1, <1>2 DEF Open, Path, Claims, Place, Spot

LEMMA CallsStay ==
  ASSUME RequestsOK, NEW r \in Reqs, Step(r), ~Arrive(r)
  PROVE  call' = call
BY DEF Step, Lookup, LookupPut, LookupDelete, LookupDir, Check, CheckCase,
       CheckPut, CheckDir, MoveToTrash, Write, WriteFails, Undo, Record, RecordFile,
       RecordDir, RecordAs, Mkdir, Remove, Mark, Go, Proceed, Finish, Reply, callVars

\* A step changes the index and the disk only at what it is about, and in the
\* directories around and below it.
LEMMA StepsStayAtTheirClaims ==
  ASSUME IndexTypeOK, RequestsOK, DiskOK, NEW r \in Reqs, Step(r), NEW x \in Paths
  PROVE  /\ (\A y \in Claims(r) : ~Related(x, y)) => disk'[x] = disk[x]
         /\ On[x] \notin Claims(r) => rows'[x] = rows[x]
<1>1. CASE Arrive(r) \/ Lookup(r) \/ Check(r)
  BY <1>1 DEF Arrive, Lookup, LookupPut, LookupDelete, LookupDir, Check, CheckCase, CheckPut,
      CheckDir, indexVars
<1>2. CASE MoveToTrash(r) \/ Remove(r)
  BY <1>2 DEF MoveToTrash, Remove, ToTrash, RemovePath, Subtree, Claims, Related, DiskOK, indexVars
<1>3. CASE Write(r) \/ WriteFails(r) \/ Undo(r)
  BY <1>3 DEF Write, WriteFails, Undo, MakeParents, RemovePath, Claims, Related, DiskOK, indexVars
<1>4. CASE Mkdir(r)
  BY <1>4 DEF Mkdir, MakeParents, Claims, Related, DiskOK, indexVars
<1>5. CASE Record(r) \/ Mark(r)
  <2>1. On[x] \notin Claims(r) => x # job[r].target /\ x # Path(r)
    BY DEF Claims, Place, Spot
  <2>2. QED
    BY <1>5, <2>1 DEF Record, RecordFile, RecordDir, RecordAs, Mark, Upsert, MarkDeleted,
        IndexTypeOK, indexVars
<1>6. QED
  BY <1>1, <1>2, <1>3, <1>4, <1>5 DEF Step

----------------------------------------------------------------------------
(* The tree. *)

\* MkdirAll, with or without something put at the end of it.
LEMMA ParentsKeepTree ==
  ASSUME DiskOK, TreeOK, NEW t \in Paths, CanMakeParents(t)
  PROVE  /\ disk' = MakeParents(t) => TreeOK'
         /\ \A b \in Reqs :
              disk[t] # Directory /\ disk' = [MakeParents(t) EXCEPT ![t] = b] => TreeOK'
         /\ disk' = [MakeParents(t) EXCEPT ![t] = Directory] => TreeOK'
<1>1. t \notin Above[t] /\ \A a \in Above[t] : a \in Paths /\ Above[a] \subseteq Above[t]
  BY TreeAssumption
<1>2. ASSUME disk' = MakeParents(t) PROVE TreeOK'
  <2>1. SUFFICES ASSUME NEW x \in Paths, disk'[x] # Nothing, NEW a \in Above[x]
                 PROVE  disk'[a] = Directory
    BY DEF TreeOK
  <2>2. a \in Paths
    BY TreeAssumption
  <2>3. CASE x \in Above[t]
    BY <1>1, <1>2, <2>2, <2>3 DEF MakeParents
  <2>4. CASE x \notin Above[t]
    BY <1>2, <2>1, <2>2, <2>4 DEF MakeParents, TreeOK
  <2>5. QED
    BY <2>3, <2>4
<1>3. ASSUME NEW b \in Reqs \cup {Directory}, disk[t] # Directory \/ b = Directory,
             disk' = [MakeParents(t) EXCEPT ![t] = b]
      PROVE  TreeOK'
  <2>1. /\ \A a \in Above[t] : disk'[a] = Directory
        /\ \A x \in Paths : x # t /\ x \notin Above[t] => disk'[x] = disk[x]
    BY <1>1, <1>3 DEF MakeParents
  <2>2. disk'[t] = b
    BY <1>3 DEF MakeParents
  <2>3. SUFFICES ASSUME NEW x \in Paths, disk'[x] # Nothing, NEW a \in Above[x]
                 PROVE  disk'[a] = Directory
    BY DEF TreeOK
  <2>4. a \in Paths
    BY TreeAssumption
  <2>5. CASE x = t \/ x \in Above[t]
    BY <1>1, <2>1, <2>5
  <2>6. CASE x # t /\ x \notin Above[t]
    BY <1>3, <2>1, <2>2, <2>3, <2>4, <2>6 DEF TreeOK
  <2>7. QED
    BY <2>5, <2>6
<1>4. QED
  BY <1>2, <1>3

LEMMA RemovalsKeepTree ==
  ASSUME DiskOK, TreeOK, NEW p \in Paths, ToTrash(p) \/ RemovePath(p)
  PROVE  TreeOK'
<1>1. \A x \in Paths : \A a \in Above[x] : a \in Paths /\ Above[a] \subseteq Above[x]
  BY TreeAssumption
<1>2. SUFFICES ASSUME NEW x \in Paths, disk'[x] # Nothing, NEW a \in Above[x]
               PROVE  disk'[a] = Directory
  BY DEF TreeOK
<1>3. CASE ToTrash(p)
  BY <1>1, <1>2, <1>3 DEF ToTrash, Subtree, TreeOK
<1>4. CASE RemovePath(p)
  <2>1. disk[x] # Nothing /\ disk[a] = Directory
    BY <1>1, <1>2, <1>4 DEF RemovePath, TreeOK, DiskOK
  <2>2. a = p => HasChild(p)
    BY <2>1 DEF HasChild
  <2>3. QED
    BY <1>1, <1>4, <2>1, <2>2 DEF RemovePath, DiskOK
<1>5. QED
  BY <1>3, <1>4

LEMMA TreeStays ==
  ASSUME RequestsOK, DiskOK, TreeOK, [Next]_vars
  PROVE  TreeOK'
<1>1. CASE UNCHANGED disk
  BY <1>1 DEF TreeOK
<1>2. ASSUME NEW r \in Reqs, Step(r) PROVE TreeOK'
  <2>1. CASE Arrive(r) \/ Lookup(r) \/ Check(r) \/ Record(r) \/ Mark(r)
    BY <1>1, <2>1 DEF Arrive, Lookup, LookupPut, LookupDelete, LookupDir, Check, CheckCase,
        CheckPut, CheckDir, Record, RecordFile, RecordDir, RecordAs, Mark
  <2>2. ASSUME ~Arrive(r) PROVE Place(r) \in Paths /\ Spot(r) \in Paths
    BY <1>2, <2>2, HandlerOfRequest, OnlyHandlersStep
  <2>3. CASE ~Arrive(r) /\ (MoveToTrash(r) \/ Undo(r) \/ Remove(r))
    BY <1>1, <2>2, <2>3, RemovalsKeepTree DEF MoveToTrash, Undo, Remove
  <2>4. CASE ~Arrive(r) /\ (Write(r) \/ WriteFails(r) \/ Mkdir(r))
    BY <1>1, <2>2, <2>4, ParentsKeepTree DEF Write, WriteFails, Mkdir
  <2>5. QED
    BY <1>2, <2>1, <2>3, <2>4 DEF Step
<1>3. QED
  BY <1>1, <1>2 DEF Next, Crash, vars

----------------------------------------------------------------------------
(* Requests stay apart. *)

LEMMA ApartStays ==
  ASSUME ~Racing, ConflictsApart, IndexTypeOK, RequestsOK, Apart, [Next]_vars
  PROVE  Apart'
<1>1. CASE UNCHANGED vars
  BY <1>1 DEF vars, Apart, Open, Claims, Path, Place, Spot
<1>2. CASE Crash
  BY <1>2 DEF Crash, FailAll, Apart, Open
<1>3. ASSUME NEW r \in Reqs, Step(r) PROVE Apart'
  <2> USE <1>3
  <2>1. SUFFICES ASSUME NEW q \in Reqs \ {r}, Open(q), Open(r)',
                        NEW x \in Claims(q), NEW y \in Claims(r)'
                 PROVE  ~Related(x, y)
    <3>1. \A q \in Reqs \ {r} : (Open(q)' <=> Open(q)) /\ Claims(q)' = Claims(q)
      BY OthersWait
    <3>2. \A x, y : Related(x, y) <=> Related(y, x)
      BY DEF Related
    <3>3. SUFFICES ASSUME NEW q \in Reqs, NEW s \in Reqs, q # s, Open(q)', Open(s)',
                          NEW x \in Claims(q)', NEW y \in Claims(s)'
                   PROVE  ~Related(x, y)
      BY DEF Apart, Related
    <3>4. CASE q # r /\ s # r
      BY <3>1, <3>3, <3>4 DEF Apart
    <3>5. CASE s = r
      BY <2>1, <3>1, <3>3, <3>5
    <3>6. CASE q = r
      BY <2>1, <3>1, <3>2, <3>3, <3>6
    <3>7. QED
      BY <3>4, <3>5, <3>6
  <2>2. CASE Arrive(r)
    <3>1. y = Place(r)' /\ ~Related(y, x)
      BY <2>1, <2>2, AfterArrive DEF Claims, Place, Spot
    <3>2. QED
      BY <3>1 DEF Related
  <2>3. CASE ~Arrive(r) /\ Claims(r)' \subseteq Claims(r)
    BY <2>1, <2>3, OnlyHandlersStep DEF Apart
  <2>4. ASSUME NEW c \in Paths, ConflictName(r, c), CheckPut(r), job[r] # Idle,
               job' = [job EXCEPT ![r].at = "write", ![r].target = c], UNCHANGED callVars
        PROVE  ~Related(x, y)
    <3>1. Open(r) /\ Path(r) \in Named /\ call' = call
      BY <2>4 DEF RequestsOK, CallsTypeOK, Open, Call, Path, callVars
    <3>2. Claims(r)' = {Place(r), On[c]}
      BY <2>4, <3>1, AfterAside DEF Claims, Path, Place, Spot
    <3>3. Above[On[c]] = Above[Place(r)]
      <4>1. Above[c] = Above[Path(r)] /\ Path(r) \in Paths
        BY <2>4, <3>1, TreeAssumption, NamesAssumption DEF ConflictName
      <4>2. QED
        BY <2>4, <4>1, PlacesAreFixed DEF Place
    <3>4. ~Related(x, Place(r)) /\ On[c] # x /\ On[c] \notin Above[x]
      BY <2>1, <2>4, <3>1 DEF Apart, Claims, ConflictName
    <3>5. QED
      BY <2>1, <3>2, <3>3, <3>4 DEF Related
  <2>5. QED
    <3>1. CASE ~Arrive(r)
      <4>1. job[r] # Idle /\ call' = call
        BY <3>1, OnlyHandlersStep, CallsStay
      <4>2. ASSUME job'[r].target = job[r].target PROVE Claims(r)' \subseteq Claims(r)
        BY <4>1, <4>2 DEF Claims, Path, Place, Spot
      <4>3. ASSUME NEW stage, Go(r, stage) \/ Proceed(r, stage)
            PROVE  ~Related(x, y)
        BY <2>3, <3>1, <4>1, <4>2, <4>3, AfterGo, AfterProceed
      <4>4. ASSUME NEW a \in Answers \ {"none"}, Finish(r, a)
            PROVE  ~Related(x, y)
        BY <2>1, <4>4, AfterFinish
      <4>5. CASE Lookup(r)
        BY <4>3, <4>4, <4>5
        DEF Lookup, LookupPut, LookupDelete, LookupDir, Answers, Refusals
      <4>6. CASE Check(r)
        BY <2>4, <4>1, <4>3, <4>4, <4>6 DEF Check, CheckCase, CheckPut, CheckDir, Answers, Refusals
      <4>7. CASE MoveToTrash(r) \/ Write(r) \/ WriteFails(r) \/ Undo(r) \/ Mkdir(r)
        BY <4>3, <4>4, <4>7 DEF MoveToTrash, Write, WriteFails, Undo, Mkdir, Answers
      <4>8. CASE Record(r) \/ Remove(r) \/ Mark(r)
        BY <4>3, <4>4, <4>8
        DEF Record, RecordFile, RecordDir, RecordAs, Remove, Mark, Answers, Refusals
      <4>9. QED
        BY <3>1, <4>5, <4>6, <4>7, <4>8 DEF Step
    <3>2. QED
      BY <2>2, <3>1
<1>4. QED
  BY <1>1, <1>2, <1>3 DEF Next

----------------------------------------------------------------------------
(* Handlers know what they need to know. *)

LEMMA Different ==
  /\ Directory # Nothing /\ Nothing # NoFacts
  /\ \A r \in Reqs : r # Directory /\ r # Nothing
BY RequestAssumption, NothingAssumption

LEMMA OthersUndisturbed ==
  ASSUME IndexTypeOK, RequestsOK, DiskOK, Apart, HandlersOK,
         NEW r \in Reqs, Step(r), NEW q \in Reqs \ {r}, Open(q)
  PROVE  HandlerOK(q)'
<1>1. HandlerOK(q) /\ job[q] # Idle
  BY DEF HandlersOK, RequestsOK
<1>2. /\ job'[q] = job[q] /\ call'[q] = call[q]
      /\ Path(q)' = Path(q) /\ Path(q) \in Paths /\ job[q].target \in Paths
      /\ Place(q)' = Place(q) /\ Spot(q)' = Spot(q)
      /\ Place(q) \in Paths /\ Spot(q) \in Paths
  BY <1>1, OthersWait, HandlerOfRequest
<1>3. \A x \in Claims(q) : disk'[x] = disk[x] /\ \A p \in Names(x) : rows'[p] = rows[p]
  <2>1. CASE Arrive(r)
    BY <2>1 DEF Arrive, indexVars
  <2>2. CASE ~Arrive(r)
    <3>1. \A x \in Claims(q), y \in Claims(r) : ~Related(x, y)
      BY <2>2, OnlyHandlersStep DEF Apart
    <3>2. \A x \in Claims(q) : x \notin Claims(r)
      BY <3>1 DEF Related
    <3>3. QED
      BY <1>2, <3>1, <3>2, StepsStayAtTheirClaims DEF Claims, Names
  <2>3. QED
    BY <2>1, <2>2
<1>4. /\ disk'[Spot(q)] = disk[Spot(q)] /\ rows'[Path(q)] = rows[Path(q)]
      /\ \A p \in Names(Place(q)) \cup Names(Spot(q)) : rows'[p] = rows[p]
  BY <1>2, <1>3 DEF Claims, Names, Place
<1>5. RowAsSeen(q)'
  BY <1>1, <1>2, <1>4 DEF HandlerOK, RowAsSeen
<1>6. Alone(q)'
  BY <1>1, <1>2, <1>4 DEF HandlerOK, Alone, Live, Names
<1>7. (Conflicts(q)' <=> Conflicts(q)) /\ (ReplacesFile(q)' <=> ReplacesFile(q))
  BY <1>2 DEF Conflicts, SeenRev, ReplacesFile
<1>8. Target(q)'
  BY <1>1, <1>2, <1>4, <1>7 DEF HandlerOK, Target, Live, Names
<1>9. Decided(q)'
  BY <1>1, <1>2, <1>7 DEF HandlerOK, Decided
<1>10. InPlace(q)'
  BY <1>1, <1>2, <1>4, <1>7 DEF HandlerOK, InPlace
<1>11. QED
  BY <1>5, <1>8, <1>9, <1>10, <1>6 DEF HandlerOK

LEMMA StagesTellOps ==
  ASSUME RequestsOK, NEW r \in Reqs, Open(r), HandlerOK(r)
  PROVE  /\ job[r].at \in {"trash", "write", "undo"} => call[r].op = "put"
         /\ job[r].at = "mkdir" => call[r].op = "mkdir"
         /\ job[r].at \in {"remove", "mark"} => call[r].op = "delete"
         /\ job[r].at \in {"check", "record"} => call[r].op \in {"put", "mkdir"}
<1>1. call[r].op \in Ops /\ job[r].at \in StagesOf(call[r].op)
  BY HandlerOfRequest DEF RequestsOK, Call, HandlerOK, Decided
<1>2. QED
  BY <1>1 DEF Ops, StagesOf

LEMMA HandlerBegins ==
  ASSUME RequestsOK, NEW r \in Reqs, Arrive(r)
  PROVE  HandlerOK(r)'
<1>1. job'[r].at = "lookup" /\ job'[r].target = Path(r)' /\ call'[r].op \in Ops
  BY AfterArrive
<1>2. "lookup" \in StagesOf(call'[r].op)
  BY <1>1 DEF Ops, StagesOf
<1>3. QED
  BY <1>1, <1>2 DEF HandlerOK, RowAsSeen, Alone, Target, Decided, InPlace

LEMMA HandlerLooksUp ==
  ASSUME IndexTypeOK, NoCaseCollision, RequestsOK, NEW r \in Reqs, Open(r), HandlerOK(r), Lookup(r), Open(r)'
  PROVE  HandlerOK(r)'
<1>1. job[r] # Idle /\ At(r, "lookup") /\ Path(r) \in Paths
  BY HandlerOfRequest DEF Lookup, LookupPut, LookupDelete, LookupDir, At
<1>2. job[r].target = Path(r) /\ UNCHANGED rows
  BY <1>1 DEF HandlerOK, Target, At, Lookup, LookupPut, LookupDelete, LookupDir, indexVars
<1>3. ASSUME NEW stage \in {"check", "remove"}, Proceed(r, stage)
      PROVE  /\ job'[r].at = stage /\ job'[r].seen = rows[Path(r)]
             /\ call' = call /\ Path(r)' = Path(r) /\ Place(r)' = Place(r)
             /\ RowAsSeen(r)' /\ Target(r)' /\ InPlace(r)'
  <2>1. /\ job'[r].at = stage /\ job'[r].seen = rows[Path(r)] /\ job'[r].target = job[r].target
        /\ call' = call
    BY <1>1, <1>3, AfterProceed
  <2>2. Path(r)' = Path(r) /\ Place(r)' = Place(r)
    BY <2>1 DEF Path, Place
  <2>3. QED
    BY <1>2, <1>3, <2>1, <2>2 DEF RowAsSeen, Target, InPlace
<1>4. ASSUME NEW a \in Answers \ {"none"}, Finish(r, a) PROVE FALSE
  BY <1>4, AfterFinish
<1>5. CASE LookupPut(r)
  <2>1. Proceed(r, "check") /\ ~IsDirectory(Path(r)) /\ call[r].op = "put"
    BY <1>4, <1>5 DEF LookupPut, Answers, Refusals
  <2>2. job'[r].seen.deleted \/ ReplacesFile(r)'
    BY <1>3, <2>1 DEF IsDirectory, Live, ReplacesFile
  <2>3. Decided(r)'
    BY <1>3, <2>1, <2>2 DEF Decided, StagesOf
  <2>4. Alone(r)'
    BY <1>3, <2>1 DEF Alone
  <2>5. QED
    BY <1>3, <2>1, <2>3, <2>4 DEF HandlerOK
<1>6. CASE LookupDelete(r)
  <2>1. Proceed(r, "remove") /\ Live(Path(r)) /\ LiveRev(Path(r)) = call[r].base
        /\ call[r].op = "delete"
    BY <1>4, <1>6 DEF LookupDelete, Answers, Refusals
  <2>2. ~job'[r].seen.deleted /\ ~Conflicts(r)'
    BY <1>3, <2>1 DEF Live, LiveRev, Conflicts, SeenRev
  <2>3. Decided(r)'
    BY <1>3, <2>1, <2>2 DEF Decided, StagesOf
  <2>4. Alone(r)'
    <3>1. \A p \in Names(Place(r)) : Fold[p] = Fold[Path(r)]
      BY <1>1, PlacesAreFixed DEF Names, Place
    <3>2. \A p \in Names(Place(r)) : p # Path(r) => ~Live(p)
      BY <1>1, <2>1, <3>1 DEF NoCaseCollision, Names
    <3>3. QED
      BY <1>2, <1>3, <2>1, <3>2 DEF Alone, Live
  <2>5. QED
    BY <1>3, <2>1, <2>3, <2>4 DEF HandlerOK
<1>7. CASE LookupDir(r)
  <2>1. Proceed(r, "check") /\ ~Live(Path(r)) /\ call[r].op = "mkdir"
    BY <1>4, <1>7 DEF LookupDir, Answers, Refusals
  <2>2. job'[r].seen.deleted
    BY <1>3, <2>1 DEF Live
  <2>3. Decided(r)'
    BY <1>3, <2>1, <2>2 DEF Decided, StagesOf
  <2>4. Alone(r)'
    BY <1>3, <2>1 DEF Alone
  <2>5. QED
    BY <1>3, <2>1, <2>3, <2>4 DEF HandlerOK
<1>8. QED
  BY <1>5, <1>6, <1>7 DEF Lookup

LEMMA HandlerDecides ==
  ASSUME ConflictsApart, IndexTypeOK, RequestsOK, NEW r \in Reqs, Open(r), HandlerOK(r),
         Check(r), Open(r)'
  PROVE  HandlerOK(r)'
<1>1. job[r] # Idle /\ At(r, "check") /\ UNCHANGED <<rows, disk>> /\ Path(r) \in Paths
  BY HandlerOfRequest DEF Check, CheckCase, CheckPut, CheckDir, At, indexVars
<1>2. /\ job[r].target = Path(r) /\ rows[Path(r)] = job[r].seen
      /\ call[r].op = "put" => job[r].seen.deleted \/ ReplacesFile(r)
      /\ call[r].op = "mkdir" => job[r].seen.deleted
  BY <1>1 DEF HandlerOK, RowAsSeen, Target, Decided, At
<1>3. ASSUME NEW a \in Answers \ {"none"}, Finish(r, a) PROVE FALSE
  BY <1>3, AfterFinish
<1>4. ASSUME job'[r].seen = job[r].seen, call' = call
      PROVE  /\ Path(r)' = Path(r) /\ Place(r)' = Place(r) /\ RowAsSeen(r)'
             /\ (Conflicts(r)' <=> Conflicts(r)) /\ (ReplacesFile(r)' <=> ReplacesFile(r))
  BY <1>1, <1>2, <1>4 DEF Path, Place, RowAsSeen, Conflicts, SeenRev, ReplacesFile
<1>5. ASSUME ~CaseCollision(Path(r)), Path(r)' = Path(r), Place(r)' = Place(r)
      PROVE  Alone(r)'
  <2>1. \A p \in Names(Place(r)) : p \in Paths /\ Fold[p] = Fold[Path(r)]
    BY <1>1, PlacesAreFixed DEF Names, Place
  <2>2. \A p \in Names(Place(r)) : p # Path(r) => ~Live(p)
    BY <1>5, <2>1 DEF CaseCollision
  <2>3. QED
    BY <1>1, <1>5, <2>2 DEF Alone, Live, Names
<1>6. ASSUME CheckPut(r), NEW c, ConflictName(r, c), Conflicts(r), UNCHANGED callVars,
             job' = [job EXCEPT ![r].at = "write", ![r].target = c]
      PROVE  HandlerOK(r)'
  <2>1. /\ job'[r].at = "write" /\ job'[r].seen = job[r].seen /\ job'[r].target = c
        /\ call' = call /\ call[r].op = "put"
    BY <1>1, <1>6, AfterAside DEF CheckPut
  <2>2. /\ c \in Copies[Path(r)] /\ disk[On[c]] = Nothing
        /\ \A d \in Names(On[c]) : rows[d].deleted
    BY <1>6 DEF ConflictName, NoRow, Names
  <2>7. Spot(r)' = On[c]
    BY <2>1 DEF Spot
  <2>3. Target(r)'
    BY <1>1, <1>4, <1>6, <2>1, <2>2, <2>7 DEF Target, Live, Names
  <2>4. Decided(r)'
    BY <1>2, <1>4, <2>1 DEF Decided, StagesOf
  <2>5. InPlace(r)'
    BY <1>1, <2>1, <2>2, <2>7 DEF InPlace
  <2>6. QED
    BY <1>4, <1>6, <1>5, <2>1, <2>3, <2>4, <2>5 DEF HandlerOK, CheckPut, NoTwin
<1>7. ASSUME CheckPut(r), ~Conflicts(r), Go(r, IF ReplacesFile(r) THEN "trash" ELSE "write")
      PROVE  HandlerOK(r)'
  <2>1. /\ job'[r].at = IF ReplacesFile(r) THEN "trash" ELSE "write"
        /\ job'[r].seen = job[r].seen /\ job'[r].target = job[r].target
        /\ call' = call /\ call[r].op = "put"
    BY <1>1, <1>7, AfterGo DEF CheckPut
  <2>2. Target(r)'
    BY <1>2, <1>4, <1>7, <2>1 DEF Target
  <2>3. Decided(r)'
    BY <1>2, <1>4, <1>7, <2>1 DEF Decided, StagesOf
  <2>4. InPlace(r)'
    BY <1>4, <1>7, <2>1 DEF InPlace
  <2>5. QED
    BY <1>4, <1>7, <1>5, <2>1, <2>2, <2>3, <2>4 DEF HandlerOK, CheckPut, NoTwin
<1>8. CASE CheckDir(r)
  <2>1. /\ job'[r].at = "mkdir" /\ job'[r].seen = job[r].seen /\ job'[r].target = job[r].target
        /\ call' = call /\ call[r].op = "mkdir"
    BY <1>1, <1>8, AfterGo DEF CheckDir
  <2>2. Target(r)' /\ Decided(r)' /\ InPlace(r)'
    BY <1>2, <1>4, <2>1 DEF Target, Decided, InPlace, StagesOf
  <2>3. QED
    BY <1>4, <1>8, <1>5, <2>1, <2>2 DEF HandlerOK, CheckDir, NoTwin
<1>9. QED
  BY <1>3, <1>6, <1>7, <1>8 DEF Check, CheckCase, CheckPut, Answers, Refusals

\* The stages that change the disk leave there what the next stage counts on.
LEMMA HandlerActs ==
  ASSUME IndexTypeOK, RequestsOK, DiskOK, NEW r \in Reqs, Open(r), HandlerOK(r), Open(r)',
         MoveToTrash(r) \/ Write(r) \/ WriteFails(r) \/ Undo(r) \/ Mkdir(r) \/ Remove(r)
  PROVE  HandlerOK(r)'
<1>1. job[r] # Idle /\ UNCHANGED rows
  BY DEF MoveToTrash, Write, WriteFails, Undo, Mkdir, Remove, At, indexVars
<1>2. Place(r) \in Paths /\ Spot(r) \in Paths
  BY <1>1, HandlerOfRequest
<1>3. ASSUME NEW a \in Answers \ {"none"}, Finish(r, a) PROVE FALSE
  BY <1>3, AfterFinish
<1>4. ASSUME NEW stage, Go(r, stage), job[r].at # "lookup"
      PROVE  /\ job'[r].at = stage /\ job'[r].seen = job[r].seen
             /\ job'[r].target = job[r].target /\ call' = call
             /\ Path(r)' = Path(r) /\ Place(r)' = Place(r) /\ Spot(r)' = Spot(r) /\ RowAsSeen(r)'
             /\ job[r].at # "check" => Alone(r)'
             /\ (Conflicts(r)' <=> Conflicts(r)) /\ (ReplacesFile(r)' <=> ReplacesFile(r))
  <2>1. /\ job'[r].at = stage /\ job'[r].seen = job[r].seen
        /\ job'[r].target = job[r].target /\ call' = call
    BY <1>1, <1>4, AfterGo
  <2>2. QED
    BY <1>1, <1>4, <2>1
    DEF HandlerOK, Path, Place, Spot, Names, Alone, Live, RowAsSeen, Conflicts, SeenRev, ReplacesFile
<1>5. CASE MoveToTrash(r)
  <2>1. job[r].at = "trash" /\ Go(r, "write") /\ disk'[Place(r)] = Nothing
    BY <1>2, <1>5 DEF MoveToTrash, At, ToTrash, Subtree
  <2>2. /\ job[r].target = Path(r) /\ Spot(r) = Place(r)
        /\ ReplacesFile(r) /\ ~Conflicts(r) /\ call[r].op = "put"
    BY <2>1, StagesTellOps DEF HandlerOK, Target, Decided, Place, Spot
  <2>3. Target(r)' /\ Decided(r)' /\ InPlace(r)'
    BY <1>4, <2>1, <2>2 DEF Target, Decided, InPlace, StagesOf
  <2>4. QED
    BY <1>4, <2>1, <2>3 DEF HandlerOK
<1>6. CASE Write(r)
  <2>1. PICK stage \in {"record", "undo"} : Go(r, stage)
    BY <1>6 DEF Write
  <2>2. job[r].at = "write" /\ call[r].op = "put"
    BY <1>6, StagesTellOps DEF Write, At
  <2>3. disk'[Spot(r)] = r
    BY <1>2, <1>6 DEF Write, MakeParents
  <2>4. Target(r)'
    BY <1>1, <1>4, <2>1, <2>2 DEF HandlerOK, Target, Live, Names
  <2>5. Decided(r)'
    BY <1>4, <2>1, <2>2 DEF HandlerOK, Decided, StagesOf
  <2>6. InPlace(r)'
    BY <1>4, <2>1, <2>2, <2>3 DEF InPlace
  <2>7. QED
    BY <1>4, <2>1, <2>2, <2>4, <2>5, <2>6 DEF HandlerOK
<1>7. CASE Mkdir(r)
  <2>1. job[r].at = "mkdir" /\ Go(r, "record") /\ disk'[Place(r)] = Directory
    BY <1>2, <1>3, <1>7 DEF Mkdir, At, MakeParents, Answers, DiskOK
  <2>2. job[r].target = Path(r) /\ Spot(r) = Place(r) /\ call[r].op = "mkdir"
    BY <2>1, StagesTellOps DEF HandlerOK, Target, Place, Spot
  <2>3. Target(r)' /\ Decided(r)' /\ InPlace(r)'
    BY <1>4, <2>1, <2>2 DEF HandlerOK, Target, Decided, InPlace, StagesOf
  <2>4. QED
    BY <1>4, <2>1, <2>3 DEF HandlerOK
<1>8. CASE Remove(r)
  <2>1. job[r].at = "remove" /\ Go(r, "mark")
    BY <1>3, <1>8 DEF Remove, At, Answers
  <2>2. disk'[Place(r)] = Nothing
    BY <1>2, <1>3, <1>8 DEF Remove, Answers, ToTrash, Subtree, RemovePath, DiskOK
  <2>3. job[r].target = Path(r) /\ Spot(r) = Place(r) /\ call[r].op = "delete"
    BY <2>1, StagesTellOps DEF HandlerOK, Target, Place, Spot
  <2>4. Target(r)' /\ Decided(r)' /\ InPlace(r)'
    BY <1>4, <2>1, <2>2, <2>3 DEF HandlerOK, Target, Decided, InPlace, StagesOf
  <2>5. QED
    BY <1>4, <2>1, <2>4 DEF HandlerOK
<1>9. QED
  BY <1>3, <1>5, <1>6, <1>7, <1>8 DEF WriteFails, Undo, Answers

LEMMA HandlersStayOK ==
  ASSUME ConflictsApart, IndexTypeOK, NoCaseCollision, RequestsOK, DiskOK, Apart, HandlersOK, [Next]_vars
  PROVE  HandlersOK'
<1>1. CASE UNCHANGED vars
  BY <1>1 DEF vars, HandlersOK, Open, HandlerOK, RowAsSeen, Alone, Target, Decided, InPlace, Path,
      Place, Spot, Names, Conflicts, SeenRev, ReplacesFile, Live
<1>2. CASE Crash
  BY <1>2 DEF Crash, FailAll, HandlersOK, Open
<1>3. ASSUME NEW r \in Reqs, Step(r) PROVE HandlersOK'
  <2>1. ASSUME NEW q \in Reqs \ {r}, Open(q)' PROVE HandlerOK(q)'
    BY <1>3, <2>1, OthersWait, OthersUndisturbed
  <2>2. ASSUME Open(r)' PROVE HandlerOK(r)'
    <3>1. CASE Arrive(r)
      BY <3>1, HandlerBegins
    <3>2. CASE ~Arrive(r)
      <4>1. Open(r) /\ HandlerOK(r)
        BY <1>3, <3>2, OnlyHandlersStep DEF HandlersOK
      <4>2. CASE Lookup(r) \/ Check(r)
        BY <2>2, <4>1, <4>2, HandlerLooksUp, HandlerDecides
      <4>3. CASE MoveToTrash(r) \/ Write(r) \/ WriteFails(r) \/ Undo(r) \/ Mkdir(r) \/ Remove(r)
        BY <2>2, <4>1, <4>3, HandlerActs
      <4>4. CASE Record(r) \/ Mark(r)
        BY <2>2, <4>4, AfterFinish
        DEF Record, RecordFile, RecordDir, RecordAs, Mark, Answers, Refusals
      <4>5. QED
        BY <1>3, <3>2, <4>2, <4>3, <4>4 DEF Step
    <3>3. QED
      BY <3>1, <3>2
  <2>3. QED
    BY <2>1, <2>2 DEF HandlersOK
<1>4. QED
  BY <1>1, <1>2, <1>3 DEF Next

----------------------------------------------------------------------------
(* Accepted bodies. *)

\* What has just been recorded is kept, and nothing else becomes accepted.
LEMMA WhatIsAccepted ==
  ASSUME RequestsOK, NEW r \in Reqs, Step(r), NEW b \in Reqs, Accepted(b)', ~Accepted(b)
  PROVE  b = r /\ call[r].op = "put" /\ RecordFile(r) /\ Upsert(job[r].target, r)
<1>1. ASSUME NEW a \in Answers \ {"none", "stored", "conflict"}, Finish(r, a) PROVE FALSE
  BY <1>1, AfterFinish DEF Accepted
<1>2. ASSUME answer' = answer PROVE FALSE
  BY <1>2 DEF Accepted
<1>3. RecordFile(r)
  BY <1>1, <1>2 DEF Step, Arrive, Ask, Lookup, LookupPut, LookupDelete, LookupDir, Check,
      CheckCase, CheckPut, CheckDir, MoveToTrash, Write, WriteFails, Undo, Record, RecordDir,
      RecordAs, Mkdir, Remove, Mark, Go, Proceed, callVars, Answers, Refusals
<1>4. Upsert(job[r].target, r) /\ \E a \in {"stored", "conflict"} : Finish(r, a)
  BY <1>1, <1>3 DEF RecordFile, RecordAs, Answers, Refusals
<1>5. b = r
  BY <1>4, AfterFinish DEF Accepted, Answers
<1>6. QED
  BY <1>3, <1>4, <1>5 DEF RecordFile

\* Whatever is at x when a step ends it, and is not the handler's own, goes to
\* the trash or was nothing a live row describes.
LEMMA NothingIsLostHere ==
  ASSUME IndexTypeOK, RequestsOK, DiskOK, NEW r \in Reqs, Step(r), ~Arrive(r), HandlerOK(r),
         NEW x \in Paths, IsFile(x), Body(On[x]), disk[On[x]] # r
  PROVE  disk[On[x]] \in trash' \/ (disk'[On[x]] = disk[On[x]] /\ IsFile(x)')
<1> DEFINE k == On[x]
<1>1. /\ Open(r) /\ Place(r) \in Paths /\ Spot(r) \in Paths /\ Path(r) \in Paths
      /\ k \in Paths /\ Body(k) /\ disk[k] # r /\ x \in Names(k)
  BY OnlyHandlersStep, HandlerOfRequest, PlacesAreFixed
<1>2. CASE UNCHANGED <<rows, disk>>
  BY <1>2 DEF IsFile, Live
<1>3. CASE Lookup(r) \/ Check(r)
  BY <1>2, <1>3 DEF Lookup, LookupPut, LookupDelete, LookupDir, Check, CheckCase, CheckPut,
      CheckDir, indexVars
<1>4. ASSUME NEW p \in Paths, ToTrash(p), UNCHANGED rows
      PROVE  disk[k] \in trash' \/ (disk'[k] = disk[k] /\ IsFile(x)')
  BY <1>1, <1>4 DEF ToTrash, Subtree, IsFile, Live
<1>5. CASE MoveToTrash(r)
  BY <1>1, <1>4, <1>5 DEF MoveToTrash, indexVars
<1>6. ASSUME NEW t \in Paths, CanMakeParents(t), UNCHANGED rows, k # t,
             \/ disk' = MakeParents(t)
             \/ \E b : disk' = [MakeParents(t) EXCEPT ![t] = b]
      PROVE  disk'[k] = disk[k] /\ IsFile(x)'
  <2>1. k \notin Above[t]
    BY <1>1, <1>6 DEF CanMakeParents
  <2>2. QED
    BY <1>1, <1>6, <2>1 DEF MakeParents, IsFile, Live
<1>7. CASE Write(r)
  <2>1. k # Spot(r)
    <3>1. SUFFICES ASSUME k = Spot(r) PROVE FALSE
      OBVIOUS
    <3>2. job[r].at = "write" /\ call[r].op = "put"
      BY <1>1, <1>7, StagesTellOps DEF Write, At
    <3>3. ~Conflicts(r) /\ ~ReplacesFile(r)
      BY <1>1, <3>1, <3>2 DEF HandlerOK, InPlace, Body
    <3>4. job[r].target = Path(r) /\ k = Place(r) /\ rows[Path(r)].deleted
      BY <3>1, <3>2, <3>3 DEF HandlerOK, Target, RowAsSeen, Decided, Place, Spot
    <3>5. x # Path(r) => ~Live(x)
      BY <1>1, <3>2, <3>4 DEF HandlerOK, Alone
    <3>6. QED
      BY <3>4, <3>5 DEF IsFile, Live
  <2>2. QED
    BY <1>1, <1>6, <1>7, <2>1 DEF Write, indexVars
<1>8. CASE WriteFails(r)
  <2>1. CASE k # Spot(r)
    BY <1>1, <1>2, <1>6, <1>8, <2>1 DEF WriteFails, indexVars
  <2>2. CASE k = Spot(r)
    <3>1. k \notin Above[k]
      BY <1>1, TreeAssumption
    <3>2. disk'[k] = disk[k] /\ UNCHANGED rows
      BY <1>1, <1>8, <2>2, <3>1 DEF WriteFails, MakeParents, indexVars
    <3>3. QED
      BY <3>2 DEF IsFile, Live
  <2>3. QED
    BY <2>1, <2>2
<1>9. CASE Undo(r)
  <2>1. disk[Spot(r)] = r
    BY <1>1, <1>9, StagesTellOps DEF Undo, At, HandlerOK, InPlace
  <2>2. QED
    BY <1>1, <1>9, <2>1 DEF Undo, RemovePath, IsFile, Live, indexVars
<1>10. CASE Mkdir(r)
  <2>1. ASSUME CanMakeParents(Place(r)), ~Body(Place(r)),
               disk' = [MakeParents(Place(r)) EXCEPT ![Place(r)] = Directory]
        PROVE  disk'[k] = disk[k] /\ IsFile(x)'
    <3>1. k # Place(r) /\ UNCHANGED rows
      BY <1>1, <1>10, <2>1 DEF Mkdir, indexVars
    <3>2. QED
      BY <1>1, <1>6, <2>1, <3>1
  <2>2. QED
    BY <1>2, <1>10, <2>1 DEF Mkdir, indexVars
<1>11. CASE Remove(r)
  <2>1. CASE ReplacesFile(r)
    BY <1>1, <1>4, <1>11, <2>1 DEF Remove, indexVars
  <2>2. CASE ~ReplacesFile(r)
    <3>1. job[r].at = "remove" /\ call[r].op = "delete"
      BY <1>1, <1>11, StagesTellOps DEF Remove, At
    <3>2. rows[Path(r)].facts = Directory
      BY <2>2, <3>1 DEF HandlerOK, RowAsSeen, Decided, ReplacesFile
    <3>3. k = Place(r) => x = Path(r)
      BY <1>1, <3>1 DEF HandlerOK, Alone, IsFile
    <3>4. k # Place(r)
      BY <3>2, <3>3 DEF IsFile
    <3>5. disk'[k] = disk[k] /\ UNCHANGED rows
      BY <1>1, <1>11, <2>2, <3>4 DEF Remove, RemovePath, DiskOK, indexVars
    <3>6. QED
      BY <3>5 DEF IsFile, Live
  <2>3. QED
    BY <2>1, <2>2
<1>12. CASE Record(r)
  <2>1. disk[Spot(r)] \in {r, Directory}
    BY <1>12 DEF Record, RecordFile, RecordDir, At, HandlerOK, InPlace
  <2>2. x # job[r].target
    BY <1>1, <2>1 DEF Body, Spot
  <2>3. QED
    BY <1>12, <2>2 DEF Record, RecordFile, RecordDir, RecordAs, Upsert, IsFile, Live,
        indexVars, IndexTypeOK
<1>13. CASE Mark(r)
  <2>1. disk[Place(r)] = Nothing
    BY <1>1, <1>13, StagesTellOps DEF Mark, At, HandlerOK, InPlace, Target, Place, Spot
  <2>2. x # Path(r)
    BY <1>1, <2>1 DEF Body, Place
  <2>3. QED
    BY <1>13, <2>2 DEF Mark, MarkDeleted, IsFile, Live, indexVars, IndexTypeOK
<1>14. QED
  BY <1>3, <1>5, <1>7, <1>8, <1>9, <1>10, <1>11, <1>12, <1>13 DEF Step

LEMMA TrashOnlyGrows ==
  ASSUME NEW r \in Reqs, Step(r)
  PROVE  trash \subseteq trash'
BY DEF Step, Arrive, Lookup, LookupPut, LookupDelete, LookupDir, Check, CheckCase, CheckPut,
       CheckDir, MoveToTrash, ToTrash, Write, WriteFails, Undo, Record, RecordFile, RecordDir,
       RecordAs, Mkdir, Remove, Mark

LEMMA KeptStays ==
  ASSUME IndexTypeOK, RequestsOK, DiskOK, HandlersOK, Kept, [Next]_vars
  PROVE  Kept'
<1>1. CASE UNCHANGED vars
  BY <1>1 DEF vars, Kept, Accepted, IsFile, Live
<1>2. CASE Crash
  BY <1>2 DEF Crash, FailAll, Kept, Accepted, IsFile, Live, indexVars
<1>3. ASSUME NEW r \in Reqs, Step(r) PROVE Kept'
  <2>1. SUFFICES ASSUME NEW b \in Reqs, Accepted(b)'
                 PROVE  b \in trash' \/ \E p \in Paths : disk'[On[p]] = b /\ IsFile(p)'
    BY DEF Kept
  <2>2. CASE ~Accepted(b)
    <3>1. b = r /\ call[r].op = "put" /\ RecordFile(r) /\ Upsert(job[r].target, r) /\ ~Arrive(r)
      BY <1>3, <2>1, <2>2, WhatIsAccepted, AfterArrive
      DEF RecordFile, At, Arrive, Ask, RequestsOK, Open
    <3>2. HandlerOK(r) /\ \E t \in Paths : t = job[r].target
      BY <1>3, <3>1, OnlyHandlersStep, HandlerOfRequest DEF HandlersOK
    <3> PICK t \in Paths : t = job[r].target
      BY <3>2
    <3>3. disk'[On[t]] = r
      BY <3>1, <3>2 DEF Spot, RecordFile, RecordAs, At, HandlerOK, InPlace
    <3>4. IsFile(t)'
      BY <3>1, <3>2, RequestAssumption DEF Upsert, IsFile, Live, IndexTypeOK
    <3>5. QED
      BY <3>1, <3>3, <3>4
  <2>3. CASE Accepted(b) /\ b \in trash
    BY <1>3, <2>3, TrashOnlyGrows
  <2>4. CASE Accepted(b) /\ b \notin trash
    <3>1. PICK p \in Paths : disk[On[p]] = b /\ IsFile(p)
      BY <2>4 DEF Kept
    <3>2. Body(On[p])
      BY <3>1, Different DEF Body
    <3>3. CASE Arrive(r)
      BY <3>1, <3>3 DEF Arrive, IsFile, Live, indexVars
    <3>4. CASE ~Arrive(r)
      <4>1. Open(r) /\ HandlerOK(r)
        BY <1>3, <3>4, OnlyHandlersStep DEF HandlersOK
      <4>2. b # r
        BY <2>4, <4>1 DEF Open, Accepted
      <4>3. QED
        BY <1>3, <3>1, <3>2, <3>4, <4>1, <4>2, NothingIsLostHere
    <3>5. QED
      BY <3>3, <3>4
  <2>5. QED
    BY <2>2, <2>3, <2>4
<1>4. QED
  BY <1>1, <1>2, <1>3 DEF Next

Safe == TypeOK /\ NoCaseCollision /\ Apart /\ HandlersOK /\ Kept

LEMMA SafeInvariant ==
  ASSUME ~Racing, ConflictsApart
  PROVE  Spec => []Safe
<1>1. TypeOK <=> IndexTypeOK /\ RequestsOK /\ DiskOK
  BY DEF TypeOK, RequestsOK, DiskOK
<1>2. Init => Safe
  BY DEF Init, Safe, TypeOK, IndexInit, IndexTypeOK, NoRow, Row, CallsInit, CallsTypeOK, Answers,
      Open, NoCaseCollision, Live, Apart, HandlersOK, Kept, Accepted
<1>3. Safe /\ TypeOK' /\ NoCaseCollision' /\ [Next]_vars => Safe'
  BY <1>1, ApartStays, HandlersStayOK, KeptStays DEF Safe
<1>4. QED
  BY <1>2, <1>3, TypeCorrect, NamesStayApart, PTL DEF Spec

(***************************************************************************)
(* PROTOCOL section 7: a body the server has accepted stays on disk or in  *)
(* the trash for good, whatever replaces it, deletes it or fails half-way, *)
(* as long as requests on related paths do not overlap.  On is any volume, *)
(* one that tells letter cases apart or one that does not: what keeps a    *)
(* body from the upload of its twin there is the check files.go makes      *)
(* before anything reaches the disk (Alone).                               *)
(***************************************************************************)
THEOREM NoContentIsLost ==
  ASSUME ~Racing, ConflictsApart
  PROVE  Spec => []NoLostContent
<1>1. Safe => NoLostContent
  BY PlacesAreFixed DEF Safe, Kept, NoLostContent, Retrievable
<1>2. QED
  BY <1>1, SafeInvariant, PTL

----------------------------------------------------------------------------
(* The index and the disk. *)

LEMMA HarmStays ==
  ASSUME IndexTypeOK, RequestsOK, NEW r \in Reqs, Step(r), NEW x \in Paths
  PROVE  (HarmedAt(x) => HarmedAt(x)') /\ (CopyLeftAt(x) => CopyLeftAt(x)')
<1>1. ASSUME NEW q \in Reqs, FailedAt(q) PROVE FailedAt(q)' /\ Path(q)' = Path(q) /\ Place(q)' = Place(q)
  <2>1. ~Open(q) /\ call[q] # NoCall
    BY <1>1 DEF FailedAt, Open, RequestsOK, CallsTypeOK
  <2>2. q # r
    BY <2>1, OnlyHandlersStep, AfterArrive
  <2>3. QED
    BY <1>1, <2>2, OthersWait DEF FailedAt
<1>2. QED
  BY <1>1 DEF HarmedAt, CopyLeftAt

\* A path stops being busy only by the step of the request that is busy with it.
LEMMA WhoWasBusy ==
  ASSUME IndexTypeOK, RequestsOK, NEW r \in Reqs, Step(r), NEW x \in Paths, BusyAt(x), ~BusyAt(x)'
  PROVE  Open(r) /\ x = Spot(r) /\ job[r].at \in Settling
<1>1. PICK q \in Reqs : Open(q) /\ x = Spot(q) /\ job[q].at \in Settling
  BY DEF BusyAt, Settling
<1>2. q = r
  <2>1. SUFFICES ASSUME q # r PROVE FALSE
    OBVIOUS
  <2>2. Open(q)' /\ x = Spot(q)' /\ job'[q].at \in Settling
    BY <1>1, <2>1, OthersWait
  <2>3. QED
    BY <2>2 DEF BusyAt, Settling
<1>3. QED
  BY <1>1, <1>2

LEMMA StillBusy ==
  ASSUME RequestsOK, NEW r \in Reqs, Open(r), NEW stage \in Settling, Go(r, stage)
  PROVE  \A x \in Paths : x = Spot(r) => BusyAt(x)'
<1>1. job'[r].at = stage /\ Spot(r)' = Spot(r) /\ Open(r)'
  BY AfterGo DEF RequestsOK, Open, Spot
<1>2. QED
  BY <1>1 DEF BusyAt, Settling

LEMMA FailureShows ==
  ASSUME RequestsOK, NEW r \in Reqs, Open(r), HandlerOK(r),
         NEW a \in {"failed", "case_collision"}, Finish(r, a)
  PROVE  \A x \in Paths : 
              x = Spot(r) => HarmedAt(x)' \/ (CopyLeftAt(x)' /\ \A p \in Names(x) : ~Live(p))
<1>1. FailedAt(r)' /\ Path(r)' = Path(r) /\ Place(r)' = Place(r)
  BY AfterFinish DEF FailedAt, Path, Place, Answers, Refusals
<1>2. \/ Spot(r) = Place(r)
      \/ Spot(r) \in {On[c] : c \in Copies[Path(r)]} /\ \A p \in Names(Spot(r)) : ~Live(p)
  BY DEF HandlerOK, Target, Place, Spot
<1>3. QED
  BY <1>1, <1>2 DEF HarmedAt, CopyLeftAt

\* Below what a row says is a file there is nothing, as far as nothing has gone
\* wrong there.
LEMMA NothingBelowFiles ==
  ASSUME IndexTypeOK, RequestsOK, DiskOK, TreeOK, Apart, Settled,
         NEW r \in Reqs, Open(r), HandlerOK(r), job[r].at \in {"trash", "remove"}, ReplacesFile(r),
         NEW x \in Paths, Place(r) \in Above[x], ~HarmedAt(x)
  PROVE  disk[x] = Nothing
<1> DEFINE p == Path(r)
           k == Place(r)
<1>1. /\ p \in Paths /\ k = Spot(r) /\ rows[p] = job[r].seen
      /\ k \in Places /\ k \in Paths /\ p \in Names(k)
  BY HandlerOfRequest, PlacesAreFixed
  DEF RequestsOK, HandlerOK, Target, RowAsSeen, Place, Spot
<1>2. Live(p) /\ rows[p].facts # Directory
  BY <1>1 DEF ReplacesFile, Live
<1>3. ~HarmedAt(k)
  BY TreeAssumption DEF HarmedAt
<1>4. ~BusyAt(k)
  <2>1. SUFFICES ASSUME NEW q \in Reqs, Open(q), k = Spot(q), job[q].at \in Settling
                 PROVE  FALSE
    BY DEF BusyAt, Settling
  <2>2. CASE q = r
    BY <2>1, <2>2 DEF Settling
  <2>3. CASE q # r
    BY <1>1, <2>1, <2>3 DEF Apart, Claims, Related
  <2>4. QED
    BY <2>2, <2>3
<1>5. disk[k] # Directory
  BY <1>1, <1>2, <1>3, <1>4 DEF Settled, Agrees
<1>6. QED
  BY <1>5 DEF TreeOK

LEMMA ParentsAreRight ==
  ASSUME IndexTypeOK, DiskOK, NEW t \in Paths, CanMakeParents(t), NEW x \in Above[t], x \in Paths,
         NEW p \in Paths, disk[x] = rows[p].facts
  PROVE  rows[p].facts = Directory
<1>1. rows[p].facts \in Facts \cup {NoFacts}
  BY DEF IndexTypeOK, Row
<1>2. disk[x] # Nothing
  BY <1>1, NothingAssumption
<1>3. QED
  BY <1>2 DEF CanMakeParents, Body

\* A row is written only where no other spelling of the path is live.
LEMMA TwinsCollide ==
  ASSUME IndexTypeOK, NEW p \in Paths, NEW f, Upsert(p, f)
  PROVE  \A q \in Names(On[p]) : q # p => ~Live(q)'
<1>1. \A q \in Names(On[p]) : q \in Paths /\ Fold[q] = Fold[p]
  BY PlacesAreFixed DEF Names
<1>2. QED
  BY <1>1 DEF Upsert, CaseCollision, Live, IndexTypeOK

LEMMA SettlesHere ==
  ASSUME IndexTypeOK, NoCaseCollision, RequestsOK, DiskOK, TreeOK, Apart, HandlersOK, Settled,
         NEW r \in Reqs, Step(r), ~Arrive(r), NEW x \in Places, ~HarmedAt(x)', ~BusyAt(x)'
  PROVE  Agrees(x)'
<1>1. Open(r) /\ HandlerOK(r)
  BY OnlyHandlersStep DEF HandlersOK
<1>2. /\ Path(r) \in Paths /\ job[r].target \in Paths /\ x \in Paths
      /\ Place(r) \in Paths /\ Spot(r) \in Paths /\ job[r].target \in Names(Spot(r))
  BY <1>1, HandlerOfRequest, PlacesAreFixed DEF RequestsOK, Places, Spot
<1>3. ~HarmedAt(x) /\ (CopyLeftAt(x) => CopyLeftAt(x)')
  BY <1>2, HarmStays
<1>4. CASE job[r].at \in Settling /\ x = Spot(r)
  <2>1. ASSUME NEW stage \in Settling, Go(r, stage) PROVE FALSE
    BY <1>1, <1>2, <1>4, <2>1, StillBusy
  <2>2. ASSUME NEW a \in {"failed", "case_collision"}, Finish(r, a), UNCHANGED rows
        PROVE  Agrees(x)'
    BY <1>1, <1>2, <1>4, <2>2, FailureShows DEF Agrees, Live
  <2>3. CASE Write(r)
    BY <2>1, <2>3 DEF Write, Settling
  <2>4. CASE WriteFails(r) \/ Undo(r)
    BY <2>2, <2>4 DEF WriteFails, Undo, indexVars
  <2>5. CASE RecordFile(r)
    <3>1. CASE Upsert(job[r].target, r) /\ UNCHANGED disk
      <4>1. disk'[x] = r
        BY <1>1, <1>4, <2>5, <3>1 DEF RecordFile, At, HandlerOK, InPlace
      <4>2. rows'[job[r].target] = [rev |-> currentRev', deleted |-> FALSE, facts |-> r]
        BY <1>2, <3>1 DEF Upsert, IndexTypeOK
      <4>3. \A p \in Names(x) : p # job[r].target => ~Live(p)'
        BY <1>2, <1>4, <3>1, TwinsCollide DEF Names, Spot
      <4>4. QED
        BY <1>2, <1>4, <4>1, <4>2, <4>3 DEF Agrees, Live
    <3>2. QED
      BY <2>2, <2>5, <3>1 DEF RecordFile, RecordAs, indexVars
  <2>6. CASE RecordDir(r)
    <3>1. CASE Upsert(job[r].target, Directory) /\ UNCHANGED disk
      <4>1. disk'[x] = Directory
        BY <1>1, <1>4, <2>6, <3>1 DEF RecordDir, At, HandlerOK, InPlace
      <4>2. rows'[job[r].target] = [rev |-> currentRev', deleted |-> FALSE, facts |-> Directory]
        BY <1>2, <3>1 DEF Upsert, IndexTypeOK
      <4>3. \A p \in Names(x) : p # job[r].target => ~Live(p)'
        BY <1>2, <1>4, <3>1, TwinsCollide DEF Names, Spot
      <4>4. QED
        BY <1>2, <1>4, <4>1, <4>2, <4>3 DEF Agrees, Live
    <3>2. QED
      BY <2>2, <2>6, <3>1 DEF RecordDir, RecordAs, indexVars
  <2>7. CASE Mark(r)
    <3>1. disk[x] = Nothing /\ x = Place(r) /\ UNCHANGED disk /\ job[r].at = "mark"
      BY <1>1, <1>4, <2>7, StagesTellOps DEF Mark, At, HandlerOK, InPlace, Target, Place, Spot
    <3>2. CASE MarkDeleted(Path(r))
      <4>1. \A p \in Names(x) : rows'[p].deleted
        BY <1>1, <1>2, <3>1, <3>2 DEF MarkDeleted, IndexTypeOK, NoRow, HandlerOK, Alone, Names, Live
      <4>2. QED
        BY <3>1, <4>1 DEF Agrees, Live, Body
    <3>3. QED
      BY <2>2, <2>7, <3>2 DEF Mark, indexVars
  <2>8. QED
    BY <1>4, <2>3, <2>4, <2>5, <2>6, <2>7
    DEF Step, Lookup, LookupPut, LookupDelete, LookupDir, Check, CheckCase, CheckPut, CheckDir,
        MoveToTrash, Record, Mkdir, Remove, At, Settling
<1>5. CASE ~(job[r].at \in Settling /\ x = Spot(r))
  <2>1. Agrees(x)
    BY <1>2, <1>3, <1>5, WhoWasBusy DEF Settled
  <2>2. CASE disk'[x] = disk[x] /\ \A p \in Names(x) : rows'[p] = rows[p]
    BY <1>3, <2>1, <2>2 DEF Agrees, Live, Body
  <2>3. ASSUME NEW t \in Paths, CanMakeParents(t), x \in Above[t], disk'[x] = Directory,
               UNCHANGED rows
        PROVE  Agrees(x)'
    BY <1>2, <2>1, <2>3, ParentsAreRight DEF Agrees, Live, Body, Names
  <2>4. ASSUME NEW t \in Paths, CanMakeParents(t), disk' = MakeParents(t), UNCHANGED rows
        PROVE  Agrees(x)'
    BY <1>2, <2>2, <2>3, <2>4 DEF MakeParents
  <2>5. ASSUME NEW t \in Paths, CanMakeParents(t), UNCHANGED rows, x # t,
               NEW b, disk' = [MakeParents(t) EXCEPT ![t] = b]
        PROVE  Agrees(x)'
    BY <1>2, <2>2, <2>3, <2>5 DEF MakeParents
  <2>6. ASSUME NEW stage \in Settling, Go(r, stage), Spot(r) = Place(r) PROVE x # Place(r)
    BY <1>1, <1>2, <2>6, StillBusy
  <2>7. CASE Lookup(r) \/ Check(r)
    BY <2>2, <2>7 DEF Lookup, LookupPut, LookupDelete, LookupDir, Check, CheckCase, CheckPut,
        CheckDir, indexVars
  <2>8. ASSUME ToTrash(Place(r)), UNCHANGED rows, NEW stage \in Settling, Go(r, stage),
               job[r].at \in {"trash", "remove"}, ReplacesFile(r)
        PROVE  Agrees(x)'
    <3>1. Spot(r) = Place(r)
      BY <1>1, <2>8 DEF HandlerOK, Target, Place, Spot
    <3>2. x # Place(r)
      BY <2>6, <2>8, <3>1
    <3>3. Place(r) \in Above[x] => disk[x] = Nothing
      BY <1>1, <1>2, <1>3, <2>8, NothingBelowFiles
    <3>4. disk'[x] = disk[x] /\ \A p \in Names(x) : rows'[p] = rows[p]
      BY <1>2, <2>8, <3>2, <3>3 DEF ToTrash, Subtree
    <3>5. QED
      BY <2>2, <3>4
  <2>9. CASE MoveToTrash(r)
    BY <1>1, <2>8, <2>9 DEF MoveToTrash, At, HandlerOK, Decided, Settling, indexVars
  <2>10. CASE Write(r)
    <3>1. x # Spot(r)
      BY <1>5, <2>10 DEF Write, At, Settling
    <3>2. QED
      BY <1>2, <2>5, <2>10, <3>1 DEF Write, indexVars
  <2>11. CASE WriteFails(r)
    BY <1>2, <2>2, <2>4, <2>11 DEF WriteFails, indexVars
  <2>12. CASE Undo(r)
    <3>1. x # Spot(r)
      BY <1>5, <2>12 DEF Undo, At, Settling
    <3>2. QED
      BY <1>2, <2>2, <2>12, <3>1 DEF Undo, RemovePath, DiskOK, indexVars
  <2>13. CASE Mkdir(r)
    <3>1. CASE UNCHANGED disk
      BY <2>2, <2>13, <3>1 DEF Mkdir, indexVars
    <3>2. CASE CanMakeParents(Place(r)) /\ Go(r, "record")
               /\ disk' = [MakeParents(Place(r)) EXCEPT ![Place(r)] = Directory]
      <4>1. Spot(r) = Place(r)
        BY <1>1, <2>13 DEF Mkdir, At, HandlerOK, Target, Place, Spot
      <4>2. x # Place(r)
        BY <2>6, <3>2, <4>1 DEF Settling
      <4>3. QED
        BY <1>2, <2>5, <2>13, <3>2, <4>2 DEF Mkdir, indexVars
    <3>3. QED
      BY <2>13, <3>1, <3>2 DEF Mkdir
  <2>14. CASE Remove(r)
    <3>1. CASE ReplacesFile(r)
      BY <2>8, <2>14, <3>1 DEF Remove, At, Settling, indexVars
    <3>2. CASE ~ReplacesFile(r) /\ Go(r, "mark") /\ RemovePath(Place(r))
      <4>1. Spot(r) = Place(r)
        BY <1>1, <2>14 DEF Remove, At, HandlerOK, Target, Place, Spot
      <4>2. x # Place(r)
        BY <2>6, <3>2, <4>1 DEF Settling
      <4>3. QED
        BY <1>2, <2>2, <2>14, <3>2, <4>2 DEF Remove, RemovePath, DiskOK, indexVars
    <3>3. QED
      BY <2>2, <2>14, <3>1, <3>2 DEF Remove, indexVars
  <2>15. CASE Record(r)
    <3>1. \A p \in Names(x) : p # job[r].target
      BY <1>5, <2>15 DEF Record, RecordFile, RecordDir, At, Settling, Names, Spot
    <3>2. QED
      BY <2>2, <2>15, <3>1
      DEF Record, RecordFile, RecordDir, RecordAs, Upsert, IndexTypeOK, Names, indexVars
  <2>16. CASE Mark(r)
    <3>1. \A p \in Names(x) : p # Path(r)
      BY <1>1, <1>5, <2>16, StagesTellOps DEF Mark, At, HandlerOK, Target, Settling, Names, Spot
    <3>2. QED
      BY <2>2, <2>16, <3>1 DEF Mark, MarkDeleted, IndexTypeOK, Names, indexVars
  <2>17. QED
    BY <2>7, <2>9, <2>10, <2>11, <2>12, <2>13, <2>14, <2>15, <2>16 DEF Step
<1>6. QED
  BY <1>4, <1>5

LEMMA SettledStays ==
  ASSUME IndexTypeOK, NoCaseCollision, RequestsOK, DiskOK, TreeOK, Apart, HandlersOK, Settled, [Next]_vars
  PROVE  Settled'
<1>1. CASE UNCHANGED vars
  BY <1>1 DEF vars, Settled, HarmedAt, BusyAt, Agrees, CopyLeftAt, FailedAt, Open, Path, Place, Spot, Live, Body
<1>2. CASE Crash
  <2>1. UNCHANGED <<rows, disk>> /\ call' = call
    BY <1>2 DEF Crash, FailAll, indexVars
  <2>2. \A q \in Reqs : FailedAt(q)' <=> FailedAt(q) \/ Open(q)
    BY <1>2 DEF Crash, FailAll, FailedAt
  <2>3. SUFFICES ASSUME NEW x \in Places, ~HarmedAt(x)' PROVE Agrees(x)'
    BY DEF Settled
  <2>4. ~HarmedAt(x) /\ (CopyLeftAt(x) => CopyLeftAt(x)')
    BY <2>1, <2>2, <2>3 DEF HarmedAt, CopyLeftAt, Path, Place
  <2>5. CASE BusyAt(x)
    <3>1. PICK q \in Reqs : Open(q) /\ x = Spot(q) /\ job[q].at \in Settling
      BY <2>5 DEF BusyAt
    <3>2. x # Place(q)
      BY <2>1, <2>2, <2>3, <3>1 DEF HarmedAt, Path, Place
    <3>3. x \in {On[c] : c \in Copies[Path(q)]} /\ \A p \in Names(x) : ~Live(p)
      BY <3>1, <3>2 DEF HandlersOK, HandlerOK, Target, Place, Spot
    <3>4. CopyLeftAt(x)'
      BY <2>1, <2>2, <3>1, <3>3 DEF CopyLeftAt, Path
    <3>5. QED
      BY <2>1, <3>3, <3>4 DEF Agrees, Live
  <2>6. CASE ~BusyAt(x)
    BY <2>1, <2>4, <2>6 DEF Settled, Agrees, Live, Body
  <2>7. QED
    BY <2>5, <2>6
<1>3. ASSUME NEW r \in Reqs, Step(r) PROVE Settled'
  <2>1. SUFFICES ASSUME NEW x \in Places, ~HarmedAt(x)', ~BusyAt(x)' PROVE Agrees(x)'
    BY DEF Settled
  <2>2. x \in Paths
    BY DEF Places
  <2>3. CASE Arrive(r)
    <3>1. ~BusyAt(x)
      <4>1. ~Open(r)
        BY <2>3, AfterArrive DEF Open
      <4>2. QED
        BY <1>3, <2>1, <2>2, <4>1, WhoWasBusy
    <3>2. ~HarmedAt(x) /\ (CopyLeftAt(x) => CopyLeftAt(x)')
      BY <1>3, <2>1, <2>2, HarmStays
    <3>3. UNCHANGED <<rows, disk>>
      BY <2>3 DEF Arrive, indexVars
    <3>4. QED
      BY <3>1, <3>2, <3>3 DEF Settled, Agrees, Live, Body
  <2>4. CASE ~Arrive(r)
    BY <1>3, <2>1, <2>4, SettlesHere
  <2>5. QED
    BY <2>3, <2>4
<1>4. QED
  BY <1>1, <1>2, <1>3 DEF Next

(***************************************************************************)
(* Where nothing is under way and nothing went wrong the index is true     *)
(* (files.go answers a request only after both disk and index are          *)
(* written): a live row describes what is on disk and a file on disk has   *)
(* its row, as long as requests on related paths do not overlap.           *)
(***************************************************************************)
THEOREM IndexStaysTrue ==
  ASSUME ~Racing, ConflictsApart
  PROVE  Spec => []IndexTrue
<1>1. TypeOK <=> IndexTypeOK /\ RequestsOK /\ DiskOK
  BY DEF TypeOK, RequestsOK, DiskOK
<1>2. Init => TreeOK /\ Settled
  BY DEF Init, TreeOK, Settled, Agrees, Places, Names, Live, Body, IndexInit, NoRow
<1>3. TreeOK /\ Settled /\ Safe /\ [Next]_vars => TreeOK' /\ Settled'
  BY <1>1, TreeStays, SettledStays DEF Safe
<1>4. Settled => IndexTrue
  <2> SUFFICES ASSUME Settled, NEW k \in Places, ~Working(k), ~Damaged(k)
               PROVE  /\ \A p \in Names(k) : Live(p) => disk[k] = rows[p].facts
                      /\ Body(k) => \E p \in Names(k) : Live(p)
    BY DEF IndexTrue
  <2>1. ~HarmedAt(k) /\ ~CopyLeftAt(k)
    BY DEF Damaged, HarmedAt, CopyLeftAt, FailedAt, Related
  <2>2. ~BusyAt(k)
    BY DEF Working, BusyAt
  <2>3. QED
    BY <2>1, <2>2 DEF Settled, Agrees
<1>5. QED
  BY <1>2, <1>3, <1>4, SafeInvariant, PTL DEF Spec

----------------------------------------------------------------------------
(* The promise. *)

\* With every accepted body kept, what is kept changes with the answers only.
LEMMA KeptFollowsAnswers ==
  ASSUME Kept, Kept', NEW new \in SUBSET Reqs,
         \A q \in Reqs : Accepted(q)' <=> Accepted(q) \/ q \in new
  PROVE  {q \in Reqs : Accepted(q) /\ Retrievable(q)}'
           = {q \in Reqs : Accepted(q) /\ Retrievable(q)} \cup new
BY PlacesAreFixed DEF Kept, Retrievable

LEMMA PromiseFails ==
  ASSUME Kept, Kept', UNCHANGED <<rows, currentRev, call>>,
         NEW failed \in SUBSET {q \in Reqs : Open(q)},
         answer' = [q \in Reqs |-> IF q \in failed THEN "failed" ELSE answer[q]]
  PROVE  Promise!Next
<1>1. \A q \in Reqs : Accepted(q)' <=> Accepted(q) \/ q \in {}
  BY DEF Accepted, Open
<1>2. {r \in Reqs : Accepted(r) /\ Retrievable(r)}'
        = {r \in Reqs : Accepted(r) /\ Retrievable(r)} \cup {}
  BY <1>1, KeptFollowsAnswers, Zenon
<1>3. Promise!FailAll(failed)
  BY DEF Promise!FailAll
<1>4. \A q \in Reqs : Promise!Open(q) <=> Open(q)
  BY DEF Promise!Open, Promise!NoCall, Open, NoCall
<1>5. Promise!Fail
  BY <1>2, <1>3, <1>4 DEF Promise!Fail
<1>6. QED
  BY <1>5 DEF Promise!Next

LEMMA PromiseRefuses ==
  ASSUME RequestsOK, Kept, Kept', NEW r \in Reqs, Open(r), UNCHANGED indexVars,
         NEW a \in Refusals, Finish(r, a), Promise!Justified(r, a)
  PROVE  Promise!Next
<1>1. \A q \in Reqs : Accepted(q)' <=> Accepted(q) \/ q \in {}
  BY AfterFinish DEF Accepted, Refusals, Answers, Open
<1>2. {q \in Reqs : Accepted(q) /\ Retrievable(q)}'
        = {q \in Reqs : Accepted(q) /\ Retrievable(q)} \cup {}
  BY <1>1, KeptFollowsAnswers, Zenon
<1>3. Promise!Reply(r, a) /\ a \in Promise!Refusals /\ Promise!Open(r)
  BY DEF Finish, Reply, Promise!Reply, Promise!Refusals, Refusals, Promise!Open, Promise!NoCall,
      Open, NoCall
<1>4. Promise!Refuse(r)
  BY <1>2, <1>3 DEF Promise!Refuse, indexVars
<1>5. QED
  BY <1>4 DEF Promise!Next

LEMMA PromiseArrival ==
  ASSUME RequestsOK, Kept, Kept', NEW r \in Reqs, Arrive(r)
  PROVE  Promise!Next
<1>1. \A q \in Reqs : Accepted(q)' <=> Accepted(q) \/ q \in {}
  BY AfterArrive DEF Accepted
<1>2. {q \in Reqs : Accepted(q) /\ Retrievable(q)}'
        = {q \in Reqs : Accepted(q) /\ Retrievable(q)} \cup {}
  BY <1>1, KeptFollowsAnswers, Zenon
<1>3. PICK op \in Ops, p \in Named, base \in 0 .. currentRev : Ask(r, op, p, base)
  BY DEF Arrive
<1>4. Promise!Ask(r, op, p, base) /\ op \in Promise!Ops
  BY <1>3 DEF Ask, Ops, NoCall, Promise!Ask, Promise!Ops, Promise!NoCall
<1>5. Promise!Arrive(r)
  BY <1>2, <1>4 DEF Promise!Arrive, Arrive, indexVars
<1>6. QED
  BY <1>5 DEF Promise!Next

LEMMA PromiseStutters ==
  ASSUME Kept, Kept', UNCHANGED <<rows, currentRev>>, UNCHANGED callVars
  PROVE  UNCHANGED Promise!promiseVars
<1>1. \A q \in Reqs : Accepted(q)' <=> Accepted(q) \/ q \in {}
  BY DEF Accepted, callVars
<1>2. {q \in Reqs : Accepted(q) /\ Retrievable(q)}'
        = {q \in Reqs : Accepted(q) /\ Retrievable(q)} \cup {}
  BY <1>1, KeptFollowsAnswers, Zenon
<1>3. QED
  BY <1>2 DEF Promise!promiseVars, callVars

LEMMA PromiseRecords ==
  ASSUME IndexTypeOK, RequestsOK, Kept, Kept', NEW r \in Reqs, Open(r), HandlerOK(r),
         RecordFile(r), Upsert(job[r].target, r)
  PROVE  Promise!Next
<1> DEFINE a == IF job[r].target = Path(r) THEN "stored" ELSE "conflict"
<1>1. /\ job[r].at = "record" /\ call[r].op = "put"
      /\ rows[Path(r)] = job[r].seen /\ (job[r].seen.deleted \/ ReplacesFile(r))
  BY DEF RecordFile, At, HandlerOK, RowAsSeen, Decided
<1>2. Path(r) \in Named
  BY HandlerOfRequest DEF RequestsOK, Call, Path
<1>3. LiveRev(Path(r)) = call[r].base <=> ~Conflicts(r)
  BY <1>1 DEF LiveRev, Live, Conflicts, SeenRev
<1>4. ~IsDirectory(Path(r))
  BY <1>1 DEF IsDirectory, Live, ReplacesFile
<1>5. Conflicts(r) => job[r].target \in Copies[Path(r)] /\ ~Live(job[r].target)
  BY <1>1, HandlerOfRequest, PlacesAreFixed DEF HandlerOK, Target, Spot, RequestsOK
<1>6. ~Conflicts(r) => job[r].target = Path(r)
  BY <1>1 DEF HandlerOK, Target
<1>7. Finish(r, a)
  <2>1. currentRev' = currentRev + 1 /\ currentRev \in Nat
    BY DEF Upsert, IndexTypeOK
  <2>2. ~UNCHANGED indexVars
    BY <2>1 DEF indexVars
  <2>3. QED
    BY <2>2 DEF RecordFile, RecordAs
<1>8. a \in Answers \ {"none"}
  BY DEF Answers
<1>9. \A q \in Reqs : Accepted(q)' <=> Accepted(q) \/ q \in {r}
  BY <1>7, <1>8, AfterFinish DEF Accepted
<1>10. {q \in Reqs : Accepted(q) /\ Retrievable(q)}'
        = {q \in Reqs : Accepted(q) /\ Retrievable(q)} \cup {r}
  BY <1>9, KeptFollowsAnswers, Zenon
<1>11. Promise!Open(r) /\ Promise!Reply(r, a)
  BY <1>7 DEF Finish, Reply, Promise!Reply, Promise!Open, Promise!NoCall, Open, NoCall
<1>12. \A p : /\ (Promise!IsDirectory(p) <=> IsDirectory(p)) /\ (Promise!Live(p) <=> Live(p))
              /\ Promise!LiveRev(p) = LiveRev(p) /\ (Promise!Upsert(p, r) <=> Upsert(p, r))
  BY DEF Promise!IsDirectory, Promise!Live, Promise!LiveRev, Promise!Upsert, Promise!CaseCollision,
      IsDirectory, Live, LiveRev, Upsert, CaseCollision
<1> HIDE DEF a
<1>13. CASE ~Conflicts(r)
  <2>1. a = "stored"
    BY <1>6, <1>13 DEF a
  <2>2. Promise!PutInPlace(r)
    BY <1>1, <1>3, <1>4, <1>6, <1>10, <1>11, <1>12, <1>13, <2>1 DEF Promise!PutInPlace, Path
  <2>3. QED
    BY <2>2 DEF Promise!Next
<1>14. CASE Conflicts(r)
  <2>1. a = "conflict"
    BY <1>2, <1>5, <1>14, NamesAssumption DEF a
  <2>2. Promise!PutAside(r)
    BY <1>1, <1>3, <1>4, <1>5, <1>10, <1>11, <1>12, <1>14, <2>1 DEF Promise!PutAside, Path
  <2>3. QED
    BY <2>2 DEF Promise!Next
<1>15. QED
  BY <1>13, <1>14

LEMMA PromiseMakesDirectory ==
  ASSUME RequestsOK, Kept, Kept', NEW r \in Reqs, Open(r), call[r].op = "mkdir", Finish(r, "made"),
         \/ ~Live(Path(r)) /\ Upsert(Path(r), Directory)
         \/ IsDirectory(Path(r)) /\ UNCHANGED indexVars
  PROVE  Promise!Next
<1>1. \A q \in Reqs : Accepted(q)' <=> Accepted(q) \/ q \in {}
  BY AfterFinish DEF Accepted, Answers, Open
<1>2. {q \in Reqs : Accepted(q) /\ Retrievable(q)}'
        = {q \in Reqs : Accepted(q) /\ Retrievable(q)} \cup {}
  BY <1>1, KeptFollowsAnswers, Zenon
<1>3. Promise!Open(r) /\ Promise!Reply(r, "made")
  BY DEF Finish, Reply, Promise!Reply, Promise!Open, Promise!NoCall, Open, NoCall
<1>4. Promise!MakeDirectory(r)
  BY <1>2, <1>3 DEF Promise!MakeDirectory, Promise!IsDirectory, Promise!Live, Promise!Upsert,
      Promise!CaseCollision, IsDirectory, Live, Upsert, CaseCollision, Path, indexVars
<1>5. QED
  BY <1>4 DEF Promise!Next

LEMMA PromiseDeletes ==
  ASSUME RequestsOK, Kept, Kept', NEW r \in Reqs, Open(r), HandlerOK(r), At(r, "mark"),
         MarkDeleted(Path(r)), Finish(r, "deleted")
  PROVE  Promise!Next
<1>1. \A q \in Reqs : Accepted(q)' <=> Accepted(q) \/ q \in {}
  BY AfterFinish DEF Accepted, Answers, Open
<1>2. {q \in Reqs : Accepted(q) /\ Retrievable(q)}'
        = {q \in Reqs : Accepted(q) /\ Retrievable(q)} \cup {}
  BY <1>1, KeptFollowsAnswers, Zenon
<1>3. Promise!Open(r) /\ Promise!Reply(r, "deleted")
  BY DEF Finish, Reply, Promise!Reply, Promise!Open, Promise!NoCall, Open, NoCall
<1>4. call[r].op = "delete"
  BY StagesTellOps DEF At
<1>5. Live(Path(r)) /\ LiveRev(Path(r)) = call[r].base
  BY <1>4 DEF At, HandlerOK, RowAsSeen, Decided, Live, LiveRev, Conflicts, SeenRev
<1>6. Promise!Delete(r)
  BY <1>2, <1>3, <1>4, <1>5 DEF Promise!Delete, Promise!Live, Promise!LiveRev, Promise!MarkDeleted,
      Promise!NoRow, Live, LiveRev, MarkDeleted, NoRow, Path
<1>7. QED
  BY <1>6 DEF Promise!Next

LEMMA PromiseOfStep ==
  ASSUME IndexTypeOK, RequestsOK, HandlersOK, Kept, Kept', NEW r \in Reqs, Step(r)
  PROVE  Promise!Next \/ UNCHANGED Promise!promiseVars
<1>1. CASE Arrive(r)
  BY <1>1, PromiseArrival
<1>2. CASE ~Arrive(r)
  <2>1. Open(r) /\ HandlerOK(r) /\ job[r] # Idle
    BY <1>2, OnlyHandlersStep DEF HandlersOK
  <2>2. ASSUME UNCHANGED indexVars, NEW stage, Go(r, stage) \/ Proceed(r, stage)
        PROVE  UNCHANGED Promise!promiseVars
    BY <2>2, PromiseStutters DEF Go, Proceed, indexVars
  <2>3. ASSUME UNCHANGED indexVars, Finish(r, "failed")
        PROVE  Promise!Next
    <3>1. answer' = [q \in Reqs |-> IF q \in {r} THEN "failed" ELSE answer[q]]
      BY <2>3 DEF Finish, Reply, RequestsOK, CallsTypeOK
    <3>2. UNCHANGED <<rows, currentRev, call>>
      BY <2>3 DEF indexVars, Finish, Reply
    <3>3. QED
      BY <2>1, <3>1, <3>2, PromiseFails
  <2>4. ASSUME UNCHANGED indexVars, NEW a \in Refusals, Finish(r, a), Promise!Justified(r, a)
        PROVE  Promise!Next
    BY <2>1, <2>4, PromiseRefuses
  <2>5. /\ Promise!IsDirectory(Path(r)) <=> IsDirectory(Path(r))
        /\ Promise!IsFile(Path(r)) <=> IsFile(Path(r))
        /\ Promise!Live(Path(r)) <=> Live(Path(r))
        /\ Promise!LiveRev(Path(r)) = LiveRev(Path(r))
        /\ \A p : Promise!CaseCollision(p) <=> CaseCollision(p)
    BY DEF Promise!IsDirectory, Promise!IsFile, Promise!Live, Promise!LiveRev,
        Promise!CaseCollision, IsDirectory, IsFile, Live, LiveRev, CaseCollision
  <2>6. CASE LookupPut(r)
    <3>1. IsDirectory(Path(r)) /\ call[r].op = "put" => Promise!Justified(r, "is_directory")
      BY <2>5 DEF Promise!Justified, Path
    <3>2. QED
      BY <2>2, <2>4, <2>6, <3>1 DEF LookupPut, Refusals
  <2>7. CASE LookupDelete(r)
    <3>1. /\ ~Live(Path(r)) /\ call[r].op = "delete" => Promise!Justified(r, "not_found")
          /\ Live(Path(r)) /\ LiveRev(Path(r)) # call[r].base /\ call[r].op = "delete"
               => Promise!Justified(r, "stale")
      BY <2>5 DEF Promise!Justified, Path
    <3>2. QED
      BY <2>2, <2>4, <2>7, <3>1 DEF LookupDelete, Refusals
  <2>8. CASE LookupDir(r)
    <3>1. IsFile(Path(r)) /\ call[r].op = "mkdir" => Promise!Justified(r, "is_file")
      BY <2>5 DEF Promise!Justified, Path
    <3>2. QED
      BY <2>1, <2>2, <2>4, <2>8, <3>1, PromiseMakesDirectory DEF LookupDir, Refusals
  <2>9. CASE Check(r)
    <3>1. call[r].op # "delete" /\ CaseCollision(Path(r)) => Promise!Justified(r, "case_collision")
      BY <2>5 DEF Promise!Justified, Path
    <3>2. At(r, "check") => call[r].op # "delete"
      BY <2>1, StagesTellOps DEF At
    <3>3. CASE CheckCase(r)
      BY <2>4, <3>1, <3>2, <3>3 DEF CheckCase, Refusals
    <3>4. CASE CheckPut(r) \/ CheckDir(r)
      BY <2>2, <3>4, PromiseStutters DEF CheckPut, CheckDir, indexVars
    <3>5. QED
      BY <2>9, <3>3, <3>4 DEF Check
  <2>10. CASE MoveToTrash(r) \/ Write(r) \/ WriteFails(r) \/ Undo(r) \/ Mkdir(r) \/ Remove(r)
    BY <2>2, <2>3, <2>10 DEF MoveToTrash, Write, WriteFails, Undo, Mkdir, Remove
  <2>11. CASE RecordFile(r)
    <3>1. CASE Upsert(job[r].target, r)
      BY <2>1, <2>11, <3>1, PromiseRecords
    <3>2. ASSUME CaseCollision(job[r].target) PROVE Promise!Justified(r, "case_collision")
      <4>1. call[r].op = "put"
        BY <2>11 DEF RecordFile
      <4>2. job[r].target = Path(r) \/ job[r].target \in Copies[Path(r)]
        BY <2>1 DEF HandlerOK, Target
      <4>3. QED
        BY <2>5, <3>2, <4>1, <4>2 DEF Promise!Justified, Path
    <3>3. QED
      BY <2>3, <2>4, <2>11, <3>1, <3>2 DEF RecordFile, RecordAs, Refusals
  <2>12. CASE RecordDir(r)
    <3>1. call[r].op = "mkdir" /\ job[r].target = Path(r) /\ ~Live(Path(r))
      BY <2>1, <2>12 DEF RecordDir, At, HandlerOK, Target, Decided, RowAsSeen, Live
    <3>2. CaseCollision(Path(r)) => Promise!Justified(r, "case_collision")
      BY <2>5, <3>1 DEF Promise!Justified, Path
    <3>3. QED
      BY <2>1, <2>3, <2>4, <2>12, <3>1, <3>2, PromiseMakesDirectory
      DEF RecordDir, RecordAs, Refusals
  <2>13. CASE Mark(r)
    BY <2>1, <2>3, <2>13, PromiseDeletes DEF Mark
  <2>14. QED
    BY <1>2, <2>6, <2>7, <2>8, <2>9, <2>10, <2>11, <2>12, <2>13 DEF Step, Lookup, Record
<1>3. QED
  BY <1>1, <1>2

(***************************************************************************)
(* Every request seems to happen at one moment: the handlers of            *)
(* api/files.go implement FileServer, the promises of PROTOCOL sections 5  *)
(* and 7, as long as requests on related paths do not overlap.             *)
(***************************************************************************)
THEOREM PromiseIsKept ==
  ASSUME ~Racing, ConflictsApart
  PROVE  Spec => PromiseKept
<1>1. TypeOK <=> IndexTypeOK /\ RequestsOK /\ DiskOK
  BY DEF TypeOK, RequestsOK, DiskOK
<1>2. Init => Promise!Init
  BY DEF Init, IndexInit, CallsInit, Accepted, NoRow, NoCall, Promise!Init, Promise!IndexInit,
      Promise!CallsInit, Promise!NoRow, Promise!NoCall
<1>3. Safe /\ Safe' /\ [Next]_vars => Promise!Next \/ UNCHANGED Promise!promiseVars
  <2> SUFFICES ASSUME Safe, Safe', [Next]_vars
               PROVE  Promise!Next \/ UNCHANGED Promise!promiseVars
    OBVIOUS
  <2>1. IndexTypeOK /\ RequestsOK /\ HandlersOK /\ Kept /\ Kept'
    BY <1>1 DEF Safe
  <2>2. CASE UNCHANGED vars
    BY <2>1, <2>2, PromiseStutters DEF vars, callVars
  <2>3. CASE Crash
    <3>1. UNCHANGED <<rows, currentRev, call>>
      BY <2>3 DEF Crash, FailAll, indexVars
    <3>2. PICK failed \in SUBSET {r \in Reqs : Open(r)} :
            answer' = [q \in Reqs |-> IF q \in failed THEN "failed" ELSE answer[q]]
      BY <2>3 DEF Crash, FailAll
    <3>3. QED
      BY <2>1, <3>1, <3>2, PromiseFails
  <2>4. CASE \E r \in Reqs : Step(r)
    BY <2>1, <2>4, PromiseOfStep
  <2>5. QED
    BY <2>2, <2>3, <2>4 DEF Next
<1>4. QED
  BY <1>2, <1>3, SafeInvariant, PTL DEF Spec, PromiseKept, Promise!Spec
----------------------------------------------------------------------------
(* What nobody has seen. *)

\* A live row goes away or is replaced only for a request that names its revision.
OverwritesOnlySeen ==
  \A p \in Paths : Live(p) /\ rows'[p] # rows[p] =>
    \E r \in Reqs : /\ Open(r) /\ Path(r) = p /\ call[r].base = rows[p].rev
                    /\ answer'[r] \in {"stored", "deleted"}

(***************************************************************************)
(* Two machines can edit the same file and neither loses: the row of a     *)
(* file somebody sees is replaced or deleted only for a request that       *)
(* presents the revision the row has at that moment (handlePutFile and     *)
(* handleDeleteFile look at it long before they write), and that request   *)
(* is told so, as long as requests on related paths do not overlap.        *)
(***************************************************************************)
THEOREM NobodyOverwritesUnseen ==
  ASSUME ~Racing, ConflictsApart
  PROVE  Spec => [][OverwritesOnlySeen]_vars
<1>1. TypeOK /\ [Promise!Next]_Promise!promiseVars => OverwritesOnlySeen
  <2> SUFFICES ASSUME TypeOK, [Promise!Next]_Promise!promiseVars,
                      NEW p \in Paths, Live(p), rows'[p] # rows[p]
               PROVE  \E r \in Reqs : /\ Open(r) /\ Path(r) = p /\ call[r].base = rows[p].rev
                                      /\ answer'[r] \in {"stored", "deleted"}
    BY DEF OverwritesOnlySeen
  <2>1. rows \in [Paths -> Row] /\ answer \in [Reqs -> Answers]
    BY DEF TypeOK, IndexTypeOK, CallsTypeOK
  <2>2. Promise!Next
    BY DEF Promise!promiseVars
  <2>3. \A r, q : Promise!Open(r) = Open(r) /\ Promise!Live(q) = Live(q) /\ Promise!LiveRev(q) = LiveRev(q)
                  /\ Promise!IsDirectory(q) = IsDirectory(q)
    BY DEF Promise!Open, Open, Promise!NoCall, NoCall, Promise!Live, Live, Promise!LiveRev, LiveRev,
        Promise!IsDirectory, IsDirectory
  <2>4. ASSUME NEW q \in Paths, NEW f, Promise!Upsert(q, f) \/ Promise!MarkDeleted(q)
        PROVE  p = q
    BY <2>1, <2>4 DEF Promise!Upsert, Promise!MarkDeleted
  <2>5. ASSUME NEW r \in Reqs, NEW a, Promise!Reply(r, a) PROVE answer'[r] = a
    BY <2>1, <2>5 DEF Promise!Reply
  <2>6. ASSUME NEW r \in Reqs, Promise!PutInPlace(r) \/ Promise!Delete(r)
        PROVE  /\ Open(r) /\ Path(r) = p /\ call[r].base = rows[p].rev
               /\ answer'[r] \in {"stored", "deleted"}
    <3>1. Open(r) /\ call[r].path \in Paths
      BY <2>3, <2>6, NamesAssumption
      DEF Promise!PutInPlace, Promise!Delete, TypeOK, CallsTypeOK, Call, Open
    <3>2. p = call[r].path /\ LiveRev(p) = call[r].base /\ answer'[r] \in {"stored", "deleted"}
      BY <2>3, <2>4, <2>5, <2>6, <3>1 DEF Promise!PutInPlace, Promise!Delete
    <3>3. QED
      BY <3>1, <3>2 DEF LiveRev, Path
  <2>7. ASSUME NEW r \in Reqs, Promise!PutAside(r) PROVE FALSE
    <3>1. PICK c \in Copies[call[r].path] : ~Promise!Live(c) /\ Promise!Upsert(c, r)
      BY <2>7 DEF Promise!PutAside
    <3>2. QED
      BY <2>1, <2>3, <3>1 DEF Promise!Upsert
  <2>8. ASSUME NEW r \in Reqs, Promise!MakeDirectory(r) PROVE FALSE
    BY <2>1, <2>3, <2>8 DEF Promise!MakeDirectory, Promise!Upsert
  <2>9. ASSUME NEW r \in Reqs, Promise!Arrive(r) \/ Promise!Refuse(r) \/ Promise!Fail PROVE FALSE
    BY <2>9 DEF Promise!Arrive, Promise!Refuse, Promise!Fail
  <2>10. ~Promise!Fail
    BY DEF Promise!Fail
  <2>11. QED
    BY <2>2, <2>6, <2>7, <2>8, <2>9, <2>10 DEF Promise!Next
<1>2. QED
  BY <1>1, TypeCorrect, PromiseIsKept, PTL DEF PromiseKept, Promise!Spec

=============================================================================
