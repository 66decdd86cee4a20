----------------------------- MODULE FileServer -----------------------------
(***************************************************************************)
(* What the file API promises (docs/PROTOCOL.md sections 5 and 7): every   *)
(* request seems to happen at one moment.  A PUT replaces exactly the      *)
(* revision it names or lands beside it, a DELETE removes exactly the      *)
(* revision it names, and a body once accepted is kept for good.           *)
(***************************************************************************)
EXTENDS FileCalls

VARIABLE kept  \* the accepted bodies that can still be retrieved

promiseVars == <<rows, currentRev, call, answer, kept>>

Init == IndexInit /\ CallsInit /\ kept = {}

Arrive(r) ==
  /\ \E op \in Ops, p \in Named, base \in 0 .. currentRev : Ask(r, op, p, base)
  /\ UNCHANGED <<rows, currentRev, kept>>

PutInPlace(r) ==
  LET p == call[r].path IN
  /\ Open(r) /\ call[r].op = "put"
  /\ LiveRev(p) = call[r].base
  /\ ~IsDirectory(p)
  /\ Upsert(p, r)
  /\ kept' = kept \cup {r}
  /\ Reply(r, "stored")

PutAside(r) ==
  LET p == call[r].path IN
  /\ Open(r) /\ call[r].op = "put"
  /\ LiveRev(p) # call[r].base
  /\ ~IsDirectory(p)
  /\ \E c \in Copies[p] : ~Live(c) /\ Upsert(c, r)
  /\ kept' = kept \cup {r}
  /\ Reply(r, "conflict")

Delete(r) ==
  LET p == call[r].path IN
  /\ Open(r) /\ call[r].op = "delete"
  /\ Live(p) /\ LiveRev(p) = call[r].base
  /\ MarkDeleted(p)
  /\ UNCHANGED kept
  /\ Reply(r, "deleted")

MakeDirectory(r) ==
  LET p == call[r].path IN
  /\ Open(r) /\ call[r].op = "mkdir"
  /\ \/ ~Live(p) /\ Upsert(p, Directory)
     \/ IsDirectory(p) /\ UNCHANGED <<rows, currentRev>>
  /\ UNCHANGED kept
  /\ Reply(r, "made")

\* When a refusal tells the truth.
Justified(r, a) ==
  LET op == call[r].op
      p == call[r].path IN
  \/ a = "is_directory" /\ op = "put" /\ IsDirectory(p)
  \/ a = "is_file" /\ op = "mkdir" /\ IsFile(p)
  \/ a = "case_collision" /\ op # "delete" /\ CaseCollision(p)
  \/ a = "case_collision" /\ op = "put" /\ \E c \in Copies[p] : CaseCollision(c)
  \/ a = "not_found" /\ op = "delete" /\ ~Live(p)
  \/ a = "stale" /\ op = "delete" /\ Live(p) /\ LiveRev(p) # call[r].base

Refuse(r) ==
  /\ Open(r)
  /\ \E a \in Refusals : Justified(r, a) /\ Reply(r, a)
  /\ UNCHANGED <<rows, currentRev, kept>>

\* A failed request has changed nothing.
Fail ==
  /\ \E failed \in SUBSET {r \in Reqs : Open(r)} : FailAll(failed)
  /\ UNCHANGED <<rows, currentRev, kept>>

Next ==
  \/ \E r \in Reqs :
       \/ Arrive(r) \/ PutInPlace(r) \/ PutAside(r)
       \/ Delete(r) \/ MakeDirectory(r) \/ Refuse(r)
  \/ Fail

Spec == Init /\ [][Next]_promiseVars
=============================================================================
