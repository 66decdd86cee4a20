----------------------------- MODULE FileCalls -----------------------------
(***************************************************************************)
(* The requests of the file API (PUT and DELETE /v1/files, PUT and DELETE  *)
(* /v1/dirs) as their senders see them: what was asked and how it was      *)
(* answered.  FileServer says what the answers promise and ServerFiles how *)
(* the handlers of api/files.go come to them; both extend this module.     *)
(* A body is identified with the request that carried it.                  *)
(***************************************************************************)
EXTENDS Index

CONSTANTS
  Reqs,       \* the requests, and the bodies they carry
  Directory,  \* the facts of a directory's row
  Named,      \* the paths clients ask for
  Copies      \* Copies[p]: the names conflictName can generate for p

ASSUME RequestAssumption == Facts = Reqs \cup {Directory} /\ Directory \notin Reqs
ASSUME NamesAssumption ==
  /\ Named \subseteq Paths
  /\ Copies \in [Named -> SUBSET Paths]
  /\ \A p \in Named : p \notin Copies[p]

VARIABLES
  call,   \* call[r]: what r asks for, NoCall before it arrives
  answer  \* answer[r]: how it was answered, "none" until it is

callVars == <<call, answer>>

Ops == {"put", "delete", "mkdir"}

Call == [op : Ops, path : Named, base : Nat]

NoCall == [op |-> "none"]

Refusals == {"is_directory", "is_file", "case_collision", "not_found", "stale"}

Answers == Refusals \cup {"none", "stored", "conflict", "deleted", "made", "failed"}

CallsTypeOK ==
  /\ call \in [Reqs -> Call \cup {NoCall}]
  /\ answer \in [Reqs -> Answers]
  /\ \A r \in Reqs : call[r] = NoCall => answer[r] = "none"

CallsInit ==
  /\ call = [r \in Reqs |-> NoCall]
  /\ answer = [r \in Reqs |-> "none"]

Open(r) == call[r] # NoCall /\ answer[r] = "none"

\* A client presents a revision it has been told of, or 0.
Ask(r, op, p, base) ==
  /\ call[r] = NoCall
  /\ call' = [call EXCEPT ![r] = [op |-> op, path |-> p, base |-> base]]
  /\ UNCHANGED answer

Reply(r, a) ==
  /\ answer' = [answer EXCEPT ![r] = a]
  /\ UNCHANGED call

\* Errors of the disk and of the connection; a crash fails all that is open.
FailAll(failed) ==
  /\ answer' = [r \in Reqs |-> IF r \in failed THEN "failed" ELSE answer[r]]
  /\ UNCHANGED call

IsDirectory(p) == Live(p) /\ rows[p].facts = Directory

IsFile(p) == Live(p) /\ rows[p].facts # Directory

\* The body of r was accepted.
Accepted(r) == answer[r] \in {"stored", "conflict"}
=============================================================================
