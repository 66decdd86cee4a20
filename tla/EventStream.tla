---------------------------- MODULE EventStream ----------------------------
(***************************************************************************)
(* How a client comes to know that something changed: the server's event   *)
(* stream (api/events.go), the daemon's loop with its wake-ups             *)
(* (cmd/homesync-client/main.go, sync/watch.go), and the ignore rules it   *)
(* fetches at the start of every cycle (RefreshIgnoreRules in              *)
(* sync/engine.go, Load in ignore/shared.go).  An event carries a revision *)
(* that nobody reads; here it is only counted.  A cycle is what SyncEngine *)
(* is about: here, the revision it catches up with and the edits it saw.   *)
(***************************************************************************)
EXTENDS Integers

CONSTANTS
  Buffer,      \* 8: events a subscriber may be behind
  MaxRev,      \* bound: changes on the server
  MaxRules,    \* bound: saves of the ignore rules
  MaxEdits,    \* bound: edits in the client's folder
  MaxFailures, \* bound: cycles, fetches and greetings that fail, edits not noticed
  MaxDrops,    \* bound: streams that break, changes that delete too much
  MaxLaunches, \* bound: restarts of the client
  Torn         \* may a save of the rules come between Load's two queries

ASSUME EventStreamAssumption ==
  /\ Buffer \in Nat \ {0}
  /\ {MaxRev, MaxRules, MaxEdits, MaxFailures, MaxDrops, MaxLaunches} \subseteq Nat
  /\ Torn \in BOOLEAN

VARIABLES
  rev,      \* the newest revision committed
  publishing, \* changes committed and not yet published
  rules,    \* the stored document: which save it is from, and its version
  massive,  \* the change that deletes more of the client's files than its guard lets pass
  stream,   \* where the handler of the client's stream is, and its channel
  hint,     \* an event on its way: in the connection or the client's channel
  settle,   \* the watcher's timer runs
  local,    \* the channel from the watcher
  wake,     \* the channel of one that starts a cycle
  cycle,    \* where the cycle is and what it has read
  client,   \* what it has stored: revision synced, edits pushed, rules and version
  edits,    \* edits in the folder
  failures, drops, launches

eventVars == <<rev, publishing, rules, massive, stream, hint, settle, local, wake, cycle, client,
               edits, failures, drops, launches>>

server == <<rev, publishing, rules, massive, stream>>
daemon == <<settle, local, wake, cycle, client, edits>>
faults == <<failures, drops, launches>>

NoStream == [at |-> "off", queued |-> 0]
NoCycle == [at |-> "idle", rules |-> 0, version |-> 0, rev |-> 0]

EventTypeOK ==
  /\ rev \in 0 .. MaxRev /\ publishing \in 0 .. MaxRev /\ rules \in 0 .. MaxRules
  /\ massive \in 0 .. MaxRev
  /\ stream \in [at : {"off", "accepted", "subscribed", "open"}, queued : 0 .. Buffer]
  /\ stream.queued > 0 => stream.at \in {"subscribed", "open"}
  /\ hint \in BOOLEAN /\ settle \in BOOLEAN /\ local \in BOOLEAN /\ wake \in BOOLEAN
  /\ cycle \in [at : {"idle", "begun", "loaded", "answered", "stored", "pull", "pulled", "push", "end"},
                rules : 0 .. MaxRules, version : 0 .. MaxRules, rev : 0 .. MaxRev]
  /\ client \in [synced : 0 .. MaxRev, pushed : 0 .. MaxEdits,
                 rules : 0 .. MaxRules, version : 0 .. MaxRules]
  /\ edits \in 0 .. MaxEdits
  /\ failures \in 0 .. MaxFailures /\ drops \in 0 .. MaxDrops /\ launches \in 0 .. MaxLaunches

\* Launched: what changed before has to be caught too.
EventInit ==
  /\ rev = 0 /\ publishing = 0 /\ rules = 0 /\ massive = 0
  /\ stream = NoStream /\ hint = FALSE
  /\ settle = FALSE /\ local = FALSE /\ wake = TRUE /\ cycle = NoCycle
  /\ client = [synced |-> 0, pushed |-> 0, rules |-> 0, version |-> 0]
  /\ edits = 0 /\ failures = 0 /\ drops = 0 /\ launches = 0

----------------------------------------------------------------------------
(***************************************************************************)
(* The server.  A write notifies after its commit: in between, others      *)
(* commit and publish.                                                     *)
(***************************************************************************)
Commit ==
  /\ rev < MaxRev
  /\ rev' = rev + 1 /\ publishing' = publishing + 1
  /\ \/ UNCHANGED <<massive, drops>>
     \/ drops < MaxDrops /\ drops' = drops + 1 /\ massive' = rev'
  /\ UNCHANGED <<rules, stream, hint, daemon, failures, launches>>

\* To a subscriber that is behind the event is dropped.
Publish ==
  /\ publishing > 0 /\ publishing' = publishing - 1
  /\ stream' = IF stream.at \in {"subscribed", "open"} /\ stream.queued < Buffer
               THEN [stream EXCEPT !.queued = @ + 1] ELSE stream
  /\ UNCHANGED <<rev, rules, massive, hint, daemon, faults>>

\* The next attempt to connect, when the backoff is over.
Connect ==
  /\ stream.at = "off" /\ stream' = [stream EXCEPT !.at = "accepted"]
  /\ UNCHANGED <<rev, publishing, rules, massive, hint, daemon, faults>>

Subscribe ==
  /\ stream.at = "accepted" /\ stream' = [stream EXCEPT !.at = "subscribed"]
  /\ UNCHANGED <<rev, publishing, rules, massive, hint, daemon, faults>>

\* Nothing is sent until something changes.
MutGreet ==
  /\ stream.at = "subscribed" /\ stream' = [stream EXCEPT !.at = "open"]
  /\ UNCHANGED <<rev, publishing, rules, massive, hint, daemon, faults>>

\* The current revision at once, so that a client that reconnects knows; if it
\* cannot be read, nothing is sent and the stream stays open.
Greet ==
  /\ stream.at = "subscribed" /\ stream' = [stream EXCEPT !.at = "open"]
  /\ \/ hint' = TRUE /\ UNCHANGED failures
     \/ /\ failures < MaxFailures /\ failures' = failures + 1
        /\ UNCHANGED hint
  /\ UNCHANGED <<rev, publishing, rules, massive, daemon, drops, launches>>

\* What piled up is drained: one event for all of it.
Announce ==
  /\ stream.at = "open" /\ stream.queued > 0
  /\ stream' = [stream EXCEPT !.queued = 0] /\ hint' = TRUE
  /\ UNCHANGED <<rev, publishing, rules, massive, daemon, faults>>

\* The channel is not taken from the subscribers.
MutDrop ==
  /\ stream.at # "off" /\ drops < MaxDrops
  /\ stream' = [stream EXCEPT !.at = "off"] /\ hint' \in {hint, FALSE}
  /\ drops' = drops + 1
  /\ UNCHANGED <<rev, publishing, rules, massive, daemon, failures, launches>>

\* The connection breaks; what was on its way may be lost with it.
Drop ==
  /\ stream.at # "off" /\ drops < MaxDrops
  /\ stream' = NoStream /\ hint' \in {hint, FALSE}
  /\ drops' = drops + 1
  /\ UNCHANGED <<rev, publishing, rules, massive, daemon, failures, launches>>

\* The server dies and comes back: changes it had committed are never published.
ServerRestart ==
  /\ drops < MaxDrops /\ drops' = drops + 1
  /\ stream' = NoStream /\ publishing' = 0 /\ hint' \in {hint, FALSE}
  /\ UNCHANGED <<rev, rules, massive, daemon, failures, launches>>

\* A save that purges nothing: one statement writes rules and version, no revision.
\* The version is a time in milliseconds; that two saves share one is left out.
SaveRules ==
  /\ rules < MaxRules /\ (cycle.at = "loaded" => Torn)
  /\ rules' = rules + 1
  /\ UNCHANGED <<rev, publishing, massive, stream, hint, daemon, faults>>

----------------------------------------------------------------------------
(***************************************************************************)
(* The daemon.  Requests for a cycle that arrive while one runs become one *)
(* that follows.                                                           *)
(***************************************************************************)
Edit ==
  /\ edits < MaxEdits /\ edits' = edits + 1
  /\ settle' = TRUE
  /\ UNCHANGED <<server, hint, local, wake, cycle, client, faults>>

\* The watcher's queue overflowed, or the directory had no watch yet.
EditUnnoticed ==
  /\ edits < MaxEdits /\ edits' = edits + 1
  /\ failures < MaxFailures /\ failures' = failures + 1
  /\ UNCHANGED <<server, hint, settle, local, wake, cycle, client, drops, launches>>

\* Quiet for long enough; the send waits while the last one has not been taken.
Settled ==
  /\ settle /\ ~local
  /\ settle' = FALSE /\ local' = TRUE
  /\ UNCHANGED <<server, hint, wake, cycle, client, edits, faults>>

LocalRequest ==
  /\ local /\ local' = FALSE /\ wake' = TRUE
  /\ UNCHANGED <<server, hint, settle, cycle, client, edits, faults>>

EventRequest ==
  /\ hint /\ hint' = FALSE /\ wake' = TRUE
  /\ UNCHANGED <<server, settle, local, cycle, client, edits, faults>>

Tick ==
  /\ wake' = TRUE
  /\ UNCHANGED <<server, hint, settle, local, cycle, client, edits, faults>>

BeginCycle ==
  /\ cycle.at = "idle" /\ wake
  /\ wake' = FALSE /\ cycle' = [cycle EXCEPT !.at = "begun"]
  /\ UNCHANGED <<server, hint, settle, local, client, edits, faults>>

InCycle == UNCHANGED <<server, hint, settle, local, wake, edits, faults>>

\* The two queries of Load.
LoadRules ==
  /\ cycle.at = "begun"
  /\ cycle' = [cycle EXCEPT !.at = "loaded", !.rules = rules]
  /\ UNCHANGED client /\ InCycle

LoadVersion ==
  /\ cycle.at = "loaded"
  /\ cycle' = [cycle EXCEPT !.at = "answered", !.version = IF cycle.rules = 0 THEN 0 ELSE rules]
  /\ UNCHANGED client /\ InCycle

\* The version is the one it has: nothing to store.
KeepRules ==
  /\ cycle.at = "answered" /\ cycle.version = client.version
  /\ cycle' = [cycle EXCEPT !.at = "pull"]
  /\ UNCHANGED client /\ InCycle

\* The version first.
MutStoreRules ==
  /\ cycle.at = "answered" /\ cycle.version # client.version
  /\ client' = [client EXCEPT !.version = cycle.version]
  /\ cycle' = [cycle EXCEPT !.at = "stored"]
  /\ InCycle

\* SetIgnore writes the rules and then, on its own, the version.
StoreRules ==
  /\ cycle.at = "answered" /\ cycle.version # client.version
  /\ client' = [client EXCEPT !.rules = cycle.rules]
  /\ cycle' = [cycle EXCEPT !.at = "stored"]
  /\ InCycle

StoreVersion ==
  /\ cycle.at = "stored"
  /\ client' = [client EXCEPT !.rules = cycle.rules, !.version = cycle.version]
  /\ cycle' = [cycle EXCEPT !.at = "pull"]
  /\ InCycle

\* The last page of the changes is empty: this is the newest revision now.
Pull ==
  /\ cycle.at = "pull"
  /\ cycle' = [cycle EXCEPT !.at = "pulled", !.rev = rev]
  /\ UNCHANGED client /\ InCycle

\* checkDeleteGuard: of what has been read, too much would be deleted.
Implausible == client.synced < massive /\ massive <= cycle.rev

Record ==
  /\ cycle.at = "pulled" /\ ~Implausible
  /\ client' = [client EXCEPT !.synced = cycle.rev]
  /\ cycle' = [cycle EXCEPT !.at = "push"]
  /\ InCycle

\* PausedError: nothing is applied and nothing pushed.  Whatever next asks for a
\* cycle, the ticker too, has it tried again.
Pause ==
  /\ cycle.at = "pulled" /\ Implausible
  /\ cycle' = NoCycle
  /\ UNCHANGED client /\ InCycle

\* The scan of push decides what this cycle sends.
Push ==
  /\ cycle.at = "push"
  /\ client' = [client EXCEPT !.pushed = edits]
  /\ cycle' = [cycle EXCEPT !.at = "end"]
  /\ InCycle

EndCycle ==
  /\ cycle.at = "end" /\ cycle' = NoCycle
  /\ UNCHANGED client /\ InCycle

\* The rules cannot be fetched: the cycle goes on with those it has.
FetchFails ==
  /\ cycle.at \in {"begun", "loaded"} /\ failures < MaxFailures
  /\ failures' = failures + 1 /\ cycle' = [NoCycle EXCEPT !.at = "pull"]
  /\ UNCHANGED <<server, hint, settle, local, wake, client, edits, drops, launches>>

\* Pull or push fails: "will retry", when something next asks for a cycle.
CycleFails ==
  /\ cycle.at \in {"pull", "pulled", "push"} /\ failures < MaxFailures
  /\ failures' = failures + 1 /\ cycle' = NoCycle
  /\ UNCHANGED <<server, hint, settle, local, wake, client, edits, drops, launches>>

StartAgain ==
  /\ settle' = FALSE /\ local' = FALSE /\ wake' = TRUE /\ cycle' = NoCycle
  /\ stream' = NoStream /\ hint' = FALSE
  /\ UNCHANGED <<rev, publishing, rules, client, edits, failures, drops>>

\* The daemon is killed and started again, with what it has stored.
Launch ==
  /\ launches < MaxLaunches /\ launches' = launches + 1
  /\ StartAgain /\ UNCHANGED massive

\* Somebody looked into it and starts the daemon with a higher limit.
LetPass ==
  /\ massive # 0 /\ massive' = 0
  /\ StartAgain /\ UNCHANGED launches

Subscribing == Connect \/ Subscribe \/ Greet

CycleStep == \/ BeginCycle \/ LoadRules \/ LoadVersion \/ KeepRules \/ StoreRules \/ StoreVersion
             \/ Pull \/ Record \/ Pause \/ Push \/ EndCycle

Environment == \/ Commit \/ SaveRules \/ Edit \/ EditUnnoticed
               \/ Drop \/ ServerRestart \/ FetchFails \/ CycleFails \/ Launch \/ LetPass

EventNext == \/ Environment \/ Publish \/ Subscribing \/ Announce
             \/ Settled \/ LocalRequest \/ EventRequest \/ Tick \/ CycleStep

(***************************************************************************)
(* Goroutines run, requests are answered, a client that lost its stream    *)
(* connects again.  Of the poll's ticker only PollingSuffices asks.        *)
(***************************************************************************)
EventFairness ==
  /\ WF_eventVars(Publish) /\ WF_eventVars(Subscribing) /\ WF_eventVars(Announce)
  /\ WF_eventVars(Settled) /\ WF_eventVars(LocalRequest) /\ WF_eventVars(EventRequest)
  /\ WF_eventVars(CycleStep)

EventSpec == EventInit /\ [][EventNext]_eventVars /\ EventFairness

----------------------------------------------------------------------------
(***************************************************************************)
(* A version is stored no sooner than its rules: a client that has the     *)
(* newest version, after which it never fetches them again, filters by the *)
(* newest rules, though it may be killed between the two writes.           *)
(***************************************************************************)
VersionTrue == client.version = rules => client.rules = rules

UpToDate == client.synced = rev /\ client.pushed = edits

\* The guard stops every cycle until somebody lets the deletions pass.
Paused == client.synced < massive

(***************************************************************************)
(* Events may be coalesced, delayed or dropped without any risk of a       *)
(* missed update (PROTOCOL.md, at /v1/events): unless a cycle failed, an   *)
(* edit went unnoticed or the stream was opened without the greeting, a    *)
(* client that is not paused catches up without its poll.                  *)
(***************************************************************************)
EventsSuffice == <>[](failures > 0 \/ Paused \/ UpToDate)

(***************************************************************************)
(* Polling is the backstop: with the ticker, whatever failed, the client   *)
(* filters by the rules that were saved last, paused or not, and catches   *)
(* up unless it stays paused.  (A paused cycle is tried again at every     *)
(* tick, though main.go:206 has it "not retried on a timer": the branch    *)
(* only passes over the warning.  Were it so, a client whose deletions     *)
(* have become plausible would wait for an event to go on.)                *)
(***************************************************************************)
PollingSuffices ==
  WF_eventVars(Tick) => <>[](client.rules = rules /\ (Paused \/ UpToDate))

(***************************************************************************)
(* A rule added on one Mac takes effect everywhere (PROTOCOL.md:345-346):  *)
(* with the poll, the rules saved last become those of the client.         *)
(***************************************************************************)
RulesReachEveryone == WF_eventVars(Tick) => <>[](client.rules = rules)
=============================================================================
