------------------------------- MODULE Parts -------------------------------
(***************************************************************************)
(* Five parts of the system, of which one at a time moves: when backups    *)
(* are made (Scheduler), which of them stay (Thinning), files sealed at    *)
(* rest (Volume), the stream that tells clients when to sync (EventStream) *)
(* and a client catching up (Changes).  The subject is chosen at the start *)
(* and the others stay at rest.                                            *)
(***************************************************************************)
EXTENDS Scheduler, Volume, EventStream, Thinning, Changes

VARIABLE subject

vars == <<subject, schedulerVars, volumeVars, eventVars, thinningVars, changesVars>>

TypeOK == SchedulerTypeOK /\ EventTypeOK

Init ==
  /\ subject \in {"schedule", "volume", "events", "retention", "changes"}
  /\ SchedulerInit /\ VolumeInit /\ EventInit /\ ThinningInit /\ ChangesInit

Next ==
  /\ UNCHANGED subject
  /\ \/ /\ subject = "schedule" /\ SchedulerNext
        /\ UNCHANGED <<volumeVars, eventVars, thinningVars, changesVars>>
     \/ /\ subject = "volume" /\ VolumeNext
        /\ UNCHANGED <<schedulerVars, eventVars, thinningVars, changesVars>>
     \/ /\ subject = "events" /\ EventNext
        /\ UNCHANGED <<schedulerVars, volumeVars, thinningVars, changesVars>>
     \/ /\ subject = "retention" /\ ThinningNext
        /\ UNCHANGED <<schedulerVars, volumeVars, eventVars, changesVars>>
     \/ /\ subject = "changes" /\ ChangesNext
        /\ UNCHANGED <<schedulerVars, volumeVars, eventVars, thinningVars>>

(***************************************************************************)
(* The poll timer starts a pull over and over, and one that is not given   *)
(* up goes on to its end; nothing makes the server write.                  *)
(***************************************************************************)
PullFairness == WF_changesVars(subject = "changes" /\ PullStep)

\* EventFairness, of a stream that may be at rest.
StreamFairness ==
  /\ WF_eventVars(subject = "events" /\ Publish)
  /\ WF_eventVars(subject = "events" /\ Subscribing)
  /\ WF_eventVars(subject = "events" /\ Announce)
  /\ WF_eventVars(subject = "events" /\ Settled)
  /\ WF_eventVars(subject = "events" /\ LocalRequest)
  /\ WF_eventVars(subject = "events" /\ EventRequest)
  /\ WF_eventVars(subject = "events" /\ CycleStep)

Fairness ==
  /\ WF_schedulerVars(subject = "schedule" /\ SchedulerStep)
  /\ PullFairness /\ StreamFairness

Spec == Init /\ [][Next]_vars /\ Fairness
=============================================================================
