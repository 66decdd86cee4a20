----------------------------- MODULE Scheduler -----------------------------
(***************************************************************************)
(* The loop that starts scheduled backups (Manager.Run, Save and wake in   *)
(* backup/manager.go) and the requests that change its configuration.  The *)
(* loop reads the configuration, computes when it fires next and sleeps    *)
(* until then or until it is woken; while a backup runs it sees nothing.   *)
(***************************************************************************)
EXTENDS Cron

CONSTANTS
  Configs,   \* the configurations that are saved: enabled, and a spec
  MaxSaves   \* bound: how often the configuration is saved

ASSUME ConfigsAssumption ==
  /\ \A c \in Configs : c.enabled \in BOOLEAN /\ DOMAIN c.spec = Fields
  /\ MaxSaves \in Nat

VARIABLES
  now,      \* the minute of the clock
  document, \* the configuration in the meta table
  cfg,      \* the one in memory
  reload,   \* the channel of one that wakes the loop
  saving,   \* where the request that saves is
  loop,     \* where the loop is, what it waits with and since when
  fired,    \* the minute the last scheduled backup was meant for
  saves

schedulerVars == <<now, document, cfg, reload, saving, loop, fired, saves>>

SchedulerTypeOK ==
  /\ now \in Minutes
  /\ document \in Configs /\ cfg \in Configs
  /\ reload \in BOOLEAN
  /\ saving \in [at : {"idle", "set", "wake"}, cfg : Configs]
  /\ loop \in [at : {"top", "arm", "wait", "run"}, cfg : Configs,
              since : 0 .. LastMinute, until : 0 .. LastMinute]
  /\ fired \in 0 .. LastMinute
  /\ saves \in 0 .. MaxSaves

SchedulerInit ==
  /\ now = 1
  /\ document \in Configs /\ cfg = document
  /\ reload = FALSE
  /\ saving = [at |-> "idle", cfg |-> document]
  /\ loop = [at |-> "top", cfg |-> document, since |-> 0, until |-> Never]
  /\ fired = Never /\ saves = 0

\* The clock goes on, whatever the others do.
Pass ==
  /\ now < LastMinute /\ now' = now + 1
  /\ UNCHANGED <<document, cfg, reload, saving, loop, fired, saves>>

\* Save, one request at a time: SaveConfig, or an error and nothing else happens.
SaveConfig(c) ==
  /\ saving.at = "idle" /\ saves < MaxSaves
  /\ document' = c /\ saving' = [at |-> "set", cfg |-> c]
  /\ saves' = saves + 1
  /\ UNCHANGED <<now, cfg, reload, loop, fired>>

SetConfig ==
  /\ saving.at = "set"
  /\ cfg' = saving.cfg /\ saving' = [saving EXCEPT !.at = "wake"]
  /\ UNCHANGED <<now, document, reload, loop, fired, saves>>

\* A channel without a buffer: nobody hears it while the loop is busy.
MutWake ==
  /\ saving.at = "wake"
  /\ reload' = (reload \/ loop.at = "wait") /\ saving' = [saving EXCEPT !.at = "idle"]
  /\ UNCHANGED <<now, document, cfg, loop, fired, saves>>

\* A reload that is already pending is enough.
Wake ==
  /\ saving.at = "wake"
  /\ reload' = TRUE /\ saving' = [saving EXCEPT !.at = "idle"]
  /\ UNCHANGED <<now, document, cfg, loop, fired, saves>>

ReadConfig ==
  /\ loop.at = "top"
  /\ loop' = [loop EXCEPT !.at = "arm", !.cfg = cfg]
  /\ UNCHANGED <<now, document, cfg, reload, saving, fired, saves>>

\* A disabled job and one whose expression does not parse wait for a reload alone.
Arm ==
  /\ loop.at = "arm"
  /\ loop' = [loop EXCEPT !.at = "wait", !.since = now,
               !.until = IF loop.cfg.enabled /\ Parses(loop.cfg.spec)
                         THEN NextFiring(loop.cfg.spec, now) ELSE Never]
  /\ UNCHANGED <<now, document, cfg, reload, saving, fired, saves>>

Reload ==
  /\ loop.at = "wait" /\ reload
  /\ reload' = FALSE /\ loop' = [loop EXCEPT !.at = "top", !.since = 0, !.until = Never]
  /\ UNCHANGED <<now, document, cfg, saving, fired, saves>>

\* The timer has run out, perhaps a while ago: the machine may have slept.
Fire ==
  /\ loop.at = "wait" /\ loop.until # Never /\ loop.until <= now
  /\ fired' = loop.until
  /\ loop' = [loop EXCEPT !.at = "run", !.since = 0, !.until = Never]
  /\ UNCHANGED <<now, document, cfg, reload, saving, saves>>

\* runOnce, which may refuse, or take minutes.
RunOver ==
  /\ loop.at = "run"
  /\ loop' = [loop EXCEPT !.at = "top"]
  /\ UNCHANGED <<now, document, cfg, reload, saving, fired, saves>>

SchedulerStep == SetConfig \/ Wake \/ ReadConfig \/ Arm \/ Reload \/ RunOver

SchedulerNext == Pass \/ SchedulerStep \/ Fire \/ \E c \in Configs : SaveConfig(c)

----------------------------------------------------------------------------
(***************************************************************************)
(* The loop waits for the first minute that matches after the one it       *)
(* looked at the clock in: no minute that matches goes by while it sleeps, *)
(* it never fires at one that does not, and at none twice.                 *)
(***************************************************************************)
Wanted(c, t) == c.enabled /\ Parses(c.spec) /\ Matches(c.spec, t)

FiresOnTime ==
  loop.at = "wait" =>
    /\ loop.until # Never => Wanted(loop.cfg, loop.until) /\ loop.until > fired
    /\ \A t \in Minutes :
         loop.since < t /\ t <= loop.since + Span /\ (loop.until = Never \/ t < loop.until)
           => ~Wanted(loop.cfg, t)

(***************************************************************************)
(* A new schedule takes effect immediately instead of after the pending    *)
(* timer (manager.go, at reload): in the end the loop waits with what was  *)
(* saved last, whatever it was doing at the time.                          *)
(***************************************************************************)
InEffect == loop.cfg = document

TakesEffect == <>[]InEffect
=============================================================================
