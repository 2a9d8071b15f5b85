------------------------------ MODULE Component ------------------------------
(***************************************************************************)
(* One component of the supervisor (the web app or the inference worker):  *)
(* the task Supervisor._loop of supervisor/core.py, its child process, and *)
(* the operations of the control socket, which run between any two awaits  *)
(* of the task.  Time is not counted: a timer may fire whenever it is set. *)
(***************************************************************************)
EXTENDS Naturals

CONSTANTS MaxFast,        \* ComponentSpec.max_fast_crashes
          ProbeFailures,  \* ComponentSpec.probe_failures
          MaxSaves        \* bound: how often the settings change in a run

ASSUME ComponentAssumption == /\ MaxFast \in Nat \ {0}
                              /\ ProbeFailures \in Nat \ {0}
                              /\ MaxSaves \in Nat

VARIABLES
  pc,          \* the await the task is at
  desired, state, crashes, restartReq, wake, \* fields of _Component
  fails,       \* consecutive failed probes of this child
  reason,      \* why _run_once ends
  stopping,    \* Supervisor._stopping
  child,       \* the child process
  age,         \* how long the child is there
  saved,       \* version of the saved settings the child is started with
  plan,        \* the version prepare read for the last child
  asked,       \* the version saved when the last restart was asked for
  attempts     \* spawns since the last start, restart or stable run

flags   == <<desired, crashes, restartReq>>
config  == <<saved, asked>>
vars    == <<pc, desired, state, crashes, restartReq, wake, fails, reason,
             stopping, child, age, saved, plan, asked, attempts>>

-----------------------------------------------------------------------------
(* Slips: a tick that forgets to look for a stop, or for a restart.        *)
WantsOutNoStop == stopping \/ restartReq
WantsOutNoRestart == stopping \/ desired # "running"

(* The task wants its child gone: the checks of each tick, in their order. *)
WantsOut == stopping \/ desired # "running" \/ restartReq

Init ==
  /\ pc = "top" /\ desired = "running" /\ state = "stopped" /\ crashes = 0
  /\ restartReq = FALSE /\ wake = FALSE /\ fails = 0 /\ reason = "none"
  /\ stopping = FALSE /\ child = "none" /\ age = "early"
  /\ saved = 0 /\ plan = 0 /\ asked = 0 /\ attempts = 0

-----------------------------------------------------------------------------
(* The task.  pc = "top" is the head of the loop, where nothing is awaited:*)
(* an operation there is one that came just before the task woke.          *)

(* What the loop makes of a child that is gone.  ran is "early" if it did  *)
(* not live for stable_after; a component that keeps dying early is given  *)
(* up, one that does not is started again after a backoff.                 *)
Account(why, ran) ==
  LET n == IF ran = "early" THEN crashes + 1 ELSE 0 IN
  IF stopping \/ desired # "running" \/ why = "requested"
  THEN /\ pc' = "top"
       /\ UNCHANGED <<crashes, state, desired>>
  ELSE /\ crashes' = n
       /\ IF n >= MaxFast
          THEN pc' = "parked" /\ state' = "failed" /\ desired' = "failed"
          ELSE pc' = "backoff" /\ state' = "backoff" /\ UNCHANGED desired

(* A component that should not run is parked until somebody wakes it.      *)
Park ==
  /\ pc = "top" /\ ~stopping /\ desired # "running"
  /\ pc' = "parked"
  /\ state' = IF desired = "failed" THEN "failed" ELSE "stopped"
  /\ UNCHANGED <<flags, wake, fails, reason, stopping, child, age, config,
                 plan, attempts>>

(* prepare reads the settings, then the child is forked; the task awaits   *)
(* the pipes of the new process.                                           *)
Fork ==
  /\ pc = "top" /\ ~stopping /\ desired = "running"
  /\ pc' = "spawning"
  /\ plan' = saved
  /\ child' = "alive"
  /\ attempts' = attempts + 1
  /\ UNCHANGED <<flags, state, wake, fails, reason, stopping, age, config>>

(* prepare or the fork raised. *)
ForkFails ==
  /\ pc = "top" /\ ~stopping /\ desired = "running"
  /\ attempts' = attempts + 1
  /\ age' = "early"
  /\ reason' = "spawn_failed"
  /\ Account("spawn_failed", "early")
  /\ UNCHANGED <<restartReq, wake, fails, stopping, child, config, plan>>

Spawned ==
  /\ pc = "spawning"
  /\ pc' = "watch"
  /\ state' = "starting" /\ age' = "early" /\ fails' = 0 /\ reason' = "exited"
  /\ restartReq' = FALSE
  /\ UNCHANGED <<desired, crashes, wake, stopping, child, config, plan,
                 attempts>>

SeesExit ==
  /\ pc = "watch" /\ child = "dead"
  /\ pc' = "settle" /\ wake' = FALSE
  /\ UNCHANGED <<flags, state, fails, reason, stopping, child, age, config,
                 plan, attempts>>

SeesRequest ==
  /\ pc = "watch" /\ child = "alive" /\ WantsOut
  /\ pc' = "terminate" /\ reason' = "requested" /\ wake' = FALSE
  /\ UNCHANGED <<flags, state, fails, stopping, child, age, config, plan,
                 attempts>>

Probe ==
  /\ pc = "watch" /\ child = "alive" /\ ~WantsOut
  /\ pc' = "probing" /\ wake' = FALSE
  /\ UNCHANGED <<flags, state, fails, reason, stopping, child, age, config,
                 plan, attempts>>

(* Slip: a child that became ready clears the crash counter.               *)
ProbeOkForgives ==
  /\ pc = "probing"
  /\ pc' = "watch" /\ fails' = 0 /\ state' = "ready" /\ crashes' = 0
  /\ UNCHANGED <<desired, restartReq, wake, reason, stopping, child, age,
                 config, plan, attempts>>

ProbeOk ==
  /\ pc = "probing"
  /\ pc' = "watch" /\ fails' = 0 /\ state' = "ready"
  /\ UNCHANGED <<flags, wake, reason, stopping, child, age, config, plan,
                 attempts>>

(* Slip: one failed probe more than probe_failures.                        *)
ProbeBadLate ==
  /\ pc = "probing" /\ state # "starting"
  /\ fails' = fails + 1
  /\ IF fails' > ProbeFailures
     THEN pc' = "terminate" /\ state' = "unhealthy" /\ reason' = "unhealthy"
     ELSE pc' = "watch" /\ UNCHANGED <<state, reason>>
  /\ UNCHANGED <<flags, wake, stopping, child, age, config, plan, attempts>>

(* Slip: a starting child is given all the time it wants.                  *)
ProbeBadPatient ==
  /\ pc = "probing"
  /\ pc' = "watch"
  /\ UNCHANGED <<flags, state, wake, fails, reason, stopping, child, age,
                 config, plan, attempts>>

(* A failed probe only counts once the child was ready; before that it has *)
(* start_timeout (longer than stable_after) to come up.                    *)
ProbeBad ==
  /\ pc = "probing"
  /\ IF state = "starting"
     THEN /\ IF age = "overdue"
             THEN pc' = "terminate" /\ reason' = "start_timeout"
             ELSE pc' = "watch" /\ UNCHANGED reason
          /\ UNCHANGED <<fails, state>>
     ELSE /\ fails' = fails + 1
          /\ IF fails' >= ProbeFailures
             THEN pc' = "terminate" /\ state' = "unhealthy"
                                    /\ reason' = "unhealthy"
             ELSE pc' = "watch" /\ UNCHANGED <<state, reason>>
  /\ UNCHANGED <<flags, wake, stopping, child, age, config, plan, attempts>>

(* Slip: the signal is sent and the exit not awaited.                      *)
TerminateNoWait ==
  /\ pc = "terminate"
  /\ pc' = "settle"
  /\ UNCHANGED <<flags, state, wake, fails, reason, stopping, child, age,
                 config, plan, attempts>>

(* SIGTERM to the process group, SIGKILL after the grace: reaped.          *)
Terminate ==
  /\ pc = "terminate"
  /\ child' = "dead"
  /\ pc' = "settle"
  /\ UNCHANGED <<flags, state, wake, fails, reason, stopping, age, config,
                 plan, attempts>>

(* The output is drained, the exit recorded. *)
Settle ==
  /\ pc = "settle"
  /\ Account(reason, age)
  /\ attempts' = IF pc' # "top" /\ age # "early" THEN 0 ELSE attempts
  /\ UNCHANGED <<restartReq, wake, fails, reason, stopping, child, age,
                 config, plan>>

(* _sleep: the wake-up, or the end of the backoff. *)
Wakes ==
  /\ pc \in {"parked", "backoff"}
  /\ wake \/ pc = "backoff"
  /\ pc' = "top" /\ wake' = FALSE
  /\ UNCHANGED <<flags, state, fails, reason, stopping, child, age, config,
                 plan, attempts>>

Finish ==
  /\ pc = "top" /\ stopping
  /\ pc' = "done" /\ state' = "stopped"
  /\ UNCHANGED <<flags, wake, fails, reason, stopping, child, age, config,
                 plan, attempts>>

Loop == \/ Park \/ Fork \/ ForkFails \/ Spawned \/ SeesExit \/ SeesRequest
        \/ Probe \/ ProbeOk \/ ProbeBad \/ Terminate \/ Settle \/ Wakes
        \/ Finish

-----------------------------------------------------------------------------
(* The control socket. *)

(* Slip: the new wish is stored and the task left asleep.                  *)
StartNoWake ==
  /\ pc # "done"
  /\ desired' = "running" /\ crashes' = 0 /\ attempts' = 0
  /\ UNCHANGED <<pc, state, restartReq, wake, fails, reason, stopping, child,
                 age, config, plan>>

Start ==
  /\ pc # "done"
  /\ desired' = "running" /\ crashes' = 0 /\ wake' = TRUE /\ attempts' = 0
  /\ UNCHANGED <<pc, state, restartReq, fails, reason, stopping, child, age,
                 config, plan>>

Stop ==
  /\ pc # "done"
  /\ desired' = "stopped" /\ wake' = TRUE
  /\ UNCHANGED <<pc, state, crashes, restartReq, fails, reason, stopping,
                 child, age, config, plan, attempts>>

Restart ==
  /\ pc # "done"
  /\ desired' = "running" /\ crashes' = 0 /\ restartReq' = TRUE
  /\ wake' = TRUE /\ attempts' = 0
  /\ asked' = saved
  /\ UNCHANGED <<pc, state, fails, reason, stopping, child, age, saved, plan>>

(* Slip: the flag is set and the tasks left asleep.                        *)
ShutdownNoWake ==
  /\ ~stopping
  /\ stopping' = TRUE
  /\ UNCHANGED <<pc, flags, state, wake, fails, reason, child, age, config,
                 plan, attempts>>

(* The jobs are down: now the components. *)
Shutdown ==
  /\ ~stopping
  /\ stopping' = TRUE /\ wake' = TRUE
  /\ UNCHANGED <<pc, flags, state, fails, reason, child, age, config, plan,
                 attempts>>

-----------------------------------------------------------------------------
(* The surroundings. *)

ChildDies ==
  /\ child = "alive"
  /\ child' = "dead"
  /\ UNCHANGED <<pc, flags, state, wake, fails, reason, stopping, age, config,
                 plan, attempts>>

(* The child has lived for stable_after, then for start_timeout. *)
Ages ==
  /\ child = "alive" /\ pc # "spawning" /\ age # "overdue"
  /\ age' = IF age = "early" THEN "stable" ELSE "overdue"
  /\ UNCHANGED <<pc, flags, state, wake, fails, reason, stopping, child,
                 config, plan, attempts>>

(* Settings -> Access & network is saved. *)
Save ==
  /\ saved < MaxSaves
  /\ saved' = saved + 1
  /\ UNCHANGED <<pc, flags, state, wake, fails, reason, stopping, child, age,
                 plan, asked, attempts>>

Next == Loop \/ Start \/ Stop \/ Restart \/ Shutdown \/ ChildDies \/ Ages \/ Save

Spec == Init /\ [][Next]_vars

(* The event loop runs the task: every await of it ends (the probe and the *)
(* reaping are bounded in time) and time passes.  Nobody has to operate    *)
(* the component, and a healthy child may live for ever.                   *)
FairSpec == Spec /\ WF_vars(Loop) /\ WF_vars(Ages)

-----------------------------------------------------------------------------
FlagsOK == restartReq \in BOOLEAN /\ wake \in BOOLEAN /\ stopping \in BOOLEAN

FieldsOK ==
  /\ pc \in {"top", "spawning", "watch", "probing", "terminate", "settle",
             "parked", "backoff", "done"}
  /\ desired \in {"running", "stopped", "failed"}
  /\ state \in {"stopped", "starting", "ready", "unhealthy", "backoff", "failed"}
  /\ crashes \in 0..MaxFast /\ fails \in 0..ProbeFailures
  /\ reason \in {"none", "exited", "requested", "spawn_failed",
                 "start_timeout", "unhealthy"}
  /\ child \in {"none", "alive", "dead"}
  /\ age \in {"early", "stable", "overdue"}
  /\ saved \in 0..MaxSaves /\ plan \in 0..saved /\ asked \in 0..saved
  /\ attempts \in Nat

(* Every variable has its type; the crash counter and the count of failed  *)
(* probes stay within their limits.                                        *)
TypeOK == FlagsOK /\ FieldsOK

(* A component has one child at most, and none when its task rests: before *)
(* it forks again, while it waits to, and whenever fts status calls it     *)
(* stopped, failed or in backoff (but for the moment of the fork itself).  *)
IdleIsDown ==
  /\ pc \in {"top", "parked", "backoff", "done"} => child # "alive"
  /\ state \in {"stopped", "failed", "backoff"} /\ pc # "spawning"
       => child # "alive"

(* However its failures, requests and timers fall, a component is started  *)
(* max_fast_crashes times at most before somebody has to ask for more or   *)
(* one child has lived long enough.                                        *)
CrashLoopBounded == attempts <= MaxFast

(* "A changed Settings -> Access & network applies with fts restart web"   *)
(* (supervisor/__main__.py:41): once no restart is pending, the child that *)
(* runs was started with the settings of the last restart or later ones.   *)
RestartApplies ==
  pc \in {"watch", "probing"} /\ ~restartReq => plan >= asked

(* A stop is obeyed in every state the task can be in, unless somebody     *)
(* starts the component again first.                                       *)
StopStops ==
  desired = "stopped" ~> \/ desired # "stopped"
                         \/ pc \in {"parked", "done"} /\ child # "alive"

(* A restart asked for at any moment but during a spawn gets the component *)
(* a child that is forked after it, whatever crash, backoff or parking is  *)
(* under way: unless somebody stops the component, the supervisor goes     *)
(* down or the fork fails.  (During a spawn: RestartApplies.)              *)
RestartServed ==
  restartReq /\ pc # "spawning" ~>
    \/ pc = "spawning"
    \/ desired = "stopped" \/ stopping \/ reason = "spawn_failed"

(* No component is left starting for ever, it is ready or its child gone;  *)
(* and a start gets the task out of its rest: no wake-up is lost.          *)
StartingEnds ==
  /\ state = "starting" ~> state # "starting" \/ child # "alive"
  /\ pc = "parked" /\ desired = "running" ~> pc # "parked"

(* A supervisor that shuts down ends every component's task, its child     *)
(* with it.                                                                *)
ShutdownEnds == stopping ~> pc = "done" /\ child # "alive"
=============================================================================
