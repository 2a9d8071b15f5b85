-------------------------------- MODULE Jobs --------------------------------
(***************************************************************************)
(* Long jobs as processes of their own: jobs/launch.py (the web side),     *)
(* supervisor/jobs.py JobTable (the owner), jobs/runner.py (the process)   *)
(* and the files of jobs/store.py they share.                              *)
(*                                                                         *)
(* Every launch is a thread of the web app; every accepted POST /v1/jobs   *)
(* is a coroutine of the supervisor, which other coroutines overtake at    *)
(* each await; every job process is on its own.  The supervisor and the    *)
(* web app may die between any two steps, the job processes outlive both.  *)
(***************************************************************************)
CONSTANTS Jobs,      \* job ids; store.new_id makes each launch a fresh one
          GpuJobs,   \* the jobs whose spec says gpu
          Readers,   \* who describes jobs: pages, launches, watcher, CLI
          Overlap    \* may a GPU launch begin while another one is between
                     \* its GPU check and the start of its runner?

ASSUME JobsAssumption == /\ GpuJobs \subseteq Jobs
                         /\ Overlap \in BOOLEAN

VARIABLES
  launch,    \* launch[j]: where the web thread in launch.start is
  look,      \* look[r][j]: how far reader r is in describe(j)
  spec,      \* jobs with a spec.json
  pid,       \* jobs with a pid file
  released,  \* jobs with a gpu_released file
  exit,      \* exit[j]: exit.json
  req,       \* req[j]: where the supervisor coroutine in JobTable.start is
  table,     \* table[j]: JobTable._jobs and what it knows of the process
  stopReq,   \* jobs whose entry has stop_requested
  proc,      \* proc[j]: the job process
  term,      \* job processes whose ctx.stop is set
  sup,       \* the supervisor process
  awaited    \* the entries JobTable.shutdown waits for

webVars  == <<launch, look>>
fileVars == <<spec, pid, released, exit>>
supVars  == <<req, table, stopReq, sup, awaited>>
procVars == <<proc, term>>
vars     == <<launch, look, spec, pid, released, exit, req, table, stopReq,
              proc, term, sup, awaited>>

-----------------------------------------------------------------------------
(* Exit records: who wrote it and what it says. *)
NoExit   == [by |-> "nobody", status |-> "none"]
Record(by, status) == [by |-> by, status |-> status]
RunnerRecords == {Record("runner", s) : s \in {"done", "failed", "stopped"}}
Guesses  == {Record("supervisor", "stopped"), Record("supervisor", "crashed"),
             Record("describe", "crashed"), Record("launcher", "failed")}
Records  == RunnerRecords \cup Guesses

InFlight == {"checked", "written", "posted"}
Starting == {"queued", "unloading", "forking", "forked"}
SupDown  == sup \in {"down", "crashed"}

Alive(j) == proc[j] \in {"booting", "failing", "running", "exiting"}

(* The job may have its model on the GPU. *)
Holds(j) == j \in GpuJobs /\ Alive(j) /\ j \notin released

(* The pid file of j is not there, or may be read empty: the supervisor     *)
(* and then the runner write it in place.                                  *)
PidUnsettled(j) == j \notin pid \/ proc[j] = "booting" \/ req[j] = "forked"

(* A GPU launch past its GPU check that a reader of the files may miss.    *)
InWindow(j) == /\ j \in GpuJobs /\ PidUnsettled(j)
               /\ launch[j] \in InFlight \/ req[j] \in Starting \/ Alive(j)

(* Slip: a job counts as running only while this supervisor knows it.      *)
SeenOfTable == {j \in pid : table[j] = "live" /\ Alive(j)}

(* What list_jobs reads as running whatever its timing.  A process that    *)
(* has just been forked or killed may be read either way                   *)
(* (STARTING_GRACE_S).                                                     *)
SeenRunning == {j \in pid : Alive(j) /\ ~PidUnsettled(j)}

(* The supervisor's guess about a process that left no record.             *)
Guess(j) == Record("supervisor", IF j \in stopReq THEN "stopped" ELSE "crashed")

(* The records of those who saw no exit.json (store.write_exit) and are    *)
(* about to put theirs there.                                              *)
Pending(j) ==
  {w \in Records :
     \/ table[j] = "writing" /\ w = Guess(j)
     \/ proc[j] = "failing" /\ w = Record("runner", "failed")
     \/ w = Record("describe", "crashed") /\ \E r \in Readers : look[r][j] = "writing"}

(* write_exit from its temp file on: os.replace, over whatever is there.   *)
(* The temp file has one name for all, so the record another writer is     *)
(* about to leave may be the one that gets there; or there is none any     *)
(* more, the call fails, and what is there stays.                          *)
Publish(j, r) ==
  \E w \in {r} \cup Pending(j) \cup ({exit[j]} \ {NoExit}) :
    exit' = [exit EXCEPT ![j] = w]

(* SIGTERM to the process groups of S: fatal before the runner has its     *)
(* handler, else it sets ctx.stop.                                         *)
Terminate(S) ==
  /\ proc' = [j \in Jobs |-> IF j \in S /\ proc[j] \in {"booting", "failing"}
                             THEN "dead" ELSE proc[j]]
  /\ term' = term \cup {j \in S : proc[j] = "running"}

-----------------------------------------------------------------------------
Init ==
  /\ launch = [j \in Jobs |-> "idle"]
  /\ look = [r \in Readers |-> [j \in Jobs |-> "idle"]]
  /\ spec = {} /\ pid = {} /\ released = {}
  /\ exit = [j \in Jobs |-> NoExit]
  /\ req = [j \in Jobs |-> "none"]
  /\ table = [j \in Jobs |-> "absent"]
  /\ stopReq = {} /\ term = {} /\ awaited = {}
  /\ proc = [j \in Jobs |-> "none"]
  /\ sup \in {"up", "down"}

-----------------------------------------------------------------------------
(* The web app: launch.start, one step per point where others can get in.  *)

(* The GPU check.  A busy GPU answers 409 before anything of j is written, *)
(* so the same id may stand for the next try.  The listing it reads        *)
(* describes each job; what that may write is the steps of a reader below. *)
LaunchCheck(j) ==
  /\ launch[j] = "idle"
  /\ j \in GpuJobs => /\ Overlap \/ \A k \in GpuJobs : ~InWindow(k)
                      /\ SeenRunning \cap GpuJobs \subseteq released
  /\ launch' = [launch EXCEPT ![j] = "checked"]
  /\ UNCHANGED <<look, fileVars, supVars, procVars>>

(* Slip: the launch is posted before its spec.json is there.               *)
LaunchNoSpec(j) ==
  /\ launch[j] = "checked"
  /\ launch' = [launch EXCEPT ![j] = "written"]
  /\ UNCHANGED <<look, fileVars, supVars, procVars>>

LaunchSpec(j) ==
  /\ launch[j] = "checked"
  /\ launch' = [launch EXCEPT ![j] = "written"]
  /\ spec' = spec \cup {j}
  /\ UNCHANGED <<look, pid, released, exit, supVars, procVars>>

LaunchPost(j) ==
  /\ launch[j] = "written" /\ ~SupDown
  /\ launch' = [launch EXCEPT ![j] = "posted"]
  /\ req' = [req EXCEPT ![j] = "queued"]
  /\ UNCHANGED <<look, fileVars, table, stopReq, sup, awaited, procVars>>

(* No supervisor: a detached runner. *)
LaunchDetached(j) ==
  /\ launch[j] = "written" /\ SupDown
  /\ launch' = [launch EXCEPT ![j] = "ok"]
  /\ proc' = [proc EXCEPT ![j] = "booting"]
  /\ pid' = pid \cup {j}
  /\ UNCHANGED <<look, spec, released, exit, supVars, term>>

LaunchOk(j) ==
  /\ launch[j] = "posted" /\ req[j] = "registered"
  /\ launch' = [launch EXCEPT ![j] = "ok"]
  /\ UNCHANGED <<look, fileVars, supVars, procVars>>

(* SupervisorError: the refusal becomes the job's exit record.  Nobody     *)
(* else writes one: there is no process and no pid file.                   *)
LaunchRejected(j) ==
  /\ launch[j] = "posted" /\ req[j] = "refused"
  /\ launch' = [launch EXCEPT ![j] = "rejected"]
  /\ exit' = [exit EXCEPT ![j] = IF @ = NoExit
                              THEN Record("launcher", "failed") ELSE @]
  /\ UNCHANGED <<look, spec, pid, released, supVars, procVars>>

(* SupervisorUnavailable leaves launch.start uncaught, with no record: the *)
(* supervisor died, or its 60 s unload outlasts the client's 30 s.         *)
LaunchRaised(j) ==
  /\ launch[j] = "posted"
  /\ req[j] = "none" \/ (j \in GpuJobs /\ req[j] \in Starting \ {"queued"})
  /\ launch' = [launch EXCEPT ![j] = "raised"]
  /\ UNCHANGED <<look, fileVars, supVars, procVars>>

(* The web process dies or is restarted with launches in flight. *)
WebCrash ==
  /\ \E j \in Jobs : launch[j] \in InFlight
  /\ launch' = [j \in Jobs |-> IF launch[j] \in InFlight THEN "lost"
                               ELSE launch[j]]
  /\ UNCHANGED <<look, fileVars, supVars, procVars>>

(* launch.describe, the reading half: not alive, to pid_alive and          *)
(* _starting.  A job that has its record by then is left alone.            *)
LookMisses(r, j) ==
  /\ look[r][j] = "idle" /\ j \in spec /\ exit[j] = NoExit
  /\ j \notin SeenRunning
  /\ look' = [look EXCEPT ![r][j] = "missed"]
  /\ UNCHANGED <<launch, fileVars, supVars, procVars>>

(* Slip: "crashed" is written whatever is there by then.                   *)
LookGuessesAnyway(r, j) ==
  /\ look[r][j] = "missed" /\ j \in pid
  /\ look' = [look EXCEPT ![r][j] = "writing"]
  /\ UNCHANGED <<launch, fileVars, supVars, procVars>>

(* The rest of it: no record, a pid file by now, so "crashed"; and no      *)
(* record to write_exit either.  What is absent here was absent before,    *)
(* and the pid file stays, so the three looks are one.                     *)
LookGuesses(r, j) ==
  /\ look[r][j] = "missed" /\ exit[j] = NoExit /\ j \in pid
  /\ look' = [look EXCEPT ![r][j] = "writing"]
  /\ UNCHANGED <<launch, fileVars, supVars, procVars>>

LookRecords(r, j) ==
  /\ look[r][j] = "writing"
  /\ look' = [look EXCEPT ![r][j] = "idle"]
  /\ Publish(j, Record("describe", "crashed"))
  /\ UNCHANGED <<launch, spec, pid, released, supVars, procVars>>

(* Nothing to write, or the reader's process ends first. *)
LookEnds(r, j) ==
  /\ look[r][j] # "idle"
  /\ look' = [look EXCEPT ![r][j] = "idle"]
  /\ UNCHANGED <<launch, fileVars, supVars, procVars>>

(* launch.stop when the supervisor is down or answers 404: SIGTERM only.   *)
StopDirect(j) ==
  /\ SupDown \/ table[j] = "absent"
  /\ j \in pid /\ Alive(j)
  /\ Terminate({j})
  /\ UNCHANGED <<webVars, fileVars, supVars>>

-----------------------------------------------------------------------------
(* The supervisor: JobTable. *)

LeaseHolders == {k \in GpuJobs \ released : table[k] = "live"}

(* An id is posted once, so the "already running" return is never taken.   *)
SupStart(j) ==
  /\ req[j] = "queued"
  /\ req' = [req EXCEPT ![j] =
       IF j \in GpuJobs
       THEN IF LeaseHolders = {} THEN "unloading" ELSE "refused"
       ELSE "forking"]
  /\ UNCHANGED <<webVars, fileVars, table, stopReq, sup, awaited, procVars>>

(* The inference worker answered /v1/unload, or the call failed: either    *)
(* way the start goes on.                                                  *)
SupUnloaded(j) ==
  /\ req[j] = "unloading"
  /\ req' = [req EXCEPT ![j] = "forking"]
  /\ UNCHANGED <<webVars, fileVars, table, stopReq, sup, awaited, procVars>>

SupFork(j) ==
  /\ req[j] = "forking"
  /\ \/ /\ req' = [req EXCEPT ![j] = "forked"]
        /\ proc' = [proc EXCEPT ![j] = "booting"]
     \/ /\ req' = [req EXCEPT ![j] = "refused"]     \* OSError: answered 500
        /\ UNCHANGED proc
  /\ UNCHANGED <<webVars, fileVars, table, stopReq, sup, awaited, term>>

SupRegister(j) ==
  /\ req[j] = "forked"
  /\ req' = [req EXCEPT ![j] = "registered"]
  /\ table' = [table EXCEPT ![j] = "live"]
  /\ pid' = pid \cup {j}
  /\ UNCHANGED <<webVars, spec, released, exit, stopReq, sup, awaited, procVars>>

(* proc.returncode is set: the job no longer counts as running. *)
SupReap(j) ==
  /\ table[j] = "live" /\ proc[j] = "dead"
  /\ table' = [table EXCEPT ![j] = "reaped"]
  /\ UNCHANGED <<webVars, fileVars, req, stopReq, sup, awaited, procVars>>

(* _watch: write_exit looks for a record ... *)
SupFinds(j) ==
  /\ table[j] = "reaped"
  /\ table' = [table EXCEPT ![j] = IF exit[j] = NoExit THEN "writing"
                                   ELSE "recorded"]
  /\ UNCHANGED <<webVars, fileVars, req, stopReq, sup, awaited, procVars>>

(* ... and leaves its own for a process that left none. *)
SupRecord(j) ==
  /\ table[j] = "writing"
  /\ table' = [table EXCEPT ![j] = "recorded"]
  /\ Publish(j, Guess(j))
  /\ UNCHANGED <<webVars, spec, pid, released, req, stopReq, sup, awaited,
                 procVars>>

SupStop(j) ==
  /\ table[j] = "live"
  /\ stopReq' = stopReq \cup {j}
  /\ Terminate({j})
  /\ UNCHANGED <<webVars, fileVars, req, table, sup, awaited>>

(* Slip: the escalation timers are cancelled when the shutdown begins.     *)
EscalateWhileUp(j) ==
  /\ sup = "up"
  /\ table[j] = "live" /\ j \in stopReq /\ Alive(j)
  /\ proc' = [proc EXCEPT ![j] = "dead"]
  /\ UNCHANGED <<webVars, fileVars, supVars, term>>

(* SIGKILL stop_grace_s after the stop. *)
SupEscalate(j) ==
  /\ table[j] = "live" /\ j \in stopReq /\ Alive(j)
  /\ proc' = [proc EXCEPT ![j] = "dead"]
  /\ UNCHANGED <<webVars, fileVars, supVars, term>>

(* Slip: the shutdown sends SIGTERM and arms no escalation.                *)
DrainTermOnly ==
  LET running == {j \in Jobs : table[j] = "live"} IN
  /\ sup = "up"
  /\ sup' = "draining"
  /\ Terminate(running)
  /\ awaited' = {j \in Jobs : table[j] # "absent"}
  /\ UNCHANGED <<webVars, fileVars, req, table, stopReq>>

(* JobTable.shutdown up to its first await: stop what runs, then wait for  *)
(* the watchers of the entries there are.  The control socket goes on      *)
(* answering.                                                              *)
SupDrain ==
  LET running == {j \in Jobs : table[j] = "live"} IN
  /\ sup = "up"
  /\ sup' = "draining"
  /\ stopReq' = stopReq \cup running
  /\ Terminate(running)
  /\ awaited' = {j \in Jobs : table[j] # "absent"}
  /\ UNCHANGED <<webVars, fileVars, req, table>>

SupGone(how) ==
  /\ sup' = how
  /\ req' = [j \in Jobs |-> "none"]
  /\ table' = [j \in Jobs |-> "absent"]
  /\ stopReq' = {} /\ awaited' = {}
  /\ UNCHANGED <<webVars, fileVars, procVars>>

(* Slip: the shutdown waits for the processes, not for their watchers.     *)
ExitAtReap == /\ sup = "draining"
              /\ \A j \in awaited : table[j] \in {"reaped", "writing", "recorded"}
              /\ SupGone("down")

(* The watchers are done, the components are stopped, the process exits.   *)
SupExit == /\ sup = "draining"
           /\ \A j \in awaited : table[j] = "recorded"
           /\ SupGone("down")

SupCrash == ~SupDown /\ SupGone("crashed")

SupUp == /\ SupDown
         /\ sup' = "up"
         /\ UNCHANGED <<webVars, fileVars, req, table, stopReq, awaited,
                        procVars>>

-----------------------------------------------------------------------------
(* The job process: runner.main and runner.execute. *)

RunnerReady(j) ==
  /\ proc[j] = "booting"
  /\ proc' = [proc EXCEPT ![j] = "running"]
  /\ pid' = pid \cup {j}
  /\ UNCHANGED <<webVars, spec, released, exit, supVars, term>>

(* Unknown kind, broken spec or import error: exit code 2. *)
RunnerBadSpec(j) ==
  /\ proc[j] = "booting"
  /\ proc' = [proc EXCEPT ![j] = IF exit[j] = NoExit THEN "failing"
                                 ELSE "exiting"]
  /\ UNCHANGED <<webVars, fileVars, supVars, term>>

RunnerRecordsBad(j) ==
  /\ proc[j] = "failing"
  /\ proc' = [proc EXCEPT ![j] = "exiting"]
  /\ Publish(j, Record("runner", "failed"))
  /\ UNCHANGED <<webVars, spec, pid, released, supVars, term>>

(* The kind is past its GPU work. *)
RunnerReleaseGpu(j) ==
  /\ proc[j] = "running" /\ j \in GpuJobs
  /\ released' = released \cup {j}
  /\ UNCHANGED <<webVars, spec, pid, exit, supVars, procVars>>

(* The kind returned, stopped or raised: its record overwrites any guess   *)
(* that is there by then.                                                  *)
RunnerEnd(j) ==
  /\ proc[j] = "running"
  /\ proc' = [proc EXCEPT ![j] = "exiting"]
  /\ \E r \in RunnerRecords : /\ r.status = "stopped" => j \in term
                              /\ Publish(j, r)
  /\ UNCHANGED <<webVars, spec, pid, released, supVars, term>>

ProcExit(j) ==
  /\ proc[j] = "exiting"
  /\ proc' = [proc EXCEPT ![j] = "dead"]
  /\ UNCHANGED <<webVars, fileVars, supVars, term>>

(* Out of memory, a native crash, the unit's cgroup being killed. *)
ProcDies(j) ==
  /\ proc[j] \in {"booting", "failing", "running"}
  /\ proc' = [proc EXCEPT ![j] = "dead"]
  /\ UNCHANGED <<webVars, fileVars, supVars, term>>

-----------------------------------------------------------------------------
Next ==
  \/ \E j \in Jobs :
       \/ LaunchCheck(j) \/ LaunchSpec(j) \/ LaunchPost(j)
       \/ LaunchDetached(j) \/ LaunchOk(j) \/ LaunchRejected(j)
       \/ LaunchRaised(j) \/ StopDirect(j)
       \/ SupStart(j) \/ SupUnloaded(j) \/ SupFork(j) \/ SupRegister(j)
       \/ SupReap(j) \/ SupFinds(j) \/ SupRecord(j) \/ SupStop(j)
       \/ SupEscalate(j)
       \/ RunnerReady(j) \/ RunnerBadSpec(j) \/ RunnerRecordsBad(j)
       \/ RunnerReleaseGpu(j) \/ RunnerEnd(j) \/ ProcExit(j) \/ ProcDies(j)
       \/ \E r \in Readers : \/ LookMisses(r, j) \/ LookGuesses(r, j)
                              \/ LookRecords(r, j) \/ LookEnds(r, j)
  \/ WebCrash \/ SupDrain \/ SupExit \/ SupCrash \/ SupUp

Spec == Init /\ [][Next]_vars

(* Coroutines, watchers and escalation timers of a live supervisor run;    *)
(* the HTTP client times out.  Nobody is obliged to launch, look, stop,    *)
(* crash or restart, and a kind may run for ever.                          *)
Fairness ==
  /\ \A j \in Jobs :
       /\ WF_vars(SupStart(j) \/ SupUnloaded(j) \/ SupFork(j) \/ SupRegister(j))
       /\ WF_vars(SupReap(j) \/ SupFinds(j) \/ SupRecord(j))
       /\ WF_vars(SupEscalate(j))
       /\ WF_vars(LaunchOk(j) \/ LaunchRejected(j) \/ LaunchRaised(j))
       /\ WF_vars(ProcExit(j))
  /\ WF_vars(SupExit)

FairSpec == Spec /\ Fairness

-----------------------------------------------------------------------------
(* Every variable has its type, and the files agree with the processes: a  *)
(* pid file exists only for a job with a spec that was really spawned.     *)
TypeOK ==
  /\ launch \in [Jobs -> {"idle", "ok", "rejected", "raised", "lost"} \cup InFlight]
  /\ look \in [Readers -> [Jobs -> {"idle", "missed", "writing"}]]
  /\ spec \subseteq Jobs /\ pid \subseteq spec /\ released \subseteq pid
  /\ exit \in [Jobs -> Records \cup {NoExit}]
  /\ req \in [Jobs -> {"none", "registered", "refused"} \cup Starting]
  /\ table \in [Jobs -> {"absent", "live", "reaped", "writing", "recorded"}]
  /\ proc \in [Jobs -> {"none", "booting", "failing", "running", "exiting", "dead"}]
  /\ sup \in {"up", "draining", "down", "crashed"}
  /\ stopReq \subseteq Jobs /\ term \subseteq Jobs /\ awaited \subseteq Jobs

(* The GPU lease of jobs/__init__.py and supervisor/jobs.py: at most one   *)
(* GPU job that has not released the GPU is alive, across supervisor and   *)
(* web restarts, detached runners and jobs whose launch failed.            *)
GpuExclusive ==
  \A j, k \in GpuJobs : Holds(j) /\ Holds(k) => j = k

(* The same for the jobs one supervisor owns, with nothing assumed about   *)
(* when they are launched: "at most one gpu job runs at a time"            *)
(* (supervisor/jobs.py:3).                                                 *)
SupervisorLease ==
  \A j, k \in GpuJobs : /\ Holds(j) /\ table[j] = "live"
                         /\ Holds(k) /\ table[k] = "live" => j = k

(* What a reader of the job files sees of each job (launch.describe hides  *)
(* the record of a live process).                                          *)
Phase == [j \in Jobs |->
  IF j \notin spec THEN "absent"
  ELSE IF Alive(j) THEN "running"
  ELSE IF exit[j] # NoExit
       THEN IF Pending(j) = {} THEN "settled" ELSE "ended"
  ELSE IF proc[j] = "dead" THEN "gone"
  ELSE "accepted"]

Shown == [j \in Jobs |-> IF Phase[j] \in {"ended", "settled"} THEN exit[j]
                         ELSE NoExit]

L == INSTANCE JobLifecycle WITH NoRecord <- NoExit, phase <- Phase,
                                record <- Shown

(* The job files implement JobLifecycle: a rejected launch never runs, no  *)
(* job runs twice, a job that is shown as ended stays ended, and its       *)
(* record is final once no writer is left that had found none              *)
(* (store.write_exit), although four parties write it.                     *)
Lifecycle == L!Spec

(* "the job process is gone without an exit record" (launch.py:138): a     *)
(* reader writes that only of a process that is gone.                      *)
CrashMeansGone ==
  [][\A j \in Jobs :
       exit'[j] # exit[j] /\ exit'[j] = Record("describe", "crashed") => ~Alive(j)]_vars

(* "Supervisor going down: give every running job its grace, then kill":   *)
(* when it exits, each job it was asked to wait for is dead and its exit   *)
(* record is written.                                                      *)
DrainWaits ==
  [][sup = "draining" /\ sup' = "down" =>
       \A j \in awaited : ~Alive(j) /\ exit[j] # NoExit]_vars

(* The same sentence, of every job process the supervisor has in its table *)
(* by then.                                                                *)
ShutdownLeavesNoJob ==
  [][sup = "draining" /\ sup' = "down" =>
       \A j \in Jobs : table[j] = "live" => ~Alive(j)]_vars

(* A job the supervisor was asked to stop ends with a record, even if it   *)
(* ignores SIGTERM: SIGKILL follows, unless the supervisor itself goes.    *)
StopEnds ==
  \A j \in Jobs : (table[j] = "live" /\ j \in stopReq)
                     ~> (exit[j] # NoExit /\ ~Alive(j)) \/ table[j] = "absent"

(* A supervisor that was told to go down does: no job can hold it up.      *)
DrainEnds == sup = "draining" ~> sup # "draining"
=============================================================================
