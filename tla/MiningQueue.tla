----------------------------- MODULE MiningQueue -----------------------------
(***************************************************************************)
(* Mining: the mining_jobs rows as a queue between the web app             *)
(* (data/mining/scheduler.py, jobs/watch.py) and the mining workers        *)
(* (data/mining/worker.py), job processes that outlive the web app.  Rows  *)
(* are written by request threads, by the watcher and by the workers, with *)
(* the statements of db/mining.py and nothing else between them.           *)
(***************************************************************************)
EXTENDS Naturals, FiniteSets

CONSTANTS Rows,       \* mining_jobs rows; each is the one file of a request
          Workers,    \* mining worker jobs: a bound on how many get started
          Old,        \* workers that may run already when we begin to look
          Watch,      \* the thread that runs the startup and the watcher
          MaxFiles,   \* MAX_PARALLEL_FILES
          MaxCrashes, \* bound: how often the web app dies
          QuickEnds   \* may a worker end before the watcher has seen it?

Threads == Rows \cup {Watch}

ASSUME MiningAssumption == /\ Watch \notin Rows \cup Workers
                           /\ Old \subseteq Workers
                           /\ MaxFiles \in Nat \ {0} /\ MaxCrashes \in Nat
                           /\ QuickEnds \in BOOLEAN

VARIABLES
  status, runner, asked, \* the rows: status, runner, cancel_requested_at
  thr,        \* thr[r]: the worker's thread for the row
  flag,       \* rows whose cancel event is set
  byUser,     \* Worker._user_cancelled
  phase,      \* phase[w]: where the main loop of the worker is
  accepting,  \* workers whose published state does not say accepting: false
  stop,       \* workers whose stop event is set
  web,        \* the web app
  req,        \* req[t]: where the web thread is
  saw,        \* saw[t]: the runners its reconcile has read
  cancel,     \* cancel[r]: where a cancel request for the row is
  seen,       \* _seen_running of the watcher
  crashes,    \* how often the web app has died
  refused     \* a worker for queued rows was refused by the job layer

rowVars  == <<status, runner, asked>>
thrVars  == <<thr, flag, byUser>>
procVars == <<phase, accepting, stop>>
webVars  == <<web, req, saw, cancel, seen, crashes, refused>>
vars     == <<status, runner, asked, thr, flag, byUser, phase, accepting, stop,
              web, req, saw, cancel, seen, crashes, refused>>

-----------------------------------------------------------------------------
Ended == {"done", "failed", "cancelled", "interrupted"}

Live(w) == phase[w] \notin {"none", "dead"}

(* The rows a worker has a thread for. *)
Running(w) == {r \in Rows : runner[r] = w /\ thr[r] # "none"}

Queued == {r \in Rows : status[r] = "queued"}

RunnersOfRunning == {runner[r] : r \in {q \in Rows : status[q] = "running"}}

(* One conditional UPDATE: the rows of S that are still in status s.       *)
Settle(S, s, new) ==
  status' = [r \in Rows |-> IF r \in S /\ status[r] = s THEN new ELSE status[r]]

(* The threads of S are gone, their cancel events with them. *)
DropThreads(S) ==
  /\ thr' = [r \in Rows |-> IF r \in S THEN "none" ELSE thr[r]]
  /\ flag' = flag \ S /\ byUser' = byUser \ S

(* An old worker is idle since it finished earlier files.                  *)
Init ==
  /\ status = [r \in Rows |-> "absent"] /\ runner = [r \in Rows |-> Watch]
  /\ asked = {} /\ flag = {} /\ byUser = {}
  /\ thr = [r \in Rows |-> "none"]
  /\ seen \in SUBSET Old
  /\ phase = [w \in Workers |-> IF w \in seen THEN "loop" ELSE "none"]
  /\ accepting = seen /\ stop = {}
  /\ web = "up" /\ crashes = 0 /\ refused = FALSE
  /\ req = [t \in Threads |-> "idle"] /\ saw = [t \in Threads |-> {}]
  /\ cancel = [r \in Rows |-> "idle"]

-----------------------------------------------------------------------------
(* The web app: a thread per request, and Watch. *)

At(t, p)   == web # "down" /\ req[t] = p
Goto(t, p) == req' = [req EXCEPT ![t] = p]

(* A request thread is through; the startup leads on to the first poll.    *)
Leave(t, p) ==
  IF t = Watch /\ web = "starting" THEN Goto(t, "first") /\ web' = "up"
  ELSE Goto(t, IF t = Watch THEN "idle" ELSE p) /\ UNCHANGED web

(* submit: the rows' workers are read first, the live ones after. *)
SubmitRead(r) ==
  /\ web = "up" /\ req[r] = "idle"
  /\ Goto(r, "rec")
  /\ saw' = [saw EXCEPT ![r] = RunnersOfRunning]
  /\ UNCHANGED <<rowVars, thrVars, procVars, web, cancel, seen, crashes, refused>>

(* Slip: after a restart nothing can be running (interrupt_active_jobs).   *)
ReconcileAll(t) ==
  /\ At(t, "rec")
  /\ Goto(t, "recd")
  /\ Settle(Rows, "running", "interrupted")
  /\ saw' = [saw EXCEPT ![t] = {}]
  /\ UNCHANGED <<runner, asked, thrVars, procVars, web, cancel, seen, crashes,
                 refused>>

Reconcile(t) ==
  /\ At(t, "rec")
  /\ Goto(t, "recd")
  /\ Settle({r \in Rows : runner[r] \in saw[t] /\ ~Live(runner[r])},
            "running", "interrupted")
  /\ saw' = [saw EXCEPT ![t] = {}]
  /\ UNCHANGED <<runner, asked, thrVars, procVars, web, cancel, seen, crashes,
                 refused>>

Submit(r) ==
  /\ At(r, "recd")
  /\ Goto(r, "ensure")
  /\ status' = [status EXCEPT ![r] = "queued"]
  /\ UNCHANGED <<runner, asked, thrVars, procVars, web, saw, cancel, seen,
                 crashes, refused>>

(* Slip: the end of a worker settles its own rows only.                    *)
WatchNoQueue ==
  /\ At(Watch, "recd")
  /\ Leave(Watch, "idle")
  /\ UNCHANGED <<rowVars, thrVars, procVars, saw, cancel, seen, crashes, refused>>

(* on_finished and recover_after_restart: a worker is needed if rows wait. *)
WatchQueue ==
  /\ At(Watch, "recd")
  /\ IF Queued # {} THEN Goto(Watch, "ensure") /\ UNCHANGED web
                    ELSE Leave(Watch, "idle")
  /\ UNCHANGED <<rowVars, thrVars, procVars, saw, cancel, seen, crashes, refused>>

(* ensure_worker: a listing, then a launch. *)
Ensure(t) ==
  /\ At(t, "ensure")
  /\ IF \E w \in accepting : Live(w) THEN Leave(t, "over")
                                     ELSE Goto(t, "start") /\ UNCHANGED web
  /\ UNCHANGED <<rowVars, thrVars, procVars, saw, cancel, seen, crashes, refused>>

Start(t) ==
  /\ At(t, "start")
  /\ \E w \in Workers : /\ phase[w] = "none"
                        /\ phase' = [phase EXCEPT ![w] = "loop"]
                        /\ accepting' = accepting \cup {w}
  /\ Leave(t, "over")
  /\ UNCHANGED <<rowVars, thrVars, stop, saw, cancel, seen, crashes, refused>>

(* JobRejected: the rows of the request fail, whatever they are by now;    *)
(* the watcher only logs it.                                               *)
StartFails(t) ==
  /\ At(t, "start")
  /\ Leave(t, "failed")
  /\ IF t = Watch THEN refused' = TRUE /\ UNCHANGED status
                  ELSE /\ status' = [status EXCEPT ![t] = "failed"]
                       /\ UNCHANGED refused
  /\ UNCHANGED <<runner, asked, thrVars, procVars, saw, cancel, seen, crashes>>

(* The first poll after a start only records. *)
FirstPoll ==
  /\ At(Watch, "first")
  /\ Goto(Watch, "idle")
  /\ seen' = {w \in Workers : Live(w)}
  /\ UNCHANGED <<rowVars, thrVars, procVars, web, saw, cancel, crashes, refused>>

WatchSees(w) ==
  /\ At(Watch, "idle") /\ Live(w) /\ w \notin seen
  /\ seen' = seen \cup {w}
  /\ UNCHANGED <<rowVars, thrVars, procVars, web, req, saw, cancel, crashes,
                 refused>>

(* Slip: on_finished looks at the queue only.                              *)
WatchEndedNoRec(w) ==
  /\ At(Watch, "idle") /\ ~Live(w) /\ w \in seen
  /\ seen' = seen \ {w}
  /\ Goto(Watch, "recd")
  /\ UNCHANGED <<rowVars, thrVars, procVars, web, saw, cancel, crashes, refused>>

(* A worker it saw running is not any more: on_finished. *)
WatchEnded(w) ==
  /\ At(Watch, "idle") /\ ~Live(w) /\ w \in seen
  /\ seen' = seen \ {w}
  /\ Goto(Watch, "rec")
  /\ saw' = [saw EXCEPT ![Watch] = RunnersOfRunning]
  /\ UNCHANGED <<rowVars, thrVars, procVars, web, cancel, crashes, refused>>

(* scheduler.cancel: two conditional UPDATEs, the first that bites. *)
Cancel(r) ==
  /\ web = "up" /\ cancel[r] = "idle"
  /\ \/ /\ status[r] = "queued"
        /\ status' = [status EXCEPT ![r] = "cancelled"]
        /\ UNCHANGED <<asked, cancel>>
     \/ /\ status[r] = "running"
        /\ asked' = asked \cup {r}
        /\ cancel' = [cancel EXCEPT ![r] = "asked"]
        /\ UNCHANGED status
  /\ UNCHANGED <<runner, thrVars, procVars, web, req, saw, seen, crashes, refused>>

CancelRead(r) ==
  /\ web # "down" /\ cancel[r] = "asked"
  /\ cancel' = [cancel EXCEPT ![r] = IF status[r] = "running" THEN "check"
                                     ELSE "idle"]
  /\ UNCHANGED <<rowVars, thrVars, procVars, web, req, saw, seen, crashes, refused>>

(* Its worker is gone: nothing would ever read the request. *)
CancelCheck(r) ==
  /\ web # "down" /\ cancel[r] = "check"
  /\ cancel' = [cancel EXCEPT ![r] = "idle"]
  /\ status' = IF Live(runner[r]) THEN status
               ELSE [status EXCEPT ![r] = "cancelled"]
  /\ UNCHANGED <<runner, asked, thrVars, procVars, web, req, saw, seen, crashes,
                 refused>>

(* The web app dies or is restarted, the workers stay. *)
WebCrash ==
  /\ web # "down" /\ crashes < MaxCrashes
  /\ web' = "down" /\ crashes' = crashes + 1
  /\ req' = [t \in Threads |-> IF t = Watch THEN "idle"
                               ELSE IF req[t] \in {"rec", "recd", "ensure", "start"}
                               THEN "over" ELSE req[t]]
  /\ saw' = [t \in Threads |-> {}] /\ seen' = {}
  /\ cancel' = [r \in Rows |-> "idle"]
  /\ UNCHANGED <<rowVars, thrVars, procVars, refused>>

(* Startup: recover_after_restart reads the rows' workers. *)
WebUp ==
  /\ web = "down"
  /\ web' = "starting"
  /\ Goto(Watch, "rec")
  /\ saw' = [saw EXCEPT ![Watch] = RunnersOfRunning]
  /\ UNCHANGED <<rowVars, thrVars, procVars, cancel, seen, crashes, refused>>

-----------------------------------------------------------------------------
(* A worker: the main loop of Worker.run and _finish. *)

(* Slip: the claim does not say who has the row.                           *)
TakeNoRunner(w, r) ==
  /\ status[r] = "queued"
  /\ Cardinality(Running(w)) < MaxFiles
  /\ status' = [status EXCEPT ![r] = "running"]
  /\ thr' = [thr EXCEPT ![r] = "pooled"]
  /\ UNCHANGED runner

(* claim_queued takes a row with one conditional UPDATE, then the pool     *)
(* gets it.                                                                *)
Take(w, r) ==
  /\ status[r] = "queued"
  /\ Cardinality(Running(w)) < MaxFiles
  /\ status' = [status EXCEPT ![r] = "running"]
  /\ runner' = [runner EXCEPT ![r] = w]
  /\ thr' = [thr EXCEPT ![r] = "pooled"]

Claim(w, r) ==
  /\ phase[w] = "loop"
  /\ Take(w, r)
  /\ UNCHANGED <<asked, flag, byUser, procVars, webVars>>

PollCancel(w, r) ==
  /\ phase[w] = "loop"
  /\ r \in Running(w) \cap asked /\ r \notin flag
  /\ flag' = flag \cup {r} /\ byUser' = byUser \cup {r}
  /\ UNCHANGED <<rowVars, thr, procVars, webVars>>

(* Idle for IDLE_EXIT_S: a submit from here on starts a new worker. *)
Close(w) ==
  /\ phase[w] = "loop" /\ Running(w) = {}
  /\ phase' = [phase EXCEPT ![w] = "closing"]
  /\ accepting' = accepting \ {w}
  /\ UNCHANGED <<rowVars, thrVars, stop, webVars>>

(* ... and one queued just before is still seen here. *)
LastLook(w) ==
  /\ phase[w] = "closing"
  /\ IF Queued = {}
     THEN /\ phase' = [phase EXCEPT ![w] = "finish"]
          /\ UNCHANGED <<status, runner, thr>>
     ELSE /\ phase' = [phase EXCEPT ![w] = "reopen"]
          /\ \E r \in Rows : Take(w, r)
  /\ UNCHANGED <<asked, flag, byUser, accepting, stop, webVars>>

Reopen(w) ==
  /\ phase[w] = "reopen"
  /\ phase' = [phase EXCEPT ![w] = "loop"]
  /\ accepting' = accepting \cup {w}
  /\ UNCHANGED <<rowVars, thrVars, stop, webVars>>

(* Stopped: every running file is told to stop, and what the pool has not  *)
(* started yet is never started.                                           *)
SeesStop(w) ==
  /\ phase[w] = "loop" /\ w \in stop
  /\ phase' = [phase EXCEPT ![w] = "finish"]
  /\ LET waiting == {r \in Running(w) : thr[r] = "pooled"} IN
       /\ thr' = [r \in Rows |-> IF r \in waiting THEN "none" ELSE thr[r]]
       /\ flag' = (flag \cup Running(w)) \ waiting
       /\ byUser' = byUser \ waiting
  /\ UNCHANGED <<rowVars, accepting, stop, webVars>>

(* Slip: the pool is shut down without waiting for its threads.            *)
FinishNoWait(w) ==
  /\ phase[w] = "finish"
  /\ phase' = [phase EXCEPT ![w] = "leaving"]
  /\ Settle({r \in Rows : runner[r] = w}, "running", "interrupted")
  /\ UNCHANGED <<runner, asked, thrVars, accepting, stop, webVars>>

Finish(w) ==
  /\ phase[w] = "finish" /\ Running(w) = {}
  /\ phase' = [phase EXCEPT ![w] = "leaving"]
  /\ IF w \in stop
     THEN Settle({r \in Rows : runner[r] = w}, "running", "interrupted")
     ELSE UNCHANGED status
  /\ UNCHANGED <<runner, asked, thrVars, accepting, stop, webVars>>

(* The state of a dead worker is never read again. *)
Dies(w) == /\ phase' = [phase EXCEPT ![w] = "dead"]
           /\ accepting' = accepting \ {w} /\ stop' = stop \ {w}

(* When a worker process may be gone; see QuickEnds. *)
MayEnd(w) == QuickEnds \/ w \in seen \/ web = "down"

Exit(w) ==
  /\ phase[w] = "leaving" /\ MayEnd(w)
  /\ Dies(w)
  /\ UNCHANGED <<rowVars, thrVars, webVars>>

(* Killed, out of memory: its threads die with it. *)
Crash(w) ==
  /\ Live(w) /\ phase[w] # "leaving" /\ MayEnd(w)
  /\ Dies(w)
  /\ DropThreads(Running(w))
  /\ UNCHANGED <<rowVars, webVars>>

(* The Jobs page or fts down: SIGTERM. *)
StopWorker(w) ==
  /\ Live(w) /\ w \notin stop
  /\ stop' = stop \cup {w}
  /\ UNCHANGED <<rowVars, thrVars, phase, accepting, webVars>>

-----------------------------------------------------------------------------
(* The thread of one file: Worker._run_one and MiningJob.run. *)

FileStarts(r) ==
  /\ thr[r] = "pooled"
  /\ thr' = [thr EXCEPT ![r] = "mining"]
  /\ status' = [status EXCEPT ![r] = "running"]
  /\ UNCHANGED <<runner, asked, flag, byUser, procVars, webVars>>

(* The helper or the Vision reader cannot be used. *)
FileCannotStart(r) ==
  /\ thr[r] = "pooled"
  /\ DropThreads({r})
  /\ status' = [status EXCEPT ![r] = "failed"]
  /\ UNCHANGED <<runner, asked, procVars, webVars>>

(* The cancel event is looked at before each helper call only. *)
FileEnds(r) ==
  /\ thr[r] = "mining"
  /\ thr' = [thr EXCEPT ![r] = "written"]
  /\ \E s \in {"done", "failed", "cancelled"} :
       /\ s = "cancelled" => r \in flag
       /\ status' = [status EXCEPT ![r] = s]
  /\ UNCHANGED <<runner, asked, flag, byUser, procVars, webVars>>

(* Slip: a file that was told to stop keeps the status its run has left.   *)
FileLeavesAsIs(r) ==
  /\ thr[r] = "written"
  /\ DropThreads({r})
  /\ UNCHANGED <<rowVars, procVars, webVars>>

(* Stopped with the worker, not by the reviewer: interrupted, never        *)
(* cancelled.                                                              *)
FileLeaves(r) ==
  /\ thr[r] = "written"
  /\ DropThreads({r})
  /\ status' = IF r \in flag \ byUser /\ runner[r] \in stop
               THEN [status EXCEPT ![r] = "interrupted"] ELSE status
  /\ UNCHANGED <<runner, asked, procVars, webVars>>

-----------------------------------------------------------------------------
Main(w) == \/ \E r \in Rows : Claim(w, r) \/ PollCancel(w, r)
           \/ Close(w) \/ LastLook(w) \/ Reopen(w) \/ SeesStop(w)
           \/ Finish(w) \/ Exit(w)

File(r) == FileStarts(r) \/ FileCannotStart(r) \/ FileEnds(r) \/ FileLeaves(r)

Request(t) == Reconcile(t) \/ Ensure(t) \/ Start(t) \/ StartFails(t)

Next ==
  \/ \E r \in Rows : \/ SubmitRead(r) \/ Submit(r) \/ Cancel(r) \/ CancelRead(r)
                     \/ CancelCheck(r) \/ File(r)
  \/ \E t \in Threads : Request(t)
  \/ \E w \in Workers : \/ WatchSees(w) \/ WatchEnded(w) \/ Main(w)
                        \/ Crash(w) \/ StopWorker(w)
  \/ WatchQueue \/ FirstPoll \/ WebCrash \/ WebUp

Spec == Init /\ [][Next]_vars

(* The supervisor starts the web app again, its threads and the watcher    *)
(* run, and so do the workers and their threads: every helper call ends in *)
(* an answer or a timeout.  Nobody has to submit, cancel or stop.          *)
Fairness ==
  /\ WF_vars(WebUp) /\ WF_vars(FirstPoll) /\ WF_vars(WatchQueue)
  /\ \A t \in Threads : WF_vars(Request(t))
  /\ \A r \in Rows : /\ WF_vars(Submit(r)) /\ WF_vars(File(r))
                     /\ WF_vars(CancelRead(r) \/ CancelCheck(r))
  /\ \A w \in Workers : /\ WF_vars(Main(w))
                        /\ WF_vars(WatchSees(w)) /\ WF_vars(WatchEnded(w))

FairSpec == Spec /\ Fairness

-----------------------------------------------------------------------------
(* Every variable has its type; only a worker that exists has rows.        *)
TypeOK ==
  /\ status \in [Rows -> {"absent", "queued", "running"} \cup Ended]
  /\ runner \in [Rows -> Workers \cup {Watch}]
  /\ \A r \in Rows : status[r] = "running" =>
       runner[r] \in Workers /\ phase[runner[r]] # "none"
  /\ thr \in [Rows -> {"none", "pooled", "mining", "written"}]
  /\ asked \subseteq Rows /\ flag \subseteq Rows /\ byUser \subseteq flag
  /\ phase \in [Workers -> {"none", "loop", "closing", "reopen", "finish",
                            "leaving", "dead"}]
  /\ accepting \subseteq Workers /\ stop \subseteq Workers
  /\ web \in {"up", "down", "starting"} /\ seen \subseteq Workers
  /\ req \in [Threads -> {"idle", "rec", "recd", "ensure", "start", "over",
                          "failed", "first"}]
  /\ saw \in [Threads -> SUBSET Workers]
  /\ cancel \in [Rows -> {"idle", "asked", "check"}]
  /\ crashes \in 0..MaxCrashes /\ refused \in BOOLEAN

(* While a worker works on a file, its row says running: no reconcile,     *)
(* cancel or restart takes the row away.  (The one exception is a request  *)
(* whose own launch is refused after another worker has taken its row.)    *)
WorkingRowRuns ==
  \A r \in Rows : thr[r] \in {"pooled", "mining"} /\ req[r] # "failed" =>
                    status[r] = "running" /\ Live(runner[r])

(* An ended row is never active again: not queued, not claimed, not set    *)
(* back to running by a thread that comes late (same exception).           *)
EndedStaysEnded ==
  [][\A r \in Rows : status[r] \in Ended /\ req[r] # "failed"
                       => status'[r] \in Ended]_vars

(* A file that was stopped with its worker is interrupted (Fill gaps goes  *)
(* on with it), never cancelled: once its thread is through, cancelled     *)
(* means that somebody asked for it (worker.py:192).                       *)
StopInterrupts ==
  \A r \in Rows : /\ status[r] = "cancelled" /\ thr[r] = "none"
                   /\ runner[r] \in Workers /\ Live(runner[r]) => r \in asked

(* A queued file is never left without a worker (worker.py:16-17,          *)
(* scheduler.py:136-137): it is taken, cancelled or failed, unless the job *)
(* layer refuses to start one.                                             *)
QueuedServed ==
  \A r \in Rows : status[r] = "queued" ~> status[r] # "queued" \/ refused

(* No row says running for ever, whatever becomes of its worker.           *)
RunningEnds == \A r \in Rows : status[r] = "running" ~> status[r] # "running"

(* "One worker for all projects keeps that bound global" (scheduler.py:9): *)
(* no two workers work on files at the same time.                          *)
OneWorker ==
  \A r, q \in Rows : thr[r] = "mining" /\ thr[q] = "mining" => runner[r] = runner[q]
=============================================================================
