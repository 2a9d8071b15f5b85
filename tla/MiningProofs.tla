---------------------------- MODULE MiningProofs ----------------------------
(***************************************************************************)
(* Proofs about MiningQueue, for every set of rows and of workers, every   *)
(* MaxFiles and any number of crashes.                                     *)
(***************************************************************************)
EXTENDS MiningQueue, TLAPS

(* TypeOK but for the one Boolean. *)
Types ==
  /\ status \in [Rows -> {"absent", "queued", "running"} \cup Ended]
  /\ runner \in [Rows -> Workers \cup {Watch}]
  /\ thr \in [Rows -> {"none", "pooled", "mining", "written"}]
  /\ asked \subseteq Rows /\ flag \subseteq Rows
  /\ phase \in [Workers -> {"none", "loop", "closing", "reopen", "finish",
                            "leaving", "dead"}]
  /\ accepting \subseteq Workers /\ stop \subseteq Workers
  /\ web \in {"up", "down", "starting"} /\ seen \subseteq Workers
  /\ req \in [Threads -> {"idle", "rec", "recd", "ensure", "start", "over",
                          "failed", "first"}]
  /\ saw \in [Threads -> SUBSET Workers]
  /\ cancel \in [Rows -> {"idle", "asked", "check"}]
  /\ crashes \in 0..MaxCrashes

(* A row that was never taken has no worker and no thread; one that runs   *)
(* or is being cancelled was taken.                                        *)
Fresh ==
  \A r \in Rows :
    /\ req[r] \in {"idle", "rec", "recd"} => status[r] = "absent"
    /\ status[r] \in {"absent", "queued"} => thr[r] = "none" /\ runner[r] = Watch
    /\ status[r] = "running" \/ cancel[r] # "idle" => runner[r] \in Workers

(* A worker that ever took a row was started, and one that has threads is  *)
(* in its loop or waits for them: it never closes or leaves with threads.  *)
Held ==
  \A r \in Rows :
    /\ runner[r] \in Workers => phase[runner[r]] # "none"
    /\ thr[r] # "none" => /\ runner[r] \in Workers
                          /\ phase[runner[r]] \in {"loop", "reopen", "finish"}

(* A cancel event was set by the reviewer or by the stop of the worker; a  *)
(* cancelled row whose thread is still there has its event set.            *)
Told ==
  /\ byUser \subseteq flag /\ byUser \subseteq asked
  /\ \A r \in flag : thr[r] # "none" /\ (r \in byUser \/ runner[r] \in stop)
  /\ \A r \in Rows : status[r] = "cancelled" /\ thr[r] # "none"
                       => thr[r] = "written" /\ r \in flag

Inv == Types /\ Fresh /\ Held /\ WorkingRowRuns /\ Told /\ StopInterrupts

-----------------------------------------------------------------------------
(* A thread that is through changes its own place only.                    *)
LEMMA LeaveFacts ==
  ASSUME Types, NEW t \in Threads, NEW p \in {"over", "failed", "idle"}, Leave(t, p)
  PROVE  /\ req' \in [Threads -> {"idle", "rec", "recd", "ensure", "start", "over",
                                  "failed", "first"}]
         /\ \A u \in Threads \ {t} : req'[u] = req[u]
         /\ t # Watch => req'[t] = p
         /\ web' \in {"up", "down", "starting"}
BY DEF Types, Leave, Goto

(* Only workers have running rows.                                         *)
LEMMA RunnersFacts == Fresh => RunnersOfRunning \subseteq Workers
BY DEF Fresh, RunnersOfRunning

LEMMA InitInv == Init => Inv
BY MiningAssumption DEF Init, Inv, Types, Fresh, Held, WorkingRowRuns, Told,
   StopInterrupts, Live, Threads

LEMMA StepInv == Inv /\ [Next]_vars => Inv'
<1> SUFFICES ASSUME Inv PROVE [Next]_vars => Inv'
  OBVIOUS
<1> USE MiningAssumption DEF Inv, Types, Fresh, Held, WorkingRowRuns, Told,
        StopInterrupts, Live, Threads, Running, Ended, At, Goto, rowVars,
        thrVars, procVars, webVars
<1>1. ASSUME NEW r \in Rows, SubmitRead(r) PROVE Inv'
  BY <1>1, RunnersFacts DEF SubmitRead
<1>2. ASSUME NEW r \in Rows, Submit(r) PROVE Inv'
  BY <1>2 DEF Submit
<1>3. ASSUME NEW r \in Rows, Cancel(r) PROVE Inv'
  BY <1>3 DEF Cancel
<1>4. ASSUME NEW r \in Rows, CancelRead(r) PROVE Inv'
  BY <1>4 DEF CancelRead
<1>5. ASSUME NEW r \in Rows, CancelCheck(r) PROVE Inv'
  BY <1>5 DEF CancelCheck
<1>6. ASSUME NEW r \in Rows, FileStarts(r) PROVE Inv'
  BY <1>6 DEF FileStarts
<1>7. ASSUME NEW r \in Rows, FileCannotStart(r) PROVE Inv'
  BY <1>7 DEF FileCannotStart, DropThreads
<1>8. ASSUME NEW r \in Rows, FileEnds(r) PROVE Inv'
  BY <1>8 DEF FileEnds
<1>9. ASSUME NEW r \in Rows, FileLeaves(r) PROVE Inv'
  BY <1>9 DEF FileLeaves, DropThreads
<1>10. ASSUME NEW t \in Threads, Reconcile(t) PROVE Inv'
  BY <1>10 DEF Reconcile, Settle
<1>11. ASSUME NEW t \in Threads, Ensure(t) PROVE Inv'
  BY <1>11, LeaveFacts DEF Ensure
<1>12. ASSUME NEW t \in Threads, Start(t) PROVE Inv'
  BY <1>12, LeaveFacts DEF Start
<1>13. ASSUME NEW t \in Threads, StartFails(t) PROVE Inv'
  BY <1>13, LeaveFacts DEF StartFails
<1>14. ASSUME NEW w \in Workers, WatchSees(w) PROVE Inv'
  BY <1>14 DEF WatchSees
<1>15. ASSUME NEW w \in Workers, WatchEnded(w) PROVE Inv'
  BY <1>15, RunnersFacts DEF WatchEnded
<1>16. ASSUME NEW w \in Workers, Close(w) PROVE Inv'
  BY <1>16 DEF Close
<1>17. ASSUME NEW w \in Workers, LastLook(w) PROVE Inv'
  <2>1. CASE Queued = {}
    BY <1>17, <2>1 DEF LastLook
  <2>2. CASE Queued # {}
    <3>1. PICK r \in Rows : Take(w, r)
      BY <1>17, <2>2 DEF LastLook
    <3> QED BY <1>17, <2>2, <3>1 DEF LastLook, Take
  <2> QED BY <2>1, <2>2
<1>18. ASSUME NEW w \in Workers, Reopen(w) PROVE Inv'
  BY <1>18 DEF Reopen
<1>19. ASSUME NEW w \in Workers, SeesStop(w) PROVE Inv'
  BY <1>19 DEF SeesStop
<1>20. ASSUME NEW w \in Workers, Finish(w) PROVE Inv'
  BY <1>20 DEF Finish, Settle
<1>21. ASSUME NEW w \in Workers, Exit(w) PROVE Inv'
  BY <1>21 DEF Exit, Dies
<1>22. ASSUME NEW w \in Workers, Crash(w) PROVE Inv'
  BY <1>22 DEF Crash, Dies, DropThreads
<1>23. ASSUME NEW w \in Workers, StopWorker(w) PROVE Inv'
  BY <1>23 DEF StopWorker
<1>24. ASSUME NEW w \in Workers, NEW r \in Rows, Claim(w, r) PROVE Inv'
  BY <1>24 DEF Claim, Take
<1>25. ASSUME NEW w \in Workers, NEW r \in Rows, PollCancel(w, r) PROVE Inv'
  BY <1>25 DEF PollCancel
<1>26. CASE WatchQueue
  BY <1>26, LeaveFacts DEF WatchQueue
<1>27. CASE FirstPoll
  BY <1>27 DEF FirstPoll
<1>28. CASE WebCrash
  BY <1>28 DEF WebCrash
<1>29. CASE WebUp
  BY <1>29, RunnersFacts DEF WebUp
<1>30. CASE UNCHANGED vars
  BY <1>30 DEF vars
<1> QED
  BY <1>1, <1>2, <1>3, <1>4, <1>5, <1>6, <1>7, <1>8, <1>9, <1>10, <1>11, <1>12, <1>13, <1>14, <1>15, <1>16, <1>17, <1>18, <1>19, <1>20, <1>21, <1>22, <1>23, <1>24, <1>25, <1>26, <1>27, <1>28, <1>29, <1>30
  DEF Next, File, Request, Main

-----------------------------------------------------------------------------
(* The one Boolean is only ever set. *)
Marked == refused \in BOOLEAN

LEMMA StepMarked == Marked /\ [Next]_vars => Marked'
<1> SUFFICES ASSUME Marked, [Next]_vars
             PROVE  refused' \in {refused, TRUE}
  BY DEF Marked
<1> USE DEF webVars
<1>1. ASSUME NEW r \in Rows,
             SubmitRead(r) \/ Submit(r) \/ Cancel(r) \/ CancelRead(r)
               \/ CancelCheck(r) \/ File(r)
      PROVE  refused' \in {refused, TRUE}
  BY <1>1 DEF SubmitRead, Submit, Cancel, CancelRead, CancelCheck, File,
     FileStarts, FileCannotStart, FileEnds, FileLeaves
<1>2. ASSUME NEW t \in Threads, Request(t) PROVE refused' \in {refused, TRUE}
  BY <1>2 DEF Request, Reconcile, Ensure, Start, StartFails
<1>3. ASSUME NEW w \in Workers,
             WatchSees(w) \/ WatchEnded(w) \/ Main(w) \/ Crash(w) \/ StopWorker(w)
      PROVE  refused' \in {refused, TRUE}
  BY <1>3 DEF WatchSees, WatchEnded, Main, Claim, PollCancel, Close, LastLook,
     Reopen, SeesStop, Finish, Exit, Crash, StopWorker
<1>4. CASE WatchQueue \/ FirstPoll \/ WebCrash \/ WebUp
  BY <1>4 DEF WatchQueue, FirstPoll, WebCrash, WebUp
<1>5. CASE UNCHANGED vars
  BY <1>5 DEF vars
<1> QED BY <1>1, <1>2, <1>3, <1>4, <1>5 DEF Next

(* An ended row is not fresh, and its worker's thread, if there is one, is *)
(* past the point where it says running.                                   *)
LEMMA StepEnded == Inv /\ [Next]_vars =>
  \A r \in Rows : status[r] \in Ended /\ req[r] # "failed" => status'[r] \in Ended
<1> SUFFICES ASSUME Inv, [Next]_vars, NEW r \in Rows,
                    status[r] \in Ended, req[r] # "failed"
             PROVE  status'[r] \in Ended
  OBVIOUS
<1> USE MiningAssumption DEF Inv, Types, Fresh, WorkingRowRuns, Ended,
        rowVars, Threads
<1>1. ASSUME NEW q \in Rows,
             SubmitRead(q) \/ Submit(q) \/ Cancel(q) \/ CancelRead(q)
               \/ CancelCheck(q) \/ File(q)
      PROVE  status'[r] \in Ended
  BY <1>1 DEF SubmitRead, Submit, Cancel, CancelRead, CancelCheck, File, At,
     FileStarts, FileCannotStart, FileEnds, FileLeaves
<1>2. ASSUME NEW t \in Threads, Request(t) PROVE status'[r] \in Ended
  BY <1>2 DEF Request, Reconcile, Settle, Ensure, Start, StartFails
<1>3. ASSUME NEW w \in Workers,
             WatchSees(w) \/ WatchEnded(w) \/ Main(w) \/ Crash(w) \/ StopWorker(w)
      PROVE  status'[r] \in Ended
  BY <1>3 DEF WatchSees, WatchEnded, Main, Claim, Take, PollCancel, Close,
     LastLook, Reopen, SeesStop, Finish, Settle, Exit, Crash, StopWorker
<1>4. CASE WatchQueue \/ FirstPoll \/ WebCrash \/ WebUp
  BY <1>4 DEF WatchQueue, FirstPoll, WebCrash, WebUp
<1>5. CASE UNCHANGED vars
  BY <1>5 DEF vars
<1> QED BY <1>1, <1>2, <1>3, <1>4, <1>5 DEF Next

-----------------------------------------------------------------------------
LEMMA Invariance == Spec => []Inv
BY InitInv, StepInv, PTL DEF Spec

(* Every variable of the queue keeps its type, whatever crashes.           *)
THEOREM MiningTypes == Spec => []TypeOK
<1>1. Init => Marked
  BY DEF Init, Marked
<1>2. Inv /\ Marked => TypeOK
  BY DEF Inv, Types, Fresh, Held, Told, TypeOK, Marked
<1> QED BY <1>1, <1>2, StepMarked, Invariance, PTL DEF Spec

(* A worker works only on rows that say running and name it (scheduler.py  *)
(* reconcile, recover_after_restart; db/mining.py claim_queued).           *)
THEOREM RowsOfWorkers == Spec => []WorkingRowRuns
<1>1. Inv => WorkingRowRuns
  BY DEF Inv
<1> QED BY <1>1, Invariance, PTL

(* What the stop of a worker has ended is never called cancelled           *)
(* (worker.py _run_one).                                                   *)
THEOREM StopsAreInterrupts == Spec => []StopInterrupts
<1>1. Inv => StopInterrupts
  BY DEF Inv
<1> QED BY <1>1, Invariance, PTL

(* No ended row is taken, queued or set to running again.                  *)
THEOREM EndedForGood == Spec => EndedStaysEnded
<1>1. Inv /\ [Next]_vars =>
        [\A r \in Rows : status[r] \in Ended /\ req[r] # "failed"
                           => status'[r] \in Ended]_vars
  BY StepEnded
<1> QED BY <1>1, Invariance, PTL DEF Spec, EndedStaysEnded
=============================================================================
