----------------------------- MODULE JobsProofs -----------------------------
(***************************************************************************)
(* Proofs about Jobs, for every set of jobs and every subset of GPU jobs.  *)
(***************************************************************************)
EXTENDS Jobs, TLAPS

(* TypeOK is not inductive: that a pid file belongs to a job with a spec   *)
(* needs to know how far the launch of a job is when its process appears.  *)
Stages ==
  \A j \in Jobs :
    /\ launch[j] \in {"idle", "checked"} =>
         j \notin spec /\ req[j] = "none" /\ proc[j] = "none"
    /\ launch[j] = "written" =>
         j \in spec /\ req[j] = "none" /\ proc[j] = "none"
    /\ launch[j] = "posted" => j \in spec
    /\ launch[j] = "rejected" => req[j] \in {"none", "refused"} /\ proc[j] = "none"
    /\ req[j] # "none" => j \in spec
    /\ req[j] \in {"queued", "unloading", "forking", "refused"} => proc[j] = "none"
    /\ req[j] = "forked" => proc[j] # "none"
    /\ proc[j] # "none" => j \in spec
    /\ j \in pid => proc[j] # "none"
    /\ proc[j] = "running" => j \in pid
    /\ table[j] # "absent" => j \in pid
    /\ table[j] \in {"reaped", "writing", "recorded"} => proc[j] = "dead"
    /\ \A r \in Readers : look[r][j] = "writing" => j \in pid
    /\ exit[j] # NoExit => proc[j] # "none" \/ launch[j] = "rejected"

Inv == TypeOK /\ Stages

(* While no two GPU launches overlap, a launch past its check has the GPU  *)
(* to itself.                                                              *)
Lease ==
  \A j, k \in GpuJobs : j # k =>
    /\ ~(Holds(j) /\ Holds(k))
    /\ InWindow(j) => ~InWindow(k) /\ ~Holds(k)

GpuInv == Inv /\ Lease

-----------------------------------------------------------------------------
(* Which records there are: none of them is "no record". *)
LEMMA RecordsFacts ==
  /\ NoExit \notin Records
  /\ RunnerRecords \subseteq Records
  /\ Record("describe", "crashed") \in Records
  /\ Record("launcher", "failed") \in Records
  /\ Record("runner", "failed") \in Records
  /\ Record("supervisor", "stopped") \in Records
  /\ Record("supervisor", "crashed") \in Records
BY DEF NoExit, Records, RunnerRecords, Guesses, Record

(* Who is between finding no record and leaving one.                       *)
Late(j) == \/ table[j] = "writing"
           \/ proc[j] = "failing"
           \/ \E r \in Readers : look[r][j] = "writing"

LEMMA PendingFacts ==
  ASSUME NEW j
  PROVE  /\ Pending(j) \subseteq Records
         /\ (Pending(j) = {}) <=> ~Late(j)
<1>1. Guess(j) \in Records
  BY RecordsFacts DEF Guess
<1> QED BY <1>1, RecordsFacts DEF Pending, Late

(* A write leaves a legal record of that job and no other.                 *)
LEMMA PublishFacts ==
  ASSUME NEW j \in Jobs, NEW r \in Records, TypeOK, Publish(j, r)
  PROVE  /\ exit' \in [Jobs -> Records \cup {NoExit}]
         /\ exit'[j] \in Records /\ exit'[j] # NoExit
         /\ \A i \in Jobs \ {j} : exit'[i] = exit[i]
BY PendingFacts, RecordsFacts DEF Publish, TypeOK

LEMMA GuessFacts == ASSUME NEW j PROVE Guess(j) \in Records
BY RecordsFacts DEF Guess

(* What SIGTERM does to the processes of S. *)
LEMMA TerminateFacts ==
  ASSUME NEW S, S \subseteq Jobs, TypeOK, Terminate(S)
  PROVE  /\ proc' \in [Jobs -> {"none", "booting", "failing", "running", "exiting", "dead"}]
         /\ term' \subseteq Jobs
         /\ \A j \in Jobs : \/ proc'[j] = proc[j]
                            \/ proc[j] \in {"booting", "failing"} /\ proc'[j] = "dead"
BY DEF Terminate, TypeOK

-----------------------------------------------------------------------------
LEMMA InitInv == Init => Inv
BY DEF Init, Inv, TypeOK, Stages, Records

LEMMA StepInv == Inv /\ [Next]_vars => Inv'
<1> SUFFICES ASSUME Inv PROVE [Next]_vars => Inv'
  OBVIOUS
<1> USE JobsAssumption, RecordsFacts
    DEF Inv, TypeOK, Stages, InFlight, Starting,
        webVars, fileVars, supVars, procVars, SupDown
<1>1. ASSUME NEW j \in Jobs, LaunchCheck(j) PROVE Inv'
  BY <1>1 DEF LaunchCheck
<1>2. ASSUME NEW j \in Jobs, LaunchSpec(j) PROVE Inv'
  BY <1>2 DEF LaunchSpec
<1>3. ASSUME NEW j \in Jobs, LaunchPost(j) PROVE Inv'
  BY <1>3 DEF LaunchPost
<1>4. ASSUME NEW j \in Jobs, LaunchDetached(j) PROVE Inv'
  BY <1>4 DEF LaunchDetached
<1>5. ASSUME NEW j \in Jobs, LaunchOk(j) PROVE Inv'
  BY <1>5 DEF LaunchOk
<1>6. ASSUME NEW j \in Jobs, LaunchRejected(j) PROVE Inv'
  BY <1>6 DEF LaunchRejected
<1>7. ASSUME NEW j \in Jobs, LaunchRaised(j) PROVE Inv'
  BY <1>7 DEF LaunchRaised
<1>8. ASSUME NEW j \in Jobs, StopDirect(j) PROVE Inv'
  BY <1>8, TerminateFacts DEF StopDirect
<1>9. ASSUME NEW j \in Jobs, SupStart(j) PROVE Inv'
  BY <1>9 DEF SupStart, LeaseHolders
<1>10. ASSUME NEW j \in Jobs, SupUnloaded(j) PROVE Inv'
  BY <1>10 DEF SupUnloaded
<1>11. ASSUME NEW j \in Jobs, SupFork(j) PROVE Inv'
  BY <1>11 DEF SupFork
<1>12. ASSUME NEW j \in Jobs, SupRegister(j) PROVE Inv'
  BY <1>12 DEF SupRegister
<1>13. ASSUME NEW j \in Jobs, SupReap(j) PROVE Inv'
  BY <1>13 DEF SupReap
<1>14. ASSUME NEW j \in Jobs, SupFinds(j) PROVE Inv'
  BY <1>14 DEF SupFinds
<1>15. ASSUME NEW j \in Jobs, SupRecord(j) PROVE Inv'
  BY <1>15, PublishFacts, GuessFacts DEF SupRecord
<1>16. ASSUME NEW j \in Jobs, SupStop(j) PROVE Inv'
  BY <1>16, TerminateFacts DEF SupStop
<1>17. ASSUME NEW j \in Jobs, SupEscalate(j) PROVE Inv'
  BY <1>17 DEF SupEscalate
<1>18. ASSUME NEW j \in Jobs, RunnerReady(j) PROVE Inv'
  BY <1>18 DEF RunnerReady
<1>19. ASSUME NEW j \in Jobs, RunnerBadSpec(j) PROVE Inv'
  BY <1>19 DEF RunnerBadSpec
<1>20. ASSUME NEW j \in Jobs, RunnerRecordsBad(j) PROVE Inv'
  BY <1>20, PublishFacts DEF RunnerRecordsBad
<1>21. ASSUME NEW j \in Jobs, RunnerReleaseGpu(j) PROVE Inv'
  BY <1>21 DEF RunnerReleaseGpu
<1>22. ASSUME NEW j \in Jobs, RunnerEnd(j) PROVE Inv'
  BY <1>22, PublishFacts DEF RunnerEnd
<1>23. ASSUME NEW j \in Jobs, ProcExit(j) PROVE Inv'
  BY <1>23 DEF ProcExit
<1>24. ASSUME NEW j \in Jobs, ProcDies(j) PROVE Inv'
  BY <1>24 DEF ProcDies
<1>25. ASSUME NEW j \in Jobs, NEW r \in Readers, LookMisses(r, j)
      PROVE  Inv'
  BY <1>25 DEF LookMisses
<1>26. ASSUME NEW j \in Jobs, NEW r \in Readers, LookGuesses(r, j)
      PROVE  Inv'
  BY <1>26 DEF LookGuesses
<1>27. ASSUME NEW j \in Jobs, NEW r \in Readers, LookRecords(r, j)
      PROVE  Inv'
  BY <1>27, PublishFacts DEF LookRecords
<1>28. ASSUME NEW j \in Jobs, NEW r \in Readers, LookEnds(r, j)
      PROVE  Inv'
  BY <1>28 DEF LookEnds
<1>29. CASE WebCrash
  BY <1>29 DEF WebCrash
<1>30. CASE SupDrain
  BY <1>30, TerminateFacts DEF SupDrain
<1>31. CASE SupExit
  BY <1>31 DEF SupExit, SupGone
<1>32. CASE SupCrash
  BY <1>32 DEF SupCrash, SupGone
<1>33. CASE SupUp
  BY <1>33 DEF SupUp
<1>34. CASE UNCHANGED vars
  BY <1>34 DEF vars
<1>35. QED
  BY <1>1, <1>2, <1>3, <1>4, <1>5, <1>6, <1>7, <1>8, <1>9, <1>10, <1>11,
     <1>12, <1>13, <1>14, <1>15, <1>16, <1>17, <1>18, <1>19, <1>20, <1>21,
     <1>22, <1>23, <1>24, <1>25, <1>26, <1>27, <1>28, <1>29, <1>30, <1>31,
     <1>32, <1>33, <1>34
     DEF Next

(* Every variable keeps its type, and a pid file always belongs to a       *)
(* process that was spawned from a spec.                                   *)
THEOREM TypeCorrect == Spec => []TypeOK
<1>1. Inv => TypeOK
  BY DEF Inv
<1>2. QED
  BY <1>1, InitInv, StepInv, PTL DEF Spec

-----------------------------------------------------------------------------
(* The GPU check of a launch sees every live GPU job that is not in its    *)
(* window any more.                                                        *)
LEMMA SeenFacts ==
  \A j \in GpuJobs : Alive(j) /\ ~InWindow(j) => j \in SeenRunning
BY JobsAssumption DEF SeenRunning, InWindow, PidUnsettled

LEMMA InitLease == Init => Lease
BY JobsAssumption DEF Init, Lease, Holds, InWindow, PidUnsettled, Alive, InFlight, Starting

LEMMA StepLease ==
  ASSUME ~Overlap PROVE Inv /\ Lease /\ [Next]_vars => Lease'
<1> SUFFICES ASSUME Inv, Lease PROVE [Next]_vars => Lease'
  OBVIOUS
<1> USE JobsAssumption
    DEF Inv, TypeOK, Stages, Lease, Holds, InWindow, PidUnsettled, Alive, InFlight, Starting,
        webVars, fileVars, supVars, procVars, SupDown
<1>1. ASSUME NEW j \in Jobs, LaunchCheck(j) PROVE Lease'
  BY <1>1, SeenFacts DEF LaunchCheck
<1>2. ASSUME NEW j \in Jobs, LaunchSpec(j) PROVE Lease'
  BY <1>2 DEF LaunchSpec
<1>3. ASSUME NEW j \in Jobs, LaunchPost(j) PROVE Lease'
  BY <1>3 DEF LaunchPost
<1>4. ASSUME NEW j \in Jobs, LaunchDetached(j) PROVE Lease'
  BY <1>4 DEF LaunchDetached
<1>5. ASSUME NEW j \in Jobs, LaunchOk(j) PROVE Lease'
  BY <1>5 DEF LaunchOk
<1>6. ASSUME NEW j \in Jobs, LaunchRejected(j) PROVE Lease'
  BY <1>6 DEF LaunchRejected
<1>7. ASSUME NEW j \in Jobs, LaunchRaised(j) PROVE Lease'
  BY <1>7 DEF LaunchRaised
<1>8. ASSUME NEW j \in Jobs, StopDirect(j) PROVE Lease'
  BY <1>8, TerminateFacts DEF StopDirect
<1>9. ASSUME NEW j \in Jobs, SupStart(j) PROVE Lease'
  BY <1>9 DEF SupStart, LeaseHolders
<1>10. ASSUME NEW j \in Jobs, SupUnloaded(j) PROVE Lease'
  BY <1>10 DEF SupUnloaded
<1>11. ASSUME NEW j \in Jobs, SupFork(j) PROVE Lease'
  BY <1>11 DEF SupFork
<1>12. ASSUME NEW j \in Jobs, SupRegister(j) PROVE Lease'
  BY <1>12 DEF SupRegister
<1>13. ASSUME NEW j \in Jobs, SupReap(j) PROVE Lease'
  BY <1>13 DEF SupReap
<1>14. ASSUME NEW j \in Jobs, SupFinds(j) PROVE Lease'
  BY <1>14 DEF SupFinds
<1>15. ASSUME NEW j \in Jobs, SupRecord(j) PROVE Lease'
  BY <1>15 DEF SupRecord
<1>16. ASSUME NEW j \in Jobs, SupStop(j) PROVE Lease'
  BY <1>16, TerminateFacts DEF SupStop
<1>17. ASSUME NEW j \in Jobs, SupEscalate(j) PROVE Lease'
  BY <1>17 DEF SupEscalate
<1>18. ASSUME NEW j \in Jobs, RunnerReady(j) PROVE Lease'
  BY <1>18 DEF RunnerReady
<1>19. ASSUME NEW j \in Jobs, RunnerBadSpec(j) PROVE Lease'
  BY <1>19 DEF RunnerBadSpec
<1>20. ASSUME NEW j \in Jobs, RunnerRecordsBad(j) PROVE Lease'
  BY <1>20 DEF RunnerRecordsBad
<1>21. ASSUME NEW j \in Jobs, RunnerReleaseGpu(j) PROVE Lease'
  BY <1>21 DEF RunnerReleaseGpu
<1>22. ASSUME NEW j \in Jobs, RunnerEnd(j) PROVE Lease'
  BY <1>22 DEF RunnerEnd
<1>23. ASSUME NEW j \in Jobs, ProcExit(j) PROVE Lease'
  BY <1>23 DEF ProcExit
<1>24. ASSUME NEW j \in Jobs, ProcDies(j) PROVE Lease'
  BY <1>24 DEF ProcDies
<1>25. ASSUME NEW j \in Jobs, NEW r \in Readers, LookMisses(r, j)
      PROVE  Lease'
  BY <1>25 DEF LookMisses
<1>26. ASSUME NEW j \in Jobs, NEW r \in Readers, LookGuesses(r, j)
      PROVE  Lease'
  BY <1>26 DEF LookGuesses
<1>27. ASSUME NEW j \in Jobs, NEW r \in Readers, LookRecords(r, j)
      PROVE  Lease'
  BY <1>27 DEF LookRecords
<1>28. ASSUME NEW j \in Jobs, NEW r \in Readers, LookEnds(r, j)
      PROVE  Lease'
  BY <1>28 DEF LookEnds
<1>29. CASE WebCrash
  BY <1>29 DEF WebCrash
<1>30. CASE SupDrain
  BY <1>30, TerminateFacts DEF SupDrain
<1>31. CASE SupExit
  BY <1>31 DEF SupExit, SupGone
<1>32. CASE SupCrash
  BY <1>32 DEF SupCrash, SupGone
<1>33. CASE SupUp
  BY <1>33 DEF SupUp
<1>34. CASE UNCHANGED vars
  BY <1>34 DEF vars
<1>35. QED
  BY <1>1, <1>2, <1>3, <1>4, <1>5, <1>6, <1>7, <1>8, <1>9, <1>10, <1>11,
     <1>12, <1>13, <1>14, <1>15, <1>16, <1>17, <1>18, <1>19, <1>20, <1>21,
     <1>22, <1>23, <1>24, <1>25, <1>26, <1>27, <1>28, <1>29, <1>30, <1>31,
     <1>32, <1>33, <1>34
     DEF Next

(* The GPU lease: as long as no GPU launch begins while another one has    *)
(* passed its check and left no pid file yet, at most one GPU job that has *)
(* not released the GPU is alive.                                          *)
THEOREM LeaseHeldByOne == ASSUME ~Overlap PROVE Spec => []GpuExclusive
<1>1. Inv /\ Lease => GpuExclusive
  BY JobsAssumption DEF Lease, GpuExclusive
<1>2. QED
  BY <1>1, InitInv, StepInv, InitLease, StepLease, PTL DEF Spec

-----------------------------------------------------------------------------
(* One step of Jobs as the job files show it.  A step that leaves spec,    *)
(* exit and proc alone shows nothing; the others move the jobs they touch  *)
(* along JobLifecycle, and no job backwards.                               *)
LEMMA ShownTypes ==
  ASSUME TypeOK
  PROVE  /\ Phase \in [Jobs -> L!Phases]
         /\ Shown \in [Jobs -> Records \cup {NoExit}]
BY DEF TypeOK, Phase, Shown, L!Phases, L!Ends

(* What the moves look like in terms of the files and the processes.       *)
Visible(j) ==
  \/ /\ proc'[j] = proc[j] /\ exit'[j] = exit[j]
     /\ (j \in spec') = (j \in spec)
     /\ Late(j)' /\ ~Late(j) => exit[j] = NoExit \/ Alive(j)
  \/ /\ j \notin spec /\ j \in spec'                            \* accepted
     /\ proc[j] = "none" /\ proc'[j] = "none"
     /\ exit[j] = NoExit /\ exit'[j] = NoExit
  \/ /\ j \in spec /\ j \in spec' /\ exit'[j] = exit[j]         \* spawned
     /\ proc[j] = "none" /\ proc'[j] = "booting" /\ exit[j] = NoExit
  \/ /\ j \in spec /\ j \in spec' /\ Alive(j)                   \* runs, ends
     /\ proc'[j] \in {"booting", "failing", "running", "exiting", "dead"}
     /\ exit'[j] \in Records \cup {NoExit}
  \/ /\ j \in spec /\ j \in spec' /\ proc'[j] = proc[j]         \* rejected
     /\ proc[j] = "none" /\ exit[j] = NoExit
     /\ exit'[j] \in Records /\ ~Late(j)'
  \/ /\ j \in spec /\ j \in spec' /\ proc'[j] = proc[j]         \* recorded
     /\ proc[j] = "dead" /\ (exit[j] = NoExit \/ Late(j))
     /\ exit'[j] \in Records

LEMMA VisibleMoves ==
  ASSUME TypeOK, TypeOK', NEW j \in Jobs, Visible(j),
         exit[j] # NoExit => proc[j] # "none" \/ ~Late(j)
  PROVE  L!Move(j) \/ L!Stay(j)
<1> USE DEF TypeOK
<1>a. (Pending(j) = {}) <=> ~Late(j)
  BY PendingFacts
<1>b. Guess(j)' \in Records
  BY RecordsFacts DEF Guess
<1>c. (Pending(j)' = {}) <=> ~Late(j)'
  BY <1>b, RecordsFacts DEF Pending, Late
<1>1. /\ Phase[j] = IF j \notin spec THEN "absent"
                    ELSE IF Alive(j) THEN "running"
                    ELSE IF exit[j] # NoExit
                         THEN IF Pending(j) = {} THEN "settled" ELSE "ended"
                    ELSE IF proc[j] = "dead" THEN "gone" ELSE "accepted"
      /\ Shown[j] = IF Phase[j] \in {"ended", "settled"} THEN exit[j] ELSE NoExit
  BY DEF Phase, Shown
<1>2. /\ Phase'[j] = IF j \notin spec' THEN "absent"
                     ELSE IF Alive(j)' THEN "running"
                     ELSE IF exit'[j] # NoExit
                          THEN IF Pending(j)' = {} THEN "settled" ELSE "ended"
                     ELSE IF proc'[j] = "dead" THEN "gone" ELSE "accepted"
      /\ Shown'[j] = IF Phase'[j] \in {"ended", "settled"} THEN exit'[j] ELSE NoExit
  BY DEF Phase, Shown
<1>3. Alive(j)' <=> proc'[j] \in {"booting", "failing", "running", "exiting"}
  BY DEF Alive
<1>4. QED
  BY <1>a, <1>c, <1>1, <1>2, <1>3, RecordsFacts
     DEF Visible, Alive, L!Move, L!Moves, L!Stay, L!Ends

LEMMA StepVisible == Inv /\ [Next]_vars => \A j \in Jobs : Visible(j)
<1> SUFFICES ASSUME Inv PROVE [Next]_vars => \A j \in Jobs : Visible(j)
  OBVIOUS
<1> USE JobsAssumption, RecordsFacts
    DEF Inv, TypeOK, Stages, InFlight, Starting, Visible, Alive, Late,
        webVars, fileVars, supVars, procVars, SupDown
<1>1. ASSUME NEW i \in Jobs, LaunchCheck(i) PROVE \A j \in Jobs : Visible(j)
  BY <1>1 DEF LaunchCheck
<1>2. ASSUME NEW i \in Jobs, LaunchSpec(i) PROVE \A j \in Jobs : Visible(j)
  BY <1>2 DEF LaunchSpec
<1>3. ASSUME NEW i \in Jobs, LaunchPost(i) PROVE \A j \in Jobs : Visible(j)
  BY <1>3 DEF LaunchPost
<1>4. ASSUME NEW i \in Jobs, LaunchDetached(i) PROVE \A j \in Jobs : Visible(j)
  BY <1>4 DEF LaunchDetached
<1>5. ASSUME NEW i \in Jobs, LaunchOk(i) PROVE \A j \in Jobs : Visible(j)
  BY <1>5 DEF LaunchOk
<1>6. ASSUME NEW i \in Jobs, LaunchRejected(i) PROVE \A j \in Jobs : Visible(j)
  BY <1>6 DEF LaunchRejected
<1>7. ASSUME NEW i \in Jobs, LaunchRaised(i) PROVE \A j \in Jobs : Visible(j)
  BY <1>7 DEF LaunchRaised
<1>8. ASSUME NEW i \in Jobs, StopDirect(i) PROVE \A j \in Jobs : Visible(j)
  BY <1>8, TerminateFacts DEF StopDirect
<1>9. ASSUME NEW i \in Jobs, SupStart(i) PROVE \A j \in Jobs : Visible(j)
  BY <1>9 DEF SupStart, LeaseHolders
<1>10. ASSUME NEW i \in Jobs, SupUnloaded(i) PROVE \A j \in Jobs : Visible(j)
  BY <1>10 DEF SupUnloaded
<1>11. ASSUME NEW i \in Jobs, SupFork(i) PROVE \A j \in Jobs : Visible(j)
  BY <1>11 DEF SupFork
<1>12. ASSUME NEW i \in Jobs, SupRegister(i) PROVE \A j \in Jobs : Visible(j)
  BY <1>12 DEF SupRegister
<1>13. ASSUME NEW i \in Jobs, SupReap(i) PROVE \A j \in Jobs : Visible(j)
  BY <1>13 DEF SupReap
<1>14. ASSUME NEW i \in Jobs, SupFinds(i) PROVE \A j \in Jobs : Visible(j)
  BY <1>14 DEF SupFinds
<1>15. ASSUME NEW i \in Jobs, SupRecord(i) PROVE \A j \in Jobs : Visible(j)
  BY <1>15, PublishFacts, GuessFacts DEF SupRecord
<1>16. ASSUME NEW i \in Jobs, SupStop(i) PROVE \A j \in Jobs : Visible(j)
  BY <1>16, TerminateFacts DEF SupStop
<1>17. ASSUME NEW i \in Jobs, SupEscalate(i) PROVE \A j \in Jobs : Visible(j)
  BY <1>17 DEF SupEscalate
<1>18. ASSUME NEW i \in Jobs, RunnerReady(i) PROVE \A j \in Jobs : Visible(j)
  BY <1>18 DEF RunnerReady
<1>19. ASSUME NEW i \in Jobs, RunnerBadSpec(i) PROVE \A j \in Jobs : Visible(j)
  BY <1>19 DEF RunnerBadSpec
<1>20. ASSUME NEW i \in Jobs, RunnerRecordsBad(i) PROVE \A j \in Jobs : Visible(j)
  BY <1>20, PublishFacts DEF RunnerRecordsBad
<1>21. ASSUME NEW i \in Jobs, RunnerReleaseGpu(i) PROVE \A j \in Jobs : Visible(j)
  BY <1>21 DEF RunnerReleaseGpu
<1>22. ASSUME NEW i \in Jobs, RunnerEnd(i) PROVE \A j \in Jobs : Visible(j)
  BY <1>22, PublishFacts DEF RunnerEnd
<1>23. ASSUME NEW i \in Jobs, ProcExit(i) PROVE \A j \in Jobs : Visible(j)
  BY <1>23 DEF ProcExit
<1>24. ASSUME NEW i \in Jobs, ProcDies(i) PROVE \A j \in Jobs : Visible(j)
  BY <1>24 DEF ProcDies
<1>25. ASSUME NEW i \in Jobs, NEW r \in Readers, LookMisses(r, i)
      PROVE  \A j \in Jobs : Visible(j)
  BY <1>25 DEF LookMisses
<1>26. ASSUME NEW i \in Jobs, NEW r \in Readers, LookGuesses(r, i)
      PROVE  \A j \in Jobs : Visible(j)
  BY <1>26 DEF LookGuesses
<1>27. ASSUME NEW i \in Jobs, NEW r \in Readers, LookRecords(r, i)
      PROVE  \A j \in Jobs : Visible(j)
  BY <1>27, PublishFacts DEF LookRecords
<1>28. ASSUME NEW i \in Jobs, NEW r \in Readers, LookEnds(r, i)
      PROVE  \A j \in Jobs : Visible(j)
  BY <1>28 DEF LookEnds
<1>29. CASE WebCrash
  BY <1>29 DEF WebCrash
<1>30. CASE SupDrain
  BY <1>30, TerminateFacts DEF SupDrain
<1>31. CASE SupExit
  BY <1>31 DEF SupExit, SupGone
<1>32. CASE SupCrash
  BY <1>32 DEF SupCrash, SupGone
<1>33. CASE SupUp
  BY <1>33 DEF SupUp
<1>34. CASE UNCHANGED vars
  BY <1>34 DEF vars
<1>35. QED
  BY <1>1, <1>2, <1>3, <1>4, <1>5, <1>6, <1>7, <1>8, <1>9, <1>10, <1>11,
     <1>12, <1>13, <1>14, <1>15, <1>16, <1>17, <1>18, <1>19, <1>20, <1>21,
     <1>22, <1>23, <1>24, <1>25, <1>26, <1>27, <1>28, <1>29, <1>30, <1>31,
     <1>32, <1>33, <1>34
     DEF Next

(* The job files implement JobLifecycle: rejected launches never run, no   *)
(* job runs twice, what is shown as ended stays ended, and its record is   *)
(* final once no writer is left that had found none.                       *)
THEOREM JobsImplementLifecycle == Spec => Lifecycle
<1>1. Init => L!Init
  BY DEF Init, L!Init, Phase, Shown, Alive
<1>2. Inv /\ Inv' /\ [Next]_vars => [L!Next]_(L!vars)
  <2> SUFFICES ASSUME Inv, Inv', [Next]_vars PROVE L!Next
    OBVIOUS
  <2>1. /\ Phase' \in [Jobs -> L!Phases]
        /\ Shown' \in [Jobs -> Records \cup {NoExit}]
    BY DEF Inv, TypeOK, Phase, Shown, L!Phases, L!Ends
  <2>2. \A j \in Jobs : L!Move(j) \/ L!Stay(j)
    <3>1. \A j \in Jobs : exit[j] # NoExit => proc[j] # "none" \/ ~Late(j)
      BY DEF Inv, Stages, Late
    <3> QED BY <3>1, StepVisible, VisibleMoves DEF Inv
  <2>3. QED
    BY <2>1, <2>2 DEF L!Next
<1>3. QED
  BY <1>1, <1>2, InitInv, StepInv, PTL DEF Spec, Lifecycle, L!Spec
-----------------------------------------------------------------------------
(* A watcher that is through has left a record, or found one.              *)
Recorded == \A j \in Jobs : table[j] = "recorded" => exit[j] # NoExit

LEMMA OnlyRecordMarks ==
  ASSUME TypeOK, [Next]_vars, NEW j \in Jobs, table'[j] = "recorded"
  PROVE  table[j] = "recorded" \/ SupFinds(j) \/ SupRecord(j)
<1> USE DEF TypeOK, supVars
<1>1. ASSUME NEW i \in Jobs,
             LaunchCheck(i) \/ LaunchSpec(i) \/ LaunchPost(i) \/ LaunchDetached(i)
               \/ LaunchOk(i) \/ LaunchRejected(i) \/ LaunchRaised(i)
               \/ StopDirect(i)
      PROVE  table' = table
  BY <1>1 DEF LaunchCheck, LaunchSpec, LaunchPost, LaunchDetached, LaunchOk,
     LaunchRejected, LaunchRaised, StopDirect
<1>2. ASSUME NEW i \in Jobs,
             SupStart(i) \/ SupUnloaded(i) \/ SupFork(i) \/ SupStop(i)
               \/ SupEscalate(i) \/ RunnerReady(i) \/ RunnerBadSpec(i)
               \/ RunnerRecordsBad(i) \/ RunnerReleaseGpu(i) \/ RunnerEnd(i)
               \/ ProcExit(i) \/ ProcDies(i)
      PROVE  table' = table
  BY <1>2 DEF SupStart, SupUnloaded, SupFork, SupStop, SupEscalate, RunnerReady,
     RunnerBadSpec, RunnerRecordsBad, RunnerReleaseGpu, RunnerEnd, ProcExit,
     ProcDies
<1>3. ASSUME NEW i \in Jobs, SupRegister(i) \/ SupReap(i)
      PROVE  table[j] = "recorded"
  BY <1>3 DEF SupRegister, SupReap
<1>4. ASSUME NEW i \in Jobs, SupFinds(i) \/ SupRecord(i)
      PROVE  table[j] = "recorded" \/ SupFinds(j) \/ SupRecord(j)
  BY <1>4 DEF SupFinds, SupRecord
<1>5. ASSUME WebCrash \/ SupDrain \/ SupUp PROVE table' = table
  BY <1>5 DEF WebCrash, SupDrain, SupUp
<1>6. ~(SupExit \/ SupCrash)
  BY DEF SupExit, SupCrash, SupGone
<1>7. ASSUME UNCHANGED vars PROVE table' = table
  BY <1>7 DEF vars
<1>8. ASSUME NEW i \in Jobs, NEW r \in Readers,
             LookMisses(r, i) \/ LookGuesses(r, i) \/ LookRecords(r, i) \/ LookEnds(r, i)
      PROVE  table' = table
  BY <1>8 DEF LookMisses, LookGuesses, LookRecords, LookEnds
<1> QED BY <1>1, <1>2, <1>3, <1>4, <1>5, <1>6, <1>7, <1>8 DEF Next

LEMMA StepRecorded == Inv /\ Recorded /\ [Next]_vars => Recorded'
<1> SUFFICES ASSUME Inv, Recorded, [Next]_vars,
                    NEW j \in Jobs, table'[j] = "recorded"
             PROVE  exit'[j] # NoExit
  BY DEF Recorded
<1>1. CASE table[j] = "recorded"
  <2>1. proc[j] = "dead" /\ exit[j] # NoExit
    BY <1>1 DEF Inv, Stages, Recorded
  <2> QED BY <2>1, StepVisible, RecordsFacts DEF Visible, Alive
<1>2. CASE SupFinds(j)
  BY <1>2 DEF Inv, TypeOK, SupFinds, fileVars
<1>3. CASE SupRecord(j)
  BY <1>3, PublishFacts, GuessFacts DEF Inv, SupRecord
<1> QED BY <1>1, <1>2, <1>3, OnlyRecordMarks DEF Inv

(* A supervisor that has shut down leaves no job it waited for without its *)
(* end and its record (JobTable.shutdown).                                 *)
THEOREM ShutdownWaits == Spec => DrainWaits
<1>1. Init => Recorded
  BY DEF Init, Recorded
<1>2. Inv /\ Recorded /\ [Next]_vars =>
        [sup = "draining" /\ sup' = "down" =>
           \A j \in awaited : ~Alive(j) /\ exit[j] # NoExit]_vars
  <2> SUFFICES ASSUME Inv, Recorded, [Next]_vars, sup = "draining", sup' = "down",
                      NEW j \in awaited
               PROVE  ~Alive(j) /\ exit[j] # NoExit
    OBVIOUS
  <2>1. SupExit
    BY DEF Next, webVars, supVars, vars, LaunchCheck, LaunchSpec, LaunchPost,
       LaunchDetached, LaunchOk, LaunchRejected, LaunchRaised, StopDirect,
       LookMisses, LookGuesses, LookRecords, LookEnds, SupStart, SupUnloaded, SupFork, SupRegister, SupReap,
       SupFinds, SupRecord, SupStop, SupEscalate, RunnerReady, RunnerBadSpec,
       RunnerRecordsBad,
       RunnerReleaseGpu, RunnerEnd, ProcExit, ProcDies, WebCrash, SupDrain,
       SupCrash, SupGone, SupUp
  <2>2. j \in Jobs /\ table[j] = "recorded"
    BY <2>1 DEF SupExit, Inv, TypeOK
  <2> QED BY <2>2 DEF Inv, Stages, Recorded, Alive
<1> QED BY <1>1, <1>2, InitInv, StepInv, StepRecorded, PTL DEF Spec, DrainWaits
=============================================================================
