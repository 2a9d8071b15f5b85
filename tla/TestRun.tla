------------------------------ MODULE TestRun -------------------------------
(***************************************************************************)
(* A test run of one model and the judging of its answers                  *)
(* (webui/testing_jobs.py): two jobs that use the inference worker's model *)
(* without a lock, while other pages load models into it.  The web app and *)
(* the run's own job both start judges.                                    *)
(***************************************************************************)
EXTENDS Naturals, FiniteSets

CONSTANTS Cases,     \* how many questions the suite has
          MaxSwaps   \* bound: loads by other pages, and failed status reads

ASSUME TestAssumption == Cases \in Nat \ {0} /\ MaxSwaps \in Nat

(* Who starts a judge: a page for this row or for another, or the run.     *)
Judges == {"web", "other", "chained"}

VARIABLES
  bench,     \* status of the benchmark row
  judging,   \* its judge_status
  tester,    \* the test run's job: none, loading, between, asking, closing,
             \*   closed, dead
  at,        \* cases asked
  loaded,    \* the model in the worker: tested or other
  local,     \* the judge is a model of the worker, not a remote one
  auto,      \* the run chains its judge
  halting,   \* the job's stop event
  foreign,   \* answers of another model (not in the code)
  swaps,     \* loads by other pages, and loads over the tested model
  misread,   \* status reads that failed
  starting,  \* starters of a judge that have passed the busy check
  sent,      \* judges whose POST /v1/jobs the supervisor is serving
  late,      \* judges whose starter gave up that POST, or died in it
  judges     \* judge jobs alive

testVars == <<bench, judging, tester, at, loaded, local, auto, halting, foreign,
              swaps, misread, starting, sent, late, judges>>

worker == <<loaded, swaps, misread, foreign>>

judgeSide == <<starting, sent, late, judges>>

choices == <<local, auto>>

TestInit ==
  /\ bench = "none" /\ judging = "none" /\ tester = "none" /\ at = 0
  /\ loaded = "other" /\ local \in BOOLEAN /\ auto \in BOOLEAN
  /\ halting = FALSE /\ foreign = 0 /\ swaps = 0 /\ misread = 0
  /\ starting = {} /\ sent = {} /\ late = {} /\ judges = {}

TesterAlive == tester \notin {"none", "dead"}

-----------------------------------------------------------------------------
(* launch_run and launch_judge hold the event loop until the launch is     *)
(* answered or given up.                                                   *)
WebFree == (starting \cup sent) \ late \subseteq {"chained"}

(* Slip: only another test run is in the way.                              *)
LaunchRunAnyway ==
  /\ tester = "none" /\ WebFree
  /\ bench' = "running" /\ tester' = "loading"
  /\ UNCHANGED <<judging, at, halting, worker, choices, judgeSide>>

(* launch_run: no local judge is alive.  The launch may be refused, or     *)
(* raise what nobody catches: the row then says running without a job.     *)
LaunchRun ==
  /\ tester = "none" /\ WebFree /\ (local => judges = {})
  /\ \/ bench' = "running" /\ tester' \in {"loading", "dead"}
     \/ bench' = "failed" /\ tester' = "dead"
  /\ UNCHANGED <<judging, at, halting, worker, choices, judgeSide>>

(* _load_model; a load that fails fails the run. *)
LoadsTested ==
  /\ tester = "loading"
  /\ \/ tester' = "between" /\ loaded' = "tested" /\ UNCHANGED bench
     \/ tester' = "closed" /\ loaded' = "other" /\ bench' = "failed"
  /\ UNCHANGED <<judging, at, halting, foreign, swaps, misread, choices, judgeSide>>

(* should_stop before each case, and the end of _execute_run: stopped,     *)
(* replaced, or through.  A status read that failed is not a swap.         *)
Stops(seen) ==
  IF halting THEN "cancelled"
  ELSE IF at < Cases /\ seen # "tested" THEN "failed" ELSE "done"

(* Slip: the model is looked at before the first case only.                *)
NextCaseOnce ==
  /\ tester = "between"
  /\ IF at < Cases /\ ~halting /\ (at = 0 => loaded = "tested")
     THEN tester' = "asking" /\ UNCHANGED bench
     ELSE tester' = "closed" /\ bench' = Stops("tested")
  /\ UNCHANGED <<judging, at, halting, worker, choices, judgeSide>>

NextCase ==
  /\ tester = "between"
  /\ \E failed \in BOOLEAN :
       /\ failed => misread < MaxSwaps
       /\ misread' = IF failed THEN misread + 1 ELSE misread
       /\ LET seen == IF failed THEN "tested" ELSE loaded IN
            IF at < Cases /\ ~halting /\ seen = "tested"
            THEN tester' = "asking" /\ UNCHANGED bench
            ELSE tester' = "closed" /\ bench' = Stops(seen)
  /\ UNCHANGED <<judging, at, halting, loaded, swaps, foreign, choices, judgeSide>>

(* run_case: whatever model the worker holds answers. *)
Answers ==
  /\ tester = "asking"
  /\ tester' = "between" /\ at' = at + 1
  /\ foreign' = IF loaded = "tested" THEN foreign ELSE foreign + 1
  /\ UNCHANGED <<bench, judging, halting, loaded, swaps, misread, choices, judgeSide>>

(* A page loads its model, or the tested one again, or unloads. *)
OtherLoads ==
  /\ swaps < MaxSwaps /\ swaps' = swaps + 1
  /\ loaded' \in {"tested", "other"} /\ loaded' # loaded
  /\ UNCHANGED <<bench, judging, tester, at, halting, misread, foreign, choices, judgeSide>>

CancelRun ==
  /\ TesterAlive /\ ~halting /\ halting' = TRUE
  /\ UNCHANGED <<bench, judging, tester, at, worker, choices, judgeSide>>

-----------------------------------------------------------------------------
(* The judges of this row. *)
Ours == judges \ {"other"}

(* _assert_free of launch_judge: the row is not judged, and a local judge  *)
(* finds no other job on the card; the chaining run is not in its own way. *)
FreeFor(j) ==
  /\ j # "other" => Ours = {}
  /\ local => judges = {} /\ (j # "chained" => ~TesterAlive)

(* launch_judge up to its update of the row: it sees the judges that are   *)
(* alive, not the launches on their way.                                   *)
JudgeChecks(j) ==
  /\ j \notin starting \cup sent \cup judges /\ FreeFor(j)
  /\ IF j = "chained" THEN tester = "closed" /\ bench = "done" /\ auto ELSE WebFree
  /\ j # "other" => bench \notin {"none", "running"} /\ at > 0
  /\ starting' = starting \cup {j}
  /\ judging' = IF j = "other" THEN judging ELSE "running"
  /\ tester' = IF j = "chained" THEN "chaining" ELSE tester
  /\ UNCHANGED <<bench, at, halting, worker, choices, sent, late, judges>>

(* A chained judge that finds the row busy. *)
ChainRefused ==
  /\ tester = "closed" /\ bench = "done" /\ auto /\ ~FreeFor("chained")
  /\ judging' = "failed" /\ tester' = "chaining"
  /\ UNCHANGED <<bench, at, halting, worker, choices, judgeSide>>

(* The starter's row, unless the judge is one of another row. *)
Says(j, status) == IF j = "other" THEN judging ELSE status

(* launch_judge_rows, launch.start: the lease of the card, in the job      *)
(* files and in the supervisor's table, refuses a second local judge.      *)
JudgePosts(j) ==
  /\ j \in starting /\ starting' = starting \ {j}
  /\ IF local /\ judges # {}
     THEN judging' = Says(j, "failed") /\ UNCHANGED sent
     ELSE sent' = sent \cup {j} /\ UNCHANGED judging
  /\ UNCHANGED <<bench, tester, at, halting, worker, choices, late, judges>>

(* A model that was in the worker is not any more. *)
Evicts == /\ loaded' = "other"
          /\ swaps' = IF loaded = "tested" THEN swaps + 1 ELSE swaps

(* The supervisor unloads the worker's model for a local judge ... *)
LeaseUnloads(j) ==
  /\ j \in sent /\ local /\ loaded = "tested" /\ Evicts
  /\ UNCHANGED <<bench, judging, tester, at, halting, misread, foreign, choices, judgeSide>>

(* ... and starts it, whether or not its starter still waits; its model is *)
(* loaded as it appears.                                                   *)
JudgeAppears(j) ==
  /\ j \in sent /\ sent' = sent \ {j} /\ judges' = judges \cup {j}
  /\ IF local THEN Evicts ELSE UNCHANGED <<loaded, swaps>>
  /\ UNCHANGED <<bench, judging, tester, at, halting, misread, foreign, choices,
                 starting, late>>

(* The fork fails, or the supervisor dies first.  Who still waits is told: *)
(* a page writes a refusal to the row, but not a dead supervisor.          *)
JudgeFails(j) ==
  /\ j \in sent /\ sent' = sent \ {j} /\ late' = late \ {j}
  /\ judging' \in IF j \in late THEN {judging}
                  ELSE {Says(j, "failed")} \cup {judging : x \in {j} \ {"chained"}}
  /\ UNCHANGED <<bench, tester, at, halting, worker, choices, starting, judges>>

(* The unload may take 60 s, the client of the POST waits for 30.  A page  *)
(* does not catch SupervisorUnavailable, the run that chains a judge does. *)
LaunchGivenUp(j) ==
  /\ j \in sent \ late /\ local
  /\ late' = late \cup {j}
  /\ judging' = IF j = "chained" THEN "failed" ELSE judging
  /\ UNCHANGED <<bench, tester, at, halting, worker, choices, starting, sent, judges>>

(* judge_in_job: unloads its model at the end, and writes its result. *)
JudgeEnds(j, result) ==
  /\ j \in judges /\ judges' = judges \ {j} /\ late' = late \ {j}
  /\ judging' = Says(j, result)
  /\ IF local THEN Evicts ELSE UNCHANGED <<loaded, swaps>>
  /\ UNCHANGED <<bench, tester, at, halting, misread, foreign, choices, starting, sent>>

RunJobExits ==
  /\ \/ tester = "chaining" /\ "chained" \notin starting \cup (sent \ late)
     \/ tester = "closed" /\ ~(bench = "done" /\ auto)
  /\ tester' = "dead"
  /\ UNCHANGED <<bench, judging, at, halting, worker, choices, judgeSide>>

(* A judge it has posted starts all the same. *)
RunJobKilled ==
  /\ TesterAlive /\ tester' = "dead" /\ starting' = starting \ {"chained"}
  /\ late' = late \cup (sent \cap {"chained"})
  /\ UNCHANGED <<bench, judging, at, halting, worker, choices, sent, judges>>

JudgeKilled(j) ==
  /\ j \in judges /\ judges' = judges \ {j} /\ late' = late \ {j}
  /\ UNCHANGED <<bench, judging, tester, at, halting, worker, choices, starting, sent>>

(* The web app starts again: its launches are lost or late, and            *)
(* reconcile_stale_benchmarks fails the row unless a job of it is alive.   *)
WebRestarts ==
  LET stale(status) == status = "running" /\ ~TesterAlive /\ Ours = {} IN
  /\ bench' = IF stale(bench) THEN "failed" ELSE bench
  /\ judging' = IF stale(judging) THEN "failed" ELSE judging
  /\ starting' = starting \cap {"chained"}
  /\ late' = late \cup (sent \ {"chained"})
  /\ UNCHANGED <<tester, at, halting, worker, choices, sent, judges>>

TestNext ==
  \/ LaunchRun \/ LoadsTested \/ NextCase \/ Answers \/ OtherLoads \/ CancelRun
  \/ ChainRefused \/ RunJobExits \/ RunJobKilled \/ WebRestarts
  \/ \E j \in Judges :
       \/ JudgeChecks(j) \/ JudgePosts(j) \/ LeaseUnloads(j) \/ JudgeAppears(j)
       \/ JudgeFails(j) \/ LaunchGivenUp(j) \/ JudgeKilled(j)
       \/ \E r \in {"done", "failed", "cancelled"} : JudgeEnds(j, r)

TestSpec == TestInit /\ [][TestNext]_testVars

-----------------------------------------------------------------------------
(* Every variable has its type.                                            *)
TestTypeOK ==
  /\ bench \in {"none", "running", "done", "failed", "cancelled"}
  /\ judging \in {"none", "running", "done", "failed", "cancelled"}
  /\ tester \in {"none", "loading", "between", "asking", "closed", "chaining", "dead"}
  /\ at \in 0..Cases /\ foreign \in 0..Cases
  /\ loaded \in {"tested", "other"}
  /\ {local, auto, halting} \subseteq BOOLEAN
  /\ swaps \in Nat /\ misread \in 0..MaxSwaps
  /\ starting \cup sent \cup judges \subseteq Judges /\ late \subseteq sent \cup judges

(* Other pages and judges may load models during a run: each load over the *)
(* tested model, and each status that could not be read, puts at most one  *)
(* answer of another model under the tested one's name.                    *)
SwapCostsOne ==
  foreign <= swaps + misread

(* Who has its model in the worker, or is about to ask it: the run, and    *)
(* the judges if they are local.                                           *)
OnCard == {"loading", "between", "asking"}
Card   == (IF local THEN judges ELSE {}) \cup {r \in {"run"} : tester \in OnCard}

(* "card-using testing jobs exclude each other" (testing_jobs.py:133), as  *)
(* far as it is true: of two that do use the card at the same time, one    *)
(* comes from a launch that its starter took for failed.                   *)
CardExclusive ==
  Cardinality(Card \ late) <= 1

(* The same sentence, of all of them.                                      *)
CardAlone ==
  Cardinality(Card) <= 1

(* "the run then stops at the next case and fails saying so, instead of    *)
(* recording a different model's answers under this one's name" (:247).    *)
AnswersOfModel ==
  bench = "done" => foreign = 0

(* "the same row is never run or judged twice at once" (:133).             *)
JudgedOnce ==
  Cardinality(Ours) <= 1
=============================================================================
