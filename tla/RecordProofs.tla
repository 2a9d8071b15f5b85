---------------------------- MODULE RecordProofs ----------------------------
(***************************************************************************)
(* Proofs about the jobs: Training, for every form of a run; TestRun, for  *)
(* any number of cases and of loads by other pages; and one job of the     *)
(* mining worker (MiningJob): its types, that no question is written       *)
(* twice, and that "done" means stated.  And about MCRecords as a whole,   *)
(* with the invariants of every part.                                      *)
(***************************************************************************)
EXTENDS MCRecords, LibraryProofs, GgufProofs, ChunkProofs

-----------------------------------------------------------------------------
(* Training.                                                               *)

RunTypes ==
  /\ run \in {"none", "active", "done", "stopped", "failed"}
  /\ want \in Wants
  /\ trainer \in {"none", "alive", "dead"}
  /\ phase \in {"load", "train", "stopsave", "save", "merge", "gguf", "suite", "exit"}
  /\ adapter \in {"none", "half", "whole"} /\ merged \in Merges /\ gguf \in Ggufs
  /\ exporter \in {"idle", "merge", "convert"}
  /\ exported \in Ggufs

(* The row is final once the trainer leaves; exports come after it.        *)
RowFollows ==
  /\ trainer = "none" => run = "none" /\ phase = "load" /\ gguf = "none"
  /\ run \in {"done", "stopped"} => phase = "exit" /\ trainer # "none"
  /\ exporter # "idle" => trainer = "dead"
  /\ phase = "load" => ~worked

(* What a run that is alive has made so far: after the merge, a merge that *)
(* is not whole is an error, and so is a GGUF that is not whole at the end.*)
MadeSoFar ==
  trainer = "alive" =>
    /\ phase \in {"load", "train", "stopsave", "save"} => gguf = "none"
    /\ phase = "merge" => gguf = "none"
    /\ phase \in {"merge", "gguf", "suite"} => adapter = "whole"
    /\ phase = "gguf" => gguf \in {"none", "half"} /\ (soft \/ merged = "whole")
    /\ phase = "suite" =>
         soft \/ ((want.merge => merged = "whole") /\ (want.gguf => gguf = "whole"))

RunInv == RunTypes /\ RowFollows /\ MadeSoFar /\ RowIsHonest

LEMMA RunInit == TrainInit => RunInv
BY DEF TrainInit, RunInv, RunTypes, RowFollows, MadeSoFar, RowIsHonest, DoneIsHonest,
   StoppedKeepsWork, Merges, Ggufs

LEMMA RunStep == RunInv /\ [TrainNext]_trainingVars => RunInv'
<1> SUFFICES ASSUME RunInv, [TrainNext]_trainingVars PROVE RunInv'
  OBVIOUS
<1> USE DEF RunInv, RunTypes, RowFollows, MadeSoFar, RowIsHonest, DoneIsHonest,
        StoppedKeepsWork, Merges, Ggufs, artifacts, exports, At, Ends, Fails
<1>1. CASE StartRun \/ StopRun
  BY <1>1 DEF StartRun, StopRun
<1>2. CASE Loads
  BY <1>2 DEF Loads
<1>3. CASE Trains
  BY <1>3 DEF Trains
<1>4. CASE StopSaves
  BY <1>4 DEF StopSaves
<1>5. CASE Saves
  BY <1>5 DEF Saves
<1>6. CASE MergesModel
  BY <1>6 DEF MergesModel
<1>7. CASE ExportsGguf
  BY <1>7 DEF ExportsGguf
<1>8. CASE Finishes
  BY <1>8 DEF Finishes
<1>9. CASE RunExits \/ RunKilled
  BY <1>9 DEF RunExits, RunKilled
<1>10. CASE ReconcileRun
  BY <1>10 DEF ReconcileRun
<1>11. CASE ExportBegins
  BY <1>11 DEF ExportBegins
<1>12. CASE ExportMerges
  BY <1>12 DEF ExportMerges
<1>13. CASE ExportConverts
  BY <1>13 DEF ExportConverts
<1>14. CASE UNCHANGED trainingVars
  BY <1>14 DEF trainingVars
<1> QED
  BY <1>1, <1>2, <1>3, <1>4, <1>5, <1>6, <1>7, <1>8, <1>9, <1>10, <1>11, <1>12,
     <1>13, <1>14 DEF TrainNext, TrainMoves

RunFlags == {noted, halt, soft, worked, lost} \subseteq BOOLEAN

LEMMA FlagStep == RunFlags /\ [TrainNext]_trainingVars => RunFlags'
<1> SUFFICES ASSUME RunFlags, [TrainNext]_trainingVars PROVE RunFlags'
  OBVIOUS
<1> USE DEF RunFlags, artifacts, exports, Ends, Fails
<1>1. CASE StartRun \/ StopRun \/ Loads \/ Trains
  BY <1>1 DEF StartRun, StopRun, Loads, Trains
<1>2. CASE StopSaves \/ Saves
  BY <1>2 DEF StopSaves, Saves
<1>3. CASE MergesModel \/ ExportsGguf
  BY <1>3 DEF MergesModel, ExportsGguf
<1>4. CASE Finishes
  <2>1. PICK quiz \in BOOLEAN : soft' = (soft \/ ~quiz) /\ noted' = (noted \/ soft')
    BY <1>4 DEF Finishes
  <2>2. halt' = halt /\ worked' = worked /\ lost' = lost
    BY <1>4 DEF Finishes
  <2> QED BY <2>1, <2>2
<1>5. CASE RunExits \/ RunKilled \/ ReconcileRun
  BY <1>5 DEF RunExits, RunKilled, ReconcileRun
<1>6. CASE ExportBegins \/ ExportMerges \/ ExportConverts
  BY <1>6 DEF ExportBegins, ExportMerges, ExportConverts
<1>7. CASE UNCHANGED trainingVars
  BY <1>7 DEF trainingVars
<1> QED
  BY <1>1, <1>2, <1>3, <1>4, <1>5, <1>6, <1>7 DEF TrainNext, TrainMoves

(* Every variable of a training run has its type (training/engine.py,      *)
(* run_persistence.py, run_export.py).                                     *)
THEOREM RunsAreTyped == TrainSpec => []TrainTypeOK
<1>1. TrainInit => RunFlags
  BY DEF TrainInit, RunFlags
<1>2. RunInv /\ RunFlags => TrainTypeOK
  BY DEF RunInv, RunTypes, RunFlags, TrainTypeOK
<1> QED BY <1>1, <1>2, RunInit, RunStep, FlagStep, PTL DEF TrainSpec

(* A run's row promises no more than its directory has                     *)
(* (training/engine.py _train, run_persistence.py), whatever was asked for *)
(* and whenever it is stopped, killed, reconciled or exported.             *)
THEOREM RowsAreHonest == TrainSpec => []RowIsHonest
<1>1. RunInv => RowIsHonest
  BY DEF RunInv
<1> QED BY <1>1, RunInit, RunStep, PTL DEF TrainSpec

-----------------------------------------------------------------------------
(* TestRun.                                                                *)

(* The judges that are on their way or there, of launches not given up.    *)
Claims == (starting \cup sent \cup judges) \ late

Tracked ==
  /\ starting \cup sent \cup judges \subseteq Judges
  /\ late \subseteq sent \cup judges
  /\ starting \cap (sent \cup judges) = {} /\ sent \cap judges = {}
  /\ "chained" \in (starting \cup sent) \ late => tester = "chaining"

(* While a run lives no claim is anyone's but the judge's that it chains,  *)
(* and that one is made when it asks no more.                              *)
OneClaim ==
  local => /\ \A j, k \in Claims : j = k
           /\ TesterAlive => Claims \subseteq {"chained"}
           /\ tester \in OnCard => Claims = {}

OneOnCard == Tracked /\ OneClaim

(* Steps that make no claim and put no run on the card.                    *)
LEMMA NoNewClaim ==
  ASSUME OneOnCard, Tracked', local' = local, Claims' \subseteq Claims,
         TesterAlive' => TesterAlive, tester' \in OnCard => tester \in OnCard
  PROVE  OneOnCard'
  BY DEF OneOnCard, OneClaim

LEMMA JudgeClaims ==
  ASSUME OneOnCard, NEW j \in Judges,
         \/ JudgeChecks(j) \/ JudgePosts(j) \/ LeaseUnloads(j) \/ JudgeAppears(j)
         \/ JudgeFails(j) \/ LaunchGivenUp(j) \/ JudgeKilled(j)
         \/ \E r \in {"done", "failed", "cancelled"} : JudgeEnds(j, r)
  PROVE  OneOnCard'
<1> USE DEF OneOnCard, Tracked, Claims, TesterAlive, OnCard, worker, judgeSide, choices
<1>1. CASE JudgeChecks(j)
  <2>1. Tracked' /\ Claims' = Claims \cup {j} /\ local' = local
    BY <1>1 DEF JudgeChecks
  <2>2. CASE j = "chained"
    <3>1. tester = "closed" /\ tester' = "chaining" /\ j \notin Claims
      BY <1>1, <2>2 DEF JudgeChecks
    <3>2. local => Claims = {}
      BY <2>2, <3>1 DEF OneClaim
    <3> HIDE DEF Claims
    <3> QED BY <2>1, <2>2, <3>1, <3>2 DEF OneClaim
  <2>3. CASE j # "chained"
    <3>1. tester' = tester /\ WebFree /\ (local => judges = {} /\ ~TesterAlive)
      BY <1>1, <2>3 DEF JudgeChecks, FreeFor
    <3>2. local => Claims = {}
      BY <3>1 DEF WebFree
    <3> HIDE DEF Claims
    <3> QED BY <2>1, <3>1, <3>2 DEF OneClaim
  <2> QED BY <2>2, <2>3
<1>2. CASE JudgePosts(j)
  <2>1. Tracked' /\ Claims' \subseteq Claims /\ local' = local /\ tester' = tester
    BY <1>2 DEF JudgePosts
  <2> QED BY <2>1, NoNewClaim
<1>3. CASE LeaseUnloads(j) \/ LaunchGivenUp(j)
  <2>1. Tracked' /\ Claims' \subseteq Claims /\ local' = local /\ tester' = tester
    BY <1>3 DEF LeaseUnloads, LaunchGivenUp
  <2> QED BY <2>1, NoNewClaim
<1>4. CASE JudgeAppears(j)
  <2>1. Tracked' /\ Claims' \subseteq Claims /\ local' = local /\ tester' = tester
    BY <1>4 DEF JudgeAppears
  <2> QED BY <2>1, NoNewClaim
<1>5. CASE JudgeFails(j)
  <2>1. Tracked' /\ Claims' \subseteq Claims /\ local' = local /\ tester' = tester
    BY <1>5 DEF JudgeFails
  <2> QED BY <2>1, NoNewClaim
<1>6. CASE JudgeKilled(j)
  <2>1. Tracked' /\ Claims' \subseteq Claims /\ local' = local /\ tester' = tester
    BY <1>6 DEF JudgeKilled
  <2> QED BY <2>1, NoNewClaim
<1>7. ASSUME NEW r \in {"done", "failed", "cancelled"}, JudgeEnds(j, r) PROVE OneOnCard'
  <2>1. Tracked' /\ Claims' \subseteq Claims /\ local' = local /\ tester' = tester
    BY <1>7 DEF JudgeEnds
  <2> QED BY <2>1, NoNewClaim
<1> QED BY <1>1, <1>2, <1>3, <1>4, <1>5, <1>6, <1>7

LEMMA CardStep == OneOnCard /\ [TestNext]_testVars => OneOnCard'
<1> SUFFICES ASSUME OneOnCard, [TestNext]_testVars PROVE OneOnCard'
  OBVIOUS
<1> USE DEF worker, judgeSide, choices
<1>1. CASE LaunchRun
  <2>1. /\ tester = "none" /\ WebFree /\ (local => judges = {})
        /\ tester' \in {"loading", "dead"}
        /\ UNCHANGED <<local, starting, sent, judges, late>>
    BY <1>1 DEF LaunchRun
  <2>2. Tracked'
    BY <2>1 DEF OneOnCard, Tracked
  <2>3. local => Claims' = {}
    BY <2>1 DEF WebFree, OneOnCard, Tracked, Claims
  <2> QED BY <2>1, <2>2, <2>3 DEF OneOnCard, OneClaim
<1>2. ASSUME UNCHANGED <<local, starting, sent, judges, late>>,
             TesterAlive' => TesterAlive, tester' \in OnCard => tester \in OnCard,
             tester = "chaining" => tester' = "chaining" \/
                                    "chained" \notin (starting \cup sent) \ late
      PROVE  OneOnCard'
  <2>1. Tracked' /\ Claims' \subseteq Claims
    BY <1>2 DEF OneOnCard, Tracked, Claims
  <2> QED BY <1>2, <2>1, NoNewClaim
<1>3. CASE LoadsTested
  BY <1>2, <1>3 DEF LoadsTested, TesterAlive, OnCard
<1>4. CASE NextCase
  BY <1>2, <1>4 DEF NextCase, TesterAlive, OnCard
<1>5. CASE Answers \/ OtherLoads \/ CancelRun
  BY <1>2, <1>5 DEF Answers, OtherLoads, CancelRun, TesterAlive, OnCard
<1>6. CASE ChainRefused
  BY <1>2, <1>6 DEF ChainRefused, TesterAlive, OnCard
<1>7. CASE RunJobExits
  BY <1>2, <1>7 DEF RunJobExits, TesterAlive, OnCard
<1>8. CASE RunJobKilled
  <2>1. Tracked' /\ Claims' \subseteq Claims /\ local' = local /\ tester' = "dead"
    BY <1>8 DEF RunJobKilled, OneOnCard, Tracked, Claims
  <2> QED BY <2>1, NoNewClaim DEF TesterAlive, OnCard
<1>9. CASE WebRestarts
  <2>1. Tracked' /\ Claims' \subseteq Claims /\ local' = local /\ tester' = tester
    BY <1>9 DEF WebRestarts, OneOnCard, Tracked, Claims
  <2> QED BY <2>1, NoNewClaim DEF TesterAlive
<1>10. CASE UNCHANGED testVars
  BY <1>2, <1>10 DEF testVars, TesterAlive
<1> QED
  BY <1>1, <1>3, <1>4, <1>5, <1>6, <1>7, <1>8, <1>9, <1>10, JudgeClaims DEF TestNext

LEMMA CardInit == TestInit => OneOnCard
  BY DEF TestInit, OneOnCard, Tracked, OneClaim, Claims, OnCard

LEMMA CardInvariance == TestSpec => []OneOnCard
  BY CardInit, CardStep, PTL DEF TestSpec

(* The answer that is being asked of another model, if one is.             *)
AskedOf == IF tester = "asking" /\ loaded = "other" THEN 1 ELSE 0

CostTypes ==
  /\ at \in 0..Cases /\ foreign \in 0..at
  /\ swaps \in Nat /\ misread \in 0..MaxSwaps
  /\ loaded \in {"tested", "other"}
  /\ tester = "asking" => at < Cases

(* The answer that is being asked for is already counted.                  *)
Costs == CostTypes /\ foreign + AskedOf <= swaps + misread

LEMMA JudgeCosts ==
  ASSUME Costs, NEW j \in Judges,
         \/ JudgeChecks(j) \/ JudgePosts(j) \/ LeaseUnloads(j) \/ JudgeAppears(j)
         \/ JudgeFails(j) \/ LaunchGivenUp(j) \/ JudgeKilled(j)
         \/ \E r \in {"done", "failed", "cancelled"} : JudgeEnds(j, r)
  PROVE  Costs'
<1>1. /\ UNCHANGED <<at, foreign, misread>> /\ (tester' = "asking" => tester = "asking")
      /\ Evicts \/ UNCHANGED <<loaded, swaps>>
  <2> USE DEF worker, judgeSide, choices
  <2>1. CASE JudgeChecks(j)
    BY <2>1 DEF JudgeChecks
  <2>2. CASE JudgePosts(j) \/ LaunchGivenUp(j)
    BY <2>2 DEF JudgePosts, LaunchGivenUp
  <2>3. CASE LeaseUnloads(j) \/ JudgeAppears(j)
    BY <2>3 DEF LeaseUnloads, JudgeAppears
  <2>4. CASE JudgeFails(j) \/ JudgeKilled(j)
    BY <2>4 DEF JudgeFails, JudgeKilled
  <2>5. ASSUME NEW r \in {"done", "failed", "cancelled"}, JudgeEnds(j, r)
        PROVE  /\ UNCHANGED <<at, foreign, misread, tester>>
               /\ Evicts \/ UNCHANGED <<loaded, swaps>>
    BY <2>5 DEF JudgeEnds
  <2> QED BY <2>1, <2>2, <2>3, <2>4, <2>5
<1> QED BY <1>1 DEF Costs, CostTypes, AskedOf, Evicts

LEMMA CostStep == Costs /\ [TestNext]_testVars => Costs'
<1> SUFFICES ASSUME Costs, [TestNext]_testVars PROVE Costs'
  OBVIOUS
<1> USE TestAssumption DEF Costs, CostTypes, AskedOf, worker, judgeSide, choices
<1>1. CASE LaunchRun
  BY <1>1 DEF LaunchRun
<1>2. CASE LoadsTested
  BY <1>2 DEF LoadsTested
<1>3. CASE NextCase
  BY <1>3 DEF NextCase
<1>4. CASE Answers
  BY <1>4 DEF Answers
<1>5. CASE OtherLoads
  BY <1>5 DEF OtherLoads
<1>6. CASE CancelRun \/ ChainRefused
  BY <1>6 DEF CancelRun, ChainRefused
<1>7. CASE RunJobExits \/ RunJobKilled \/ WebRestarts
  BY <1>7 DEF RunJobExits, RunJobKilled, WebRestarts
<1>8. CASE UNCHANGED testVars
  BY <1>8 DEF testVars
<1> QED
  BY <1>1, <1>2, <1>3, <1>4, <1>5, <1>6, <1>7, <1>8, JudgeCosts DEF TestNext

Results == {"none", "running", "done", "failed", "cancelled"}

RowTypes ==
  /\ bench \in Results /\ judging \in Results
  /\ tester \in {"none", "loading", "between", "asking", "closed", "chaining", "dead"}
  /\ local \in BOOLEAN /\ auto \in BOOLEAN /\ halting \in BOOLEAN

LEMMA RowStep == RowTypes /\ [TestNext]_testVars => RowTypes'
<1> SUFFICES ASSUME RowTypes, [TestNext]_testVars PROVE RowTypes'
  OBVIOUS
<1> USE DEF RowTypes, Results, worker, judgeSide, choices
<1>1. CASE LaunchRun \/ LoadsTested
  BY <1>1 DEF LaunchRun, LoadsTested
<1>2. CASE NextCase
  BY <1>2 DEF NextCase, Stops
<1>3. CASE Answers \/ OtherLoads \/ CancelRun
  BY <1>3 DEF Answers, OtherLoads, CancelRun
<1>4. CASE ChainRefused \/ RunJobExits \/ RunJobKilled \/ WebRestarts
  BY <1>4 DEF ChainRefused, RunJobExits, RunJobKilled, WebRestarts
<1>5. ASSUME NEW j \in Judges,
             \/ JudgeChecks(j) \/ JudgePosts(j) \/ LeaseUnloads(j) \/ JudgeAppears(j)
             \/ JudgeFails(j) \/ LaunchGivenUp(j) \/ JudgeKilled(j)
      PROVE  RowTypes'
  BY <1>5 DEF JudgeChecks, JudgePosts, LeaseUnloads, JudgeAppears, JudgeFails, LaunchGivenUp,
     JudgeKilled, Says
<1>6. ASSUME NEW j \in Judges, NEW r \in {"done", "failed", "cancelled"}, JudgeEnds(j, r)
      PROVE  RowTypes'
  BY <1>6 DEF JudgeEnds, Says
<1>7. CASE UNCHANGED testVars
  BY <1>7 DEF testVars
<1> QED
  BY <1>1, <1>2, <1>3, <1>4, <1>5, <1>6, <1>7 DEF TestNext

(* Every variable of test run and judges has its type                      *)
(* (webui/testing_jobs.py); no case is asked beyond the suite's last.      *)
THEOREM TestsAreTyped == TestSpec => []TestTypeOK
<1>1. TestInit => RowTypes
  BY DEF TestInit, RowTypes, Results
<1>2. TestInit => Costs
  BY TestAssumption DEF TestInit, Costs, CostTypes, AskedOf
<1>3. CostTypes => at \in 0..Cases /\ foreign \in 0..Cases
  BY TestAssumption DEF CostTypes
<1>4. RowTypes /\ OneOnCard /\ CostTypes => TestTypeOK
  BY <1>3 DEF RowTypes, Results, OneOnCard, Tracked, CostTypes, TestTypeOK
<1>5. Costs => CostTypes
  BY DEF Costs
<1> QED BY <1>1, <1>2, <1>4, <1>5, RowStep, CostStep, CardInvariance, PTL DEF TestSpec

(* However many judges and other pages there are, an answer of another     *)
(* model costs a load or a status that could not be read each              *)
(* (webui/testing_jobs.py _execute_run).                                   *)
THEOREM EachSwapCostsOne == TestSpec => []SwapCostsOne
<1>1. TestInit => Costs
  BY TestAssumption DEF TestInit, Costs, CostTypes, AskedOf
<1>2. Costs => SwapCostsOne
  BY DEF Costs, CostTypes, AskedOf, SwapCostsOne
<1> QED BY <1>1, <1>2, CostStep, PTL DEF TestSpec

LEMMA OneOnCardExcludes == OneOnCard => CardExclusive
<1> SUFFICES ASSUME OneOnCard PROVE Cardinality(Card \ late) <= 1
  BY DEF CardExclusive
<1>1. \A a, b \in Card \ late : a = b
  <2>1. Card \ late \subseteq Claims \cup {r \in {"run"} : tester \in OnCard}
    BY DEF Card, Claims
  <2>2. CASE local
    <3>1. tester \in OnCard => Claims = {}
      BY <2>2 DEF OneOnCard, OneClaim
    <3>2. \A j, k \in Claims : j = k
      BY <2>2 DEF OneOnCard, OneClaim
    <3> QED BY <2>1, <3>1, <3>2
  <2>3. CASE ~local
    BY <2>3 DEF Card
  <2> QED BY <2>2, <2>3
<1>2. CASE Card \ late = {}
  BY <1>2, FS_EmptySet
<1>3. CASE Card \ late # {}
  <2>1. PICK a \in Card \ late : Card \ late = {a}
    BY <1>1, <1>3
  <2> QED BY <2>1, FS_Singleton
<1> QED BY <1>2, <1>3

(* On the card a run and the local judges exclude each other, but for the  *)
(* judges of launches that were given up (testing_jobs.py _assert_free,    *)
(* launch.py _start): whatever the starter and the supervisor do between   *)
(* the check, the launch and the judge's start, and whoever is killed.     *)
THEOREM CardIsExclusive == TestSpec => []CardExclusive
  BY OneOnCardExcludes, CardInvariance, PTL

-----------------------------------------------------------------------------
(* MiningJob.                                                              *)

Finals == {"done", "gaps", "cancelled", "failed"}

JobTypes ==
  /\ mining \in {"running", "checked"} \cup Finals
  /\ round \in 0..MaxRounds /\ reviews \in 0..MaxReviews
  /\ unit \in [Items -> Steps] /\ reply \in [Items -> SUBSET Questions]
  /\ asked \subseteq Questions

ItemTypes ==
  {excluded, listed, proposed, before, unstated, reviewed} \subseteq SUBSET Items

PairTypes == pairs \subseteq Pairs /\ cancel \in BOOLEAN

(* The write lock is held by the unit that writes.                         *)
LockHeld ==
  /\ writer = {i \in Items : unit[i] = "writing"}
  /\ \A i, j \in writer : i = j

-----------------------------------------------------------------------------
LEMMA JobStep == JobTypes /\ [MineNext]_miningVars => JobTypes'
<1> SUFFICES ASSUME JobTypes, [MineNext]_miningVars PROVE JobTypes'
  OBVIOUS
<1> USE MiningAssumption DEF JobTypes, Finals, Steps
<1>1. ASSUME NEW i \in Items, CallBegins(i) PROVE JobTypes'
  BY <1>1 DEF CallBegins
<1>2. ASSUME NEW i \in Items, HelperReplies(i) PROVE JobTypes'
  BY <1>2 DEF HelperReplies
<1>3. ASSUME NEW i \in Items, Validates(i) PROVE JobTypes'
  BY <1>3 DEF Validates
<1>4. ASSUME NEW i \in Items, WritesPairs(i) PROVE JobTypes'
  BY <1>4 DEF WritesPairs
<1>5. CASE ChecksItems
  <2>1. unit' \in [Items -> Steps]
    BY <1>5 DEF ChecksItems
  <2>2. round' \in 0..MaxRounds
    <3>1. CASE round' = round
      BY <3>1
    <3>2. CASE round' = round + 1 /\ ToFix # {}
      BY <3>2 DEF ToFix
    <3> QED BY <1>5, <3>1, <3>2 DEF ChecksItems
  <2>3. mining' \in {"running", "checked"} \cup Finals
    BY <1>5 DEF ChecksItems
  <2> QED BY <1>5, <2>1, <2>2, <2>3 DEF ChecksItems
<1>6. CASE RecordsResult
  BY <1>6 DEF RecordsResult, MiningEnds
<1>7. CASE MiningCancelled \/ MiningFails \/ CancelsMining
  BY <1>7 DEF MiningCancelled, MiningFails, CancelsMining
<1>8. ASSUME NEW p \in Pairs, RejectsPair(p) PROVE JobTypes'
  BY <1>8 DEF RejectsPair
<1>9. ASSUME NEW i \in Items, ExcludesItem(i) PROVE JobTypes'
  BY <1>9 DEF ExcludesItem
<1>10. CASE UNCHANGED miningVars
  BY <1>10 DEF miningVars
<1> QED
  BY <1>1, <1>2, <1>3, <1>4, <1>5, <1>6, <1>7, <1>8, <1>9, <1>10 DEF MineNext, MineMoves

LEMMA ItemStep ==
  ItemTypes /\ PairTypes /\ [MineNext]_miningVars => ItemTypes'
<1> SUFFICES ASSUME ItemTypes, PairTypes, [MineNext]_miningVars PROVE ItemTypes'
  OBVIOUS
<1> USE DEF ItemTypes, minerData, lists
<1>1. ASSUME NEW i \in Items, CallBegins(i) \/ HelperReplies(i) \/ Validates(i)
      PROVE  ItemTypes'
  BY <1>1 DEF CallBegins, HelperReplies, Validates
<1>2. ASSUME NEW i \in Items, WritesPairs(i) PROVE ItemTypes'
  BY <1>2 DEF WritesPairs
<1>3. CASE ChecksItems
  BY <1>3 DEF ChecksItems, Open, OpenBut
<1>4. CASE RecordsResult \/ MiningCancelled \/ MiningFails \/ CancelsMining
  BY <1>4 DEF RecordsResult, MiningCancelled, MiningFails, CancelsMining
<1>5. ASSUME NEW p \in Pairs, RejectsPair(p) PROVE ItemTypes'
  BY <1>5 DEF RejectsPair, Pairs
<1>6. ASSUME NEW i \in Items, ExcludesItem(i) PROVE ItemTypes'
  BY <1>6 DEF ExcludesItem
<1>7. CASE UNCHANGED miningVars
  BY <1>7 DEF miningVars
<1> QED
  BY <1>1, <1>2, <1>3, <1>4, <1>5, <1>6, <1>7 DEF MineNext, MineMoves

LEMMA PairTypesStep == JobTypes /\ PairTypes /\ [MineNext]_miningVars => PairTypes'
<1> SUFFICES ASSUME JobTypes, PairTypes, [MineNext]_miningVars PROVE PairTypes'
  OBVIOUS
<1> USE DEF PairTypes, minerData
<1>1. ASSUME NEW i \in Items, CallBegins(i) \/ HelperReplies(i) \/ Validates(i)
      PROVE  PairTypes'
  BY <1>1 DEF CallBegins, HelperReplies, Validates
<1>2. ASSUME NEW i \in Items, WritesPairs(i) PROVE PairTypes'
  <2>1. PICK kept \in SUBSET reply[i] :
          pairs' = pairs \cup [q : kept, item : {i}, round : {round}, ok : {TRUE}]
    BY <1>2 DEF WritesPairs
  <2>2. kept \subseteq Questions /\ round \in 0..MaxRounds
    BY DEF JobTypes
  <2>3. [q : kept, item : {i}, round : {round}, ok : {TRUE}] \subseteq Pairs
    BY <2>2 DEF Pairs
  <2> QED BY <1>2, <2>1, <2>3 DEF WritesPairs
<1>3. CASE ChecksItems \/ RecordsResult
  BY <1>3 DEF ChecksItems, RecordsResult
<1>4. CASE MiningCancelled \/ MiningFails \/ CancelsMining
  BY <1>4 DEF MiningCancelled, MiningFails, CancelsMining
<1>5. ASSUME NEW p \in Pairs, RejectsPair(p) PROVE PairTypes'
  <2>1. [p EXCEPT !.ok = FALSE] \in Pairs
    BY DEF Pairs
  <2> QED BY <1>5, <2>1 DEF RejectsPair
<1>6. ASSUME NEW i \in Items, ExcludesItem(i) PROVE PairTypes'
  BY <1>6 DEF ExcludesItem
<1>7. CASE UNCHANGED miningVars
  BY <1>7 DEF miningVars
<1> QED
  BY <1>1, <1>2, <1>3, <1>4, <1>5, <1>6, <1>7 DEF MineNext, MineMoves

LEMMA LockStep == JobTypes /\ LockHeld /\ [MineNext]_miningVars => LockHeld'
<1> SUFFICES ASSUME JobTypes, LockHeld, [MineNext]_miningVars PROVE LockHeld'
  OBVIOUS
<1>0. unit \in [Items -> Steps]
  BY DEF JobTypes
<1> USE <1>0 DEF LockHeld
<1>1. ASSUME NEW i \in Items, CallBegins(i) \/ HelperReplies(i) PROVE LockHeld'
  BY <1>1 DEF CallBegins, HelperReplies
<1>2. ASSUME NEW i \in Items, Validates(i) PROVE LockHeld'
  BY <1>2 DEF Validates
<1>3. ASSUME NEW i \in Items, WritesPairs(i) PROVE LockHeld'
  BY <1>3 DEF WritesPairs
<1>4. CASE ChecksItems
  BY <1>4 DEF ChecksItems
<1>5. CASE RecordsResult \/ MiningCancelled \/ MiningFails \/ CancelsMining
  BY <1>5 DEF RecordsResult, MiningCancelled, MiningFails, CancelsMining
<1>6. ASSUME NEW p \in Pairs, RejectsPair(p) PROVE LockHeld'
  BY <1>6 DEF RejectsPair
<1>7. ASSUME NEW i \in Items, ExcludesItem(i) PROVE LockHeld'
  BY <1>7 DEF ExcludesItem
<1>8. CASE UNCHANGED miningVars
  BY <1>8 DEF miningVars
<1> QED
  BY <1>1, <1>2, <1>3, <1>4, <1>5, <1>6, <1>7, <1>8 DEF MineNext, MineMoves

JobInv == JobTypes /\ ItemTypes /\ PairTypes /\ LockHeld

LEMMA JobInit == MineInit => JobInv
<1> SUFFICES ASSUME MineInit PROVE JobInv
  OBVIOUS
<1>1. unit \in [Items -> {"called", "idle"}]
  BY DEF MineInit
<1>2. JobTypes
  BY <1>1, MiningAssumption DEF MineInit, JobTypes, Steps, Finals
<1>3. ItemTypes /\ PairTypes
  BY DEF MineInit, ItemTypes, PairTypes
<1>4. LockHeld
  BY <1>1 DEF MineInit, LockHeld
<1> QED BY <1>2, <1>3, <1>4 DEF JobInv

LEMMA JobsStep == JobInv /\ [MineNext]_miningVars => JobInv'
  BY JobStep, ItemStep, PairTypesStep, LockStep DEF JobInv

LEMMA JobInvariance == MineSpec => []JobInv
  BY JobInit, JobsStep, PTL DEF MineSpec

LEMMA MineTyped == JobInv => MineTypeOK
<1> SUFFICES ASSUME JobInv PROVE MineTypeOK
  OBVIOUS
<1>1. Cardinality(writer) <= 1
  <2>1. CASE writer = {}
    BY <2>1, FS_EmptySet
  <2>2. CASE writer # {}
    <3>1. PICK i \in writer : writer = {i}
      BY <2>2 DEF JobInv, LockHeld
    <3>2. Cardinality({i}) = 1
      BY FS_Singleton
    <3> QED BY <3>1, <3>2
  <2> QED BY <2>1, <2>2
<1> QED BY <1>1 DEF JobInv, MineTypeOK, JobTypes, ItemTypes, PairTypes, LockHeld, Finals

(* Whatever the helper replies, and wherever a job is cancelled or fails   *)
(* (data/mining/job.py), the variables keep their types and the write lock *)
(* one holder.                                                             *)
THEOREM MineTypes == MineSpec => []MineTypeOK
  BY MineTyped, JobInvariance, PTL

-----------------------------------------------------------------------------
(* QuestionsOnce.                                                          *)

(* A question of the file has been seen, and a unit that writes holds      *)
(* replies nobody has.                                                     *)
Unseen ==
  /\ \A p \in pairs : p.q \in asked
  /\ \A i \in writer : reply[i] \cap asked = {}

OnceInv == Unseen /\ QuestionsOnce

LEMMA OnceStep == JobInv /\ OnceInv /\ [MineNext]_miningVars => OnceInv'
<1> SUFFICES ASSUME JobInv, OnceInv, [MineNext]_miningVars PROVE OnceInv'
  OBVIOUS
<1>0. /\ reply \in [Items -> SUBSET Questions] /\ unit \in [Items -> Steps]
      /\ writer = {i \in Items : unit[i] = "writing"}
      /\ \A i, j \in writer : i = j
  BY DEF JobInv, JobTypes, LockHeld
<1> USE <1>0 DEF OnceInv, Unseen, QuestionsOnce, minerData
<1>1. ASSUME NEW i \in Items, CallBegins(i) PROVE OnceInv'
  BY <1>1 DEF CallBegins
<1>2. ASSUME NEW i \in Items, HelperReplies(i) PROVE OnceInv'
  BY <1>2 DEF HelperReplies
<1>3. ASSUME NEW i \in Items, Validates(i) PROVE OnceInv'
  BY <1>3 DEF Validates
<1>4. ASSUME NEW i \in Items, WritesPairs(i) PROVE OnceInv'
  <2>1. PICK kept \in SUBSET reply[i] :
          pairs' = pairs \cup [q : kept, item : {i}, round : {round}, ok : {TRUE}]
    BY <1>4 DEF WritesPairs
  <2>2. asked' = asked \cup reply[i] /\ writer' = {} /\ reply[i] \cap asked = {}
    BY <1>4 DEF WritesPairs
  <2> DEFINE new == [q : kept, item : {i}, round : {round}, ok : {TRUE}]
  <2>3. \A p, o \in new : p.q \in kept /\ (p.q = o.q => p = o)
    <3> HIDE DEF OnceInv, Unseen, QuestionsOnce, minerData
    <3> SUFFICES ASSUME NEW p \in new, NEW o \in new
                 PROVE  p.q \in kept /\ (p.q = o.q => p = o)
      OBVIOUS
    <3>1. p.q \in kept /\ p.item = i /\ p.round = round /\ p.ok = TRUE
      OBVIOUS
    <3>2. o.q \in kept /\ o.item = i /\ o.round = round /\ o.ok = TRUE
      OBVIOUS
    <3>3. p = [q |-> p.q, item |-> p.item, round |-> p.round, ok |-> p.ok]
      OBVIOUS
    <3>4. o = [q |-> o.q, item |-> o.item, round |-> o.round, ok |-> o.ok]
      OBVIOUS
    <3> QED BY <3>1, <3>2, <3>3, <3>4
  <2>4. pairs' = pairs \cup new
    BY <2>1
  <2> HIDE DEF new
  <2> QED BY <2>2, <2>3, <2>4
<1>5. CASE ChecksItems \/ RecordsResult
  BY <1>5 DEF ChecksItems, RecordsResult
<1>6. CASE MiningCancelled \/ MiningFails \/ CancelsMining
  BY <1>6 DEF MiningCancelled, MiningFails, CancelsMining
<1>7. ASSUME NEW p \in Pairs, RejectsPair(p) PROVE OnceInv'
  <2>1. PICK o : o.q = p.q /\ pairs' = (pairs \ {p}) \cup {o}
    BY <1>7 DEF RejectsPair, Pairs
  <2>2. p \in pairs /\ writer' = writer /\ reply' = reply /\ asked' = asked
    BY <1>7 DEF RejectsPair
  <2>3. Unseen'
    BY <2>1, <2>2
  <2>4. QuestionsOnce'
    BY <2>1, <2>2
  <2> QED BY <2>3, <2>4
<1>8. ASSUME NEW i \in Items, ExcludesItem(i) PROVE OnceInv'
  BY <1>8 DEF ExcludesItem
<1>9. CASE UNCHANGED miningVars
  BY <1>9 DEF miningVars
<1> QED
  BY <1>1, <1>2, <1>3, <1>4, <1>5, <1>6, <1>7, <1>8, <1>9 DEF MineNext, MineMoves

(* However many units run side by side and however many rounds follow, no  *)
(* question is in two pairs (validate_qa_batch under the write lock,       *)
(* data/mining/job.py).                                                    *)
THEOREM NoQuestionTwice == MineSpec => []QuestionsOnce
<1>1. MineInit => OnceInv
  BY DEF MineInit, OnceInv, Unseen, QuestionsOnce
<1>2. OnceInv => QuestionsOnce
  BY DEF OnceInv
<1> QED BY <1>1, <1>2, OnceStep, JobInvariance, PTL DEF MineSpec

-----------------------------------------------------------------------------
(* DoneIsStated.                                                           *)

Checked == mining \in {"checked", "done", "gaps"}

(* After its last check a job writes no more, so that only a reviewer can  *)
(* reopen an item; and what was open then is its result.                   *)
LastCheck ==
  /\ Checked => (\A i \in Items : unit[i] = "idle")
  /\ Checked => OpenBut(listed) \subseteq unstated \cup reviewed
  /\ mining = "done" => unstated = {}

LEMMA CheckStep == JobInv /\ LastCheck /\ [MineNext]_miningVars => LastCheck'
<1> SUFFICES ASSUME JobInv, LastCheck, [MineNext]_miningVars PROVE LastCheck'
  OBVIOUS
<1>0. unit \in [Items -> Steps]
  BY DEF JobInv, JobTypes
<1> USE <1>0 DEF LastCheck, Checked, minerData, lists
<1>1. ASSUME NEW i \in Items, CallBegins(i) PROVE LastCheck'
  BY <1>1 DEF CallBegins
<1>2. ASSUME NEW i \in Items, HelperReplies(i) PROVE LastCheck'
  BY <1>2 DEF HelperReplies
<1>3. ASSUME NEW i \in Items, Validates(i) PROVE LastCheck'
  BY <1>3 DEF Validates
<1>4. ASSUME NEW i \in Items, WritesPairs(i) PROVE LastCheck'
  BY <1>4 DEF WritesPairs
<1>5. CASE ChecksItems
  <2>1. unstated' = OpenBut(listed')
    BY <1>5 DEF ChecksItems, Open
  <2>2. OpenBut(listed)' = OpenBut(listed')
    BY <1>5 DEF ChecksItems, OpenBut
  <2>3. mining' # "done" /\ (mining' = "checked" => unit' = unit)
    BY <1>5 DEF ChecksItems
  <2>4. mining' \in {"running", "checked"} /\ \A i \in Items : unit[i] = "idle"
    BY <1>5 DEF ChecksItems
  <2> QED BY <2>1, <2>2, <2>3, <2>4
<1>6. CASE RecordsResult
  BY <1>6 DEF RecordsResult, MiningEnds, OpenBut
<1>7. CASE MiningCancelled \/ MiningFails \/ CancelsMining
  BY <1>7 DEF MiningCancelled, MiningFails, CancelsMining, OpenBut
<1>8. ASSUME NEW p \in Pairs, RejectsPair(p) PROVE LastCheck'
  <2>1. OpenBut(listed)' \subseteq OpenBut(listed) \cup {p.item}
    BY <1>8 DEF RejectsPair, OpenBut
  <2> QED BY <1>8, <2>1 DEF RejectsPair
<1>9. ASSUME NEW i \in Items, ExcludesItem(i) PROVE LastCheck'
  BY <1>9 DEF ExcludesItem, OpenBut
<1>10. CASE UNCHANGED miningVars
  BY <1>10 DEF miningVars, OpenBut
<1> QED
  BY <1>1, <1>2, <1>3, <1>4, <1>5, <1>6, <1>7, <1>8, <1>9, <1>10 DEF MineNext, MineMoves

(* A job that ends "done" (data/mining/job.py run) has stated every item   *)
(* but those that a reviewer has touched since its last check.             *)
THEOREM DoneMeansStated == MineSpec => []DoneIsStated
<1>1. MineInit => LastCheck
  BY DEF MineInit, LastCheck, Checked
<1>2. LastCheck => DoneIsStated
  BY DEF LastCheck, Checked, DoneIsStated
<1> QED BY <1>1, <1>2, CheckStep, JobInvariance, PTL DEF MineSpec

-----------------------------------------------------------------------------
(* MCRecords.                                                              *)

RunAll == RunInv /\ RunFlags

TestAll == RowTypes /\ OneOnCard /\ Costs

MineAll == JobInv /\ OnceInv /\ LastCheck

LibAll == Library /\ RestTypes /\ Bytes

PairAll == PairIInv /\ PairFile

(* A part that the behaviour is not about has no text to pack.             *)
LEMMA NoTextIsPacked == NoText => ChunkIInv
<1> SUFFICES ASSUME NoText PROVE ChunkIInv
  OBVIOUS
<1>1. PackIInv
  BY PackInitially, ChunkingAssumption DEF NoText
<1>2. WordsKept
  BY DEF NoText, WordsKept
<1> QED BY <1>1, <1>2 DEF ChunkIInv

LEMMA RecordInits ==
  /\ LibInit => LibAll
  /\ MineInit => MineAll
  /\ TrainInit => RunAll
  /\ TestInit => TestAll
  /\ GgufInit => LoadInv
  /\ QaInit => PairAll
  /\ ChunkInit \/ NoText => ChunkIInv
<1>1. MineInit => OnceInv /\ LastCheck
  BY DEF MineInit, OnceInv, Unseen, QuestionsOnce, LastCheck, Checked
<1>2. TrainInit => RunFlags
  BY DEF TrainInit, RunFlags
<1>3. TestInit => RowTypes
  BY DEF TestInit, RowTypes, Results
<1>4. TestInit => OneOnCard
  BY CardInit
<1>5. TestInit => Costs
  BY TestAssumption DEF TestInit, Costs, CostTypes, AskedOf
<1> QED
  BY <1>1, <1>2, <1>3, <1>4, <1>5, LibraryInit, RestInit, ShelfInit, JobInit, RunInit, LoadInit,
     PairInit, PairTypesInit, ChunkBegins, NoTextIsPacked
     DEF LibAll, MineAll, RunAll, TestAll, PairAll

LEMMA RecordSteps ==
  /\ LibAll /\ [LibNext]_libVars => LibAll'
  /\ MineAll /\ [MineNext]_miningVars => MineAll'
  /\ RunAll /\ [TrainNext]_trainingVars => RunAll'
  /\ TestAll /\ [TestNext]_testVars => TestAll'
  /\ LoadInv /\ [GgufNext]_ggufVars => LoadInv'
  /\ PairAll /\ [QaNext]_qaVars => PairAll'
  /\ ChunkIInv /\ [ChunkNext]_chunkVars => ChunkIInv'
BY LibraryStep, RestStep, ShelfStep, JobsStep, OnceStep, CheckStep, RunStep, FlagStep, RowStep,
   CardStep, CostStep, LoadStep, PairStep, QaTypeStep, ChunkGoesOn
   DEF LibAll, MineAll, RunAll, TestAll, PairAll

(* A step of the records is a step of each part, or leaves it alone.       *)
LEMMA StepsOfParts ==
  [RecordNext]_RecordVars =>
    /\ [LibNext]_libVars /\ [MineNext]_miningVars /\ [TrainNext]_trainingVars
    /\ [TestNext]_testVars /\ [GgufNext]_ggufVars /\ [QaNext]_qaVars
    /\ [ChunkNext]_chunkVars
  BY DEF RecordNext, RecordVars

RecordIInv ==
  LibAll /\ MineAll /\ RunAll /\ TestAll /\ LoadInv /\ PairAll /\ ChunkIInv

LEMMA RecordInvariance == RecordSpec => []RecordIInv
<1>1. RecordInit => RecordIInv
  BY RecordInits DEF RecordInit, RecordIInv
<1>2. RecordIInv /\ [RecordNext]_RecordVars => RecordIInv'
  BY StepsOfParts, RecordSteps DEF RecordIInv
<1> QED BY <1>1, <1>2, PTL DEF RecordSpec

(* Every variable of every part keeps its type: the records beside each    *)
(* other, whatever their constants.                                        *)
THEOREM RecordTypes == RecordSpec => []RecordTypeOK
<1>1. LibAll => LibTypeOK
  BY RestTyped DEF LibAll
<1>2. MineAll => MineTypeOK
  BY MineTyped DEF MineAll
<1>3. RunAll => TrainTypeOK
  BY DEF RunAll, RunInv, RunTypes, RunFlags, TrainTypeOK
<1>4. TestAll => TestTypeOK
  <2>1. CostTypes => at \in 0..Cases /\ foreign \in 0..Cases
    BY TestAssumption DEF CostTypes
  <2> QED BY <2>1 DEF TestAll, RowTypes, Results, OneOnCard, Tracked, Costs, CostTypes, TestTypeOK
<1>5. LoadInv => GgufTypeOK
  BY DEF LoadInv, Inputs, LoadTypes, GgufTypeOK
<1>6. PairAll => QaTypeOK
  BY PairTyped DEF PairAll
<1>7. ChunkIInv => ChunkTypeOK
  BY ChunkTyped
<1>8. RecordIInv => RecordTypeOK
  BY <1>1, <1>2, <1>3, <1>4, <1>5, <1>6, <1>7 DEF RecordIInv, RecordTypeOK
<1> QED BY <1>8, RecordInvariance, PTL

(* What each part promises holds of the records beside each other, which   *)
(* is what TLC runs.                                                       *)
THEOREM RecordsKeep ==
  RecordSpec =>
    /\ [](LiveOnDisk /\ RowIsHonest /\ KeepsToLimits /\ CacheIsFile /\ ChunksHold)
    /\ [](DoneIsStated /\ QuestionsOnce /\ SwapCostsOne /\ CardExclusive)
    /\ UploadKeepsBytes /\ OnShelf /\ ListsWhatIs
<1>1. LibAll /\ RunAll => LiveOnDisk /\ RowIsHonest
  BY DEF LibAll, Library, RunAll, RunInv
<1>2. PairAll => CacheIsFile
  BY DEF PairAll, PairFile, Held, Fits, CacheIsFile, Stale, Holds
<1>3. LoadInv /\ ChunkIInv => KeepsToLimits /\ ChunksHold
  BY DEF LoadInv, ChunkIInv, PackIInv, ChunksHold
<1>4. MineAll => DoneIsStated /\ QuestionsOnce
  BY DEF MineAll, OnceInv, LastCheck, Checked, DoneIsStated
<1>5. TestAll => SwapCostsOne /\ CardExclusive
  BY OneOnCardExcludes DEF TestAll, Costs, CostTypes, AskedOf, SwapCostsOne
<1>6. RecordIInv =>
        /\ LiveOnDisk /\ RowIsHonest /\ KeepsToLimits /\ CacheIsFile /\ ChunksHold
        /\ DoneIsStated /\ QuestionsOnce /\ SwapCostsOne /\ CardExclusive
  BY <1>1, <1>2, <1>3, <1>4, <1>5 DEF RecordIInv
<1>7. ASSUME RecordIInv, [RecordNext]_RecordVars
      PROVE  [\A n \in Names, c \in Contents : Upload(n, c) =>
                \A id \in Ids : Live(id) => \A p \in PathsOf(id) \cap DOMAIN disk :
                  OnDisk(p)' /\ (disk'[p] = disk[p] \/ (UNCHANGED files /\ disk'[p] = id))]_libVars
  <2>1. Library /\ [LibNext]_libVars
    BY <1>7, StepsOfParts DEF RecordIInv, LibAll
  <2> QED BY <2>1, UploadSpares DEF Spared
<1>8. RecordInit => Shelf!Init
  BY ShelfInit DEF RecordInit
<1>9. RecordIInv /\ [RecordNext]_RecordVars => [Shelf!Next]_(Shelf!vars)
  BY StepsOfParts, LibraryStep, ShelfStep DEF RecordIInv, LibAll
<1>10. RecordIInv /\ [RecordNext]_RecordVars =>
         [\A t \in Threads :
            /\ thread[t].at # "publish" /\ thread'[t].at = "publish"
            /\ thread'[t].got # NoEntry /\ file.is = "whole" /\ ~coarse
            => file.record = thread'[t].got.record]_qaVars
  BY StepsOfParts, ListingStep DEF RecordIInv, PairAll
<1> QED
  BY <1>6, <1>7, <1>8, <1>9, <1>10, RecordInvariance, PTL
     DEF RecordSpec, UploadKeepsBytes, OnShelf, Shelf!Spec, ListsWhatIs

(* So does the load give up only at the end, if its attempts are enough.   *)
THEOREM RecordsGiveUpLast ==
  ASSUME NEW Twofold, Enough(Twofold)
  PROVE  RecordSpec => []LastResort
<1> DEFINE Inv == LoadInv /\ Attempts /\ Halved(Twofold) /\ GivenUp
<1>1. RecordInit => Inv
  BY LoadInit DEF RecordInit, GgufInit, Attempts, Halved, GivenUp
<1>2. Inv /\ [GgufNext]_ggufVars => Inv'
  BY LoadStep, AttemptsStep, HalvedStep, GivenUpStep
<1>3. Inv /\ [RecordNext]_RecordVars => Inv'
  BY <1>2, StepsOfParts
<1>4. Inv => LastResort
  BY DEF Attempts, GivenUp, LastResort
<1> QED BY <1>1, <1>3, <1>4, PTL DEF RecordSpec
=============================================================================
