------------------------------ MODULE MiningJob ------------------------------
(***************************************************************************)
(* One job of the mining worker on one file (data/mining/job.py): helper   *)
(* calls in parallel, the pairs they write, the check of what no pair      *)
(* states, and the fix rounds, while a reviewer works on the same file and *)
(* may cancel.  An item is asked for in a unit of its own; its pairs are   *)
(* told apart by their question, which another unit's pair may share.      *)
(***************************************************************************)
EXTENDS Naturals, FiniteSets

CONSTANTS Items, Questions,
          MaxRounds,   \* MAX_FIX_ROUNDS
          MaxReviews   \* bound: decisions of the reviewer

ASSUME MiningAssumption == MaxRounds \in Nat /\ MaxReviews \in Nat

VARIABLES
  mining,    \* status of the mining_jobs row: running or final
  round,     \* 0: mining; n: fix round n
  unit,      \* item -> step of its unit in this round
  reply,     \* item -> questions of the reply, then of the accepted pairs
  writer,    \* items whose unit holds the write lock
  asked,     \* questions seen (seen)
  pairs,     \* pairs of the file, with the status a reviewer gives them
  excluded,  \* items a reviewer has excluded
  listed,    \* those of them when the job listed its items
  proposed,  \* items the helper has proposed to exclude
  before,    \* those of them when the round began
  unstated,  \* open items of the last check
  reviewed,  \* items a reviewer's decision has touched since (not in the code)
  cancel,    \* the job's cancel flag
  reviews

miningVars == <<mining, round, unit, reply, writer, asked, pairs, excluded,
                listed, proposed, before, unstated, reviewed, cancel, reviews>>

lists == <<listed, before>>

minerData == <<pairs, excluded, proposed, lists>>

Steps == {"idle", "called", "asking", "replied", "writing"}

Pairs == [q : Questions, item : Items, round : 0..MaxRounds, ok : BOOLEAN]

(* item_states, of items that are not excluded and that no live pair       *)
(* states.                                                                 *)
OpenBut(out) == {i \in Items \ out : \A p \in pairs : p.item = i => ~p.ok}

(* _open_items: an exclusion that came after the list is not seen.         *)
Open == OpenBut(IF round = 0 THEN excluded ELSE listed)

(* A mine job, or a fill job, which has fix rounds only. *)
MineInit ==
  /\ mining = "running" /\ round = 0
  /\ unit \in {[i \in Items |-> s] : s \in {"called", "idle"}}
  /\ reply = [i \in Items |-> {}] /\ writer = {} /\ asked = {}
  /\ pairs = {} /\ excluded = {} /\ listed = {} /\ proposed = {} /\ before = {}
  /\ unstated = Items /\ reviewed = {} /\ cancel = FALSE /\ reviews = 0

-----------------------------------------------------------------------------
(* _call: cancel is looked at before the call and again once the limiter   *)
(* lets it through; a unit that finds it set raises.                       *)
CallBegins(i) ==
  /\ mining = "running" /\ unit[i] = "called" /\ ~cancel
  /\ unit' = [unit EXCEPT ![i] = "asking"]
  /\ UNCHANGED <<mining, round, reply, writer, asked, minerData, unstated,
                 reviewed, cancel, reviews>>

(* A failed call is an empty reply. *)
HelperReplies(i) ==
  /\ mining = "running" /\ unit[i] = "asking"
  /\ \E qs \in SUBSET Questions :
       /\ unit' = [unit EXCEPT ![i] = "replied"]
       /\ reply' = [reply EXCEPT ![i] = qs]
  /\ UNCHANGED <<mining, round, writer, asked, minerData, unstated, reviewed,
                 cancel, reviews>>

(* Slip: the reply is validated before the write lock is taken.            *)
ValidatesEarly(i) ==
  /\ unit[i] = "replied"
  /\ writer' = writer \cup {i}
  /\ unit' = [unit EXCEPT ![i] = "writing"]
  /\ reply' = [reply EXCEPT ![i] = @ \ asked]
  /\ UNCHANGED <<mining, round, asked, minerData, unstated, reviewed, cancel,
                 reviews>>

(* validate_qa_batch under the lock: a question seen before is refused.    *)
Validates(i) ==
  /\ unit[i] = "replied" /\ writer = {}
  /\ writer' = {i}
  /\ unit' = [unit EXCEPT ![i] = "writing"]
  /\ reply' = [reply EXCEPT ![i] = @ \ asked]
  /\ UNCHANGED <<mining, round, asked, minerData, unstated, reviewed, cancel,
                 reviews>>

(* The rest of _pairs_round: every accepted question is seen, the pairs    *)
(* that state nothing new are dropped, a fix round may propose exclusions. *)
WritesPairs(i) ==
  /\ unit[i] = "writing"
  /\ asked' = asked \cup reply[i]
  /\ \E kept \in SUBSET reply[i] :
       pairs' = pairs \cup [q : kept, item : {i}, round : {round}, ok : {TRUE}]
  /\ proposed' \in {proposed} \cup
       (IF round > 0 THEN {proposed \cup {i}} ELSE {})
  /\ unit' = [unit EXCEPT ![i] = "idle"] /\ reply' = [reply EXCEPT ![i] = {}]
  /\ writer' = writer \ {i}
  /\ UNCHANGED <<mining, round, excluded, lists, unstated, reviewed, cancel, reviews>>

(* The items a round asks for: a proposed exclusion waits for the reviewer.*)
ToFix == IF round < MaxRounds THEN Open \ proposed ELSE {}

(* The last round closed nothing and proposed nothing. *)
Stuck ==
  round > 0 /\ proposed = before /\ Cardinality(Open) >= Cardinality(unstated)

MiningEnds(open) == mining' = (IF open = {} THEN "done" ELSE "gaps")

(* _fix_loop when the pool is empty: one more round, or the last answer.   *)
ChecksItems ==
  /\ mining = "running" /\ \A i \in Items : unit[i] = "idle"
  /\ listed' = IF round = 0 THEN excluded ELSE listed
  /\ unstated' = Open /\ reviewed' = {} /\ before' = proposed
  /\ IF ToFix = {} \/ Stuck
     THEN mining' = "checked" /\ UNCHANGED <<unit, round>>
     ELSE /\ unit' = [i \in Items |-> IF i \in ToFix THEN "called" ELSE "idle"]
          /\ round' = round + 1 /\ UNCHANGED mining
  /\ UNCHANGED <<reply, writer, asked, pairs, excluded, proposed, cancel, reviews>>

(* Slip: what is proposed for exclusion does not count as open.            *)
RecordsToFix ==
  /\ mining = "checked" /\ MiningEnds(unstated \ proposed)
  /\ UNCHANGED <<round, unit, reply, writer, asked, minerData, unstated,
                 reviewed, cancel, reviews>>

(* The final status is that of the last check, not of the pairs by now.    *)
RecordsResult ==
  /\ mining = "checked" /\ MiningEnds(unstated)
  /\ UNCHANGED <<round, unit, reply, writer, asked, minerData, unstated,
                 reviewed, cancel, reviews>>

(* JobCancelled reaches run once the units that have called are through.   *)
MiningCancelled ==
  /\ mining = "running" /\ cancel
  /\ \A i \in Items : unit[i] \in {"idle", "called"}
  /\ \E i \in Items : unit[i] = "called"
  /\ mining' = "cancelled"
  /\ UNCHANGED <<round, unit, reply, writer, asked, minerData, unstated,
                 reviewed, cancel, reviews>>

(* Every call failed, the file has gone, the database is broken... *)
MiningFails ==
  /\ mining = "running" /\ writer = {} /\ mining' = "failed"
  /\ UNCHANGED <<round, unit, reply, writer, asked, minerData, unstated,
                 reviewed, cancel, reviews>>

-----------------------------------------------------------------------------
(* The reviewer, from the web app. *)
RejectsPair(p) ==
  /\ reviews < MaxReviews /\ reviews' = reviews + 1
  /\ p \in pairs /\ p.ok
  /\ pairs' = (pairs \ {p}) \cup {[p EXCEPT !.ok = FALSE]}
  /\ reviewed' = reviewed \cup {p.item}
  /\ UNCHANGED <<mining, round, unit, reply, writer, asked, excluded, proposed,
                 lists, unstated, cancel>>

ExcludesItem(i) ==
  /\ reviews < MaxReviews /\ reviews' = reviews + 1
  /\ i \notin excluded
  /\ excluded' = excluded \cup {i} /\ reviewed' = reviewed \cup {i}
  /\ UNCHANGED <<mining, round, unit, reply, writer, asked, pairs, proposed,
                 lists, unstated, cancel>>

CancelsMining ==
  /\ mining \in {"running", "checked"} /\ ~cancel /\ cancel' = TRUE
  /\ UNCHANGED <<mining, round, unit, reply, writer, asked, minerData, unstated,
                 reviewed, reviews>>

MineMoves ==
  \/ \E i \in Items : CallBegins(i) \/ HelperReplies(i) \/ Validates(i) \/ WritesPairs(i)
  \/ ChecksItems \/ RecordsResult \/ MiningCancelled

MineNext ==
  \/ MineMoves \/ MiningFails \/ CancelsMining
  \/ \E p \in Pairs : RejectsPair(p)
  \/ \E i \in Items : ExcludesItem(i)

MineSpec == MineInit /\ [][MineNext]_miningVars

-----------------------------------------------------------------------------
(* Every variable has its type, and the write lock one holder.             *)
MineTypeOK ==
  /\ mining \in {"running", "checked", "done", "gaps", "cancelled", "failed"}
  /\ round \in 0..MaxRounds /\ reviews \in 0..MaxReviews
  /\ unit \in [Items -> Steps] /\ reply \in [Items -> SUBSET Questions]
  /\ pairs \subseteq Pairs /\ asked \subseteq Questions
  /\ writer = {i \in Items : unit[i] = "writing"} /\ Cardinality(writer) <= 1
  /\ {excluded, listed, proposed, before, unstated, reviewed}
       \subseteq SUBSET Items
  /\ cancel \in BOOLEAN

(* Units that run side by side, and fix rounds after them, never put two   *)
(* pairs with one question into the file (duplicate_question).             *)
QuestionsOnce ==
  \A p, o \in pairs : p.q = o.q => p = o

(* "Every data point is stated by a pair" (job.py:308): when a job is done,*)
(* what is open is what the reviewer has reopened since its last check; a  *)
(* proposal of the helper alone never closes a data point (:14).           *)
DoneIsStated ==
  mining = "done" => OpenBut(listed) \subseteq reviewed
=============================================================================
