--------------------------- MODULE ComponentProofs ---------------------------
(***************************************************************************)
(* Proofs about Component, for every crash limit, every number of probe    *)
(* failures and every number of saved settings.                            *)
(***************************************************************************)
EXTENDS Component, TLAPS

(* The type invariant and IdleIsDown need to know where in its life the    *)
(* child is at each await, and that a task that may still fork has not     *)
(* used up its crashes.                                                    *)
Life ==
  /\ pc \in {"top", "settle", "parked", "backoff", "done"} => child # "alive"
  /\ pc \in {"watch", "probing"} =>
       /\ state \in {"starting", "ready"} /\ fails < ProbeFailures
       /\ reason = "exited"
  /\ pc \in {"terminate", "settle"} =>
       state \in {"starting", "ready", "unhealthy"}
  /\ desired = "running" => crashes < MaxFast

Inv == FieldsOK /\ Life

(* Each attempt since the counters were reset is a crash already counted,  *)
(* or the child of now, whose end is still to be counted.  The end of a    *)
(* child that was asked to go is never counted: the request has reset the  *)
(* counters, or the task forks no more.                                    *)
Forks == desired = "running" /\ ~stopping

Counted ==
  /\ attempts <= MaxFast
  /\ Forks => attempts <= crashes + 1
  /\ Forks /\ pc \in {"top", "parked", "backoff"} => attempts <= crashes
  /\ Forks /\ pc \in {"watch", "probing"} /\ restartReq => attempts <= crashes
  /\ Forks /\ pc \in {"terminate", "settle"} /\ reason = "requested"
       => attempts <= crashes

-----------------------------------------------------------------------------
(* The task starts with nothing counted and no child. *)
LEMMA InitInv == Init => Inv /\ Counted
<1> SUFFICES ASSUME Init PROVE Inv /\ Counted
    OBVIOUS
<1>1. FieldsOK BY ComponentAssumption DEF Init, FieldsOK
<1>2. Life    BY ComponentAssumption DEF Init, Life
<1>3. Counted BY ComponentAssumption DEF Init, Counted, Forks
<1> QED BY <1>1, <1>2, <1>3 DEF Inv

(* What the end of a child leaves: a legal state, and a task that only     *)
(* forks again while it has crashes to spend.                              *)
LEMMA AccountFacts ==
  ASSUME Inv, NEW why, NEW ran, Account(why, ran)
  PROVE  /\ pc' \in {"top", "parked", "backoff"}
         /\ state' \in {state, "failed", "backoff"}
         /\ desired' \in {desired, "failed"}
         /\ crashes' \in 0..MaxFast
         /\ desired' = "running" => crashes' < MaxFast
BY ComponentAssumption DEF Account, Inv, FieldsOK, Life

(* The three flags are only ever set to TRUE or FALSE. *)
LEMMA StepFlags == FlagsOK /\ [Next]_vars => FlagsOK'
<1> SUFFICES ASSUME FlagsOK, [Next]_vars PROVE FlagsOK'
    OBVIOUS
<1> USE DEF FlagsOK, flags
<1>1. CASE Park       BY <1>1 DEF Park
<1>2. CASE Fork       BY <1>2 DEF Fork
<1>3. CASE ForkFails  BY <1>3 DEF ForkFails
<1>4. CASE Spawned    BY <1>4 DEF Spawned
<1>5. CASE SeesExit   BY <1>5 DEF SeesExit
<1>6. CASE SeesRequest BY <1>6 DEF SeesRequest
<1>7. CASE Probe      BY <1>7 DEF Probe
<1>8. CASE ProbeOk    BY <1>8 DEF ProbeOk
<1>9. CASE ProbeBad   BY <1>9 DEF ProbeBad
<1>10. CASE Terminate BY <1>10 DEF Terminate
<1>11. CASE Settle    BY <1>11 DEF Settle
<1>12. CASE Wakes     BY <1>12 DEF Wakes
<1>13. CASE Finish    BY <1>13 DEF Finish
<1>14. CASE Start     BY <1>14 DEF Start
<1>15. CASE Stop      BY <1>15 DEF Stop
<1>16. CASE Restart   BY <1>16 DEF Restart
<1>17. CASE Shutdown  BY <1>17 DEF Shutdown
<1>18. CASE ChildDies BY <1>18 DEF ChildDies
<1>19. CASE Ages      BY <1>19 DEF Ages
<1>20. CASE Save      BY <1>20 DEF Save
<1>21. CASE UNCHANGED vars BY <1>21 DEF vars
<1> QED BY <1>1, <1>2, <1>3, <1>4, <1>5, <1>6, <1>7, <1>8, <1>9, <1>10,
           <1>11, <1>12, <1>13, <1>14, <1>15, <1>16, <1>17, <1>18, <1>19,
           <1>20, <1>21 DEF Next, Loop

(* Inv is inductive, action by action. *)
LEMMA StepInv == Inv /\ [Next]_vars => Inv'
<1> SUFFICES ASSUME Inv, [Next]_vars PROVE Inv'
    OBVIOUS
<1> USE ComponentAssumption DEF Inv, FieldsOK, Life, flags, config
<1>1. CASE Park       BY <1>1 DEF Park
<1>2. CASE Fork       BY <1>2 DEF Fork
<1>3. CASE ForkFails  BY <1>3, AccountFacts DEF ForkFails
<1>4. CASE Spawned    BY <1>4 DEF Spawned
<1>5. CASE SeesExit   BY <1>5 DEF SeesExit
<1>6. CASE SeesRequest BY <1>6 DEF SeesRequest
<1>7. CASE Probe      BY <1>7 DEF Probe
<1>8. CASE ProbeOk    BY <1>8 DEF ProbeOk
<1>9. CASE ProbeBad   BY <1>9 DEF ProbeBad
<1>10. CASE Terminate BY <1>10 DEF Terminate
<1>11. CASE Settle    BY <1>11, AccountFacts DEF Settle
<1>12. CASE Wakes     BY <1>12 DEF Wakes
<1>13. CASE Finish    BY <1>13 DEF Finish
<1>14. CASE Start     BY <1>14 DEF Start
<1>15. CASE Stop      BY <1>15 DEF Stop
<1>16. CASE Restart   BY <1>16 DEF Restart
<1>17. CASE Shutdown  BY <1>17 DEF Shutdown
<1>18. CASE ChildDies BY <1>18 DEF ChildDies
<1>19. CASE Ages      BY <1>19 DEF Ages
<1>20. CASE Save      BY <1>20 DEF Save
<1>21. CASE UNCHANGED vars BY <1>21 DEF vars
<1> QED BY <1>1, <1>2, <1>3, <1>4, <1>5, <1>6, <1>7, <1>8, <1>9, <1>10,
           <1>11, <1>12, <1>13, <1>14, <1>15, <1>16, <1>17, <1>18, <1>19,
           <1>20, <1>21 DEF Next, Loop

(* Counted is inductive relative to Inv. *)
LEMMA StepCounted == Inv /\ Counted /\ [Next]_vars => Counted'
<1> SUFFICES ASSUME Inv, Counted, [Next]_vars PROVE Counted'
    OBVIOUS
<1> USE ComponentAssumption
     DEF Inv, FieldsOK, Life, Counted, Forks, flags, config
<1>1. CASE Park       BY <1>1 DEF Park
<1>2. CASE Fork       BY <1>2 DEF Fork
<1>3. CASE ForkFails  BY <1>3 DEF ForkFails, Account
<1>4. CASE Spawned    BY <1>4 DEF Spawned
<1>5. CASE SeesExit   BY <1>5 DEF SeesExit
<1>6. CASE SeesRequest BY <1>6 DEF SeesRequest, WantsOut
<1>7. CASE Probe      BY <1>7 DEF Probe
<1>8. CASE ProbeOk    BY <1>8 DEF ProbeOk
<1>9. CASE ProbeBad   BY <1>9 DEF ProbeBad
<1>10. CASE Terminate BY <1>10 DEF Terminate
<1>11. CASE Settle    BY <1>11 DEF Settle, Account
<1>12. CASE Wakes     BY <1>12 DEF Wakes
<1>13. CASE Finish    BY <1>13 DEF Finish
<1>14. CASE Start     BY <1>14 DEF Start
<1>15. CASE Stop      BY <1>15 DEF Stop
<1>16. CASE Restart   BY <1>16 DEF Restart
<1>17. CASE Shutdown  BY <1>17 DEF Shutdown
<1>18. CASE ChildDies BY <1>18 DEF ChildDies
<1>19. CASE Ages      BY <1>19 DEF Ages
<1>20. CASE Save      BY <1>20 DEF Save
<1>21. CASE UNCHANGED vars BY <1>21 DEF vars
<1> QED BY <1>1, <1>2, <1>3, <1>4, <1>5, <1>6, <1>7, <1>8, <1>9, <1>10,
           <1>11, <1>12, <1>13, <1>14, <1>15, <1>16, <1>17, <1>18, <1>19,
           <1>20, <1>21 DEF Next, Loop

-----------------------------------------------------------------------------
(* Component!TypeOK: every field of the task and its child keep their      *)
(* types, the crash counter stays within max_fast_crashes and the count of *)
(* failed probes within probe_failures.                                    *)
THEOREM ComponentTypes == Spec => []TypeOK
<1>1. Init => FlagsOK BY DEF Init, FlagsOK
<1>2. Inv /\ FlagsOK => TypeOK BY DEF Inv, TypeOK
<1> QED BY InitInv, StepInv, StepFlags, <1>1, <1>2, PTL DEF Spec

(* Component!IdleIsDown: no second child is forked beside a living one,    *)
(* and a component shown as stopped, failed or in backoff has no child.    *)
THEOREM OneChild == Spec => []IdleIsDown
<1>1. Inv => IdleIsDown BY DEF Inv, FieldsOK, Life, IdleIsDown
<1> QED BY InitInv, StepInv, <1>1, PTL DEF Spec

(* Component!CrashLoopBounded: between two requests of an operator no more *)
(* than max_fast_crashes children are forked unless one of them was stable.*)
THEOREM CrashLoopEnds == Spec => []CrashLoopBounded
<1>1. Counted => CrashLoopBounded BY DEF Counted, CrashLoopBounded
<1> QED BY InitInv, StepInv, StepCounted, <1>1, PTL DEF Spec
=============================================================================
