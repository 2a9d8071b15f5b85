---------------------------- MODULE JobLifecycle ----------------------------
(***************************************************************************)
(* What the job layer promises about one-shot jobs, whoever owns their     *)
(* processes: a job is accepted once, runs at most once, and once it has   *)
(* ended with an exit record it stays ended.  While it is merely "ended"   *)
(* another writer, who had found no record, may still replace that one;    *)
(* once it is "settled" the record never changes.  A launch that answers   *)
(* "rejected" is settled: its process never runs.                          *)
(*                                                                         *)
(* Jobs implements this specification (Jobs!Lifecycle).                    *)
(***************************************************************************)
CONSTANTS Jobs,      \* job ids
          Records,   \* the exit records a page may be shown
          NoRecord   \* shown while there is none

VARIABLES phase,     \* what a reader of the job files sees of each job
          record     \* the exit record a reader is shown

vars == <<phase, record>>

Ends   == {"ended", "settled"}
Phases == {"absent", "accepted", "running", "gone"} \cup Ends

Init == /\ phase = [j \in Jobs |-> "absent"]
        /\ record = [j \in Jobs |-> NoRecord]

(* The only moves of one job.  "gone" is a process that died before anyone *)
(* left a record for it.                                                   *)
Moves == {<<"absent", "accepted">>, <<"accepted", "running">>,
          <<"accepted", "settled">>, <<"running", "gone">>,
          <<"ended", "ended">>, <<"ended", "settled">>}
           \cup {"running", "gone"} \X Ends

Move(j) == /\ <<phase[j], phase'[j]>> \in Moves
           /\ IF phase'[j] \in Ends THEN record'[j] \in Records
                                     ELSE record'[j] = NoRecord

Stay(j) == phase'[j] = phase[j] /\ record'[j] = record[j]

(* Several jobs may move in one step: one SIGTERM sweep of a supervisor    *)
(* that goes down, one listing that reports every dead job.                *)
Next == /\ phase' \in [Jobs -> Phases]
        /\ record' \in [Jobs -> Records \cup {NoRecord}]
        /\ \A j \in Jobs : Move(j) \/ Stay(j)

Spec == Init /\ [][Next]_vars
=============================================================================
