------------------------------ MODULE Training ------------------------------
(***************************************************************************)
(* One training run (training/engine.py in the process of its job,         *)
(* training/run_persistence.py for its row) and the exports of it that     *)
(* follow (training/run_export.py in an export job): what they write into  *)
(* the run's directory, and what the run's row says of it.  The card       *)
(* belongs to one of the two jobs at a time (module Jobs).                 *)
(***************************************************************************)
EXTENDS Naturals

VARIABLES
  run,       \* status of the training_runs row; the active ones are one
  noted,     \* the row has an error
  want,      \* the form: how to train, what to make of the adapter
  trainer,   \* the job process: none, alive or dead
  phase,     \* how far it is
  halt,      \* its stop event
  soft,      \* state.error of the engine
  worked,    \* it has trained at least one step
  lost,      \* the adapter of a stopped run could not be saved
  adapter, merged, gguf, \* the run's artifacts on disk
  exporter,  \* the export job: idle, merge or convert
  exported   \* what the rows of finished exports point at

trainingVars == <<run, noted, want, trainer, phase, halt, soft, worked, lost,
                  adapter, merged, gguf, exporter, exported>>

artifacts == <<adapter, merged, gguf>>

exports == <<exporter, exported>>

Wants == [how : {"unsloth", "standard", "preference"}, merge : BOOLEAN, gguf : BOOLEAN]

(* merged/ may hold its config only (bare) or some of its weights (half).  *)
Merges == {"none", "bare", "half", "whole"}

(* A GGUF of a half merge is bad. *)
Ggufs == {"none", "half", "whole", "bad"}

TrainInit ==
  /\ run = "none" /\ noted = FALSE /\ want \in Wants
  /\ trainer = "none" /\ phase = "load" /\ halt = FALSE /\ soft = FALSE
  /\ worked = FALSE /\ lost = FALSE
  /\ adapter = "none" /\ merged = "none" /\ gguf = "none"
  /\ exporter = "idle" /\ exported = "none"

(* start_training and the job's first notification. *)
StartRun ==
  /\ trainer = "none" /\ run = "none" /\ exporter = "idle"
  /\ run' = "active" /\ trainer' = "alive"
  /\ UNCHANGED <<noted, want, phase, halt, soft, worked, lost, artifacts, exports>>

At(p) == trainer = "alive" /\ phase = p

(* A terminal status, persisted by the callback; the process then exits.   *)
Ends(status, note) ==
  /\ run' = status /\ noted' = note /\ phase' = "exit"

(* The exception handler of _train. *)
Fails == Ends("failed", TRUE)

StopRun ==
  /\ trainer = "alive" /\ ~halt /\ halt' = TRUE
  /\ UNCHANGED <<run, noted, want, trainer, phase, soft, worked, lost, artifacts, exports>>

-----------------------------------------------------------------------------
(* The phases of _train_unsloth, _train_standard and _train_preference.    *)
Loads ==
  /\ At("load")
  /\ \/ halt /\ Ends("stopped", noted)
     \/ ~halt /\ phase' = "train" /\ UNCHANGED <<run, noted>>
     \/ Fails
  /\ UNCHANGED <<want, trainer, halt, soft, worked, lost, artifacts, exports>>

(* trainer.train() has returned, at its end or by the stop callback. *)
Trains ==
  /\ At("train")
  /\ \/ /\ worked' = TRUE
        /\ phase' = IF halt THEN "stopsave" ELSE "save"
        /\ UNCHANGED <<run, noted>>
     \/ Fails /\ UNCHANGED worked
  /\ UNCHANGED <<want, trainer, halt, soft, lost, artifacts, exports>>

(* Slip: a stopped run keeps only what a finished save has left.           *)
StopSavesNothing ==
  /\ At("stopsave")
  /\ Ends("stopped", noted)
  /\ UNCHANGED <<want, trainer, halt, soft, worked, lost, artifacts, exports>>

(* The partial adapter is saved before the run is marked stopped; a save   *)
(* that fails is only logged.                                              *)
StopSaves ==
  /\ At("stopsave")
  /\ \/ adapter = "none" /\ adapter' = "half" /\ UNCHANGED <<run, noted, phase, lost>>
     \/ adapter = "half" /\ adapter' = "whole" /\ Ends("stopped", noted) /\ UNCHANGED lost
     \/ lost' = TRUE /\ Ends("stopped", noted) /\ UNCHANGED adapter
  /\ UNCHANGED <<want, trainer, halt, soft, worked, merged, gguf, exports>>

(* The preference path does not look at the stop event after its save.     *)
Saves ==
  /\ At("save")
  /\ \/ adapter = "none" /\ adapter' = "half" /\ UNCHANGED <<run, noted, phase>>
     \/ /\ adapter = "half" /\ adapter' = "whole"
        /\ IF halt /\ want.how # "preference"
           THEN Ends("stopped", noted)
           ELSE /\ phase' = IF want.merge \/ want.gguf THEN "merge" ELSE "suite"
                /\ UNCHANGED <<run, noted>>
     \/ Fails /\ UNCHANGED adapter
  /\ UNCHANGED <<want, trainer, halt, soft, worked, lost, merged, gguf, exports>>

(* _do_merge in _maybe_merge, also for a GGUF without a merge asked: what  *)
(* is there is replaced, a failure removes it and is noted on the run.     *)
MergesModel ==
  /\ At("merge")
  /\ \/ merged = "none" /\ merged' = "bare" /\ UNCHANGED <<phase, soft>>
     \/ merged = "bare" /\ merged' = "half" /\ UNCHANGED <<phase, soft>>
     \/ merged = "half" /\ merged' = "whole" /\ phase' = "gguf" /\ UNCHANGED soft
     \/ merged' = "none" /\ phase' = "gguf" /\ soft' = TRUE
  /\ UNCHANGED <<run, noted, want, trainer, halt, worked, lost, adapter, gguf, exports>>

(* Slip: a conversion that fails is not put on the run.                    *)
ExportsGgufQuietly ==
  /\ At("gguf")
  /\ \/ ~want.gguf /\ phase' = "suite" /\ UNCHANGED gguf
     \/ want.gguf /\ merged = "none" /\ phase' = "suite" /\ UNCHANGED gguf
     \/ want.gguf /\ merged # "none" /\ gguf = "none" /\ gguf' = "half" /\ UNCHANGED phase
     \/ gguf = "half" /\ gguf' = "whole" /\ phase' = "suite"
     \/ gguf = "half" /\ gguf' = "none" /\ phase' = "suite"
  /\ UNCHANGED <<run, noted, soft, want, trainer, halt, worked, lost, adapter, merged, exports>>

(* _export_gguf_after_train: a failure removes the file (run_cmd_into), and*)
(* any error so far is copied to the row.                                  *)
ExportsGguf ==
  /\ At("gguf")
  /\ \/ ~want.gguf /\ phase' = "suite" /\ UNCHANGED <<gguf, soft, noted>>
     \/ /\ want.gguf /\ merged = "none"
        /\ phase' = "suite" /\ soft' = TRUE /\ noted' = TRUE /\ UNCHANGED gguf
     \/ /\ want.gguf /\ merged # "none" /\ gguf = "none"
        /\ gguf' = "half" /\ UNCHANGED <<phase, soft, noted>>
     \/ /\ gguf = "half" /\ gguf' = "whole"
        /\ phase' = "suite" /\ noted' = (noted \/ soft) /\ UNCHANGED soft
     \/ /\ gguf = "half" /\ gguf' = "none"
        /\ phase' = "suite" /\ soft' = TRUE /\ noted' = TRUE
  /\ UNCHANGED <<run, want, trainer, halt, worked, lost, adapter, merged, exports>>

(* The quiz, whose failure is noted too, and the end of _train: done with  *)
(* whatever error there is.                                                *)
Finishes ==
  /\ At("suite")
  /\ \E quiz \in BOOLEAN :
       /\ soft' = (soft \/ ~quiz)
       /\ Ends("done", noted \/ soft')
  /\ UNCHANGED <<want, trainer, halt, worked, lost, artifacts, exports>>

RunExits ==
  /\ At("exit") /\ trainer' = "dead"
  /\ UNCHANGED <<run, noted, want, phase, halt, soft, worked, lost, artifacts, exports>>

(* Out of memory, or the end of the grace period after a stop. *)
RunKilled ==
  /\ trainer = "alive" /\ phase # "exit" /\ trainer' = "dead"
  /\ UNCHANGED <<run, noted, want, phase, halt, soft, worked, lost, artifacts, exports>>

(* reconcile_stale_runs of a web app that starts, and only then: no        *)
(* handler of jobs.watch looks after a training run.                       *)
ReconcileRun ==
  /\ run = "active" /\ trainer = "dead"
  /\ run' = "failed" /\ noted' = TRUE
  /\ UNCHANGED <<want, trainer, phase, halt, soft, worked, lost, artifacts, exports>>

-----------------------------------------------------------------------------
(* An export of the run needs an adapter or a merge, of any completeness.  *)
ExportBegins ==
  /\ trainer = "dead" /\ exporter = "idle"
  /\ exporter' = "merge"
  /\ UNCHANGED <<run, noted, want, trainer, phase, halt, soft, worked, lost, artifacts, exported>>

(* ensure_merged_for_export: weights of any kind count as a merge.  Else   *)
(* merge_adapter_for_run starts afresh; an error removes what it wrote     *)
(* unless there are weights among it.                                      *)
ExportMerges ==
  /\ exporter = "merge"
  /\ \/ merged \in {"half", "whole"} /\ exporter' = "convert" /\ UNCHANGED merged
     \/ merged \in {"none", "bare"} /\ adapter = "none" /\ exporter' = "idle" /\ UNCHANGED merged
     \/ /\ merged \in {"none", "bare"} /\ adapter # "none"
        /\ \/ merged' = "whole" /\ exporter' = "convert"
           \/ merged' \in {"none", "half"} /\ exporter' = "idle"   \* error
           \/ merged' \in {"bare", "half"} /\ exporter' = "idle"   \* killed
  /\ UNCHANGED <<run, noted, want, trainer, phase, halt, soft, worked, lost, adapter, gguf, exported>>

(* _export_gguf: a file that is there and not empty is the export.  The    *)
(* conversion may fail (and remove its file) or be killed.                 *)
ExportConverts ==
  /\ exporter = "convert" /\ exporter' = "idle"
  /\ \/ gguf # "none" /\ exported' = gguf /\ UNCHANGED gguf
     \/ /\ gguf = "none"
        /\ \/ /\ gguf' = IF merged = "whole" THEN "whole" ELSE "bad"
              /\ exported' = gguf'
           \/ gguf' \in {"none", "half"} /\ UNCHANGED exported
  /\ UNCHANGED <<run, noted, want, trainer, phase, halt, soft, worked, lost, adapter, merged>>

TrainMoves ==
  \/ Loads \/ Trains \/ StopSaves \/ Saves \/ MergesModel \/ ExportsGguf
  \/ Finishes \/ RunExits

TrainNext ==
  \/ StartRun \/ StopRun \/ TrainMoves \/ RunKilled \/ ReconcileRun
  \/ ExportBegins \/ ExportMerges \/ ExportConverts

TrainSpec == TrainInit /\ [][TrainNext]_trainingVars

-----------------------------------------------------------------------------
(* Every variable has its type.                                            *)
TrainTypeOK ==
  /\ run \in {"none", "active", "done", "stopped", "failed"}
  /\ want \in Wants
  /\ trainer \in {"none", "alive", "dead"}
  /\ phase \in {"load", "train", "stopsave", "save", "merge", "gguf", "suite", "exit"}
  /\ {noted, halt, soft, worked, lost} \subseteq BOOLEAN
  /\ adapter \in {"none", "half", "whole"} /\ merged \in Merges /\ gguf \in Ggufs
  /\ exporter \in {"idle", "merge", "convert"}
  /\ exported \in Ggufs

(* ""done" never silently swallows a broken export" (engine.py:551): a run *)
(* is done with a whole adapter, and with the merge and the GGUF that were *)
(* asked for unless its row has an error.                                  *)
DoneIsHonest ==
  run = "done" =>
    /\ adapter = "whole"
    /\ ~noted => (want.merge => merged = "whole") /\ (want.gguf => gguf = "whole")

(* "Persist the partial adapter so the work is not lost, then stop"        *)
(* (engine.py:1160): a stopped run that has trained has a whole adapter,   *)
(* unless saving it failed.                                                *)
StoppedKeepsWork ==
  run = "stopped" /\ worked /\ ~lost => adapter = "whole"

(* A run's row promises no more than its directory has.                    *)
RowIsHonest == DoneIsHonest /\ StoppedKeepsWork

(* "A half-written .gguf must never be mistaken for a finished one by a    *)
(* later 'already exported' check" (gguf_convert.py:264), and "Partial     *)
(* merged/ dirs are removed on failure" (engine.py:1301).                  *)
ExportsAreWhole ==
  exported \in {"none", "whole"}
=============================================================================
