------------------------------- MODULE JobRows -------------------------------
(***************************************************************************)
(* The row of one download, index build or export and the job that serves  *)
(* it (webui/download_jobs.py, brain_build_jobs.py, export_jobs.py and     *)
(* their tables): the web app starts and settles it, watches its end       *)
(* (jobs/watch.py), and may die; the job writes the row from a process of  *)
(* its own.                                                                *)
(***************************************************************************)
EXTENDS Naturals

CONSTANT MaxDeaths   \* bound: how often the web app dies

ASSUME RowsAssumption == MaxDeaths \in Nat

VARIABLES
  kind,      \* what the row is; chosen at the start
  row,       \* its status
  starter,   \* the thread that starts the job
  job,       \* none, spec (files, no pid yet), alive or dead
  stage,     \* how far the job process is
  stop,      \* its stop event
  settling,  \* a settle has read the row and the job, and not written yet
  seen, handled, first, \* jobs.watch: _seen_running, _handled, first poll
  web,       \* up or down
  deaths

rowVars == <<kind, row, starter, job, stage, stop, settling, seen, handled,
             first, web, deaths>>

watcher == <<seen, handled, first>>

jobSide == <<job, stage, stop>>

Kinds == {"download", "build", "export"}

Active == {"queued", "running"}

Final == {"done", "error", "cancelled"}

RowInit ==
  /\ kind \in Kinds
  /\ row = "none" /\ starter = "idle" /\ job = "none" /\ stage = "none"
  /\ stop = FALSE /\ settling = FALSE
  /\ seen = FALSE /\ handled = FALSE /\ first = TRUE
  /\ web = "up" /\ deaths = 0

(* finish_if_active and fail_if_active: one conditional statement. *)
FinishIfActive(s) == row' = IF row \in Active THEN s ELSE row

(* launch.describe: between the spec and the pid a job is not running. *)
Running == job = "alive"

-----------------------------------------------------------------------------
(* start: the row, the job's files, its process.                           *)
Create ==
  /\ web = "up" /\ starter = "idle"
  /\ row' = "queued" /\ starter' = "created"
  /\ UNCHANGED <<kind, jobSide, settling, watcher, web, deaths>>

WriteSpec ==
  /\ starter = "created"
  /\ job' = "spec" /\ starter' = "wrote"
  /\ UNCHANGED <<kind, row, stage, stop, settling, watcher, web, deaths>>

Spawn ==
  /\ starter = "wrote"
  /\ job' = "alive" /\ stage' = "entry" /\ starter' = "over"
  /\ UNCHANGED <<kind, row, stop, settling, watcher, web, deaths>>

(* The card is taken: refused before the files, or by the supervisor.      *)
Rejected ==
  /\ starter \in {"created", "wrote"}
  /\ job' = IF starter = "wrote" THEN "dead" ELSE job
  /\ starter' = "over"
  /\ IF kind = "export" THEN row' = "error" ELSE FinishIfActive("error")
  /\ UNCHANGED <<kind, stage, stop, settling, watcher, web, deaths>>

-----------------------------------------------------------------------------
(* Slip: the job marks its row running whatever it holds.                  *)
JobBeginsBlind ==
  /\ Running /\ stage = "entry"
  /\ row' = "running" /\ stage' = "work"
  /\ UNCHANGED <<kind, starter, job, stop, settling, watcher, web, deaths>>

(* A download that is not queued any more is not begun; a build or an      *)
(* export is, whatever its row holds.                                      *)
JobBegins ==
  /\ Running /\ stage = "entry"
  /\ IF kind = "download" /\ row # "queued"
     THEN stage' = "ending" /\ UNCHANGED row
     ELSE stage' = "work" /\ row' = "running"
  /\ UNCHANGED <<kind, starter, job, stop, settling, watcher, web, deaths>>

JobResult(s) ==
  /\ Running /\ stage = "work"
  /\ stage' = "ending"
  /\ IF kind = "download" THEN FinishIfActive(s) ELSE row' = s
  /\ UNCHANGED <<kind, starter, job, stop, settling, watcher, web, deaths>>

(* Builds do not look at the stop event: the grace period kills them.      *)
JobStopped == stop /\ kind # "build" /\ JobResult("cancelled")

JobExits ==
  /\ Running /\ stage = "ending"
  /\ job' = "dead"
  /\ UNCHANGED <<kind, row, starter, stage, stop, settling, watcher, web, deaths>>

JobKilled ==
  /\ Running
  /\ job' = "dead"
  /\ UNCHANGED <<kind, row, starter, stage, stop, settling, watcher, web, deaths>>

-----------------------------------------------------------------------------
(* cancel of a download ends its row first; of an export it only asks.     *)
Cancel ==
  /\ web = "up" /\ row \in Active
  /\ \/ kind = "download" /\ row' = "cancelled" /\ stop' = (stop \/ Running)
     \/ kind = "export" /\ Running /\ stop' = TRUE /\ UNCHANGED row
  /\ UNCHANGED <<kind, starter, job, stage, settling, watcher, web, deaths>>

(* _settle of a poll: the row was active and the job not running.  Of a    *)
(* build also before the job has its pid; the pages learn the id of a      *)
(* download only once it is started.                                       *)
SettleReads ==
  /\ web = "up" /\ kind # "export" /\ ~settling
  /\ row \in Active /\ job # "none" /\ ~Running
  /\ kind = "download" => job = "dead"
  /\ settling' = TRUE
  /\ UNCHANGED <<kind, row, starter, jobSide, watcher, web, deaths>>

(* Slip: the settle writes without a condition.                            *)
SettleWritesBlind ==
  /\ settling
  /\ settling' = FALSE /\ row' = "error"
  /\ UNCHANGED <<kind, starter, jobSide, watcher, web, deaths>>

SettleWrites ==
  /\ settling
  /\ settling' = FALSE /\ FinishIfActive("error")
  /\ UNCHANGED <<kind, starter, jobSide, watcher, web, deaths>>

(* Slip: the follow-up of a build is forgotten, as that of an export is.   *)
WatchPollsDownloads ==
  /\ web = "up" /\ job # "none"
  /\ first' = FALSE
  /\ seen' = (seen \/ Running)
  /\ handled' = (handled \/ (~Running /\ (first \/ seen)))
  /\ settling' = (settling \/ (~Running /\ seen /\ ~handled /\ ~first
                               /\ kind = "download" /\ row \in Active))
  /\ UNCHANGED <<kind, row, starter, jobSide, web, deaths>>

(* poll_once: the follow-up of a job that was seen running and has ended.  *)
(* The first poll only records, and so do jobs that have never been seen.  *)
WatchPolls ==
  /\ web = "up" /\ job # "none"
  /\ first' = FALSE
  /\ seen' = (seen \/ Running)
  /\ handled' = (handled \/ (~Running /\ (first \/ seen)))
  /\ settling' = (settling \/ (~Running /\ seen /\ ~handled /\ ~first
                               /\ kind # "export" /\ row \in Active))
  /\ UNCHANGED <<kind, row, starter, jobSide, web, deaths>>

(* A poll while there is no job to see. *)
WatchPollsNone ==
  /\ web = "up" /\ job = "none" /\ first
  /\ first' = FALSE
  /\ UNCHANGED <<kind, row, starter, jobSide, settling, seen, handled, web,
                 deaths>>

(* The job lives on without the web app, and a start that the supervisor   *)
(* has been asked for goes on.                                             *)
WebDies ==
  /\ web = "up" /\ deaths < MaxDeaths
  /\ web' = "down" /\ deaths' = deaths + 1
  /\ starter' \in IF starter = "idle" THEN {"idle"}
                  ELSE {"over"} \cup ({starter} \cap {"wrote"})
  /\ settling' = FALSE /\ seen' = FALSE /\ handled' = FALSE /\ first' = TRUE
  /\ UNCHANGED <<kind, row, jobSide>>

(* Startup: rows whose job is not alive are failed. *)
WebBoots ==
  /\ web = "down"
  /\ web' = "up"
  /\ IF Running THEN UNCHANGED row ELSE FinishIfActive("error")
  /\ UNCHANGED <<kind, starter, jobSide, settling, watcher, deaths>>

RowNext ==
  \/ Create \/ WriteSpec \/ Spawn \/ Rejected
  \/ JobBegins \/ JobStopped \/ JobExits
  \/ JobResult("done") \/ JobResult("error") \/ JobKilled
  \/ Cancel \/ SettleReads \/ SettleWrites \/ WatchPolls \/ WatchPollsNone
  \/ WebDies \/ WebBoots

RowSpec == RowInit /\ [][RowNext]_rowVars

-----------------------------------------------------------------------------
(* Every variable has its type.                                            *)
RowTypeOK ==
  /\ kind \in Kinds /\ row \in {"none"} \cup Active \cup Final
  /\ starter \in {"idle", "created", "wrote", "over"}
  /\ job \in {"none", "spec", "alive", "dead"}
  /\ stage \in {"none", "entry", "work", "ending"}
  /\ stop \in BOOLEAN /\ settling \in BOOLEAN
  /\ seen \in BOOLEAN /\ handled \in BOOLEAN /\ first \in BOOLEAN
  /\ web \in {"up", "down"} /\ deaths \in 0..MaxDeaths

(* "a cancel from the web app and the job's own result must never          *)
(* overwrite each other" (db/hf_downloads.py:50), nor do a settle, a       *)
(* restart or the start of the job: the final state of a download stays,   *)
(* and so does the success of a build or an export.                        *)
RowsFinal ==
  [][row = "done" \/ (kind = "download" /\ row \in Final) => row' = row]_rowVars

(* A job that a poll has seen alive (and not put aside before) and that    *)
(* ends, however, does not leave its download or build active while this   *)
(* web app lives.                                                          *)
SeenSettles ==
  (kind # "export" /\ seen /\ ~handled /\ job = "dead") ~> (row \in Final \/ web = "down")

(* "fail a row its dead job left active" (webui/app.py:179): also if the   *)
(* job lived between two polls only.                                       *)
DeadSettles ==
  (kind # "export" /\ job = "dead") ~> (row \in Final \/ web = "down")

(* "A row still active whose job has ended" (brain_build_jobs.py:132): a   *)
(* settle fails no build whose job is about to run.                        *)
FailedHasEnded ==
  [][SettleWrites /\ row' = "error" /\ row # "error" => job = "dead"]_rowVars
=============================================================================
