# Finetune Studio: TLA+ models, checks and proofs

Finetune Studio (`src/src/finetune_studio`) is a web application for preparing data, training, exporting and testing
small language models on one machine. What is hard about it is not one algorithm but that its work is spread over
processes that live and die on their own: a supervisor, the web app, an inference worker, and a job process for every
long piece of work, which share a directory of job files, an SQLite database and one GPU. These modules model that part
and state what must hold between the processes, however they interleave and wherever they crash.

All paths below are relative to `src/src/finetune_studio`.

## Inventory

| Component | State | Operations | Talks to | What is hard | What makes it correct |
|---|---|---|---|---|---|
| Job layer: `jobs/launch.py`, `jobs/store.py`, `jobs/runner.py`, `supervisor/jobs.py` | one directory per job (`spec.json`, `pid`, `gpu_released`, `exit.json`), the supervisor's in-memory job table, the job processes | launch, describe, stop, the coroutines of a start, watchers, escalation, shutdown, the runner's own life | web app -> control socket -> supervisor -> process, and all of them through the files | four writers of one record; crashes of any of three parties between any two steps; a GPU check far away from what it checks | one GPU job at a time; a job runs at most once; an exit record is final once nobody is about to leave another; a stop ends; a shutdown waits |
| Supervised components: `supervisor/core.py` | one `_Component` (desired state, state, crash counter, flags) and its child | the task `_loop`; start, stop, restart, shutdown from the control socket | control socket sets flags, the task reads them at its awaits | requests that arrive while the task spawns, probes, terminates or sleeps | one child at most; no endless crash loop; every request is obeyed |
| Mining queue: `data/mining/scheduler.py`, `data/mining/worker.py`, `db/mining.py`, `jobs/watch.py` | `mining_jobs` rows; in each worker its running files and events; the watcher's memory of the jobs it saw | submit, cancel, reconcile, recover, the worker's loop, a thread per file | rows and job files only | conditional and unconditional updates of one row from three processes; a worker that closes while a submit looks | a row says running exactly while somebody works on it; nothing ended comes back; nothing waits for ever |
| Inference worker: `inference/worker.py`, `testing/inference.py` | the engine (model, path, busy count, idle timer) behind one lock; requests that wait for it | load, unload, generate, chat completion, idle unload, death | web app and jobs over HTTP; `model_cache` is released before a load | what is read before the lock and used after it; a timer thread that takes no lock | no generation loses its model; an unused model goes; the status names the model that is there |
| Model cache: `smart_brain/model_cache.py` | table of loaded embedders and rerankers, generation, the one timer handle | look up, load, use, expire, release | every caller that embeds or reranks; the engine's load releases it | loads outside the table's lock; timer threads that race with releases | a release is final; one copy per key; nothing idle stays for ever |
| Row settling: `webui/download_jobs.py`, `webui/brain_build_jobs.py`, `webui/export_jobs.py`, their tables | a row per piece of work, active while its job is | start, cancel, settle, follow-up of the watcher, startup reconcile, the job's own writes | rows and job files | web app and job end the same row; either may die | a final status stays; a dead job's row is settled |
| Testing and judge jobs: `webui/testing_jobs.py`, `testing/suite.py`, `testing/judging.py` | the benchmark row (status, judge status), live job files of runs and judges, the one model of the worker | run, next case, cancel, judge (from a page, or chained by the run), startup reconcile | job layer; inference worker, shared with every page | check then launch from two processes, and the job appears later still; other pages swap the model | jobs that need the card exclude each other; a swap spoils at most one answer |
| Knowledge: `knowledge/sources.py`, `knowledge/index.py`, `smart_brain/store.py` | `parsed.txt`, passages and row of a source; index files and manifest | stage, parse, reparse, edit, build, resume | parse threads, editor, build job: no lock between them | every save is three writes; the build reads passages and hashes at different times | what is shown as indexed is indexed; every parse ends |
| Training and export: `training/engine.py`, `training/run_persistence.py`, `training/run_export.py`, `training/gguf_convert.py` | phase of the run, stop event, adapter, merge and GGUF on disk, the run's row | start, stop, the phases, kill, reconcile, export | job layer; disk shared by the run and its exports | failures after the training is over; kills in the middle of a file | done is honest; a stop keeps the work |
| Mining of one file: `data/mining/job.py`, `data/mining/coverage.py`, `db/mining.py` | items, pairs, questions seen, proposals and exclusions | helper calls in parallel, validate, write, check, fix rounds, cancel; a reviewer's decisions | the mining worker runs it; reviewers change pairs and items meanwhile | a shared set of questions; a final status computed from a check that may be old | no question twice; done means stated |
| File library: `data/fs/file_library.py` | rows of files and versions, bytes on disk, trash, what was derived from each content | upload, new version, delete, restore, rename, purge | forgets what `knowledge` derived | the disk does not roll back with the database; several versions under similar names, several names under one path | a live row points at its bytes; an upload overwrites nothing live |
| Chunking: `smart_brain/chunking.py` | units of a text, the open chunk, how much of it repeats, closed chunks | pack, close, restart | every index build | what repeats counts for the budget and not as text | nothing lost, nothing too large |
| Load of a GGUF: `models/llama_loader.py`, `models/gguf_fit.py` | context, layers on the GPU, attempts | plan, try, lower the context, shed layers, give up | the engine loads through it | an estimate that may be wrong, a bounded number of tries | the request is kept; giving up comes last |
| Q&A pair files: `data/fs/qa.py` | the file of a pair, the listing cache | list, update, delete, reset; the miner writes from its own process | mining, review pages, exports, index | read, change, write without a lock; a cache that trusts a time stamp | a listing serves what the file holds |
| VRAM probes, Smart Brain scoring, parsers, models and providers, benchmarks, access, guide, database, web routes, CLI | see `PROJECT.json` | | | mostly sequential, numeric or I/O | left to tests, reasons in `PROJECT.json` |

## Plan

Done, in this order: `JobLifecycle` and `Jobs` (everything long runs through them), `Component`, `MiningQueue`, then the
clients of those three: `Inference`, `ModelCache`, `JobRows`, `BrainIndex`, `TestRun`, `Training`, `MiningJob`,
`FileLibrary` with `Shelf`, `Chunking`, `GgufLoad`, `QaFiles`.

Theorems follow the same order; every safety property of the passing runs now has one. Left, as models: compare groups,
the seats of helper models with their providers (`models/manager.py`), and the deletion of runs (`training/run_delete.py`),
each with its theorems; and a refinement for `ModelCache`, which still states its promise as properties only.

## Modules

| Module | What it is |
|---|---|
| `JobLifecycle` | what a reader of the job files is promised about each job: accepted once, runs at most once, ends once; its record is final once no other writer is pending |
| `Jobs` | the job layer in detail; `Jobs!Lifecycle` states that it implements `JobLifecycle` |
| `MCJobs` | `Jobs` with model values and symmetry for TLC |
| `JobsProofs` | its theorems |
| `Component` | one component of the supervisor |
| `ComponentProofs` | its theorems |
| `MiningQueue` | the mining queue |
| `MCMiningQueue` | model values and symmetry |
| `MiningProofs` | its theorems |
| `Inference` | the inference worker, its engine and the idle timer |
| `ModelCache` | the cache of embedders and rerankers |
| `JobRows` | the row of one download, build or export and its job |
| `BrainIndex` | one source and the index built from it |
| `TestRun` | a test run and the judges of its row |
| `Training` | one training run and the exports of it |
| `MiningJob` | the mining of one file |
| `Shelf` | what a reader of the file library is promised: its own bytes, until they are purged, whatever is done to others |
| `FileLibrary` | the files of one project, their versions and the trash; `FileLibrary!OnShelf` states that it implements `Shelf` |
| `Chunking` | the chunks of one text |
| `GgufLoad` | one load of a GGUF model: plan and attempts |
| `QaFiles` | the file of one Q&A pair and the listing cache |
| `ServicesProofs` | theorems about `Inference`, `ModelCache`, `JobRows` and `BrainIndex`, and about `MCServices` as a whole |
| `RecordProofs` | theorems about `Training`, `TestRun` and `MiningJob`, and about `MCRecords` as a whole |
| `LibraryProofs` | theorems about `FileLibrary` and `QaFiles` |
| `ChunkProofs` | theorems about `Chunking` |
| `GgufProofs` | theorems about `GgufLoad` |
| `MCServices` | `BrainIndex`, `Inference`, `ModelCache` and `JobRows` for TLC |
| `MCLibrary` | two names of `FileLibrary` that are stored as one, for TLC |
| `MCRecords` | `FileLibrary`, `MiningJob`, `Training`, `TestRun`, `Chunking`, `GgufLoad` and `QaFiles` for TLC |

`MCServices` and `MCRecords` put parts together that share no state: the variable `part` says which of them a behaviour is
about, the others stay in their first state. This is a union of the parts' behaviours, not a composition: it lets one
run of TLC check several of them, and shows of each of them what a run of its own would show.

Some definitions are preceded by a variant of the same code with a plausible mistake, commented "Slip". They are used
nowhere in a specification; replacing the definition by its slip must break the property it is paired with in
`PROJECT.json` (`mutants`), which is how we know that each property depends on the code.

### Jobs and the code

An id stands for one launch (`store.new_id`). A variable per thing the parties can see: `spec`, `pid`, `released`,
`exit` are the files; `table`, `stopReq`, `awaited`, `req` the memory of the supervisor (`req[j]` is the position of the
coroutine of `POST /v1/jobs` in `JobTable.start`); `launch[j]` the position of the web thread in `launch.start`; `proc`,
`term` the process and its stop event.

* `LaunchCheck` .. `LaunchRaised` are `launch.start`, cut where another party can get in: the GPU check, the spec file,
  the request, and its three outcomes. `SeenRunning` is what a listing (`list_jobs`) reads as running whatever its timing;
  a job whose pid file is missing, or may be read empty (`PidUnsettled`), may be read either way.
* `look[r][j]` is where reader `r` is in `describe` of `j`: `LookMisses` is its look at the process, `LookGuesses` the look
  at the pid and, in `write_exit`, at `exit.json`, `LookRecords` the `os.replace` of its "crashed".
* Everybody who writes `exit.json` is cut in the same place: between the look for a record and the replacement there may
  be any step of any other (`LookGuesses`/`LookRecords`, `SupFinds`/`SupRecord`, `RunnerBadSpec`/`RunnerRecordsBad`; the
  runner's own end does not look). `Pending` are the records of those who have looked, `Publish` the replacement: they share
  one temp file, so that a writer may put another's record there, or find that it is gone.
* `SupStart`, `SupUnloaded`, `SupFork`, `SupRegister` are `JobTable.start`, one action per await; `SupReap`, `SupFinds`,
  `SupRecord` are `_watch`; `SupEscalate` the SIGKILL after the grace; `SupDrain`, `SupExit` are `JobTable.shutdown`.
* `RunnerReady` .. `ProcExit` are `runner.main` and `execute`; `ProcDies`, `WebCrash`, `SupCrash` are the crashes.
* `Overlap` says whether a GPU launch may begin while another one is between its check and its pid file.

Of a record, `Lifecycle` promises what is left: a job is "ended" while some writer has yet to replace its record, which may
change then; it is "settled" after, and the record final. What `store.py:89` says, that the runner's own record wins, is true of a
supervisor that comes later, not of one or of a reader that has looked before (`CrashMeansGone`, in the findings).

Abstractions: the GPU check of a launch is one step (`describe` of each job it lists is cut, as a reader's); `LaunchRejected`
is one, for a job without a process and a pid file has no other writer; a detached runner and its pid file are one step;
the wait of the shutdown (grace plus ten seconds) is taken to be enough for the SIGKILL and the watcher; the model in the
inference worker is not tracked. Left out: `FTS_JOBS_INPROCESS`, Windows, `prune`.

### Component and the code

`pc` is the await at which the task `_loop` is suspended ("top" is the head of the loop, where nothing is awaited).
`Park`, `Fork`, `Spawned`, `SeesExit`, `SeesRequest`, `Probe`, `ProbeOk`, `ProbeBad`, `Terminate`, `Settle`, `Wakes` and
`Finish` are the stretches between two awaits; `Account` is what the loop makes of a child that is gone. `Start`, `Stop`,
`Restart` and `Shutdown` are the control socket; `ChildDies`, `Ages` and `Save` the surroundings. `age` replaces the
clock: "early" is less than `stable_after`, "overdue" more than `start_timeout`, the longer of the two in every spec of
`supervisor/spec.py`. `saved`, `plan` and `asked` follow the version of the listen settings. `attempts` counts forks
since the last request or stable run; it is a history variable. `RestartServed` asks for the step into "spawning",
so that a request which is cleared when an earlier spawn ends is not served by it (that one is `RestartApplies`).

Abstractions: a child is reaped within five seconds of SIGKILL; sockets can be bound; logs and events are left out.

### MiningQueue and the code

`status`, `runner`, `asked` are the columns of a row; `thr`, `flag`, `byUser` the thread of a file in its worker, its
cancel event and `_user_cancelled`; `phase`, `accepting`, `stop` a worker's main loop, the state it publishes and its
stop event; `req`, `saw`, `cancel`, `seen`, `web` the web app: request threads, what `reconcile` read first, cancel
requests, `_seen_running`, and whether it is up.

* `SubmitRead`, `Reconcile`, `Submit`, `Ensure`, `Start`, `StartFails` are `MiningScheduler.submit`; the thread `Watch`
  shares `Reconcile`, `Ensure` and `Start` for `recover_after_restart` (`WebUp`) and `on_finished` (`WatchEnded`).
* `FirstPoll`, `WatchSees`, `WatchEnded` are `watch.poll_once`.
* `Cancel`, `CancelRead`, `CancelCheck` are `MiningScheduler.cancel` with its stale check and unconditional update.
* `Claim`, `PollCancel`, `Close`, `LastLook`, `Reopen`, `SeesStop`, `Finish`, `Exit` are `Worker.run` and `_finish`;
  `FileStarts`, `FileCannotStart`, `FileEnds`, `FileLeaves` are `Worker._run_one` and `MiningJob.run`.

Abstractions: each request is for one file, so a row and its request thread share a name; the order of the queue is
left open; "done" stands for "done" and "gaps"; the pool drops its waiting files in the step that sees the stop (a file
that starts just after is one that started just before). A worker's job process is what `Jobs` says it is, reduced to
live or dead. Left out: `reset`, the busy check of `submit`, the stages of a file.

`QuickEnds` says whether a worker process may be gone before the watcher has seen it running. Where it is FALSE, the
assumption is that a worker lives for one poll (3 s) at least; it idles for 2 s before it closes, so this is not
guaranteed, and with `QuickEnds` set to TRUE in `Mining_live.cfg` TLC shows what happens then (`QueuedServed`, in the findings).

### Inference and the code

`call` is what each request thread is at; `lock` is `build_app`'s lock; `model`, `path`, `busy`, `timer` are the engine's
fields. `Ask` is the handler up to the lock, with the 409 answers and, for a chat, the model it keeps. `LoadBegins`,
`LoadModel`, `LoadEnds`, `LoadFails` are `InferenceEngine.load` (unload, the loader, `model_path` and the timer);
`GenerateBegins`, `Generates`, `GenerateEnds` are `generate` up to the timer, under `busy`, and after it. `TimerFires` is
`_auto_unload` up to its decision, `AutoUnload` the rest; between the two anything may happen, since that thread holds no
lock. Time is not counted: a timer that is set may fire, and `after` says whether `_last_used` is later than its start.
`safe` is a history field of a generation: no timer thread that had decided was still to come when it began. Such a thread
takes the model all the same, and `BusyKeepsModel` says nothing of that race, which the code has.

Abstraction: the fields that `unload` clears one after the other (225-244) go in one step (`Unloaded`).

### ModelCache and the code

One action per section under `_lock`: `Looks`, `BeginsLoad`, `Loaded`, `LoaderRaises` are `get_or_load`; `BeginsUse` and
`EndsUse` are `_wrap.run`; `Releases` is `release_all`; `TimerWakes`, `TimerClears`, `TimerExpires`, `TimerArms` are the
timer thread. `handle` is what `_timer` names; `strays` counts timers that sleep and that nothing names any more. `Ages`
replaces the clock: an entry becomes idle, a use makes it young again.

### JobRows and the code

`kind` is chosen at the start. `starter` is the thread in `start` (row, files, process); `job` and `stage` the job's files
and process, an excerpt of what `Jobs` says of them; `settling` a `_settle` that has read and not written. `SettleReads`
and `SettleWrites` are cut because a job may end its row in between. `WatchPolls` is `watch.poll_once` for this job, with
`_seen_running` and `_handled`. `WebBoots` is the reconciliation in `lifespan`.

### BrainIndex and the code

A text is named by its hash. `saving` holds the three writers that may be in `_write_text` at once: a parse thread of the
web app, an edit (or the Vision reader), and the quick build's own parse, each between the writing of `parsed.txt`, the
clearing and writing of the passages, and the row. `builder` is the build job: `BuildReads` (`documents`), `BuildHashes`
(what it will claim), `BuildWrites` (vectors and passages), `BuildClaims` (the manifest). A reader of passages that are
being written gets all, some or a mixture (`Passages`). `ServerBoots` is `resume_unfinished`.

Three history variables tell which builds no saving has crossed. They record that steps of two parties overlapped and never
look at what was read, so that `IndexedIsCurrent` is not what they say: `tangled`, a saving began to clear the passages while
another was between that and its row, or died there, and none has cleared them alone since; `crossed`, the build read the
passages in such a state or during a saving (`Midway`), or a row was written between its passages and its hashes; `unsure`,
the index was written by a build that was crossed or has not left its manifest. Builds that were crossed may claim what
they did not embed: `FreshIsFresh`, in the findings, is the same sentence without the exception.

An exception of `_write_text` (a full disk, `sources.py:214-216`) is outside `parse`'s try and leaves the row in parsing until
the next start; it is not modelled, like all errors of the disk.

### TestRun and the code

`tester` is the run's job between its awaits of the worker; `at` the cases asked; `loaded` the model in the worker;
`starting`, `sent` and `judges` the judges between the busy check and the launch, posted to the supervisor, and alive: one
from a page for this row, one for another row, one chained by the run. The launch is cut as in `Jobs`: `JudgeChecks`
(`_assert_free` and the row), `JudgePosts` (the lease), `LeaseUnloads`, `JudgeAppears`; `LaunchGivenUp` is the client that
waits 30 s for an unload of up to 60, `late` the judges whose starter did that or died. `NextCase` is `should_stop` and the
loop of `run_suite`, `Answers` is `run_case`. `foreign` counts answers of another model (history variable).

Abstractions: each starter has one judge on its way or alive at a time; a judge appears when its pid file is settled (the
moment in which it is rewritten is in `Jobs`, `PidUnsettled`) and has loaded its model as it appears; the launch of the test
run itself, which takes no lease and so unloads nothing, is not given up and started late.

### Training and the code

`phase` is the phase of `_train_unsloth`, `_train_standard` or `_train_preference`; `adapter`, `merged`, `gguf` what lies in
the run's directory: nothing, half, whole, and for a merge its config only ("bare"). `run` is the status of the row and
`noted` whether it has an error; `soft` is `state.error` that does not end the run. `exporter` is an export job that
follows; `exported` what its row points at. The card is one job's at a time (`Jobs`), so a run and an export of it do not
overlap.

### MiningJob and the code

One item per unit. `unit` is the unit's thread in `_pairs_round` and `_call`; `Validates` takes `_write_lock` and
`WritesPairs` gives it back; `ChecksItems` is one turn of `_fix_loop`; `RecordsResult` is the end of `_run`. `RejectsPair`,
`ExcludesItem` and `CancelsMining` are a reviewer in the web app; `reviewed` remembers what they touched since the last check.

### FileLibrary and the code

Every operation is one call on the event loop and so one step. A path is the id, the name and the version prefix, in a raw
folder or in the trash, as `raw_path_for`, `_revive_deleted_file` and `soft_delete_file` build it; the name in a path is
`Stored[n]`, for `_safe_stem` and `_ext_for_filename` give several names one spelling (`report.pdf`, `report.PDF`);
`known` are the contents something was derived from (`forget_hashes`). `torn` are the rows whose bytes were moved by a rename that the database then
refused. Of `Shelf`, `given` are the contents in a row's versions, `shown` the bytes at the current path of a file that
is not deleted (`ShownOf`), `trashed` the rows that are, `lost` is `torn`. Upload is `Put` or, when it is refused,
`PutAgain` (the bytes it leaves may lie where the live file of that hash has its current path) or nothing; a rename that
is refused is `Lose`; the rest keep their names. `UploadKeepsBytes` is about every path of every live file; its one exception
is that refused upload, which puts back the bytes the file began with. Where newer ones lie there by now they are lost
(`DuplicateNotWritten`, in the findings).

Abstractions: all files are of one kind, that is in one raw folder; single operations of the disk do not fail.

### Chunking and the code

`BuildUnits` is `_build_units`, a line at a time (`AddLine`), and `Windows` is `_split_long_line`, a window at a time
(`Further`), both as recursive functions; each action handles one unit of `chunk_rows`. `Closes` is `close` and `restart`,
`Seed` what `restart` repeats, `fresh` how much of the open chunk that is. A line is a kind and the costs of its words; tokens
of a piece are the sum of its words' costs. `text` keeps the lines, so that `WordsKept` can compare the units with them.

A window may hold nothing new. Words that cost 2, 1, 1, 4 under a size of 4 and an overlap of 2 are cut into words 1-3, 2-3,
3, 4: the second and the third window only repeat. Nothing in the code promises otherwise, and `ChunksHold` does not claim it.

### GgufLoad and the code

`Plans` is the planning in `load_llama_gguf` (`plan_auto_ctx`, `plan_gpu_layers`) when there is nothing to search for.
`SearchBegins`, `SearchHalves` and `SearchEnds` are the binary search of `plan_auto_ctx`, one probe a step; during it `ctx`
and `high` are its ends in blocks, and `PlanWith` puts its result in the plan. `LowersCtx`, `ShedsLayers` and `GivesUp` are
the branches of the retry loop after running out of memory, `LoadReturns` every other end. Memory is counted in what one
position costs one layer, so that `Estimate` is an integer; `Block` stands for 1024.

### QaFiles and the code

A listing is cut at its copy of the cache, the stat, the read and the publication; an update at its read, the truncation,
the write and `_forget_cached_pair`. A write gets the time stamp of now, which may be that of the write before (`coarse`).
Two writers that overlap may leave a "garbled" file: `write_text` truncates and then writes from the start.

## Runs

| Run | Result | What it shows |
|---|---|---|
| `jobs_serial` | holds | `TypeOK`, `GpuExclusive`, `DrainWaits` for two GPU jobs, through crashes and restarts of all three parties |
| `jobs_live` | holds | for one job with two readers beside its three other writers, `Lifecycle`, and under fairness `StopEnds`, `DrainEnds` |
| `jobs_overlap` | violated | `SupervisorLease`: two launches at the same time both get the GPU |
| `jobs_shutdown` | violated | `ShutdownLeavesNoJob`: a job posted while the supervisor drains is left behind |
| `component_all` | holds | all of `Component`: `IdleIsDown`, `CrashLoopBounded` and four liveness properties |
| `component_restart` | violated | `RestartApplies`: a restart asked for during a spawn is dropped |
| `mining_safe` | holds | `WorkingRowRuns`, `StopInterrupts`, `EndedStaysEnded` for two files and two workers |
| `mining_live` | holds | `QueuedServed`, `RunningEnds` when the watcher sees every worker |
| `mining_one` | violated | `OneWorker`: two workers mine at the same time |
| `records_all` | holds | `UploadKeepsBytes`, `OnShelf` (library); `QuestionsOnce`, `DoneIsStated` (mining); `RowIsHonest` (training); `SwapCostsOne`, `CardExclusive` (testing); `ChunksHold` (chunking); `KeepsToLimits`, `LastResort` (load of a GGUF); `ListsWhatIs` (pair files) |
| `testing_late` | violated | `CardAlone`: a judge whose launch was taken for failed appears beside a test run |
| `services_all` | holds | `IndexedIsCurrent`, `ParsesEnd` (index); `BusyKeepsModel`, `UnusedUnloads` (engine); `CacheHolds`, `IdleExpires` (cache); `RowsFinal`, `SeenSettles` (rows) |

The five violated runs each check one sentence of the repository's own docs; `PROJECT.json` (`findings`) quotes them:

* *GPU lease* (`supervisor/jobs.py:69`): the table is checked two awaits before the job is put in it.
* *Shutdown* (`supervisor/jobs.py:143`): the control socket answers until the end, `shutdown` stops only what runs when
  it begins.
* *Restart* (`supervisor/core.py:212`): `restart_requested` is cleared after the spawn, the settings were read before.
* *Two workers* (`data/mining/scheduler.py:102`): a listing, then a launch; and a closing worker may go on.
* *Late judge* (`webui/testing_jobs.py:156`): a launch that its starter gave up is served, and the next check cannot see it.

Other sentences that the code does not keep are stated in the modules too. They have no run of their own; naming the property
in place of those listed in `Jobs_live.cfg` (`CrashMeansGone`), `Records_all.cfg` or `Services_all.cfg`, or setting `QuickEnds`
to TRUE in `Mining_live.cfg` (`QueuedServed`), gives TLC's counterexample within a minute:

| Property | Where | What happens |
|---|---|---|
| `CrashMeansGone` | `jobs/launch.py:136` | liveness and pid are two looks: a job that is just being started gets a crash record |
| `QueuedServed` | `jobs/watch.py:41` | no follow-up for a worker that the watcher has never seen: its files wait |
| `DuplicateNotWritten` | `data/fs/file_library.py:867` | a refused upload writes over what a live file shows, at a path that two names share |
| `FreshIsFresh` | `knowledge/index.py:234` | a build reads passages, then hashes, beside a saving in three steps, and claims what it did not embed |
| `RestoreGivesBack` | `data/fs/file_library.py:562` | a restore brings back the bytes of an older version |
| `PurgeKeepsOthers` | `knowledge/sources.py:230` | purging a file forgets what another live file with that content has |
| `NoTwins` | `data/fs/file_library.py:580` | a restore makes a second live file with the same bytes |
| `NoOrphans` | `data/fs/file_library.py:621` | trash copies of later versions outlive their rows |
| `ShaIsText` | `knowledge/sources.py:281` | two saves, or a restart in the middle of one, leave row and file apart |
| `OneTimer` | `smart_brain/model_cache.py:207` | a late timer thread drops the handle of a newer timer |
| `IdleUnloads` | `testing/inference.py:199` | after a long generation nothing unloads the idle model |
| `OneModel` | `inference/worker.py:109` | a chat answers from the model that was just replaced |
| `DeadSettles` | `jobs/watch.py:41` | a job that lived between two polls leaves its row active |
| `FailedHasEnded` | `webui/brain_build_jobs.py:133` | a poll during a start fails the row of a build that then runs |
| `ExportsAreWhole` | `training/run_export.py:85` | a killed merge or conversion passes for a finished one |
| `AnswersOfModel` | `webui/testing_jobs.py:259` | a run is done with answers of another model |
| `JudgedOnce` | `webui/testing_jobs.py:136` | two remote judges judge one row at once |
| `NoLineTwice` | `smart_brain/chunking.py:149` | a chunk that breaks before a table's separator has the separator twice |
| `RowsHaveHeader` | `smart_brain/chunking.py:161` | rows after such a break may lose their header |
| `FittedIsLargest` | `models/gguf_fit.py:189` | the search for a context misses the last multiple of 1024 |
| `CacheForgets` | `data/fs/qa.py:61` | a listing brings a forgotten record back |
| `ReviewedStay` | `data/mining/scheduler.py:264` | a reset deletes a pair that was reviewed meanwhile |

Some of what was met while modelling has no property: training runs, test runs and judges have no handler in `jobs.watch`,
so the row of a killed one stays active until the web app restarts; a parse that was under way when an edit was saved
writes over the edit (`knowledge/sources.py:188`); the errors of imatrix and abliteration are overwritten by "done";
a web app or supervisor that dies between `spec.json` and the spawn (`jobs/launch.py:57`) leaves a job without a record;
two updates of one pair file that overlap lose one of them.

### Bounds

* Jobs: two jobs are enough for a lease to be violated and for a listing to report one job while another starts; both
  take the GPU, and the properties quantify over pairs. Every party may crash any number of times. `jobs_serial` sets
  `Overlap` to FALSE, which is what the first finding leaves of the lease; liveness needs one job only, since no job
  waits for another. Jobs are interchangeable (symmetry, safety runs only). `jobs_live` has one job for `Lifecycle` too, a promise
  about each job by itself, and two readers, so that four writers can have found no record at once.
* Component: `max_fast_crashes` 3, `probe_failures` 2, so that counting, the limit and the step before it all occur;
  the settings change once (`MaxSaves`), which is enough for an old and a new version.
* Mining: two rows and two workers, so that a worker takes over while another ends and two requests race; `MaxFiles` 1
  makes the second row wait or be taken by the second worker; the web app dies once (`MaxCrashes`), workers as often as
  there are any. `mining_live` has one row and may begin with an idle worker (`Old`); rows wait for each other only
  through the limit of files.

* Records: two names, a third that is stored as the first, two contents and one spare id are enough for twins, for a hash
  whose id is taken, for a rename that clashes and for two names of one path; three versions (`MaxVersions`) for two that share a path and one beside them; eight operations (`MaxOps`)
  reach every order of upload, new version, delete, restore and rename of two files. Two items and two questions let two
  units collide on one question, three fix rounds (`MaxRounds`, as in the code) and two decisions of the reviewer
  (`MaxReviews`) let every exit of the loop occur. Three cases and two swaps or failed reads (`MaxSwaps`) tell "one per
  swap" from "all after a swap".
* Chunks: four lines over one-word, long and oversized prose (`MCProse`: one line of four words that
  fits a window or needs two, one whose words are dearer than the overlap, one word above any budget), two sizes of rows, blanks and separators reach every kind of
  break (before a header, a separator, a row, prose with and without overlap); the overlap is none or half of the budget.
  Loads: native contexts below, at and above the floor and off the block, four layer counts of which the largest (40)
  needs more steps than there are tries. Pairs: two threads, two updates (`MaxEdits`) and any
  number of listings.
* Services: two requests and two models for one request to overtake another at the lock; two callers, one key and two loads
  (`MaxLoads`) with one release (`MaxReleases`), so that a load spans a release and a second caller waits for a load; three
  writes, parses or builds (`MaxWrites`) of one source and one restart (`MaxRestarts`), so that two saves and a build
  overlap; the web app dies twice (`MaxDeaths`) around one row, so that it may also die while it settles what the first
  death left.

The runs do not check for deadlock: a finished set of jobs, a supervisor that is down, a web app that may die no more
are states in which the system rightly stops.

### Fairness

* Jobs: weak fairness of the supervisor's coroutines, watchers and escalation timers (an event loop runs what is ready;
  `SupExit` when its waits are over), of the web thread's answer (the HTTP client has a timeout), and of a process
  that is exiting. None for launches, readers, stops, crashes, restarts, or for a kind's own end.
* Component: weak fairness of the task (every await is bounded: the probe by its timeout, the spawn and the reaping by
  the operating system) and of time. None for requests, for the child's death or for a failing probe; a probe ends one
  way or the other.
* Mining: weak fairness of the restart of the web app (the supervisor does it), of its request threads, of the watcher,
  of each worker's loop and of each file's thread (a helper call ends in an answer or a timeout). None for submits,
  cancels, stops, crashes.
* Services: weak fairness of a request thread of the inference worker (the model answers or fails), of timer threads, of
  the parse threads (a parser ends with a text or an error), of the restart of the web app, of a settle that has begun and
  of the watcher's poll. None for requests, uses, releases, builds, kills, or for the aging of an entry. `MCServices` states
  fairness for the variables of each part; a part that is not the behaviour's own is never enabled to make progress, for
  nothing is under way in its first state.

## Proofs

TLC checks the instances above; TLAPS proves the safety properties for every value of the constants. Assumptions are
those declared in the modules, plus `~Overlap` and `Enough` where they are named. Theorems are about the specification of
one part (`CacheSpec`, `MineSpec`, ...); `RecordTypes`, `RecordsKeep`, `RecordsGiveUpLast`, `ServiceTypes` and `ServicesKeep`
carry them over to the unions that TLC runs.

* `TypeCorrect`: `Jobs!TypeOK` is not inductive, because that a pid file belongs to a spec depends on how far the launch
  is when the process appears. `Stages` ties the positions of the web thread, the coroutine, the table and the process
  together; `Inv == TypeOK /\ Stages`.
* `LeaseHeldByOne`: under `~Overlap`, `Lease` says that a launch in its window (past the check, no pid file) excludes
  every other window and every holder. The reason it is kept is that a listing never misses a live process whose pid file
  is settled (`SeenRunning`), whatever else it gets wrong.
* `JobsImplementLifecycle`: each step changes what the files show in one of a few ways (`Visible`), and each of them is a
  move of `JobLifecycle` or a stutter (`VisibleMoves`). What a step does to a record rests on `PublishFacts` (a replacement
  leaves a record of that job and touches no other's) and on that nobody becomes a pending writer once there is a record.
* `ShutdownWaits`: `Recorded` (a watcher that is through left a record) is kept because a record is never removed, which
  is `StepVisible` again.
* `ComponentTypes`, `OneChild`: `Life` says what the child can be at each await. `CrashLoopEnds`: `Counted` relates the
  forks since the last reset to the crash counter at each await, with the child of now as the one that is still to be
  counted.
* `MiningTypes`, `RowsOfWorkers`, `StopsAreInterrupts`, `EndedForGood`: `Fresh` (a row never taken has no worker and no
  thread), `Held` (a worker with threads is in its loop or waits for them) and `Told` (a cancel event has a reason) make
  the three properties inductive together: a reconcile or cancel only touches rows whose worker is dead, and dead
  workers have no threads.

* `GenerationKeepsModel` (with the exception of `safe`), `StatusIsTrue`: `EngineInv` adds to them who is under the lock (`OneInside`: one call, and
  the engine is busy exactly while that call generates), that a load in pieces leaves no path (`LoadInPieces`), and that a
  generation counted as safe has no timer thread left to come (`SafeFromTimer`). `InferenceAssumption`: "none" is no model.
* `CacheIsHeld`: `CacheInv` is `ReleaseIsFinal` with `KeyLocked`, that one request loads a key and the key has no entry
  meanwhile; the action property is then one case per action on the table (`EntryStep`). Loads and releases are numbered, so
  their bounds are constants of the theorem (`CacheAssumption`).
* `FinalRows`: `DoneByJob`, that a row is done only by a job that is ending, so that neither the start nor the begin of a job
  finds it done. `IndexIsCurrent`: `OneSaving` says that, unless it is tangled, the saving on its way is alone
  with the passages and a row that is ready names what lies there; hence what a build reads with no saving on its way is what
  the row names (`QuietRead`). `ReadingKept` carries that, unless a row is written meanwhile, to the hash that goes with it,
  and `ClaimsKept` to the claim and the index (`IndexAssumption`: edits are none of the values that stand for parsed,
  missing or mixed texts).
* `ServiceTypes`, `ServicesKeep`; `RecordTypes`, `RecordsKeep`, `RecordsGiveUpLast`: the invariants of the parts together are
  kept, for a step of the union is a step of one part and leaves the others (`StepsOfServices`, `StepsOfParts`). A text has
  to be packed only where the behaviour is about one: `NoTextIsPacked` says that the invariant of `Chunking` holds without.
* `RowsAreHonest`: `MadeSoFar` says what is on disk in each phase of a trainer that is alive, `RowFollows` that a row is final
  only once the trainer has reached its exit and that exports come after it. `RunsAreTyped` adds the flags.
* `EachSwapCostsOne`: `Costs` counts the answer that is being asked for already (`AskedOf`), for that is when the model can
  no longer be looked at. `CardIsExclusive`: `OneClaim`, which speaks of judges between their check, their post
  and their appearance as well as of those alive (`Claims`), and leaves out the late ones only (`Tracked`): what a starter
  waits for keeps others out, in the web app because it waits on the event loop. `TestsAreTyped` follows from both.
* `NoQuestionTwice`: `Unseen` says that every question of the file has been seen and that a unit which writes holds only
  questions nobody has, which rests on one writer at a time (`LockHeld`). `DoneMeansStated`: `LastCheck` says that a job
  writes nothing after its last check, and that what is open then and later is its result or was reviewed since. `MineTypes` is the typing of both.
* `LiveFilesOnDisk`: `Library` adds that every version of a row is its own id's and numbered within the row (`Tidy`), so that
  no operation on one file can touch a path of another, however names are stored. `UploadsSpareBytes` (a path that is taken
  is written only by a refused upload, and then with the bytes its id stands for) and `LibraryTypes` follow from it.
* `LibraryIsShelf`: which operation is which move of `Shelf` is plain; that it shows the right bytes is not, for paths are
  used again, a trash copy is found by its name only, and purges leave copies behind (the finding `NoOrphans`). `Bytes` says
  that what lies at a path of a row, or waits as a trash copy that its restore would take, was uploaded for that row; that a
  row which is not there has no such copies; and that a row whose id is a hash began with those bytes. So copies that outlive
  their row never show through again. `LibraryAssumption`: a file has at least one version,
  and no uuid4 is the hash of a content. `ShelfIsReadable` says what `LiveOnDisk` says from `Shelf` alone.
* `CacheIsTheFile`: `Held` says that everything a request carries, and the cache, is either old by its stamp or what the file
  holds; it is kept as long as no two full writes share a stamp. `PairsAreTyped`: a request that has begun an update has two
  writes ahead or one (`WritesLeft`, with the cardinalities of both), hence the bound of the clock; and until the miner has
  written, no request knows a record (`NotYet`). `ListingsAreCurrent` is `Held` again, for the copy of the cache that a
  listing has taken: a request is moved by its own steps only (`MovesItself`). A cache that is stale (`CacheIsFile`) would
  be found by the next listing, so the run names `ListsWhatIs` only.
* `LoadKeepsToLimits`, `LoadIsTyped`: `Searching` says that the lower end of the search fits and that both lie between floor
  and native context.
  `AttemptsSuffice`: the last attempt is on the CPU, for every number of attempts. `GivingUpIsLast` needs that halving
  reaches the floor in time: `Enough(Twofold)` names the powers of two and says that the largest native context is at most
  the last of them times `MinAutoCtx`. In the code (8 attempts) that is 64 times `MIN_AUTO_CTX`, 2M positions; a model with
  a larger native context is outside the theorem.
* `NothingIsLost`, `ChunksAreTyped`: for every text, every size and every smaller overlap (`ChunkingAssumption`). `WordsKept`
  holds from the start: `WindowsAreCut` (the windows of a line begin at its first word, leave no gap, end at its last) and
  `UnitsAreBuilt` (the units of the lines so far are in order and whole). `PackIInv` is kept by packing: the chunks tell the
  units up to `next` (`UnitsKept`), the closed ones keep to the budget (`ChunksFit`), and the open one does or is a single
  unit (`CurFits`). Induction along lines, words and chunks is over sets of numbers
  (`InductionTo`, from `NatLessThanWellFounded` and `WFMin`), and `RecursionExists` gives the function that a recursive
  definition names.

Only model-checked: all liveness properties (`StopEnds`, `DrainEnds`, `StopStops`, `RestartServed`, `StartingEnds`,
`ShutdownEnds`, `QueuedServed`, `RunningEnds`, `ParsesEnd`, `UnusedUnloads`, `IdleExpires`, `SeenSettles`), since the proof
system reasons neither about fairness nor about ENABLED. Every invariant, action property and refinement of the passing runs
has a theorem. The induction theorems of the library that take an operator, and RECURSIVE operators,
are out of the provers' reach; the modules with theorems use neither.

## Not modelled

`PROJECT.json` lists every component with its status and the reason. In short: numeric work (training steps, embeddings,
scores, VRAM estimates); transformations of text and files (parsers, OCR, dataset preparation); calls to external
services; authentication; templates and the guide's chat loop; rendering, routes that only read, and the command line. Of
the modelled components, what is left out is said in their notes there and in the sections above. `MiningJob`
takes a pair file for atomic; what its readers and writers do to each other is in `QaFiles`.
