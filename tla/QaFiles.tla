------------------------------ MODULE QaFiles --------------------------------
(***************************************************************************)
(* The file of one Q&A pair and the web app's listing cache                *)
(* (data/fs/qa.py).  The miner creates the file, from another process;     *)
(* the threads of requests list, update and delete it, and hold a lock     *)
(* only where they touch the cache.  A cached record counts while the stat *)
(* of the file, time and size, is that of the record.                      *)
(***************************************************************************)
EXTENDS Naturals

CONSTANTS Threads, NoEntry, MaxEdits

ASSUME QaAssumption == MaxEdits \in Nat

VARIABLES
  file,      \* the bytes on disk: what they are, their record, their stat
  clock,     \* the latest time stamp
  filled,    \* that of the last write
  coarse,    \* two writes got the same
  cache,     \* _PAIR_CACHE: record and stat
  thread,    \* what each request is at
  edits      \* bound of updates

qaVars == <<file, clock, filled, coarse, cache, thread, edits>>

Verdicts == {"pending", "approved", "rejected"}
Records == [verdict : Verdicts, edited : BOOLEAN]
Stats == [time : 0..2 * MaxEdits + 2, size : {"none", "full"}]
Entries == [record : Records, stat : Stats]
Fresh == [verdict |-> "pending", edited |-> FALSE]
Idle == [at |-> "idle"]

(* What a reviewer's update sets, a verdict or the text; the near-duplicate*)
(* pass sets "rejected", on a pair it saw pending.                         *)
Reviews == {"approved", "edited"}

QaInit ==
  /\ file = [is |-> "absent", record |-> Fresh, stat |-> [time |-> 0, size |-> "none"]]
  /\ clock = 0 /\ filled = 0 /\ coarse = FALSE /\ edits = 0
  /\ cache = NoEntry /\ thread = [t \in Threads |-> Idle]

(* A write truncates and fills; each gives the file a new stat.            *)
Touches(is, record, size) ==
  \E now \in {clock, clock + 1} \ {0} :
    /\ clock' = now
    /\ filled' = IF size = "full" THEN now ELSE filled
    /\ coarse' = (coarse \/ (size = "full" /\ now = filled))
    /\ file' = [is |-> is, record |-> record, stat |-> [time |-> now, size |-> size]]

Moves(t, state) == thread' = [thread EXCEPT ![t] = state]

-----------------------------------------------------------------------------
(* write_qa_pair, by the miner.                                            *)
MinerOpens ==
  /\ file.is = "absent" /\ filled = 0 /\ edits = 0
  /\ Touches("mining", Fresh, "none")
  /\ UNCHANGED <<cache, thread, edits>>

MinerWrites ==
  /\ file.is = "mining"
  /\ Touches("whole", Fresh, "full")
  /\ UNCHANGED <<cache, thread, edits>>

-----------------------------------------------------------------------------
(* list_qa_pairs, for a view, the near-duplicate pass or a reset.          *)
ListBegins(t) ==
  /\ thread[t].at = "idle"
  /\ \E why \in {"view", "dedupe", "reset"} :
       Moves(t, [at |-> "list", why |-> why, known |-> cache])
  /\ UNCHANGED <<file, clock, filled, coarse, cache, edits>>

Holds(known) == known # NoEntry /\ known.stat = file.stat

ListStats(t) ==
  /\ thread[t].at = "list" /\ file.is # "absent"
  /\ Moves(t, IF Holds(thread[t].known)
              THEN [at |-> "publish", why |-> thread[t].why, got |-> thread[t].known]
              ELSE [at |-> "read", why |-> thread[t].why, stat |-> file.stat])
  /\ UNCHANGED <<file, clock, filled, coarse, cache, edits>>

(* A file that is gone, empty or not JSON is skipped.                      *)
Skips(t) ==
  /\ \/ thread[t].at = "list" /\ file.is = "absent"
     \/ thread[t].at = "read" /\ file.is # "whole"
  /\ Moves(t, [at |-> "publish", why |-> thread[t].why, got |-> NoEntry])
  /\ UNCHANGED <<file, clock, filled, coarse, cache, edits>>

ListReads(t) ==
  /\ thread[t].at = "read" /\ file.is = "whole"
  /\ Moves(t, [at |-> "publish", why |-> thread[t].why,
               got |-> [record |-> file.record, stat |-> thread[t].stat]])
  /\ UNCHANGED <<file, clock, filled, coarse, cache, edits>>

(* Slip: the stat that is kept is that of the file by now.                 *)
ListPublishesLate(t) ==
  /\ thread[t].at = "publish"
  /\ cache' = IF thread[t].got = NoEntry THEN NoEntry
              ELSE [thread[t].got EXCEPT !.stat = file.stat]
  /\ LET got == thread[t].got
         pending == got # NoEntry /\ got.record.verdict = "pending"
     IN  Moves(t, CASE pending /\ thread[t].why = "reset" -> [at |-> "unlink"]
                    [] pending /\ thread[t].why = "dedupe" -> [at |-> "update", set |-> "rejected"]
                    [] OTHER -> Idle)
  /\ UNCHANGED <<file, clock, filled, coarse, edits>>

(* A listing puts in the cache all it found, whatever was forgotten since. *)
ListPublishes(t) ==
  /\ thread[t].at = "publish"
  /\ cache' = thread[t].got
  /\ LET got == thread[t].got
         pending == got # NoEntry /\ got.record.verdict = "pending"
     IN  Moves(t, CASE pending /\ thread[t].why = "reset" -> [at |-> "unlink"]
                    [] pending /\ thread[t].why = "dedupe" -> [at |-> "update", set |-> "rejected"]
                    [] OTHER -> Idle)
  /\ UNCHANGED <<file, clock, filled, coarse, edits>>

-----------------------------------------------------------------------------
(* update_qa_pair                                                          *)
Asks(t) ==
  /\ thread[t].at = "idle"
  /\ \E what \in Reviews : Moves(t, [at |-> "update", set |-> what])
  /\ UNCHANGED <<file, clock, filled, coarse, cache, edits>>

Changed(record, what) ==
  IF what = "edited" THEN [record EXCEPT !.edited = TRUE]
  ELSE [record EXCEPT !.verdict = what]

UpdateReads(t) ==
  /\ thread[t].at = "update" /\ edits < MaxEdits
  /\ edits' = edits + 1
  /\ Moves(t, IF file.is = "whole"
              THEN [at |-> "open", record |-> Changed(file.record, thread[t].set)]
              ELSE Idle)
  /\ UNCHANGED <<file, clock, filled, coarse, cache>>

UpdateOpens(t) ==
  /\ thread[t].at = "open"
  /\ Touches("torn", file.record, "none")
  /\ Moves(t, [thread[t] EXCEPT !.at = "write"])
  /\ UNCHANGED <<cache, edits>>

(* If another one wrote since this one truncated, the tail of a longer     *)
(* record stays behind its own.  A file that was deleted meanwhile has no  *)
(* name any more.                                                          *)
UpdateWrites(t) ==
  /\ thread[t].at = "write"
  /\ IF file.is = "absent" THEN UNCHANGED <<file, clock, filled, coarse>>
     ELSE \E is \in {"whole"} \cup (IF file.is = "torn" THEN {} ELSE {"garbled"}) :
            Touches(is, thread[t].record, "full")
  /\ Moves(t, [at |-> "forget"])
  /\ UNCHANGED <<cache, edits>>

(* delete_qa_pair; a second one raises or returns.                         *)
Unlinks(t) ==
  /\ thread[t].at = "unlink"
  /\ file' = [file EXCEPT !.is = "absent"]
  /\ Moves(t, IF file.is = "absent" THEN Idle ELSE [at |-> "forget"])
  /\ UNCHANGED <<clock, filled, coarse, cache, edits>>

(* _forget_cached_pair                                                     *)
Forgets(t) ==
  /\ thread[t].at = "forget"
  /\ cache' = NoEntry
  /\ Moves(t, Idle)
  /\ UNCHANGED <<file, clock, filled, coarse, edits>>

QaNext ==
  \/ MinerOpens \/ MinerWrites
  \/ \E t \in Threads :
       \/ ListBegins(t) \/ ListStats(t) \/ Skips(t) \/ ListReads(t) \/ ListPublishes(t)
       \/ Asks(t) \/ UpdateReads(t) \/ UpdateOpens(t) \/ UpdateWrites(t)
       \/ Unlinks(t) \/ Forgets(t)

QaSpec == QaInit /\ [][QaNext]_qaVars

-----------------------------------------------------------------------------
(* Every variable has its type.                                            *)
QaTypeOK ==
  /\ file.is \in {"absent", "mining", "torn", "whole", "garbled"}
  /\ file.record \in Records /\ file.stat \in Stats
  /\ cache = NoEntry \/ cache \in Entries
  /\ edits \in 0..MaxEdits /\ clock \in 0..2 * MaxEdits + 2 /\ filled <= clock
  /\ \A t \in Threads : thread[t].at \in {"idle", "list", "read", "publish", "update",
                                          "open", "write", "unlink", "forget"}

Stale == cache # NoEntry /\ file.is = "whole" /\ Holds(cache) /\ cache.record # file.record

(* A record is served from the cache only if it is what the file holds,    *)
(* whoever wrote the file and from whichever process (qa.py:18), as long   *)
(* as the file system tells two writes apart.                              *)
CacheIsFile == ~coarse => ~Stale

(* So a listing goes on, to show, reset or reject a pair, with the record  *)
(* that its file holds when it looks (qa.py:53), although it compares with *)
(* a copy of the cache that others have changed and forgotten meanwhile.   *)
ListsWhatIs ==
  [][\A t \in Threads :
       /\ thread[t].at # "publish" /\ thread'[t].at = "publish"
       /\ thread'[t].got # NoEntry /\ file.is = "whole" /\ ~coarse
       => file.record = thread'[t].got.record]_qaVars

(* "stat alone would serve the stale pair" (qa.py:34), so writers forget   *)
(* the entry: a listing does not serve an older record, however fast the   *)
(* writes.                                                                 *)
CacheForgets == ~Stale \/ \E t \in Threads : thread[t].at = "forget"

(* "Reviewed pairs stay" (scheduler.py:256): only a pair that is pending   *)
(* is ever deleted.                                                        *)
ReviewedStay ==
  [][file.is = "whole" /\ file'.is = "absent" => file.record.verdict = "pending"]_qaVars
=============================================================================
