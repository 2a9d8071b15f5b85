----------------------------- MODULE BrainIndex -----------------------------
(***************************************************************************)
(* One source of a project and the Smart Brain index that is built from it *)
(* (knowledge/sources.py, knowledge/index.py, smart_brain/store.py): parse *)
(* threads and the editor write the parsed text, its passages and the row, *)
(* one after the other and without a lock; the build job, another process, *)
(* reads the passages, then the row's hash, and writes its manifest last.  *)
(* A text is named by its hash: the parser's, or one of the editor's.      *)
(***************************************************************************)
EXTENDS Naturals, FiniteSets

CONSTANTS Edits,      \* texts the editor or the Vision reader writes
          MaxWrites,  \* bound: texts written, parses asked for and builds
          MaxRestarts \* bound: how often the web app dies

ASSUME IndexAssumption ==
  /\ IsFiniteSet(Edits)
  /\ Edits \cap {"parsed", "none", "part", "mixed", "blank", "without", "absent"} = {}
  /\ MaxWrites \in Nat /\ MaxRestarts \in Nat

Texts == {"parsed"} \cup Edits

Writers == {"parser", "editor", "build"}

Still == [at |-> "idle", text |-> "none"]

VARIABLES
  text,     \* what parsed.txt holds
  chunks,   \* the texts whose passages lie in chunks/
  status,   \* of the file_conversions row
  sha,      \* its converted_hash
  saving,   \* the thread that parses, the one that saves, the build job
  toParse,  \* a parse asked for: plain (idempotent) or forced
  builder,  \* the build job: what it does, what it read, what it will claim
  indexed,  \* the passages in chunks.parquet and vectors.npy
  claims,   \* manifest.extra.built_from of the source
  tangled,  \* a saving crossed another or died, since one did not; the build
  crossed,  \*   read during one, or a row was written between its reads; the
  unsure,   \*   index is of such a build, or of half one (not in the code)
  server,   \* the web app: up or down
  writes, restarts

indexVars == <<text, chunks, status, sha, saving, toParse, builder, indexed,
               claims, tangled, crossed, unsure, server, writes, restarts>>

source == <<text, chunks, status, sha, tangled>>

index == <<builder, indexed, claims, crossed, unsure>>

bounds == <<server, writes, restarts>>

NoBuild == [at |-> "idle", doc |-> "none", hash |-> "none"]

IndexInit ==
  /\ text = "none" /\ chunks = {} /\ status = "unstaged" /\ sha = "none"
  /\ saving = [w \in Writers |-> Still]
  /\ toParse = "no"
  /\ builder = NoBuild /\ indexed = "none" /\ claims = "absent"
  /\ tangled = FALSE /\ crossed = FALSE /\ unsure = FALSE
  /\ server = "up" /\ writes = 0 /\ restarts = 0

(* Source.ready; a row that fails loses its passage count. *)
Ready == status = "ready"

Unfinished == status \in {"queued", "parsing"}

Bounded == writes < MaxWrites /\ writes' = writes + 1

(* Who has cleared the passages and not yet written the row. *)
Midway == {w \in Writers : saving[w].at \in {"chunks", "row"}}

Turns(w, at, t) == saving' = [saving EXCEPT ![w] = [at |-> at, text |-> t]]

-----------------------------------------------------------------------------
(* stage of an upload, with its background parse; of a failed one too.     *)
Stage ==
  /\ server = "up" /\ Bounded
  /\ status \in {"unstaged", "queued", "error"}
  /\ status' = "queued" /\ toParse' = IF toParse = "no" THEN "plain" ELSE toParse
  /\ UNCHANGED <<text, chunks, sha, tangled, saving, index, server, restarts>>

(* The reparse route. *)
Reparse ==
  /\ server = "up" /\ Bounded
  /\ status # "unstaged" /\ toParse' = "forced"
  /\ UNCHANGED <<source, saving, index, server, restarts>>

(* parse, up to the parser's answer: nothing to do, a file that is gone,   *)
(* or the row is parsing.                                                  *)
ParseBegins ==
  /\ toParse # "no" /\ saving["parser"].at = "idle"
  /\ toParse' = "no"
  /\ IF toParse = "plain" /\ Ready /\ text # "none"
     THEN UNCHANGED <<status, saving>>
     ELSE \/ status' = "error" /\ UNCHANGED saving
          \/ status' = "parsing" /\ Turns("parser", "reads", "none")
  /\ UNCHANGED <<text, chunks, sha, tangled, index, bounds>>

(* parse_pending of a quick build: staged files that are not ready.        *)
BuildParses ==
  /\ builder.at = "begun" /\ saving["build"].at = "idle"
  /\ status # "unstaged" /\ ~Ready
  /\ status' = "parsing" /\ Turns("build", "reads", "none")
  /\ UNCHANGED <<text, chunks, sha, tangled, toParse, index, bounds>>

(* No text, or a crash of the parser: _fail. *)
ParseEnds(w) ==
  /\ saving[w].at = "reads"
  /\ \/ Turns(w, "text", "parsed") /\ UNCHANGED status
     \/ Turns(w, "idle", "none") /\ status' = "error"
  /\ UNCHANGED <<text, chunks, sha, tangled, toParse, index, bounds>>

(* set_text, of the editor or of figures read long after they were asked.  *)
EditBegins(t) ==
  /\ server = "up" /\ Bounded
  /\ status # "unstaged" /\ saving["editor"].at = "idle"
  /\ Turns("editor", "text", t)
  /\ UNCHANGED <<source, toParse, index, server, restarts>>

(* _write_text: the file (a text without passages: _fail), its passages,   *)
(* its row.                                                                *)
WritesText(w) ==
  /\ saving[w].at = "text"
  /\ text' = saving[w].text
  /\ \/ Turns(w, "clear", saving[w].text) /\ UNCHANGED status
     \/ Turns(w, "idle", "none") /\ status' = "error"
  /\ UNCHANGED <<chunks, sha, tangled, toParse, index, bounds>>

ClearsPassages(w) ==
  /\ saving[w].at = "clear"
  /\ chunks' = {} /\ tangled' = (Midway # {})
  /\ Turns(w, "chunks", saving[w].text)
  /\ UNCHANGED <<text, status, sha, toParse, index, bounds>>

(* Passages of another saving are written over, as far as these go. *)
WritesPassages(w) ==
  /\ saving[w].at = "chunks"
  /\ chunks' \in {{saving[w].text}, chunks \cup {saving[w].text}}
  /\ Turns(w, "row", saving[w].text)
  /\ UNCHANGED <<text, status, sha, tangled, toParse, index, bounds>>

WritesRow(w) ==
  /\ saving[w].at = "row"
  /\ status' = "ready" /\ sha' = saving[w].text
  /\ crossed' = (crossed \/ builder.at = "read")
  /\ Turns(w, "idle", "none")
  /\ UNCHANGED <<text, chunks, tangled, toParse, builder, indexed, claims, unsure, bounds>>

WriterSteps(w) ==
  ParseEnds(w) \/ WritesText(w) \/ ClearsPassages(w) \/ WritesPassages(w)
  \/ WritesRow(w)

-----------------------------------------------------------------------------
BuildBegins ==
  /\ builder.at = "idle" /\ Bounded
  /\ builder' = [NoBuild EXCEPT !.at = "begun"]
  /\ UNCHANGED <<source, saving, toParse, indexed, claims, crossed, unsure, server, restarts>>

(* What a reader finds in chunks/: while they are written, all or some.    *)
Passages ==
  IF chunks = {} THEN {"none", "part"}
  ELSE IF Cardinality(chunks) = 1 THEN chunks ELSE {"mixed"}

(* documents. *)
BuildReads ==
  /\ builder.at = "begun" /\ saving["build"].at = "idle"
  /\ \E d \in IF Ready THEN Passages ELSE {"none"} :
       builder' = [builder EXCEPT !.at = "read", !.doc = d]
  /\ crossed' = (tangled \/ Midway # {})
  /\ UNCHANGED <<source, saving, toParse, indexed, claims, unsure, bounds>>

(* A rebuild empties the index first. *)
BuildResets ==
  /\ builder.at = "read"
  /\ indexed' = "none" /\ claims' = "absent"
  /\ UNCHANGED <<source, saving, toParse, builder, crossed, unsure, bounds>>

(* The hashes of the sources that are ready by now.                        *)
BuildHashes ==
  /\ builder.at = "read"
  /\ builder' = [builder EXCEPT !.at = "hashed", !.hash =
       IF builder.doc = "none" THEN "without" ELSE IF Ready THEN sha ELSE "blank"]
  /\ UNCHANGED <<source, saving, toParse, indexed, claims, crossed, unsure, bounds>>

(* The passages are embedded and written; the manifest is the old one.     *)
BuildWrites ==
  /\ builder.at = "hashed"
  /\ builder' = [builder EXCEPT !.at = "written"]
  /\ indexed' = builder.doc /\ unsure' = TRUE
  /\ UNCHANGED <<source, saving, toParse, claims, crossed, bounds>>

(* Slip: the hashes are read when the manifest is written.                 *)
BuildClaimsNow ==
  /\ builder.at = "written"
  /\ claims' = IF builder.doc = "none" THEN "without" ELSE sha
  /\ unsure' = crossed
  /\ builder' = NoBuild
  /\ UNCHANGED <<source, saving, toParse, indexed, crossed, bounds>>

(* The manifest.                                                           *)
BuildClaims ==
  /\ builder.at = "written"
  /\ claims' = builder.hash
  /\ unsure' = crossed
  /\ builder' = NoBuild
  /\ UNCHANGED <<source, saving, toParse, indexed, crossed, bounds>>

(* The build fails or its process is killed, its parse with it. *)
BuildDies ==
  /\ builder.at # "idle"
  /\ builder' = NoBuild
  /\ Turns("build", "idle", "none") /\ tangled' = (tangled \/ "build" \in Midway)
  /\ UNCHANGED <<text, chunks, status, sha, toParse, indexed, claims, crossed, unsure, bounds>>

-----------------------------------------------------------------------------
(* The threads die where they are; the build job goes on. *)
ServerDies ==
  /\ server = "up" /\ restarts < MaxRestarts
  /\ server' = "down" /\ restarts' = restarts + 1
  /\ toParse' = "no"
  /\ saving' = [saving EXCEPT !["parser"] = Still, !["editor"] = Still]
  /\ tangled' = (tangled \/ Midway \cap {"parser", "editor"} # {})
  /\ UNCHANGED <<text, chunks, status, sha, index, writes>>

(* Slip: only parses that had not begun are resumed.                       *)
ServerBootsQueued ==
  /\ server = "down" /\ server' = "up"
  /\ toParse' = IF status = "queued" THEN "forced" ELSE "no"
  /\ UNCHANGED <<source, saving, index, writes, restarts>>

(* resume_unfinished. *)
ServerBoots ==
  /\ server = "down" /\ server' = "up"
  /\ toParse' = IF Unfinished THEN "forced" ELSE "no"
  /\ UNCHANGED <<source, saving, index, writes, restarts>>

ParserMoves == ParseBegins \/ WriterSteps("parser")

IndexNext ==
  \/ Stage \/ Reparse \/ ParseBegins \/ BuildParses
  \/ \E t \in Edits : EditBegins(t)
  \/ \E w \in Writers : WriterSteps(w)
  \/ BuildBegins \/ BuildReads \/ BuildResets \/ BuildHashes \/ BuildWrites
  \/ BuildClaims \/ BuildDies \/ ServerDies \/ ServerBoots

IndexSpec ==
  /\ IndexInit /\ [][IndexNext]_indexVars
  /\ WF_indexVars(ParserMoves) /\ WF_indexVars(ServerBoots)

-----------------------------------------------------------------------------
(* Every variable has its type.                                            *)
IndexTypeOK ==
  /\ text \in Texts \cup {"none"} /\ chunks \subseteq Texts
  /\ status \in {"unstaged", "queued", "parsing", "ready", "error"}
  /\ sha \in Texts \cup {"none"}
  /\ saving \in [Writers -> [at : {"idle", "reads", "text", "clear", "chunks", "row"},
                             text : Texts \cup {"none"}]]
  /\ toParse \in {"no", "plain", "forced"}
  /\ builder \in [at : {"idle", "begun", "read", "hashed", "written"},
                  doc : Texts \cup {"none", "part", "mixed"},
                  hash : Texts \cup {"none", "blank", "without"}]
  /\ indexed \in Texts \cup {"none", "part", "mixed"}
  /\ claims \in Texts \cup {"absent", "without", "blank", "none"}
  /\ {tangled, crossed, unsure} \subseteq BOOLEAN /\ server \in {"up", "down"}
  /\ writes \in 0..MaxWrites /\ restarts \in 0..MaxRestarts

(* state(): neither stale nor missing. *)
CalledIndexed == Ready /\ claims = sha

(* However long a build embeds, whatever is saved, parsed, killed and built*)
(* meanwhile and later: the page calls a source indexed only if the index  *)
(* holds the passages of the text it has now.  Not so if the build read the*)
(* passages while they were written or the hash after a later save, if they*)
(* were of two savings or of half one, or if it died before its manifest.  *)
IndexedIsCurrent == CalledIndexed /\ ~unsure => indexed = sha

(* A source that waits for its parse, or that a dying web app left in the *)
(* middle of it, is parsed or fails, however often the app restarts.       *)
ParsesEnd ==
  (Unfinished /\ (server = "down" \/ toParse # "no")) ~> ~Unfinished

(* "records the text hash of every source it read, so state can say which  *)
(* files changed" (index.py:7): the same, of every build that has ended.   *)
FreshIsFresh ==
  CalledIndexed /\ builder.at = "idle" => indexed = sha

(* "sha256 of parsed.txt" (sources.py:47), once nobody writes.             *)
ShaIsText ==
  Ready /\ (\A w \in Writers : saving[w] = Still) => sha = text /\ chunks = {text}
=============================================================================
