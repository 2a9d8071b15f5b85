----------------------------- MODULE FileLibrary -----------------------------
(***************************************************************************)
(* The files of one project (data/fs/file_library.py): their rows and      *)
(* versions in the database, their bytes on disk, the trash, and what was  *)
(* derived from their contents.  Every route calls one function on the     *)
(* event loop, so an operation is one step; but the disk does not roll     *)
(* back with the database.  Bytes are named by their content, an uploaded  *)
(* file by the hash of its first content.                                  *)
(***************************************************************************)
EXTENDS Naturals, Sequences, Functions

CONSTANTS Names, Contents,
          Stored,       \* the name that is stored for a name
          Spare,        \* ids of uuid4, for a hash whose id is taken
          MaxVersions,  \* bound: versions of one file
          MaxOps        \* bound: operations in a run

(* A uuid4 is no one's hash.  raw_path_for cleans and cuts the stem and    *)
(* lowers the extension: two names may be stored as one.                   *)
ASSUME LibraryAssumption ==
  /\ MaxVersions \in Nat \ {0} /\ MaxOps \in Nat /\ Spare \cap Contents = {}
  /\ Stored \in [Names -> Names]

Ids == Contents \cup Spare

(* What files holds of an id that has no row. *)
NoFile == [name |-> "", deleted |-> FALSE, versions |-> <<>>]

VARIABLES
  files,   \* project_files and file_versions: id -> row
  disk,    \* path -> content, for the paths that exist
  known,   \* contents with passages, pairs or mining records
  torn,    \* rows whose bytes a refused rename has moved (not in the code)
  ops      \* operations so far (not in the code)

libVars == <<files, disk, known, torn, ops>>

(* {id}_{name}, or v{ver}_{id}_{name}, of a stored name; in the trash or   *)
(* in the raw folder (all names are of one kind).                          *)
Paths == [id : Ids, name : Names, ver : 0..MaxVersions, trash : BOOLEAN]

Versions == [path : Paths, content : Contents]

RawPath(id, n) == [id |-> id, name |-> Stored[n], ver |-> 0, trash |-> FALSE]

InTrash(p) == [p EXCEPT !.trash = TRUE]

OutOfTrash(p) == [p EXCEPT !.trash = FALSE]

OnDisk(p) == p \in DOMAIN disk

Live(id) == files[id] # NoFile /\ ~files[id].deleted

Gone(id) == files[id] # NoFile /\ files[id].deleted

(* The version row of current_version. *)
Current(id) == files[id].versions[Len(files[id].versions)]

(* The versions of a row whose current one lies at another path. *)
Repointed(id, p) == [files[id].versions EXCEPT ![Len(files[id].versions)].path = p]

PathsOf(id) == {v.path : v \in Range(files[id].versions)}

ContentsOf(id) == {v.content : v \in Range(files[id].versions)}

(* Writing or moving a file replaces what is at its new path. *)
Written(p, c) == [q \in DOMAIN disk \cup {p} |-> IF q = p THEN c ELSE disk[q]]

Moved(p, q, d) ==
  [x \in (DOMAIN d \ {p}) \cup {q} |-> IF x = q THEN d[p] ELSE d[x]]

LibInit ==
  /\ files = [id \in Ids |-> NoFile]
  /\ disk = <<>>
  /\ known = {}
  /\ torn = {}
  /\ ops = 0

-----------------------------------------------------------------------------
(* find_existing_hash: a live file whose current bytes are these. *)
Duplicate(c) == \E id \in Ids : Live(id) /\ Current(id).content = c

(* record_uploaded_file under a free id; the bytes were put under that of  *)
(* their hash first, and moved if it is another.                           *)
Record(id, n, c) ==
  /\ files' = [files EXCEPT ![id] =
       [name |-> n, deleted |-> FALSE,
        versions |-> <<[path |-> RawPath(id, n), content |-> c]>>]]
  /\ disk' = Moved(RawPath(c, n), RawPath(id, n), Written(RawPath(c, n), c))
  /\ known' = known \cup {c}
  /\ UNCHANGED torn

(* Slip: the bytes always go to {id}_{name}.                               *)
ReviveInPlace(id, n, c) ==
  /\ Len(files[id].versions) < MaxVersions
  /\ files' = [files EXCEPT
       ![id].deleted = FALSE,
       ![id].versions = Append(@, [path |-> RawPath(id, n), content |-> c])]
  /\ disk' = Written(RawPath(id, n), c)
  /\ known' = known \cup {c}
  /\ UNCHANGED torn

(* A name that has a row, live or in the trash, gets a new version of it.  *)
Revive(id, n, c) ==
  LET next == Len(files[id].versions) + 1
      plain == RawPath(id, n)
      path == IF OnDisk(plain) THEN [plain EXCEPT !.ver = next] ELSE plain
  IN /\ next <= MaxVersions
     /\ files' = [files EXCEPT
          ![id].deleted = FALSE,
          ![id].versions = Append(@, [path |-> path, content |-> c])]
     /\ disk' = Written(path, c)
     /\ known' = known \cup {c}
     /\ UNCHANGED torn

(* upload_files and write_staged_upload, with the parse that follows.  The *)
(* id of a hash may be taken: by a trashed file (the upload gets a uuid),  *)
(* or by a live one whose first bytes these were (the insert is refused,   *)
(* its bytes stay).                                                        *)
Upload(n, c) ==
  /\ ~Duplicate(c)
  /\ \/ \E id \in Ids : files[id] # NoFile /\ files[id].name = n /\ Revive(id, n, c)
     \/ /\ \A id \in Ids : files[id] # NoFile => files[id].name # n
        /\ \/ files[c] = NoFile /\ Record(c, n, c)
           \/ /\ Gone(c)
              /\ \E s \in Spare : /\ files[s] = NoFile
                                  /\ \A p \in DOMAIN disk : p.id # s
                                  /\ Record(s, n, c)
           \/ /\ Live(c)
              /\ disk' = Written(RawPath(c, n), c)
              /\ UNCHANGED <<files, known, torn>>

(* Every version's file that is there goes to the trash under its name.    *)
SoftDelete(id) ==
  /\ Live(id)
  /\ LET there == {p \in PathsOf(id) : OnDisk(p)}
         dest == {InTrash(p) : p \in there}
     IN disk' = [q \in (DOMAIN disk \ there) \cup dest |->
                   IF q \in dest THEN disk[OutOfTrash(q)] ELSE disk[q]]
  /\ files' = [files EXCEPT ![id].deleted = TRUE]
  /\ UNCHANGED <<known, torn>>

(* The first file of the trash that {id}_* matches comes back, and becomes *)
(* the file of the current version; 409 if there is none.                  *)
RestoreFile(id) ==
  /\ Gone(id)
  /\ LET path == Current(id).path IN
       IF OnDisk(path)
       THEN /\ files' = [files EXCEPT ![id].deleted = FALSE]
            /\ UNCHANGED disk
       ELSE \E p \in DOMAIN disk :
              /\ p.trash /\ p.id = id /\ p.ver = 0
              /\ disk' = Moved(p, OutOfTrash(p), disk)
              /\ files' = [files EXCEPT ![id].deleted = FALSE,
                             ![id].versions = Repointed(id, OutOfTrash(p))]
  /\ UNCHANGED <<known, torn>>

(* The files of the trash that {id}_* matches. *)
TrashOf(id) == {p \in DOMAIN disk : p.trash /\ p.id = id /\ p.ver = 0}

(* The rows go, and what was derived from any of their contents.           *)
Forget(ids) ==
  /\ files' = [id \in Ids |-> IF id \in ids THEN NoFile ELSE files[id]]
  /\ known' = known \ UNION {ContentsOf(id) : id \in ids}
  /\ torn' = torn \ ids

(* purge_file: the recorded paths too, wherever they are. *)
PurgeFile(id) ==
  /\ Gone(id)
  /\ disk' = Restrict(disk, DOMAIN disk \ (PathsOf(id) \cup TrashOf(id)))
  /\ Forget({id})

(* Slip: the rows go before the files of their trash are looked for.       *)
PurgeTrashRows(ids) ==
  /\ ids # {} /\ \A id \in ids : Gone(id)
  /\ UNCHANGED disk
  /\ Forget(ids)

(* purge_trash of everything deleted before some day. *)
PurgeTrash(ids) ==
  /\ ids # {} /\ \A id \in ids : Gone(id)
  /\ disk' = Restrict(disk, DOMAIN disk \ UNION {TrashOf(id) : id \in ids})
  /\ Forget(ids)

(* rename_file: another live file of that name is refused; a trashed one is*)
(* met by the UNIQUE constraint, after the bytes were moved.               *)
RenameFile(id, n) ==
  LET old == Current(id).path
      new == RawPath(id, n)
      clash == \E x \in Ids \ {id} : Gone(x) /\ files[x].name = n
  IN /\ Live(id) /\ files[id].name # n
     /\ \A x \in Ids \ {id} : Live(x) => files[x].name # n
     /\ OnDisk(old) /\ new # old => ~OnDisk(new)
     /\ disk' = IF OnDisk(old) THEN Moved(old, new, disk) ELSE disk
     /\ IF clash
        THEN /\ UNCHANGED files
             /\ torn' = IF OnDisk(old) /\ new # old THEN torn \cup {id} ELSE torn
        ELSE /\ files' = [files EXCEPT ![id].name = n,
                 ![id].versions = Repointed(id, IF OnDisk(old) THEN new ELSE old)]
             /\ UNCHANGED torn
     /\ UNCHANGED known

LibNext ==
  /\ ops < MaxOps /\ ops' = ops + 1
  /\ \/ \E n \in Names, c \in Contents : Upload(n, c)
     \/ \E id \in Ids : SoftDelete(id) \/ RestoreFile(id) \/ PurgeFile(id)
     \/ \E ids \in SUBSET Ids : PurgeTrash(ids)
     \/ \E id \in Ids, n \in Names : RenameFile(id, n)

LibSpec == LibInit /\ [][LibNext]_libVars

-----------------------------------------------------------------------------
(* Every variable has its type.                                            *)
LibTypeOK ==
  /\ files \in [Ids -> {NoFile} \cup
                [name : Names, deleted : BOOLEAN, versions : Seq(Versions)]]
  /\ \A id \in Ids : files[id] # NoFile => Len(files[id].versions) \in 1..MaxVersions
  /\ DOMAIN disk \subseteq Paths /\ Range(disk) \subseteq Contents
  /\ known \subseteq Contents /\ torn \subseteq Ids /\ ops \in 0..MaxOps

(* Versions that share a path, restores of an older copy, renames and      *)
(* purges of other files never leave a live file without the bytes its row *)
(* points at (but for a rename the database refused).                      *)
LiveOnDisk ==
  \A id \in Ids \ torn : Live(id) => OnDisk(Current(id).path)

(* An upload writes over no bytes of any version of a live file, whichever *)
(* path it takes and however the file's other versions came to theirs; but *)
(* one that is refused, because its bytes are those that a live file began *)
(* with, has put them back where they were, over what came since.          *)
UploadKeepsBytes ==
  [][\A n \in Names, c \in Contents : Upload(n, c) =>
       \A id \in Ids : Live(id) => \A p \in PathsOf(id) \cap DOMAIN disk :
         OnDisk(p)' /\ (disk'[p] = disk[p] \/ (UNCHANGED files /\ disk'[p] = id))]_libVars

(* "reported as 'duplicate' (not written)" (routes/file_library.py:152)    *)
(* for bytes the project has: an upload of a version's bytes writes over   *)
(* nothing that a live file shows.                                         *)
DuplicateNotWritten ==
  [][\A n \in Names, c \in Contents : Upload(n, c) =>
       \A id \in Ids : Live(id) /\ c \in ContentsOf(id) /\ files[id].name # n =>
         LET p == Current(id).path IN OnDisk(p) => disk'[p] = disk[p]]_libVars

(* What a reader of a file gets: the bytes at its current path, if any.    *)
ShownOf(id) ==
  IF Live(id) /\ OnDisk(Current(id).path) THEN {disk[Current(id).path]} ELSE {}

Shelf == INSTANCE Shelf WITH given <- [id \in Ids |-> ContentsOf(id)],
                             shown <- [id \in Ids |-> ShownOf(id)],
                             trashed <- {id \in Ids : Gone(id)},
                             lost <- torn

(* The paths of versions, copies and the trash never mix files up: the     *)
(* library does what Shelf promises.  What came back from the trash, or was*)
(* purged and uploaded again (file_library.py restore_file, purge_trash),  *)
(* shows bytes of its own and of this life; a file that is not deleted has *)
(* its bytes (LiveOnDisk is what Shelf makes of it); and whatever is done  *)
(* to one file leaves the others as they were.                             *)
OnShelf == Shelf!Spec

(* "Soft-delete [...] Reversible via restore" (file_library.py:511): a file*)
(* whose bytes were those of its current version when it was deleted has   *)
(* them again once it is restored.                                         *)
RestoreGivesBack ==
  [][\A id \in Ids : RestoreFile(id) =>
       disk'[Current(id)'.path] = Current(id)'.content]_libVars

(* "A trashed (soft-deleted) file keeps its knowledge until then", a live  *)
(* one all the more (sources.py:233): a purge forgets nothing of a file    *)
(* that stays.                                                             *)
PurgeKeepsOthers ==
  \A id \in Ids : Live(id) => Current(id).content \in known

(* "a project never holds the same bytes twice" (file_parses.py:45).       *)
NoTwins ==
  \A x, y \in Ids :
    Live(x) /\ Live(y) /\ Current(x).content = Current(y).content => x = y

(* "purge doesn't silently leave orphaned bytes on disk while deleting the *)
(* DB rows" (file_library.py:609).                                         *)
NoOrphans ==
  \A p \in DOMAIN disk : files[p.id] # NoFile
=============================================================================
