------------------------------- MODULE Shelf --------------------------------
(***************************************************************************)
(* What the file library promises about the files of a project, whatever   *)
(* becomes of paths, versions and the trash: what a reader is shown of a   *)
(* file was uploaded as that file, and since the file was last purged; an  *)
(* upload shows what was uploaded, a delete hides it and a restore brings  *)
(* back one of the file's own versions; every file that is not in the trash*)
(* can be read, unless a refused rename has moved its bytes; and what is   *)
(* done to one file changes nothing of another.                            *)
(*                                                                         *)
(* FileLibrary implements this specification (FileLibrary!OnShelf).        *)
(***************************************************************************)
CONSTANTS Ids, Contents

VARIABLES given,    \* what was uploaded as a file, since it is there
          shown,    \* what its reader gets: one content, or none
          trashed,  \* files that wait to be restored or purged
          lost      \* files whose bytes a refused rename has moved

vars == <<given, shown, trashed, lost>>

Init == /\ given = [id \in Ids |-> {}]
        /\ shown = [id \in Ids |-> {}]
        /\ trashed = {} /\ lost = {}

(* Nothing of any other file changes. *)
Only(id) ==
  /\ \A x \in Ids \ {id} :
       given'[x] = given[x] /\ shown'[x] = shown[x] /\ (x \in trashed' <=> x \in trashed)
  /\ trashed' \subseteq Ids

(* A new file, or a new version of one, which may be in the trash. *)
Put(id, c) ==
  /\ given'[id] = given[id] \cup {c} /\ shown'[id] = {c} /\ id \notin trashed'
  /\ Only(id) /\ UNCHANGED lost

(* An upload that is refused may write the bytes the file began with.      *)
PutAgain(id) ==
  /\ given'[id] = given[id] /\ id \notin trashed' /\ id \notin trashed
  /\ \E c \in given[id] : shown'[id] = {c}
  /\ Only(id) /\ UNCHANGED lost

Hide(id) ==
  /\ given[id] # {} /\ id \notin trashed
  /\ given'[id] = given[id] /\ shown'[id] = {} /\ id \in trashed'
  /\ Only(id) /\ UNCHANGED lost

Return(id) ==
  /\ id \in trashed
  /\ given'[id] = given[id] /\ id \notin trashed'
  /\ \E c \in given[id] : shown'[id] = {c}
  /\ Only(id) /\ UNCHANGED lost

(* A rename that is refused after it has moved the bytes.                  *)
Lose(id) ==
  /\ id \notin trashed
  /\ given'[id] = given[id] /\ shown'[id] = {} /\ id \notin trashed'
  /\ Only(id) /\ lost' = lost \cup {id}

(* Only what was deleted is purged, and nothing is kept of it. *)
Purge ==
  LET ids == trashed \ trashed'
  IN  /\ trashed' \subseteq trashed /\ lost' = lost \ ids
      /\ given' = [id \in Ids |-> IF id \in ids THEN {} ELSE given[id]]
      /\ UNCHANGED shown

Next == \/ Purge
        \/ \E id \in Ids, c \in Contents : Put(id, c)
        \/ \E id \in Ids : PutAgain(id) \/ Hide(id) \/ Return(id) \/ Lose(id)

Spec == Init /\ [][Next]_vars

(* Hence every file that is there can be read or restored.                 *)
Readable ==
  \A id \in Ids : given[id] # {} /\ id \notin trashed \cup lost => shown[id] # {}
=============================================================================
