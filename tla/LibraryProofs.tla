--------------------------- MODULE LibraryProofs ----------------------------
(***************************************************************************)
(* Proofs about the files of a project: of the library (FileLibrary), its  *)
(* types, that rows and disk agree about live files, that uploads spare    *)
(* them, and that it implements Shelf; of Q&A pairs (QaFiles), that the    *)
(* cache holds what is on disk, and their types.                           *)
(***************************************************************************)
EXTENDS FileLibrary, QaFiles, SequenceTheorems, FiniteSetTheorems, TLAPS

Row == [name : Names, deleted : BOOLEAN, versions : Seq(Versions)]

(* A version of this id's, numbered up to m and not in the trash.          *)
Own(id, v, m) ==
  v \in Versions /\ v.path.id = id /\ v.path.trash = FALSE /\ v.path.ver <= m

OwnAll(id, s) == \A k \in 1..Len(s) : Own(id, s[k], Len(s))

Tidy(id, row) ==
  row \in Row /\ Len(row.versions) \in 1..MaxVersions /\ OwnAll(id, row.versions)

EndsWith(row, v) == row.versions[Len(row.versions)] = v

Rows ==
  /\ files \in [Ids -> {NoFile} \cup Row]
  /\ \A id \in Ids : files[id] # NoFile => Tidy(id, files[id])

DiskTypes ==
  DOMAIN disk \subseteq Paths /\ \A p \in DOMAIN disk : disk[p] \in Contents

-----------------------------------------------------------------------------
(* Versions and rows.                                                      *)

LEMMA VerIsNat == \A v \in Versions : v.path \in Paths /\ v.path.ver \in Nat
  BY LibraryAssumption DEF Versions, Paths

LEMMA NewVersion ==
  ASSUME NEW id \in Ids, NEW p \in Paths, NEW c \in Contents, NEW m \in Nat,
         p.id = id, p.trash = FALSE, p.ver <= m
  PROVE  /\ [path |-> p, content |-> c] \in Versions
         /\ [path |-> p, content |-> c].path = p
         /\ Own(id, [path |-> p, content |-> c], m)
  BY DEF Own, Versions

LEMMA MovedVersion ==
  ASSUME NEW id \in Ids, NEW v \in Versions, NEW m \in Nat, Own(id, v, m),
         NEW p \in Paths, p.id = id, p.trash = FALSE, p.ver <= m
  PROVE  /\ [v EXCEPT !.path = p] \in Versions
         /\ [v EXCEPT !.path = p].path = p
         /\ Own(id, [v EXCEPT !.path = p], m)
  BY DEF Own, Versions

LEMMA VersionAdded ==
  ASSUME NEW id \in Ids, NEW s \in Seq(Versions), NEW v, OwnAll(id, s),
         Own(id, v, Len(s) + 1)
  PROVE  /\ Append(s, v) \in Seq(Versions)
         /\ Len(Append(s, v)) = Len(s) + 1 /\ Append(s, v)[Len(s) + 1] = v
         /\ OwnAll(id, Append(s, v))
<1>1. v \in Versions
  BY DEF Own
<1>2. /\ Append(s, v) \in Seq(Versions)
      /\ Len(Append(s, v)) = Len(s) + 1 /\ Append(s, v)[Len(s) + 1] = v
      /\ \A k \in 1..Len(s) : Append(s, v)[k] = s[k]
  BY <1>1, AppendProperties
<1>3. ASSUME NEW k \in 1..Len(s) PROVE Own(id, s[k], Len(s) + 1)
  <2>1. s[k] \in Versions
    OBVIOUS
  <2>2. s[k].path.ver \in Nat
    BY <2>1, VerIsNat
  <2> QED BY <2>1, <2>2 DEF Own, OwnAll
<1> QED BY <1>2, <1>3 DEF OwnAll

LEMMA LastReplaced ==
  ASSUME NEW id \in Ids, NEW s \in Seq(Versions), Len(s) # 0, OwnAll(id, s),
         NEW v \in Versions, Own(id, v, Len(s)), NEW t, t = [s EXCEPT ![Len(s)] = v]
  PROVE  t \in Seq(Versions) /\ Len(t) = Len(s) /\ t[Len(t)] = v /\ OwnAll(id, t)
  BY DEF OwnAll

(* The path of the current version is the row's own.                       *)
LEMMA CurrentIsOwn ==
  ASSUME Rows, NEW id \in Ids, files[id] # NoFile
  PROVE  /\ Current(id) \in Versions /\ Own(id, Current(id), Len(files[id].versions))
         /\ Current(id).path \in Paths /\ Current(id).path.id = id
         /\ Current(id).path.trash = FALSE
<1>1. files[id].versions \in Seq(Versions) /\ Len(files[id].versions) \in 1..MaxVersions
  BY DEF Rows, Tidy, Row
<1>2. Len(files[id].versions) \in 1..Len(files[id].versions)
  BY <1>1
<1>3. Own(id, Current(id), Len(files[id].versions))
  BY <1>2 DEF Rows, Tidy, OwnAll, Current
<1> QED BY <1>3, VerIsNat DEF Own

LEMMA PathsAreOwn ==
  ASSUME Rows, NEW id \in Ids, files[id] # NoFile, NEW p \in PathsOf(id)
  PROVE  p \in Paths /\ p.id = id /\ p.trash = FALSE
<1>1. files[id].versions \in Seq(Versions)
  BY DEF Rows, Tidy, Row
<1>2. PICK k \in 1..Len(files[id].versions) : p = files[id].versions[k].path
  BY <1>1 DEF PathsOf, Range
<1>3. Own(id, files[id].versions[k], Len(files[id].versions))
  BY DEF Rows, Tidy, OwnAll
<1> QED BY <1>2, <1>3, VerIsNat DEF Own

LEMMA PathsAreOld ==
  ASSUME Rows, NEW id \in Ids, files[id] # NoFile, NEW p \in PathsOf(id)
  PROVE  p.ver < Len(files[id].versions) + 1
<1>1. files[id].versions \in Seq(Versions)
  BY DEF Rows, Tidy, Row
<1>2. PICK k \in 1..Len(files[id].versions) : p = files[id].versions[k].path
  BY <1>1 DEF PathsOf, Range
<1>3. Own(id, files[id].versions[k], Len(files[id].versions))
  BY DEF Rows, Tidy, OwnAll
<1>4. p.ver \in Nat /\ p.ver <= Len(files[id].versions)
  BY <1>2, <1>3, VerIsNat DEF Own
<1> QED BY <1>1, <1>4

LEMMA ContentsAreTyped ==
  ASSUME Rows, NEW id \in Ids, files[id] # NoFile
  PROVE  Current(id).content \in Contents
  BY CurrentIsOwn DEF Versions

LEMMA RawPathIsOwn ==
  ASSUME NEW id \in Ids, NEW n \in Names
  PROVE  /\ RawPath(id, n) \in Paths /\ RawPath(id, n).id = id
         /\ RawPath(id, n).trash = FALSE /\ RawPath(id, n).ver = 0
  BY LibraryAssumption DEF RawPath, Paths

LEMMA VerPathIsOwn ==
  ASSUME NEW p \in Paths, NEW m \in 1..MaxVersions
  PROVE  LET v == [p EXCEPT !.ver = m] IN
           v \in Paths /\ v.id = p.id /\ v.trash = p.trash /\ v.ver = m
  BY LibraryAssumption DEF Paths

LEMMA InTrashIsTyped ==
  ASSUME NEW p \in Paths, p.trash = FALSE
  PROVE  /\ InTrash(p) \in Paths /\ InTrash(p).trash = TRUE
         /\ OutOfTrash(InTrash(p)) = p
  BY DEF InTrash, OutOfTrash, Paths

LEMMA OutOfTrashIsTyped ==
  ASSUME NEW p \in Paths
  PROVE  LET q == OutOfTrash(p) IN
           q \in Paths /\ q.id = p.id /\ q.ver = p.ver /\ q.trash = FALSE
  BY DEF OutOfTrash, Paths

LEMMA FirstRow ==
  ASSUME NEW id \in Ids, NEW n \in Names, NEW c \in Contents, NEW row,
         row = [name |-> n, deleted |-> FALSE,
                versions |-> <<[path |-> RawPath(id, n), content |-> c]>>]
  PROVE  /\ Tidy(id, row) /\ Len(row.versions) = 1
         /\ row.versions[1].path = RawPath(id, n)
<1> DEFINE v == [path |-> RawPath(id, n), content |-> c]
<1>1. v \in Versions /\ v.path = RawPath(id, n) /\ Own(id, v, 1)
  <2>1. /\ RawPath(id, n) \in Paths /\ RawPath(id, n).id = id
        /\ RawPath(id, n).trash = FALSE /\ RawPath(id, n).ver = 0
    BY RawPathIsOwn, Zenon
  <2>2. 1 \in Nat /\ RawPath(id, n).ver <= 1
    BY <2>1
  <2> QED BY <2>1, <2>2, NewVersion, Zenon
<1>2. row.versions = <<v>> /\ row.name = n /\ row.deleted = FALSE
  OBVIOUS
<1> HIDE DEF v
<1>3. <<v>> \in Seq(Versions) /\ Len(<<v>>) = 1 /\ <<v>>[1] = v
  BY <1>1
<1>4. row = [name |-> n, deleted |-> FALSE, versions |-> <<v>>]
  BY DEF v
<1>5. row \in Row
  BY <1>3, <1>4 DEF Row
<1> QED BY <1>1, <1>2, <1>3, <1>5, LibraryAssumption DEF Tidy, OwnAll

(* A version is added. *)
LEMMA LongerRow ==
  ASSUME NEW id \in Ids, NEW row, Tidy(id, row), Len(row.versions) < MaxVersions,
         NEW v, Own(id, v, Len(row.versions) + 1),
         NEW new, new.versions = Append(row.versions, v),
         new.versions \in Seq(Versions) => new \in Row
  PROVE  Tidy(id, new) /\ EndsWith(new, v)
<1> DEFINE t == Append(row.versions, v)
<1>1. row.versions \in Seq(Versions) /\ OwnAll(id, row.versions)
  BY DEF Tidy, Row
<1>2. /\ t \in Seq(Versions) /\ Len(t) = Len(row.versions) + 1
      /\ t[Len(row.versions) + 1] = v /\ OwnAll(id, t)
  BY <1>1, VersionAdded
<1> HIDE DEF t
<1>3. new \in Row /\ new.versions = t
  BY <1>2 DEF t
<1>4. Len(t) \in 1..MaxVersions
  BY <1>1, <1>2, LibraryAssumption DEF Tidy
<1> QED BY <1>2, <1>3, <1>4 DEF Tidy, EndsWith

(* The current version lies at another path. *)
LEMMA RepointedRow ==
  ASSUME Rows, NEW id \in Ids, files[id] # NoFile,
         NEW p \in Paths, p.id = id, p.trash = FALSE, p.ver <= Len(files[id].versions)
  PROVE  LET t == Repointed(id, p) IN
           /\ t \in Seq(Versions) /\ Len(t) = Len(files[id].versions)
           /\ t[Len(t)].path = p /\ OwnAll(id, t)
<1> DEFINE s == files[id].versions
           v == s[Len(s)]
           w == [v EXCEPT !.path = p]
<1>1. s \in Seq(Versions) /\ Len(s) \in 1..MaxVersions /\ OwnAll(id, s)
  BY DEF Rows, Tidy, Row
<1>2. v \in Versions /\ Own(id, v, Len(s))
  BY CurrentIsOwn DEF Current
<1>3. w \in Versions /\ w.path = p /\ Own(id, w, Len(s))
  <2>1. PICK m \in Nat : m = Len(s) /\ p.ver <= m
    BY <1>1
  <2> HIDE DEF s, v
  <2>2. Own(id, v, m)
    BY <1>2, <2>1
  <2>3. [v EXCEPT !.path = p] \in Versions /\ Own(id, [v EXCEPT !.path = p], m)
    BY <1>2, <2>1, <2>2, MovedVersion
  <2>4. w.path = p
    BY <1>2, <2>1, <2>2, MovedVersion
  <2> QED BY <2>1, <2>3, <2>4
<1>4. Repointed(id, p) = [s EXCEPT ![Len(s)] = w]
  BY DEF Repointed
<1> HIDE DEF s, w
<1> QED BY <1>1, <1>3, <1>4, LastReplaced DEF s

LEMMA RowChanges ==
  ASSUME Rows, NEW id \in Ids, NEW row, Tidy(id, row), files' = [files EXCEPT ![id] = row]
  PROVE  Rows' /\ files'[id] = row /\ \A x \in Ids \ {id} : files'[x] = files[x]
  BY DEF Rows, Tidy

(* What a step does not touch stays where its row says.                    *)
LEMMA OthersStay ==
  ASSUME Rows, LiveOnDisk, NEW S, \A x \in Ids \ S : files'[x] = files[x],
         torn \ S \subseteq torn',
         \A p \in DOMAIN disk \cap Paths :
           p.trash = FALSE /\ p.id \notin S /\ Live(p.id) => p \in DOMAIN disk',
         NEW x \in (Ids \ S) \ torn', Live(x)'
  PROVE  OnDisk(Current(x).path)'
<1>1. Live(x) /\ files[x] # NoFile /\ x \notin torn /\ files'[x] = files[x]
  BY DEF Live
<1>2. Current(x).path \in DOMAIN disk
  BY <1>1 DEF LiveOnDisk, OnDisk
<1>3. Current(x).path \in DOMAIN disk'
  BY <1>1, <1>2, CurrentIsOwn
<1>4. Current(x)' = Current(x)
  BY <1>1 DEF Current
<1> QED BY <1>3, <1>4 DEF OnDisk

(* ... if the change is to one id.                                         *)
LEMMA OtherStays ==
  ASSUME Rows, LiveOnDisk, DOMAIN disk \subseteq Paths, NEW id \in Ids,
         \A y \in Ids \ {id} : files'[y] = files[y], torn' = torn,
         \A p \in DOMAIN disk : p.trash = FALSE /\ p.id # id /\ Live(p.id) => p \in DOMAIN disk',
         NEW x \in Ids \ torn', x # id, Live(x)'
  PROVE  OnDisk(Current(x).path)'
<1> DEFINE S == {id}
<1>1. torn \ S \subseteq torn' /\ x \in (Ids \ S) \ torn'
  OBVIOUS
<1>2. \A p \in DOMAIN disk \cap Paths :
        p.trash = FALSE /\ p.id \notin S /\ Live(p.id) => p \in DOMAIN disk'
  OBVIOUS
<1>3. \A y \in Ids \ S : files'[y] = files[y]
  OBVIOUS
<1> HIDE DEF S
<1> QED BY <1>1, <1>2, <1>3, OthersStay

-----------------------------------------------------------------------------
(* The disk.                                                               *)

LEMMA WriteIsTyped ==
  ASSUME DiskTypes, NEW p \in Paths, NEW c \in Contents, disk' = Written(p, c)
  PROVE  DiskTypes' /\ DOMAIN disk' = DOMAIN disk \cup {p}
  BY DEF DiskTypes, Written

(* What Record does to the disk. *)
LEMMA AdoptIs ==
  ASSUME NEW id, NEW n, NEW c,
         disk' = Moved(RawPath(c, n), RawPath(id, n), Written(RawPath(c, n), c))
  PROVE  /\ RawPath(id, n) \in DOMAIN disk' /\ disk'[RawPath(id, n)] = c
         /\ \A q \in DOMAIN disk' : q # RawPath(id, n) => q \in DOMAIN disk /\ disk'[q] = disk[q]
         /\ \A q \in DOMAIN disk : q # RawPath(c, n) => q \in DOMAIN disk'
<1> DEFINE w == RawPath(c, n)
           p == RawPath(id, n)
           d == Written(w, c)
<1>1. DOMAIN d = DOMAIN disk \cup {w} /\ d[w] = c /\ \A q \in DOMAIN disk : q # w => d[q] = disk[q]
  BY DEF Written
<1> HIDE DEF w, p, d
<1>2. disk' = [q \in (DOMAIN d \ {w}) \cup {p} |-> IF q = p THEN d[w] ELSE d[q]]
  BY DEF Moved, w, p, d
<1>3. /\ p \in DOMAIN disk' /\ disk'[p] = c
      /\ \A q \in DOMAIN disk' : q # p => q \in DOMAIN disk /\ disk'[q] = disk[q]
      /\ \A q \in DOMAIN disk : q # w => q \in DOMAIN disk'
  BY <1>1, <1>2
<1> QED BY <1>3 DEF w, p

LEMMA MoveIsTyped ==
  ASSUME DiskTypes, NEW p \in DOMAIN disk, NEW q \in Paths, disk' = Moved(p, q, disk)
  PROVE  DiskTypes' /\ DOMAIN disk' = (DOMAIN disk \ {p}) \cup {q}
  BY DEF DiskTypes, Moved

LEMMA CutIsTyped ==
  ASSUME DiskTypes, NEW S, disk' = Restrict(disk, DOMAIN disk \ S)
  PROVE  DiskTypes' /\ DOMAIN disk' = DOMAIN disk \ S
  BY DEF DiskTypes, Restrict

-----------------------------------------------------------------------------
(* The operations: rows stay tidy, the disk typed, live files on disk.     *)

Library == Rows /\ DiskTypes /\ LiveOnDisk

LEMMA RecordKeeps ==
  ASSUME Library, NEW id \in Ids, NEW n \in Names, NEW c \in Contents, Record(id, n, c),
         ~Live(c)
  PROVE  Library'
<1> DEFINE row == [name |-> n, deleted |-> FALSE,
                   versions |-> <<[path |-> RawPath(id, n), content |-> c]>>]
<1>1. Tidy(id, row) /\ Len(row.versions) = 1 /\ row.versions[1].path = RawPath(id, n)
  BY FirstRow
<1>2. files' = [files EXCEPT ![id] = row]
  BY DEF Record
<1> HIDE DEF row
<1>3. Rows' /\ files'[id] = row /\ \A x \in Ids \ {id} : files'[x] = files[x]
  BY <1>1, <1>2, RowChanges DEF Library
<1>4. /\ DiskTypes' /\ RawPath(id, n) \in DOMAIN disk'
      /\ \A q \in DOMAIN disk : Live(q.id) => q \in DOMAIN disk'
  <2>1. /\ RawPath(id, n) \in DOMAIN disk' /\ disk'[RawPath(id, n)] = c
        /\ \A q \in DOMAIN disk' :
             q # RawPath(id, n) => q \in DOMAIN disk /\ disk'[q] = disk[q]
        /\ \A q \in DOMAIN disk : q # RawPath(c, n) => q \in DOMAIN disk'
    BY AdoptIs DEF Record
  <2>2. RawPath(c, n).id = c /\ RawPath(id, n) \in Paths
    BY RawPathIsOwn DEF Ids
  <2>3. \A q : Live(q.id) => q # RawPath(c, n)
    BY <2>2
  <2> QED BY <2>1, <2>2, <2>3 DEF Library, DiskTypes
<1>5. ASSUME NEW x \in Ids \ torn', Live(x)' PROVE OnDisk(Current(x).path)'
  <2>1. CASE x = id
    BY <1>1, <1>3, <1>4, <2>1 DEF OnDisk, Current
  <2>2. CASE x # id
    <3>1. torn' = torn
      BY DEF Record
    <3> QED BY <1>3, <1>4, <1>5, <2>2, <3>1, OtherStays DEF Library, DiskTypes
  <2> QED BY <2>1, <2>2
<1> QED BY <1>3, <1>4, <1>5 DEF Library, LiveOnDisk

LEMMA ReviveKeeps ==
  ASSUME Library, NEW id \in Ids, NEW n \in Names, NEW c \in Contents,
         files[id] # NoFile, Revive(id, n, c)
  PROVE  Library'
<1> DEFINE s == files[id].versions
           plain == RawPath(id, n)
           p == IF OnDisk(plain) THEN [plain EXCEPT !.ver = Len(s) + 1] ELSE plain
           v == [path |-> p, content |-> c]
           row == [files[id] EXCEPT !.deleted = FALSE, !.versions = Append(s, v)]
<1>1. Tidy(id, files[id]) /\ s \in Seq(Versions) /\ files \in [Ids -> {NoFile} \cup Row]
  BY DEF Library, Rows, Tidy, Row
<1>2. Len(s) + 1 \in 1..MaxVersions /\ Len(s) < MaxVersions
  BY <1>1, LibraryAssumption DEF Revive
<1>3. p \in Paths /\ p.id = id /\ p.trash = FALSE /\ p.ver <= Len(s) + 1
  <2>1. /\ plain \in Paths /\ plain.id = id
        /\ plain.trash = FALSE /\ plain.ver = 0
    BY RawPathIsOwn, Zenon
  <2>2. CASE OnDisk(plain)
    BY <1>2, <2>1, <2>2, VerPathIsOwn
  <2>3. CASE ~OnDisk(plain)
    BY <1>2, <2>1, <2>3
  <2> QED BY <2>2, <2>3
<1>4. files' = [files EXCEPT ![id] = row]
  BY <1>1 DEF Revive, Row
<1>5. disk' = Written(p, c) /\ torn' = torn
  BY DEF Revive
<1> HIDE DEF p
<1>6. Tidy(id, row) /\ row.versions[Len(row.versions)].path = p
  <2>1. v.path = p /\ Own(id, v, Len(s) + 1)
    <3>1. Len(s) + 1 \in Nat
      BY <1>2
    <3> QED BY <1>3, <3>1, NewVersion, Zenon
  <2> HIDE DEF v
  <2>2. row.versions = Append(s, v) /\ (row.versions \in Seq(Versions) => row \in Row)
    BY <1>1 DEF Tidy, Row
  <2> HIDE DEF row
  <2>3. Tidy(id, row) /\ EndsWith(row, v)
    <3>1. Tidy(id, files[id]) /\ Len(s) < MaxVersions
      BY <1>1, <1>2
    <3> QED BY <3>1, <2>1, <2>2, LongerRow, Zenon
  <2> QED BY <2>1, <2>3 DEF EndsWith
<1> HIDE DEF row
<1>7. Rows' /\ files'[id] = row /\ \A x \in Ids \ {id} : files'[x] = files[x]
  BY <1>4, <1>6, RowChanges DEF Library
<1>8. DiskTypes' /\ DOMAIN disk' = DOMAIN disk \cup {p}
  BY <1>3, <1>5, WriteIsTyped DEF Library
<1>9. ASSUME NEW x \in Ids \ torn', Live(x)' PROVE OnDisk(Current(x).path)'
  <2>1. CASE x = id
    BY <1>6, <1>7, <1>8, <2>1 DEF OnDisk, Current
  <2>2. CASE x # id
    BY <1>5, <1>7, <1>8, <1>9, <2>2, OthersStay DEF Library
  <2> QED BY <2>1, <2>2
<1> QED BY <1>7, <1>8, <1>9 DEF Library, LiveOnDisk

LEMMA UploadKeeps ==
  ASSUME Library, NEW n \in Names, NEW c \in Contents, Upload(n, c)
  PROVE  Library'
<1>1. c \in Ids /\ Spare \subseteq Ids
  BY DEF Ids
<1>2. CASE \E id \in Ids : files[id] # NoFile /\ files[id].name = n /\ Revive(id, n, c)
  BY <1>2, ReviveKeeps
<1>3. CASE ~Live(c) /\ (Record(c, n, c) \/ \E s \in Spare : Record(s, n, c))
  BY <1>1, <1>3, RecordKeeps
<1>4. CASE /\ disk' = Written(RawPath(c, n), c)
           /\ UNCHANGED <<files, known, torn>>
  <2>1. DiskTypes' /\ DOMAIN disk' = DOMAIN disk \cup {RawPath(c, n)}
    BY <1>1, <1>4, RawPathIsOwn, WriteIsTyped DEF Library
  <2>2. LiveOnDisk'
    BY <1>4, <2>1 DEF Library, LiveOnDisk, Live, Current, OnDisk
  <2> QED BY <1>4, <2>1, <2>2 DEF Library, Rows
<1> QED BY <1>2, <1>3, <1>4 DEF Upload, Live, Gone

LEMMA SoftDeleteKeeps ==
  ASSUME Library, NEW id \in Ids, SoftDelete(id)
  PROVE  Library'
<1> DEFINE there == {p \in PathsOf(id) : OnDisk(p)}
           dest == {InTrash(p) : p \in there}
           row == [files[id] EXCEPT !.deleted = TRUE]
<1>1. Tidy(id, files[id]) /\ files[id] # NoFile /\ files \in [Ids -> {NoFile} \cup Row]
  BY DEF Library, Rows, SoftDelete, Live
<1>2. \A p \in there : p \in Paths /\ p.id = id /\ p.trash = FALSE /\ p \in DOMAIN disk
  BY <1>1, PathsAreOwn DEF Library, OnDisk
<1>3. /\ disk' = [q \in (DOMAIN disk \ there) \cup dest |->
                    IF q \in dest THEN disk[OutOfTrash(q)] ELSE disk[q]]
      /\ files' = [files EXCEPT ![id] = row] /\ torn' = torn
  BY <1>1 DEF SoftDelete
<1>4. Tidy(id, row)
  BY <1>1 DEF Tidy, Row
<1> HIDE DEF row, there
<1>5. Rows' /\ files'[id] = row /\ \A x \in Ids \ {id} : files'[x] = files[x]
  BY <1>3, <1>4, RowChanges DEF Library
<1>6. DOMAIN disk' = (DOMAIN disk \ there) \cup dest
  BY <1>3
<1>7. ASSUME NEW q \in dest PROVE q \in Paths /\ disk'[q] \in Contents
  <2>1. PICK p \in there : q = InTrash(p)
    OBVIOUS
  <2>2. q \in Paths /\ OutOfTrash(q) = p
    BY <1>2, <2>1, InTrashIsTyped
  <2>3. disk'[q] = disk[OutOfTrash(q)]
    BY <1>3
  <2> QED BY <1>2, <2>2, <2>3 DEF Library, DiskTypes
<1>8. DiskTypes'
  <2> HIDE DEF dest
  <2>1. \A q \in DOMAIN disk' \ dest : disk'[q] = disk[q] /\ q \in DOMAIN disk
    BY <1>3
  <2> QED BY <1>6, <1>7, <2>1 DEF Library, DiskTypes
<1>9. ASSUME NEW x \in Ids \ torn', Live(x)' PROVE OnDisk(Current(x).path)'
  <2>1. x # id
    BY <1>5, <1>9, <1>1 DEF Live, row, Row, Tidy
  <2>2. \A p \in DOMAIN disk : p.id # id => p \in DOMAIN disk'
    BY <1>2, <1>6
  <2>3. torn' = torn
    BY <1>3
  <2> HIDE DEF dest
  <2> QED BY <1>5, <1>9, <2>1, <2>2, <2>3, OthersStay DEF Library
<1> QED BY <1>5, <1>8, <1>9 DEF Library, LiveOnDisk

LEMMA RestoreKeeps ==
  ASSUME Library, NEW id \in Ids, RestoreFile(id)
  PROVE  Library'
<1>1. Tidy(id, files[id]) /\ files[id] # NoFile /\ files \in [Ids -> {NoFile} \cup Row]
  BY DEF Library, Rows, RestoreFile, Gone
<1>2. CASE OnDisk(Current(id).path)
  <2> DEFINE row == [files[id] EXCEPT !.deleted = FALSE]
  <2>1. Tidy(id, row) /\ row.versions = files[id].versions
    <3>1. files[id] \in Row
      BY <1>1 DEF Tidy
    <3>2. row \in Row /\ row.versions = files[id].versions
      BY <3>1 DEF Row
    <3> QED BY <1>1, <3>2 DEF Tidy
  <2>2. files' = [files EXCEPT ![id] = row] /\ UNCHANGED <<disk, torn>>
    BY <1>1, <1>2 DEF RestoreFile
  <2> HIDE DEF row
  <2>3. Rows' /\ files'[id] = row /\ \A x \in Ids \ {id} : files'[x] = files[x]
    BY <2>1, <2>2, RowChanges DEF Library
  <2>4. ASSUME NEW x \in Ids \ torn', Live(x)' PROVE OnDisk(Current(x).path)'
    <3>1. CASE x = id
      BY <1>2, <2>1, <2>2, <2>3, <3>1 DEF OnDisk, Current
    <3>2. CASE x # id
      BY <2>2, <2>3, <2>4, <3>2, OtherStays DEF Library, DiskTypes
    <3> QED BY <3>1, <3>2
  <2> QED BY <2>2, <2>3, <2>4 DEF Library, LiveOnDisk, DiskTypes
<1>3. CASE ~OnDisk(Current(id).path)
  <2>1. PICK p \in DOMAIN disk :
          /\ p.trash /\ p.id = id /\ p.ver = 0
          /\ disk' = Moved(p, OutOfTrash(p), disk)
          /\ files' = [files EXCEPT ![id].deleted = FALSE,
                         ![id].versions = Repointed(id, OutOfTrash(p))]
    BY <1>3 DEF RestoreFile
  <2>2. p \in Paths
    BY DEF Library, DiskTypes
  <2> DEFINE q == OutOfTrash(p)
             t == Repointed(id, q)
             row == [files[id] EXCEPT !.deleted = FALSE, !.versions = t]
  <2>3. q \in Paths /\ q.id = id /\ q.trash = FALSE /\ q.ver <= Len(files[id].versions)
    <3>1. q \in Paths /\ q.id = id /\ q.trash = FALSE /\ q.ver = 0
      BY <2>1, <2>2, OutOfTrashIsTyped
    <3> QED BY <1>1, <3>1 DEF Tidy
  <2>4. files' = [files EXCEPT ![id] = row] /\ disk' = Moved(p, q, disk) /\ torn' = torn
    BY <1>1, <2>1 DEF RestoreFile, Row
  <2> HIDE DEF q
  <2>5. /\ t \in Seq(Versions) /\ Len(t) = Len(files[id].versions)
        /\ t[Len(t)].path = q /\ OwnAll(id, t)
    BY <1>1, <2>3, RepointedRow DEF Library
  <2> HIDE DEF t
  <2>6. Tidy(id, row) /\ row.versions = t
    BY <1>1, <2>5 DEF Tidy, Row
  <2> HIDE DEF row
  <2>7. Rows' /\ files'[id] = row /\ \A x \in Ids \ {id} : files'[x] = files[x]
    BY <2>4, <2>6, RowChanges DEF Library
  <2>8. DiskTypes' /\ DOMAIN disk' = (DOMAIN disk \ {p}) \cup {q}
    BY <2>3, <2>4, MoveIsTyped DEF Library
  <2>9. ASSUME NEW x \in Ids \ torn', Live(x)' PROVE OnDisk(Current(x).path)'
    <3>1. CASE x = id
      BY <2>5, <2>6, <2>7, <2>8, <3>1 DEF OnDisk, Current
    <3>2. CASE x # id
      <4>1. \A o \in DOMAIN disk : o.trash = FALSE => o \in DOMAIN disk'
        BY <2>1, <2>8
      <4> QED BY <2>4, <2>7, <2>9, <3>2, <4>1, OtherStays DEF Library, DiskTypes
    <3> QED BY <3>1, <3>2
  <2> QED BY <2>7, <2>8, <2>9 DEF Library, LiveOnDisk
<1> QED BY <1>2, <1>3

LEMMA ForgetKeeps ==
  ASSUME Rows, NEW S \in SUBSET Ids, Forget(S)
  PROVE  /\ Rows' /\ torn' = torn \ S
         /\ \A x \in S : ~Live(x)' /\ \A y \in Ids \ S : files'[y] = files[y]
  BY DEF Forget, Rows, Live

LEMMA PurgeKeeps ==
  ASSUME Library, NEW S \in SUBSET Ids, Forget(S),
         NEW T, disk' = Restrict(disk, DOMAIN disk \ T),
         \A p \in T \cap Paths : p.id \in S \/ p.trash
  PROVE  Library'
<1>1. Rows' /\ torn' = torn \ S /\ \A x \in S : ~Live(x)'
  BY ForgetKeeps DEF Library
<1>2. \A x \in Ids \ S : files'[x] = files[x]
  BY DEF Forget
<1>3. DiskTypes' /\ DOMAIN disk' = DOMAIN disk \ T
  BY CutIsTyped DEF Library
<1>4. \A p \in DOMAIN disk \cap Paths : p.trash = FALSE /\ p.id \notin S => p \in DOMAIN disk'
  BY <1>3
<1>5. ASSUME NEW x \in Ids \ torn', Live(x)' PROVE OnDisk(Current(x).path)'
  <2>1. x \notin S
    BY <1>1, <1>5
  <2> QED BY <1>1, <1>2, <1>4, <1>5, <2>1, OthersStay DEF Library
<1> QED BY <1>1, <1>3, <1>5 DEF Library, LiveOnDisk

LEMMA RenameKeeps ==
  ASSUME Library, NEW id \in Ids, NEW n \in Names, RenameFile(id, n)
  PROVE  Library'
<1> DEFINE old == Current(id).path
           new == RawPath(id, n)
           p == IF OnDisk(old) THEN new ELSE old
           t == Repointed(id, p)
           row == [files[id] EXCEPT !.name = n, !.versions = t]
<1>1. Tidy(id, files[id]) /\ files[id] # NoFile /\ files \in [Ids -> {NoFile} \cup Row]
  BY DEF Library, Rows, RenameFile, Live
<1>2. /\ old \in Paths /\ old.id = id /\ old.trash = FALSE
      /\ old.ver <= Len(files[id].versions)
  BY <1>1, CurrentIsOwn DEF Library, Own
<1>3. new \in Paths /\ new.id = id /\ new.trash = FALSE /\ new.ver = 0
  <2> HIDE DEF p
  <2> QED BY RawPathIsOwn, ZenonT(60)
<1>4. p \in Paths /\ p.id = id /\ p.trash = FALSE /\ p.ver <= Len(files[id].versions)
  <2>1. 0 <= Len(files[id].versions)
    BY <1>1 DEF Tidy
  <2> HIDE DEF old, new
  <2> QED BY <1>2, <1>3, <2>1
<1>5. disk' = IF OnDisk(old) THEN Moved(old, new, disk) ELSE disk
  BY DEF RenameFile
<1>6. \/ files' = files /\ torn' = IF OnDisk(old) /\ new # old THEN torn \cup {id} ELSE torn
      \/ files' = [files EXCEPT ![id] = row] /\ torn' = torn
  BY <1>1 DEF RenameFile, Row
<1>7. /\ t \in Seq(Versions) /\ Len(t) = Len(files[id].versions)
      /\ t[Len(t)].path = p /\ OwnAll(id, t)
  <2> HIDE DEF p
  <2> QED BY <1>1, <1>4, RepointedRow DEF Library
<1>8. ~OnDisk(old) => id \in torn
  BY DEF RenameFile, Library, LiveOnDisk
<1> HIDE DEF t, old, new
<1>9. Tidy(id, row) /\ row.versions = t
  BY <1>1, <1>7 DEF Tidy, Row
<1>10. /\ DiskTypes'
       /\ DOMAIN disk' = IF OnDisk(old) THEN (DOMAIN disk \ {old}) \cup {new}
                         ELSE DOMAIN disk
  <2>1. CASE OnDisk(old)
    BY <1>3, <1>5, <2>1, MoveIsTyped DEF Library, OnDisk
  <2>2. CASE ~OnDisk(old)
    BY <1>5, <2>2 DEF Library, DiskTypes
  <2> QED BY <2>1, <2>2
<1> HIDE DEF row
<1>11. Rows' /\ \A x \in Ids \ {id} : files'[x] = files[x]
  <2>1. CASE files' = files
    BY <2>1 DEF Library, Rows
  <2>2. CASE files' = [files EXCEPT ![id] = row]
    BY <1>9, <2>2, RowChanges DEF Library
  <2> QED BY <1>6, <2>1, <2>2
<1>12. ASSUME NEW x \in Ids \ torn', Live(x)' PROVE OnDisk(Current(x).path)'
  <2>1. CASE x = id
    <3>1. OnDisk(old)
      BY <1>6, <1>8, <1>12, <2>1
    <3>2. CASE files' = files /\ torn' = IF OnDisk(old) /\ new # old THEN torn \cup {id}
                                        ELSE torn
      <4>1. Current(id)' = Current(id)
        BY <3>2 DEF Current
      <4>2. new = old
        BY <1>12, <2>1, <3>1, <3>2
      <4>3. old \in DOMAIN disk'
        BY <1>10, <3>1, <4>2
      <4> QED BY <2>1, <4>1, <4>3 DEF OnDisk, old
    <3>3. CASE files' = [files EXCEPT ![id] = row]
      BY <1>1, <1>7, <1>9, <1>10, <2>1, <3>1, <3>3 DEF OnDisk, Current
    <3> QED BY <1>6, <3>2, <3>3
  <2>2. CASE x # id
    <3>1. torn \ {id} \subseteq torn'
      BY <1>6
    <3>2. \A o \in DOMAIN disk : o.id # id => o \in DOMAIN disk'
      BY <1>2, <1>10
    <3> QED BY <1>11, <1>12, <2>2, <3>1, <3>2, OthersStay DEF Library
  <2> QED BY <2>1, <2>2
<1> QED BY <1>10, <1>11, <1>12 DEF Library, LiveOnDisk

LEMMA LibraryStep == Library /\ [LibNext]_libVars => Library'
<1> SUFFICES ASSUME Library, [LibNext]_libVars PROVE Library'
  OBVIOUS
<1>1. ASSUME NEW n \in Names, NEW c \in Contents, Upload(n, c) PROVE Library'
  BY <1>1, UploadKeeps
<1>2. ASSUME NEW id \in Ids, SoftDelete(id) PROVE Library'
  BY <1>2, SoftDeleteKeeps
<1>3. ASSUME NEW id \in Ids, RestoreFile(id) PROVE Library'
  BY <1>3, RestoreKeeps
<1>4. ASSUME NEW id \in Ids, PurgeFile(id) PROVE Library'
  <2>1. files[id] # NoFile
    BY <1>4 DEF PurgeFile, Gone
  <2>2. \A p \in PathsOf(id) \cup TrashOf(id) : p.id = id
    BY <2>1, PathsAreOwn DEF Library, TrashOf
  <2>3. /\ Forget({id}) /\ {id} \in SUBSET Ids
        /\ disk' = Restrict(disk, DOMAIN disk \ (PathsOf(id) \cup TrashOf(id)))
    BY <1>4 DEF PurgeFile
  <2>4. \A p \in (PathsOf(id) \cup TrashOf(id)) \cap Paths : p.id \in {id} \/ p.trash
    BY <2>2
  <2> QED BY <2>3, <2>4, PurgeKeeps
<1>5. ASSUME NEW ids \in SUBSET Ids, PurgeTrash(ids) PROVE Library'
  <2> DEFINE T == UNION {TrashOf(id) : id \in ids}
  <2>1. \A p \in T : p.trash
    BY DEF TrashOf
  <2>2. Forget(ids) /\ disk' = Restrict(disk, DOMAIN disk \ T)
    BY <1>5 DEF PurgeTrash
  <2> HIDE DEF T
  <2> QED BY <2>1, <2>2, PurgeKeeps
<1>6. ASSUME NEW id \in Ids, NEW n \in Names, RenameFile(id, n) PROVE Library'
  BY <1>6, RenameKeeps
<1>7. CASE UNCHANGED libVars
  BY <1>7 DEF libVars, Library, Rows, DiskTypes, LiveOnDisk, Live, Current, OnDisk
<1> QED BY <1>1, <1>2, <1>3, <1>4, <1>5, <1>6, <1>7 DEF LibNext

LEMMA LibraryInit == LibInit => Library
  BY DEF LibInit, Library, Rows, DiskTypes, LiveOnDisk, Live

LEMMA LibraryInvariance == LibSpec => []Library
  BY LibraryInit, LibraryStep, PTL DEF LibSpec

(* Whatever is uploaded, deleted, restored, purged and renamed, in any     *)
(* order (data/fs/file_library.py), a live file has its current bytes on   *)
(* disk, unless the database refused a rename of it.                       *)
THEOREM LiveFilesOnDisk == LibSpec => []LiveOnDisk
<1>1. Library => LiveOnDisk
  BY DEF Library
<1> QED BY <1>1, LibraryInvariance, PTL

-----------------------------------------------------------------------------
(* Uploads.                                                                *)

LEMMA WriteIs ==
  ASSUME NEW p, NEW c, disk' = Written(p, c)
  PROVE  /\ p \in DOMAIN disk' /\ disk'[p] = c
         /\ \A q \in DOMAIN disk' : q # p => q \in DOMAIN disk /\ disk'[q] = disk[q]
         /\ \A q \in DOMAIN disk : q \in DOMAIN disk'
  BY DEF Written

(* A new version lies at a path that no version of the row had, or where   *)
(* nothing lies.                                                           *)
LEMMA ReviveSpares ==
  ASSUME Library, NEW id \in Ids, files[id] # NoFile, NEW n \in Names, NEW c \in Contents,
         Revive(id, n, c), NEW x \in Ids, files[x] # NoFile,
         NEW p \in PathsOf(x) \cap DOMAIN disk
  PROVE  p \in DOMAIN disk' /\ disk'[p] = disk[p]
<1> DEFINE plain == RawPath(id, n)
           m == Len(files[id].versions) + 1
           w == IF OnDisk(plain) THEN [plain EXCEPT !.ver = m] ELSE plain
<1>1. p \in Paths /\ p.id = x /\ (x = id => p.ver < m)
  BY PathsAreOwn, PathsAreOld DEF Library
<1>2. Tidy(id, files[id]) /\ m \in 1..MaxVersions
  BY LibraryAssumption DEF Library, Rows, Tidy, Revive
<1>3. plain \in Paths /\ plain.id = id
  BY RawPathIsOwn
<1>4. [plain EXCEPT !.ver = m].id = id /\ [plain EXCEPT !.ver = m].ver = m
  BY <1>2, <1>3, VerPathIsOwn
<1>5. disk' = Written(w, c)
  BY DEF Revive
<1> HIDE DEF plain, m
<1>6. p # w
  <2>1. CASE OnDisk(plain)
    <3>1. w.id = id /\ w.ver = m
      BY <1>4, <2>1
    <3> HIDE DEF w
    <3>2. p.id # w.id \/ p.ver # w.ver
      BY <1>1, <1>2, <3>1, LibraryAssumption DEF Paths
    <3> QED BY <3>2
  <2>2. CASE ~OnDisk(plain)
    BY <2>2 DEF OnDisk
  <2> QED BY <2>1, <2>2
<1> HIDE DEF w
<1> QED BY <1>5, <1>6, WriteIs

(* What UploadKeepsBytes says of one path of a live file.                  *)
Spared(x, p) ==
  OnDisk(p)' /\ (disk'[p] = disk[p] \/ (UNCHANGED files /\ disk'[p] = x))

LEMMA UploadSpares ==
  ASSUME Library, NEW n \in Names, NEW c \in Contents, Upload(n, c),
         NEW x \in Ids, Live(x), NEW p \in PathsOf(x) \cap DOMAIN disk
  PROVE  Spared(x, p)
<1>1. c \in Ids /\ Spare \subseteq Ids
  BY DEF Ids
<1>2. files[x] # NoFile /\ p.id = x
  BY PathsAreOwn DEF Live, Library
<1>3. ASSUME NEW id \in Ids, files[id] # NoFile, Revive(id, n, c) PROVE Spared(x, p)
  BY <1>2, <1>3, ReviveSpares DEF Spared, OnDisk
<1>4. ASSUME NEW id \in Ids, files[id] = NoFile, ~Live(c), Record(id, n, c)
      PROVE  Spared(x, p)
  <2>1. RawPath(id, n).id = id /\ RawPath(c, n).id = c
    BY <1>1, RawPathIsOwn
  <2>2. p # RawPath(id, n) /\ p # RawPath(c, n)
    BY <1>2, <1>4, <2>1
  <2> QED BY <1>4, <2>2, AdoptIs DEF Record, Spared, OnDisk
<1>5. CASE disk' = Written(RawPath(c, n), c) /\ UNCHANGED files
  <2>1. RawPath(c, n).id = c
    BY <1>1, RawPathIsOwn
  <2>2. CASE p = RawPath(c, n)
    <3>1. x = c
      BY <1>2, <2>1, <2>2
    <3> QED BY <1>5, <2>2, <3>1, WriteIs DEF Spared, OnDisk
  <2>3. CASE p # RawPath(c, n)
    BY <1>5, <2>3, WriteIs DEF Spared, OnDisk
  <2> QED BY <2>2, <2>3
<1> QED BY <1>1, <1>3, <1>4, <1>5 DEF Upload, Live, Gone

(* Uploads and what lies at the paths of live files (file_library.py       *)
(* write_staged_upload, _revive_deleted_file): an accepted one writes over *)
(* no version's bytes, a refused one at most puts a file's first bytes in  *)
(* their place again; whatever names are stored as one.                    *)
THEOREM UploadsSpareBytes == LibSpec => UploadKeepsBytes
<1>1. ASSUME Library, [LibNext]_libVars
      PROVE  [\A n \in Names, c \in Contents : Upload(n, c) =>
                \A id \in Ids : Live(id) => \A p \in PathsOf(id) \cap DOMAIN disk :
                  OnDisk(p)' /\ (disk'[p] = disk[p] \/ (UNCHANGED files /\ disk'[p] = id))]_libVars
  BY <1>1, UploadSpares DEF Spared
<1> QED BY <1>1, LibraryInvariance, PTL DEF LibSpec, UploadKeepsBytes

-----------------------------------------------------------------------------
(* Types.                                                                  *)

RestTypes == known \subseteq Contents /\ torn \subseteq Ids /\ ops \in 0..MaxOps

LEMMA RestStep == RestTypes /\ [LibNext]_libVars => RestTypes'
<1> SUFFICES ASSUME RestTypes, [LibNext]_libVars PROVE RestTypes'
  OBVIOUS
<1>1. CASE UNCHANGED libVars
  BY <1>1 DEF libVars, RestTypes
<1>2. CASE LibNext
  <2>1. ops' \in 0..MaxOps
    BY <1>2, LibraryAssumption DEF LibNext, RestTypes
  <2>2. ASSUME NEW n \in Names, NEW c \in Contents, Upload(n, c)
        PROVE  known' \subseteq Contents /\ torn' \subseteq Ids
    BY <2>2 DEF Upload, Record, Revive, RestTypes
  <2>3. ASSUME NEW id \in Ids, SoftDelete(id) \/ RestoreFile(id)
        PROVE  known' \subseteq Contents /\ torn' \subseteq Ids
    BY <2>3 DEF SoftDelete, RestoreFile, RestTypes
  <2>4. ASSUME NEW S, Forget(S)
        PROVE  known' \subseteq Contents /\ torn' \subseteq Ids
    BY <2>4 DEF Forget, RestTypes
  <2>5. ASSUME NEW id \in Ids, NEW n \in Names, RenameFile(id, n)
        PROVE  known' \subseteq Contents /\ torn' \subseteq Ids
    BY <2>5 DEF RenameFile, RestTypes
  <2> QED BY <1>2, <2>1, <2>2, <2>3, <2>4, <2>5 DEF LibNext, PurgeFile, PurgeTrash, RestTypes
<1> QED BY <1>1, <1>2

LEMMA RestInit == LibInit => RestTypes
  BY LibraryAssumption DEF LibInit, RestTypes

LEMMA RestTyped == Library /\ RestTypes => LibTypeOK
  BY DEF Library, Rows, Tidy, Row, DiskTypes, RestTypes, LibTypeOK, Range

(* Rows, versions, paths and bytes keep their types.                       *)
THEOREM LibraryTypes == LibSpec => []LibTypeOK
  BY RestInit, RestTyped, RestStep, LibraryInvariance, PTL DEF LibSpec

-----------------------------------------------------------------------------
(* The shelf: bytes of a file's own.                                       *)

ContentsIn(s) == {v.content : v \in Range(s)}

PathsIn(s) == {v.path : v \in Range(s)}

LEMMA NoVersions == Range(<<>>) = {} /\ ContentsIn(<<>>) = {} /\ PathsIn(<<>>) = {}
  BY DEF Range, ContentsIn, PathsIn

LEMMA OfVersions ==
  ASSUME NEW s
  PROVE  /\ \A c : c \in ContentsIn(s) <=> \E k \in DOMAIN s : c = s[k].content
         /\ \A p : p \in PathsIn(s) <=> \E k \in DOMAIN s : p = s[k].path
<1>1. \A v : v \in Range(s) <=> \E k \in DOMAIN s : v = s[k]
  BY DEF Range
<1> QED BY <1>1 DEF ContentsIn, PathsIn

LEMMA VersionsAppended ==
  ASSUME NEW s \in Seq(Versions), NEW v \in Versions
  PROVE  /\ ContentsIn(Append(s, v)) = ContentsIn(s) \cup {v.content}
         /\ PathsIn(Append(s, v)) = PathsIn(s) \cup {v.path}
<1>1. Range(Append(s, v)) = Range(s) \cup {v}
  <2>1. /\ DOMAIN Append(s, v) = 1..Len(s) + 1 /\ DOMAIN s = 1..Len(s) /\ Len(s) \in Nat
        /\ \A k \in 1..Len(s) : Append(s, v)[k] = s[k]
        /\ Append(s, v)[Len(s) + 1] = v
    BY AppendProperties
  <2>2. 1..Len(s) + 1 = 1..Len(s) \cup {Len(s) + 1}
    BY <2>1
  <2> QED BY <2>1, <2>2 DEF Range
<1> QED BY <1>1, Zenon DEF ContentsIn, PathsIn

LEMMA SameVersions ==
  ASSUME NEW s, NEW t, NEW p, DOMAIN t = DOMAIN s,
         \A k \in DOMAIN s : t[k].content = s[k].content /\ t[k].path \in {s[k].path, p}
  PROVE  ContentsIn(t) = ContentsIn(s) /\ PathsIn(t) \subseteq PathsIn(s) \cup {p}
<1>1. /\ \A c : c \in ContentsIn(s) <=> \E k \in DOMAIN s : c = s[k].content
      /\ \A q : q \in PathsIn(s) <=> \E k \in DOMAIN s : q = s[k].path
      /\ \A c : c \in ContentsIn(t) <=> \E k \in DOMAIN t : c = t[k].content
      /\ \A q : q \in PathsIn(t) <=> \E k \in DOMAIN t : q = t[k].path
  BY OfVersions
<1>2. \A c : c \in ContentsIn(t) <=> c \in ContentsIn(s)
  BY <1>1
<1>3. \A q : q \in PathsIn(t) => q \in PathsIn(s) \cup {p}
  BY <1>1
<1> QED BY <1>2, <1>3

LEMMA VersionsRepointed ==
  ASSUME NEW s \in Seq(Versions), Len(s) # 0, NEW p \in Paths
  PROVE  LET t == [s EXCEPT ![Len(s)].path = p] IN
           ContentsIn(t) = ContentsIn(s) /\ PathsIn(t) \subseteq PathsIn(s) \cup {p}
<1> DEFINE t == [s EXCEPT ![Len(s)].path = p]
<1>1. /\ DOMAIN t = DOMAIN s /\ DOMAIN s = 1..Len(s)
      /\ \A k \in DOMAIN s : s[k] \in Versions
      /\ \A k \in DOMAIN s : k # Len(s) => t[k] = s[k]
  OBVIOUS
<1>2. Len(s) \in DOMAIN s /\ t[Len(s)] = [s[Len(s)] EXCEPT !.path = p]
  BY <1>1
<1>3. t[Len(s)].content = s[Len(s)].content /\ t[Len(s)].path = p
  BY <1>1, <1>2 DEF Versions
<1>4. \A k \in DOMAIN s :
        t[k].content = s[k].content /\ t[k].path \in {s[k].path, p}
  BY <1>1, <1>3
<1>5. DOMAIN t = DOMAIN s
  BY <1>1
<1> HIDE DEF t
<1>6. ContentsIn(t) = ContentsIn(s) /\ PathsIn(t) \subseteq PathsIn(s) \cup {p}
  <2>1. DOMAIN t = DOMAIN s
    BY <1>5
  <2>2. \A k \in DOMAIN s :
          t[k].content = s[k].content /\ t[k].path \in {s[k].path, p}
    BY <1>4
  <2> QED BY <2>1, <2>2, SameVersions
<1> QED BY <1>6 DEF t

LEMMA OfIsIn ==
  \A id : ContentsOf(id) = ContentsIn(files[id].versions)
          /\ PathsOf(id) = PathsIn(files[id].versions)
  BY DEF ContentsOf, PathsOf, ContentsIn, PathsIn

LEMMA OfNoFile ==
  ASSUME NEW id, files[id] = NoFile
  PROVE  ContentsOf(id) = {} /\ PathsOf(id) = {}
<1>1. files[id].versions = <<>>
  <2>1. NoFile.versions = <<>>
    BY Zenon DEF NoFile
  <2> QED BY <2>1
<1> QED BY <1>1, NoVersions, OfIsIn

LEMMA CurrentIsOf ==
  ASSUME Rows, NEW id \in Ids, files[id] # NoFile
  PROVE  /\ Current(id).path \in PathsOf(id) /\ Current(id).content \in ContentsOf(id)
         /\ ContentsOf(id) \subseteq Contents
<1>1. files[id].versions \in Seq(Versions) /\ Len(files[id].versions) \in 1..MaxVersions
  BY DEF Rows, Tidy, Row
<1>2. Current(id) \in Range(files[id].versions)
  BY <1>1 DEF Current, Range
<1>3. \A v \in Range(files[id].versions) : v \in Versions
  BY <1>1 DEF Range
<1> QED BY <1>2, <1>3 DEF PathsOf, ContentsOf, Versions

(* A copy in the trash that a restore of id may take. *)
Copy(q, id) == q.id = id /\ q.trash /\ q.ver = 0

(* What lies at a path of a row, or waits for it in the trash, was uploaded*)
(* for that row; nothing waits for a row that is not there; and the row of *)
(* a hash began with those bytes.                                          *)
BytesOf(id) ==
  /\ \A q \in DOMAIN disk :
       /\ Copy(q, id) => files[id] # NoFile
       /\ Copy(q, id) \/ q \in PathsOf(id) => disk[q] \in ContentsOf(id)
  /\ id \in Contents /\ files[id] # NoFile => id \in ContentsOf(id)

Bytes == \A id \in Ids : BytesOf(id)

Same(x) ==
  ContentsOf(x)' = ContentsOf(x) /\ ShownOf(x)' = ShownOf(x) /\ (Gone(x)' <=> Gone(x))

Elsewhere(id) == \A x \in Ids \ {id} : Same(x) /\ BytesOf(x)'

(* A change to one row, and to paths of it, leaves the others alone.       *)
LEMMA OthersAreSame ==
  ASSUME Rows, DiskTypes, NEW x \in Ids, BytesOf(x), files'[x] = files[x],
         \A q \in Paths : q.id = x =>
           /\ q \in DOMAIN disk' => q \in DOMAIN disk /\ disk'[q] = disk[q]
           /\ q \in DOMAIN disk /\ Live(x) => q \in DOMAIN disk',
         DOMAIN disk' \subseteq Paths
  PROVE  Same(x) /\ BytesOf(x)'
<1>1. ContentsOf(x)' = ContentsOf(x) /\ PathsOf(x)' = PathsOf(x)
  BY DEF ContentsOf, PathsOf
<1>2. (Gone(x)' <=> Gone(x)) /\ (Live(x)' <=> Live(x)) /\ Current(x)' = Current(x)
  BY DEF Gone, Live, Current
<1>3. \A q \in Paths : Copy(q, x) \/ (files[x] # NoFile /\ q \in PathsOf(x)) => q.id = x
  BY PathsAreOwn DEF Copy
<1>4. ShownOf(x)' = ShownOf(x)
  <2>1. CASE Live(x)
    <3>1. Current(x).path \in Paths /\ Current(x).path.id = x
      BY <2>1, CurrentIsOwn DEF Live
    <3> QED BY <1>2, <2>1, <3>1 DEF ShownOf, OnDisk
  <2>2. CASE ~Live(x)
    BY <1>2, <2>2 DEF ShownOf
  <2> QED BY <2>1, <2>2
<1>5. BytesOf(x)'
  <2>1. ASSUME NEW q \in DOMAIN disk'
        PROVE  /\ Copy(q, x) => files[x] # NoFile
               /\ Copy(q, x) \/ q \in PathsOf(x) => disk'[q] \in ContentsOf(x)
    <3>1. CASE q.id = x
      BY <3>1 DEF BytesOf
    <3>2. CASE q.id # x
      <4>1. q \notin PathsOf(x)
        BY <3>2, PathsAreOwn, OfNoFile
      <4> QED BY <3>2, <4>1 DEF Copy
    <3> QED BY <3>1, <3>2
  <2> QED BY <1>1, <2>1 DEF BytesOf, Copy
<1> QED BY <1>1, <1>2, <1>4, <1>5 DEF Same

(* One path of id gets bytes that were uploaded for it.                    *)
Filled(id, p) ==
  /\ \A x \in Ids \ {id} : files'[x] = files[x]
  /\ files'[id] # NoFile
  /\ p \in Paths /\ p.id = id /\ p.trash = FALSE
  /\ p \in DOMAIN disk' /\ disk'[p] \in ContentsOf(id)'
  /\ \A q \in DOMAIN disk' : q # p => q \in DOMAIN disk /\ disk'[q] = disk[q]
  /\ \A q \in DOMAIN disk : q.id # id /\ Live(q.id) => q \in DOMAIN disk'
  /\ ContentsOf(id) \subseteq ContentsOf(id)' /\ PathsOf(id)' \subseteq PathsOf(id) \cup {p}
  /\ id \in Contents /\ files[id] = NoFile => id \in ContentsOf(id)'

LEMMA OwnPathFilled ==
  ASSUME Library, Bytes, Library', NEW id \in Ids, NEW p, Filled(id, p)
  PROVE  Elsewhere(id) /\ Bytes'
<1> USE DEF Filled
<1>1. ASSUME NEW x \in Ids \ {id} PROVE Same(x) /\ BytesOf(x)'
  <2>1. \A q \in Paths : q.id = x =>
          /\ q \in DOMAIN disk' => q \in DOMAIN disk /\ disk'[q] = disk[q]
          /\ q \in DOMAIN disk /\ Live(x) => q \in DOMAIN disk'
    OBVIOUS
  <2> QED BY <2>1, OthersAreSame DEF Library, DiskTypes, Bytes
<1>2. BytesOf(id)'
  <2>1. BytesOf(id)
    BY DEF Bytes
  <2>2. ASSUME NEW q \in DOMAIN disk', Copy(q, id) \/ q \in PathsOf(id)'
        PROVE  disk'[q] \in ContentsOf(id)'
    <3>1. CASE q = p
      BY <3>1
    <3>2. CASE q # p
      BY <2>1, <2>2, <3>2 DEF BytesOf
    <3> QED BY <3>1, <3>2
  <2>3. id \in Contents => id \in ContentsOf(id)'
    BY <2>1 DEF BytesOf
  <2> QED BY <2>2, <2>3 DEF BytesOf, Copy
<1> QED BY <1>1, <1>2 DEF Elsewhere, Bytes

-----------------------------------------------------------------------------
(* The shelf: one operation at a time.                                     *)

LEMMA RowIsFile == ASSUME NEW id, NEW row, Tidy(id, row) PROVE row # NoFile
<1>1. NoFile.versions = <<>>
  BY Zenon DEF NoFile
<1> QED BY <1>1, LibraryAssumption DEF Tidy

LEMMA MoveIs ==
  ASSUME NEW p \in DOMAIN disk, NEW q, disk' = Moved(p, q, disk)
  PROVE  /\ q \in DOMAIN disk' /\ disk'[q] = disk[p]
         /\ \A r \in DOMAIN disk' : r # q => r \in DOMAIN disk /\ disk'[r] = disk[r]
         /\ \A r \in DOMAIN disk : r # p => r \in DOMAIN disk'
         /\ p # q => p \notin DOMAIN disk'
  BY DEF Moved

(* What a reader gets of the row that id has now.                          *)
LEMMA ShownIs ==
  ASSUME NEW id \in Ids, NEW row, Tidy(id, row), files'[id] = row, row.deleted = FALSE,
         NEW p, row.versions[Len(row.versions)].path = p
  PROVE  /\ ~Gone(id)' /\ Live(id)' /\ Current(id)'.path = p
         /\ ShownOf(id)' = IF p \in DOMAIN disk' THEN {disk'[p]} ELSE {}
<1>1. files'[id] # NoFile
  BY RowIsFile
<1>2. ~Gone(id)' /\ Live(id)' /\ Current(id)'.path = p
  BY <1>1 DEF Gone, Live, Current
<1> QED BY <1>2 DEF ShownOf, OnDisk

(* The version (p, c) becomes the current one of row id, and is written.   *)
Versioned(id, c, p, row) ==
  /\ Tidy(id, row) /\ row.deleted = FALSE /\ row.versions[Len(row.versions)].path = p
  /\ ContentsIn(row.versions) = ContentsOf(id) \cup {c}
  /\ PathsIn(row.versions) \subseteq PathsOf(id) \cup {p}
  /\ p \in Paths /\ p.id = id /\ p.trash = FALSE
  /\ id \in Contents /\ files[id] = NoFile => c = id
  /\ files'[id] = row /\ \A x \in Ids \ {id} : files'[x] = files[x]
  /\ p \in DOMAIN disk' /\ disk'[p] = c
  /\ \A q \in DOMAIN disk' : q # p => q \in DOMAIN disk /\ disk'[q] = disk[q]
  /\ \A q \in DOMAIN disk : q.id # id /\ Live(q.id) => q \in DOMAIN disk'

LEMMA VersionShown ==
  ASSUME Library, Bytes, Library', NEW id \in Ids, NEW c \in Contents, NEW p, NEW row,
         Versioned(id, c, p, row)
  PROVE  /\ Elsewhere(id) /\ Bytes' /\ ContentsOf(id)' = ContentsOf(id) \cup {c}
         /\ ShownOf(id)' = {c} /\ ~Gone(id)'
<1> USE DEF Versioned
<1>2. ContentsOf(id)' = ContentsOf(id) \cup {c} /\ PathsOf(id)' \subseteq PathsOf(id) \cup {p}
  BY DEF ContentsOf, PathsOf, ContentsIn, PathsIn
<1>4. files'[id] # NoFile
  BY RowIsFile
<1>5. ~Gone(id)' /\ ShownOf(id)' = {c}
  <2>1. ~Gone(id)' /\ Live(id)' /\ Current(id)'.path = p
    BY <1>4 DEF Gone, Live, Current
  <2> QED BY <2>1 DEF ShownOf, OnDisk
<1>6. Elsewhere(id) /\ Bytes'
  <2>1. disk'[p] \in ContentsOf(id)' /\ ContentsOf(id) \subseteq ContentsOf(id)'
    BY <1>2
  <2>2. id \in Contents /\ files[id] = NoFile => id \in ContentsOf(id)'
    BY <1>2
  <2>3. Filled(id, p)
    BY <1>2, <1>4, <2>1, <2>2 DEF Filled
  <2> QED BY <2>3, OwnPathFilled
<1> QED BY <1>2, <1>5, <1>6

LEMMA RecordShows ==
  ASSUME Library, Bytes, Library', NEW id \in Ids, NEW n \in Names, NEW c \in Contents,
         files[id] = NoFile, id \in Contents => c = id, Record(id, n, c), ~Live(c)
  PROVE  /\ Elsewhere(id) /\ Bytes' /\ ContentsOf(id)' = ContentsOf(id) \cup {c}
         /\ ShownOf(id)' = {c} /\ ~Gone(id)'
<1> DEFINE p == RawPath(id, n)
           v == [path |-> p, content |-> c]
           row == [name |-> n, deleted |-> FALSE, versions |-> <<v>>]
<1>1. Tidy(id, row) /\ Len(row.versions) = 1 /\ row.versions[1].path = p
  BY FirstRow
<1>2. /\ files' = [files EXCEPT ![id] = row]
      /\ disk' = Moved(RawPath(c, n), p, Written(RawPath(c, n), c))
  BY DEF Record
<1>3. p \in Paths /\ p.id = id /\ p.trash = FALSE /\ RawPath(c, n).id = c
  <2>1. c \in Ids
    BY DEF Ids
  <2> QED BY <2>1, RawPathIsOwn, Zenon
<1>11. /\ p \in DOMAIN disk' /\ disk'[p] = c
       /\ \A q \in DOMAIN disk' : q # p => q \in DOMAIN disk /\ disk'[q] = disk[q]
       /\ \A q \in DOMAIN disk : q.id # id /\ Live(q.id) => q \in DOMAIN disk'
  <2>1. \A q : Live(q.id) => q # RawPath(c, n)
    BY <1>3
  <2> QED BY <1>2, <2>1, AdoptIs
<1>4. row.versions = <<v>> /\ row.deleted = FALSE
  OBVIOUS
<1>5. v \in Versions /\ v.path = p /\ v.content = c
  BY <1>3 DEF Versions
<1> HIDE DEF p, v, row
<1>6. ContentsIn(<<v>>) = {c} /\ PathsIn(<<v>>) = {p}
  <2>1. Append(<<>>, v) = <<v>> /\ <<>> \in Seq(Versions)
    BY <1>5
  <2>2. /\ ContentsIn(Append(<<>>, v)) = ContentsIn(<<>>) \cup {v.content}
        /\ PathsIn(Append(<<>>, v)) = PathsIn(<<>>) \cup {v.path}
    BY <1>5, <2>1, VersionsAppended, Zenon
  <2>3. /\ ContentsIn(<<v>>) = {} \cup {c} /\ PathsIn(<<v>>) = {} \cup {p}
    BY <1>5, <2>1, <2>2, NoVersions, Zenon
  <2> QED BY <2>3
<1>7. ContentsOf(id) = {} /\ PathsOf(id) = {}
  BY OfNoFile
<1>8. /\ ContentsIn(row.versions) = ContentsOf(id) \cup {c}
      /\ PathsIn(row.versions) \subseteq PathsOf(id) \cup {p}
  BY <1>4, <1>6, <1>7
<1>9. row.versions[Len(row.versions)].path = p
  BY <1>1
<1>10. files'[id] = row /\ \A x \in Ids \ {id} : files'[x] = files[x]
  BY <1>1, <1>2, RowChanges DEF Library
<1>12. Versioned(id, c, p, row)
  BY <1>1, <1>3, <1>4, <1>8, <1>9, <1>10, <1>11 DEF Versioned
<1> QED BY <1>12, VersionShown

LEMMA ReviveShows ==
  ASSUME Library, Bytes, Library', NEW id \in Ids, NEW n \in Names, NEW c \in Contents,
         files[id] # NoFile, Revive(id, n, c)
  PROVE  /\ Elsewhere(id) /\ Bytes' /\ ContentsOf(id)' = ContentsOf(id) \cup {c}
         /\ ShownOf(id)' = {c} /\ ~Gone(id)'
<1> DEFINE s == files[id].versions
           plain == RawPath(id, n)
           p == IF OnDisk(plain) THEN [plain EXCEPT !.ver = Len(s) + 1] ELSE plain
           v == [path |-> p, content |-> c]
           row == [files[id] EXCEPT !.deleted = FALSE, !.versions = Append(s, v)]
<1>1. /\ files[id] \in Row /\ s \in Seq(Versions) /\ files \in [Ids -> {NoFile} \cup Row]
      /\ Len(s) + 1 \in 1..MaxVersions
  <2>1. Tidy(id, files[id]) /\ files \in [Ids -> {NoFile} \cup Row]
    BY DEF Library, Rows
  <2> QED BY <2>1, LibraryAssumption DEF Revive, Tidy, Row
<1>2. p \in Paths /\ p.id = id /\ p.trash = FALSE
  <2>1. plain \in Paths /\ plain.id = id /\ plain.trash = FALSE
    BY RawPathIsOwn, Zenon
  <2> QED BY <1>1, <2>1, VerPathIsOwn
<1>3. files' = [files EXCEPT ![id] = row] /\ disk' = Written(p, c)
  BY <1>1 DEF Revive, Row
<1>4. row.versions = Append(s, v) /\ row.deleted = FALSE
  BY <1>1 DEF Row
<1> HIDE DEF p
<1>5. v \in Versions /\ v.path = p /\ v.content = c
  BY <1>2 DEF Versions
<1> HIDE DEF v, row
<1>6. /\ ContentsIn(row.versions) = ContentsOf(id) \cup {c}
      /\ PathsIn(row.versions) = PathsOf(id) \cup {p}
  BY <1>1, <1>4, <1>5, VersionsAppended, OfIsIn
<1>7. files'[id] = row /\ \A x \in Ids \ {id} : files'[x] = files[x]
  BY <1>1, <1>3
<1>8. Tidy(id, row)
  <2>1. row # NoFile
    <3>1. Len(Append(s, v)) = Len(s) + 1
      BY <1>1, <1>5
    <3>2. NoFile.versions = <<>>
      BY Zenon DEF NoFile
    <3> QED BY <1>1, <1>4, <3>1, <3>2
  <2> QED BY <1>7, <2>1 DEF Library, Rows
<1>9. row.versions[Len(row.versions)].path = p
  BY <1>1, <1>4, <1>5
<1> HIDE DEF s
<1>10. PathsIn(row.versions) \subseteq PathsOf(id) \cup {p}
  BY <1>6
<1>11. /\ p \in DOMAIN disk' /\ disk'[p] = c
       /\ \A q \in DOMAIN disk' : q # p => q \in DOMAIN disk /\ disk'[q] = disk[q]
       /\ \A q \in DOMAIN disk : q \in DOMAIN disk'
  BY <1>3, WriteIs
<1>12. Versioned(id, c, p, row)
  BY <1>2, <1>4, <1>6, <1>7, <1>8, <1>9, <1>10, <1>11 DEF Versioned
<1> QED BY <1>12, VersionShown

(* The upload that is refused: files stay.                                 *)
LEMMA RefusedShows ==
  ASSUME Library, Bytes, Library', NEW n \in Names, NEW c \in Contents, Live(c),
         disk' = Written(RawPath(c, n), c), files' = files
  PROVE  /\ Elsewhere(c) /\ Bytes' /\ ContentsOf(c)' = ContentsOf(c)
         /\ ShownOf(c)' \in {ShownOf(c), {c}} /\ c \in ContentsOf(c) /\ ~Gone(c)'
<1> DEFINE p == RawPath(c, n)
<1>1. c \in Ids /\ files[c] # NoFile /\ c \in ContentsOf(c)
  BY DEF Ids, Live, Bytes, BytesOf
<1>2. p \in Paths /\ p.id = c /\ p.trash = FALSE
  BY <1>1, RawPathIsOwn, Zenon
<1>3. /\ p \in DOMAIN disk' /\ disk'[p] = c
      /\ \A q \in DOMAIN disk' : q # p => q \in DOMAIN disk /\ disk'[q] = disk[q]
      /\ \A q \in DOMAIN disk : q \in DOMAIN disk'
  BY WriteIs
<1>4. ContentsOf(c)' = ContentsOf(c) /\ PathsOf(c)' = PathsOf(c)
  BY DEF ContentsOf, PathsOf
<1> HIDE DEF p
<1>5. Elsewhere(c) /\ Bytes'
  <2>1. Filled(c, p)
    BY <1>1, <1>2, <1>3, <1>4 DEF Filled
  <2> QED BY <1>1, <2>1, OwnPathFilled
<1>6. Live(c)' /\ ~Gone(c)' /\ Current(c)' = Current(c)
  BY DEF Live, Gone, Current
<1>7. ShownOf(c)' \in {ShownOf(c), {c}}
  <2>1. CASE Current(c).path = p
    BY <1>3, <1>6, <2>1 DEF ShownOf, OnDisk
  <2>2. CASE Current(c).path # p
    BY <1>3, <1>6, <2>2 DEF ShownOf, OnDisk
  <2> QED BY <2>1, <2>2
<1> QED BY <1>1, <1>4, <1>5, <1>6, <1>7

(* The current version of id lies at p.                                    *)
Retold(id, p) ==
  /\ ContentsOf(id)' = ContentsOf(id) /\ PathsOf(id)' \subseteq PathsOf(id) \cup {p}
  /\ Current(id)'.path = p

LEMMA RepointedIs ==
  ASSUME Rows, NEW id \in Ids, files[id] # NoFile, NEW p \in Paths,
         files'[id].versions = Repointed(id, p), files'[id].deleted = FALSE
  PROVE  Retold(id, p) /\ Live(id)' /\ ~Gone(id)'
<1> DEFINE s == files[id].versions
           t == Repointed(id, p)
<1>1. s \in Seq(Versions) /\ Len(s) \in Nat \ {0}
  BY LibraryAssumption DEF Rows, Tidy, Row
<1>2. t = [s EXCEPT ![Len(s)].path = p]
  BY DEF Repointed
<1> HIDE DEF s
<1>3. ContentsIn(t) = ContentsIn(s) /\ PathsIn(t) \subseteq PathsIn(s) \cup {p}
  BY <1>1, <1>2, VersionsRepointed
<1>4. Len(t) = Len(s) /\ t[Len(t)].path = p
  <2>1. Len(s) \in DOMAIN s /\ s[Len(s)] \in Versions
    BY <1>1
  <2> QED BY <1>1, <1>2, <2>1 DEF Versions
<1> HIDE DEF t
<1>5. Retold(id, p)
  <2>1. files'[id].versions = t
    BY DEF t
  <2> QED BY <1>3, <1>4, <2>1 DEF Retold, ContentsOf, PathsOf, ContentsIn, PathsIn, Current, s
<1>6. files'[id] # NoFile
  <2>1. Len(t) # 0
    BY <1>1, <1>4
  <2>2. NoFile.versions = <<>>
    BY Zenon DEF NoFile
  <2> QED BY <2>1, <2>2 DEF t
<1> QED BY <1>5, <1>6 DEF Live, Gone

LEMMA DeleteHides ==
  ASSUME Library, Bytes, Library', NEW id \in Ids, SoftDelete(id)
  PROVE  /\ Elsewhere(id) /\ Bytes' /\ ContentsOf(id)' = ContentsOf(id)
         /\ ContentsOf(id) # {} /\ ~Gone(id) /\ Gone(id)' /\ ShownOf(id)' = {}
<1> DEFINE there == {p \in PathsOf(id) : OnDisk(p)}
           dest == {InTrash(p) : p \in there}
<1>1. files[id] \in Row /\ files[id] # NoFile /\ ~Gone(id) /\ files \in [Ids -> {NoFile} \cup Row]
  BY DEF Library, Rows, Tidy, SoftDelete, Live, Gone
<1>2. \A p \in there : p \in Paths /\ p.id = id /\ p.trash = FALSE /\ p \in DOMAIN disk
  BY <1>1, PathsAreOwn DEF Library, OnDisk
<1>3. disk' = [q \in (DOMAIN disk \ there) \cup dest |->
                 IF q \in dest THEN disk[OutOfTrash(q)] ELSE disk[q]]
  BY DEF SoftDelete
<1>4. /\ files'[id].versions = files[id].versions /\ files'[id].deleted = TRUE
      /\ \A x \in Ids \ {id} : files'[x] = files[x]
  BY <1>1 DEF SoftDelete, Row
<1>5. files'[id] # NoFile /\ Gone(id)' /\ ~Live(id)'
  <2>1. NoFile.deleted = FALSE
    BY Zenon DEF NoFile
  <2> QED BY <1>4, <2>1 DEF Gone, Live
<1>6. ContentsOf(id)' = ContentsOf(id) /\ PathsOf(id)' = PathsOf(id)
  BY <1>4 DEF ContentsOf, PathsOf
<1>7. ASSUME NEW q \in dest
      PROVE  /\ q.id = id /\ q \in Paths
             /\ q \in DOMAIN disk' /\ disk'[q] \in ContentsOf(id)
  <2>1. PICK p \in there : q = InTrash(p)
    OBVIOUS
  <2>2. q \in Paths /\ OutOfTrash(q) = p
    BY <1>2, <2>1, InTrashIsTyped
  <2>3. q.id = id
    BY <1>2, <2>1 DEF InTrash, Paths
  <2>4. p \in DOMAIN disk /\ p \in PathsOf(id)
    BY <1>2
  <2>5. disk[p] \in ContentsOf(id)
    BY <2>4 DEF Bytes, BytesOf
  <2>6. q \in DOMAIN disk' /\ disk'[q] = disk[OutOfTrash(q)]
    BY <1>3
  <2> QED BY <2>2, <2>3, <2>5, <2>6
<1>8. /\ \A q \in DOMAIN disk' \ dest : q \in DOMAIN disk /\ disk'[q] = disk[q]
      /\ \A q \in DOMAIN disk \ there : q \in DOMAIN disk'
  BY <1>3
<1> HIDE DEF there, dest
<1>9. ASSUME NEW x \in Ids \ {id} PROVE Same(x) /\ BytesOf(x)'
  <2>1. \A q \in Paths : q.id = x =>
          /\ q \in DOMAIN disk' <=> q \in DOMAIN disk
          /\ q \in DOMAIN disk => disk'[q] = disk[q]
    BY <1>2, <1>7, <1>8
  <2>2. Rows /\ DiskTypes /\ BytesOf(x) /\ files'[x] = files[x] /\ DOMAIN disk' \subseteq Paths
    BY <1>4 DEF Library, Bytes, DiskTypes
  <2> QED BY <2>1, <2>2, OthersAreSame
<1>10. BytesOf(id)'
  <2>1. BytesOf(id)
    BY DEF Bytes
  <2>2. ASSUME NEW q \in DOMAIN disk', Copy(q, id) \/ q \in PathsOf(id)
        PROVE  disk'[q] \in ContentsOf(id)
    BY <1>7, <1>8, <2>1, <2>2 DEF BytesOf
  <2> QED BY <1>1, <1>5, <1>6, <2>1, <2>2 DEF BytesOf, Copy
<1>11. ContentsOf(id) # {} /\ ShownOf(id)' = {}
  BY <1>1, <1>5, CurrentIsOf DEF Library, ShownOf
<1> QED BY <1>1, <1>5, <1>6, <1>9, <1>10, <1>11 DEF Elsewhere, Bytes

LEMMA RestoreShows ==
  ASSUME Library, Bytes, Library', NEW id \in Ids, RestoreFile(id)
  PROVE  /\ Elsewhere(id) /\ Bytes' /\ ContentsOf(id)' = ContentsOf(id)
         /\ Gone(id) /\ ~Gone(id)' /\ \E c \in ContentsOf(id) : ShownOf(id)' = {c}
<1>1. /\ Gone(id) /\ files[id] # NoFile /\ files[id] \in Row
      /\ files \in [Ids -> {NoFile} \cup Row] /\ BytesOf(id)
  BY DEF Library, Rows, Tidy, RestoreFile, Gone, Bytes
<1>2. CASE OnDisk(Current(id).path)
  <2>1. /\ disk' = disk /\ files'[id].versions = files[id].versions
        /\ files'[id].deleted = FALSE /\ \A x \in Ids \ {id} : files'[x] = files[x]
    BY <1>1, <1>2 DEF RestoreFile, Row
  <2>2. /\ ContentsOf(id)' = ContentsOf(id) /\ PathsOf(id)' = PathsOf(id)
        /\ Current(id)' = Current(id)
    BY <2>1 DEF ContentsOf, PathsOf, Current
  <2>3. Current(id).path \in DOMAIN disk /\ Current(id).path \in PathsOf(id)
    BY <1>1, <1>2, CurrentIsOf DEF Library, OnDisk
  <2>4. disk[Current(id).path] \in ContentsOf(id)
    BY <1>1, <2>3 DEF BytesOf
  <2>5. files'[id] # NoFile
    <3>1. files[id].versions # <<>>
      BY <1>1 DEF Library, Rows, Tidy
    <3>2. NoFile.versions = <<>>
      BY Zenon DEF NoFile
    <3> QED BY <2>1, <3>1, <3>2
  <2>6. ~Gone(id)' /\ Live(id)'
    BY <2>1, <2>5 DEF Gone, Live
  <2>7. ShownOf(id)' = {disk[Current(id).path]}
    BY <1>2, <2>1, <2>2, <2>6 DEF ShownOf, OnDisk
  <2>8. ASSUME NEW x \in Ids \ {id} PROVE Same(x) /\ BytesOf(x)'
    BY <2>1, OthersAreSame DEF Library, DiskTypes, Bytes
  <2>9. BytesOf(id)'
    BY <1>1, <2>1, <2>2, <2>5 DEF BytesOf, Copy
  <2> QED BY <1>1, <2>2, <2>4, <2>6, <2>7, <2>8, <2>9 DEF Elsewhere, Bytes
<1>3. CASE ~OnDisk(Current(id).path)
  <2>1. PICK p \in DOMAIN disk :
          /\ p.trash /\ p.id = id /\ p.ver = 0
          /\ disk' = Moved(p, OutOfTrash(p), disk)
          /\ files' = [files EXCEPT ![id].deleted = FALSE,
                         ![id].versions = Repointed(id, OutOfTrash(p))]
    BY <1>3 DEF RestoreFile
  <2> DEFINE q == OutOfTrash(p)
             t == Repointed(id, q)
  <2>2. p \in Paths
    BY DEF Library, DiskTypes
  <2>3. q \in Paths /\ q.id = id /\ q.trash = FALSE /\ q.ver = 0
    BY <2>1, <2>2, OutOfTrashIsTyped
  <2>4. /\ files'[id].versions = t /\ files'[id].deleted = FALSE
        /\ \A x \in Ids \ {id} : files'[x] = files[x]
    BY <1>1, <2>1 DEF Row
  <2>5. disk' = Moved(p, q, disk)
    BY <2>1
  <2> HIDE DEF q
  <2>6. disk[p] \in ContentsOf(id)
    BY <1>1, <2>1 DEF BytesOf, Copy
  <2>7. Retold(id, q) /\ Live(id)' /\ ~Gone(id)'
    BY <1>1, <2>3, <2>4, RepointedIs DEF Library
  <2>8. /\ q \in DOMAIN disk' /\ disk'[q] = disk[p]
        /\ \A r \in DOMAIN disk' : r # q => r \in DOMAIN disk /\ disk'[r] = disk[r]
        /\ \A r \in DOMAIN disk : r.id # id => r \in DOMAIN disk'
    BY <2>1, <2>5, MoveIs
  <2>9. Elsewhere(id) /\ Bytes'
    <3>1. Filled(id, q)
      BY <1>1, <2>3, <2>4, <2>6, <2>7, <2>8 DEF Filled, Retold, Live
    <3> QED BY <3>1, OwnPathFilled
  <2>10. ShownOf(id)' = {disk[p]}
    BY <2>7, <2>8 DEF ShownOf, Retold, OnDisk
  <2> QED BY <1>1, <2>6, <2>7, <2>9, <2>10 DEF Retold
<1> QED BY <1>2, <1>3

LEMMA RenameShows ==
  ASSUME Library, Bytes, Library', NEW id \in Ids, NEW n \in Names, RenameFile(id, n)
  PROVE  /\ Elsewhere(id) /\ Bytes' /\ ContentsOf(id)' = ContentsOf(id)
         /\ ~Gone(id) /\ ~Gone(id)'
         /\ \/ ShownOf(id)' = ShownOf(id) /\ torn' = torn
            \/ ShownOf(id)' = {} /\ torn' = torn \cup {id}
<1> DEFINE old == Current(id).path
           new == RawPath(id, n)
           p == IF OnDisk(old) THEN new ELSE old
<1>1. /\ Live(id) /\ ~Gone(id) /\ files[id] # NoFile /\ files[id] \in Row
      /\ files[id].deleted = FALSE
      /\ files \in [Ids -> {NoFile} \cup Row] /\ BytesOf(id)
  BY DEF Library, Rows, Tidy, Row, RenameFile, Live, Gone, Bytes
<1>2. old \in Paths /\ old.id = id /\ old.trash = FALSE /\ old \in PathsOf(id)
  BY <1>1, CurrentIsOwn, CurrentIsOf DEF Library
<1>3. new \in Paths /\ new.id = id /\ new.trash = FALSE /\ new.ver = 0
  <2> HIDE DEF p
  <2> QED BY RawPathIsOwn, ZenonT(60)
<1>4. disk' = IF OnDisk(old) THEN Moved(old, new, disk) ELSE disk
  BY DEF RenameFile
<1>5. \/ files' = files /\ torn' = IF OnDisk(old) /\ new # old THEN torn \cup {id} ELSE torn
      \/ /\ files'[id].versions = Repointed(id, p) /\ files'[id].deleted = FALSE
         /\ \A x \in Ids \ {id} : files'[x] = files[x]
         /\ torn' = torn
  BY <1>1 DEF RenameFile, Row
<1> HIDE DEF old, new
<1>6. p \in Paths /\ p.id = id /\ p.trash = FALSE
  BY <1>2, <1>3
<1>7. /\ Live(id)' /\ ~Gone(id)' /\ files'[id] # NoFile
      /\ ContentsOf(id)' = ContentsOf(id)
      /\ PathsOf(id)' \subseteq PathsOf(id) \cup {p}
      /\ \/ Current(id)'.path = p /\ torn' = torn
         \/ /\ Current(id)'.path = old
            /\ torn' = IF OnDisk(old) /\ new # old THEN torn \cup {id} ELSE torn
      /\ \A x \in Ids \ {id} : files'[x] = files[x]
  <2>1. CASE /\ files' = files
             /\ torn' = IF OnDisk(old) /\ new # old THEN torn \cup {id} ELSE torn
    <3>1. Current(id)'.path = old
      BY <2>1 DEF Current, old
    <3> QED BY <1>1, <2>1, <3>1 DEF Live, Gone, ContentsOf, PathsOf, Current, old
  <2>2. CASE /\ files'[id].versions = Repointed(id, p) /\ files'[id].deleted = FALSE
             /\ \A x \in Ids \ {id} : files'[x] = files[x]
             /\ torn' = torn
    <3>1. Retold(id, p) /\ Live(id)' /\ ~Gone(id)'
      <4> HIDE DEF p
      <4> QED BY <1>1, <1>6, <2>2, RepointedIs DEF Library
    <3> QED BY <2>2, <3>1 DEF Retold, Live
  <2> QED BY <1>5, <2>1, <2>2
<1>8. CASE OnDisk(old)
  <2>1. old \in DOMAIN disk /\ disk[old] \in ContentsOf(id) /\ ShownOf(id) = {disk[old]}
    BY <1>1, <1>2, <1>8 DEF BytesOf, OnDisk, ShownOf, old
  <2>2. /\ new \in DOMAIN disk' /\ disk'[new] = disk[old]
        /\ \A r \in DOMAIN disk' : r # new => r \in DOMAIN disk /\ disk'[r] = disk[r]
        /\ \A r \in DOMAIN disk : r # old => r \in DOMAIN disk'
        /\ old # new => old \notin DOMAIN disk'
    BY <1>4, <1>8, <2>1, MoveIs
  <2>3. p = new
    BY <1>8
  <2> HIDE DEF p
  <2>4. Elsewhere(id) /\ Bytes'
    <3>1. \A r \in DOMAIN disk : r.id # id => r \in DOMAIN disk'
      BY <1>2, <2>2
    <3>2. disk'[new] \in ContentsOf(id)' /\ ContentsOf(id) \subseteq ContentsOf(id)'
      BY <1>7, <2>1, <2>2
    <3>3. PathsOf(id)' \subseteq PathsOf(id) \cup {new}
      BY <1>7, <2>3
    <3>4. /\ files'[id] # NoFile /\ \A x \in Ids \ {id} : files'[x] = files[x]
          /\ id \in Contents /\ files[id] = NoFile => id \in ContentsOf(id)'
      BY <1>1, <1>7
    <3>5. Filled(id, new)
      BY <1>3, <2>2, <3>1, <3>2, <3>3, <3>4 DEF Filled
    <3> QED BY <3>5, OwnPathFilled
  <2>5. CASE Current(id)'.path = new /\ torn' = torn
    <3>1. ShownOf(id)' = ShownOf(id)
      BY <1>7, <2>1, <2>2, <2>5 DEF ShownOf, OnDisk
    <3> QED BY <1>1, <1>7, <2>4, <2>5, <3>1
  <2>6. CASE Current(id)'.path = old /\ new # old /\ torn' = torn \cup {id}
    <3>1. ShownOf(id)' = {}
      BY <1>7, <2>1, <2>2, <2>6 DEF ShownOf, OnDisk
    <3> QED BY <1>1, <1>7, <2>4, <2>6, <3>1
  <2> QED BY <1>7, <1>8, <2>3, <2>5, <2>6
<1>9. CASE ~OnDisk(old)
  <2>1. disk' = disk /\ p = old /\ old \notin DOMAIN disk
    BY <1>4, <1>9 DEF OnDisk
  <2> HIDE DEF p
  <2>2. ShownOf(id)' = {} /\ ShownOf(id) = {} /\ torn' = torn
    BY <1>7, <1>9, <2>1 DEF ShownOf, OnDisk, old
  <2>3. ASSUME NEW x \in Ids \ {id} PROVE Same(x) /\ BytesOf(x)'
    BY <1>7, <2>1, OthersAreSame DEF Library, DiskTypes, Bytes
  <2>4. BytesOf(id)'
    BY <1>1, <1>7, <2>1 DEF BytesOf, Copy
  <2> QED BY <1>1, <1>7, <2>2, <2>3, <2>4 DEF Elsewhere, Bytes
<1> QED BY <1>8, <1>9

(* Rows go, with their copies in the trash.                                *)
LEMMA PurgeEmpties ==
  ASSUME Library, Bytes, Library', NEW S \in SUBSET Ids, \A x \in S : Gone(x), Forget(S),
         NEW T, disk' = Restrict(disk, DOMAIN disk \ T),
         \A q \in T : q \in Paths => q.id \in S,
         \A q \in DOMAIN disk : (\E x \in S : Copy(q, x)) => q \in T
  PROVE  /\ \A x \in Ids \ S : Same(x)
         /\ \A x \in S : ContentsOf(x)' = {} /\ ShownOf(x)' = ShownOf(x) /\ ~Gone(x)'
         /\ Bytes'
<1>1. /\ \A x \in S : files'[x] = NoFile
      /\ \A x \in Ids \ S : files'[x] = files[x]
  BY DEF Forget
<1>2. DOMAIN disk' = DOMAIN disk \ T /\ \A q \in DOMAIN disk' : disk'[q] = disk[q]
  BY DEF Restrict
<1>3. ASSUME NEW x \in Ids \ S PROVE Same(x) /\ BytesOf(x)'
  <2>1. \A q \in Paths : q.id = x =>
          /\ q \in DOMAIN disk' <=> q \in DOMAIN disk
          /\ q \in DOMAIN disk => disk'[q] = disk[q]
    BY <1>2
  <2>2. Rows /\ DiskTypes /\ BytesOf(x) /\ files'[x] = files[x] /\ DOMAIN disk' \subseteq Paths
    BY <1>1, <1>2 DEF Library, Bytes, DiskTypes
  <2> QED BY <2>1, <2>2, OthersAreSame
<1>4. ASSUME NEW x \in S
      PROVE  /\ ContentsOf(x)' = {} /\ ShownOf(x)' = ShownOf(x) /\ ~Gone(x)'
             /\ BytesOf(x)'
  <2>1. Gone(x) /\ ~Gone(x)' /\ ~Live(x)' /\ ~Live(x) /\ files'[x] = NoFile
    BY <1>1 DEF Gone, Live
  <2>2. ContentsOf(x)' = {} /\ PathsOf(x)' = {}
    <3>1. NoFile.versions = <<>>
      BY Zenon DEF NoFile
    <3> QED BY <2>1, <3>1, NoVersions DEF ContentsOf, PathsOf
  <2>3. ShownOf(x)' = ShownOf(x)
    BY <2>1 DEF ShownOf
  <2>4. \A q \in DOMAIN disk' : ~Copy(q, x)
    BY <1>2
  <2> QED BY <2>1, <2>2, <2>3, <2>4 DEF BytesOf, Copy
<1> QED BY <1>3, <1>4 DEF Bytes

-----------------------------------------------------------------------------
(* The shelf: every step of the library is one of Shelf.                   *)

LEMMA ShelfSame ==
  ASSUME \A x \in Ids : Same(x), UNCHANGED torn
  PROVE  UNCHANGED Shelf!vars
  BY DEF Shelf!vars, Same

LEMMA ShelfOnly ==
  ASSUME NEW id \in Ids, Elsewhere(id)
  PROVE  Shelf!Only(id)
  BY DEF Shelf!Only, Elsewhere, Same

LEMMA UploadOnShelf ==
  ASSUME Library, Bytes, Library', NEW n \in Names, NEW c \in Contents, Upload(n, c)
  PROVE  Bytes' /\ (Shelf!Next \/ UNCHANGED Shelf!vars)
<1>1. c \in Ids /\ Spare \subseteq Ids
  BY DEF Ids
<1>2. ASSUME NEW id \in Ids, Elsewhere(id), ContentsOf(id)' = ContentsOf(id) \cup {c},
             ShownOf(id)' = {c}, ~Gone(id)', UNCHANGED torn
      PROVE  Shelf!Next
  <2>1. Shelf!Put(id, c)
    BY <1>2, ShelfOnly DEF Shelf!Put
  <2> QED BY <2>1 DEF Shelf!Next
<1>3. ASSUME NEW id \in Ids, files[id] # NoFile, Revive(id, n, c)
      PROVE  Bytes' /\ Shelf!Next
  BY <1>2, <1>3, ReviveShows DEF Revive
<1>4. CASE files[c] = NoFile /\ Record(c, n, c)
  BY <1>1, <1>2, <1>4, RecordShows DEF Record, Live
<1>5. ASSUME NEW s \in Spare, files[s] = NoFile, Record(s, n, c), Gone(c)
      PROVE  Bytes' /\ Shelf!Next
  <2>1. s \in Ids /\ s \notin Contents
    BY <1>1, LibraryAssumption
  <2> QED BY <1>2, <1>5, <2>1, RecordShows DEF Record, Live, Gone
<1>6. CASE Live(c) /\ disk' = Written(RawPath(c, n), c) /\ UNCHANGED <<files, torn>>
  <2>1. /\ Elsewhere(c) /\ Bytes' /\ ContentsOf(c)' = ContentsOf(c)
        /\ ShownOf(c)' \in {ShownOf(c), {c}} /\ c \in ContentsOf(c) /\ ~Gone(c)'
    BY <1>6, RefusedShows
  <2>2. ~Gone(c)
    BY <1>6 DEF Live, Gone
  <2>3. CASE ShownOf(c)' = {c}
    <3>1. Shelf!PutAgain(c)
      BY <1>1, <1>6, <2>1, <2>2, <2>3, ShelfOnly DEF Shelf!PutAgain
    <3> QED BY <1>1, <2>1, <3>1 DEF Shelf!Next
  <2>4. CASE ShownOf(c)' = ShownOf(c)
    BY <1>6, <2>1, <2>2, <2>4, ShelfSame DEF Elsewhere, Same
  <2> QED BY <2>1, <2>3, <2>4
<1> QED BY <1>3, <1>4, <1>5, <1>6 DEF Upload

LEMMA PurgeOnShelf ==
  ASSUME Library, Bytes, Library', NEW S \in SUBSET Ids, \A x \in S : Gone(x), Forget(S),
         NEW T, disk' = Restrict(disk, DOMAIN disk \ T),
         \A q \in T : q \in Paths => q.id \in S,
         \A q \in DOMAIN disk : (\E x \in S : Copy(q, x)) => q \in T
  PROVE  Bytes' /\ Shelf!Next
<1>1. /\ \A x \in Ids \ S : Same(x)
      /\ \A x \in S : ContentsOf(x)' = {} /\ ShownOf(x)' = ShownOf(x) /\ ~Gone(x)'
      /\ Bytes'
  BY PurgeEmpties
<1>2. torn' = torn \ S
  BY DEF Forget
<1>3. S = {x \in Ids : Gone(x)} \ {x \in Ids : Gone(x)}'
  BY <1>1 DEF Same
<1>4. Shelf!Purge
  BY <1>1, <1>2, <1>3 DEF Shelf!Purge, Same
<1> QED BY <1>1, <1>4 DEF Shelf!Next

LEMMA ShelfStep ==
  Library /\ Bytes /\ Library' /\ [LibNext]_libVars => Bytes' /\ [Shelf!Next]_(Shelf!vars)
<1> SUFFICES ASSUME Library, Bytes, Library', [LibNext]_libVars
             PROVE  Bytes' /\ (Shelf!Next \/ UNCHANGED Shelf!vars)
  OBVIOUS
<1>1. ASSUME NEW n \in Names, NEW c \in Contents, Upload(n, c)
      PROVE  Bytes' /\ (Shelf!Next \/ UNCHANGED Shelf!vars)
  BY <1>1, UploadOnShelf
<1>2. ASSUME NEW id \in Ids, SoftDelete(id) PROVE Bytes' /\ Shelf!Next
  <2>1. Bytes' /\ Shelf!Hide(id)
    BY <1>2, DeleteHides, ShelfOnly DEF Shelf!Hide, SoftDelete
  <2> QED BY <2>1 DEF Shelf!Next
<1>3. ASSUME NEW id \in Ids, RestoreFile(id) PROVE Bytes' /\ Shelf!Next
  <2>1. Bytes' /\ Shelf!Return(id)
    BY <1>3, RestoreShows, ShelfOnly DEF Shelf!Return, RestoreFile
  <2> QED BY <2>1 DEF Shelf!Next
<1>4. ASSUME NEW id \in Ids, PurgeFile(id) PROVE Bytes' /\ Shelf!Next
  <2> DEFINE T == PathsOf(id) \cup TrashOf(id)
  <2>1. Gone(id) /\ files[id] # NoFile
    BY <1>4 DEF PurgeFile, Gone
  <2>2. \A q \in T : q \in Paths => q.id \in {id}
    BY <2>1, PathsAreOwn DEF Library, TrashOf
  <2>3. \A q \in DOMAIN disk : (\E x \in {id} : Copy(q, x)) => q \in T
    BY DEF TrashOf, Copy
  <2>4. Forget({id}) /\ {id} \in SUBSET Ids /\ disk' = Restrict(disk, DOMAIN disk \ T)
    BY <1>4 DEF PurgeFile
  <2> HIDE DEF T
  <2> QED BY <2>1, <2>2, <2>3, <2>4, PurgeOnShelf
<1>5. ASSUME NEW ids \in SUBSET Ids, PurgeTrash(ids) PROVE Bytes' /\ Shelf!Next
  <2> DEFINE T == UNION {TrashOf(id) : id \in ids}
  <2>1. \A q \in T : q \in Paths => q.id \in ids
    BY DEF TrashOf
  <2>2. \A q \in DOMAIN disk : (\E x \in ids : Copy(q, x)) => q \in T
    BY DEF TrashOf, Copy
  <2>3. Forget(ids) /\ disk' = Restrict(disk, DOMAIN disk \ T) /\ \A x \in ids : Gone(x)
    BY <1>5 DEF PurgeTrash
  <2> HIDE DEF T
  <2> QED BY <2>1, <2>2, <2>3, PurgeOnShelf
<1>6. ASSUME NEW id \in Ids, NEW n \in Names, RenameFile(id, n)
      PROVE  Bytes' /\ (Shelf!Next \/ UNCHANGED Shelf!vars)
  <2>1. /\ Elsewhere(id) /\ Bytes' /\ ContentsOf(id)' = ContentsOf(id)
        /\ ~Gone(id) /\ ~Gone(id)'
        /\ \/ ShownOf(id)' = ShownOf(id) /\ torn' = torn
           \/ ShownOf(id)' = {} /\ torn' = torn \cup {id}
    BY <1>6, RenameShows
  <2>2. CASE ShownOf(id)' = ShownOf(id) /\ torn' = torn
    BY <2>1, <2>2, ShelfSame DEF Elsewhere, Same
  <2>3. CASE ShownOf(id)' = {} /\ torn' = torn \cup {id}
    <3>1. Shelf!Lose(id)
      BY <2>1, <2>3, ShelfOnly DEF Shelf!Lose
    <3> QED BY <2>1, <3>1 DEF Shelf!Next
  <2> QED BY <2>1, <2>2, <2>3
<1>7. CASE UNCHANGED libVars
  <2>1. UNCHANGED <<files, disk, torn>>
    BY <1>7 DEF libVars
  <2>2. \A x \in Ids : Same(x) /\ BytesOf(x)'
    BY <2>1, OthersAreSame DEF Library, DiskTypes, Bytes
  <2> QED BY <2>1, <2>2, ShelfSame DEF Bytes
<1> QED BY <1>1, <1>2, <1>3, <1>4, <1>5, <1>6, <1>7 DEF LibNext

LEMMA ShelfInit == LibInit => Bytes /\ Shelf!Init
<1> SUFFICES ASSUME LibInit PROVE Bytes /\ Shelf!Init
  OBVIOUS
<1>1. \A id \in Ids : files[id] = NoFile /\ ContentsOf(id) = {}
  BY OfNoFile DEF LibInit
<1>2. \A id \in Ids : ~Live(id) /\ ~Gone(id) /\ ShownOf(id) = {}
  BY <1>1 DEF Live, Gone, ShownOf
<1>3. DOMAIN disk = {}
  BY DEF LibInit
<1>4. Bytes
  BY <1>1, <1>3 DEF Bytes, BytesOf
<1> QED BY <1>1, <1>2, <1>4 DEF Shelf!Init, LibInit

(* The library implements Shelf (file_library.py), whatever is uploaded,   *)
(* deleted, restored, purged and renamed, in any order: a file shows only  *)
(* bytes of its own and of this life, and no operation on one file changes *)
(* what another shows.                                                     *)
THEOREM LibraryIsShelf == LibSpec => OnShelf
<1>1. Library /\ Bytes /\ [LibNext]_libVars => Library' /\ Bytes' /\ [Shelf!Next]_(Shelf!vars)
  BY LibraryStep, ShelfStep
<1> QED BY <1>1, LibraryInit, ShelfInit, PTL DEF LibSpec, OnShelf, Shelf!Spec

LEMMA StaysReadable == Shelf!Readable /\ [Shelf!Next]_(Shelf!vars) => Shelf!Readable'
<1> SUFFICES ASSUME Shelf!Readable, Shelf!Next \/ UNCHANGED Shelf!vars
             PROVE  Shelf!Readable'
  OBVIOUS
<1>1. CASE Shelf!Purge
  BY <1>1 DEF Shelf!Purge, Shelf!Readable
<1>2. ASSUME NEW id \in Ids, Shelf!Only(id), torn \subseteq torn',
             ShownOf(id)' # {} \/ Gone(id)' \/ id \in torn'
      PROVE  Shelf!Readable'
  BY <1>2 DEF Shelf!Only, Shelf!Readable
<1>3. ASSUME NEW id \in Ids, NEW c \in Contents, Shelf!Put(id, c) PROVE Shelf!Readable'
  BY <1>2, <1>3 DEF Shelf!Put
<1>4. ASSUME NEW id \in Ids,
             Shelf!PutAgain(id) \/ Shelf!Hide(id) \/ Shelf!Return(id) \/ Shelf!Lose(id)
      PROVE  Shelf!Readable'
  BY <1>2, <1>4 DEF Shelf!PutAgain, Shelf!Hide, Shelf!Return, Shelf!Lose
<1>5. CASE UNCHANGED Shelf!vars
  BY <1>5 DEF Shelf!vars, Shelf!Readable
<1> QED BY <1>1, <1>3, <1>4, <1>5 DEF Shelf!Next

(* What Shelf alone says of a file that is there: it can be read, unless it*)
(* is in the trash or a refused rename has moved its bytes                 *)
(* (file_library.py rename_file).                                          *)
THEOREM ShelfIsReadable == OnShelf => []Shelf!Readable
<1>1. Shelf!Init => Shelf!Readable
  BY DEF Shelf!Init, Shelf!Readable
<1> QED BY <1>1, StaysReadable, PTL DEF OnShelf, Shelf!Spec

-----------------------------------------------------------------------------
(* QaFiles: CacheIsFile, ListsWhatIs.                                     *)

(* Full writes have the stamp "filled"; a stat of a full file is no later. *)
Stamps ==
  /\ clock \in Nat /\ filled \in Nat /\ filled <= clock
  /\ file.stat.size = "full" => file.stat.time \in Nat /\ file.stat.time <= filled
  /\ file.is = "whole" => file.stat.size = "full"

StatFits(s) == s.size = "full" => s.time \in Nat /\ s.time <= filled

Fits(e) ==
  e # NoEntry =>
    /\ StatFits(e.stat)
    /\ file.is = "whole" /\ e.stat = file.stat => e.record = file.record

(* What a request carries is old, or what the file holds.                  *)
StateFits(x) ==
  /\ x.at = "list" => Fits(x.known)
  /\ x.at = "read" => StatFits(x.stat)
  /\ x.at = "publish" => Fits(x.got)
  /\ x.at = "open" => "at" \in DOMAIN x

Held ==
  /\ thread = [t \in Threads |-> thread[t]]
  /\ Fits(cache) /\ \A t \in Threads : StateFits(thread[t])

(* A full write that the stamps tell apart makes every stat that is held   *)
(* an old one.                                                             *)
LEMMA TouchKeeps ==
  ASSUME Stamps, NEW is, NEW record, NEW size, Touches(is, record, size),
         is = "whole" => size = "full"
  PROVE  /\ Stamps'
         /\ \A s : StatFits(s) => StatFits(s)'
         /\ ~coarse' => \A e : Fits(e) => Fits(e)'
<1>1. PICK now \in {clock, clock + 1} \ {0} :
        /\ clock' = now
        /\ filled' = IF size = "full" THEN now ELSE filled
        /\ coarse' = (coarse \/ (size = "full" /\ now = filled))
        /\ file' = [is |-> is, record |-> record, stat |-> [time |-> now, size |-> size]]
  BY DEF Touches
<1>2. /\ file'.is = is /\ file'.record = record
      /\ file'.stat.time = now /\ file'.stat.size = size
  BY <1>1
<1>3. now \in Nat /\ clock <= now /\ filled <= now /\ filled \in Nat
  BY <1>1 DEF Stamps
<1>4. filled' \in Nat /\ filled <= filled' /\ filled' <= now
  BY <1>1, <1>3
<1>5. Stamps'
  BY <1>1, <1>2, <1>3, <1>4 DEF Stamps
<1>6. ASSUME NEW s, StatFits(s) PROVE StatFits(s)'
  BY <1>3, <1>4, <1>6 DEF StatFits
<1>7. ASSUME ~coarse', NEW e, Fits(e) PROVE Fits(e)'
  <2> SUFFICES ASSUME e # NoEntry, is = "whole", e.stat = file'.stat PROVE FALSE
    BY <1>2, <1>6, <1>7 DEF Fits
  <2>1. size = "full" /\ now # filled
    BY <1>1, <1>7
  <2>2. e.stat.size = "full" /\ e.stat.time = now
    BY <1>2, <2>1
  <2>3. now <= filled
    BY <1>7, <2>2 DEF Fits, StatFits
  <2> QED BY <1>3, <2>1, <2>3
<1> QED BY <1>5, <1>6, <1>7

LEMMA ThreadMoves ==
  ASSUME Held, NEW t \in Threads, NEW state, Moves(t, state), StateFits(state)',
         Fits(cache)', \A x : StateFits(x) => StateFits(x)'
  PROVE  Held'
<1>1. thread' = [thread EXCEPT ![t] = state]
  BY DEF Moves
<1>2. thread' = [u \in Threads |-> thread'[u]]
  BY <1>1 DEF Held
<1>3. ASSUME NEW u \in Threads PROVE StateFits(thread[u])'
  <2>1. thread'[u] = IF u = t THEN state ELSE thread[u]
    BY <1>1 DEF Held
  <2>2. StateFits(thread[u])
    BY DEF Held
  <2>3. CASE u = t
    BY <2>1, <2>3 DEF StateFits, Fits, StatFits
  <2>4. CASE u # t
    BY <2>1, <2>2, <2>4 DEF StateFits, Fits, StatFits
  <2> QED BY <2>3, <2>4
<1> QED BY <1>2, <1>3 DEF Held

LEMMA SameFile ==
  ASSUME UNCHANGED <<file, filled>>
  PROVE  /\ \A e : Fits(e) => Fits(e)'
         /\ \A s : StatFits(s) => StatFits(s)'
         /\ \A x : StateFits(x) => StateFits(x)'
  BY DEF StateFits, Fits, StatFits

PairFile == Stamps /\ (~coarse => Held)

(* Steps of a request that write nothing.                                  *)
LEMMA ReadsKeep ==
  ASSUME Held, NEW t \in Threads, UNCHANGED <<file, filled>>,
         \/ ListBegins(t) \/ ListStats(t) \/ Skips(t) \/ ListReads(t) \/ Asks(t)
         \/ UpdateReads(t),
         Stamps
  PROVE  Held'
<1>1. Fits(cache)' /\ \A x : StateFits(x) => StateFits(x)'
  BY SameFile DEF Held, ListBegins, ListStats, Skips, ListReads, Asks, UpdateReads
<1>2. StateFits(thread[t]) /\ Fits(cache)
  BY DEF Held
<1> SUFFICES \E state : Moves(t, state) /\ StateFits(state)
  BY <1>1, ThreadMoves
<1>3. CASE ListBegins(t)
  <2>1. PICK why \in {"view", "dedupe", "reset"} :
          Moves(t, [at |-> "list", why |-> why, known |-> cache])
    BY <1>3 DEF ListBegins
  <2>2. StateFits([at |-> "list", why |-> why, known |-> cache])
    BY <1>2 DEF StateFits
  <2> QED BY <2>1, <2>2
<1>4. CASE ListStats(t)
  <2>1. CASE Holds(thread[t].known)
    <3>1. Moves(t, [at |-> "publish", why |-> thread[t].why, got |-> thread[t].known])
      BY <1>4, <2>1 DEF ListStats
    <3>2. StateFits([at |-> "publish", why |-> thread[t].why, got |-> thread[t].known])
      BY <1>2, <1>4 DEF StateFits, ListStats
    <3> QED BY <3>1, <3>2
  <2>2. CASE ~Holds(thread[t].known)
    <3>1. Moves(t, [at |-> "read", why |-> thread[t].why, stat |-> file.stat])
      BY <1>4, <2>2 DEF ListStats
    <3>2. StateFits([at |-> "read", why |-> thread[t].why, stat |-> file.stat])
      BY DEF StateFits, StatFits, Stamps
    <3> QED BY <3>1, <3>2
  <2> QED BY <2>1, <2>2
<1>5. CASE Skips(t)
  <2>1. Moves(t, [at |-> "publish", why |-> thread[t].why, got |-> NoEntry])
    BY <1>5 DEF Skips
  <2>2. StateFits([at |-> "publish", why |-> thread[t].why, got |-> NoEntry])
    BY DEF StateFits, Fits
  <2> QED BY <2>1, <2>2
<1>6. CASE ListReads(t)
  <2> DEFINE e == [record |-> file.record, stat |-> thread[t].stat]
             state == [at |-> "publish", why |-> thread[t].why, got |-> e]
  <2>1. Moves(t, state)
    BY <1>6 DEF ListReads
  <2>2. StatFits(e.stat) /\ e.record = file.record
    BY <1>2, <1>6 DEF StateFits, ListReads
  <2>3. Fits(e)
    BY <2>2 DEF Fits
  <2> HIDE DEF e
  <2>4. StateFits(state)
    BY <2>3 DEF StateFits
  <2> QED BY <2>1, <2>4
<1>7. CASE Asks(t)
  <2>1. PICK what \in Reviews : Moves(t, [at |-> "update", set |-> what])
    BY <1>7 DEF Asks
  <2>2. StateFits([at |-> "update", set |-> what])
    BY DEF StateFits
  <2> QED BY <2>1, <2>2
<1>8. CASE UpdateReads(t)
  <2> DEFINE opens == [at |-> "open", record |-> Changed(file.record, thread[t].set)]
  <2>1. Moves(t, IF file.is = "whole" THEN opens ELSE Idle)
    BY <1>8 DEF UpdateReads
  <2>2. StateFits(opens)
    BY DEF StateFits
  <2>3. StateFits(Idle)
    BY DEF StateFits, Idle
  <2> QED BY <2>1, <2>2, <2>3
<1> QED BY <1>3, <1>4, <1>5, <1>6, <1>7, <1>8

LEMMA PublishKeeps ==
  ASSUME Held, NEW t \in Threads, ListPublishes(t)
  PROVE  Held'
<1>1. UNCHANGED <<file, filled>> /\ cache' = thread[t].got
  BY DEF ListPublishes
<1>2. Fits(cache)'
  <2>1. Fits(thread[t].got)
    BY DEF Held, StateFits, ListPublishes
  <2> QED BY <1>1, <2>1 DEF Fits, StatFits
<1>3. StateFits([at |-> "unlink"]) /\ StateFits(Idle)
  BY DEF StateFits, Idle
<1>4. StateFits([at |-> "update", set |-> "rejected"])
  BY DEF StateFits
<1>5. \E state : Moves(t, state) /\ StateFits(state)
  <2> DEFINE pending == thread[t].got # NoEntry /\ thread[t].got.record.verdict = "pending"
             state == CASE pending /\ thread[t].why = "reset" -> [at |-> "unlink"]
                        [] pending /\ thread[t].why = "dedupe" ->
                             [at |-> "update", set |-> "rejected"]
                        [] OTHER -> Idle
  <2>1. Moves(t, state)
    BY DEF ListPublishes
  <2>2. state \in {[at |-> "unlink"], [at |-> "update", set |-> "rejected"], Idle}
    OBVIOUS
  <2>3. StateFits(state)
    BY <1>3, <1>4, <2>2
  <2> QED BY <2>1, <2>3
<1> QED BY <1>1, <1>2, <1>5, SameFile, ThreadMoves

LEMMA PairStep == PairFile /\ [QaNext]_qaVars => PairFile'
<1> SUFFICES ASSUME PairFile, [QaNext]_qaVars PROVE PairFile'
  OBVIOUS
<1>0. Stamps
  BY DEF PairFile
<1>1. CASE MinerOpens \/ MinerWrites
  <2>1. PICK is \in {"mining", "whole"}, size \in {"none", "full"} :
          Touches(is, Fresh, size) /\ (is = "whole" => size = "full")
    BY <1>1 DEF MinerOpens, MinerWrites
  <2>2. /\ Stamps' /\ \A s : StatFits(s) => StatFits(s)'
        /\ ~coarse' => \A e : Fits(e) => Fits(e)'
    BY <1>0, <2>1, TouchKeeps
  <2>3. ASSUME ~coarse' PROVE Held'
    <3>1. ~coarse /\ UNCHANGED <<cache, thread>>
      BY <1>1, <2>3 DEF MinerOpens, MinerWrites, Touches
    <3>2. Held /\ \A e : Fits(e) => Fits(e)'
      BY <2>2, <2>3, <3>1 DEF PairFile
    <3>3. \A x : StateFits(x) => StateFits(x)'
      BY <2>2, <3>2 DEF StateFits
    <3> QED BY <3>1, <3>2, <3>3 DEF Held, Fits, StateFits, StatFits
  <2> QED BY <2>2, <2>3 DEF PairFile
<1>2. ASSUME NEW t \in Threads,
             \/ ListBegins(t) \/ ListStats(t) \/ Skips(t) \/ ListReads(t) \/ Asks(t)
             \/ UpdateReads(t)
      PROVE  PairFile'
  <2>1. UNCHANGED <<file, clock, filled, coarse>>
    BY <1>2 DEF ListBegins, ListStats, Skips, ListReads, Asks, UpdateReads
  <2>2. Stamps'
    BY <1>0, <2>1 DEF Stamps
  <2>3. ~coarse' => Held'
    BY <1>0, <1>2, <2>1, ReadsKeep DEF PairFile
  <2> QED BY <2>2, <2>3 DEF PairFile
<1>3. ASSUME NEW t \in Threads, ListPublishes(t) PROVE PairFile'
  <2>1. UNCHANGED <<file, clock, filled, coarse>>
    BY <1>3 DEF ListPublishes
  <2>2. Stamps'
    BY <1>0, <2>1 DEF Stamps
  <2> QED BY <1>3, <2>1, <2>2, PublishKeeps DEF PairFile
<1>4. ASSUME NEW t \in Threads, UpdateOpens(t) PROVE PairFile'
  <2>1. /\ Touches("torn", file.record, "none") /\ cache' = cache
        /\ Moves(t, [thread[t] EXCEPT !.at = "write"])
    BY <1>4 DEF UpdateOpens
  <2>2. /\ Stamps' /\ \A s : StatFits(s) => StatFits(s)'
        /\ ~coarse' => \A e : Fits(e) => Fits(e)'
    BY <1>0, <2>1, TouchKeeps
  <2>3. ASSUME ~coarse' PROVE Held'
    <3>1. ~coarse /\ Held /\ \A e : Fits(e) => Fits(e)'
      BY <2>1, <2>2, <2>3 DEF Touches, PairFile
    <3>2. \A x : StateFits(x) => StateFits(x)'
      BY <2>2, <3>1 DEF StateFits
    <3>3. [thread[t] EXCEPT !.at = "write"].at = "write"
      BY <1>4, <3>1 DEF UpdateOpens, Held, StateFits
    <3>4. PICK state : Moves(t, state) /\ state.at = "write"
      BY <2>1, <3>3
    <3>5. StateFits(state)'
      BY <3>4 DEF StateFits
    <3>6. Fits(cache)'
      BY <2>1, <3>1 DEF Held, Fits, StatFits
    <3> QED BY <3>1, <3>2, <3>4, <3>5, <3>6, ThreadMoves
  <2> QED BY <2>2, <2>3 DEF PairFile
<1>5. ASSUME NEW t \in Threads, UpdateWrites(t) PROVE PairFile'
  <2>1. /\ Stamps' /\ \A s : StatFits(s) => StatFits(s)'
        /\ ~coarse' => ~coarse /\ \A e : Fits(e) => Fits(e)'
    <3>1. CASE UNCHANGED <<file, clock, filled, coarse>>
      <4>1. Stamps'
        BY <1>0, <3>1 DEF Stamps
      <4>2. (\A s : StatFits(s) => StatFits(s)') /\ (\A e : Fits(e) => Fits(e)')
        BY <3>1, SameFile
      <4> QED BY <3>1, <4>1, <4>2
    <3>2. CASE \E is : Touches(is, thread[t].record, "full")
      BY <1>0, <3>2, TouchKeeps DEF Touches
    <3> QED BY <1>5, <3>1, <3>2 DEF UpdateWrites
  <2>2. Moves(t, [at |-> "forget"]) /\ cache' = cache
    BY <1>5 DEF UpdateWrites
  <2>3. ASSUME ~coarse' PROVE Held'
    <3>1. Held /\ \A e : Fits(e) => Fits(e)'
      BY <2>1, <2>3 DEF PairFile
    <3>2. \A x : StateFits(x) => StateFits(x)'
      BY <2>1, <3>1 DEF StateFits
    <3>3. StateFits([at |-> "forget"])
      BY DEF StateFits
    <3>4. Fits(cache)'
      BY <2>2, <3>1 DEF Held, Fits, StatFits
    <3> QED BY <2>2, <3>1, <3>2, <3>3, <3>4, ThreadMoves
  <2> QED BY <2>1, <2>3 DEF PairFile
<1>6. ASSUME NEW t \in Threads, Unlinks(t) PROVE PairFile'
  <2>1. file' = [file EXCEPT !.is = "absent"] /\ UNCHANGED <<clock, filled, coarse, cache>>
    BY <1>6 DEF Unlinks
  <2>2. file'.is # "whole" /\ (file'.stat = file.stat)
    BY <2>1
  <2>3. Stamps'
    BY <1>0, <2>1, <2>2 DEF Stamps
  <2>4. /\ \A e : Fits(e) => Fits(e)'
        /\ \A s : StatFits(s) => StatFits(s)'
    BY <2>1, <2>2 DEF Fits, StatFits
  <2>5. \A x : StateFits(x) => StateFits(x)'
    BY <2>4 DEF StateFits
  <2>6. StateFits(Idle) /\ StateFits([at |-> "forget"])
    BY DEF StateFits, Idle
  <2>7. \E state : Moves(t, state) /\ StateFits(state)
    BY <1>6, <2>6 DEF Unlinks
  <2>8. ASSUME Held PROVE Held'
    <3>1. Fits(cache)'
      BY <2>1, <2>4, <2>8 DEF Held, Fits, StatFits
    <3> QED BY <2>5, <2>7, <2>8, <3>1, ThreadMoves
  <2> QED BY <2>1, <2>3, <2>8 DEF PairFile
<1>7. ASSUME NEW t \in Threads, Forgets(t) PROVE PairFile'
  <2>1. UNCHANGED <<file, clock, filled, coarse>> /\ cache' = NoEntry /\ Moves(t, Idle)
    BY <1>7 DEF Forgets
  <2>2. Stamps'
    BY <1>0, <2>1 DEF Stamps
  <2>3. Fits(cache)' /\ StateFits(Idle)
    BY <2>1 DEF Fits, StateFits, Idle
  <2>4. Held => Held'
    BY <2>1, <2>3, SameFile, ThreadMoves
  <2> QED BY <2>1, <2>2, <2>4 DEF PairFile
<1>8. CASE UNCHANGED qaVars
  BY <1>0, <1>8 DEF qaVars, PairFile, Stamps, Held, StateFits, Fits, StatFits
<1> QED BY <1>1, <1>2, <1>3, <1>4, <1>5, <1>6, <1>7, <1>8 DEF QaNext

LEMMA PairInit == QaInit => PairFile
  BY DEF QaInit, PairFile, Stamps, Held, Fits, StateFits, Idle

(* Whoever writes the file of a pair, and however requests interleave      *)
(* (data/fs/qa.py list_qa_pairs, update_qa_pair, delete_qa_pair), a record *)
(* is served from the cache only if it is what the file holds, as long as  *)
(* the stamps of two full writes differ.                                   *)
THEOREM CacheIsTheFile == QaSpec => []CacheIsFile
<1>1. PairFile => CacheIsFile
  BY DEF PairFile, Held, Fits, CacheIsFile, Stale, Holds
<1> QED BY <1>1, PairInit, PairStep, PTL DEF QaSpec

(* Only its own steps move a request.                                      *)
LEMMA MovesItself ==
  ASSUME QaNext, NEW t \in Threads, thread'[t] # thread[t],
         thread = [u \in Threads |-> thread[u]]
  PROVE  \/ ListBegins(t) \/ ListStats(t) \/ Skips(t) \/ ListReads(t) \/ ListPublishes(t)
         \/ Asks(t) \/ UpdateReads(t) \/ UpdateOpens(t) \/ UpdateWrites(t)
         \/ Unlinks(t) \/ Forgets(t)
<1>1. ASSUME NEW u \in Threads, NEW state, Moves(u, state) PROVE u = t
  BY <1>1 DEF Moves
<1>2. ~(MinerOpens \/ MinerWrites)
  BY DEF MinerOpens, MinerWrites
<1>3. PICK u \in Threads :
        \/ ListBegins(u) \/ ListStats(u) \/ Skips(u) \/ ListReads(u) \/ ListPublishes(u)
        \/ Asks(u) \/ UpdateReads(u) \/ UpdateOpens(u) \/ UpdateWrites(u)
        \/ Unlinks(u) \/ Forgets(u)
  BY <1>2 DEF QaNext
<1>4. \E state : Moves(u, state)
  BY <1>3 DEF ListBegins, ListStats, Skips, ListReads, ListPublishes, Asks, UpdateReads,
     UpdateOpens, UpdateWrites, Unlinks, Forgets
<1>5. u = t
  BY <1>1, <1>4
<1> QED BY <1>3, <1>5

LEMMA ListingStep ==
  ASSUME PairFile, [QaNext]_qaVars, NEW t \in Threads, ~coarse, file.is = "whole",
         thread[t].at # "publish", thread'[t].at = "publish", thread'[t].got # NoEntry
  PROVE  file.record = thread'[t].got.record
<1>1. Held
  BY DEF PairFile
<1>2. thread = [u \in Threads |-> thread[u]] /\ StateFits(thread[t])
  BY <1>1 DEF Held
<1>3. ASSUME NEW state, Moves(t, state) PROVE thread'[t] = state
  BY <1>2, <1>3 DEF Moves
<1>4. CASE ListStats(t)
  <2>1. Holds(thread[t].known) /\ thread'[t].got = thread[t].known
    BY <1>3, <1>4 DEF ListStats
  <2>2. Fits(thread[t].known)
    BY <1>2, <1>4 DEF StateFits, ListStats
  <2> QED BY <2>1, <2>2 DEF Fits, Holds
<1>5. CASE ListReads(t)
  BY <1>3, <1>5 DEF ListReads
<1>6. CASE Skips(t)
  BY <1>3, <1>6 DEF Skips
<1>7. ListStats(t) \/ ListReads(t) \/ Skips(t)
  <2>1. QaNext /\ thread'[t] # thread[t]
    BY DEF qaVars
  <2>2. ASSUME NEW state, state.at # "publish", Moves(t, state) PROVE FALSE
    BY <1>3, <2>2
  <2>3. ~(ListBegins(t) \/ Asks(t) \/ UpdateWrites(t) \/ Unlinks(t) \/ Forgets(t))
    BY <2>2 DEF ListBegins, Asks, UpdateWrites, Unlinks, Forgets, Idle
  <2>4. ~UpdateReads(t)
    BY <2>2 DEF UpdateReads, Idle
  <2>5. ~UpdateOpens(t)
    BY <1>2, <1>3 DEF UpdateOpens, StateFits
  <2>6. ~ListPublishes(t)
    BY DEF ListPublishes
  <2> QED BY <1>2, <2>1, <2>3, <2>4, <2>5, <2>6, MovesItself
<1> QED BY <1>4, <1>5, <1>6, <1>7

(* So a listing never goes on with a record that its file no longer holds  *)
(* when it looks, whatever was written, published or forgotten since it    *)
(* took its copy of the cache (data/fs/qa.py list_qa_pairs).               *)
THEOREM ListingsAreCurrent == QaSpec => ListsWhatIs
<1>1. PairFile /\ [QaNext]_qaVars =>
        [\A t \in Threads :
           /\ thread[t].at # "publish" /\ thread'[t].at = "publish"
           /\ thread'[t].got # NoEntry /\ file.is = "whole" /\ ~coarse
           => file.record = thread'[t].got.record]_qaVars
  BY ListingStep
<1> QED BY <1>1, PairInit, PairStep, PTL DEF QaSpec, ListsWhatIs

-----------------------------------------------------------------------------
(* QaFiles: types.                                                         *)

Recalled == {NoEntry} \cup Entries

StateTyped(x) ==
  /\ x.at \in {"idle", "list", "read", "publish", "update", "open", "write", "unlink", "forget"}
  /\ x.at = "list" => x.known \in Recalled
  /\ x.at = "read" => x.stat \in Stats
  /\ x.at = "publish" => x.got \in Recalled
  /\ x.at = "update" => x.set \in Reviews \cup {"rejected"}
  /\ x.at \in {"open", "write"} => x.record \in Records /\ x = [at |-> x.at, record |-> x.record]

ThreadTypes ==
  /\ thread = [t \in Threads |-> thread[t]]
  /\ \A t \in Threads : StateTyped(thread[t])

FileTypes ==
  /\ file \in [is : {"absent", "mining", "torn", "whole", "garbled"}, record : Records,
               stat : Stats]
  /\ cache \in Recalled

ClockTypes ==
  edits \in 0..MaxEdits /\ clock \in Nat /\ filled \in Nat /\ filled <= clock

(* A request that has not seen a record of the pair.                       *)
Unaware(x) ==
  /\ x.at \in {"idle", "list", "read", "publish", "update"}
  /\ x.at = "list" => x.known = NoEntry
  /\ x.at = "publish" => x.got = NoEntry

(* Until the miner has written the pair, nobody sees it.                   *)
NotYet ==
  /\ file.is = "mining" => filled = 0
  /\ filled = 0 => /\ file.is \in {"absent", "mining"} /\ cache = NoEntry
                   /\ \A t \in Threads : Unaware(thread[t])

RequestsAt(a) == {t \in Threads : thread[t].at = a}

(* The writes of the miner so far.                                         *)
Mined == IF filled # 0 THEN 2 ELSE IF file.is = "absent" THEN 0 ELSE 1

(* An update that has begun has two writes ahead or one.                   *)
WritesLeft ==
  /\ IsFiniteSet(RequestsAt("open")) /\ IsFiniteSet(RequestsAt("write"))
  /\ clock + 2 * Cardinality(RequestsAt("open")) + Cardinality(RequestsAt("write"))
       <= 2 * edits + Mined

LEMMA MoveCounts ==
  ASSUME thread = [u \in Threads |-> thread[u]], NEW t \in Threads, NEW state,
         Moves(t, state), NEW a, IsFiniteSet(RequestsAt(a))
  PROVE  /\ IsFiniteSet(RequestsAt(a))'
         /\ Cardinality(RequestsAt(a)) \in Nat /\ Cardinality(RequestsAt(a))' \in Nat
         /\ Cardinality(RequestsAt(a))' = Cardinality(RequestsAt(a))
              - (IF thread[t].at = a THEN 1 ELSE 0) + (IF state.at = a THEN 1 ELSE 0)
<1>1. thread' = [thread EXCEPT ![t] = state]
  BY DEF Moves
<1>2. thread'[t] = state /\ \A u \in Threads : u # t => thread'[u] = thread[u]
  BY <1>1
<1>3. CASE state.at = a
  <2>1. RequestsAt(a)' = RequestsAt(a) \cup {t}
    BY <1>2, <1>3 DEF RequestsAt
  <2>2. t \in RequestsAt(a) <=> thread[t].at = a
    BY DEF RequestsAt
  <2> HIDE DEF RequestsAt
  <2> QED BY <1>3, <2>1, <2>2, FS_AddElement, FS_CardinalityType
<1>4. CASE state.at # a
  <2>1. RequestsAt(a)' = RequestsAt(a) \ {t}
    BY <1>2, <1>4 DEF RequestsAt
  <2>2. t \in RequestsAt(a) <=> thread[t].at = a
    BY DEF RequestsAt
  <2> QED BY <1>4, <2>1, <2>2, FS_RemoveElement, FS_CardinalityType
<1> QED BY <1>3, <1>4

LEMMA MoveTypes ==
  ASSUME ThreadTypes, NEW t \in Threads, NEW state, Moves(t, state), StateTyped(state)
  PROVE  ThreadTypes'
<1>1. thread' = [thread EXCEPT ![t] = state]
  BY DEF Moves
<1>2. thread' = [u \in Threads |-> thread'[u]]
  BY <1>1 DEF ThreadTypes
<1>3. ASSUME NEW u \in Threads PROVE StateTyped(thread'[u])
  <2>1. thread'[u] = IF u = t THEN state ELSE thread[u]
    BY <1>1 DEF ThreadTypes
  <2>2. StateTyped(thread[u])
    BY DEF ThreadTypes
  <2> QED BY <2>1, <2>2
<1> QED BY <1>2, <1>3 DEF ThreadTypes, StateTyped, Recalled, Entries, Stats, Records

(* A request that goes on without a write leaves the count of writes.      *)
LEMMA QuietCounts ==
  ASSUME ThreadTypes, WritesLeft, NEW t \in Threads, NEW state, Moves(t, state),
         thread[t].at \notin {"open", "write"}, state.at \notin {"open", "write"},
         UNCHANGED <<clock, edits, filled, file>>
  PROVE  WritesLeft'
<1>1. /\ IsFiniteSet(RequestsAt("open"))'
      /\ Cardinality(RequestsAt("open"))' = Cardinality(RequestsAt("open"))
  BY MoveCounts DEF ThreadTypes, WritesLeft
<1>2. /\ IsFiniteSet(RequestsAt("write"))'
      /\ Cardinality(RequestsAt("write"))' = Cardinality(RequestsAt("write"))
  BY MoveCounts DEF ThreadTypes, WritesLeft
<1> QED BY <1>1, <1>2 DEF WritesLeft, Mined

(* What a touch does, whoever it is by, within the count of writes.        *)
LEMMA TouchTypes ==
  ASSUME ClockTypes, FileTypes, NEW is \in {"mining", "torn", "whole"} \cup {"garbled"},
         NEW record \in Records, NEW size \in {"none", "full"},
         Touches(is, record, size), clock + 1 <= 2 * MaxEdits + 2
  PROVE  /\ clock' \in Nat /\ clock' <= clock + 1 /\ clock <= clock'
         /\ filled' \in Nat /\ filled' <= clock'
         /\ size = "full" => filled' # 0
         /\ size = "none" => filled' = filled
         /\ file' \in [is : {"absent", "mining", "torn", "whole", "garbled"}, record : Records,
                       stat : Stats]
         /\ file'.is = is
<1>1. PICK now \in {clock, clock + 1} \ {0} :
        /\ clock' = now
        /\ filled' = IF size = "full" THEN now ELSE filled
        /\ file' = [is |-> is, record |-> record, stat |-> [time |-> now, size |-> size]]
  BY DEF Touches
<1>2. now \in Nat /\ now # 0 /\ clock <= now /\ now <= clock + 1
  BY <1>1 DEF ClockTypes
<1>3. now \in 0..2 * MaxEdits + 2
  BY <1>2, QaAssumption DEF ClockTypes
<1>4. [time |-> now, size |-> size] \in Stats
  BY <1>3 DEF Stats
<1>5. /\ file' \in [is : {"absent", "mining", "torn", "whole", "garbled"}, record : Records,
                    stat : Stats]
      /\ file'.is = is
  BY <1>1, <1>4
<1>6. filled' \in Nat /\ filled' <= clock' /\ (size = "full" => filled' # 0)
  BY <1>1, <1>2 DEF ClockTypes
<1> QED BY <1>1, <1>2, <1>5, <1>6

PairIInv == FileTypes /\ ClockTypes /\ ThreadTypes /\ NotYet /\ WritesLeft

(* Steps of a request that write nothing, with what it goes on to.         *)
LEMMA QuietSteps ==
  ASSUME PairIInv, NEW t \in Threads,
         \/ ListBegins(t) \/ ListStats(t) \/ Skips(t) \/ ListReads(t) \/ ListPublishes(t)
         \/ Asks(t) \/ Forgets(t)
  PROVE  \E state :
           /\ Moves(t, state) /\ StateTyped(state) /\ state.at \notin {"open", "write"}
           /\ cache' \in Recalled
           /\ filled = 0 => Unaware(state) /\ cache' = NoEntry
<1> USE DEF PairIInv, FileTypes
<1>1. StateTyped(thread[t]) /\ (filled = 0 => Unaware(thread[t]))
  BY DEF ThreadTypes, NotYet
<1>2. StateTyped(Idle) /\ Unaware(Idle) /\ Idle.at = "idle"
  BY DEF Idle, StateTyped, Unaware
<1>3. CASE ListBegins(t)
  <2>1. PICK why \in {"view", "dedupe", "reset"} :
          Moves(t, [at |-> "list", why |-> why, known |-> cache])
    BY <1>3 DEF ListBegins
  <2> DEFINE state == [at |-> "list", why |-> why, known |-> cache]
  <2>2. StateTyped(state) /\ state.at = "list"
    BY DEF StateTyped
  <2>3. filled = 0 => Unaware(state) /\ cache' = NoEntry
    BY <1>3 DEF Unaware, NotYet, ListBegins
  <2> QED BY <1>3, <2>1, <2>2, <2>3 DEF ListBegins
<1>4. CASE ListStats(t)
  <2> DEFINE hit == [at |-> "publish", why |-> thread[t].why, got |-> thread[t].known]
             miss == [at |-> "read", why |-> thread[t].why, stat |-> file.stat]
             state == IF Holds(thread[t].known) THEN hit ELSE miss
  <2>1. Moves(t, state) /\ cache' = cache /\ thread[t].at = "list"
    BY <1>4 DEF ListStats
  <2>2. thread[t].known \in Recalled
    BY <1>1, <2>1 DEF StateTyped
  <2>3. StateTyped(hit) /\ StateTyped(miss) /\ hit.at = "publish" /\ miss.at = "read"
    BY <2>2 DEF StateTyped
  <2>4. filled = 0 => Unaware(miss) /\ ~Holds(thread[t].known) /\ cache' = NoEntry
    BY <1>1, <2>1 DEF Unaware, Holds, NotYet
  <2>5. StateTyped(state) /\ state.at \notin {"open", "write"}
    BY <2>3
  <2>6. filled = 0 => Unaware(state) /\ cache' = NoEntry
    BY <2>4
  <2> HIDE DEF state
  <2> QED BY <2>1, <2>5, <2>6
<1>5. CASE Skips(t)
  <2> DEFINE state == [at |-> "publish", why |-> thread[t].why, got |-> NoEntry]
  <2>1. Moves(t, state) /\ cache' = cache
    BY <1>5 DEF Skips
  <2>2. StateTyped(state) /\ Unaware(state) /\ state.at = "publish"
    BY DEF StateTyped, Unaware, Recalled
  <2> HIDE DEF state
  <2> QED BY <2>1, <2>2 DEF NotYet
<1>6. CASE ListReads(t)
  <2> DEFINE state == [at |-> "publish", why |-> thread[t].why,
                       got |-> [record |-> file.record, stat |-> thread[t].stat]]
  <2>1. Moves(t, state) /\ cache' = cache /\ thread[t].at = "read" /\ file.is = "whole"
    BY <1>6 DEF ListReads
  <2>2. [record |-> file.record, stat |-> thread[t].stat] \in Recalled
    BY <1>1, <2>1 DEF StateTyped, Recalled, Entries
  <2>3. StateTyped(state) /\ state.at = "publish"
    BY <2>2 DEF StateTyped
  <2>4. filled # 0
    BY <2>1 DEF NotYet
  <2> HIDE DEF state
  <2> QED BY <2>1, <2>3, <2>4
<1>7. CASE ListPublishes(t)
  <2> DEFINE got == thread[t].got
             pending == got # NoEntry /\ got.record.verdict = "pending"
             state == CASE pending /\ thread[t].why = "reset" -> [at |-> "unlink"]
                        [] pending /\ thread[t].why = "dedupe" ->
                             [at |-> "update", set |-> "rejected"]
                        [] OTHER -> Idle
  <2>1. Moves(t, state) /\ cache' = got /\ thread[t].at = "publish"
    BY <1>7 DEF ListPublishes
  <2>2. got \in Recalled /\ (filled = 0 => got = NoEntry)
    BY <1>1, <2>1 DEF StateTyped, Unaware
  <2>3. StateTyped([at |-> "unlink"]) /\ StateTyped([at |-> "update", set |-> "rejected"])
    BY DEF StateTyped
  <2>4. state \in {[at |-> "unlink"], [at |-> "update", set |-> "rejected"], Idle}
    OBVIOUS
  <2>5. StateTyped(state)
    BY <1>2, <2>3, <2>4
  <2>6. state.at \notin {"open", "write"}
    BY <1>2, <2>4
  <2>7. filled = 0 => state = Idle
    BY <2>2
  <2> HIDE DEF state
  <2> QED BY <1>2, <2>1, <2>2, <2>5, <2>6, <2>7
<1>8. CASE Asks(t)
  <2>1. PICK what \in Reviews : Moves(t, [at |-> "update", set |-> what])
    BY <1>8 DEF Asks
  <2> DEFINE state == [at |-> "update", set |-> what]
  <2>2. StateTyped(state) /\ Unaware(state) /\ state.at = "update"
    BY DEF StateTyped, Unaware
  <2>3. cache' = cache
    BY <1>8 DEF Asks
  <2> HIDE DEF state
  <2> QED BY <2>1, <2>2, <2>3 DEF NotYet, state
<1>9. CASE Forgets(t)
  <2>1. Moves(t, Idle) /\ cache' = NoEntry
    BY <1>9 DEF Forgets
  <2> QED BY <1>2, <2>1 DEF Recalled
<1> QED BY <1>3, <1>4, <1>5, <1>6, <1>7, <1>8, <1>9

(* A step of a request moves the request; the others stay unaware.         *)
LEMMA StillUnaware ==
  ASSUME ThreadTypes, NEW t \in Threads, NEW state, Moves(t, state),
         \A u \in Threads : Unaware(thread[u]), Unaware(state)
  PROVE  \A u \in Threads : Unaware(thread'[u])
<1>1. thread' = [thread EXCEPT ![t] = state]
  BY DEF Moves
<1> TAKE u \in Threads
<1>2. thread'[u] = IF u = t THEN state ELSE thread[u]
  BY <1>1 DEF ThreadTypes
<1> QED BY <1>2

LEMMA UpdateKeeps ==
  ASSUME PairIInv, NEW t \in Threads, UpdateReads(t) \/ UpdateOpens(t) \/ UpdateWrites(t)
  PROVE  PairIInv'
<1> USE DEF PairIInv
<1>1. StateTyped(thread[t]) /\ (filled = 0 => Unaware(thread[t]))
  BY DEF ThreadTypes, NotYet
<1>2. /\ Cardinality(RequestsAt("open")) \in Nat
      /\ Cardinality(RequestsAt("write")) \in Nat
      /\ thread[t].at = "open" => Cardinality(RequestsAt("open")) # 0
      /\ thread[t].at = "write" => Cardinality(RequestsAt("write")) # 0
  <2>1. ASSUME NEW a, IsFiniteSet(RequestsAt(a))
        PROVE  /\ Cardinality(RequestsAt(a)) \in Nat
               /\ thread[t].at = a => Cardinality(RequestsAt(a)) # 0
    <3>1. thread[t].at = a => RequestsAt(a) # {}
      BY DEF RequestsAt
    <3> QED BY <2>1, <3>1, FS_CardinalityType, FS_EmptySet
  <2> QED BY <2>1 DEF WritesLeft
<1>3. CASE UpdateReads(t)
  <2>1. /\ thread[t].at = "update" /\ edits < MaxEdits /\ edits' = edits + 1
        /\ UNCHANGED <<file, clock, filled, cache>>
    BY <1>3 DEF UpdateReads
  <2>2. FileTypes' /\ ClockTypes'
    BY <2>1, QaAssumption DEF FileTypes, ClockTypes, Stats, Records, Recalled, Entries
  <2>3. CASE file.is = "whole"
    <3> DEFINE state == [at |-> "open", record |-> Changed(file.record, thread[t].set)]
    <3>1. Moves(t, state) /\ state.at = "open"
      BY <1>3, <2>3 DEF UpdateReads
    <3>2. Changed(file.record, thread[t].set) \in Records
      BY <1>1, <2>1 DEF Changed, StateTyped, FileTypes, Records, Verdicts, Reviews
    <3>3. StateTyped(state)
      BY <3>2 DEF StateTyped
    <3> HIDE DEF state
    <3>4. ThreadTypes'
      BY <3>1, <3>3, MoveTypes
    <3>5. filled # 0
      BY <2>3 DEF NotYet
    <3>6. NotYet'
      BY <2>1, <2>3, <3>5 DEF NotYet
    <3>7. /\ IsFiniteSet(RequestsAt("open"))'
          /\ Cardinality(RequestsAt("open"))' = Cardinality(RequestsAt("open")) + 1
      BY <2>1, <3>1, MoveCounts DEF ThreadTypes, WritesLeft
    <3>8. /\ IsFiniteSet(RequestsAt("write"))'
          /\ Cardinality(RequestsAt("write"))' = Cardinality(RequestsAt("write"))
      BY <2>1, <3>1, MoveCounts DEF ThreadTypes, WritesLeft
    <3>9. WritesLeft'
      BY <1>2, <2>1, <3>5, <3>7, <3>8 DEF WritesLeft, Mined, ClockTypes
    <3> QED BY <2>2, <3>4, <3>6, <3>9
  <2>4. CASE file.is # "whole"
    <3>1. Moves(t, Idle)
      BY <1>3, <2>4 DEF UpdateReads
    <3>2. StateTyped(Idle) /\ Unaware(Idle) /\ Idle.at = "idle"
      BY DEF Idle, StateTyped, Unaware
    <3>3. ThreadTypes'
      BY <3>1, <3>2, MoveTypes
    <3>4. NotYet'
      BY <2>1, <3>1, <3>2, StillUnaware DEF NotYet
    <3>5. /\ IsFiniteSet(RequestsAt("open"))'
          /\ Cardinality(RequestsAt("open"))' = Cardinality(RequestsAt("open"))
      BY <2>1, <3>1, <3>2, MoveCounts DEF ThreadTypes, WritesLeft
    <3>6. /\ IsFiniteSet(RequestsAt("write"))'
          /\ Cardinality(RequestsAt("write"))' = Cardinality(RequestsAt("write"))
      BY <2>1, <3>1, <3>2, MoveCounts DEF ThreadTypes, WritesLeft
    <3>7. WritesLeft'
      BY <1>2, <2>1, <3>5, <3>6 DEF WritesLeft, Mined, ClockTypes
    <3> QED BY <2>2, <3>3, <3>4, <3>7
  <2> QED BY <2>3, <2>4
<1>4. ASSUME UpdateOpens(t) \/ UpdateWrites(t)
      PROVE  filled # 0 /\ clock + 1 <= 2 * MaxEdits + 2
  <2>1. thread[t].at \in {"open", "write"}
    BY <1>4 DEF UpdateOpens, UpdateWrites
  <2>2. filled # 0
    BY <1>1, <2>1 DEF Unaware
  <2> QED BY <1>2, <2>1, <2>2, QaAssumption DEF WritesLeft, Mined, ClockTypes
<1>5. CASE UpdateOpens(t)
  <2>1. /\ thread[t].at = "open" /\ Touches("torn", file.record, "none")
        /\ UNCHANGED <<cache, edits>>
    BY <1>5 DEF UpdateOpens
  <2>2. thread[t].record \in Records /\ thread[t] = [at |-> "open", record |-> thread[t].record]
    BY <1>1, <2>1 DEF StateTyped
  <2> DEFINE state == [at |-> "write", record |-> thread[t].record]
  <2>3. [thread[t] EXCEPT !.at = "write"] = state
    BY <2>2
  <2>4. Moves(t, state) /\ state.at = "write" /\ StateTyped(state)
    BY <1>5, <2>2, <2>3 DEF UpdateOpens, StateTyped
  <2> HIDE DEF state
  <2>5. /\ clock' \in Nat /\ clock' <= clock + 1 /\ filled' = filled /\ filled' <= clock'
        /\ file' \in [is : {"absent", "mining", "torn", "whole", "garbled"}, record : Records,
                      stat : Stats]
        /\ file'.is = "torn"
    <3>1. file.record \in Records
      BY DEF FileTypes
    <3> QED BY <1>4, <1>5, <2>1, <3>1, TouchTypes
  <2>6. FileTypes' /\ ClockTypes'
    BY <2>1, <2>5 DEF FileTypes, ClockTypes, Stats, Records, Recalled, Entries
  <2>7. ThreadTypes'
    BY <2>4, MoveTypes
  <2>8. NotYet'
    BY <1>4, <1>5, <2>5 DEF NotYet
  <2>9. /\ IsFiniteSet(RequestsAt("open"))'
        /\ Cardinality(RequestsAt("open"))' = Cardinality(RequestsAt("open")) - 1
    BY <2>1, <2>4, MoveCounts DEF ThreadTypes, WritesLeft
  <2>10. /\ IsFiniteSet(RequestsAt("write"))'
         /\ Cardinality(RequestsAt("write"))' = Cardinality(RequestsAt("write")) + 1
    BY <2>1, <2>4, MoveCounts DEF ThreadTypes, WritesLeft
  <2>11. WritesLeft'
    BY <1>2, <1>4, <1>5, <2>1, <2>5, <2>9, <2>10 DEF WritesLeft, Mined, ClockTypes
  <2> QED BY <2>6, <2>7, <2>8, <2>11
<1>6. CASE UpdateWrites(t)
  <2>1. /\ thread[t].at = "write" /\ Moves(t, [at |-> "forget"])
        /\ UNCHANGED <<cache, edits>>
    BY <1>6 DEF UpdateWrites
  <2>2. thread[t].record \in Records
    BY <1>1, <2>1 DEF StateTyped
  <2>3. PICK state : Moves(t, state) /\ state = [at |-> "forget"]
    BY <2>1
  <2>4. state.at = "forget" /\ StateTyped(state)
    BY <2>3 DEF StateTyped
  <2>5. /\ clock' \in Nat /\ clock' <= clock + 1 /\ filled' # 0
        /\ filled' \in Nat /\ filled' <= clock'
        /\ file' \in [is : {"absent", "mining", "torn", "whole", "garbled"}, record : Records,
                      stat : Stats]
        /\ file'.is # "mining"
    <3>1. CASE UNCHANGED <<file, clock, filled>>
      <4>1. file.is # "mining" /\ filled # 0
        BY <1>4, <1>6 DEF NotYet
      <4> QED BY <3>1, <4>1 DEF FileTypes, ClockTypes
    <3>2. CASE \E is \in {"whole", "garbled"} : Touches(is, thread[t].record, "full")
      BY <1>4, <1>6, <2>2, <3>2, TouchTypes
    <3> QED BY <1>6, <3>1, <3>2 DEF UpdateWrites
  <2>6. FileTypes' /\ ClockTypes'
    BY <2>1, <2>5 DEF FileTypes, ClockTypes, Stats, Records, Recalled, Entries
  <2>7. ThreadTypes'
    BY <2>3, <2>4, MoveTypes
  <2>8. NotYet'
    BY <2>5 DEF NotYet
  <2>9. /\ IsFiniteSet(RequestsAt("open"))'
        /\ Cardinality(RequestsAt("open"))' = Cardinality(RequestsAt("open"))
    BY <2>1, <2>3, <2>4, MoveCounts DEF ThreadTypes, WritesLeft
  <2>10. /\ IsFiniteSet(RequestsAt("write"))'
         /\ Cardinality(RequestsAt("write"))' = Cardinality(RequestsAt("write")) - 1
    BY <2>1, <2>3, <2>4, MoveCounts DEF ThreadTypes, WritesLeft
  <2>11. WritesLeft'
    BY <1>2, <1>4, <1>6, <2>1, <2>5, <2>9, <2>10 DEF WritesLeft, Mined, ClockTypes
  <2> QED BY <2>6, <2>7, <2>8, <2>11
<1> QED BY <1>3, <1>5, <1>6

LEMMA QaTypeStep == PairIInv /\ [QaNext]_qaVars => PairIInv'
<1> SUFFICES ASSUME PairIInv, [QaNext]_qaVars PROVE PairIInv'
  OBVIOUS
<1> USE DEF PairIInv
<1>1. /\ Cardinality(RequestsAt("open")) \in Nat
      /\ Cardinality(RequestsAt("write")) \in Nat
  BY FS_CardinalityType DEF WritesLeft
<1>2. CASE MinerOpens \/ MinerWrites
  <2>1. PICK is \in {"mining", "whole"}, size \in {"none", "full"} :
          /\ Touches(is, Fresh, size) /\ filled = 0
          /\ is = "mining" => file.is = "absent" /\ size = "none" /\ edits = 0
          /\ is = "whole" => file.is = "mining" /\ size = "full"
    BY <1>2 DEF MinerOpens, MinerWrites, NotYet
  <2>2. UNCHANGED <<cache, thread, edits>>
    BY <1>2 DEF MinerOpens, MinerWrites
  <2>3. Fresh \in Records
    BY DEF Fresh, Records, Verdicts
  <2>4. clock + 1 <= 2 * MaxEdits + 2 /\ (is = "mining" => clock = 0)
    BY <1>1, <2>1, QaAssumption DEF WritesLeft, Mined, ClockTypes
  <2>5. /\ clock' \in Nat /\ clock' <= clock + 1
        /\ filled' \in Nat /\ filled' <= clock'
        /\ size = "full" => filled' # 0
        /\ size = "none" => filled' = filled
        /\ file' \in [is : {"absent", "mining", "torn", "whole", "garbled"}, record : Records,
                      stat : Stats]
        /\ file'.is = is
    BY <2>1, <2>3, <2>4, TouchTypes
  <2>6. FileTypes' /\ ClockTypes'
    BY <2>2, <2>5 DEF FileTypes, ClockTypes, Stats, Records, Recalled, Entries
  <2>7. ThreadTypes'
    BY <2>2 DEF ThreadTypes, StateTyped, Recalled, Entries, Stats, Records
  <2>8. NotYet'
    BY <2>1, <2>2, <2>5 DEF NotYet, Unaware
  <2>9. RequestsAt("open")' = RequestsAt("open") /\ RequestsAt("write")' = RequestsAt("write")
    BY <2>2 DEF RequestsAt
  <2>10. WritesLeft'
    BY <1>1, <2>1, <2>2, <2>5, <2>9 DEF WritesLeft, Mined, ClockTypes
  <2> QED BY <2>6, <2>7, <2>8, <2>10
<1>3. ASSUME NEW t \in Threads,
             \/ ListBegins(t) \/ ListStats(t) \/ Skips(t) \/ ListReads(t) \/ ListPublishes(t)
             \/ Asks(t) \/ Forgets(t)
      PROVE  PairIInv'
  <2>1. UNCHANGED <<file, clock, filled, edits>> /\ thread[t].at \notin {"open", "write"}
    BY <1>3 DEF ListBegins, ListStats, Skips, ListReads, ListPublishes, Asks, Forgets
  <2>2. PICK state :
           /\ Moves(t, state) /\ StateTyped(state) /\ state.at \notin {"open", "write"}
           /\ cache' \in Recalled
           /\ filled = 0 => Unaware(state) /\ cache' = NoEntry
    BY <1>3, QuietSteps
  <2>3. ThreadTypes' /\ WritesLeft'
    BY <2>1, <2>2, MoveTypes, QuietCounts
  <2>4. FileTypes' /\ ClockTypes'
    BY <2>1, <2>2 DEF FileTypes, ClockTypes, Stats, Records, Recalled, Entries
  <2>5. NotYet'
    BY <2>1, <2>2, StillUnaware DEF NotYet
  <2> QED BY <2>3, <2>4, <2>5
<1>4. ASSUME NEW t \in Threads, UpdateReads(t) \/ UpdateOpens(t) \/ UpdateWrites(t)
      PROVE  PairIInv'
  BY <1>4, UpdateKeeps
<1>5. ASSUME NEW t \in Threads, Unlinks(t) PROVE PairIInv'
  <2>1. /\ thread[t].at = "unlink" /\ file' = [file EXCEPT !.is = "absent"]
        /\ UNCHANGED <<clock, filled, cache, edits>>
    BY <1>5 DEF Unlinks
  <2>2. filled # 0
    BY <2>1 DEF NotYet, Unaware
  <2>3. PICK state : Moves(t, state) /\ state \in {Idle, [at |-> "forget"]}
    BY <1>5 DEF Unlinks
  <2>4. StateTyped(state) /\ state.at \in {"idle", "forget"}
    BY <2>3 DEF StateTyped, Idle
  <2>5. FileTypes' /\ ClockTypes'
    BY <2>1 DEF FileTypes, ClockTypes, Stats, Records, Recalled, Entries
  <2>6. ThreadTypes'
    BY <2>3, <2>4, MoveTypes
  <2>7. NotYet'
    BY <2>1, <2>2 DEF NotYet, FileTypes
  <2>8. /\ IsFiniteSet(RequestsAt("open"))'
        /\ Cardinality(RequestsAt("open"))' = Cardinality(RequestsAt("open"))
    BY <2>1, <2>3, <2>4, MoveCounts DEF ThreadTypes, WritesLeft
  <2>9. /\ IsFiniteSet(RequestsAt("write"))'
        /\ Cardinality(RequestsAt("write"))' = Cardinality(RequestsAt("write"))
    BY <2>1, <2>3, <2>4, MoveCounts DEF ThreadTypes, WritesLeft
  <2>10. WritesLeft'
    BY <2>1, <2>2, <2>8, <2>9 DEF WritesLeft, Mined
  <2> QED BY <2>5, <2>6, <2>7, <2>10
<1>6. CASE UNCHANGED qaVars
  <2>1. RequestsAt("open")' = RequestsAt("open") /\ RequestsAt("write")' = RequestsAt("write")
    BY <1>6 DEF qaVars, RequestsAt
  <2>2. WritesLeft'
    BY <1>6, <2>1 DEF qaVars, WritesLeft, Mined
  <2> QED
    BY <1>6, <2>2 DEF qaVars, FileTypes, ClockTypes, ThreadTypes, NotYet, StateTyped, Unaware,
       Recalled, Entries, Stats, Records
<1> QED BY <1>2, <1>3, <1>4, <1>5, <1>6 DEF QaNext

LEMMA PairTypesInit == QaInit => PairIInv
<1> SUFFICES ASSUME QaInit PROVE PairIInv
  OBVIOUS
<1>1. RequestsAt("open") = {} /\ RequestsAt("write") = {}
  BY DEF QaInit, RequestsAt, Idle
<1>2. WritesLeft
  BY <1>1, FS_EmptySet DEF QaInit, WritesLeft, Mined
<1>3. FileTypes
  BY QaAssumption DEF QaInit, FileTypes, Fresh, Records, Verdicts, Stats, Recalled
<1>4. ThreadTypes /\ NotYet
  BY DEF QaInit, ThreadTypes, NotYet, StateTyped, Unaware, Idle
<1>5. ClockTypes
  BY QaAssumption DEF QaInit, ClockTypes
<1> QED BY <1>2, <1>3, <1>4, <1>5 DEF PairIInv

LEMMA PairTyped == PairIInv => QaTypeOK
<1> SUFFICES ASSUME PairIInv PROVE QaTypeOK
  OBVIOUS
<1>1. clock \in 0..2 * MaxEdits + 2
  BY FS_CardinalityType, QaAssumption DEF PairIInv, WritesLeft, Mined, ClockTypes
<1> QED BY <1>1 DEF PairIInv, FileTypes, ClockTypes, ThreadTypes, StateTyped, Recalled, QaTypeOK

(* Every variable of a pair's file, its cache and the requests has its type*)
(* (data/fs/qa.py).  A file is written twice by the miner and twice by each*)
(* update, so the clock needs no more stamps than the model has.           *)
THEOREM PairsAreTyped == QaSpec => []QaTypeOK
  BY PairTypesInit, PairTyped, QaTypeStep, PTL DEF QaSpec
=============================================================================
