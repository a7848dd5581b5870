------------------------------ MODULE StoreZip ------------------------------
(***************************************************************************)
(* The Content-Length of a folder archive: storeZipLength adds up what the *)
(* zip writer of the library will write, and gives up near the limits of   *)
(* the format, where the writer begins to write larger records.            *)
(*                                                                         *)
(* The limits are scaled: Max32 stands for 2^32 - 1, Max16 for 65535.  An  *)
(* entry is the length of its name and, for a file, its size.              *)
(***************************************************************************)
EXTENDS Integers, Sequences, SequencesExt

CONSTANTS Max32, Max16,
          NameLengths,   \* bound: the lengths of names
          FileSizes,     \* bound: the sizes of files
          MaxEntries,    \* bound: the files, and the empty folders
          NoArchive      \* no archive yet

ASSUME StoreZipAssumption ==
  /\ Max32 \in Nat /\ Max16 \in Nat /\ MaxEntries \in Nat
  /\ NameLengths \subseteq Nat /\ FileSizes \subseteq Nat

VARIABLE archive   \* its files and its empty folders

UpTo(n, S) == UNION {[1 .. k -> S] : k \in 0 .. n}
Archives == [files : UpTo(MaxEntries, [name : NameLengths, size : FileSizes]),
             dirs  : UpTo(MaxEntries, NameLengths)]

-----------------------------------------------------------------------------
AddedUp(s) == FoldLeft(+, 0, s)

FileCost(e) == 30 + 9 + e.name + e.size + 16 + 46 + 9 + e.name
DirCost(n) == 30 + 9 + n + 46 + 9 + n

MutSizesOnly(a) == \E i \in DOMAIN a.files : a.files[i].size >= Max32
TooLarge(a) ==
  \/ Len(a.files) + Len(a.dirs) >= Max16
  \/ \E i \in DOMAIN a.files : a.files[i].size >= Max32

(* The length, or -1: the sum is compared after each addition, and only    *)
(* grows, so that the last comparison decides.                             *)
storeZipLength(a) ==
  LET total == AddedUp([i \in DOMAIN a.files |-> FileCost(a.files[i])])
               + AddedUp([i \in DOMAIN a.dirs |-> DirCost(a.dirs[i])]) + 22
  IN IF TooLarge(a) \/ total >= Max32 + 1 THEN -1 ELSE total

(* The archive of a shared host folder repeats the sums.                   *)
absStoreZipLength(a) == storeZipLength(a)

-----------------------------------------------------------------------------
(* archive/zip.Writer: a local record and its data per entry, in the order *)
(* folders, files; then a central record per entry, then the end.  Sizes,  *)
(* offsets and counts that do not fit make it write the larger records.    *)
LocalSize(e) ==
  IF e.dir THEN 30 + e.name + 9
  ELSE 30 + e.name + 9 + e.size + (IF e.size >= Max32 THEN 24 ELSE 16)

Entries(a) ==
  [i \in DOMAIN a.dirs |-> [dir |-> TRUE, name |-> a.dirs[i], size |-> 0]]
  \o [i \in DOMAIN a.files |-> [dir |-> FALSE, name |-> a.files[i].name,
                                size |-> a.files[i].size]]

Offset(es, i) == AddedUp([j \in 1 .. i - 1 |-> LocalSize(es[j])])

CentralSize(es, i) ==
  46 + es[i].name + 9
     + (IF es[i].size >= Max32 \/ Offset(es, i) >= Max32 THEN 28 ELSE 0)

zipWriter(a) ==
  LET es      == Entries(a)
      locals  == Offset(es, Len(es) + 1)
      central == AddedUp([i \in DOMAIN es |-> CentralSize(es, i)])
      zip64   == Len(es) >= Max16 \/ central >= Max32 \/ locals >= Max32
  IN locals + central + (IF zip64 THEN 76 ELSE 0) + 22

(* The length that is announced is the length that is sent, right up to    *)
(* the limits: a client never waits for bytes that do not come.            *)
LengthIsExact ==
  archive # NoArchive =>
    \A n \in {storeZipLength(archive), absStoreZipLength(archive)} :
      n # -1 => n = zipWriter(archive)
=============================================================================
