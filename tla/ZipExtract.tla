----------------------------- MODULE ZipExtract -----------------------------
(***************************************************************************)
(* extractZipIn: an uploaded archive is unpacked into a stage next to the  *)
(* shared files, whose top entries are then moved into place; the archive  *)
(* itself is removed when that succeeds.                                   *)
(*                                                                         *)
(* An entry is a file, a folder, or one to pass over: a symlink, or a name *)
(* that safeRelPath refuses.  That is any name outside of the rules, and   *)
(* also every folder entry of the usual form, which ends with a slash; the *)
(* kind "dir" is one that only its mode makes a folder.  The size in the   *)
(* header and the size of the data are different things.                   *)
(***************************************************************************)
EXTENDS Integers, Sequences, FiniteSets, SequencesExt

CONSTANTS
  zipFiles,      \* maxZipFiles, the most files
  zipBytes,      \* maxZipBytes, the most bytes
  SpareEntries,  \* the 100 entries that an archive may have beyond its files
  Wide,          \* 2^64, scaled: the sum of the headers wraps there
  DataSizes,     \* bound: the sizes of the data of files
  MaxParts,      \* bound: the entries of an archive
  NoUpload       \* no archive yet

ASSUME ZipExtractAssumption ==
  /\ zipFiles \in Nat /\ zipBytes \in Nat /\ SpareEntries \in Nat
  /\ Wide \in Nat /\ Wide > zipBytes
  /\ DataSizes \subseteq Nat /\ MaxParts \in Nat

VARIABLE upload   \* the entries of an archive, and the moves that fail

Paths == {<<"a">>, <<"b">>, <<"a", "x">>}
Top(p) == <<p[1]>>
Inside(p) == {q \in Paths : q # p /\ Top(p) = q}   \* the folders above

Parts ==
  [kind : {"file"}, path : Paths, says : DataSizes \cup {Wide - 1}, has : DataSizes, sound : BOOLEAN]
    \cup [kind : {"dir"}, path : Paths, says : {0}]
    \cup [kind : {"pass"}, says : DataSizes \cup {Wide - 1}]

Uploads == [parts : UNION {[1 .. k -> Parts] : k \in 1 .. MaxParts},
            stuck : {{}, {<<"a">>}}]

-----------------------------------------------------------------------------
(* The sum of the sizes in the headers, compared after each addition.      *)
Declared(u) ==
  FoldLeft(LAMBDA t, e : IF t > zipBytes THEN t ELSE (t + e.says) % Wide, 0, u.parts)

Refused(u) ==
  CASE Len(u.parts) > zipFiles + SpareEntries -> "too many"
    [] Len(u.parts) <= zipFiles + SpareEntries /\ Declared(u) > zipBytes -> "too big"
    [] OTHER -> ""

(* The stage: the data of its files, its folders, and the counts.          *)
Stage == [data |-> <<>>, dirs |-> {}, n |-> 0, skipped |-> 0, live |-> 0, err |-> ""]

Blocked(s, p) == Inside(p) \cap DOMAIN s.data # {}       \* a file is in the way
MutOverwrites(s, p) == Blocked(s, p) \/ p \in s.dirs
Taken(s, p) == Blocked(s, p) \/ p \in s.dirs \cup DOMAIN s.data

MkdirAll(s, ps) == [s EXCEPT !.dirs = @ \cup ps]
Skip1(s) == [s EXCEPT !.skipped = @ + 1]

Added(f, p, v) == [q \in DOMAIN f \cup {p} |-> IF q = p THEN v ELSE f[q]]

MutOneByOne(s, e) == e.has
LiveTotal(s, e) == s.live + e.has

TooBig(s, e) == e.has > zipBytes \/ LiveTotal(s, e) > zipBytes
Damaged(e) == ~e.sound

Write(s, e) ==
  LET t == IF Blocked(s, e.path) THEN s ELSE MkdirAll(s, Inside(e.path)) IN
    CASE Taken(s, e.path) -> Skip1(t)
      [] ~Taken(s, e.path) /\ Damaged(e) -> Skip1(t)
      [] ~Taken(s, e.path) /\ ~Damaged(e) /\ TooBig(s, e) -> [t EXCEPT !.err = "too big"]
      [] OTHER -> [t EXCEPT !.live = LiveTotal(s, e),
                            !.n = @ + 1,
                            !.data = Added(@, e.path, e.has)]

Unpack(s, e) ==
  CASE s.err # "" -> s
    [] s.err = "" /\ e.kind = "pass" -> Skip1(s)
    [] s.err = "" /\ e.kind # "pass" /\ s.n >= zipFiles -> [s EXCEPT !.err = "too many"]
    [] s.err = "" /\ e.kind = "dir" /\ s.n < zipFiles ->
         IF Blocked(s, e.path) \/ e.path \in DOMAIN s.data
         THEN s
         ELSE MkdirAll(s, {e.path} \cup Inside(e.path))
    [] s.err = "" /\ e.kind = "file" /\ s.n < zipFiles ->
         IF e.says > zipBytes THEN [s EXCEPT !.err = "too big"] ELSE Write(s, e)

(* What is moved into place: everything under the tops whose rename did    *)
(* not fail.  Whatever fails, the stage is removed.                        *)
Nothing(err) == [err |-> err, data |-> <<>>, n |-> 0, skipped |-> 0]

extractZipIn(u) ==
  LET s     == FoldLeft(Unpack, Stage, u.parts)
      tops  == {Top(p) : p \in DOMAIN s.data \cup s.dirs}
      moved == {p \in DOMAIN s.data : Top(p) \notin u.stuck}
  IN CASE Refused(u) # "" -> Nothing(Refused(u))
       [] Refused(u) = "" /\ s.err # "" -> Nothing(s.err)
       [] Refused(u) = "" /\ s.err = "" /\ (s.n = 0 \/ tops \subseteq u.stuck) -> Nothing("empty")
       [] OTHER -> [err |-> "", data |-> [p \in moved |-> s.data[p]], n |-> s.n,
                    skipped |-> s.skipped + Cardinality(tops \cap u.stuck)]

-----------------------------------------------------------------------------
FileParts(u) == {i \in DOMAIN u.parts : u.parts[i].kind = "file"}
Has(e) == IF e.kind = "file" THEN e.has ELSE 0
AllSay(u) == FoldLeft(+, 0, [i \in DOMAIN u.parts |-> u.parts[i].says])
AllHave(u) == FoldLeft(+, 0, [i \in DOMAIN u.parts |-> Has(u.parts[i])])
AllBytes(x) == FoldLeft(+, 0, [i \in DOMAIN SetToSeq(DOMAIN x.data) |-> x.data[SetToSeq(DOMAIN x.data)[i]]])

(* The archive is removed although its files are elsewhere only now: when  *)
(* an extraction succeeds and reports nothing skipped, every file of the   *)
(* archive is in place with its data, and nothing else is.                 *)
ExtractIsWhole ==
  upload # NoUpload =>
    LET x == extractZipIn(upload) IN
      x.err = "" /\ x.skipped = 0 =>
        /\ \A i \in FileParts(upload) :
             /\ upload.parts[i].path \in DOMAIN x.data
             /\ x.data[upload.parts[i].path] = upload.parts[i].has
        /\ Cardinality(DOMAIN x.data) = x.n

(* What is placed is within the caps, whatever the headers say; and an     *)
(* archive is refused for its size only when all of its headers, or the    *)
(* data of its files, exceed the cap.                                      *)
ExtractIsBounded ==
  upload # NoUpload =>
    LET x == extractZipIn(upload) IN
      /\ AllBytes(x) <= zipBytes
      /\ Cardinality(DOMAIN x.data) <= zipFiles
      /\ x.err = "too big" => AllSay(upload) > zipBytes \/ AllHave(upload) > zipBytes

(* An extraction places all of the archive or says so, within the caps.    *)
ExtractInv == ExtractIsWhole /\ ExtractIsBounded
=============================================================================
