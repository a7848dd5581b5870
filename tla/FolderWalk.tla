---------------------------- MODULE FolderWalk -----------------------------
(***************************************************************************)
(* The walk over a folder, with its cap on the depth and its limit on the  *)
(* files, that the list, the folder statistics and the zip archives are    *)
(* made from: walkShared, walkSharedDir and walkSharedDirWithEmpty, and    *)
(* walkAbsDir and walkAbsDirWithEmpty, which have no cap.                  *)
(*                                                                         *)
(* A folder is a tree of nodes, numbered so that parents come before their *)
(* children and, among the children of one folder, in the order of their   *)
(* names.  0 is the folder itself.                                         *)
(***************************************************************************)
EXTENDS Integers, Sequences, FiniteSets, SequencesExt

CONSTANTS
  Nodes,         \* bound: how many nodes a folder has
  maxRelDepth,   \* the cap on the depth
  maxTreeFiles,  \* above which the page does not expand a folder
  maxZipFiles,   \* the most files
  maxZipBytes,   \* and bytes that an archive may have
  NodeSizes,     \* the size of each node, if it is a file
  NoFolder       \* no folder yet

ASSUME FolderWalkAssumption ==
  /\ Nodes \in Nat /\ maxRelDepth \in Nat /\ maxTreeFiles \in Nat
  /\ maxZipFiles \in Nat /\ maxZipBytes \in Nat
  /\ NodeSizes \in [1 .. Nodes -> Nat]

VARIABLE folder   \* the parent and the kind of every node

Node == 1 .. Nodes
InOrder == [n \in Node |-> n]

(* "dot" is what a walk passes over, a dotfile or a symlink, and "shut" a  *)
(* folder that cannot be read.                                             *)
Kinds == {"file", "dir", "dot", "shut"}

IsDir(f, n) == f.kind[n] \in {"dir", "shut"}
SizeOf(n) == NodeSizes[n]

Folders ==
  {f \in [parent : [Node -> 0 .. Nodes - 1], kind : [Node -> Kinds]] :
     \A n \in Node : /\ f.parent[n] < n
                     /\ f.parent[n] # 0 => f.kind[f.parent[n]] # "file"}

-----------------------------------------------------------------------------
(* The folders above a node, as splitParent finds them.                    *)
AboveAll(f) ==
  LET up[n \in 0 .. Nodes] ==
        IF n = 0 \/ f.parent[n] = 0 THEN {} ELSE {f.parent[n]} \cup up[f.parent[n]]
  IN up
Above(f, n) == AboveAll(f)[n]

(* One entry of the folder that is being read, at some depth below a cap.  *)
MutDeeper(depth, cap) == depth > cap
TooDeep(depth, cap) == depth >= cap

Entry(f, cap, limit, depth, w, n) ==
  CASE w.truncated \/ f.kind[n] = "dot" -> w
    [] ~w.truncated /\ IsDir(f, n) ->
         IF TooDeep(depth + 1, cap)
         THEN [w EXCEPT !.deepUnder = @ \cup {n} \cup Above(f, n)]
         ELSE [w EXCEPT !.stack = Append(@, <<n, depth + 1>>), !.dirs = @ \cup {n}]
    [] ~w.truncated /\ f.kind[n] = "file" ->
         IF Len(w.out) >= limit
         THEN [w EXCEPT !.truncated = TRUE]
         ELSE [w EXCEPT !.out = Append(@, n)]

ReadIn(f, d, n) == f.parent[n] = d /\ (d # 0 => f.kind[d] # "shut")

Visit(f, cap, limit, cur, w) ==
  FoldLeft(LAMBDA v, n : IF ReadIn(f, cur[1], n) THEN Entry(f, cap, limit, cur[2], v, n) ELSE v,
           w, InOrder)

(* One round of the loop over the folders that are still to be read.       *)
Round(f, cap, limit, w) ==
  CASE w.truncated \/ w.stack = <<>> -> w
    [] ~w.truncated /\ w.stack # <<>> /\ Len(w.out) >= limit -> [w EXCEPT !.truncated = TRUE]
    [] ~w.truncated /\ w.stack # <<>> /\ Len(w.out) < limit ->
         Visit(f, cap, limit, Last(w.stack), [w EXCEPT !.stack = Front(@)])

(* From the folder, which is itself so deep in the shared one: each folder *)
(* is read at most once, so there are no more rounds than folders.         *)
Start(base) ==
  [stack |-> <<<<0, base>>>>, out |-> <<>>, truncated |-> FALSE, deepUnder |-> {}, dirs |-> {}]
Walk(f, base, cap, limit) ==
  FoldLeft(LAMBDA w, i : Round(f, cap, limit, w), Start(base), [i \in 1 .. Nodes + 1 |-> i])

Listed(w) == ToSet(w.out)

walkShared(f, limit) == Walk(f, 0, maxRelDepth, limit)
walkSharedDirWithEmpty(f, base, limit) == Walk(f, base, maxRelDepth, limit)
walkAbsDir(f, limit) == Walk(f, 0, Nodes + 1, limit)

(* Directories that are above no listed file get an entry of their own, in *)
(* the archive of a shared folder and in that of a host's.                 *)
Ancestors(f, w) == UNION {Above(f, n) : n \in Listed(w)}
EmptyDirs(f, w) == w.dirs \ Ancestors(f, w)
WithEmpty(f, w) == [files |-> w.out, dirs |-> EmptyDirs(f, w), truncated |-> w.truncated]
walkAbsDirWithEmpty(f, limit) == WithEmpty(f, walkAbsDir(f, limit))

(* buildDirStats: how many files are listed under a folder, and why it may *)
(* not be expanded.                                                        *)
Under(f, d, files) == {n \in files : d \in Above(f, n)}
StatDirs(f, w) == Ancestors(f, w) \cup w.deepUnder
MutListOnly(f, w, d) ==
  IF Cardinality(Under(f, d, Listed(w))) > maxTreeFiles THEN "files"
  ELSE IF w.truncated THEN "list" ELSE ""
over(f, w, d) ==
  LET count == Cardinality(Under(f, d, Listed(w))) IN
    CASE count > maxTreeFiles -> "files"
      [] count <= maxTreeFiles /\ d \in w.deepUnder -> "depth"
      [] count <= maxTreeFiles /\ d \notin w.deepUnder /\ w.truncated /\ count > 0 -> "list"
      [] OTHER -> ""

(* The check of handleDownloadZip and serveHostDirZip.                     *)
Total(files) == FoldLeft(+, 0, [i \in DOMAIN files |-> SizeOf(files[i])])
MutLimit == maxZipFiles
ZipLimit == maxZipFiles + 1

zipVerdict(z) ==
  CASE z.files = <<>> -> "zip_empty"
    [] z.files # <<>> /\ (z.truncated \/ Len(z.files) > maxZipFiles \/ Total(z.files) > maxZipBytes) ->
         "zip_too_big"
    [] OTHER -> "ok"

(* What is served: the verdict, and the entries of the archive.            *)
Served(z) == [verdict |-> zipVerdict(z), files |-> ToSet(z.files), dirs |-> z.dirs]
handleDownloadZip(f, base) == Served(WithEmpty(f, walkSharedDirWithEmpty(f, base, ZipLimit)))
serveHostDirZip(f) == Served(walkAbsDirWithEmpty(f, ZipLimit))

-----------------------------------------------------------------------------
(* The reference: what can be reached through folders that are neither     *)
(* passed over nor shut, and what of it lies above the cap.  The folder    *)
(* itself is read however deep it is.                                      *)
Reached(f) == {n \in Node : /\ f.kind[n] # "dot"
                            /\ \A d \in Above(f, n) : f.kind[d] = "dir"}
Depth(f, n) == Cardinality(Above(f, n)) + 1
Files(f) == {n \in Reached(f) : f.kind[n] = "file"}
FilesAbove(f, cap) == {n \in Files(f) : Depth(f, n) = 1 \/ Depth(f, n) <= cap}
DirsAbove(f, cap) == {n \in Reached(f) : IsDir(f, n) /\ Depth(f, n) < cap}

Bases == 0 .. maxRelDepth

(* A walk lists every file above the cap, once, when it was not cut off;   *)
(* it is cut off when there are more files than the limit, and then lists  *)
(* as many as that.                                                        *)
WalkIsExact ==
  folder # NoFolder =>
    \A base \in Bases, limit \in 1 .. Nodes :
      LET w == walkSharedDirWithEmpty(folder, base, limit)
          all == FilesAbove(folder, maxRelDepth - base)
      IN /\ Listed(w) \subseteq all
         /\ Cardinality(Listed(w)) = Len(w.out)
         /\ IF w.truncated THEN Len(w.out) = limit ELSE Listed(w) = all
         /\ Cardinality(all) > limit => w.truncated

(* An archive is refused for its size exactly when it is over a cap, and   *)
(* one that is made holds every file; its files and its entries for empty  *)
(* folders together make every folder that the walk saw.                   *)
IsWhole(f, z, cap) ==
  LET all == FilesAbove(f, cap) IN
    /\ z.verdict = "zip_too_big" <=>
         Cardinality(all) > maxZipFiles \/ Total(SetToSeq(all)) > maxZipBytes
    /\ z.verdict = "ok" =>
         /\ z.files = all
         /\ z.dirs \cup UNION {Above(f, n) : n \in z.files} = DirsAbove(f, cap)

ArchiveIsWhole ==
  folder # NoFolder =>
    /\ \A base \in Bases \ {0} :
         IsWhole(folder, handleDownloadZip(folder, base), maxRelDepth - base)
    /\ IsWhole(folder, serveHostDirZip(folder), Nodes + 1)

(* What the page expands it shows whole: a folder that is not marked over  *)
(* some limit has all its files in the list, at any depth.                 *)
ExpandableIsWhole ==
  folder # NoFolder =>
    \A limit \in 1 .. Nodes :
      LET w == walkShared(folder, limit) IN
        \A d \in StatDirs(folder, w) :
          over(folder, w, d) = "" =>
            Under(folder, d, Listed(w)) = Under(folder, d, Files(folder))

(* Lists say what is there: cut off only by a cap, and marked if they are. *)
ListsInv == WalkIsExact /\ ExpandableIsWhole
=============================================================================
