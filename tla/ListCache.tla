----------------------------- MODULE ListCache -----------------------------
(***************************************************************************)
(* The short-lived caches of directory walks: that of the shared folder    *)
(* (walkShared), which every change made through the server drops, and     *)
(* that of a shared host directory (walkAbsDir), which is also told by the *)
(* mtime of its root.                                                      *)
(*                                                                         *)
(* A version counts the changes of the directory.  A walk reads and stores *)
(* without a lock in between, so it can store what is no longer so.        *)
(***************************************************************************)
EXTENDS Integers

CONSTANTS
  Walkers,    \* the requests that list the directory
  MaxChanges  \* bound: how often it changes

ASSUME ListCacheAssumption == MaxChanges \in Nat

Stages == {"idle", "walk", "store", "done"}
Caches == {"shared", "abs"}

VARIABLES
  tree,      \* the version of the directory
  said,      \* the last version after which the caches were dropped
  entry,     \* of each cache: the version walked and that of the root's mtime
  walker,    \* the requests
  late       \* history: the caches that hold what was stored after its drop

listvars == <<tree, said, entry, walker, late>>

Empty == [seen |-> -1, root |-> -1]

ListTypeOK ==
  /\ tree \in 0 .. MaxChanges
  /\ said \in 0 .. tree
  /\ entry \in [Caches -> {Empty} \cup [seen : 0 .. MaxChanges, root : 0 .. MaxChanges]]
  /\ walker \in [Walkers -> [pc : Stages, of : Caches, seen : 0 .. MaxChanges]]
  /\ late \subseteq Caches

ListInit ==
  /\ tree = 0
  /\ said = 0
  /\ entry = [c \in Caches |-> Empty]
  /\ walker = [w \in Walkers |-> [pc |-> "idle", of |-> "shared", seen |-> 0]]
  /\ late = {}

-----------------------------------------------------------------------------
(* The directory changes, through the server or behind its back.           *)
Change ==
  /\ tree < MaxChanges
  /\ tree' = tree + 1
  /\ UNCHANGED <<said, entry, walker, late>>

(* A handler that made the last changes drops everything, then answers.    *)
MutAbsOnly == [entry EXCEPT !["abs"] = Empty]
Dropped == [c \in Caches |-> Empty]

invalidateListCaches ==
  /\ said < tree
  /\ said' = tree
  /\ entry' = Dropped
  /\ late' = {}
  /\ UNCHANGED <<tree, walker>>

Expire(c) ==
  /\ entry[c] # Empty
  /\ entry' = [entry EXCEPT ![c] = Empty]
  /\ late' = late \ {c}
  /\ UNCHANGED <<tree, said, walker>>

-----------------------------------------------------------------------------
(* A request looks at its cache: getCachedWalkShared, getCachedWalkAbs.    *)
Usable(c) == entry[c] # Empty /\ (c = "abs" => entry[c].root = tree)

Get(w, c) ==
  /\ walker[w].pc = "idle"
  /\ walker' = [walker EXCEPT ![w] = IF Usable(c)
                                     THEN [pc |-> "done", of |-> c, seen |-> entry[c].seen]
                                     ELSE [pc |-> "walk", of |-> c, seen |-> 0]]
  /\ UNCHANGED <<tree, said, entry, late>>

Walks(w) ==
  /\ walker[w].pc = "walk"
  /\ walker' = [walker EXCEPT ![w].pc = "store", ![w].seen = tree]
  /\ UNCHANGED <<tree, said, entry, late>>

(* setCachedWalkShared, setCachedWalkAbs: the root's mtime is that of now. *)
Set(w) ==
  LET c == walker[w].of IN
  /\ walker[w].pc = "store"
  /\ entry' = [entry EXCEPT ![c] = [seen |-> walker[w].seen, root |-> tree]]
  /\ late' = IF walker[w].seen < said THEN late \cup {c} ELSE late \ {c}
  /\ walker' = [walker EXCEPT ![w].pc = "done"]
  /\ UNCHANGED <<tree, said>>

ListNext ==
  \/ Change
  \/ invalidateListCaches
  \/ \E c \in Caches : Expire(c)
  \/ \E w \in Walkers, c \in Caches : Get(w, c)
  \/ \E w \in Walkers : Walks(w) \/ Set(w)

-----------------------------------------------------------------------------
(* Who makes a change and is answered finds it in the next list: a cached  *)
(* answer is never older than the last announced change, but for a walk    *)
(* that began before the change and was stored after the caches were       *)
(* dropped.                                                                *)
OwnChangesSeen ==
  \A c \in Caches \ late : Usable(c) => entry[c].seen >= said
=============================================================================
