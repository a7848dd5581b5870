----------------------------- MODULE HashCache -----------------------------
(***************************************************************************)
(* The hash of a shared file, remembered in .hashcache.json by name, with  *)
(* the size and the mtime that it was computed for, and computed by one    *)
(* request at a time: the others wait for its channel and look again.      *)
(*                                                                         *)
(* The lookup, the flight table, the reading of the file and the store are *)
(* critical sections of their own, and files come and go between them.  A  *)
(* version of a file stands for its content and, as every write leaves a   *)
(* size and mtime of its own, for these two as well.                       *)
(***************************************************************************)
EXTENDS Integers, FiniteSets

CONSTANTS
  Askers,       \* the requests that want a hash
  Names,        \* the files
  MaxVersions,  \* bound: the contents that are ever placed
  hashCacheMax, \* how many hashes are remembered
  None          \* no version, no name, no request

ASSUME HashCacheAssumption ==
  /\ hashCacheMax \in Nat \ {0}
  /\ MaxVersions \in Nat
  /\ None \notin Askers \cup Names \cup Nat

Versions == 1 .. MaxVersions

VARIABLES
  file,        \* the version that each name has
  placed,      \* how many versions there were
  unsaid,      \* the deleted names whose hash has yet to be dropped
  cache,       \* what is remembered of each name: computed for, and digest
  flight,      \* hashFlight: the request that computes
  asker,       \* the requests
  had          \* history: the versions the file had since the request came

hashvars == <<file, placed, unsaid, cache, flight, asker, had>>

Forgotten == [of |-> None, digest |-> None]
Asleep == [pc |-> "idle", name |-> None, of |-> None, digest |-> None, on |-> None]

HashTypeOK ==
  /\ file \in [Names -> Versions \cup {None}]
  /\ placed \in 0 .. MaxVersions
  /\ unsaid \subseteq Names
  /\ cache \in [Names -> [of : Versions \cup {None}, digest : Versions \cup {None}]]
  /\ Cardinality({n \in Names : cache[n] # Forgotten}) <= hashCacheMax
  /\ flight \in [Names -> Askers \cup {None}]
  /\ asker \in [Askers -> [pc     : {"idle", "look", "join", "wait", "hash", "store", "close", "done"},
                           name   : Names \cup {None},
                           of     : Versions \cup {None},
                           digest : Versions \cup {None},
                           on     : Askers \cup {None}]]
  /\ had \in [Askers -> SUBSET Versions]

HashInit ==
  /\ file = [n \in Names |-> None]
  /\ placed = 0
  /\ unsaid = {}
  /\ cache = [n \in Names |-> Forgotten]
  /\ flight = [n \in Names |-> None]
  /\ asker = [p \in Askers |-> Asleep]
  /\ had = [p \in Askers |-> {}]

-----------------------------------------------------------------------------
(* Files come and go.  A delete, and an extraction, drop what is           *)
(* remembered a moment later.                                              *)
Place(n) ==
  /\ file[n] = None
  /\ placed < MaxVersions
  /\ placed' = placed + 1
  /\ file' = [file EXCEPT ![n] = placed + 1]
  /\ had' = [p \in Askers |-> IF asker[p].name = n THEN had[p] \cup {placed + 1} ELSE had[p]]
  /\ UNCHANGED <<unsaid, cache, flight, asker>>

Delete(n) ==
  /\ file[n] # None
  /\ file' = [file EXCEPT ![n] = None]
  /\ unsaid' = unsaid \cup {n}
  /\ UNCHANGED <<placed, cache, flight, asker, had>>

invalidateFileHash(n) ==
  /\ n \in unsaid
  /\ unsaid' = unsaid \ {n}
  /\ cache' = [cache EXCEPT ![n] = Forgotten]
  /\ UNCHANGED <<file, placed, flight, asker, had>>

-----------------------------------------------------------------------------
(* handleFileHash: the file is looked at, before anything else.            *)
handleFileHash(p, n) ==
  /\ asker[p].pc = "idle"
  /\ file[n] # None
  /\ asker' = [asker EXCEPT ![p] = [Asleep EXCEPT !.pc = "look", !.name = n, !.of = file[n]]]
  /\ had' = [had EXCEPT ![p] = {file[n]}]
  /\ UNCHANGED <<file, placed, unsaid, cache, flight>>

MutNameIsEnough(p) == cache[asker[p].name] # Forgotten
Hit(p) == cache[asker[p].name].of = asker[p].of

Look(p) ==
  /\ asker[p].pc = "look"
  /\ asker' = IF Hit(p)
              THEN [asker EXCEPT ![p].pc = "done", ![p].digest = cache[asker[p].name].digest]
              ELSE [asker EXCEPT ![p].pc = "join"]
  /\ UNCHANGED <<file, placed, unsaid, cache, flight, had>>

MutNobody(n) == FALSE
Flying(n) == flight[n] # None

Join(p) ==
  LET n == asker[p].name IN
  /\ asker[p].pc = "join"
  /\ IF Flying(n)
     THEN /\ asker' = [asker EXCEPT ![p].pc = "wait", ![p].on = flight[n]]
          /\ UNCHANGED flight
     ELSE /\ flight' = [flight EXCEPT ![n] = p]
          /\ asker' = [asker EXCEPT ![p].pc = "hash"]
  /\ UNCHANGED <<file, placed, unsaid, cache, had>>

(* The channel of that flight is closed.                                   *)
Wake(p) ==
  /\ asker[p].pc = "wait"
  /\ flight[asker[p].name] # asker[p].on
  /\ asker' = [asker EXCEPT ![p].pc = "look", ![p].on = None]
  /\ UNCHANGED <<file, placed, unsaid, cache, flight, had>>

(* fullSHA256 of what has the name now.  After an error nothing is stored. *)
MutReturns == "done"
AfterError == "close"

HashFile(p) ==
  LET now == file[asker[p].name] IN
  /\ asker[p].pc = "hash"
  /\ asker' = [asker EXCEPT ![p].pc = IF now = None THEN AfterError ELSE "store",
                            ![p].digest = now]
  /\ UNCHANGED <<file, placed, unsaid, cache, flight, had>>

(* The oldest mtimes make room.                                            *)
Remembered(c) == {n \in Names : c[n] # Forgotten}
MutKept(c) == c
Evicted(c) ==
  [n \in Names |->
     IF n \in Remembered(c)
          /\ Cardinality({m \in Remembered(c) : c[m].of > c[n].of}) >= hashCacheMax
     THEN Forgotten ELSE c[n]]

Store(p) ==
  /\ asker[p].pc = "store"
  /\ cache' = Evicted([cache EXCEPT ![asker[p].name] =
                         [of |-> asker[p].of, digest |-> asker[p].digest]])
  /\ asker' = [asker EXCEPT ![p].pc = "close"]
  /\ UNCHANGED <<file, placed, unsaid, flight, had>>

Close(p) ==
  /\ asker[p].pc = "close"
  /\ flight' = [flight EXCEPT ![asker[p].name] = None]
  /\ asker' = [asker EXCEPT ![p].pc = "done"]
  /\ UNCHANGED <<file, placed, unsaid, cache, had>>

Step(p) == Look(p) \/ Join(p) \/ Wake(p) \/ HashFile(p) \/ Store(p) \/ Close(p)

HashNext ==
  \/ \E n \in Names : Place(n) \/ Delete(n) \/ invalidateFileHash(n)
  \/ \E p \in Askers, n \in Names : handleFileHash(p, n)
  \/ \E p \in Askers : Step(p)

-----------------------------------------------------------------------------
(* A hash that is answered is that of a content which the file had between *)
(* the request and its answer, whatever was remembered, replaced, evicted  *)
(* or computed by another request meanwhile.                               *)
HashIsOfFile ==
  \A p \in Askers :
    asker[p].pc = "done" /\ asker[p].digest # None => asker[p].digest \in had[p]

(* One request at a time reads a file to hash it, however many ask.        *)
Computing(n) ==
  {p \in Askers : asker[p].name = n /\ asker[p].pc \in {"hash", "store", "close"}}
SingleFlight == \A n \in Names : Computing(n) \subseteq {flight[n]}

(* Hashes are those of the file, and computed once.                        *)
HashInv == HashIsOfFile /\ SingleFlight

(* Everyone who asks is answered.                                          *)
EveryoneAnswered == \A p \in Askers : asker[p].pc = "look" ~> asker[p].pc = "done"
=============================================================================
