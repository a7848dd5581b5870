------------------------------ MODULE Restore ------------------------------
(***************************************************************************)
(* What a start of the server makes of the files that it finds:            *)
(* RestoreTempShares lists the visible ones again and moves the hidden     *)
(* ones of .shares/<id> to visible names, then SweepTempOrphans removes    *)
(* hidden files that are over a day old.  The first start of a process     *)
(* finds the registry empty, a later one (beamapp.configure) does not.     *)
(*                                                                         *)
(* Only files that the scans see are modelled: not the empty and the       *)
(* hidden ones among the visible, not sidecars.  All visible files want    *)
(* one name, so that they always collide: a place is the number that       *)
(* uniquePath appends.                                                     *)
(***************************************************************************)
EXTENDS Integers, Sequences, FiniteSets, SequencesExt

CONSTANTS
  Guests,   \* the ids of guests' shares
  listMax,  \* shareMax, the most entries of the registry
  MaxTry,   \* bound: the numbers of names that collide
  NoPath    \* the file of a share that is not complete

ASSUME RestoreAssumption == IsFiniteSet(Guests) /\ listMax \in Nat /\ MaxTry \in Nat

Places == 0 .. MaxTry

VARIABLES
  visible,   \* the files of the temp directory: their origin, and if whole
  hidden,    \* .shares: what of a share is retained, and if over a day old
  guests,    \* the entries of guests, and their files
  hosts,     \* how many other entries each path has
  relaying   \* the shares that a relay may still append to

restorevars == <<visible, hidden, guests, hosts, relaying>>

Content == (Guests \cup {"owner"}) \X BOOLEAN

RestoreTypeOK ==
  /\ DOMAIN visible \subseteq Places /\ Range(visible) \subseteq Content
  /\ DOMAIN hidden \subseteq Guests
  /\ Range(hidden) \subseteq [has : {"", "prefix", "whole"}, old : BOOLEAN]
  /\ DOMAIN guests \subseteq Guests /\ Range(guests) \subseteq Places \cup {NoPath}
  /\ hosts \in [Places -> 0 .. listMax]
  /\ relaying \subseteq Guests

RestoreInit ==
  /\ visible = <<>> /\ hidden = <<>> /\ guests = <<>>
  /\ hosts = [p \in Places |-> 0]
  /\ relaying = {}

-----------------------------------------------------------------------------
Put(f, x, v) == [y \in DOMAIN f \cup {x} |-> IF y = x THEN v ELSE f[y]]
Drops(f, S) == [y \in DOMAIN f \ S |-> f[y]]

Entered(g, h) == Cardinality(DOMAIN g) + FoldFunction(+, 0, h)
registryFull(g, h) == Entered(g, h) >= listMax

Vacant(files) == Places \ DOMAIN files
uniquePath(files) == CHOOSE p \in Vacant(files) : \A q \in Vacant(files) : p <= q

(* One visible file gets an entry.                                         *)
Relist(g, s, p) == IF registryFull(g, s.hosts) THEN s ELSE [s EXCEPT !.hosts[p] = @ + 1]

(* One hidden file is moved and gets an entry, unless it belongs to a live *)
(* share, is empty, or cannot be moved.                                    *)
Belongs(g, id) == id \in DOMAIN g

Shown(id, has) == <<id, has = "whole">>

Adopt(g, stuck, s, id) ==
  LET p == uniquePath(s.visible) IN
    IF Belongs(g, id) \/ s.hidden[id].has = "" \/ registryFull(g, s.hosts) \/ id \in stuck
    THEN s
    ELSE [visible |-> Put(s.visible, p, Shown(id, s.hidden[id].has)),
          hidden  |-> Drops(s.hidden, {id}),
          hosts   |-> [s.hosts EXCEPT ![p] = @ + 1]]

(* With the entries g, in the orders of names a and b.                     *)
MutAdoptsFirst(g, s, stuck, a, b) ==
  LET t == FoldLeft(LAMBDA u, id : Adopt(g, stuck, u, id), s, b)
  IN FoldLeft(LAMBDA u, p : Relist(g, u, p), t, SetToSeq(DOMAIN t.visible))
RestoreTempShares(g, s, stuck, a, b) ==
  LET listed == FoldLeft(LAMBDA t, p : Relist(g, t, p), s, a)
  IN FoldLeft(LAMBDA t, id : Adopt(g, stuck, t, id), listed, b)

Orphans(g, h) == {id \in DOMAIN h : id \notin DOMAIN g /\ h[id].old}
SweepTempOrphans(g, s) == [s EXCEPT !.hidden = Drops(@, Orphans(g, @))]

Found(h) == [visible |-> visible, hidden |-> hidden, hosts |-> h]

MutSweepsFirst(g, s, stuck, a, b) ==
  RestoreTempShares(g, SweepTempOrphans(g, s), stuck, a,
                    SelectSeq(b, LAMBDA id : id \notin Orphans(g, s.hidden)))
OnStart(g, s, stuck, a, b) == SweepTempOrphans(g, RestoreTempShares(g, s, stuck, a, b))

(* main and configure; stuck are the files whose move fails, on a full     *)
(* disk for one.  The first start of a process is after a stop or a kill.  *)
Boot(again, stuck) ==
  LET g == IF again THEN guests ELSE <<>>
      h == IF again THEN hosts ELSE [p \in Places |-> 0]
  IN /\ guests' = g
     /\ relaying' = IF again THEN relaying ELSE {}
     /\ Cardinality(DOMAIN hidden) <= Cardinality(Vacant(visible))
     /\ \E a \in SetToSeqs(DOMAIN visible), b \in SetToSeqs(DOMAIN hidden) :
          LET s == OnStart(g, Found(h), stuck, a, b) IN
            visible' = s.visible /\ hidden' = s.hidden /\ hosts' = s.hosts

(* The sweep that a presence request makes.                                *)
Heartbeat ==
  /\ hidden' = SweepTempOrphans(guests, Found(hosts)).hidden
  /\ UNCHANGED <<visible, guests, hosts, relaying>>

-----------------------------------------------------------------------------
(* A guest offers a share, with an id that was never used.                 *)
Offer(id) ==
  /\ id \notin DOMAIN guests \cup DOMAIN hidden \cup relaying
  /\ \A p \in DOMAIN visible : visible[p][1] # id
  /\ ~registryFull(guests, hosts)
  /\ guests' = Put(guests, id, NoPath)
  /\ UNCHANGED <<visible, hidden, hosts, relaying>>

(* A relay opens .shares/<id> and appends, also after its share is gone.   *)
RelayBegins(id) ==
  /\ id \in DOMAIN guests /\ guests[id] = NoPath
  /\ relaying' = relaying \cup {id}
  /\ UNCHANGED <<visible, hidden, guests, hosts>>

Grows(from, to) == from = to \/ from = "" \/ to = "whole"

Retain(id) ==
  /\ id \in relaying
  /\ \E now \in {"", "prefix", "whole"} :
        /\ id \in DOMAIN hidden => Grows(hidden[id].has, now)
        /\ hidden' = Put(hidden, id, [has |-> now, old |-> FALSE])
  /\ UNCHANGED <<visible, guests, hosts, relaying>>

Age(id) ==
  /\ id \in DOMAIN hidden
  /\ hidden' = [hidden EXCEPT ![id].old = TRUE]
  /\ UNCHANGED <<visible, guests, hosts, relaying>>

(* The upload of a share is placed, and what was retained of it removed.   *)
CompleteShare(id) ==
  /\ id \in DOMAIN guests /\ guests[id] = NoPath
  /\ Vacant(visible) # {}
  /\ visible' = Put(visible, uniquePath(visible), <<id, TRUE>>)
  /\ guests' = [guests EXCEPT ![id] = uniquePath(visible)]
  /\ hidden' = Drops(hidden, {id})
  /\ UNCHANGED <<hosts, relaying>>

(* A completion that finds no session, and no file, but all of it retained *)
(* moves that.                                                             *)
migrateLegacyRetained(id) ==
  /\ id \in DOMAIN guests /\ guests[id] \notin DOMAIN visible
  /\ id \in DOMAIN hidden /\ hidden[id].has = "whole"
  /\ Vacant(visible) # {}
  /\ visible' = Put(visible, uniquePath(visible), <<id, TRUE>>)
  /\ guests' = [guests EXCEPT ![id] = uniquePath(visible)]
  /\ hidden' = Drops(hidden, {id})
  /\ UNCHANGED <<hosts, relaying>>

(* The owner copies a file into the directory.                             *)
CopyIn(p) ==
  /\ p \notin DOMAIN visible
  /\ visible' = Put(visible, p, <<"owner", TRUE>>)
  /\ UNCHANGED <<hidden, guests, hosts, relaying>>

UnshareGuest(id) ==
  /\ id \in DOMAIN guests
  /\ guests' = Drops(guests, {id})
  /\ IF guests[id] # NoPath
     THEN visible' = Drops(visible, {guests[id]}) /\ UNCHANGED hidden
     ELSE hidden' = Drops(hidden, {id}) /\ UNCHANGED visible
  /\ UNCHANGED <<hosts, relaying>>

UnshareHost(p) ==
  /\ hosts[p] > 0
  /\ hosts' = [hosts EXCEPT ![p] = @ - 1]
  /\ visible' = Drops(visible, {p})
  /\ UNCHANGED <<hidden, guests, relaying>>

RestoreNext ==
  \/ \E again \in BOOLEAN, stuck \in SUBSET Guests : Boot(again, stuck)
  \/ Heartbeat
  \/ \E id \in Guests :
       \/ Offer(id) \/ RelayBegins(id) \/ Retain(id) \/ Age(id)
       \/ CompleteShare(id) \/ migrateLegacyRetained(id) \/ UnshareGuest(id)
  \/ \E p \in Places : CopyIn(p) \/ UnshareHost(p)

-----------------------------------------------------------------------------
(* What a start finds it keeps: no visible file is replaced, and what was  *)
(* retained is retained still, or visible and listed.  Only what belongs   *)
(* to no live share and is a day old is removed, and at a start only if    *)
(* the registry was full or the move failed.                               *)
Lost(id) ==
  /\ id \in DOMAIN hidden /\ hidden[id].has # ""
  /\ id \notin DOMAIN hidden'
  /\ ~\E p \in DOMAIN visible' \ DOMAIN visible :
        visible'[p] = Shown(id, hidden[id].has) /\ hosts'[p] > 0

Unchanged == \A p \in DOMAIN visible : p \in DOMAIN visible' /\ visible'[p] = visible[p]
Losing == {id \in Guests : Lost(id)}
Orphaned(id) == hidden[id].old /\ id \notin DOMAIN guests'

StartKeepsBytes ==
  [][Losing # {} \/ ~Unchanged =>
       /\ \A again \in BOOLEAN, stuck \in SUBSET Guests :
            Boot(again, stuck) =>
              /\ Unchanged
              /\ \A id \in Losing :
                   Orphaned(id) /\ (registryFull(guests', hosts') \/ id \in stuck)
       /\ Heartbeat => \A id \in Losing : Orphaned(id)]_restorevars

(* A first start lists everything there is once, unless the registry is    *)
(* full: each visible file, and each hidden one that could be moved.       *)
StartListsAll ==
  [][\A stuck \in SUBSET Guests :
       ~registryFull(guests', hosts') /\ Boot(FALSE, stuck) =>
         /\ \A p \in DOMAIN visible' : hosts'[p] = 1
         /\ \A id \in DOMAIN hidden' \ stuck : hidden'[id].has = ""]_restorevars
=============================================================================
