--------------------------- MODULE RegistryProofs ---------------------------
(***************************************************************************)
(* For any number of requests, ids, names and sessions and any cap: the    *)
(* tables of the registry agree, a poll drops only what is missing, the    *)
(* cap is exceeded by less than there are requests, and a poll that        *)
(* nothing disturbs is exact.                                              *)
(***************************************************************************)
EXTENDS Registry, FiniteSetTheorems, TLAPS

-----------------------------------------------------------------------------
(* Counting.                                                               *)

(* Ids, names and requests are finite sets, and so are their subsets.      *)
LEMMA Finite ==
  ASSUME NEW S, S \subseteq Ids \/ S \subseteq Names \/ S \subseteq Procs
  PROVE  IsFiniteSet(S) /\ Cardinality(S) \in Nat
  <1>1. PICK U \in {Ids, Names, Procs} : S \subseteq U
    OBVIOUS
  <1>2. IsFiniteSet(U)
    BY RegistryAssumption
  <1>3. IsFiniteSet(S)
    BY <1>1, <1>2, FS_Subset
  <1>4. QED
    BY <1>3, FS_CardinalityType

(* Some draws a part of the set, all of it if there is room.               *)
LEMMA SomePart ==
  ASSUME NEW n \in Nat, NEW S \in SUBSET Names, NEW T \in Some(n, S)
  PROVE  /\ T \subseteq S
         /\ Cardinality(T) <= n
         /\ T = S \/ Cardinality(T) = n
  <1>1. T \in SUBSET S
    BY DEF Some
  <1>2. Cardinality(S) \in Nat /\ IsFiniteSet(S) /\ Cardinality(T) \in Nat
    BY <1>1, Finite
  <1>3. Cardinality(S) = Cardinality(T) => S = T
    BY <1>1, <1>2, FS_Subset
  <1>4. QED
    BY <1>1, <1>2, <1>3 DEF Some

(* New entries are as many as their names, and each name has one.          *)
LEMMA NewEntries ==
  ASSUME NEW names \in SUBSET Names, NEW S \in SUBSET Ids, NEW new \in Injection(names, S)
  PROVE  /\ Range(new) \subseteq S
         /\ Cardinality(Range(new)) = Cardinality(names)
         /\ \A id \in Range(new) : HostShare(new, id).name \in names /\ HostShare(new, id).sess = None
         /\ \A n \in names : new[n] \in Range(new) /\ HostShare(new, new[n]).name = n
  <1>1. new \in [names -> S] /\ IsInjective(new)
    BY DEF Injection
  <1>2. Range(new) \subseteq S
    BY <1>1 DEF Range
  <1>3. new \in Surjection(names, Range(new)) /\ new \in Injection(names, Range(new))
    BY <1>1 DEF Range, Surjection, Injection
  <1>4. Cardinality(Range(new)) = Cardinality(names)
    BY <1>3, Finite, FS_Surjection
  <1>5. ASSUME NEW id \in Range(new)
        PROVE  HostShare(new, id).name \in names /\ new[HostShare(new, id).name] = id
    BY <1>1, <1>5 DEF Range, HostShare
  <1>6. ASSUME NEW n \in names
        PROVE  new[n] \in Range(new) /\ HostShare(new, new[n]).name = n
    <2>1. new[n] \in Range(new)
      BY <1>1 DEF Range
    <2>2. QED
      BY <1>1, <1>5, <2>1 DEF IsInjective
  <1>7. QED
    BY <1>2, <1>4, <1>5, <1>6 DEF HostShare

(* Room is where shareMax leaves it, and never nothing.                    *)
LEMMA RoomType ==
  /\ Cardinality(Live) \in Nat
  /\ Room \in 1 .. shareMax
  /\ BelowCap => Room = shareMax - Cardinality(Live)
  <1>1. Live \in SUBSET Ids
    BY DEF Live
  <1>2. Cardinality(Live) \in Nat
    BY <1>1, Finite
  <1>3. QED
    BY <1>2, RegistryAssumption DEF Room, BelowCap

(* The names a poll adds: found ones, within the cap.                      *)
LEMMA Adding ==
  ASSUME NEW found \in SUBSET Names, NEW names \in WithinCap(found)
  PROVE  /\ names \subseteq found
         /\ BelowCap => Cardinality(names) <= shareMax - Cardinality(Live)
         /\ BelowCap => names = found \/ Cardinality(names) = shareMax - Cardinality(Live)
         /\ ~BelowCap => names = {}
  <1>1. Cardinality(Live) \in Nat /\ shareMax \in Nat
    BY RoomType, RegistryAssumption
  <1>2. CASE BelowCap
    <2>1. shareMax - Cardinality(Live) \in Nat
      BY <1>1, <1>2 DEF BelowCap
    <2>2. names \in Some(shareMax - Cardinality(Live), found)
      BY <1>2 DEF WithinCap
    <2>3. QED
      BY <1>2, <2>1, <2>2, SomePart
  <1>3. CASE ~BelowCap
    <2>1. names \in Some(0, found)
      BY <1>3 DEF WithinCap
    <2>2. names \subseteq found /\ Cardinality(names) <= 0
      BY <2>1, SomePart
    <2>3. IsFiniteSet(names) /\ Cardinality(names) \in Nat
      BY <2>2, Finite
    <2>4. names = {}
      BY <2>2, <2>3, FS_EmptySet
    <2>5. QED
      BY <1>3, <2>2, <2>4
  <1>4. QED
    BY <1>2, <1>3

-----------------------------------------------------------------------------
(* The tables agree.                                                       *)

LEMMA IdleType == Idle \in Request
  BY RegistryAssumption DEF Idle, Request, PCs

LEMMA RegInit == Init => RegInv
  BY IdleType DEF Init, RegInv, TypeOK, LinksMatch, Live, Idle

(* A step of one request keeps RegInv if it keeps the tables in agreement  *)
(* and links no session but the one the request has made.                  *)
LEMMA RegStep ==
  ASSUME RegInv, NEW p \in Procs, NEW r \in Request,
         req' = [req EXCEPT ![p] = r],
         temp' \subseteq Names,
         staged' \in [Sessions -> {"none", "open", "whole"}],
         calm' \subseteq Procs,
         shares' \in [Ids -> Entry \cup {None}],
         sessToShare' \in [Sessions -> Ids \cup {None}],
         LinksMatch',
         \A s \in Sessions : \/ sessToShare'[s] \in {sessToShare[s], None}
                             \/ req[p].pc = "offer" /\ s = req[p].sess,
         r.pc = "offer" => /\ r.sess \in Sessions
                           /\ sessToShare'[r.sess] = None
                           /\ \A q \in Procs : req[q].sess # r.sess
  PROVE  RegInv'
  <1>1. TypeOK'
    BY DEF RegInv, TypeOK
  <1>2. \A q \in Procs : req'[q] = IF q = p THEN r ELSE req[q]
    BY DEF RegInv, TypeOK
  <1>3. ASSUME NEW q \in Procs, req'[q].pc = "offer"
        PROVE  /\ req'[q].sess \in Sessions
               /\ sessToShare'[req'[q].sess] = None
               /\ \A t \in Procs \ {q} : req'[t].pc = "offer" => req'[t].sess # req'[q].sess
    <2>1. CASE q = p
      BY <1>2, <1>3, <2>1
    <2>2. CASE q # p
      <3>1. req'[q] = req[q] /\ req[q].pc = "offer"
        BY <1>2, <1>3, <2>2
      <3>2. /\ req[q].sess \in Sessions
            /\ sessToShare[req[q].sess] = None
            /\ \A t \in Procs \ {q} : req[t].pc = "offer" => req[t].sess # req[q].sess
        BY <3>1 DEF RegInv
      <3>3. sessToShare'[req[q].sess] = None
        BY <2>2, <3>2
      <3>4. \A t \in Procs \ {q} : req'[t].pc = "offer" => req'[t].sess # req[q].sess
        BY <1>2, <3>2
      <3>5. QED
        BY <3>1, <3>2, <3>3, <3>4
    <2>3. QED
      BY <2>1, <2>2
  <1>4. QED
    BY <1>1, <1>3 DEF RegInv

(* Steps that leave the tables alone.                                      *)
LEMMA QuietStep ==
  ASSUME RegInv, NEW p \in Procs, NEW r \in Request,
         req' = [req EXCEPT ![p] = r],
         UNCHANGED <<shares, sessToShare>>,
         temp' \subseteq Names,
         staged' \in [Sessions -> {"none", "open", "whole"}],
         calm' \subseteq Procs,
         r.pc = "offer" => /\ r.sess \in Sessions
                           /\ sessToShare[r.sess] = None
                           /\ \A q \in Procs : req[q].sess # r.sess
  PROVE  RegInv'
  <1>1. LinksMatch'
    BY DEF RegInv, LinksMatch, Live
  <1>2. QED
    BY <1>1, RegStep DEF RegInv, TypeOK

(* Entries that go leave both tables.                                      *)
LEMMA Unlinked ==
  ASSUME RegInv, NEW ids \in SUBSET Ids, Unlink(ids)
  PROVE  /\ sessToShare' \in [Sessions -> Ids \cup {None}]
         /\ \A s \in Sessions : sessToShare'[s] = IF sessToShare[s] \in ids THEN None
                                                  ELSE sessToShare[s]
  BY DEF Unlink, RegInv, TypeOK

-----------------------------------------------------------------------------
LEMMA SyncSnapshotReg == ASSUME RegInv, NEW p \in Procs, SyncSnapshot(p) PROVE RegInv'
  <1> DEFINE r == [req[p] EXCEPT !.pc = "read", !.seen = Managed, !.room = Room]
  <1>1. Managed \in SUBSET (Ids \X Names)
    BY DEF Managed, Live, Entry, RegInv, TypeOK
  <1>a. req[p] \in Request
    BY DEF RegInv, TypeOK
  <1>2. r \in Request
    BY <1>a, <1>1, RoomType DEF Request, PCs
  <1>3. req' = [req EXCEPT ![p] = r]
    BY DEF SyncSnapshot, RegInv, TypeOK
  <1>4. r.pc = "read"
    BY DEF RegInv, TypeOK, Request
  <1> HIDE DEF r
  <1>5. /\ UNCHANGED <<temp, staged, shares, sessToShare>>
        /\ calm' \subseteq Procs
    BY DEF SyncSnapshot, RegInv, TypeOK
  <1>6. temp' \subseteq Names /\ staged' \in [Sessions -> {"none", "open", "whole"}]
    BY <1>5 DEF RegInv, TypeOK
  <1>7. QED
    BY <1>2, <1>3, <1>4, <1>5, <1>6, QuietStep

LEMMA SyncReadReg == ASSUME RegInv, NEW p \in Procs, SyncRead(p) PROVE RegInv'
  <1>1. PICK found \in Some(req[p].room, Unseen(req[p].seen)) :
           req' = [req EXCEPT ![p].pc = "stat", ![p].found = found]
    BY DEF SyncRead
  <1> DEFINE r == [req[p] EXCEPT !.pc = "stat", !.found = found]
  <1>2. found \subseteq Names
    BY DEF Some, Unseen, RegInv, TypeOK
  <1>a. req[p] \in Request
    BY DEF RegInv, TypeOK
  <1>3. r \in Request
    BY <1>a, <1>2 DEF Request, PCs
  <1>4. req' = [req EXCEPT ![p] = r]
    BY <1>1 DEF RegInv, TypeOK
  <1>5. r.pc = "stat"
    BY DEF RegInv, TypeOK, Request
  <1> HIDE DEF r
  <1>6. QED
    BY <1>3, <1>4, <1>5, QuietStep DEF SyncRead, RegInv, TypeOK

LEMMA SyncStatReg == ASSUME RegInv, NEW p \in Procs, SyncStat(p) PROVE RegInv'
  <1> DEFINE r == [req[p] EXCEPT !.pc = "apply", !.seen = {}, !.gone = Missing(req[p].seen)]
  <1>1. Missing(req[p].seen) \subseteq Ids
    BY DEF Missing
  <1>a. req[p] \in Request
    BY DEF RegInv, TypeOK
  <1>2. r \in Request /\ r.pc = "apply"
    BY <1>a, <1>1 DEF Request, PCs
  <1>3. req' = [req EXCEPT ![p] = r] \/ req' = [req EXCEPT ![p] = Idle]
    BY DEF SyncStat, Reply, RegInv, TypeOK
  <1>4. Idle.pc = "idle"
    BY DEF Idle
  <1> HIDE DEF r
  <1>5. QED
    BY <1>2, <1>3, <1>4, IdleType, QuietStep DEF SyncStat, RegInv, TypeOK

(* What a poll does to the table: new entries for the names it adds, and   *)
(* the entries that are still gone leave.                                  *)
LEMMA Applied ==
  ASSUME RegInv, NEW p \in Procs, SyncApply(p)
  PROVE  \E names \in WithinCap(req[p].found), N \in SUBSET (Ids \ Live) :
           /\ names \subseteq Names
           /\ Cardinality(N) = Cardinality(names)
           /\ \A id \in N : /\ shares'[id] \in Entry
                            /\ shares'[id].sess = None
                            /\ shares'[id].name \in names
           /\ \A n \in names : \E id \in N : shares'[id].name = n
           /\ \A id \in Ids \ N : shares'[id] = IF id \in StillGone(req[p].gone) THEN None
                                                ELSE shares[id]
           /\ shares' \in [Ids -> Entry \cup {None}]
           /\ Live' = (Live \ StillGone(req[p].gone)) \cup N
  <1> DEFINE gone == StillGone(req[p].gone)
  <1>1. PICK names \in WithinCap(req[p].found) : \E new \in Injection(names, FreshIds) :
           shares' = [id \in Ids |-> IF id \in Range(new) THEN HostShare(new, id)
                                     ELSE IF id \in gone THEN None
                                     ELSE shares[id]]
    BY DEF SyncApply
  <1>2. PICK new \in Injection(names, FreshIds) :
           shares' = [id \in Ids |-> IF id \in Range(new) THEN HostShare(new, id)
                                     ELSE IF id \in gone THEN None
                                     ELSE shares[id]]
    BY <1>1
  <1>3. FreshIds \in SUBSET Ids /\ FreshIds \cap Live = {} /\ gone \subseteq Live
    BY DEF FreshIds, StillGone
  <1>4. req[p].found \subseteq Names /\ names \in SUBSET Names
    <2>1. req[p].found \subseteq Names
      BY DEF RegInv, TypeOK, Request
    <2>2. QED
      BY <2>1, Adding
  <1> DEFINE N == Range(new)
  <1>5. /\ N \subseteq FreshIds
        /\ Cardinality(N) = Cardinality(names)
        /\ \A id \in N : HostShare(new, id).name \in names /\ HostShare(new, id).sess = None
        /\ \A n \in names : new[n] \in N /\ HostShare(new, new[n]).name = n
    BY <1>3, <1>4, NewEntries
  <1>6. \A id \in N : HostShare(new, id) \in Entry
    BY <1>4, <1>5 DEF Entry, HostShare
  <1>7. N \in SUBSET (Ids \ Live)
    BY <1>3, <1>5
  <1> HIDE DEF N, gone
  <1>8. \A id \in Ids : shares'[id] = IF id \in N THEN HostShare(new, id)
                                      ELSE IF id \in gone THEN None
                                      ELSE shares[id]
    BY <1>2 DEF N
  <1>9. shares' \in [Ids -> Entry \cup {None}]
    BY <1>2, <1>6 DEF RegInv, TypeOK, N
  <1>10. Live' = (Live \ gone) \cup N
    <2>1. \A id \in N : HostShare(new, id) # None
      BY <1>6, EntryAssumption
    <2>2. \A id \in Ids : shares'[id] # None <=> id \in (Live \ gone) \cup N
      BY <1>8, <1>7, <2>1 DEF Live
    <2>3. Live' = {id \in Ids : shares'[id] # None}
      BY DEF Live
    <2>4. (Live \ gone) \cup N \subseteq Ids
      BY <1>7 DEF Live
    <2>5. QED
      BY <2>2, <2>3, <2>4
  <1>11. \A id \in N : /\ shares'[id] \in Entry
                       /\ shares'[id].sess = None
                       /\ shares'[id].name \in names
    BY <1>5, <1>6, <1>7, <1>8
  <1>12. \A n \in names : \E id \in N : shares'[id].name = n
    BY <1>5, <1>7, <1>8
  <1>13. QED
    BY <1>4, <1>5, <1>7, <1>8, <1>9, <1>10, <1>11, <1>12 DEF gone

LEMMA SyncApplyReg == ASSUME RegInv, NEW p \in Procs, SyncApply(p) PROVE RegInv'
  <1> DEFINE gone == StillGone(req[p].gone)
  <1>1. PICK N \in SUBSET (Ids \ Live) :
           /\ \A id \in N : shares'[id].sess = None
           /\ \A id \in Ids \ N : shares'[id] = IF id \in gone THEN None ELSE shares[id]
           /\ shares' \in [Ids -> Entry \cup {None}]
           /\ Live' = (Live \ gone) \cup N
    BY Applied
  <1>2. gone \in SUBSET Ids /\ Unlink(gone)
    <2>1. gone \in SUBSET Ids
      BY DEF StillGone, Live
    <2>2. Unlink(gone)
      BY Zenon DEF SyncApply
    <2>3. QED
      BY <2>1, <2>2
  <1>3. /\ sessToShare' \in [Sessions -> Ids \cup {None}]
        /\ \A s \in Sessions : sessToShare'[s] = IF sessToShare[s] \in gone THEN None
                                                 ELSE sessToShare[s]
    BY <1>2, Unlinked
  <1> HIDE DEF gone
  <1>4. ASSUME NEW s \in Sessions, sessToShare'[s] # None
        PROVE  sessToShare'[s] \in Live' /\ shares'[sessToShare'[s]].sess = s
    <2>1. sessToShare'[s] = sessToShare[s] /\ sessToShare[s] \notin gone
      BY <1>3, <1>4
    <2>2. sessToShare[s] \in Live /\ shares[sessToShare[s]].sess = s
      BY <1>4, <2>1 DEF RegInv, LinksMatch
    <2>3. shares'[sessToShare[s]] = shares[sessToShare[s]]
      BY <1>1, <2>1, <2>2 DEF Live
    <2>4. QED
      BY <1>1, <2>1, <2>2, <2>3
  <1>5. ASSUME NEW id \in Live', shares'[id].sess # None
        PROVE  sessToShare'[shares'[id].sess] = id
    <2>1. id \in Live \ gone /\ shares'[id] = shares[id]
      BY <1>1, <1>5 DEF Live
    <2>2. sessToShare[shares[id].sess] = id /\ shares[id].sess \in Sessions
      BY <1>5, <2>1 DEF RegInv, LinksMatch, TypeOK, Live, Entry
    <2>3. QED
      BY <1>3, <2>1, <2>2
  <1>6. LinksMatch'
    BY <1>4, <1>5 DEF LinksMatch
  <1>7. /\ req' = [req EXCEPT ![p] = Idle]
        /\ Idle.pc # "offer"
        /\ temp' \subseteq Names
        /\ staged' \in [Sessions -> {"none", "open", "whole"}]
        /\ calm' \subseteq Procs
    BY DEF SyncApply, Reply, Idle, Disturb, RegInv, TypeOK
  <1>8. QED
    BY <1>1, <1>3, <1>6, <1>7, IdleType, RegStep

LEMMA ShareCheckReg == ASSUME RegInv, NEW p \in Procs, ShareCheck(p) PROVE RegInv'
  <1>1. PICK n \in temp \cup {None} : req' = [req EXCEPT ![p].pc = "add", ![p].name = n]
    BY DEF ShareCheck
  <1> DEFINE r == [req[p] EXCEPT !.pc = "add", !.name = n]
  <1>2. req[p] \in Request /\ n \in Names \cup {None}
    BY DEF RegInv, TypeOK
  <1>3. r \in Request /\ r.pc = "add"
    BY <1>2 DEF Request, PCs
  <1>4. req' = [req EXCEPT ![p] = r]
    BY <1>1 DEF RegInv, TypeOK
  <1> HIDE DEF r
  <1>5. QED
    BY <1>3, <1>4, QuietStep DEF ShareCheck, RegInv, TypeOK

LEMMA ShareAddReg == ASSUME RegInv, NEW p \in Procs, ShareAdd(p) PROVE RegInv'
  <1> DEFINE e == [sess |-> None, name |-> req[p].name]
  <1>1. PICK new \in FreshIds : shares' = [shares EXCEPT ![new] = e]
    BY DEF ShareAdd
  <1>2. new \in Ids \ Live
    BY DEF FreshIds
  <1>3. e \in Entry /\ e.sess = None
    BY DEF RegInv, TypeOK, Request, Entry
  <1> HIDE DEF e
  <1>4. shares' \in [Ids -> Entry \cup {None}]
    BY <1>1, <1>3 DEF RegInv, TypeOK
  <1>5. /\ Live' = Live \cup {new}
        /\ shares'[new] = e
        /\ \A id \in Live : shares'[id] = shares[id]
    BY <1>1, <1>2, <1>3, EntryAssumption DEF Live, RegInv, TypeOK
  <1>6. LinksMatch'
    BY <1>3, <1>5 DEF ShareAdd, RegInv, LinksMatch
  <1>7. /\ req' = [req EXCEPT ![p] = Idle]
        /\ Idle.pc # "offer"
        /\ UNCHANGED <<temp, staged, sessToShare>>
        /\ calm' \subseteq Procs
    BY DEF ShareAdd, Reply, Idle, Disturb
  <1>8. QED
    BY <1>4, <1>6, <1>7, IdleType, RegStep DEF RegInv, TypeOK

LEMMA GuestCheckReg == ASSUME RegInv, NEW p \in Procs, GuestCheck(p) PROVE RegInv'
  <1> DEFINE r == [req[p] EXCEPT !.pc = "stage"]
  <1>1. req[p] \in Request
    BY DEF RegInv, TypeOK
  <1>2. r \in Request /\ r.pc = "stage"
    BY <1>1 DEF Request, PCs
  <1>3. req' = [req EXCEPT ![p] = r]
    BY DEF GuestCheck, GoTo, RegInv, TypeOK
  <1> HIDE DEF r
  <1>4. QED
    BY <1>2, <1>3, QuietStep DEF GuestCheck, RegInv, TypeOK

LEMMA GuestStageReg == ASSUME RegInv, NEW p \in Procs, GuestStage(p) PROVE RegInv'
  <1>1. CASE Reply(p) /\ UNCHANGED staged
    <2>1. req' = [req EXCEPT ![p] = Idle] /\ Idle.pc # "offer"
      BY <1>1 DEF Reply, Idle
    <2>2. QED
      BY <1>1, <2>1, IdleType, QuietStep DEF GuestStage, RegInv, TypeOK
  <1>2. ASSUME NEW s \in Sessions,
               staged[s] = "none", sessToShare[s] = None,
               \A q \in Procs : req[q].sess # s,
               staged' \in {[staged EXCEPT ![s] = st] : st \in {"none", "open"}},
               req' = [req EXCEPT ![p].pc = "offer", ![p].sess = s]
        PROVE  RegInv'
    <2> DEFINE r == [req[p] EXCEPT !.pc = "offer", !.sess = s]
    <2>1. req[p] \in Request
      BY DEF RegInv, TypeOK
    <2>2. r \in Request /\ r.sess = s
      BY <2>1 DEF Request, PCs
    <2>3. req' = [req EXCEPT ![p] = r]
      BY <1>2 DEF RegInv, TypeOK
    <2>4. staged' \in [Sessions -> {"none", "open", "whole"}]
      BY <1>2 DEF RegInv, TypeOK
    <2> HIDE DEF r
    <2>5. UNCHANGED <<temp, shares, sessToShare, calm>>
      BY DEF GuestStage
    <2>6. temp' \subseteq Names /\ calm' \subseteq Procs
      BY <2>5 DEF RegInv, TypeOK
    <2>7. QED
      BY <1>2, <2>2, <2>3, <2>4, <2>5, <2>6, QuietStep
  <1>3. QED
    BY <1>1, <1>2 DEF GuestStage

LEMMA GuestOfferReg == ASSUME RegInv, NEW p \in Procs, GuestOffer(p) PROVE RegInv'
  <1> DEFINE s == req[p].sess
             e == [sess |-> s, name |-> None]
  <1>1. PICK new \in FreshIds : /\ shares' = [shares EXCEPT ![new] = e]
                                /\ sessToShare' = [sessToShare EXCEPT ![s] = new]
    BY DEF GuestOffer
  <1>2. new \in Ids \ Live
    BY DEF FreshIds
  <1>3. s \in Sessions /\ sessToShare[s] = None /\ req[p].pc = "offer"
    BY DEF GuestOffer, RegInv
  <1>4. e \in Entry /\ e.sess = s
    BY <1>3 DEF Entry
  <1> HIDE DEF s, e
  <1>5. shares' \in [Ids -> Entry \cup {None}]
    BY <1>1, <1>4 DEF RegInv, TypeOK
  <1>6. /\ Live' = Live \cup {new}
        /\ shares'[new] = e
        /\ \A id \in Live : shares'[id] = shares[id]
    BY <1>1, <1>2, <1>4, EntryAssumption DEF Live, RegInv, TypeOK
  <1>7. /\ sessToShare' \in [Sessions -> Ids \cup {None}]
        /\ \A t \in Sessions : sessToShare'[t] = IF t = s THEN new ELSE sessToShare[t]
    BY <1>1, <1>2 DEF RegInv, TypeOK
  <1>8. ASSUME NEW t \in Sessions, sessToShare'[t] # None
        PROVE  sessToShare'[t] \in Live' /\ shares'[sessToShare'[t]].sess = t
    BY <1>4, <1>6, <1>7, <1>8 DEF RegInv, LinksMatch
  <1>9. ASSUME NEW id \in Live', shares'[id].sess # None
        PROVE  sessToShare'[shares'[id].sess] = id
    <2>1. CASE id = new
      BY <1>3, <1>4, <1>6, <1>7, <2>1
    <2>2. CASE id \in Live
      <3>1. shares[id].sess \in Sessions /\ sessToShare[shares[id].sess] = id
        BY <1>6, <1>9, <2>2 DEF RegInv, LinksMatch, TypeOK, Live, Entry
      <3>2. shares[id].sess # s
        BY <1>3, <2>2, <3>1, RegistryAssumption DEF Live
      <3>3. QED
        BY <1>6, <1>7, <2>2, <3>1, <3>2
    <2>3. QED
      BY <1>6, <2>1, <2>2
  <1>10. LinksMatch'
    BY <1>8, <1>9 DEF LinksMatch
  <1>11. /\ req' = [req EXCEPT ![p] = Idle]
         /\ Idle.pc # "offer"
         /\ UNCHANGED <<temp, staged>>
         /\ calm' \subseteq Procs
    BY DEF GuestOffer, Reply, Idle, Disturb
  <1>12. \A t \in Sessions : \/ sessToShare'[t] \in {sessToShare[t], None}
                             \/ req[p].pc = "offer" /\ t = req[p].sess
    BY <1>3, <1>7 DEF s
  <1>13. QED
    BY <1>5, <1>7, <1>10, <1>11, <1>12, IdleType, RegStep DEF RegInv, TypeOK

LEMMA CompleteLookupReg == ASSUME RegInv, NEW p \in Procs, CompleteLookup(p) PROVE RegInv'
  <1>1. PICK s \in Sessions :
           /\ sessToShare[s] # None
           /\ req' = [req EXCEPT ![p].pc = "check", ![p].sess = s, ![p].id = sessToShare[s]]
    BY DEF CompleteLookup
  <1> DEFINE r == [req[p] EXCEPT !.pc = "check", !.sess = s, !.id = sessToShare[s]]
  <1>2. req[p] \in Request /\ sessToShare[s] \in Ids \cup {None}
    BY DEF RegInv, TypeOK
  <1>3. r \in Request /\ r.pc = "check"
    BY <1>2 DEF Request, PCs
  <1>4. req' = [req EXCEPT ![p] = r]
    BY <1>1 DEF RegInv, TypeOK
  <1> HIDE DEF r
  <1>5. QED
    BY <1>3, <1>4, QuietStep DEF CompleteLookup, RegInv, TypeOK

LEMMA CompleteCheckReg == ASSUME RegInv, NEW p \in Procs, CompleteCheck(p) PROVE RegInv'
  <1> DEFINE r == [req[p] EXCEPT !.pc = "place"]
  <1>1. req[p] \in Request
    BY DEF RegInv, TypeOK
  <1>2. r \in Request /\ r.pc = "place" /\ Idle.pc = "idle"
    BY <1>1 DEF Request, PCs, Idle
  <1>3. req' = [req EXCEPT ![p] = r] \/ req' = [req EXCEPT ![p] = Idle]
    BY DEF CompleteCheck, GoTo, Reply, RegInv, TypeOK
  <1> HIDE DEF r
  <1>4. QED
    BY <1>2, <1>3, IdleType, QuietStep DEF CompleteCheck, RegInv, TypeOK

LEMMA CompletePlaceReg == ASSUME RegInv, NEW p \in Procs, CompletePlace(p) PROVE RegInv'
  <1>1. req[p] \in Request /\ Idle.pc = "idle"
    BY DEF RegInv, TypeOK, Idle
  <1>2. calm' \subseteq Procs /\ UNCHANGED <<shares, sessToShare>>
    BY DEF CompletePlace, Disturb, RegInv, TypeOK
  <1>3. CASE Reply(p) /\ UNCHANGED <<temp, staged>>
    BY <1>1, <1>2, <1>3, IdleType, QuietStep DEF Reply, RegInv, TypeOK
  <1>4. ASSUME NEW n \in Names \ temp, temp' = temp \cup {n},
               \/ /\ req' = [req EXCEPT ![p].pc = "register", ![p].name = n]
                  /\ staged' = [staged EXCEPT ![req[p].sess] = "none"]
               \/ Reply(p) /\ UNCHANGED staged
        PROVE  RegInv'
    <2> DEFINE r == [req[p] EXCEPT !.pc = "register", !.name = n]
    <2>1. r \in Request /\ r.pc = "register"
      BY <1>1 DEF Request, PCs
    <2>2. req' = [req EXCEPT ![p] = r] \/ req' = [req EXCEPT ![p] = Idle]
      BY <1>4 DEF Reply, RegInv, TypeOK
    <2>3. temp' \subseteq Names /\ staged' \in [Sessions -> {"none", "open", "whole"}]
      BY <1>4 DEF RegInv, TypeOK
    <2> HIDE DEF r
    <2>4. QED
      BY <1>1, <1>2, <2>1, <2>2, <2>3, IdleType, QuietStep
  <1>5. QED
    BY <1>3, <1>4 DEF CompletePlace

LEMMA CompleteRegisterReg == ASSUME RegInv, NEW p \in Procs, CompleteRegister(p) PROVE RegInv'
  <1> DEFINE id == req[p].id
  <1>1. /\ req' = [req EXCEPT ![p] = Idle]
        /\ Idle.pc = "idle"
        /\ UNCHANGED <<temp, staged, sessToShare>>
        /\ calm' \subseteq Procs
    BY DEF CompleteRegister, Reply, Idle, Disturb
  <1>2. CASE id \notin Live
    <2>1. shares' = shares
      BY <1>2 DEF CompleteRegister
    <2>2. QED
      BY <1>1, <2>1, IdleType, QuietStep DEF RegInv, TypeOK
  <1>3. CASE id \in Live
    <2>1. shares' = [shares EXCEPT ![id].name = req[p].name]
      BY <1>3 DEF CompleteRegister
    <2>2. id \in Ids /\ shares[id] \in Entry /\ req[p].name \in Names \cup {None}
      BY <1>3 DEF Live, RegInv, TypeOK, Request
    <2>3. /\ shares'[id] \in Entry
          /\ shares'[id].sess = shares[id].sess
          /\ \A i \in Ids \ {id} : shares'[i] = shares[i]
      BY <2>1, <2>2 DEF Entry, RegInv, TypeOK
    <2>4. shares' \in [Ids -> Entry \cup {None}]
      BY <2>1, <2>2, <2>3 DEF RegInv, TypeOK
    <2>5. Live' = Live
      BY <1>3, <2>2, <2>3, EntryAssumption DEF Live
    <2>6. \A i \in Live : shares'[i].sess = shares[i].sess
      BY <2>3 DEF Live
    <2>7. LinksMatch'
      BY <1>1, <2>5, <2>6 DEF RegInv, LinksMatch
    <2>8. QED
      BY <1>1, <2>4, <2>7, IdleType, RegStep DEF RegInv, TypeOK
  <1>4. QED
    BY <1>2, <1>3

LEMMA UnshareDropReg == ASSUME RegInv, NEW p \in Procs, UnshareDrop(p) PROVE RegInv'
  <1>1. PICK id \in Live :
           /\ shares' = [shares EXCEPT ![id] = None]
           /\ Unlink({id})
           /\ req' = [req EXCEPT ![p].pc = "remove",
                        ![p].sess = shares[id].sess, ![p].name = shares[id].name]
    BY DEF UnshareDrop
  <1> DEFINE r == [req[p] EXCEPT !.pc = "remove", !.sess = shares[id].sess,
                                 !.name = shares[id].name]
  <1>2. id \in Ids /\ shares[id] \in Entry /\ req[p] \in Request
    BY DEF Live, RegInv, TypeOK
  <1>3. r \in Request /\ r.pc = "remove"
    BY <1>2 DEF Request, PCs, Entry
  <1>4. req' = [req EXCEPT ![p] = r]
    BY <1>1 DEF RegInv, TypeOK
  <1> HIDE DEF r
  <1>5. /\ sessToShare' \in [Sessions -> Ids \cup {None}]
        /\ \A s \in Sessions : sessToShare'[s] = IF sessToShare[s] = id THEN None
                                                 ELSE sessToShare[s]
    BY <1>1, <1>2, Unlinked
  <1>6. shares' \in [Ids -> Entry \cup {None}]
    BY <1>1 DEF RegInv, TypeOK
  <1>7. Live' = Live \ {id} /\ \A i \in Live \ {id} : shares'[i] = shares[i]
    BY <1>1, <1>2 DEF Live, RegInv, TypeOK
  <1>8. ASSUME NEW s \in Sessions, sessToShare'[s] # None
        PROVE  sessToShare'[s] \in Live' /\ shares'[sessToShare'[s]].sess = s
    BY <1>5, <1>7, <1>8 DEF RegInv, LinksMatch
  <1>9. ASSUME NEW i \in Live', shares'[i].sess # None
        PROVE  sessToShare'[shares'[i].sess] = i
    <2>1. i \in Live /\ i # id /\ shares'[i] = shares[i]
      BY <1>7
    <2>2. shares[i].sess \in Sessions /\ sessToShare[shares[i].sess] = i
      BY <1>9, <2>1 DEF RegInv, LinksMatch, TypeOK, Live, Entry
    <2>3. QED
      BY <1>5, <2>1, <2>2
  <1>10. LinksMatch'
    BY <1>8, <1>9 DEF LinksMatch
  <1>11. UNCHANGED <<temp, staged>> /\ calm' \subseteq Procs
    BY DEF UnshareDrop, Disturb
  <1>12. QED
    BY <1>3, <1>4, <1>5, <1>6, <1>10, <1>11, RegStep DEF RegInv, TypeOK

LEMMA UnshareRemoveReg == ASSUME RegInv, NEW p \in Procs, UnshareRemove(p) PROVE RegInv'
  <1>1. /\ req' = [req EXCEPT ![p] = Idle]
        /\ Idle.pc = "idle"
        /\ UNCHANGED <<shares, sessToShare>>
        /\ calm' \subseteq Procs
        /\ temp' \subseteq Names
    BY DEF UnshareRemove, Reply, Idle, Disturb, RegInv, TypeOK
  <1>2. staged' \in [Sessions -> {"none", "open", "whole"}]
    BY DEF UnshareRemove, RegInv, TypeOK
  <1>3. QED
    BY <1>1, <1>2, IdleType, QuietStep

-----------------------------------------------------------------------------
(* What is no request's doing.                                             *)
LEMMA OutsideReg ==
  ASSUME RegInv,
         \/ \E n \in Names : Appear(n) \/ Vanish(n)
         \/ \E s \in Sessions : Arrive(s) \/ SweepUploads(s)
  PROVE  RegInv'
  <1>1. UNCHANGED <<shares, sessToShare, req>> /\ calm' \subseteq Procs
    BY DEF Appear, Vanish, Arrive, SweepUploads, Disturb, RegInv, TypeOK
  <1>2. temp' \subseteq Names
    BY DEF Appear, Vanish, Arrive, SweepUploads, RegInv, TypeOK
  <1>3. staged' \in [Sessions -> {"none", "open", "whole"}]
    BY DEF Appear, Vanish, Arrive, SweepUploads, RegInv, TypeOK
  <1>4. TypeOK'
    BY <1>1, <1>2, <1>3 DEF RegInv, TypeOK
  <1>5. QED
    BY <1>1, <1>4 DEF RegInv, LinksMatch, Live

(* The entries of a new process.                                           *)
LEMMA Restarted ==
  ASSUME RegInv, Restart
  PROVE  /\ shares' \in [Ids -> Entry \cup {None}]
         /\ \A id \in Live' : shares'[id].sess = None
         /\ Cardinality(Live') <= shareMax
  <1>1. PICK names \in Some(shareMax, temp) : \E new \in Injection(names, Ids) :
           shares' = [id \in Ids |-> IF id \in Range(new) THEN HostShare(new, id) ELSE None]
    BY DEF Restart
  <1>2. PICK new \in Injection(names, Ids) :
           shares' = [id \in Ids |-> IF id \in Range(new) THEN HostShare(new, id) ELSE None]
    BY <1>1
  <1>3. names \in SUBSET Names /\ Cardinality(names) <= shareMax
    <2>1. temp \in SUBSET Names /\ shareMax \in Nat
      BY RegistryAssumption DEF RegInv, TypeOK
    <2>2. QED
      BY <2>1, SomePart
  <1>4. /\ Range(new) \subseteq Ids
        /\ Cardinality(Range(new)) = Cardinality(names)
        /\ \A id \in Range(new) : HostShare(new, id).name \in names /\ HostShare(new, id).sess = None
    BY <1>3, NewEntries
  <1>5. \A id \in Range(new) : HostShare(new, id) \in Entry
    BY <1>3, <1>4 DEF Entry, HostShare
  <1>6. shares' \in [Ids -> Entry \cup {None}]
    BY <1>2, <1>5
  <1>7. Live' = Range(new)
    BY <1>2, <1>4, <1>5, EntryAssumption DEF Live
  <1>8. QED
    BY <1>2, <1>3, <1>4, <1>6, <1>7

LEMMA RestartReg == ASSUME RegInv, Restart PROVE RegInv'
  <1>1. /\ sessToShare' = [s \in Sessions |-> None]
        /\ req' = [p \in Procs |-> Idle]
        /\ Idle.pc = "idle"
    BY DEF Restart, Idle
  <1>2. TypeOK'
    BY <1>1, Restarted, IdleType DEF Restart, Disturb, RegInv, TypeOK
  <1>3. LinksMatch'
    BY <1>1, Restarted DEF LinksMatch
  <1>4. QED
    BY <1>1, <1>2, <1>3 DEF RegInv

LEMMA RegNext == RegInv /\ [Next]_vars => RegInv'
  <1> SUFFICES ASSUME RegInv, [Next]_vars PROVE RegInv'
    OBVIOUS
  <1>1. ASSUME NEW p \in Procs, Handle(p) PROVE RegInv'
    BY <1>1, SyncSnapshotReg, SyncReadReg, SyncStatReg, SyncApplyReg, ShareCheckReg,
       ShareAddReg, GuestCheckReg, GuestStageReg, GuestOfferReg, CompleteLookupReg,
       CompleteCheckReg, CompletePlaceReg, CompleteRegisterReg, UnshareDropReg,
       UnshareRemoveReg DEF Handle
  <1>2. CASE UNCHANGED vars
    BY <1>2 DEF vars, RegInv, TypeOK, LinksMatch, Live
  <1>3. QED
    BY <1>1, <1>2, OutsideReg, RestartReg DEF Next

THEOREM RegInvariant == Spec => []RegInv
  BY RegInit, RegNext, PTL DEF Spec

(* The registry stays well typed (TypeOK): in particular, a poll always    *)
(* looks for at least one file and at most as many as the cap.             *)
THEOREM RegistryTypeCorrect == Spec => []TypeOK
  <1>1. RegInv => TypeOK
    BY DEF RegInv
  <1>2. QED
    BY <1>1, RegInvariant, PTL

(* shares and sessToShare agree, whatever polls, completions and unshares  *)
(* do between the critical sections of an offer (LinksMatch).              *)
THEOREM LinksCorrect == Spec => []LinksMatch
  <1>1. RegInv => LinksMatch
    BY DEF RegInv
  <1>2. QED
    BY <1>1, RegInvariant, PTL

-----------------------------------------------------------------------------
(* A poll drops no share but one whose file is missing (DropsOnlyMissing): *)
(* the look under regMu makes the one before it harmless.                  *)
THEOREM DropsCorrect == Spec => DropsOnlyMissing
  <1>1. ASSUME RegInv, NEW p \in Procs, SyncApply(p), NEW id \in Live
        PROVE  shares'[id] = shares[id] \/ shares[id].name \notin temp \cup {None}
    <2>1. PICK N \in SUBSET (Ids \ Live) :
             \A i \in Ids \ N : shares'[i] = IF i \in StillGone(req[p].gone) THEN None
                                             ELSE shares[i]
      BY <1>1, Applied
    <2>2. id \in Ids \ N
      BY <2>1 DEF Live
    <2>3. QED
      BY <2>1, <2>2 DEF StillGone
  <1>2. RegInv => [\A p \in Procs : SyncApply(p) =>
          \A id \in Live : shares'[id] = shares[id] \/ shares[id].name \notin temp \cup {None}]_vars
    BY <1>1
  <1>3. QED
    BY <1>2, RegInvariant, PTL DEF DropsOnlyMissing

-----------------------------------------------------------------------------
(* The cap.                                                                *)

LEMMA CapInit == Init => CapInv
  <1> SUFFICES ASSUME Init PROVE CapInv
    OBVIOUS
  <1>1. Live = {} /\ Adders = {}
    BY DEF Init, Live, Adders, Idle
  <1>2. Cardinality(Procs) \in Nat \ {0}
    BY RegistryAssumption, Finite, FS_EmptySet
  <1>3. QED
    BY <1>1, <1>2, FS_EmptySet, RegistryAssumption DEF CapInv

(* How many are at work on an addition.                                    *)
LEMMA Workers ==
  ASSUME NEW A, NEW p \in Procs, A \subseteq Procs
  PROVE  /\ Cardinality(A) \in Nat
         /\ Cardinality(Procs) \in Nat
         /\ Cardinality(A) <= Cardinality(Procs)
         /\ p \notin A => Cardinality(A) < Cardinality(Procs)
         /\ p \in A => Cardinality(A \ {p}) = Cardinality(A) - 1
  <1>1. IsFiniteSet(A) /\ Cardinality(A) \in Nat /\ Cardinality(Procs) \in Nat
    BY Finite
  <1>2. Cardinality(A) <= Cardinality(Procs) /\ (Cardinality(A) = Cardinality(Procs) => Procs = A)
    BY RegistryAssumption, FS_Subset
  <1>3. p \in A => Cardinality(A \ {p}) = Cardinality(A) - 1
    BY <1>1, FS_RemoveElement
  <1>4. QED
    BY <1>1, <1>2, <1>3

(* A step of p that adds no entry and does not begin to add one.           *)
LEMMA CapQuiet ==
  ASSUME CapInv, Live' \subseteq Live, Adders' \subseteq Adders
  PROVE  CapInv'
  <1>1. Live \subseteq Ids /\ Adders \subseteq Procs
    BY DEF Live, Adders
  <1>2. IsFiniteSet(Live) /\ IsFiniteSet(Adders) /\ Cardinality(Live) \in Nat /\ Cardinality(Adders) \in Nat
    BY <1>1, Finite
  <1>3. Cardinality(Live') <= Cardinality(Live) /\ Cardinality(Live') \in Nat
    BY <1>2, FS_Subset, FS_CardinalityType
  <1>4. Cardinality(Adders') <= Cardinality(Adders) /\ Cardinality(Adders') \in Nat
    BY <1>2, FS_Subset, FS_CardinalityType
  <1>5. Cardinality(Procs) \in Nat /\ shareMax \in Nat
    BY Finite, RegistryAssumption
  <1>6. QED
    BY <1>2, <1>3, <1>4, <1>5 DEF CapInv

(* A step of p that begins to add an entry, when there is room.            *)
LEMMA CapBegin ==
  ASSUME BelowCap, NEW p \in Procs, Live' = Live
  PROVE  CapInv'
  <1>1. Adders' \subseteq Procs
    BY DEF Adders
  <1>2. Cardinality(Adders') <= Cardinality(Procs) /\ Cardinality(Adders') \in Nat /\ Cardinality(Procs) \in Nat
    BY <1>1, Workers
  <1>3. Cardinality(Live) < shareMax /\ Cardinality(Live) \in Nat /\ shareMax \in Nat
    BY RoomType, RegistryAssumption DEF BelowCap
  <1>4. QED
    BY <1>2, <1>3 DEF CapInv

(* A step of p that adds the entry it was to add.                          *)
LEMMA CapAdd ==
  ASSUME CapInv, NEW p \in Adders, NEW new \in Ids \ Live,
         Live' = Live \cup {new}, Adders' = Adders \ {p}
  PROVE  CapInv'
  <1>1. Live \subseteq Ids /\ Adders \subseteq Procs /\ p \in Procs
    BY DEF Live, Adders
  <1>2. /\ Cardinality(Live) \in Nat
        /\ Cardinality(Live') = Cardinality(Live) + 1
    BY <1>1, Finite, FS_AddElement
  <1>3. /\ Cardinality(Adders) \in Nat
        /\ Cardinality(Procs) \in Nat
        /\ Cardinality(Adders') = Cardinality(Adders) - 1
    BY <1>1, Workers
  <1>4. QED
    BY <1>2, <1>3, RegistryAssumption DEF CapInv

(* A poll adds up to the cap, and is not itself at work on an offer.       *)
LEMMA CapApply ==
  ASSUME RegInv, CapInv, NEW p \in Procs, SyncApply(p)
  PROVE  CapInv'
  <1> DEFINE gone == StillGone(req[p].gone)
  <1>1. PICK names \in WithinCap(req[p].found), N \in SUBSET (Ids \ Live) :
           /\ Cardinality(N) = Cardinality(names)
           /\ Live' = (Live \ gone) \cup N
    BY Applied
  <1>2. req[p].found \in SUBSET Names /\ names \in SUBSET Names
    <2>1. req[p].found \in SUBSET Names
      BY DEF RegInv, TypeOK, Request
    <2>2. QED
      BY <2>1, Adding
  <1>3. Adders' = Adders /\ p \notin Adders
    BY DEF Adders, SyncApply, Reply, Idle, RegInv, TypeOK
  <1>4. Adders \subseteq Procs
    BY DEF Adders
  <1>5. Cardinality(Adders) < Cardinality(Procs) /\ Cardinality(Adders) \in Nat /\ Cardinality(Procs) \in Nat
    BY <1>3, <1>4, Workers
  <1>6. Cardinality(Live') <= Cardinality(Live) + Cardinality(N) /\ Cardinality(Live') \in Nat
    <2>1. Live \subseteq Ids /\ Live' \subseteq Live \cup N
      BY <1>1 DEF Live
    <2>2. IsFiniteSet(Live) /\ IsFiniteSet(N) /\ Live \cap N = {} /\ Cardinality(Live) \in Nat /\ Cardinality(N) \in Nat
      BY <2>1, <1>1, Finite
    <2>3. IsFiniteSet(Live \cup N) /\ Cardinality(Live \cup N) = Cardinality(Live) + Cardinality(N)
      BY <2>2, FS_Union, FS_EmptySet
    <2>4. Cardinality(Live') <= Cardinality(Live \cup N) /\ IsFiniteSet(Live')
      BY <2>1, <2>3, FS_Subset
    <2>5. QED
      BY <2>3, <2>4, FS_CardinalityType
  <1>7. Cardinality(Live) \in Nat /\ shareMax \in Nat /\ Cardinality(N) \in Nat
    BY RoomType, RegistryAssumption, <1>1, Finite
  <1>8. CASE BelowCap
    <2>1. Cardinality(N) <= shareMax - Cardinality(Live)
      BY <1>1, <1>2, <1>8, Adding
    <2>2. QED
      BY <1>3, <1>5, <1>6, <1>7, <2>1 DEF CapInv
  <1>9. CASE ~BelowCap
    <2>1. Cardinality(N) = 0
      BY <1>1, <1>2, <1>9, Adding, FS_EmptySet
    <2>2. QED
      BY <1>3, <1>5, <1>6, <1>7, <2>1 DEF CapInv
  <1>10. QED
    BY <1>8, <1>9

LEMMA NoAdder ==
  ASSUME NEW p \in Procs, \A q \in Procs \ {p} : req'[q] = req[q],
         req'[p].pc \notin {"add", "stage", "offer"}
  PROVE  Adders' \subseteq Adders
  BY DEF Adders

LEMMA CapHandle ==
  ASSUME RegInv, CapInv, NEW p \in Procs, Handle(p)
  PROVE  CapInv'
  <1>1. ASSUME NEW q \in Procs PROVE req[q] \in Request
    BY DEF RegInv, TypeOK
  <1>2. CASE SyncSnapshot(p) \/ SyncRead(p) \/ SyncStat(p)
    <2>1. Live' = Live
      BY <1>2 DEF SyncSnapshot, SyncRead, SyncStat, Live
    <2>2. /\ \A q \in Procs \ {p} : req'[q] = req[q]
          /\ req'[p].pc \in {"idle", "read", "stat", "apply"}
      <3>1. CASE SyncSnapshot(p)
        BY <1>1, <3>1 DEF SyncSnapshot, RegInv, TypeOK, Request
      <3>2. CASE SyncRead(p)
        BY <1>1, <3>2 DEF SyncRead, RegInv, TypeOK, Request
      <3>3. CASE SyncStat(p)
        BY <1>1, <3>3 DEF SyncStat, Reply, Idle, RegInv, TypeOK, Request
      <3>4. QED
        BY <1>2, <3>1, <3>2, <3>3
    <2>3. QED
      BY <2>1, <2>2, NoAdder, CapQuiet
  <1>3. CASE ShareCheck(p) \/ GuestCheck(p)
    <2>1. Live' = Live /\ BelowCap
      BY <1>3 DEF ShareCheck, GuestCheck, Live
    <2>2. QED
      BY <2>1, CapBegin
  <1>4. CASE GuestStage(p)
    <2>1. Live' = Live /\ Adders' \subseteq Adders
      BY <1>1, <1>4 DEF GuestStage, Reply, Idle, Live, Adders, RegInv, TypeOK
    <2>2. QED
      BY <2>1, CapQuiet
  <1>5. CASE ShareAdd(p) \/ GuestOffer(p)
    <2>1. PICK new \in FreshIds, e \in [sess : Sessions \cup {None}, name : Names \cup {None}] :
             shares' = [shares EXCEPT ![new] = e]
      BY <1>1, <1>5 DEF ShareAdd, GuestOffer, Request
    <2>2. new \in Ids \ Live /\ e # None
      BY EntryAssumption DEF FreshIds, Entry
    <2>3. Live' = Live \cup {new}
      BY <2>1, <2>2 DEF Live, RegInv, TypeOK
    <2>4. p \in Adders /\ Adders' = Adders \ {p}
      BY <1>5 DEF ShareAdd, GuestOffer, Reply, Idle, Adders, RegInv, TypeOK
    <2>5. QED
      BY <2>2, <2>3, <2>4, CapAdd
  <1>6. CASE CompleteLookup(p) \/ CompleteCheck(p) \/ CompletePlace(p)
    <2>1. Live' = Live
      BY <1>6 DEF CompleteLookup, CompleteCheck, CompletePlace, Live
    <2>2. /\ \A q \in Procs \ {p} : req'[q] = req[q]
          /\ req'[p].pc \in {"idle", "check", "place", "register"}
      <3>1. CASE CompleteLookup(p)
        BY <1>1, <3>1 DEF CompleteLookup, RegInv, TypeOK, Request
      <3>2. CASE CompleteCheck(p)
        BY <1>1, <3>2 DEF CompleteCheck, GoTo, Reply, Idle, RegInv, TypeOK, Request
      <3>3. CASE CompletePlace(p)
        BY <1>1, <3>3 DEF CompletePlace, Reply, Idle, RegInv, TypeOK, Request
      <3>4. QED
        BY <1>6, <3>1, <3>2, <3>3
    <2>3. QED
      BY <2>1, <2>2, NoAdder, CapQuiet
  <1>7. CASE CompleteRegister(p)
    <2>1. \A id \in Live : shares[id] \in Entry /\ id \in Ids
      BY DEF Live, RegInv, TypeOK
    <2>2. \A id \in Ids \ Live : shares'[id] = shares[id]
      BY <1>7 DEF CompleteRegister, RegInv, TypeOK
    <2>3. Live' \subseteq Live /\ Adders' \subseteq Adders
      BY <1>7, <2>2 DEF CompleteRegister, Reply, Idle, Live, Adders, RegInv, TypeOK
    <2>4. QED
      BY <2>3, CapQuiet
  <1>8. CASE UnshareDrop(p) \/ UnshareRemove(p)
    <2>1. Live' \subseteq Live
      BY <1>8 DEF UnshareDrop, UnshareRemove, Live, RegInv, TypeOK
    <2>2. /\ \A q \in Procs \ {p} : req'[q] = req[q]
          /\ req'[p].pc \in {"idle", "remove"}
      <3>1. CASE UnshareDrop(p)
        BY <1>1, <3>1 DEF UnshareDrop, RegInv, TypeOK, Request
      <3>2. CASE UnshareRemove(p)
        BY <1>1, <3>2 DEF UnshareRemove, Reply, Idle, RegInv, TypeOK, Request
      <3>3. QED
        BY <1>8, <3>1, <3>2
    <2>3. QED
      BY <2>1, <2>2, NoAdder, CapQuiet
  <1>9. QED
    BY <1>2, <1>3, <1>4, <1>5, <1>6, <1>7, <1>8, CapApply DEF Handle

LEMMA CapRestart == ASSUME RegInv, Restart PROVE CapInv'
  <1>1. Adders' = {}
    BY DEF Restart, Adders, Idle
  <1>2. Cardinality(Live') <= shareMax /\ Live' \subseteq Ids
    BY Restarted DEF Live
  <1>3. Cardinality(Live') \in Nat /\ Cardinality(Procs) \in Nat
    BY <1>2, Finite
  <1>4. Cardinality(Procs) # 0
    BY RegistryAssumption, FS_EmptySet
  <1>5. QED
    BY <1>1, <1>2, <1>3, <1>4, FS_EmptySet, RegistryAssumption DEF CapInv

(* The registry exceeds its cap by less than there are requests at work,   *)
(* whatever polls and restarts add (CapBound).                             *)
THEOREM CapCorrect == Spec => []CapBound
  <1>1. ASSUME RegInv, CapInv, [Next]_vars
        PROVE  CapInv'
    <2>1. CASE \E p \in Procs : Handle(p)
      BY <1>1, <2>1, CapHandle
    <2>2. CASE UNCHANGED <<shares, req>>
      BY <1>1, <2>2, CapQuiet DEF Live, Adders
    <2>3. CASE Restart
      BY <1>1, <2>3, CapRestart
    <2>4. QED
      BY <1>1, <2>1, <2>2, <2>3 DEF Next, Appear, Vanish, Arrive, SweepUploads, vars
  <1>2. CapInv => CapBound
    <2>1. Live \subseteq Ids /\ Adders \subseteq Procs
      BY DEF Live, Adders
    <2>2. Cardinality(Live) \in Nat /\ Cardinality(Adders) \in Nat /\ Cardinality(Procs) \in Nat
      BY <2>1, Finite
    <2>3. QED
      BY <2>2, RegistryAssumption DEF CapInv, CapBound
  <1>3. QED
    BY <1>1, <1>2, CapInit, RegInvariant, PTL DEF Spec

-----------------------------------------------------------------------------
(* A poll that nothing disturbs.                                           *)

LEMMA CalmInit == Init => CalmInv
  BY DEF Init, CalmInv

(* What the poll of p knows, by where it is.                               *)
Knows(r) ==
  /\ r.pc \in {"read", "stat"} => r.seen = Managed /\ r.room = Room
  /\ r.pc \in {"stat", "apply"} => r.found \in Some(Room, Unseen(Managed))
  /\ r.pc = "apply" => r.gone = Missing(Managed)

(* A step of p that changes neither the entries nor the files.             *)
LEMMA CalmStep ==
  ASSUME CalmInv, NEW p \in Procs,
         UNCHANGED <<temp, shares>>,
         calm' \subseteq calm \cup {p},
         \A q \in Procs \ {p} : req'[q] = req[q],
         calm \subseteq Procs,
         p \in calm' => Knows(req'[p])
  PROVE  CalmInv'
  <1>1. Live' = Live
    BY DEF Live
  <1>2. Managed' = Managed
    BY <1>1 DEF Managed
  <1>3. Room' = Room
    BY <1>1 DEF Room, BelowCap
  <1>4. Unseen(Managed)' = Unseen(Managed) /\ Missing(Managed)' = Missing(Managed)
    BY <1>2 DEF Unseen, Missing
  <1>5. ASSUME NEW q \in calm' PROVE Knows(req'[q])
    <2>1. CASE q = p
      BY <2>1, <1>5
    <2>2. CASE q # p
      <3>1. q \in calm /\ req'[q] = req[q]
        BY <2>2
      <3>2. QED
        BY <3>1 DEF CalmInv, Knows
    <2>3. QED
      BY <2>1, <2>2
  <1>6. QED
    BY <1>2, <1>3, <1>4, <1>5 DEF CalmInv, Knows

(* What a request that is no poll may be.                                  *)
LEMMA NoPoll ==
  ASSUME NEW r, r.pc \notin {"read", "stat", "apply"}
  PROVE  Knows(r)
  BY DEF Knows

LEMMA CalmHandle ==
  ASSUME RegInv, CalmInv, NEW p \in Procs, Handle(p)
  PROVE  CalmInv'
  <1>1. calm \subseteq Procs /\ req[p] \in Request /\ DOMAIN req = Procs
    BY DEF RegInv, TypeOK
  <1>2. CASE calm' = {}
    BY <1>2 DEF CalmInv
  <1>3. CASE SyncSnapshot(p)
    <2>1. /\ req'[p].pc = "read" /\ req'[p].seen = Managed /\ req'[p].room = Room
          /\ \A q \in Procs \ {p} : req'[q] = req[q]
          /\ calm' = calm \cup {p}
          /\ UNCHANGED <<temp, shares>>
      BY <1>1, <1>3 DEF SyncSnapshot, Request, RegInv, TypeOK
    <2>2. Knows(req'[p])
      BY <2>1 DEF Knows
    <2>3. QED
      BY <1>1, <2>1, <2>2, CalmStep
  <1>4. CASE SyncRead(p)
    <2>1. PICK found \in Some(req[p].room, Unseen(req[p].seen)) :
             req' = [req EXCEPT ![p].pc = "stat", ![p].found = found]
      BY <1>4 DEF SyncRead
    <2>2. /\ req'[p].pc = "stat"
          /\ req'[p].found = found
          /\ req'[p].seen = req[p].seen
          /\ req'[p].room = req[p].room
          /\ \A q \in Procs \ {p} : req'[q] = req[q]
      BY <1>1, <2>1 DEF Request, RegInv, TypeOK
    <2>3. calm' = calm /\ UNCHANGED <<temp, shares>> /\ req[p].pc = "read"
      BY <1>4 DEF SyncRead
    <2>4. ASSUME p \in calm' PROVE Knows(req'[p])
      <3>1. req[p].seen = Managed /\ req[p].room = Room
        BY <2>3, <2>4 DEF CalmInv
      <3>2. QED
        BY <2>1, <2>2, <3>1 DEF Knows
    <2>5. QED
      BY <1>1, <2>2, <2>3, <2>4, CalmStep
  <1>5. CASE SyncStat(p)
    <2>1. calm' = calm /\ UNCHANGED <<temp, shares>> /\ req[p].pc = "stat"
      BY <1>5 DEF SyncStat
    <2>2. CASE Reply(p)
      <3>1. req'[p].pc = "idle" /\ \A q \in Procs \ {p} : req'[q] = req[q]
        BY <1>1, <2>2 DEF Reply, Idle, RegInv, TypeOK
      <3>2. QED
        BY <1>1, <2>1, <3>1, NoPoll, CalmStep
    <2>3. CASE req' = [req EXCEPT ![p].pc = "apply", ![p].seen = {},
                         ![p].gone = Missing(req[p].seen)]
      <3>1. /\ req'[p].pc = "apply"
            /\ req'[p].found = req[p].found
            /\ req'[p].gone = Missing(req[p].seen)
            /\ \A q \in Procs \ {p} : req'[q] = req[q]
        BY <1>1, <2>3 DEF Request, RegInv, TypeOK
      <3>2. ASSUME p \in calm' PROVE Knows(req'[p])
        <4>1. req[p].seen = Managed /\ req[p].found \in Some(Room, Unseen(Managed))
          BY <2>1, <3>2 DEF CalmInv
        <4>2. QED
          BY <3>1, <4>1 DEF Knows
      <3>3. QED
        BY <1>1, <2>1, <3>1, <3>2, CalmStep
    <2>4. QED
      BY <1>5, <2>2, <2>3 DEF SyncStat
  <1>6. ASSUME calm' = calm, UNCHANGED <<temp, shares>>,
               req'[p].pc \notin {"read", "stat", "apply"},
               \A q \in Procs \ {p} : req'[q] = req[q]
        PROVE  CalmInv'
    BY <1>1, <1>6, NoPoll, CalmStep
  <1>7. CASE ShareCheck(p) \/ GuestCheck(p)
    <2>1. calm' = calm /\ UNCHANGED <<temp, shares>>
      BY <1>7 DEF ShareCheck, GuestCheck
    <2>2. req'[p].pc \in {"add", "stage"} /\ \A q \in Procs \ {p} : req'[q] = req[q]
      BY <1>1, <1>7 DEF ShareCheck, GuestCheck, GoTo, Request, RegInv, TypeOK
    <2>3. QED
      BY <1>6, <2>1, <2>2
  <1>8. CASE GuestStage(p)
    <2>1. calm' = calm /\ UNCHANGED <<temp, shares>>
      BY <1>8 DEF GuestStage
    <2>2. req'[p].pc \in {"offer", "idle"} /\ \A q \in Procs \ {p} : req'[q] = req[q]
      BY <1>1, <1>8 DEF GuestStage, Reply, Idle, Request, RegInv, TypeOK
    <2>3. QED
      BY <1>6, <2>1, <2>2
  <1>9. CASE CompleteLookup(p)
    <2>1. calm' = calm /\ UNCHANGED <<temp, shares>>
      BY <1>9 DEF CompleteLookup
    <2>2. req'[p].pc = "check" /\ \A q \in Procs \ {p} : req'[q] = req[q]
      BY <1>1, <1>9 DEF CompleteLookup, Request, RegInv, TypeOK
    <2>3. QED
      BY <1>6, <2>1, <2>2
  <1>10. CASE CompleteCheck(p)
    <2>1. calm' = calm /\ UNCHANGED <<temp, shares>>
      BY <1>10 DEF CompleteCheck
    <2>2. req'[p].pc \in {"place", "idle"} /\ \A q \in Procs \ {p} : req'[q] = req[q]
      BY <1>1, <1>10 DEF CompleteCheck, GoTo, Reply, Idle, Request, RegInv, TypeOK
    <2>3. QED
      BY <1>6, <2>1, <2>2
  <1>11. CASE CompletePlace(p)
    <2>1. CASE Reply(p) /\ UNCHANGED <<temp, staged, calm>>
      <3>1. UNCHANGED shares
        BY <1>11 DEF CompletePlace
      <3>2. req'[p].pc = "idle" /\ \A q \in Procs \ {p} : req'[q] = req[q]
        BY <1>1, <2>1 DEF Reply, Idle, RegInv, TypeOK
      <3>3. QED
        BY <1>6, <2>1, <3>1, <3>2
    <2>2. QED
      BY <1>2, <1>11, <2>1 DEF CompletePlace, Disturb
  <1>12. QED
    BY <1>2, <1>3, <1>4, <1>5, <1>7, <1>8, <1>9, <1>10, <1>11
       DEF Handle, SyncApply, ShareAdd, GuestOffer, CompleteRegister, UnshareDrop,
           UnshareRemove, Disturb

LEMMA CalmNext ==
  ASSUME RegInv, CalmInv, [Next]_vars
  PROVE  CalmInv'
  <1>1. CASE \E p \in Procs : Handle(p)
    BY <1>1, CalmHandle
  <1>2. CASE calm' = {}
    BY <1>2 DEF CalmInv
  <1>3. CASE UNCHANGED <<temp, shares, req, calm>>
    BY <1>3 DEF CalmInv, Managed, Live, Room, BelowCap, Unseen, Missing
  <1>4. QED
    BY <1>1, <1>2, <1>3 DEF Next, Appear, Vanish, Arrive, SweepUploads, Restart, Disturb, vars

LEMMA CalmInvariant == Spec => []CalmInv
  BY CalmInit, CalmNext, RegInvariant, PTL DEF Spec

(* A name is listed exactly if a live entry has it.                        *)
LEMMA ListedNames ==
  ASSUME NEW n
  PROVE  n \in Listed(Managed) <=> n # None /\ \E id \in Live : shares[id].name = n
  <1>1. ASSUME NEW id \in Live, shares[id].name = n, n # None
        PROVE  n \in Listed(Managed)
    <2>1. <<id, n>> \in Managed /\ <<id, n>>[2] = n
      BY <1>1 DEF Managed
    <2>2. QED
      BY <2>1 DEF Listed
  <1>2. ASSUME n \in Listed(Managed)
        PROVE  n # None /\ \E id \in Live : shares[id].name = n
    <2>1. PICK pair \in Managed : pair[2] = n
      BY <1>2 DEF Listed
    <2>2. QED
      BY <2>1 DEF Managed
  <1>3. QED
    BY <1>1, <1>2

(* The same after a step.                                                  *)
LEMMA ListedAfter ==
  ASSUME NEW n
  PROVE  n \in Listed(Managed') <=> n # None /\ \E id \in Live' : shares'[id].name = n
  <1>1. ASSUME NEW id \in Live', shares'[id].name = n, n # None
        PROVE  n \in Listed(Managed')
    <2>1. <<id, n>> \in Managed' /\ <<id, n>>[2] = n
      BY <1>1 DEF Managed
    <2>2. QED
      BY <2>1 DEF Listed
  <1>2. ASSUME n \in Listed(Managed')
        PROVE  n # None /\ \E id \in Live' : shares'[id].name = n
    <2>1. PICK pair \in Managed' : pair[2] = n
      BY <1>2 DEF Listed
    <2>2. QED
      BY <2>1 DEF Managed
  <1>3. QED
    BY <1>1, <1>2

(* Exactness, of the state before and the state after.                     *)
Exact ==
  /\ Listed(Managed') \subseteq temp
  /\ temp \subseteq Listed(Managed') \/ Cardinality(Live \cup Live') >= shareMax

(* A poll that finds nothing to do.                                        *)
LEMMA ExactIdle ==
  ASSUME RegInv, CalmInv, NEW p \in calm, SyncStat(p), req'[p].pc = "idle"
  PROVE  Exact
  <1>1. req[p].seen = Managed /\ req[p].found \in Some(Room, Unseen(Managed))
    BY DEF CalmInv, SyncStat
  <1>2. req[p].found = {} /\ Missing(Managed) = {}
    <2>1. CASE ~(req[p].found = {} /\ Missing(Managed) = {})
      <3>1. req' = [req EXCEPT ![p].pc = "apply", ![p].seen = {},
                      ![p].gone = Missing(req[p].seen)]
        BY <1>1, <2>1 DEF SyncStat
      <3>2. req'[p].pc = "apply"
        BY <3>1 DEF RegInv, TypeOK, Request
      <3>3. QED
        BY <3>2
    <2>2. QED
      BY <2>1
  <1>3. Managed' = Managed
    BY DEF SyncStat, Managed, Live
  <1>4. Listed(Managed) \subseteq temp
    <2>1. ASSUME NEW id \in Live, shares[id].name # None PROVE shares[id].name \in temp
      <3>1. id \in Ids /\ shares[id].name \in Names /\ <<id, shares[id].name>> \in Managed
        BY <2>1 DEF Live, Managed, RegInv, TypeOK, Entry
      <3>2. QED
        BY <1>2, <3>1 DEF Missing
    <2>2. QED
      BY <2>1, ListedNames
  <1>5. temp \subseteq Listed(Managed)
    <2>1. Unseen(Managed) \in SUBSET Names /\ Room \in Nat \ {0}
      BY RoomType, RegistryAssumption DEF Unseen, RegInv, TypeOK
    <2>2. Unseen(Managed) = {}
      BY <1>1, <1>2, <2>1, SomePart, FS_EmptySet
    <2>3. QED
      BY <2>2 DEF Unseen
  <1>6. QED
    BY <1>3, <1>4, <1>5 DEF Exact

(* A poll that finds something: what it adds is all there is to add, or    *)
(* the registry becomes full with it.                                      *)
LEMMA ExactApply ==
  ASSUME RegInv, CalmInv, NEW p \in calm, SyncApply(p)
  PROVE  Exact
  <1> DEFINE gone == StillGone(Missing(Managed))
             found == req[p].found
  <1>1. found \in Some(Room, Unseen(Managed)) /\ req[p].gone = Missing(Managed)
    BY DEF CalmInv, SyncApply
  <1>2. p \in Procs
    BY DEF RegInv, TypeOK
  <1>3. PICK names \in WithinCap(found), N \in SUBSET (Ids \ Live) :
           /\ names \subseteq Names
           /\ Cardinality(N) = Cardinality(names)
           /\ \A id \in N : /\ shares'[id] \in Entry
                            /\ shares'[id].name \in names
           /\ \A n \in names : \E id \in N : shares'[id].name = n
           /\ \A id \in Ids \ N : shares'[id] = IF id \in gone THEN None ELSE shares[id]
           /\ Live' = (Live \ gone) \cup N
    BY <1>1, <1>2, Applied
  <1>4. /\ Unseen(Managed) \in SUBSET Names
        /\ Room \in Nat
        /\ temp \subseteq Names
    BY RoomType, RegistryAssumption DEF Unseen, RegInv, TypeOK
  <1>5. /\ found \subseteq Unseen(Managed)
        /\ found = Unseen(Managed) \/ Cardinality(found) = Room
    BY <1>1, <1>4, SomePart
  <1>6. /\ names \subseteq found
        /\ BelowCap => names = found \/ Cardinality(names) = shareMax - Cardinality(Live)
    <2>1. found \in SUBSET Names
      BY <1>4, <1>5
    <2>2. QED
      BY <1>3, <2>1, Adding
  <1>7. \A id \in Live : /\ id \in Ids \ N
                         /\ shares[id].name \in Names \cup {None}
    BY <1>3 DEF Live, RegInv, TypeOK, Entry
  <1>8. ASSUME NEW id \in Live \ gone, shares[id].name # None
        PROVE  shares[id].name \in temp
    <2>1. <<id, shares[id].name>> \in Managed /\ shares[id].name \in Names /\ id \in Ids
      BY <1>7, <1>8 DEF Managed
    <2>2. ASSUME shares[id].name \notin temp PROVE FALSE
      <3>1. id \in Missing(Managed)
        BY <2>1, <2>2 DEF Missing
      <3>2. id \in gone
        BY <1>8, <2>2, <3>1 DEF StillGone
      <3>3. QED
        BY <1>8, <3>2
    <2>3. QED
      BY <2>2
  <1> HIDE DEF gone, found
  <1>9. Listed(Managed') \subseteq temp
    <2>1. ASSUME NEW id \in Live', shares'[id].name # None
          PROVE  shares'[id].name \in temp
      <3>1. CASE id \in N
        BY <1>3, <1>5, <1>6, <3>1 DEF Unseen
      <3>2. CASE id \in Live \ gone
        <4>1. shares'[id] = shares[id]
          BY <1>3, <1>7, <3>2
        <4>2. QED
          BY <1>8, <2>1, <3>2, <4>1
      <3>3. QED
        BY <1>3, <3>1, <3>2
    <2>2. QED
      BY <2>1, ListedAfter
  <1>10. Cardinality(Live \cup Live') >= Cardinality(Live) + Cardinality(names)
    <2>1. Live \subseteq Ids /\ N \subseteq Ids /\ Live \cap N = {} /\ Live \cup Live' = Live \cup N
      BY <1>3 DEF Live
    <2>2. IsFiniteSet(Live) /\ IsFiniteSet(N) /\ Cardinality(Live) \in Nat /\ Cardinality(N) \in Nat
      BY <2>1, Finite
    <2>3. Cardinality(Live \cup N) = Cardinality(Live) + Cardinality(N) - Cardinality(Live \cap N)
      BY <2>2, FS_Union
    <2>4. Cardinality(Live \cap N) = 0
      BY <2>1, FS_EmptySet
    <2>5. Cardinality(Live \cup Live') = Cardinality(Live \cup N)
      BY <2>1, Zenon
    <2>6. QED
      BY <1>3, <2>2, <2>3, <2>4, <2>5
  <1>11. Cardinality(Live) \in Nat /\ shareMax \in Nat /\ Cardinality(names) \in Nat
    BY <1>3, RoomType, RegistryAssumption, Finite
  <1>12. CASE names = Unseen(Managed)
    <2>1. ASSUME NEW n \in temp PROVE n \in Listed(Managed')
      <3>1. n # None
        BY <1>4, RegistryAssumption
      <3>2. CASE n \in Unseen(Managed)
        <4>1. PICK id \in N : shares'[id].name = n
          BY <1>3, <1>12, <3>2
        <4>2. id \in Live'
          BY <1>3
        <4>3. QED
          BY <3>1, <4>1, <4>2, ListedAfter
      <3>3. CASE n \in Listed(Managed)
        <4>1. PICK id \in Live : shares[id].name = n
          BY <3>3, ListedNames
        <4>2. id \notin gone
          BY <4>1 DEF StillGone, gone
        <4>3. id \in Live' /\ shares'[id].name = n
          BY <1>3, <1>7, <4>1, <4>2
        <4>4. QED
          BY <3>1, <4>3, ListedAfter
      <3>4. QED
        BY <3>2, <3>3 DEF Unseen
    <2>2. QED
      BY <1>9, <2>1 DEF Exact
  <1>13. CASE ~BelowCap
    <2>1. Cardinality(Live) >= shareMax
      BY <1>11, <1>13 DEF BelowCap
    <2>2. Cardinality(Live \cup Live') \in Nat
      <3>1. Live \cup Live' \subseteq Ids
        BY <1>3 DEF Live
      <3>2. QED
        BY <3>1, Finite
    <2>3. QED
      BY <1>9, <1>10, <1>11, <2>1, <2>2 DEF Exact
  <1>14. CASE BelowCap /\ names # Unseen(Managed)
    <2>1. Cardinality(names) = shareMax - Cardinality(Live)
      <3>1. CASE names = found
        BY <1>5, <1>14, <3>1, RoomType
      <3>2. CASE names # found
        BY <1>6, <1>14, <3>2
      <3>3. QED
        BY <3>1, <3>2
    <2>2. Cardinality(Live) + Cardinality(names) = shareMax
      BY <1>11, <2>1
    <2>3. QED
      BY <1>9, <1>10, <2>2 DEF Exact
  <1>15. QED
    BY <1>12, <1>13, <1>14

(* A poll that nothing disturbs lists what is there, all of it unless the  *)
(* registry is full, and nothing else (SyncIsExact).                       *)
THEOREM SyncCorrect == Spec => SyncIsExact
  <1>1. RegInv /\ CalmInv =>
          [\A p \in calm : (SyncStat(p) /\ req'[p].pc = "idle") \/ SyncApply(p) =>
             /\ Listed(Managed') \subseteq temp
             /\ temp \subseteq Listed(Managed') \/ Cardinality(Live \cup Live') >= shareMax]_vars
    BY ExactIdle, ExactApply DEF Exact
  <1>2. QED
    BY <1>1, RegInvariant, CalmInvariant, PTL DEF SyncIsExact
=============================================================================
