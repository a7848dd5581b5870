------------------------------ MODULE Registry ------------------------------
(***************************************************************************)
(* The registry of shares, in memory under regMu, and the temp directory   *)
(* whose files it offers: polls of /api/shares that bring the registry in  *)
(* line with the directory, the owner's and the guests' shares, the        *)
(* completion of a guest's upload, /api/unshare and the restart.           *)
(*                                                                         *)
(* regMu is never held across disk I/O, so each handler decides on what it *)
(* saw in one critical section and acts in a later one.  A critical        *)
(* section is one step here, and so is each look at the disk.  The names   *)
(* are those of files at the top of the directory; that uniquePath and the *)
(* reservation give a name to one file only is the matter of Placement.    *)
(***************************************************************************)
EXTENDS Integers, FiniteSets, Functions

CONSTANTS
  Procs,     \* the goroutines that serve requests
  Ids,       \* share ids (the code draws 96 random bits for each)
  Names,     \* names of files in the temp directory
  Sessions,  \* ids of guests' upload sessions
  shareMax,  \* the cap on shares
  None       \* no entry, no id, no name, no session

ASSUME RegistryAssumption ==
  /\ IsFiniteSet(Procs) /\ Procs # {}
  /\ IsFiniteSet(Ids) /\ IsFiniteSet(Names)
  /\ shareMax \in Nat \ {0}
  /\ None \notin Ids \cup Names \cup Sessions

VARIABLES
  temp,         \* the names that lead to a file in the temp directory
  staged,       \* how far each upload session has come
  shares,       \* the entry of each share id, or None
  sessToShare,  \* the share id of each session, or None
  req,          \* what each goroutine is doing
  calm          \* history: the polls that nothing has disturbed so far

vars == <<temp, staged, shares, sessToShare, req, calm>>

(* A host's share has no session and, when its file lies outside of the    *)
(* temp directory, no name; a guest's has no name until it is complete.    *)
Entry == [sess : Sessions \cup {None}, name : Names \cup {None}]

ASSUME EntryAssumption == None \notin Entry

PCs == {"idle", "read", "stat", "apply", "add", "stage", "offer",
        "check", "place", "register", "remove"}

Idle == [pc |-> "idle", seen |-> {}, room |-> 1, found |-> {}, gone |-> {},
         id |-> None, sess |-> None, name |-> None]

Request == [pc    : PCs,
            seen  : SUBSET (Ids \X Names),    \* a poll's snapshot,
            room  : 1 .. shareMax,            \* how many files it looks for,
            found : SUBSET Names,             \* those that were not in it,
            gone  : SUBSET Ids,               \* and shares without their file
            id    : Ids \cup {None},
            sess  : Sessions \cup {None},
            name  : Names \cup {None}]

TypeOK ==
  /\ temp \subseteq Names
  /\ staged \in [Sessions -> {"none", "open", "whole"}]
  /\ shares \in [Ids -> Entry \cup {None}]
  /\ sessToShare \in [Sessions -> Ids \cup {None}]
  /\ req \in [Procs -> Request]
  /\ calm \subseteq Procs

Init ==
  /\ temp = {}
  /\ staged = [s \in Sessions |-> "none"]
  /\ shares = [id \in Ids |-> None]
  /\ sessToShare = [s \in Sessions |-> None]
  /\ req = [p \in Procs |-> Idle]
  /\ calm = {}

-----------------------------------------------------------------------------
GoTo(p, pc) == req' = [req EXCEPT ![p].pc = pc]
Reply(p) == req' = [req EXCEPT ![p] = Idle]

Live == {id \in Ids : shares[id] # None}
Managed == {<<id, shares[id].name>> : id \in {i \in Live : shares[i].name # None}}
Listed(pairs) == {pair[2] : pair \in pairs}

(* randHex: an id that nothing has.                                        *)
FreshIds ==
  {id \in Ids \ Live : \A p \in Procs : /\ id \notin req[p].gone \cup {req[p].id}
                                       /\ \A pair \in req[p].seen : pair[1] # id}

(* The entry of a new id for a file found in the directory.                *)
HostShare(new, id) == [sess |-> None, name |-> CHOOSE n \in DOMAIN new : new[n] = id]

(* Entries leave shares and sessToShare together.                          *)
MutKeepLink(ids) == UNCHANGED sessToShare
Unlink(ids) == sessToShare' = [s \in Sessions |-> IF sessToShare[s] \in ids
                                                  THEN None ELSE sessToShare[s]]

(* What changes the registry or the directory disturbs every poll.         *)
Disturb == calm' = {}

BelowCap == Cardinality(Live) < shareMax

-----------------------------------------------------------------------------
(* syncTempLive, at the start of every GET /api/shares.  First a snapshot  *)
(* under regMu ...                                                         *)
MutRoom == shareMax - Cardinality(Live)
MutRoomShort == IF Cardinality(Live) + 1 < shareMax THEN shareMax - Cardinality(Live) - 1 ELSE 1
Room == IF BelowCap THEN shareMax - Cardinality(Live) ELSE 1

SyncSnapshot(p) ==
  /\ req[p].pc = "idle"
  /\ req' = [req EXCEPT ![p].pc = "read", ![p].seen = Managed, ![p].room = Room]
  /\ calm' = calm \cup {p}
  /\ UNCHANGED <<temp, staged, shares, sessToShare>>

(* ... then the directory, as far as there may be room ...                 *)
Some(n, S) == {T \in SUBSET S : Cardinality(T) = IF n < Cardinality(S)
                                                 THEN n ELSE Cardinality(S)}

Unseen(seen) == temp \ Listed(seen)

SyncRead(p) ==
  /\ req[p].pc = "read"
  /\ \E found \in Some(req[p].room, Unseen(req[p].seen)) :
        req' = [req EXCEPT ![p].pc = "stat", ![p].found = found]
  /\ UNCHANGED <<temp, staged, shares, sessToShare, calm>>

(* ... and each file of the snapshot ...                                   *)
Missing(seen) == {id \in Ids : \E n \in Names \ temp : <<id, n>> \in seen}

SyncStat(p) ==
  /\ req[p].pc = "stat"
  /\ IF req[p].found = {} /\ Missing(req[p].seen) = {}
     THEN Reply(p)
     ELSE req' = [req EXCEPT ![p].pc = "apply", ![p].seen = {},
                    ![p].gone = Missing(req[p].seen)]
  /\ UNCHANGED <<temp, staged, shares, sessToShare, calm>>

(* ... and last, under regMu again, what was found is added up to the cap, *)
(* and shares that are gone, after another look, are dropped.              *)
MutStaleGone(gone) == gone \cap Live
StillGone(gone) == {id \in gone \cap Live : shares[id].name \notin temp \cup {None}}

MutNoCap(found) == {found}
WithinCap(found) == Some(IF BelowCap THEN shareMax - Cardinality(Live) ELSE 0, found)

SyncApply(p) ==
  /\ req[p].pc = "apply"
  /\ LET gone == StillGone(req[p].gone)
     IN \E names \in WithinCap(req[p].found) :
          \E new \in Injection(names, FreshIds) :
             /\ shares' = [id \in Ids |-> IF id \in Range(new) THEN HostShare(new, id)
                                          ELSE IF id \in gone THEN None
                                          ELSE shares[id]]
             /\ Unlink(gone)
  /\ Reply(p)
  /\ Disturb
  /\ UNCHANGED <<temp, staged>>

-----------------------------------------------------------------------------
(* /api/share: a file of the owner, in the temp directory or elsewhere.    *)
(* The cap is tested in one critical section, the entry added in another.  *)
ShareCheck(p) ==
  /\ req[p].pc = "idle"
  /\ BelowCap
  /\ \E n \in temp \cup {None} :
        req' = [req EXCEPT ![p].pc = "add", ![p].name = n]
  /\ UNCHANGED <<temp, staged, shares, sessToShare, calm>>

ShareAdd(p) ==
  /\ req[p].pc = "add"
  /\ \E id \in FreshIds :
        shares' = [shares EXCEPT ![id] = [sess |-> None, name |-> req[p].name]]
  /\ Reply(p)
  /\ Disturb
  /\ UNCHANGED <<temp, staged, sessToShare>>

(* /api/share/guest: between the two a new upload session is made on disk. *)
(* The directory may fail to be made, or its meta.json without notice.     *)
GuestCheck(p) ==
  /\ req[p].pc = "idle"
  /\ BelowCap
  /\ GoTo(p, "stage")
  /\ UNCHANGED <<temp, staged, shares, sessToShare, calm>>

GuestStage(p) ==
  /\ req[p].pc = "stage"
  /\ \/ \E s \in Sessions :
           /\ staged[s] = "none"
           /\ sessToShare[s] = None
           /\ \A q \in Procs : req[q].sess # s
           /\ staged' \in {[staged EXCEPT ![s] = st] : st \in {"none", "open"}}
           /\ req' = [req EXCEPT ![p].pc = "offer", ![p].sess = s]
     \/ Reply(p) /\ UNCHANGED staged
  /\ UNCHANGED <<temp, shares, sessToShare, calm>>

GuestOffer(p) ==
  /\ req[p].pc = "offer"
  /\ \E id \in FreshIds :
        /\ shares' = [shares EXCEPT ![id] = [sess |-> req[p].sess, name |-> None]]
        /\ sessToShare' = [sessToShare EXCEPT ![req[p].sess] = id]
  /\ Reply(p)
  /\ Disturb
  /\ UNCHANGED <<temp, staged>>

(* The last piece of a session arrives (see UploadSession).                *)
Arrive(s) ==
  /\ staged[s] = "open"
  /\ staged' = [staged EXCEPT ![s] = "whole"]
  /\ UNCHANGED <<temp, shares, sessToShare, req, calm>>

-----------------------------------------------------------------------------
(* guestComplete: the share is looked up under regMu, the session under    *)
(* its mutex, the file is renamed under uploadLock, and the share is told  *)
(* under regMu, if it is still there.                                      *)
CompleteLookup(p) ==
  /\ req[p].pc = "idle"
  /\ \E s \in Sessions :
        /\ sessToShare[s] # None
        /\ req' = [req EXCEPT ![p].pc = "check", ![p].sess = s, ![p].id = sessToShare[s]]
  /\ UNCHANGED <<temp, staged, shares, sessToShare, calm>>

(* Pieces are missing, or the session is gone (completed before or swept). *)
CompleteCheck(p) ==
  /\ req[p].pc = "check"
  /\ IF staged[req[p].sess] = "whole" THEN GoTo(p, "place") ELSE Reply(p)
  /\ UNCHANGED <<temp, staged, shares, sessToShare, calm>>

(* When the file cannot be renamed it is copied, and a copy that fails     *)
(* leaves what there is of it.                                             *)
CompletePlace(p) ==
  /\ req[p].pc = "place"
  /\ \/ /\ staged[req[p].sess] = "whole"
        /\ \E n \in Names \ temp :
              /\ temp' = temp \cup {n}
              /\ \/ /\ req' = [req EXCEPT ![p].pc = "register", ![p].name = n]
                    /\ staged' = [staged EXCEPT ![req[p].sess] = "none"]
                 \/ Reply(p) /\ UNCHANGED staged
        /\ Disturb
     \/ Reply(p) /\ UNCHANGED <<temp, staged, calm>>
  /\ UNCHANGED <<shares, sessToShare>>

CompleteRegister(p) ==
  LET r == req[p]
  IN /\ r.pc = "register"
     /\ shares' = IF r.id \in Live THEN [shares EXCEPT ![r.id].name = r.name] ELSE shares
     /\ Reply(p)
     /\ Disturb
     /\ UNCHANGED <<temp, staged, sessToShare>>

-----------------------------------------------------------------------------
(* /api/unshare: the entry goes under regMu, its file or its session after *)
(* that, by name.                                                          *)
UnshareDrop(p) ==
  /\ req[p].pc = "idle"
  /\ \E id \in Live :
        /\ shares' = [shares EXCEPT ![id] = None]
        /\ Unlink({id})
        /\ req' = [req EXCEPT ![p].pc = "remove",
                     ![p].sess = shares[id].sess, ![p].name = shares[id].name]
  /\ Disturb
  /\ UNCHANGED <<temp, staged>>

UnshareRemove(p) ==
  /\ req[p].pc = "remove"
  /\ temp' = temp \ {req[p].name}
  /\ staged' = [s \in Sessions |-> IF s = req[p].sess THEN "none" ELSE staged[s]]
  /\ Reply(p)
  /\ Disturb
  /\ UNCHANGED <<shares, sessToShare>>

-----------------------------------------------------------------------------
(* Files come to the temp directory and leave it in other ways: ordinary   *)
(* uploads, among them sessions whose share is gone, /delete,              *)
(* /api/temp/clean, and the owner, who copies and deletes.                 *)
Appear(n) ==
  /\ n \notin temp
  /\ temp' = temp \cup {n}
  /\ staged' \in {staged} \cup {[staged EXCEPT ![s] = "none"] :
                     s \in {t \in Sessions : staged[t] = "whole" /\ sessToShare[t] = None}}
  /\ Disturb
  /\ UNCHANGED <<shares, sessToShare, req>>

Vanish(n) ==
  /\ n \in temp
  /\ temp' = temp \ {n}
  /\ Disturb
  /\ UNCHANGED <<staged, shares, sessToShare, req>>

(* SweepTempOrphans removes old sessions, whether they have a share or not.*)
SweepUploads(s) ==
  /\ staged[s] # "none"
  /\ staged' = [staged EXCEPT ![s] = "none"]
  /\ UNCHANGED <<temp, shares, sessToShare, req, calm>>

(* A new process knows what is on disk: RestoreTempShares registers the    *)
(* files, up to the cap, and sessions have lost their share.               *)
Restart ==
  /\ \E names \in Some(shareMax, temp) :
        \E new \in Injection(names, Ids) :
           shares' = [id \in Ids |-> IF id \in Range(new) THEN HostShare(new, id) ELSE None]
  /\ sessToShare' = [s \in Sessions |-> None]
  /\ req' = [p \in Procs |-> Idle]
  /\ Disturb
  /\ UNCHANGED <<temp, staged>>

Handle(p) ==
  \/ SyncSnapshot(p) \/ SyncRead(p) \/ SyncStat(p) \/ SyncApply(p)
  \/ ShareCheck(p) \/ ShareAdd(p)
  \/ GuestCheck(p) \/ GuestStage(p) \/ GuestOffer(p)
  \/ CompleteLookup(p) \/ CompleteCheck(p) \/ CompletePlace(p) \/ CompleteRegister(p)
  \/ UnshareDrop(p) \/ UnshareRemove(p)

Next ==
  \/ \E p \in Procs : Handle(p)
  \/ \E n \in Names : Appear(n) \/ Vanish(n)
  \/ \E s \in Sessions : Arrive(s) \/ SweepUploads(s)
  \/ Restart

Spec == Init /\ [][Next]_vars

-----------------------------------------------------------------------------
(* The cap on shares is tested in one critical section and used in the     *)
(* next.  That lets the registry grow beyond it, but never by as much as   *)
(* there are requests at work, whatever polls and restarts add.            *)
CapBound == Cardinality(Live) < shareMax + Cardinality(Procs)

(* The two tables agree, also after a poll has dropped entries that an     *)
(* upload was about to complete: a session leads to the share that was     *)
(* made for it, and a guest's share is found by its session.               *)
LinksMatch ==
  /\ \A s \in Sessions : sessToShare[s] # None
       => sessToShare[s] \in Live /\ shares[sessToShare[s]].sess = s
  /\ \A id \in Live : shares[id].sess # None => sessToShare[shares[id].sess] = id

(* A poll drops no share but one whose file is missing at that moment: not *)
(* an upload that is still coming in, and not a file that came back, or a  *)
(* share that got its file, since the poll looked at the disk.             *)
DropsOnlyMissing ==
  [][\A p \in Procs : SyncApply(p) =>
       \A id \in Live : shares'[id] = shares[id] \/ shares[id].name \notin temp \cup {None}]_vars

(* A poll that nothing disturbs leaves the registry as the directory is:   *)
(* no managed share without its file, and no file without a share, unless  *)
(* the registry was full.                                                  *)
SyncIsExact ==
  [][\A p \in calm :
       (SyncStat(p) /\ req'[p].pc = "idle") \/ SyncApply(p) =>
         /\ Listed(Managed') \subseteq temp
         /\ temp \subseteq Listed(Managed') \/ Cardinality(Live \cup Live') >= shareMax]_vars

-----------------------------------------------------------------------------
(* Why the tables agree: the session of a new offer is nobody else's until *)
(* the offer is in both.                                                   *)
RegInv ==
  /\ TypeOK
  /\ LinksMatch
  /\ \A p \in Procs : req[p].pc = "offer"
       => /\ req[p].sess \in Sessions
          /\ sessToShare[req[p].sess] = None
          /\ \A q \in Procs \ {p} : req[q].pc = "offer" => req[q].sess # req[p].sess

(* Why the cap holds as well as it does: whoever has passed the test and   *)
(* not yet added an entry counts with the entries.                         *)
Adders == {p \in Procs : req[p].pc \in {"add", "stage", "offer"}}
CapInv == Cardinality(Live) + Cardinality(Adders) < shareMax + Cardinality(Procs)

(* What a poll knows that nothing has disturbed.                           *)
CalmInv ==
  \A p \in calm :
    /\ req[p].pc \in {"read", "stat"} => req[p].seen = Managed /\ req[p].room = Room
    /\ req[p].pc \in {"stat", "apply"} => req[p].found \in Some(Room, Unseen(Managed))
    /\ req[p].pc = "apply" => req[p].gone = Missing(Managed)

=============================================================================
