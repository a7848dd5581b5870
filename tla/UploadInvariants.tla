------------------------- MODULE UploadInvariants -------------------------
(***************************************************************************)
(* The inductive invariants behind the theorems about UploadSession, kept  *)
(* apart from the proofs so that TLC can evaluate them.                    *)
(***************************************************************************)
EXTENDS UploadSession

(* What a request carries at each point of its handler.                    *)
WellFormed(r) ==
  /\ r.pc \in {"extract", "resume", "save"} => r.m # None
  /\ r.pc \in {"resume", "check", "open", "stream", "save"} => r.file # None
  /\ r.pc \in {"check", "open", "stream", "save"} => (r.claim => r.idx # None)
  /\ r.pc = "stream" => r.fd # None
  /\ r.pc \in {"check", "open"} => r.pos = r.from
  /\ r.pc \notin {"idle", "extract"} => r.lk # None

TypeInv == TypeOK /\ \A p \in Procs : WellFormed(req[p])

-----------------------------------------------------------------------------
(* One incarnation of the session, honest bodies: from a unit's arrival to *)
(* the piece that is marked and the file that is published.                *)

(* The unit of the file holds what a client sent for it.                   *)
Arrived(n, u) == \E file \in Sources : disk[n][u] = file[u]

(* A copy of meta.json credits only units that arrived in the one file the *)
(* session has had, and marks only pieces whose units it credits.          *)
CopyIsReal(m) ==
  /\ m.ranges # {} => born = Inodes
  /\ \A n \in Inodes : \A u \in m.ranges : Arrived(n, u)
  /\ \A i \in m.bits : PieceUnits(i) \subseteq m.ranges

(* A body in flight has left behind it nothing but its client's units.     *)
BodyIsReal(r) ==
  r.pc = "stream" =>
    /\ r.fd \in born
    /\ \A u \in r.from .. r.pos - 1 : Arrived(r.fd, u)

HonestInv ==
  /\ TypeInv
  /\ part # None => part \in born
  /\ saved \subseteq born
  /\ \A n \in saved : \A u \in Units : Arrived(n, u)
  /\ meta # None => CopyIsReal(meta)
  /\ \A p \in Procs : req[p].m # None => CopyIsReal(req[p].m)
  /\ \A p \in Procs : BodyIsReal(req[p])

-----------------------------------------------------------------------------
(* One incarnation of the session, any bodies: each mark of a verified     *)
(* copy was earned by the hash that the copy still records.                *)
CopyIsEarned(m) ==
  ~m.nov => \A i \in m.bits :
              /\ m.hashes[i] # None
              /\ \A n \in Inodes : <<n, i, m.hashes[i]>> \in earned

EarnedInv ==
  /\ TypeInv
  /\ meta # None => CopyIsEarned(meta)
  /\ \A p \in Procs : req[p].m # None => CopyIsEarned(req[p].m)

-----------------------------------------------------------------------------
(* One incarnation of the session: why two mutexes never guard one file.   *)

(* The points of writeV2; the requests at them have data.part in mind.     *)
Writing == {"check", "open", "stream", "save"}

(* While data.part has its name, whoever is to write takes the mutex that  *)
(* the map has; requests that hold its file share one, even when the map   *)
(* has forgotten it; the one that saves holds it.                          *)
LockInv ==
  /\ TypeInv
  /\ meta # None \/ part # None => born = Inodes
  /\ \A p \in Procs :
        req[p].pc \in Writing \cup {"extract", "resume", "place", "forget"} => born = Inodes
  /\ \A p \in Procs : req[p].pc = "forget" => part = None
  /\ part # None => \A p \in Procs : req[p].pc \in Writing => req[p].lk = lockOf
  /\ \A p, q \in Procs :
        {req[p].pc, req[q].pc} \subseteq {"stream", "save"} => req[p].lk = req[q].lk
  /\ \A p \in Procs : req[p].pc = "save" => req[p].lk \in held
  /\ SingleSaver

=============================================================================
