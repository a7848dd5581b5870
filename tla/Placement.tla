----------------------------- MODULE Placement -----------------------------
(***************************************************************************)
(* How files get their names in the shared folder: the placement at the    *)
(* end of /upload_complete, the multipart upload, the extraction of an     *)
(* uploaded folder and /delete, all for one wanted name.  The candidates   *)
(* are the name itself and "name (1)", "name (2)", ...                     *)
(*                                                                         *)
(* uploadLock covers the choice of a name but neither a multipart body     *)
(* nor a delete, and the owner of the computer drops files into the folder *)
(* without asking the server.                                              *)
(***************************************************************************)
EXTENDS Integers

CONSTANTS
  Procs,        \* the goroutines that serve requests
  Files,        \* the files (or extracted folders) that get a name
  LastName,     \* uniquePath: the candidate names are 0 .. LastName
  Tries,        \* attempts of /upload_complete to reserve a name (10)
  None          \* no file, no name, no holder of the lock

Names == 0 .. LastName

ASSUME PlacementAssumption ==
  /\ LastName \in Nat
  /\ Tries \in Nat \ {0}
  /\ None \notin Procs \cup Files \cup Names

VARIABLES
  dirent,   \* the file that each name leads to, or None
  lock,     \* who holds uploadLock
  req,      \* what each goroutine is doing
  done,     \* the uploaded files that are complete
  dropped,  \* the files that the owner copied into the folder
  quiet     \* history: has no client deleted what a request was at work on?

vars == <<dirent, lock, req, done, dropped, quiet>>

PCs == {"idle", "reserve", "create", "free", "rename",    \* /upload_complete
        "lost", "told",                                   \* and its retry
        "xreserve", "xrename", "xremove",                 \* extractZipAsync
        "mreserve", "mcreate", "mstream"}       \* multipart

Idle == [pc |-> "idle", file |-> None, name |-> None, zip |-> None, arch |-> None,
         tries |-> 0, told |-> None]

Request == [pc    : PCs,
            file  : Files \cup {None},   \* the file it is to place
            name  : Names \cup {None},   \* the name it has chosen
            zip   : Names \cup {None},   \* the name of the archive it extracts
            arch  : Files \cup {None},   \* and the archive
            tries : 0 .. Tries,
            told  : Files \cup {None}]   \* the file that a retry was confirmed

TypeOK ==
  /\ dirent \in [Names -> Files \cup {None}]
  /\ lock \in Procs \cup {None}
  /\ req \in [Procs -> Request]
  /\ done \subseteq Files
  /\ dropped \subseteq Files
  /\ quiet \in BOOLEAN

Init ==
  /\ dirent = [n \in Names |-> None]
  /\ lock = None
  /\ req = [p \in Procs |-> Idle]
  /\ done = {}
  /\ dropped = {}
  /\ quiet = TRUE

-----------------------------------------------------------------------------
(* A file that appears: any that is nowhere now (the bound is on how many  *)
(* there are at a time).                                                   *)
Somewhere ==
  {dirent[n] : n \in Names}
    \cup UNION {{req[p].file, req[p].arch, req[p].told} : p \in Procs}
Fresh(f) == f \in Files \ Somewhere

(* uniquePath: the first candidate that nothing has.                       *)
Vacant == {n \in Names : dirent[n] = None}
uniquePath(n) == n \in Vacant /\ \A m \in Vacant : n <= m

MutIgnoreLock(p) == lock' = p
Lock(p) == lock \in {None, p} /\ lock' = p
Unlock(p) == lock = p /\ lock' = None

Put(n, f) == dirent' = [dirent EXCEPT ![n] = f]

-----------------------------------------------------------------------------
(* /upload_complete, for a session whose bytes are all there: uploadLock   *)
(* over a loop that chooses a name, creates an empty file there, removes   *)
(* it and renames data.part to it.                                         *)
Start(p) ==
  /\ req[p].pc = "idle"
  /\ \E f \in Files :
        /\ Fresh(f)
        /\ done' = done \ {f}
        /\ dropped' = dropped \ {f}
        /\ \E pc \in {"reserve", "mreserve"} :
              req' = [req EXCEPT ![p] = [Idle EXCEPT !.pc = pc, !.file = f]]
  /\ UNCHANGED <<dirent, lock, quiet>>

Reserve(p) ==
  /\ req[p].pc = "reserve"
  /\ Lock(p)
  /\ \E n \in Names :
        /\ uniquePath(n)
        /\ req' = [req EXCEPT ![p].pc = "create", ![p].name = n]
  /\ UNCHANGED <<dirent, done, dropped, quiet>>

(* A file that exists means another try, any other error the end.          *)
MutOneMore(r) == r.tries <= Tries
MoreTries(r) == r.tries + 1 < Tries

Create(p) ==
  LET r == req[p]
  IN /\ r.pc = "create"
     /\ \/ /\ dirent[r.name] = None
           /\ Put(r.name, r.file)
           /\ req' = [req EXCEPT ![p].pc = "free"]
           /\ UNCHANGED lock
        \/ /\ dirent[r.name] # None
           /\ MoreTries(r)
           /\ req' = [req EXCEPT ![p].pc = "reserve", ![p].tries = r.tries + 1]
           /\ UNCHANGED <<dirent, lock>>
        \/ /\ dirent[r.name] = None \/ ~MoreTries(r)
           /\ req' = [req EXCEPT ![p] = Idle]
           /\ Unlock(p)
           /\ UNCHANGED dirent
     /\ UNCHANGED <<done, dropped, quiet>>

Free(p) ==
  /\ req[p].pc = "free"
  /\ Put(req[p].name, None)
  /\ req' = [req EXCEPT ![p].pc = "rename"]
  /\ UNCHANGED <<lock, done, dropped, quiet>>

(* The client learns where its file is, or the answer is lost; a folder is *)
(* extracted after the answer.                                             *)
Rename(p) ==
  LET r == req[p]
  IN /\ r.pc = "rename"
     /\ Unlock(p)
     /\ Put(r.name, r.file)
     /\ \/ /\ \E pc \in {"idle", "lost"} :
                 req' = [req EXCEPT ![p] = [Idle EXCEPT !.pc = pc,
                           !.file = IF pc = "lost" THEN r.file ELSE None]]
           /\ done' = done \cup {r.file}
           /\ UNCHANGED dropped
        \/ \E top \in Files :
              /\ Fresh(top)
              /\ done' = (done \ {top}) \cup {r.file}
              /\ dropped' = dropped \ {top}
              /\ req' = [req EXCEPT ![p] = [Idle EXCEPT !.pc = "xreserve",
                              !.file = top, !.zip = r.name, !.arch = r.file]]
     /\ UNCHANGED quiet

(* The rename fails, of a file (whose session stays as it is) or of the    *)
(* only entry of an archive (which then stays).                            *)
RenameFails(p) ==
  /\ req[p].pc \in {"rename", "xrename"}
  /\ Unlock(p)
  /\ req' = [req EXCEPT ![p] = Idle]
  /\ UNCHANGED <<dirent, done, dropped, quiet>>

(* The retry of a completion whose session is gone takes any file that has *)
(* the name the client asked for and the size, when it carries no full     *)
(* hash (complete files are all of one size here).                         *)
Retry(p) ==
  /\ req[p].pc = "lost"
  /\ \E hash \in BOOLEAN :
        IF dirent[0] \in done \cup dropped /\ (hash => dirent[0] = req[p].file)
        THEN req' = [req EXCEPT ![p].pc = "told", ![p].told = dirent[0]]
        ELSE req' = [req EXCEPT ![p] = Idle]
  /\ UNCHANGED <<dirent, lock, done, dropped, quiet>>

Answer(p) ==
  /\ req[p].pc = "told"
  /\ req' = [req EXCEPT ![p] = Idle]
  /\ UNCHANGED <<dirent, lock, done, dropped, quiet>>

-----------------------------------------------------------------------------
(* extractZipIn renames the staged folder under uploadLock without a       *)
(* reservation; extractZipAsync then removes the archive, by name.         *)
ExtractReserve(p) ==
  /\ req[p].pc = "xreserve"
  /\ Lock(p)
  /\ \E n \in Names :
        /\ uniquePath(n)
        /\ req' = [req EXCEPT ![p].pc = "xrename", ![p].name = n]
  /\ UNCHANGED <<dirent, done, dropped, quiet>>

(* The archive cannot be unpacked, and stays.                              *)
MutRemoveAnyway(p) ==
  /\ req[p].pc = "xreserve"
  /\ Put(req[p].zip, None)
  /\ req' = [req EXCEPT ![p] = Idle]
  /\ UNCHANGED <<lock, done, dropped, quiet>>
ExtractFails(p) ==
  /\ req[p].pc = "xreserve"
  /\ req' = [req EXCEPT ![p] = Idle]
  /\ UNCHANGED <<dirent, lock, done, dropped, quiet>>

ExtractRename(p) ==
  /\ req[p].pc = "xrename"
  /\ Put(req[p].name, req[p].file)
  /\ done' = done \cup {req[p].file}
  /\ Unlock(p)
  /\ req' = [req EXCEPT ![p].pc = "xremove"]
  /\ UNCHANGED <<dropped, quiet>>

ExtractRemove(p) ==
  /\ req[p].pc = "xremove"
  /\ Put(req[p].zip, None)
  /\ req' = [req EXCEPT ![p] = Idle]
  /\ UNCHANGED <<lock, done, dropped, quiet>>

-----------------------------------------------------------------------------
(* saveMultipartStream: for each file of the body, a name and an empty     *)
(* file under uploadLock, the bytes without it.                            *)
MultiReserve(p) ==
  /\ req[p].pc = "mreserve"
  /\ Lock(p)
  /\ \E n \in Names :
        /\ uniquePath(n)
        /\ req' = [req EXCEPT ![p].pc = "mcreate", ![p].name = n]
  /\ UNCHANGED <<dirent, done, dropped, quiet>>

(* The next file of the request, or the answer after the last one; the     *)
(* request also ends when its body breaks off or is too long.              *)
NextPart(p, complete) ==
  \/ /\ req' = [req EXCEPT ![p] = Idle]
     /\ done' = complete
     /\ UNCHANGED dropped
  \/ \E f \in Files :
        /\ Fresh(f)
        /\ done' = complete \ {f}
        /\ dropped' = dropped \ {f}
        /\ req' = [req EXCEPT ![p] = [Idle EXCEPT !.pc = "mreserve", !.file = f]]

MultiCreate(p) ==
  LET r == req[p]
  IN /\ r.pc = "mcreate"
     /\ Unlock(p)
     /\ \/ /\ dirent[r.name] = None
           /\ Put(r.name, r.file)
           /\ req' = [req EXCEPT ![p].pc = "mstream"]
           /\ UNCHANGED <<done, dropped>>
        \/ /\ NextPart(p, done)
           /\ UNCHANGED dirent
     /\ UNCHANGED quiet

MultiSave(p) ==
  /\ req[p].pc = "mstream"
  /\ NextPart(p, done \cup {req[p].file})
  /\ UNCHANGED <<dirent, lock, quiet>>

(* A file that turns out empty, too long or broken off is removed, by name.*)
MultiRemove(p) ==
  /\ req[p].pc = "mstream"
  /\ Put(req[p].name, None)
  /\ NextPart(p, done)
  /\ UNCHANGED <<lock, quiet>>

-----------------------------------------------------------------------------
(* /delete: every file that the list shows can be deleted by anybody,      *)
(* also one that is still being received or extracted.                     *)
Busy(n) == \E p \in Procs : n \in {req[p].name, req[p].zip}

Delete(n) ==
  /\ dirent[n] # None
  /\ Put(n, None)
  /\ quiet' = (quiet /\ ~Busy(n))
  /\ UNCHANGED <<lock, req, done, dropped>>

(* The owner copies a file into the folder, under a name that is free,     *)
(* perhaps between the choice of that name and the rename to it.           *)
Drop(n) ==
  /\ dirent[n] = None
  /\ \E f \in Files :
        /\ Fresh(f)
        /\ Put(n, f)
        /\ done' = done \ {f}
        /\ dropped' = dropped \cup {f}
  /\ UNCHANGED <<lock, req, quiet>>

Place(p) ==
  \/ Start(p) \/ Reserve(p) \/ Create(p) \/ Free(p) \/ Rename(p)
  \/ RenameFails(p) \/ Retry(p) \/ Answer(p)
  \/ ExtractReserve(p) \/ ExtractFails(p) \/ ExtractRename(p) \/ ExtractRemove(p)
  \/ MultiReserve(p) \/ MultiCreate(p) \/ MultiSave(p) \/ MultiRemove(p)

Next ==
  \/ \E p \in Procs : Place(p)
  \/ \E n \in Names : Delete(n) \/ Drop(n)

Spec == Init /\ [][Next]_vars

-----------------------------------------------------------------------------
(* No handler puts a file where an uploaded one is, even though the name   *)
(* that was reserved is given up again before the rename and anybody may   *)
(* delete the reservation.                                                 *)
NoOverwrite ==
  [][\A n \in Names :
       dirent[n] \notin dropped \cup {None} => dirent'[n] \in {dirent[n], None}]_vars

(* Why: who is between the choice of a name and its use holds uploadLock,  *)
(* and only the owner can take a name that is about to be renamed to.      *)
Holding(r) == r.pc \in {"create", "free", "rename", "xrename", "mcreate"}

WellFormed(r) ==
  /\ r.pc \notin {"idle", "xremove", "told"} => r.file \in Files
  /\ Holding(r) \/ r.pc = "mstream" => r.name \in Names
  /\ r.pc \in {"xreserve", "xrename", "xremove"} => r.zip \in Names

PlaceInv ==
  /\ TypeOK
  /\ \A p \in Procs : WellFormed(req[p])
  /\ \A p \in Procs : Holding(req[p]) => lock = p
  /\ \A p \in Procs : req[p].pc \in {"rename", "xrename"}
                        => dirent[req[p].name] \in dropped \cup {None}

(* A complete upload goes when a client deletes it, or when it is the      *)
(* archive of a folder just extracted, unless a client has deleted what a  *)
(* request was still at work on: then the name is anybody's, and what the  *)
(* request removes by that name later may be another upload.               *)
Extracted(n) ==
  \E p \in Procs : /\ req[p].pc = "xremove"
                   /\ req[p].zip = n
                   /\ req[p].arch = dirent[n]
FilesStay ==
  [][\A n \in Names :
       quiet /\ dirent[n] \in done /\ dirent'[n] # dirent[n] => Delete(n) \/ Extracted(n)]_vars

(* Why: files that are still to be placed are one request's each and not   *)
(* complete, archives are one request's each and complete, and while it is *)
(* quiet the name in a request's hand leads to what the request put there. *)
Pending(r) ==
  r.pc \in {"reserve", "create", "free", "rename", "xreserve", "xrename",
            "mreserve", "mcreate", "mstream"}
Extracting(r) == r.pc \in {"xreserve", "xrename", "xremove"}
InHand(r) ==
  /\ r.pc \in {"free", "mstream"} => dirent[r.name] = r.file
  /\ Extracting(r) => dirent[r.zip] = r.arch

StayInv ==
  /\ done \cap dropped = {}
  /\ \A p \in Procs : Pending(req[p]) => req[p].file \in Files \ (done \cup dropped)
  /\ \A p \in Procs : Extracting(req[p]) => req[p].arch \in done
  /\ \A p, q \in Procs : p # q =>
       /\ Pending(req[p]) /\ Pending(req[q]) => req[p].file # req[q].file
       /\ Extracting(req[p]) /\ Extracting(req[q]) => req[p].arch # req[q].arch
  /\ quiet => \A p \in Procs : InHand(req[p])

=============================================================================
