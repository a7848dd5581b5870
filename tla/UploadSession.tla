--------------------------- MODULE UploadSession ---------------------------
(***************************************************************************)
(* One resumable (v2) upload session of the Go server: the life of one     *)
(* session id, from /upload_init through parallel /upload_piece and        *)
(* /upload_chunk requests to /upload_complete, with the sweepers that may   *)
(* remove its directory at any moment.                                     *)
(*                                                                         *)
(* Every HTTP request runs in a goroutine of its own.  A handler takes the *)
(* session's mutex to read and write meta.json but never while it streams  *)
(* a body or hashes a file, so it is modelled as a process that moves      *)
(* through the points at which other requests can interleave.              *)
(*                                                                         *)
(* Bytes are grouped into units: what one Read/Write round of              *)
(* streamBodyToFile moves.  A hash is the content it was computed from,    *)
(* so two contents have equal hashes only if they are equal.               *)
(***************************************************************************)
EXTENDS Integers

CONSTANTS
  Procs,     \* the goroutines that serve requests
  Inodes,    \* the files that data.part can be, one per incarnation of the session
  Locks,     \* the mutexes that the sessLocks map can hand out
  Size,      \* the declared size of the upload, in units
  PieceLen,  \* the piece length, in units
  Values,    \* what a unit of a file can hold
  Hole,      \* what a unit of a sparse file reads as before it is written
  Sources,   \* the files (all Size units long) that clients upload here
  Modes,     \* the values of "noverify" that clients ask for
  Damage,    \* may a body differ from the client's file?
  None       \* no file, no lock, no claim, no hash, no meta.json

Units == 0 .. Size - 1

ASSUME SessionAssumption ==
  /\ Size \in Nat \ {0}
  /\ PieceLen \in Nat \ {0}
  /\ Hole \in Values
  /\ Sources \subseteq [Units -> Values]
  /\ Modes \subseteq BOOLEAN
  /\ Damage \in BOOLEAN

-----------------------------------------------------------------------------
(* Pieces: their units and their hashes.                                   *)

PieceOf(u) == u \div PieceLen
Pieces == {PieceOf(u) : u \in Units}
PieceUnits(i) == {u \in Units : PieceOf(u) = i}
Hash(file, i) == [u \in PieceUnits(i) |-> file[u]]
Hashes == {Hash(file, i) : file \in Sources, i \in Pieces}
NoHashes == [i \in Pieces |-> None]
HashList(file) == [i \in Pieces |-> Hash(file, i)]

(* meta.json: the flags, the piece hashes known so far, the pieces marked  *)
(* in the bitmap and the units the byte ranges account for.                *)
Meta == [nov     : BOOLEAN,
         extract : BOOLEAN,
         hashes  : [Pieces -> Hashes \cup {None}],
         bits    : SUBSET Pieces,
         ranges  : SUBSET Units]

ASSUME NoneAssumption ==
  /\ None \notin Inodes \cup Locks
  /\ None \notin Sources \cup Hashes
  /\ None \notin Pieces
  /\ None \notin Meta

MutMissingButLast(m) == {i \in Pieces \ m.bits : i + 1 \in Pieces}
missing(m) == Pieces \ m.bits
Complete(m) == m # None /\ missing(m) = {}

-----------------------------------------------------------------------------
VARIABLES
  dir,     \* does the session's directory exist?
  meta,    \* what meta.json holds, or None
  part,    \* the inode that the name data.part leads to, or None
  disk,    \* the content of every inode
  saved,   \* the inodes renamed into the shared folder
  lockOf,  \* sessLocks[uid], or None
  held,    \* the mutexes that are locked
  req,     \* what each goroutine is doing
  born,    \* history: the incarnations the session has had
  earned   \* history: <<inode, piece, hash>> of every verification that matched

vars == <<dir, meta, part, disk, saved, lockOf, held, req, born, earned>>

PCs == {"idle", "extract", "resume", "new",           \* /upload_init
        "check", "open", "stream", "save",            \* /upload_piece, _chunk
        "ccheck", "hash", "place", "forget"}          \* /upload_complete

Idle == [pc |-> "idle", lk |-> None, fd |-> None, file |-> None,
         claim |-> FALSE, idx |-> None, from |-> 0, pos |-> 0, to |-> 0,
         m |-> None, nov |-> FALSE, ext |-> FALSE]

Request == [pc    : PCs,
            lk    : Locks \cup {None},    \* the mutex pointer taken from sessLocks
            fd    : Inodes \cup {None},   \* the open data.part
            file  : Sources \cup {None},  \* the client's file: body, hashes, full_hash
            claim : BOOLEAN,              \* does the request carry a piece hash?
            idx   : Pieces \cup {None},   \* the piece it is for (None: /upload_chunk)
            from  : 0 .. Size,            \* the first unit of the body,
            pos   : 0 .. Size,            \* the next one to be written
            to    : 0 .. Size,            \* and the one after the last
            m     : Meta \cup {None},     \* the meta.json it has loaded
            nov   : BOOLEAN,              \* /upload_init: noverify
            ext   : BOOLEAN]              \* /upload_init: extract

TypeOK ==
  /\ dir \in BOOLEAN
  /\ meta \in Meta \cup {None}
  /\ part \in Inodes \cup {None}
  /\ disk \in [Inodes -> [Units -> Values]]
  /\ saved \subseteq Inodes
  /\ lockOf \in Locks \cup {None}
  /\ held \subseteq Locks
  /\ req \in [Procs -> Request]
  /\ born \subseteq Inodes
  /\ earned \subseteq Inodes \X Pieces \X Hashes

Init ==
  /\ dir = FALSE
  /\ meta = None
  /\ part = None
  /\ disk = [n \in Inodes |-> [u \in Units |-> Hole]]
  /\ saved = {}
  /\ lockOf = None
  /\ held = {}
  /\ req = [p \in Procs |-> Idle]
  /\ born = {}
  /\ earned = {}

-----------------------------------------------------------------------------
(* The mutex map.  sessLock returns the entry of the id, making one when   *)
(* there is none; forgetSessLock drops the entry while others may still    *)
(* hold the pointer.  A mutex that nobody refers to is garbage: with as    *)
(* many Locks as Procs there is always one to hand out.                    *)

SessLock(l) ==
  \/ /\ lockOf # None
     /\ l = lockOf
     /\ UNCHANGED lockOf
  \/ /\ lockOf = None
     /\ l \in Locks \ {req[q].lk : q \in Procs}
     /\ lockOf' = l

MutNoMutex(p) == TRUE
MutHoldWhileStreaming(p) ==
  /\ req[p].lk \notin held
  /\ \A q \in Procs \ {p} : req[q].pc = "stream" => req[q].pos = req[q].to
Free(p) == req[p].lk \notin held

GoTo(p, pc) == req' = [req EXCEPT ![p].pc = pc]
Reply(p) == req' = [req EXCEPT ![p] = Idle]

(* saveMeta writes meta.json.tmp, renames it and looks at no error.  When  *)
(* a sweep took the directory away nothing happens; when the disk is full, *)
(* or the unlocked save of /upload_init shares the temporary file, what is *)
(* renamed is a file that loadMeta rejects.                                *)
Torn(m) == {m, None}
SaveMeta(m) == meta' \in IF dir THEN Torn(m) ELSE {meta}

(* RemoveAll fails to remove a directory that a save is writing into.      *)
Saving == \E q \in Procs : req[q].pc \in {"extract", "resume", "new", "save"}
RemoveDir == dir' \in {FALSE, Saving}

-----------------------------------------------------------------------------
(* /upload_init.                                                           *)

(* newSessionMeta: a meta.json with an empty bitmap, and a data.part that  *)
(* is created when missing but never emptied (Truncate to the size it has).*)
(* Errors go unnoticed: data.part may stay missing, and on a full disk     *)
(* (or when the bound Inodes is used up) nothing is written at all.        *)
NewSessionMeta(file, nov, ext) ==
  LET fresh == [nov     |-> nov,
                extract |-> ext,
                hashes  |-> IF file = None THEN NoHashes ELSE HashList(file),
                bits    |-> {},
                ranges  |-> {}]
  IN \/ /\ dir
        /\ part # None
        /\ meta' \in Torn(fresh)
        /\ UNCHANGED <<part, disk, born>>
     \/ /\ dir
        /\ part = None
        /\ meta' \in Torn(fresh)
        /\ \E n \in Inodes \ born :
              /\ born' = born \cup {n}
              /\ \/ /\ part' = n
                    /\ disk' = [disk EXCEPT ![n] = [u \in Units |-> Hole]]
                 \/ UNCHANGED <<part, disk>>
     \/ /\ ~dir \/ part = None
        /\ UNCHANGED <<meta, part, disk, born>>

(* loadMeta without the lock.  A session that fits the request is resumed  *)
(* with the meta.json loaded here; any other one is built anew.            *)
InitResumes(p, file, nov, ext) ==
  /\ meta # None
  /\ meta.nov = nov
  /\ \/ /\ ext /\ ~meta.extract
        /\ req' = [req EXCEPT ![p] = [Idle EXCEPT !.pc = "extract", !.file = file,
                        !.nov = nov, !.ext = ext,
                        !.m = [meta EXCEPT !.extract = TRUE]]]
        /\ UNCHANGED lockOf
     \/ /\ ~ext \/ meta.extract
        /\ file # None
        /\ \E l \in Locks :
              /\ SessLock(l)
              /\ req' = [req EXCEPT ![p] = [Idle EXCEPT !.pc = "resume", !.lk = l,
                              !.file = file, !.nov = nov, !.ext = ext, !.m = meta]]
  /\ UNCHANGED dir

InitRebuilds(p, file, nov, ext) ==
  /\ meta # None => meta.nov # nov
  /\ dir' = TRUE
  /\ \E l \in Locks :
        /\ SessLock(l)
        /\ req' = [req EXCEPT ![p] = [Idle EXCEPT !.pc = "new", !.lk = l,
                        !.file = file, !.nov = nov, !.ext = ext]]

InitStart(p) ==
  /\ req[p].pc = "idle"
  /\ \E file \in Sources \cup {None}, nov \in Modes, ext \in BOOLEAN :
        InitResumes(p, file, nov, ext) \/ InitRebuilds(p, file, nov, ext)
  /\ UNCHANGED <<meta, part, disk, saved, held, born, earned>>

(* The extract flag is saved without the lock, from the copy loaded above. *)
InitExtract(p) ==
  /\ req[p].pc = "extract"
  /\ SaveMeta(req[p].m)
  /\ \/ /\ req[p].file = None
        /\ Reply(p)
        /\ UNCHANGED lockOf
     \/ /\ req[p].file # None
        /\ \E l \in Locks :
              /\ SessLock(l)
              /\ req' = [req EXCEPT ![p].pc = "resume", ![p].lk = l]
  /\ UNCHANGED <<dir, part, disk, saved, held, born, earned>>

(* resumeV2 under the lock, on the copy loaded before it was taken: hashes *)
(* that contradict the known ones rebuild the session, new ones are added. *)
InitResume(p) ==
  LET r == req[p]
      offered == HashList(r.file)
  IN /\ r.pc = "resume"
     /\ Free(p)
     /\ \/ /\ \E i \in Pieces : r.m.hashes[i] \notin {None, offered[i]}
           /\ NewSessionMeta(r.file, r.nov, r.ext)
        \/ /\ \A i \in Pieces : r.m.hashes[i] \in {None, offered[i]}
           /\ IF r.m.hashes # offered
              THEN SaveMeta([r.m EXCEPT !.hashes = offered])
              ELSE UNCHANGED meta
           /\ UNCHANGED <<part, disk, born>>
     /\ Reply(p)
     /\ UNCHANGED <<dir, saved, lockOf, held, earned>>

InitNew(p) ==
  /\ req[p].pc = "new"
  /\ Free(p)
  /\ NewSessionMeta(req[p].file, req[p].nov, req[p].ext)
  /\ Reply(p)
  /\ UNCHANGED <<dir, saved, lockOf, held, earned>>

-----------------------------------------------------------------------------
(* /upload_piece and /upload_chunk.                                        *)

(* resolvePiece on a meta.json loaded without the lock: a request without  *)
(* a hash passes only where one is known or none is needed.  A client      *)
(* claims the hash of its own file's piece.                                *)
PieceStart(p) ==
  /\ req[p].pc = "idle"
  /\ meta # None
  /\ \E i \in Pieces, file \in Sources, claim \in BOOLEAN, l \in Locks :
        /\ claim \/ meta.nov \/ meta.hashes[i] # None
        /\ SessLock(l)
        /\ \E from \in Units, to \in 1 .. Size :
              /\ from .. to - 1 = PieceUnits(i)
              /\ req' = [req EXCEPT ![p] = [Idle EXCEPT !.pc = "check", !.lk = l,
                              !.file = file, !.claim = claim, !.idx = i,
                              !.from = from, !.pos = from, !.to = to]]
  /\ UNCHANGED <<dir, meta, part, disk, saved, held, born, earned>>

(* The offset route stays open to noverify sessions: any span of the file. *)
ChunkStart(p) ==
  /\ req[p].pc = "idle"
  /\ meta # None
  /\ meta.nov
  /\ \E file \in Sources, from \in Units, to \in 1 .. Size, l \in Locks :
        /\ from < to
        /\ SessLock(l)
        /\ req' = [req EXCEPT ![p] = [Idle EXCEPT !.pc = "check", !.lk = l,
                        !.file = file, !.from = from, !.pos = from, !.to = to]]
  /\ UNCHANGED <<dir, meta, part, disk, saved, held, born, earned>>

(* mergeClaimHash fails with 409 when another hash is known.               *)
ClaimConflict(r, m) ==
  r.claim /\ m.hashes[r.idx] \notin {None, Hash(r.file, r.idx)}

MutMergeWhole(r, m) == IF r.claim THEN [m EXCEPT !.hashes[r.idx] = r.file] ELSE m
MergeClaim(r, m) ==
  IF r.claim THEN [m EXCEPT !.hashes[r.idx] = Hash(r.file, r.idx)] ELSE m

(* The units of the body; the handler goes on only when all have arrived.  *)
Span(r) == r.from .. r.to - 1
MutShortBody(r) == TRUE
BodyComplete(r) == r.pos = r.to

(* writeV2's first critical section only reads: lock, check, unlock.       *)
PieceCheck(p) ==
  /\ req[p].pc = "check"
  /\ Free(p)
  /\ IF meta # None /\ ~ClaimConflict(req[p], meta)
     THEN GoTo(p, "open")
     ELSE Reply(p)
  /\ UNCHANGED <<dir, meta, part, disk, saved, lockOf, held, born, earned>>

PieceOpen(p) ==
  /\ req[p].pc = "open"
  /\ IF part # None
     THEN req' = [req EXCEPT ![p].pc = "stream", ![p].fd = part]
     ELSE Reply(p)
  /\ UNCHANGED <<dir, meta, part, disk, saved, lockOf, held, born, earned>>

(* One round of streamBodyToFile.  The descriptor follows the file, not    *)
(* its name: it writes to a file that was renamed or unlinked meanwhile.   *)
PieceStream(p) ==
  LET r == req[p]
  IN /\ r.pc = "stream"
     /\ r.pos < r.to
     /\ \E v \in IF Damage THEN Values ELSE {r.file[r.pos]} :
           disk' = [disk EXCEPT ![r.fd][r.pos] = v]
     /\ req' = [req EXCEPT ![p].pos = r.pos + 1]
     /\ UNCHANGED <<dir, meta, part, saved, lockOf, held, born, earned>>

(* The client goes away (499), the body ends early (400) or the disk fails *)
(* (500): the units written so far stay where they are.                    *)
PieceAbort(p) ==
  /\ req[p].pc = "stream"
  /\ req[p].pos < req[p].to
  /\ Reply(p)
  /\ UNCHANGED <<dir, meta, part, disk, saved, lockOf, held, born, earned>>

(* The second critical section starts: lock, reload, merge, rangeAdd.      *)
PieceReload(p) ==
  LET r == req[p]
  IN /\ r.pc = "stream"
     /\ BodyComplete(r)
     /\ Free(p)
     /\ IF meta # None /\ ~ClaimConflict(r, meta)
        THEN /\ held' = held \cup {r.lk}
             /\ req' = [req EXCEPT ![p].pc = "save", ![p].fd = None,
                           ![p].m = [MergeClaim(r, meta) EXCEPT
                                       !.ranges = @ \cup Span(r)]]
        ELSE /\ Reply(p)
             /\ UNCHANGED held
     /\ UNCHANGED <<dir, meta, part, disk, saved, lockOf, born, earned>>

(* verifySpan looks at the pieces under the body that are covered and not  *)
(* marked yet.  One passes when data.part holds its hash, or unread in a   *)
(* noverify session; the ranges of one that fails are taken back.          *)
MutUncovered(r) == {i \in Pieces \ r.m.bits : \E u \in Span(r) : PieceOf(u) = i}
Unmarked(r) ==
  {i \in Pieces \ r.m.bits : /\ \E u \in Span(r) : PieceOf(u) = i
                            /\ PieceUnits(i) \subseteq r.m.ranges}

VerifyPiece(m, i) ==
  /\ part # None
  /\ m.hashes[i] # None
  /\ Hash(disk[part], i) = m.hashes[i]

Matching(r) == {i \in Unmarked(r) : VerifyPiece(r.m, i)}

MutGoodUnread(r) == Unmarked(r)
Good(r) == IF r.m.nov THEN Unmarked(r) ELSE Matching(r)

VerifySpan(r) ==
  [r.m EXCEPT
     !.bits = @ \cup Good(r),
     !.ranges = @ \ UNION {PieceUnits(i) : i \in Unmarked(r) \ Good(r)}]

(* ... and ends: verify against the disk, save once, unlock.               *)
PieceSave(p) ==
  LET r == req[p]
  IN /\ r.pc = "save"
     /\ SaveMeta(VerifySpan(r))
     /\ held' = held \ {r.lk}
     /\ earned' = earned \cup {<<part, i, r.m.hashes[i]>> : i \in Matching(r)}
     /\ Reply(p)
     /\ UNCHANGED <<dir, part, disk, saved, lockOf, born>>

-----------------------------------------------------------------------------
(* /upload_complete.  "file" is the file whose full_hash the client sends. *)

CompleteStart(p) ==
  /\ req[p].pc = "idle"
  /\ meta # None
  /\ \E file \in Sources \cup {None}, l \in Locks :
        /\ SessLock(l)
        /\ req' = [req EXCEPT ![p] = [Idle EXCEPT !.pc = "ccheck", !.lk = l,
                        !.file = file]]
  /\ UNCHANGED <<dir, meta, part, disk, saved, held, born, earned>>

CompleteCheck(p) ==
  LET r == req[p]
  IN /\ r.pc = "ccheck"
     /\ Free(p)
     /\ IF Complete(meta) /\ (meta.nov => r.file # None)
        THEN GoTo(p, IF r.file = None THEN "place" ELSE "hash")
        ELSE Reply(p)
     /\ UNCHANGED <<dir, meta, part, disk, saved, lockOf, held, born, earned>>

(* The whole file is hashed without the lock.                              *)
CompleteHash(p) ==
  /\ req[p].pc = "hash"
  /\ IF part # None /\ disk[part] = req[p].file
     THEN GoTo(p, "place")
     ELSE Reply(p)
  /\ UNCHANGED <<dir, meta, part, disk, saved, lockOf, held, born, earned>>

(* Lock, reload, look at the bitmap again, rename data.part into the       *)
(* shared folder, remove the session, unlock.  Or find it incomplete, or   *)
(* fail to rename, and leave all as it is.                                 *)
MutNoRecheck == meta # None /\ part # None
Publishable == Complete(meta) /\ part # None

CompletePlace(p) ==
  /\ req[p].pc = "place"
  /\ Free(p)
  /\ \/ /\ Publishable
        /\ saved' = saved \cup {part}
        /\ part' = None
        /\ meta' = None
        /\ RemoveDir
        /\ GoTo(p, "forget")
     \/ /\ Reply(p)
        /\ UNCHANGED <<dir, meta, part, saved>>
  /\ UNCHANGED <<disk, lockOf, held, born, earned>>

CompleteForget(p) ==
  /\ req[p].pc = "forget"
  /\ lockOf' = None
  /\ Reply(p)
  /\ UNCHANGED <<dir, meta, part, disk, saved, held, born, earned>>

-----------------------------------------------------------------------------
(* SweepUploads (sessions idle for longer than uploadTTLSec) and POST      *)
(* /api/temp/clean remove the directory without the session's mutex.       *)

RemoveAll ==
  /\ dir
  /\ RemoveDir
  /\ meta' = None
  /\ part' = None
  /\ UNCHANGED <<disk, saved, held, req, born, earned>>

SweepUploads == RemoveAll /\ lockOf' = None
TempClean == RemoveAll /\ UNCHANGED lockOf

(* The server stops or is killed, and is started again: requests, locks    *)
(* and the map are gone, the session's directory is found as it was.       *)
Restart ==
  /\ req' = [p \in Procs |-> Idle]
  /\ held' = {}
  /\ lockOf' = None
  /\ UNCHANGED <<dir, meta, part, disk, saved, born, earned>>

-----------------------------------------------------------------------------
Handler(p) ==
  \/ InitExtract(p) \/ InitResume(p) \/ InitNew(p)
  \/ PieceCheck(p) \/ PieceOpen(p) \/ PieceReload(p) \/ PieceSave(p)
  \/ CompleteCheck(p) \/ CompleteHash(p) \/ CompletePlace(p) \/ CompleteForget(p)

Client(p) ==
  \/ InitStart(p) \/ PieceStart(p) \/ ChunkStart(p) \/ CompleteStart(p)
  \/ PieceStream(p) \/ PieceAbort(p)

Next ==
  \/ \E p \in Procs : Handler(p) \/ Client(p)
  \/ SweepUploads
  \/ TempClean
  \/ Restart

Spec == Init /\ [][Next]_vars

(* A goroutine that can run is run, and one that waits for a Go mutex gets *)
(* it in the end (starvation mode); a handler has one next step at a time, *)
(* so one condition covers them all.  Nothing is assumed of clients: a     *)
(* body may stop arriving for good, no new request need ever come.         *)
Fairness == \A p \in Procs : SF_vars(Handler(p))

FairSpec == Spec /\ Fairness

-----------------------------------------------------------------------------
(* Every meta.json content that is on disk or in a handler's hands.        *)
Copies == ({meta} \cup {req[p].m : p \in Procs}) \ {None}

(* Where clients send only their own bytes (~Damage), no unit is ever      *)
(* accounted as received that data.part does not hold: neither an aborted  *)
(* or short body, nor a retry, nor a meta.json saved from a stale copy by  *)
(* a concurrent /upload_init credits bytes that never arrived.             *)
CoverageIsReal ==
  part # None =>
    \A m \in Copies : \A u \in m.ranges : \E file \in Sources : disk[part][u] = file[u]

(* A file renamed into the shared folder is, to the last unit, a file that *)
(* a client uploaded, verified or not.                                     *)
SavedIsSource == \A n \in saved : disk[n] \in Sources

(* The read-modify-write of meta.json in writeV2 is exclusive while the    *)
(* session has one incarnation: no two requests are between their reload   *)
(* and their save, although completions, sweeps and restarts forget the    *)
(* mutex while requests hold pointers to it.                               *)
SingleSaver ==
  \A p, q \in Procs : req[p].pc = "save" /\ req[q].pc = "save" => p = q

(* Whatever bytes clients send, every bit of a verified session, in        *)
(* meta.json and in every copy about to be written back, goes back to a    *)
(* verification in which data.part held the hash recorded for the piece.   *)
BitsEarned ==
  part # None =>
    \A m \in Copies : ~m.nov => \A i \in m.bits : <<part, i, m.hashes[i]>> \in earned

(* /upload_complete publishes a verified session only when each piece had  *)
(* passed its verification, even if the session changed between the first  *)
(* look at the bitmap and the rename.                                      *)
PlacedOnlyIfEarned ==
  [][\A n \in saved' \ saved :
        ~meta.nov => \A i \in Pieces : <<n, i, meta.hashes[i]>> \in earned]_vars

(* A request is answered without waiting for anybody's network: only its   *)
(* own client's body can hold it up.                                       *)
AwaitsBody(p) == req[p].pc = "stream" /\ ~BodyComplete(req[p])
Busy(p) == req[p].pc # "idle" /\ ~AwaitsBody(p)
HandlersProgress == \A p \in Procs : Busy(p) ~> ~Busy(p)

(* What upload_chunk.go says of a verified session, "every byte is         *)
(* claim-checked": a piece that is marked holds the bytes of its hash.     *)
VerifiedBytes ==
  part # None /\ meta # None =>
    (~meta.nov => \A i \in meta.bits : Hash(disk[part], i) = meta.hashes[i])

=============================================================================
