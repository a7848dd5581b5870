--------------------------- MODULE UploadProofs ---------------------------
(***************************************************************************)
(* Theorems about the upload engine, for any number of requests, any size, *)
(* any piece length and any contents: the types, the mutex that is         *)
(* forgotten, the marks that are earned, the bytes that arrived, and the   *)
(* promise of VerifiedUpload.                                              *)
(***************************************************************************)
EXTENDS UploadInvariants, UploadRefinement, TLAPS

-----------------------------------------------------------------------------
(* Lemmas on the operators of the model.                                   *)

(* The hash of a piece of a client's file is one of the Hashes.            *)
LEMMA HashType ==
  ASSUME NEW file \in Sources, NEW i \in Pieces
  PROVE  Hash(file, i) \in Hashes
  BY DEF Hashes

(* The hashes a client offers fill the hash list of a meta.json.           *)
LEMMA HashListType ==
  ASSUME NEW file \in Sources
  PROVE  HashList(file) \in [Pieces -> Hashes \cup {None}]
  BY HashType DEF HashList

(* The units of a body are units of the file.                              *)
LEMMA SpanType ==
  ASSUME NEW r \in Request
  PROVE  Span(r) \subseteq Units
  BY SessionAssumption DEF Span, Request, Units

LEMMA IdleType == Idle \in Request /\ WellFormed(Idle)
  <1>1. 0 \in 0 .. Size
    BY SessionAssumption
  <1>2. QED
    BY <1>1 DEF Idle, Request, PCs, WellFormed

(* What /upload_init writes anew is a meta.json.                           *)
LEMMA FreshType ==
  ASSUME NEW file \in Sources \cup {None}, NEW nov \in BOOLEAN, NEW ext \in BOOLEAN
  PROVE  [nov |-> nov, extract |-> ext,
          hashes |-> IF file = None THEN NoHashes ELSE HashList(file),
          bits |-> {}, ranges |-> {}] \in Meta
  BY HashListType DEF Meta, NoHashes

(* Merging a claim and crediting the body keeps a meta.json one.           *)
LEMMA CreditType ==
  ASSUME NEW r \in Request, NEW m \in Meta,
         r.file # None, r.claim => r.idx # None
  PROVE  [MergeClaim(r, m) EXCEPT !.ranges = @ \cup Span(r)] \in Meta
  <1>1. r.claim => Hash(r.file, r.idx) \in Hashes
    BY HashType DEF Request
  <1>2. MergeClaim(r, m) \in Meta
    BY <1>1 DEF MergeClaim, Meta, Request
  <1>3. QED
    BY <1>2, SpanType DEF Meta

(* Verifying a body keeps a meta.json one.                                 *)
LEMMA VerifyType ==
  ASSUME NEW r \in Request, r.m \in Meta
  PROVE  VerifySpan(r) \in Meta
  <1>1. Good(r) \subseteq Pieces
    BY DEF Good, Unmarked, Matching
  <1>2. QED
    BY <1>1 DEF VerifySpan, Meta

(* A step that only changes one request changes it to a request.           *)
LEMMA OneRequest ==
  ASSUME NEW p \in Procs, NEW r \in Request, WellFormed(r),
         req \in [Procs -> Request], \A q \in Procs : WellFormed(req[q]),
         req' = [req EXCEPT ![p] = r]
  PROVE  req' \in [Procs -> Request] /\ \A q \in Procs : WellFormed(req'[q])
  OBVIOUS

-----------------------------------------------------------------------------
(* Type correctness, with what a request carries where.                    *)

LEMMA TypeInit == Init => TypeInv
  <1> SUFFICES ASSUME Init
               PROVE  TypeInv
    OBVIOUS
  <1>1. disk \in [Inodes -> [Units -> Values]]
    BY SessionAssumption DEF Init
  <1>2. req \in [Procs -> Request] /\ \A p \in Procs : WellFormed(req[p])
    BY IdleType DEF Init
  <1>3. QED
    BY <1>1, <1>2 DEF Init, TypeInv, TypeOK

(* What a step must keep typed when it changes at most one request.        *)
LEMMA TypeStep ==
  ASSUME TypeInv, NEW p \in Procs, NEW r \in Request, WellFormed(r),
         req' = [req EXCEPT ![p] = r],
         dir' \in BOOLEAN, meta' \in Meta \cup {None}, part' \in Inodes \cup {None},
         disk' \in [Inodes -> [Units -> Values]], saved' \subseteq Inodes,
         lockOf' \in Locks \cup {None}, held' \subseteq Locks,
         born' \subseteq Inodes, earned' \subseteq Inodes \X Pieces \X Hashes
  PROVE  TypeInv'
  BY OneRequest DEF TypeInv, TypeOK

(* newSessionMeta keeps what it writes well typed.                         *)
LEMMA NewSessionType ==
  ASSUME NEW file \in Sources \cup {None}, NEW nov \in BOOLEAN, NEW ext \in BOOLEAN,
         TypeOK, NewSessionMeta(file, nov, ext)
  PROVE  /\ meta' \in Meta \cup {None}
         /\ part' \in Inodes \cup {None}
         /\ disk' \in [Inodes -> [Units -> Values]]
         /\ born' \subseteq Inodes
  <1>1. [u \in Units |-> Hole] \in [Units -> Values]
    BY SessionAssumption
  <1>2. QED
    BY <1>1, FreshType DEF NewSessionMeta, Torn, TypeOK

LEMMA SessLockType ==
  ASSUME NEW l, l \in Locks, TypeOK, SessLock(l)
  PROVE  lockOf' \in Locks \cup {None}
  BY DEF SessLock, TypeOK

LEMMA RemoveDirType == RemoveDir => dir' \in BOOLEAN
  <1>1. Saving \in BOOLEAN
    BY DEF Saving
  <1>2. QED
    BY <1>1 DEF RemoveDir

(* Every step of /upload_init keeps the types.                             *)
LEMMA TypeOfInit ==
  ASSUME TypeInv, NEW p \in Procs,
         InitStart(p) \/ InitExtract(p) \/ InitResume(p) \/ InitNew(p)
  PROVE  TypeInv'
  <1>1. req[p] \in Request /\ WellFormed(req[p]) /\ TypeOK
    BY DEF TypeOK, TypeInv
  <1>2. CASE InitStart(p)
    <2>1. PICK file \in Sources \cup {None}, nov \in Modes, ext \in BOOLEAN :
            InitResumes(p, file, nov, ext) \/ InitRebuilds(p, file, nov, ext)
      BY <1>2 DEF InitStart
    <2>2. nov \in BOOLEAN /\ 0 \in 0 .. Size
      BY SessionAssumption
    <2> DEFINE X == [Idle EXCEPT !.pc = "extract", !.file = file, !.nov = nov,
                       !.ext = ext, !.m = [meta EXCEPT !.extract = TRUE]]
               R(l) == [Idle EXCEPT !.pc = "resume", !.lk = l, !.file = file,
                          !.nov = nov, !.ext = ext, !.m = meta]
               N(l) == [Idle EXCEPT !.pc = "new", !.lk = l, !.file = file,
                          !.nov = nov, !.ext = ext]
    <2>3. ASSUME NEW l \in Locks
          PROVE  N(l) \in Request /\ WellFormed(N(l))
      BY <2>2, NoneAssumption DEF Idle, Request, PCs, WellFormed
    <2>4. CASE InitResumes(p, file, nov, ext)
      <3>1. meta \in Meta /\ meta # None /\ dir' = dir
        BY <1>1, <2>4 DEF InitResumes, TypeOK
      <3>2. [meta EXCEPT !.extract = TRUE] \in Meta
        BY <3>1 DEF Meta
      <3>3. CASE req' = [req EXCEPT ![p] = X] /\ UNCHANGED lockOf
        <4>1. X \in Request /\ WellFormed(X)
          BY <2>2, <3>2, NoneAssumption DEF Idle, Request, PCs, WellFormed
        <4> HIDE DEF X
        <4>2. QED
          BY <1>1, <1>2, <3>1, <3>3, <4>1, TypeStep DEF InitStart, TypeOK
      <3>4. CASE /\ file # None
                 /\ \E l \in Locks : SessLock(l) /\ req' = [req EXCEPT ![p] = R(l)]
        <4>1. PICK l \in Locks : SessLock(l) /\ req' = [req EXCEPT ![p] = R(l)]
          BY <3>4
        <4>2. R(l) \in Request /\ WellFormed(R(l))
          BY <2>2, <3>1, <3>4, NoneAssumption DEF Idle, Request, PCs, WellFormed
        <4>3. lockOf' \in Locks \cup {None}
          BY <1>1, <4>1, SessLockType
        <4> HIDE DEF R
        <4>4. QED
          BY <1>1, <1>2, <3>1, <4>1, <4>2, <4>3, TypeStep DEF InitStart, TypeOK
      <3>5. QED
        BY <2>4, <3>3, <3>4 DEF InitResumes
    <2>5. CASE InitRebuilds(p, file, nov, ext)
      <3>1. PICK l \in Locks : SessLock(l) /\ req' = [req EXCEPT ![p] = N(l)]
        BY <2>5 DEF InitRebuilds
      <3>2. lockOf' \in Locks \cup {None}
        BY <1>1, <3>1, SessLockType
      <3> HIDE DEF N
      <3>3. QED
        BY <1>1, <1>2, <2>3, <2>5, <3>1, <3>2, TypeStep DEF InitStart, InitRebuilds, TypeOK
    <2>6. QED
      BY <2>1, <2>4, <2>5
  <1>3. CASE InitExtract(p)
    <2>1. meta' \in Meta \cup {None}
      BY <1>1, <1>3 DEF InitExtract, SaveMeta, Torn, TypeOK, Request, WellFormed
    <2>2. CASE req[p].file = None
      BY <1>1, <1>3, <2>1, <2>2, IdleType, TypeStep DEF InitExtract, Reply, TypeOK
    <2>3. CASE req[p].file # None
      <3>1. PICK l \in Locks :
              /\ SessLock(l)
              /\ req' = [req EXCEPT ![p] = [req[p] EXCEPT !.pc = "resume", !.lk = l]]
        BY <1>1, <1>3, <2>3 DEF InitExtract, TypeOK
      <3>2. /\ [req[p] EXCEPT !.pc = "resume", !.lk = l] \in Request
            /\ WellFormed([req[p] EXCEPT !.pc = "resume", !.lk = l])
        BY <1>1, <1>3, <2>3, NoneAssumption DEF InitExtract, Request, PCs, WellFormed
      <3>3. lockOf' \in Locks \cup {None}
        BY <1>1, <3>1, SessLockType
      <3>4. QED
        BY <1>1, <1>3, <2>1, <3>1, <3>2, <3>3, TypeStep DEF InitExtract, TypeOK
    <2>4. QED
      BY <2>2, <2>3
  <1>4. CASE InitResume(p)
    <2>1. /\ req' = [req EXCEPT ![p] = Idle]
          /\ UNCHANGED <<dir, saved, lockOf, held, earned>>
          /\ req[p].file \in Sources /\ req[p].m \in Meta
          /\ req[p].nov \in BOOLEAN /\ req[p].ext \in BOOLEAN
      BY <1>1, <1>4 DEF InitResume, Reply, Request, WellFormed
    <2>2. CASE NewSessionMeta(req[p].file, req[p].nov, req[p].ext)
      BY <1>1, <2>1, <2>2, NewSessionType, IdleType, TypeStep DEF TypeOK
    <2>3. CASE /\ meta' \in {meta, None, [req[p].m EXCEPT !.hashes = HashList(req[p].file)]}
               /\ UNCHANGED <<part, disk, born>>
      <3>1. [req[p].m EXCEPT !.hashes = HashList(req[p].file)] \in Meta
        BY <2>1, HashListType DEF Meta
      <3>2. QED
        BY <1>1, <2>1, <2>3, <3>1, IdleType, TypeStep DEF TypeOK
    <2>4. QED
      BY <1>4, <2>2, <2>3 DEF InitResume, SaveMeta, Torn
  <1>5. CASE InitNew(p)
    BY <1>1, <1>5, NewSessionType, IdleType, TypeStep DEF InitNew, Reply, TypeOK, Request
  <1>6. QED
    BY <1>2, <1>3, <1>4, <1>5

(* Every step of /upload_piece and /upload_chunk keeps the types.          *)
LEMMA TypeOfPiece ==
  ASSUME TypeInv, NEW p \in Procs,
         \/ PieceStart(p) \/ ChunkStart(p) \/ PieceCheck(p) \/ PieceOpen(p)
         \/ PieceStream(p) \/ PieceAbort(p) \/ PieceReload(p) \/ PieceSave(p)
  PROVE  TypeInv'
  <1>1. req[p] \in Request /\ WellFormed(req[p]) /\ TypeOK
    BY DEF TypeOK, TypeInv
  <1> DEFINE r == req[p]
  <1>2. CASE PieceStart(p)
    <2>1. PICK i \in Pieces, file \in Sources, claim \in BOOLEAN, l \in Locks :
            /\ claim \/ meta.nov \/ meta.hashes[i] # None
            /\ SessLock(l)
            /\ \E from \in Units, to \in 1 .. Size :
                 /\ from .. to - 1 = PieceUnits(i)
                 /\ req' = [req EXCEPT ![p] = [Idle EXCEPT !.pc = "check", !.lk = l,
                              !.file = file, !.claim = claim, !.idx = i,
                              !.from = from, !.pos = from, !.to = to]]
      BY <1>2, Zenon DEF PieceStart
    <2>6. PICK from \in Units, to \in 1 .. Size :
            req' = [req EXCEPT ![p] = [Idle EXCEPT !.pc = "check", !.lk = l,
                      !.file = file, !.claim = claim, !.idx = i,
                      !.from = from, !.pos = from, !.to = to]]
      BY <2>1, Zenon
    <2> DEFINE B == [Idle EXCEPT !.pc = "check", !.lk = l,
                       !.file = file, !.claim = claim, !.idx = i,
                       !.from = from, !.pos = from, !.to = to]
    <2>2. from \in 0 .. Size /\ to \in 0 .. Size
      BY SessionAssumption DEF Units
    <2>3. B \in Request /\ WellFormed(B)
      BY <2>2, NoneAssumption DEF Idle, Request, PCs, WellFormed
    <2>4. lockOf' \in Locks \cup {None}
      BY <1>1, <2>1, SessLockType
    <2> HIDE DEF B
    <2>5. QED
      BY <1>1, <1>2, <2>6, <2>3, <2>4, TypeStep DEF PieceStart, TypeOK, B
  <1>3. CASE ChunkStart(p)
    <2>1. PICK file \in Sources, from \in Units, to \in 1 .. Size, l \in Locks :
            /\ SessLock(l)
            /\ req' = [req EXCEPT ![p] = [Idle EXCEPT !.pc = "check", !.lk = l,
                         !.file = file, !.from = from, !.pos = from, !.to = to]]
      BY <1>3 DEF ChunkStart
    <2> DEFINE B == [Idle EXCEPT !.pc = "check", !.lk = l,
                       !.file = file, !.from = from, !.pos = from, !.to = to]
    <2>2. from \in 0 .. Size /\ to \in 0 .. Size
      BY SessionAssumption DEF Units
    <2>3. B \in Request /\ WellFormed(B)
      BY <2>2, NoneAssumption DEF Idle, Request, PCs, WellFormed
    <2>4. lockOf' \in Locks \cup {None}
      BY <1>1, <2>1, SessLockType
    <2> HIDE DEF B
    <2>5. QED
      BY <1>1, <1>3, <2>1, <2>3, <2>4, TypeStep DEF ChunkStart, TypeOK, B
  <1>4. CASE PieceCheck(p)
    <2>1. /\ [r EXCEPT !.pc = "open"] \in Request
          /\ WellFormed([r EXCEPT !.pc = "open"])
      BY <1>1, <1>4 DEF PieceCheck, Request, PCs, WellFormed
    <2>2. \E s \in {Idle, [r EXCEPT !.pc = "open"]} : req' = [req EXCEPT ![p] = s]
      BY <1>1, <1>4 DEF PieceCheck, GoTo, Reply, TypeOK
    <2>3. QED
      BY <1>1, <1>4, <2>1, <2>2, IdleType, TypeStep DEF PieceCheck, TypeOK
  <1>5. CASE PieceOpen(p)
    <2>1. CASE part # None
      <3>1. /\ [r EXCEPT !.pc = "stream", !.fd = part] \in Request
            /\ WellFormed([r EXCEPT !.pc = "stream", !.fd = part])
        BY <1>1, <1>5, <2>1 DEF PieceOpen, Request, PCs, WellFormed, TypeOK
      <3>2. req' = [req EXCEPT ![p] = [r EXCEPT !.pc = "stream", !.fd = part]]
        BY <1>1, <1>5, <2>1 DEF PieceOpen, TypeOK
      <3>3. QED
        BY <1>1, <1>5, <3>1, <3>2, TypeStep DEF PieceOpen, TypeOK
    <2>2. CASE part = None
      BY <1>1, <1>5, <2>2, IdleType, TypeStep DEF PieceOpen, Reply, TypeOK
    <2>3. QED
      BY <2>1, <2>2
  <1>6. CASE PieceStream(p)
    <2>1. r.pos \in Units /\ r.pos + 1 \in 0 .. Size
      BY <1>1, <1>6, SessionAssumption DEF PieceStream, Request, Units
    <2>2. /\ r.fd \in Inodes
          /\ r.file \in Sources
      BY <1>1, <1>6 DEF PieceStream, WellFormed, Request
    <2>3. PICK v \in Values : disk' = [disk EXCEPT ![r.fd][r.pos] = v]
      BY <1>6, <2>1, <2>2, SessionAssumption DEF PieceStream
    <2>4. disk' \in [Inodes -> [Units -> Values]]
      BY <1>1, <2>1, <2>2, <2>3 DEF TypeOK
    <2>5. /\ [r EXCEPT !.pos = r.pos + 1] \in Request
          /\ WellFormed([r EXCEPT !.pos = r.pos + 1])
      BY <1>1, <1>6, <2>1 DEF PieceStream, Request, WellFormed
    <2>6. req' = [req EXCEPT ![p] = [r EXCEPT !.pos = r.pos + 1]]
      BY <1>1, <1>6 DEF PieceStream, TypeOK
    <2>7. QED
      BY <1>1, <1>6, <2>4, <2>5, <2>6, TypeStep DEF PieceStream, TypeOK
  <1>7. CASE PieceAbort(p)
    BY <1>1, <1>7, IdleType, TypeStep DEF PieceAbort, Reply, TypeOK
  <1>8. CASE PieceReload(p)
    <2>1. CASE meta # None /\ ~ClaimConflict(r, meta)
      <3> DEFINE c == [MergeClaim(r, meta) EXCEPT !.ranges = @ \cup Span(r)]
                 s == [r EXCEPT !.pc = "save", !.fd = None, !.m = c]
      <3>1. /\ r.file # None /\ (r.claim => r.idx # None)
            /\ meta \in Meta
        BY <1>1, <1>8, <2>1 DEF PieceReload, WellFormed, TypeOK
      <3>2. c \in Meta /\ c # None
        BY <1>1, <3>1, CreditType, NoneAssumption
      <3>3. req' = [req EXCEPT ![p] = s]
        BY <1>1, <1>8, <2>1 DEF PieceReload, TypeOK
      <3> HIDE DEF c
      <3>4. s \in Request /\ WellFormed(s)
        BY <1>1, <1>8, <3>1, <3>2 DEF PieceReload, Request, PCs, WellFormed
      <3>5. held' \subseteq Locks
        BY <1>1, <1>8 DEF PieceReload, TypeOK, Request, WellFormed
      <3> HIDE DEF s
      <3>6. QED
        BY <1>1, <1>8, <3>3, <3>4, <3>5, TypeStep DEF PieceReload, TypeOK
    <2>2. CASE ~(meta # None /\ ~ClaimConflict(r, meta))
      BY <1>1, <1>8, <2>2, IdleType, TypeStep DEF PieceReload, Reply, TypeOK
    <2>3. QED
      BY <2>1, <2>2
  <1>9. CASE PieceSave(p)
    <2>1. r.m \in Meta
      BY <1>1, <1>9 DEF PieceSave, WellFormed, Request
    <2>2. meta' \in Meta \cup {None}
      BY <1>1, <1>9, <2>1, VerifyType DEF PieceSave, SaveMeta, Torn, TypeOK
    <2>3. earned' \subseteq Inodes \X Pieces \X Hashes
      <3>1. \A i \in Matching(r) : i \in Pieces /\ part \in Inodes /\ r.m.hashes[i] \in Hashes
        BY <1>1, <2>1 DEF Matching, Unmarked, VerifyPiece, Meta, TypeOK
      <3>2. QED
        BY <1>1, <1>9, <3>1 DEF PieceSave, TypeOK
    <2>4. QED
      BY <1>1, <1>9, <2>2, <2>3, IdleType, TypeStep DEF PieceSave, Reply, TypeOK
  <1>10. QED
    BY <1>2, <1>3, <1>4, <1>5, <1>6, <1>7, <1>8, <1>9

(* Every step of /upload_complete keeps the types.                         *)
LEMMA TypeOfComplete ==
  ASSUME TypeInv, NEW p \in Procs,
         \/ CompleteStart(p) \/ CompleteCheck(p) \/ CompleteHash(p)
         \/ CompletePlace(p) \/ CompleteForget(p)
  PROVE  TypeInv'
  <1>1. req[p] \in Request /\ WellFormed(req[p]) /\ TypeOK
    BY DEF TypeOK, TypeInv
  <1>2. CASE CompleteStart(p)
    <2>1. PICK file \in Sources \cup {None}, l \in Locks :
            /\ SessLock(l)
            /\ req' = [req EXCEPT ![p] = [Idle EXCEPT !.pc = "ccheck", !.lk = l,
                                            !.file = file]]
      BY <1>2 DEF CompleteStart
    <2> DEFINE B == [Idle EXCEPT !.pc = "ccheck", !.lk = l, !.file = file]
    <2>2. B \in Request /\ WellFormed(B)
      <3>1. 0 \in 0 .. Size
        BY SessionAssumption
      <3>2. QED
        BY <3>1, NoneAssumption DEF Idle, Request, PCs, WellFormed
    <2>3. lockOf' \in Locks \cup {None}
      BY <1>1, <2>1, SessLockType
    <2> HIDE DEF B
    <2>4. QED
      BY <1>1, <1>2, <2>1, <2>2, <2>3, TypeStep DEF CompleteStart, TypeOK, B
  <1>3. CASE CompleteCheck(p) \/ CompleteHash(p) \/ CompletePlace(p)
    <2>1. \A pc \in {"place", "hash", "forget"} :
             [req[p] EXCEPT !.pc = pc] \in Request /\ WellFormed([req[p] EXCEPT !.pc = pc])
      BY <1>1, <1>3
      DEF CompleteCheck, CompleteHash, CompletePlace, Request, PCs, WellFormed
    <2>2. \E s \in {Idle} \cup {[req[p] EXCEPT !.pc = pc] : pc \in {"place", "hash", "forget"}} :
             req' = [req EXCEPT ![p] = s]
      BY <1>1, <1>3 DEF CompleteCheck, CompleteHash, CompletePlace, GoTo, Reply, TypeOK
    <2>3. PICK s \in Request : WellFormed(s) /\ req' = [req EXCEPT ![p] = s]
      BY <2>1, <2>2, IdleType
    <2>4. /\ dir' \in BOOLEAN /\ meta' \in Meta \cup {None}
          /\ part' \in Inodes \cup {None} /\ saved' \subseteq Inodes
          /\ UNCHANGED <<disk, lockOf, held, born, earned>>
      BY <1>1, <1>3, RemoveDirType
      DEF CompleteCheck, CompleteHash, CompletePlace, Publishable, TypeOK
    <2>5. QED
      BY <1>1, <2>3, <2>4, TypeStep DEF TypeOK
  <1>4. CASE CompleteForget(p)
    BY <1>1, <1>4, IdleType, TypeStep DEF CompleteForget, Reply, TypeOK
  <1>5. QED
    BY <1>2, <1>3, <1>4

LEMMA TypeOfSweep == TypeInv /\ RemoveAll /\ lockOf' \in {lockOf, None} => TypeInv'
  BY RemoveDirType DEF TypeInv, TypeOK, RemoveAll

LEMMA TypeOfRestart == TypeInv /\ Restart => TypeInv'
  <1> SUFFICES ASSUME TypeInv, Restart
               PROVE  TypeInv'
    OBVIOUS
  <1>1. (req \in [Procs -> Request])' /\ \A q \in Procs : WellFormed(req'[q])
    BY IdleType DEF Restart
  <1>2. QED
    BY <1>1 DEF Restart, TypeInv, TypeOK

LEMMA TypeNext == TypeInv /\ [Next]_vars => TypeInv'
  <1> SUFFICES ASSUME TypeInv, [Next]_vars
               PROVE  TypeInv'
    OBVIOUS
  <1>1. ASSUME NEW p \in Procs, Handler(p) \/ Client(p)
        PROVE  TypeInv'
    BY <1>1, TypeOfInit, TypeOfPiece, TypeOfComplete DEF Handler, Client
  <1>2. CASE SweepUploads \/ TempClean
    BY <1>2, TypeOfSweep DEF SweepUploads, TempClean
  <1>3. CASE Restart
    BY <1>3, TypeOfRestart
  <1>4. CASE UNCHANGED vars
    BY <1>4 DEF vars, TypeInv, TypeOK
  <1>5. QED
    BY <1>1, <1>2, <1>3, <1>4 DEF Next

(* The engine never leaves its types: whatever requests come, in whatever  *)
(* order, meta.json, data.part and the handlers' locals stay well formed.  *)
THEOREM TypeCorrect == Spec => []TypeOK
  <1>1. TypeInv => TypeOK
    BY DEF TypeInv
  <1>2. QED
    BY TypeInit, TypeNext, <1>1, PTL DEF Spec

-----------------------------------------------------------------------------
(* What the requests look like after a step, for the other invariants.     *)

(* The map keeps the mutex that it has.                                    *)
LEMMA SessLockKept ==
  ASSUME NEW l, SessLock(l)
  PROVE  lockOf' = l /\ (lockOf # None => lockOf' = lockOf)
  BY DEF SessLock

(* The request that InitStart leaves behind.                               *)
LEMMA InitStartRequest ==
  ASSUME TypeInv, NEW p \in Procs, InitStart(p)
  PROVE  /\ \/ req'[p].pc = "new"
            \/ req'[p].pc \in {"extract", "resume"} /\ meta # None
         /\ lockOf # None => lockOf' = lockOf
         /\ req'[p].m \in {None, meta, [meta EXCEPT !.extract = TRUE]}
         /\ meta = None => req'[p].m = None
  <1>1. req \in [Procs -> Request]
    BY DEF TypeInv, TypeOK
  <1>2. PICK file \in Sources \cup {None}, nov \in Modes, ext \in BOOLEAN :
          InitResumes(p, file, nov, ext) \/ InitRebuilds(p, file, nov, ext)
    BY DEF InitStart
  <1>3. CASE InitRebuilds(p, file, nov, ext)
    <2>1. PICK l \in Locks :
            /\ SessLock(l)
            /\ req' = [req EXCEPT ![p] = [Idle EXCEPT !.pc = "new", !.lk = l,
                         !.file = file, !.nov = nov, !.ext = ext]]
      BY <1>3 DEF InitRebuilds
    <2>2. req'[p].pc = "new" /\ req'[p].m = None
      BY <1>1, <2>1 DEF Idle
    <2>3. QED
      BY <2>1, <2>2, SessLockKept
  <1>4. CASE InitResumes(p, file, nov, ext)
    <2>1. CASE /\ req' = [req EXCEPT ![p] = [Idle EXCEPT !.pc = "extract", !.file = file,
                            !.nov = nov, !.ext = ext,
                            !.m = [meta EXCEPT !.extract = TRUE]]]
               /\ UNCHANGED lockOf
      <3>1. /\ req'[p].pc = "extract" /\ req'[p].m = [meta EXCEPT !.extract = TRUE]
        BY <1>1, <2>1 DEF Idle
      <3>2. QED
        BY <1>4, <2>1, <3>1 DEF InitResumes
    <2>2. CASE \E l \in Locks :
                 /\ SessLock(l)
                 /\ req' = [req EXCEPT ![p] = [Idle EXCEPT !.pc = "resume", !.lk = l,
                              !.file = file, !.nov = nov, !.ext = ext, !.m = meta]]
      <3>1. PICK l \in Locks :
              /\ SessLock(l)
              /\ req' = [req EXCEPT ![p] = [Idle EXCEPT !.pc = "resume", !.lk = l,
                           !.file = file, !.nov = nov, !.ext = ext, !.m = meta]]
        BY <2>2
      <3>2. req'[p].pc = "resume" /\ req'[p].m = meta
        BY <1>1, <3>1 DEF Idle
      <3>3. QED
        BY <1>4, <3>1, <3>2, SessLockKept DEF InitResumes
    <2>3. QED
      BY <1>4, <2>1, <2>2 DEF InitResumes
  <1>5. QED
    BY <1>2, <1>3, <1>4

(* The request that PieceStart or ChunkStart leaves behind.                *)
LEMMA BodyRequest ==
  ASSUME TypeInv, NEW p \in Procs, PieceStart(p) \/ ChunkStart(p)
  PROVE  /\ req'[p].pc = "check" /\ req'[p].m = None /\ meta # None
         /\ req'[p].lk = lockOf' /\ (lockOf # None => lockOf' = lockOf)
         /\ \A q \in Procs \ {p} : req'[q] = req[q]
  <1>1. req \in [Procs -> Request]
    BY DEF TypeInv, TypeOK
  <1>2. CASE PieceStart(p)
    <2>1. PICK i \in Pieces, file \in Sources, claim \in BOOLEAN, l \in Locks :
            /\ claim \/ meta.nov \/ meta.hashes[i] # None
            /\ SessLock(l)
            /\ \E from \in Units, to \in 1 .. Size :
                 /\ from .. to - 1 = PieceUnits(i)
                 /\ req' = [req EXCEPT ![p] = [Idle EXCEPT !.pc = "check", !.lk = l,
                              !.file = file, !.claim = claim, !.idx = i,
                              !.from = from, !.pos = from, !.to = to]]
      BY <1>2, Zenon DEF PieceStart
    <2>2. PICK from \in Units, to \in 1 .. Size :
            req' = [req EXCEPT ![p] = [Idle EXCEPT !.pc = "check", !.lk = l,
                      !.file = file, !.claim = claim, !.idx = i,
                      !.from = from, !.pos = from, !.to = to]]
      BY <2>1, Zenon
    <2>3. /\ req'[p].pc = "check" /\ req'[p].m = None /\ req'[p].lk = l
          /\ \A q \in Procs \ {p} : req'[q] = req[q]
      BY <1>1, <2>2 DEF Idle
    <2>4. QED
      BY <1>2, <2>1, <2>3, SessLockKept DEF PieceStart
  <1>3. CASE ChunkStart(p)
    <2>1. PICK file \in Sources, from \in Units, to \in 1 .. Size, l \in Locks :
            /\ SessLock(l)
            /\ req' = [req EXCEPT ![p] = [Idle EXCEPT !.pc = "check", !.lk = l,
                         !.file = file, !.from = from, !.pos = from, !.to = to]]
      BY <1>3 DEF ChunkStart
    <2>2. /\ req'[p].pc = "check" /\ req'[p].m = None /\ req'[p].lk = l
          /\ \A q \in Procs \ {p} : req'[q] = req[q]
      BY <1>1, <2>1 DEF Idle
    <2>3. QED
      BY <1>3, <2>1, <2>2, SessLockKept DEF ChunkStart
  <1>4. QED
    BY <1>2, <1>3

(* The request that a step of /upload_complete leaves behind.              *)
LEMMA CompleteRequest ==
  ASSUME TypeInv, NEW p \in Procs,
         \/ CompleteStart(p) \/ CompleteCheck(p) \/ CompleteHash(p)
         \/ CompletePlace(p) \/ CompleteForget(p)
  PROVE  /\ req'[p].pc # "stream" /\ req'[p].m \in {None, req[p].m}
         /\ \A q \in Procs \ {p} : req'[q] = req[q]
  <1>0. req[p] \in Request /\ req \in [Procs -> Request]
    BY DEF TypeInv, TypeOK
  <1>1. CASE CompleteStart(p)
    <2>1. PICK file \in Sources \cup {None}, l \in Locks :
            req' = [req EXCEPT ![p] = [Idle EXCEPT !.pc = "ccheck", !.lk = l,
                      !.file = file]]
      BY <1>1 DEF CompleteStart
    <2>2. QED
      BY <1>0, <2>1 DEF Idle, TypeOK
  <1>2. CASE CompleteCheck(p) \/ CompleteHash(p) \/ CompletePlace(p) \/ CompleteForget(p)
    BY <1>0, <1>2 DEF CompleteCheck, CompleteHash, CompletePlace, CompleteForget,
                      GoTo, Reply, TypeOK, Idle, Request
  <1>3. QED
    BY <1>1, <1>2

-----------------------------------------------------------------------------
(***************************************************************************)
(* One incarnation of a session: although completions and sweeps forget    *)
(* its mutex while requests hold pointers to it, no two requests are ever  *)
(* between the reload and the save of meta.json.  LockInv is the inductive *)
(* invariant.                                                              *)
(***************************************************************************)

(* What a step must keep to preserve LockInv, when it changes at most one  *)
(* request and takes no mutex.                                             *)
LEMMA LockStep ==
  ASSUME LockInv, TypeInv', NEW n0, Inodes = {n0}, NEW p \in Procs,
         \A q \in Procs \ {p} : req'[q] = req[q],
         born \subseteq born',
         meta' # None \/ part' # None => born' = Inodes,
         req'[p].pc \in Writing \cup {"extract", "resume", "place", "forget"} => born' = Inodes,
         part' \in {part, None} \/ born = {},
         req'[p].pc = "forget" => part' = None,
         lockOf # None /\ part' # None => lockOf' = lockOf,
         req'[p].pc \in Writing /\ part' # None => req'[p].lk = lockOf',
         req'[p].pc = "stream" =>
           /\ req'[p].lk = req[p].lk
           /\ \/ req[p].pc = "stream"
              \/ req[p].pc = "open" /\ part # None,
         req'[p].pc # "save",
         (req[p].pc = "save" /\ held' = held \ {req[p].lk}) \/ held \subseteq held'
  PROVE  LockInv'
  <1>1. (meta # None \/ part # None => born = Inodes)'
    OBVIOUS
  <1>2. \A q \in Procs :
          req'[q].pc \in Writing \cup {"extract", "resume", "place", "forget"} => born' = Inodes
    BY DEF LockInv, TypeInv, TypeOK
  <1>3. ASSUME NEW q \in Procs, req'[q].pc = "forget"
        PROVE  part' = None
    BY <1>3 DEF LockInv
  <1>4. ASSUME part' # None, NEW q \in Procs, req'[q].pc \in Writing
        PROVE  req'[q].lk = lockOf'
    <2>1. CASE q = p
      BY <1>4, <2>1
    <2>2. CASE q # p
      <3>1. req'[q] = req[q] /\ born # {}
        BY <1>4, <2>2 DEF LockInv
      <3>2. part # None /\ req[q].lk = lockOf
        BY <1>4, <3>1 DEF LockInv
      <3>3. req[q].lk # None
        BY <1>4, <3>1 DEF LockInv, TypeInv, WellFormed, Writing
      <3>4. QED
        BY <1>4, <3>1, <3>2, <3>3
    <2>3. QED
      BY <2>1, <2>2
  <1>5. ASSUME NEW q \in Procs, NEW s \in Procs,
               req'[q].pc \in {"stream", "save"}, req'[s].pc \in {"stream", "save"}
        PROVE  req'[q].lk = req'[s].lk
    <2>1. ASSUME NEW t \in Procs, t # p, req[t].pc \in {"stream", "save"},
                 req'[p].pc = "stream"
          PROVE  req'[p].lk = req[t].lk
      <3>1. CASE req[p].pc = "stream"
        BY <2>1, <3>1 DEF LockInv
      <3>2. CASE req[p].pc = "open" /\ part # None
        BY <2>1, <3>2 DEF LockInv, Writing
      <3>3. QED
        BY <2>1, <3>1, <3>2
    <2>2. CASE q # p /\ s # p
      BY <1>5, <2>2 DEF LockInv
    <2>3. CASE q = p \/ s = p
      BY <1>5, <2>1, <2>3
    <2>4. QED
      BY <2>2, <2>3
  <1>6. \A q \in Procs : req'[q].pc = "save" => req'[q].lk \in held'
    BY DEF LockInv, SingleSaver
  <1>7. SingleSaver'
    BY DEF LockInv, SingleSaver
  <1>8. QED
    BY <1>1, <1>2, <1>3, <1>4, <1>5, <1>6, <1>7 DEF LockInv

(* newSessionMeta and the mutex: a data.part appears only where nobody     *)
(* writes yet.                                                             *)
LEMMA LockNewSession ==
  ASSUME LockInv, NEW n0, Inodes = {n0}, NEW file, NEW nov, NEW ext,
         NewSessionMeta(file, nov, ext)
  PROVE  /\ born \subseteq born'
         /\ meta' # None \/ part' # None => born' = Inodes
         /\ part' \in {part, None} \/ born = {}
  BY DEF LockInv, NewSessionMeta, TypeInv, TypeOK

(* Every step of /upload_init keeps LockInv.                               *)
LEMMA LockOfInit ==
  ASSUME LockInv, TypeInv', NEW n0, Inodes = {n0}, NEW p \in Procs,
         InitStart(p) \/ InitExtract(p) \/ InitResume(p) \/ InitNew(p)
  PROVE  LockInv'
  <1>1. req[p] \in Request /\ WellFormed(req[p]) /\ TypeOK
    BY DEF LockInv, TypeOK, TypeInv
  <1>2. CASE InitStart(p)
    <2>1. \A q \in Procs \ {p} : req'[q] = req[q]
      BY <1>1, <1>2 DEF InitStart, InitResumes, InitRebuilds, TypeOK
    <2>2. UNCHANGED <<meta, part, born, held>> /\ req[p].pc = "idle"
      BY <1>2 DEF InitStart
    <2>3. /\ \/ req'[p].pc = "new"
             \/ req'[p].pc \in {"extract", "resume"} /\ meta # None
          /\ lockOf # None => lockOf' = lockOf
      BY <1>2, InitStartRequest DEF LockInv
    <2>4. QED
      BY <2>1, <2>2, <2>3, LockStep DEF LockInv, Writing
  <1>3. CASE InitExtract(p)
    <2>1. \A q \in Procs \ {p} : req'[q] = req[q]
      BY <1>1, <1>3 DEF InitExtract, Reply, TypeOK
    <2>2. req'[p].pc \in {"idle", "resume"} /\ (lockOf # None => lockOf' = lockOf)
      <3>1. CASE Reply(p) /\ UNCHANGED lockOf
        BY <1>1, <3>1 DEF Reply, TypeOK, Idle
      <3>2. CASE \E l \in Locks :
                   /\ SessLock(l)
                   /\ req' = [req EXCEPT ![p].pc = "resume", ![p].lk = l]
        BY <1>1, <3>2, SessLockKept DEF TypeOK, Request
      <3>3. QED
        BY <1>3, <3>1, <3>2 DEF InitExtract
    <2>3. UNCHANGED <<part, born, held>> /\ req[p].pc = "extract"
      BY <1>3 DEF InitExtract
    <2>4. born = Inodes
      BY <2>3 DEF LockInv
    <2>5. QED
      BY <2>1, <2>2, <2>3, <2>4, LockStep DEF LockInv, Writing
  <1>4. CASE InitResume(p) \/ InitNew(p)
    <2>1. (\A q \in Procs \ {p} : req'[q] = req[q]) /\ req'[p].pc = "idle"
      BY <1>1, <1>4 DEF InitResume, InitNew, Reply, TypeOK, Idle
    <2>2. UNCHANGED <<lockOf, held>> /\ req[p].pc \in {"resume", "new"}
      BY <1>4 DEF InitResume, InitNew
    <2>3. CASE NewSessionMeta(req[p].file, req[p].nov, req[p].ext)
      BY <2>1, <2>2, <2>3, LockNewSession, LockStep DEF Writing
    <2>4. CASE req[p].pc = "resume" /\ UNCHANGED <<part, born>>
      BY <2>1, <2>2, <2>4, LockStep DEF LockInv, Writing
    <2>5. QED
      BY <1>4, <2>3, <2>4 DEF InitResume, InitNew
  <1>5. QED
    BY <1>2, <1>3, <1>4

(* Every step of /upload_piece and /upload_chunk keeps LockInv.            *)
LEMMA LockOfPiece ==
  ASSUME LockInv, TypeInv', NEW n0, Inodes = {n0}, NEW p \in Procs,
         \/ PieceStart(p) \/ ChunkStart(p) \/ PieceCheck(p) \/ PieceOpen(p)
         \/ PieceStream(p) \/ PieceAbort(p) \/ PieceReload(p) \/ PieceSave(p)
  PROVE  LockInv'
  <1>1. req[p] \in Request /\ WellFormed(req[p]) /\ TypeOK
    BY DEF LockInv, TypeOK, TypeInv
  <1>2. CASE PieceStart(p) \/ ChunkStart(p)
    <2>1. UNCHANGED <<meta, part, born, held>> /\ req[p].pc = "idle"
      BY <1>2 DEF PieceStart, ChunkStart
    <2>2. /\ req'[p].pc = "check" /\ meta # None
          /\ req'[p].lk = lockOf' /\ (lockOf # None => lockOf' = lockOf)
          /\ \A q \in Procs \ {p} : req'[q] = req[q]
      BY <1>2, BodyRequest DEF LockInv
    <2>3. QED
      BY <2>1, <2>2, LockStep DEF LockInv, Writing
  <1>3. CASE PieceCheck(p) \/ PieceOpen(p) \/ PieceStream(p) \/ PieceAbort(p)
    <2>1. \A q \in Procs \ {p} : req'[q] = req[q]
      BY <1>1, <1>3 DEF PieceCheck, PieceOpen, PieceStream, PieceAbort, GoTo, Reply, TypeOK
    <2>2. UNCHANGED <<meta, part, lockOf, born, held>> /\ req[p].pc \in {"check", "open", "stream"}
      BY <1>3 DEF PieceCheck, PieceOpen, PieceStream, PieceAbort
    <2>3. \/ req'[p].pc = "idle"
          \/ /\ req'[p].lk = req[p].lk
             /\ \/ req'[p].pc = "open"
                \/ req'[p].pc = "stream" /\ req[p].pc = "stream"
                \/ req'[p].pc = "stream" /\ req[p].pc = "open" /\ part # None
      BY <1>1, <1>3 DEF PieceCheck, PieceOpen, PieceStream, PieceAbort, GoTo, Reply,
                        TypeOK, Idle, Request
    <2>4. QED
      BY <2>1, <2>2, <2>3, LockStep DEF LockInv, Writing
  <1>4. CASE PieceReload(p)
    <2>1. \A q \in Procs \ {p} : req'[q] = req[q]
      BY <1>1, <1>4 DEF PieceReload, Reply, TypeOK
    <2>2. UNCHANGED <<meta, part, lockOf, born>> /\ req[p].pc = "stream" /\ req[p].lk \notin held
      BY <1>4 DEF PieceReload, Free
    <2>3. CASE req'[p] = Idle /\ UNCHANGED held
      <3>1. req'[p].pc = "idle"
        BY <2>3 DEF Idle
      <3>2. QED
        BY <2>1, <2>2, <2>3, <3>1, LockStep DEF LockInv, Writing
    <2>4. CASE /\ req'[p].pc = "save" /\ req'[p].lk = req[p].lk
               /\ held' = held \cup {req[p].lk}
      <3>1. \A q \in Procs : req[q].pc # "save"
        BY <2>2 DEF LockInv
      <3>2. \A q \in Procs : /\ req'[q].lk = req[q].lk
                             /\ req'[q].pc \in {"stream", "save"} => req[q].pc \in {"stream", "save"}
                             /\ req'[q].pc = "save" => q = p
        BY <2>1, <2>2, <2>4, <3>1
      <3>3. \A q \in Procs \ {p} : req'[q].pc = req[q].pc
        BY <2>1
      <3>4. QED
        BY <2>2, <2>4, <3>2, <3>3 DEF LockInv, SingleSaver, Writing
    <2>5. QED
      BY <1>1, <1>4, <2>3, <2>4 DEF PieceReload, Reply, TypeOK, Request
  <1>5. CASE PieceSave(p)
    <2>1. (\A q \in Procs \ {p} : req'[q] = req[q]) /\ req'[p].pc = "idle"
      BY <1>1, <1>5 DEF PieceSave, Reply, TypeOK, Idle
    <2>2. /\ UNCHANGED <<part, lockOf, born>> /\ req[p].pc = "save"
          /\ held' = held \ {req[p].lk}
      BY <1>5 DEF PieceSave
    <2>3. born = Inodes
      BY <2>2 DEF LockInv, Writing
    <2>4. QED
      BY <2>1, <2>2, <2>3, LockStep DEF LockInv, Writing
  <1>6. QED
    BY <1>2, <1>3, <1>4, <1>5

(* Every step of /upload_complete keeps LockInv.                           *)
LEMMA LockOfComplete ==
  ASSUME LockInv, TypeInv', NEW n0, Inodes = {n0}, NEW p \in Procs,
         \/ CompleteStart(p) \/ CompleteCheck(p) \/ CompleteHash(p)
         \/ CompletePlace(p) \/ CompleteForget(p)
  PROVE  LockInv'
  <1>1. req[p] \in Request /\ WellFormed(req[p]) /\ TypeOK
    BY DEF LockInv, TypeOK, TypeInv
  <1>2. \A q \in Procs \ {p} : req'[q] = req[q]
    BY CompleteRequest DEF LockInv
  <1>3. CASE CompleteStart(p)
    <2>1. PICK file \in Sources \cup {None}, l \in Locks :
            /\ SessLock(l)
            /\ req' = [req EXCEPT ![p] = [Idle EXCEPT !.pc = "ccheck", !.lk = l,
                                            !.file = file]]
      BY <1>3 DEF CompleteStart
    <2>2. req'[p].pc = "ccheck" /\ (lockOf # None => lockOf' = lockOf)
      BY <1>1, <2>1, SessLockKept DEF Idle, TypeOK
    <2>3. UNCHANGED <<meta, part, born, held>>
      BY <1>3 DEF CompleteStart
    <2>4. QED
      BY <1>2, <2>2, <2>3, LockStep DEF LockInv, Writing
  <1>4. CASE CompleteCheck(p) \/ CompleteHash(p)
    <2>1. UNCHANGED <<meta, part, lockOf, born, held>>
      BY <1>4 DEF CompleteCheck, CompleteHash
    <2>2. \/ req'[p].pc \in {"idle", "hash"}
          \/ req'[p].pc = "place" /\ (meta # None \/ part # None)
      BY <1>1, <1>4 DEF CompleteCheck, CompleteHash, Complete, GoTo, Reply, TypeOK,
                        Idle, Request
    <2>3. QED
      BY <1>2, <2>1, <2>2, LockStep DEF LockInv, Writing
  <1>5. CASE CompletePlace(p)
    <2>1. UNCHANGED <<lockOf, born, held>> /\ born = Inodes
      BY <1>5 DEF CompletePlace, LockInv
    <2>2. \/ req'[p].pc = "forget" /\ part' = None /\ meta' = None
          \/ req'[p].pc = "idle" /\ UNCHANGED <<part, meta>>
      BY <1>1, <1>5 DEF CompletePlace, GoTo, Reply, TypeOK, Idle, Request
    <2>3. QED
      BY <1>2, <2>1, <2>2, LockStep DEF LockInv, Writing
  <1>6. CASE CompleteForget(p)
    <2>1. req'[p].pc = "idle"
      BY <1>1, <1>6 DEF CompleteForget, Reply, TypeOK, Idle
    <2>2. UNCHANGED <<meta, part, born, held>> /\ part = None
      BY <1>6 DEF CompleteForget, LockInv
    <2>3. QED
      BY <1>2, <2>1, <2>2, LockStep DEF LockInv, Writing
  <1>7. QED
    BY <1>3, <1>4, <1>5, <1>6

LEMMA LockNext ==
  ASSUME NEW n0, Inodes = {n0}
  PROVE  LockInv /\ [Next]_vars => LockInv'
  <1> SUFFICES ASSUME LockInv, [Next]_vars
               PROVE  LockInv'
    OBVIOUS
  <1>1. TypeInv'
    BY TypeNext DEF LockInv
  <1>2. ASSUME NEW p \in Procs, Handler(p) \/ Client(p)
        PROVE  LockInv'
    BY <1>1, <1>2, LockOfInit, LockOfPiece, LockOfComplete DEF Handler, Client
  <1>3. CASE SweepUploads \/ TempClean
    <2>1. UNCHANGED <<born, held, req>> /\ meta' = None /\ part' = None
      BY <1>3 DEF SweepUploads, TempClean, RemoveAll
    <2>2. QED
      BY <1>1, <2>1 DEF LockInv, SingleSaver
  <1>4. CASE Restart
    <2>1. UNCHANGED <<born, meta, part>> /\ \A p \in Procs : req'[p].pc = "idle"
      BY <1>4 DEF Restart, Idle
    <2>2. QED
      BY <1>1, <2>1 DEF LockInv, SingleSaver, Writing
  <1>5. CASE UNCHANGED vars
    BY <1>1, <1>5 DEF vars, LockInv, SingleSaver
  <1>6. QED
    BY <1>2, <1>3, <1>4, <1>5 DEF Next

(* Within one incarnation, a meta.json read for a piece is the one that    *)
(* its save replaces as far as other pieces go: no two are updating it at  *)
(* a time, whatever was forgotten, swept or restarted in between.          *)
THEOREM MutexCorrect ==
  ASSUME NEW n0, Inodes = {n0}
  PROVE  Spec => []SingleSaver
  <1>1. Init => LockInv
    <2>1. Init => TypeInv
      BY TypeInit
    <2>2. QED
      BY <2>1 DEF Init, LockInv, SingleSaver, Idle, Writing
  <1>2. LockInv /\ [Next]_vars => LockInv'
    BY LockNext
  <1>3. LockInv => SingleSaver
    BY DEF LockInv
  <1>4. QED
    BY <1>1, <1>2, <1>3, PTL DEF Spec

-----------------------------------------------------------------------------
(***************************************************************************)
(* One incarnation of a session, whatever bytes and hashes clients send:   *)
(* every mark of a verified session was earned by a matching hash, and no  *)
(* file is published before all are.  EarnedInv is the inductive invariant.*)
(***************************************************************************)

(* What a step must keep to preserve EarnedInv, when it changes at most    *)
(* one request.                                                            *)
LEMMA EarnedStep ==
  ASSUME EarnedInv, TypeInv', NEW p \in Procs,
         \A q \in Procs \ {p} : req'[q] = req[q],
         earned \subseteq earned',
         meta' \in {meta, None} \/ CopyIsEarned(meta)',
         req'[p].m \in {None, meta, req[p].m} \/ CopyIsEarned(req[p].m)'
  PROVE  EarnedInv'
  <1>1. \A m \in Meta : CopyIsEarned(m) => CopyIsEarned(m)'
    BY DEF CopyIsEarned
  <1>2. meta' # None => CopyIsEarned(meta)'
    BY <1>1 DEF EarnedInv, TypeInv, TypeOK, CopyIsEarned
  <1>3. ASSUME NEW q \in Procs, req'[q].m # None
        PROVE  CopyIsEarned(req[q].m)'
    <2>1. req[q].m \in Meta \cup {None} /\ meta \in Meta \cup {None}
      BY DEF EarnedInv, TypeInv, TypeOK, Request
    <2>2. CASE req'[q].m \in {meta, req[q].m}
      <3>1. req'[q].m \in Meta /\ CopyIsEarned(req'[q].m)
        BY <1>3, <2>1, <2>2 DEF EarnedInv
      <3>2. QED
        BY <1>1, <3>1 DEF CopyIsEarned
    <2>3. CASE req'[q].m \notin {meta, req[q].m}
      <3>1. q = p
        BY <2>3
      <3>2. QED
        BY <1>3, <2>3, <3>1
    <2>4. QED
      BY <2>2, <2>3
  <1>4. QED
    BY <1>2, <1>3 DEF EarnedInv

(* Hashes may be added to a copy as long as those it has stay.             *)
LEMMA MoreHashes ==
  ASSUME NEW m \in Meta, NEW c \in Meta, CopyIsEarned(m),
         c.nov = m.nov, c.bits = m.bits,
         \A i \in Pieces : m.hashes[i] \in {None, c.hashes[i]}
  PROVE  CopyIsEarned(c)
  BY DEF CopyIsEarned, Meta

(* verifySpan marks, in a verified session, only what matches.             *)
LEMMA VerifyIsEarned ==
  ASSUME NEW r, r.m \in Meta, CopyIsEarned(r.m), NEW n0, Inodes = {n0},
         part \in Inodes \cup {None},
         earned' = earned \cup {<<part, i, r.m.hashes[i]>> : i \in Matching(r)},
         NEW v, v = VerifySpan(r)
  PROVE  ~v.nov => \A i \in v.bits : /\ v.hashes[i] # None
                                     /\ \A n \in Inodes : <<n, i, v.hashes[i]>> \in earned'
  <1>1. /\ v.nov = r.m.nov /\ v.hashes = r.m.hashes
        /\ v.bits = r.m.bits \cup Good(r)
    BY DEF VerifySpan, Meta
  <1>2. ~v.nov => Good(r) = Matching(r)
    BY <1>1 DEF Good
  <1>3. \A i \in Matching(r) : r.m.hashes[i] # None /\ part \in Inodes
    BY DEF Matching, VerifyPiece
  <1>4. QED
    BY <1>1, <1>2, <1>3 DEF CopyIsEarned

(* Every step of /upload_init keeps EarnedInv.                             *)
LEMMA EarnedOfInit ==
  ASSUME EarnedInv, TypeInv', NEW p \in Procs,
         InitStart(p) \/ InitExtract(p) \/ InitResume(p) \/ InitNew(p)
  PROVE  EarnedInv'
  <1>1. req[p] \in Request /\ WellFormed(req[p]) /\ TypeOK
    BY DEF EarnedInv, TypeOK, TypeInv
  <1>2. CASE InitStart(p)
    <2>1. \A q \in Procs \ {p} : req'[q] = req[q]
      BY <1>1, <1>2 DEF InitStart, InitResumes, InitRebuilds, TypeOK
    <2>2. UNCHANGED <<meta, earned>>
      BY <1>2 DEF InitStart
    <2>3. req'[p].m \in {None, meta, req[p].m} \/ CopyIsEarned(req[p].m)'
      <3>1. SUFFICES ASSUME meta \in Meta, meta # None,
                            req'[p].m = [meta EXCEPT !.extract = TRUE]
                     PROVE  CopyIsEarned(req[p].m)'
        BY <1>1, <1>2, InitStartRequest DEF EarnedInv, TypeOK
      <3>2. /\ req'[p].m.nov = meta.nov /\ req'[p].m.bits = meta.bits
            /\ req'[p].m.hashes = meta.hashes
        BY <3>1 DEF Meta
      <3>3. QED
        BY <2>2, <3>1, <3>2 DEF EarnedInv, CopyIsEarned
    <2>4. QED
      BY <2>1, <2>2, <2>3, EarnedStep
  <1>3. CASE InitExtract(p)
    <2>1. \A q \in Procs \ {p} : req'[q] = req[q]
      BY <1>1, <1>3 DEF InitExtract, Reply, TypeOK
    <2>2. req'[p].m \in {None, req[p].m}
      BY <1>1, <1>3 DEF InitExtract, Reply, TypeOK, Idle, Request
    <2>3. meta' \in {meta, None} \/ CopyIsEarned(meta)'
      BY <1>1, <1>3 DEF InitExtract, SaveMeta, Torn, EarnedInv, WellFormed, CopyIsEarned
    <2>4. QED
      BY <1>3, <2>1, <2>2, <2>3, EarnedStep DEF InitExtract
  <1>4. CASE InitResume(p) \/ InitNew(p)
    <2>1. /\ \A q \in Procs \ {p} : req'[q] = req[q]
          /\ req'[p].m = None /\ earned' = earned
      BY <1>1, <1>4 DEF InitResume, InitNew, Reply, TypeOK, Idle
    <2>2. CASE NewSessionMeta(req[p].file, req[p].nov, req[p].ext)
      <3>1. meta' \in {meta, None} \/ meta'.bits = {}
        BY <2>2 DEF NewSessionMeta, Torn
      <3>2. QED
        BY <2>1, <3>1, EarnedStep DEF CopyIsEarned
    <2>3. CASE /\ req[p].pc = "resume"
               /\ meta' \in {meta, None, [req[p].m EXCEPT !.hashes = HashList(req[p].file)]}
               /\ \A i \in Pieces : req[p].m.hashes[i] \in {None, HashList(req[p].file)[i]}
      <3> DEFINE c == [req[p].m EXCEPT !.hashes = HashList(req[p].file)]
      <3>1. /\ req[p].m \in Meta /\ CopyIsEarned(req[p].m)
            /\ req[p].file \in Sources
        BY <1>1, <2>3 DEF WellFormed, Request, EarnedInv
      <3>2. c \in Meta
        BY <3>1, HashListType DEF Meta
      <3>3. /\ c.nov = req[p].m.nov /\ c.bits = req[p].m.bits
            /\ c.hashes = HashList(req[p].file)
        BY <3>1 DEF Meta
      <3>4. meta' \in {meta, None, c}
        BY <2>3
      <3> HIDE DEF c
      <3>5. CopyIsEarned(c)
        BY <2>3, <3>1, <3>2, <3>3, MoreHashes
      <3>6. meta' \in {meta, None} \/ CopyIsEarned(meta)'
        BY <2>1, <3>4, <3>5 DEF CopyIsEarned
      <3>7. QED
        BY <2>1, <3>6, EarnedStep
    <2>4. QED
      BY <1>4, <2>2, <2>3 DEF InitResume, InitNew, SaveMeta, Torn
  <1>5. QED
    BY <1>2, <1>3, <1>4

(* Every step of /upload_piece and /upload_chunk keeps EarnedInv.          *)
LEMMA EarnedOfPiece ==
  ASSUME EarnedInv, TypeInv', NEW n0, Inodes = {n0}, NEW p \in Procs,
         \/ PieceStart(p) \/ ChunkStart(p) \/ PieceCheck(p) \/ PieceOpen(p)
         \/ PieceStream(p) \/ PieceAbort(p) \/ PieceReload(p) \/ PieceSave(p)
  PROVE  EarnedInv'
  <1>1. req[p] \in Request /\ WellFormed(req[p]) /\ TypeOK
    BY DEF EarnedInv, TypeOK, TypeInv
  <1>2. CASE PieceStart(p) \/ ChunkStart(p)
    <2>1. UNCHANGED <<meta, earned>>
      BY <1>2 DEF PieceStart, ChunkStart
    <2>2. QED
      BY <1>2, <2>1, BodyRequest, EarnedStep DEF EarnedInv
  <1>3. CASE PieceCheck(p) \/ PieceOpen(p) \/ PieceStream(p) \/ PieceAbort(p)
    <2>1. /\ req'[p].m \in {None, req[p].m}
          /\ \A q \in Procs \ {p} : req'[q] = req[q]
      BY <1>1, <1>3 DEF PieceCheck, PieceOpen, PieceStream, PieceAbort, GoTo, Reply,
                        TypeOK, Idle, Request
    <2>2. UNCHANGED <<meta, earned>>
      BY <1>3 DEF PieceCheck, PieceOpen, PieceStream, PieceAbort
    <2>3. QED
      BY <2>1, <2>2, EarnedStep
  <1>4. CASE PieceReload(p)
    <2>1. \A q \in Procs \ {p} : req'[q] = req[q]
      BY <1>1, <1>4 DEF PieceReload, Reply, TypeOK
    <2>2. UNCHANGED <<meta, earned>>
      BY <1>4 DEF PieceReload
    <2>3. CASE meta # None /\ ~ClaimConflict(req[p], meta)
      <3> DEFINE c == [MergeClaim(req[p], meta) EXCEPT !.ranges = @ \cup Span(req[p])]
      <3>1. meta \in Meta /\ CopyIsEarned(meta)
        BY <1>1, <2>3 DEF EarnedInv, TypeOK
      <3>2. req[p].file # None /\ (req[p].claim => req[p].idx \in Pieces)
        BY <1>1, <1>4 DEF PieceReload, WellFormed, Request
      <3>3. c \in Meta
        BY <1>1, <1>4, <3>1, CreditType DEF PieceReload, WellFormed
      <3>4. /\ c.nov = meta.nov /\ c.bits = meta.bits
            /\ c.hashes = MergeClaim(req[p], meta).hashes
        BY <3>1 DEF MergeClaim, Meta
      <3>5. \A i \in Pieces : meta.hashes[i] \in {None, c.hashes[i]}
        BY <2>3, <3>1, <3>2, <3>4 DEF ClaimConflict, MergeClaim, Meta
      <3> HIDE DEF c
      <3>6. CopyIsEarned(c)
        BY <3>1, <3>3, <3>4, <3>5, MoreHashes
      <3>7. req'[p] = [req[p] EXCEPT !.pc = "save", !.fd = None, !.m = c]
        BY <1>1, <1>4, <2>3 DEF PieceReload, TypeOK, c
      <3>8. req'[p].m = c
        BY <1>1, <3>7 DEF Request
      <3>9. QED
        BY <2>1, <2>2, <3>6, <3>8, EarnedStep DEF CopyIsEarned
    <2>4. CASE ~(meta # None /\ ~ClaimConflict(req[p], meta))
      <3>1. req'[p].m = None
        BY <1>1, <1>4, <2>4 DEF PieceReload, Reply, TypeOK, Idle
      <3>2. QED
        BY <2>1, <2>2, <3>1, EarnedStep
    <2>5. QED
      BY <2>3, <2>4
  <1>5. CASE PieceSave(p)
    <2>1. (\A q \in Procs \ {p} : req'[q] = req[q]) /\ req'[p].m = None
      BY <1>1, <1>5 DEF PieceSave, Reply, TypeOK, Idle
    <2>2. /\ req[p].m \in Meta /\ CopyIsEarned(req[p].m)
          /\ part \in Inodes \cup {None}
      BY <1>1, <1>5 DEF PieceSave, WellFormed, Request, EarnedInv, TypeOK
    <2>3. earned' = earned \cup {<<part, i, req[p].m.hashes[i]>> : i \in Matching(req[p])}
      BY <1>5 DEF PieceSave
    <2>4. meta' \in {meta, None, VerifySpan(req[p])}
      BY <1>5 DEF PieceSave, SaveMeta, Torn
    <2>5. meta' \in {meta, None} \/ CopyIsEarned(meta)'
      BY <2>2, <2>3, <2>4, VerifyIsEarned DEF CopyIsEarned
    <2>6. QED
      BY <2>1, <2>3, <2>5, EarnedStep
  <1>6. QED
    BY <1>2, <1>3, <1>4, <1>5

LEMMA EarnedNext ==
  ASSUME NEW n0, Inodes = {n0}
  PROVE  EarnedInv /\ [Next]_vars => EarnedInv'
  <1> SUFFICES ASSUME EarnedInv, [Next]_vars
               PROVE  EarnedInv'
    OBVIOUS
  <1>1. TypeInv'
    BY TypeNext DEF EarnedInv
  <1>2. ASSUME NEW p \in Procs,
               \/ CompleteStart(p) \/ CompleteCheck(p) \/ CompleteHash(p)
               \/ CompletePlace(p) \/ CompleteForget(p)
        PROVE  EarnedInv'
    <2>1. meta' \in {meta, None} /\ earned' = earned
      BY <1>2 DEF CompleteStart, CompleteCheck, CompleteHash, CompletePlace,
                  CompleteForget
    <2>2. QED
      BY <1>1, <1>2, <2>1, CompleteRequest, EarnedStep DEF EarnedInv
  <1>3. ASSUME NEW p \in Procs, Handler(p) \/ Client(p)
        PROVE  EarnedInv'
    BY <1>1, <1>2, <1>3, EarnedOfInit, EarnedOfPiece DEF Handler, Client
  <1>4. CASE SweepUploads \/ TempClean
    BY <1>1, <1>4 DEF SweepUploads, TempClean, RemoveAll, EarnedInv, CopyIsEarned
  <1>5. CASE Restart
    BY <1>1, <1>5 DEF Restart, Idle, EarnedInv, CopyIsEarned
  <1>6. CASE UNCHANGED vars
    BY <1>1, <1>6 DEF vars, EarnedInv, CopyIsEarned
  <1>7. QED
    BY <1>3, <1>4, <1>5, <1>6 DEF Next

LEMMA EarnedAlways ==
  ASSUME NEW n0, Inodes = {n0}
  PROVE  Spec => []EarnedInv
  <1>1. Init => EarnedInv
    BY TypeInit DEF Init, EarnedInv, Idle
  <1>2. EarnedInv /\ [Next]_vars => EarnedInv'
    BY EarnedNext
  <1>3. QED
    BY <1>1, <1>2, PTL DEF Spec

-----------------------------------------------------------------------------
(* Whatever bodies and claims clients send, each bit that a verified       *)
(* session records, on disk or in a handler's hands, goes back to a        *)
(* verification that found the recorded hash in data.part.                 *)
THEOREM BitsCorrect ==
  ASSUME NEW n0, Inodes = {n0}
  PROVE  Spec => []BitsEarned
  <1>1. EarnedInv => BitsEarned
    BY DEF EarnedInv, TypeInv, TypeOK, BitsEarned, Copies, CopyIsEarned
  <1>2. QED
    BY <1>1, EarnedAlways, PTL

(* ... so that a verified session is published only when every one of its  *)
(* pieces had passed its verification.                                     *)
THEOREM PlacedCorrect ==
  ASSUME NEW n0, Inodes = {n0}
  PROVE  Spec => PlacedOnlyIfEarned
  <1> DEFINE A == \A n \in saved' \ saved :
                    ~meta.nov => \A i \in Pieces : <<n, i, meta.hashes[i]>> \in earned
  <1>1. EarnedInv /\ [Next]_vars => [A]_vars
    <2> SUFFICES ASSUME EarnedInv, [Next]_vars, NEW n \in saved' \ saved, ~meta.nov
                 PROVE  \A i \in Pieces : <<n, i, meta.hashes[i]>> \in earned
      OBVIOUS
    <2>1. /\ Publishable /\ n = part
      BY DEF Next, Handler, Client, vars, InitStart, InitExtract, InitResume, InitNew,
             PieceStart, ChunkStart, PieceCheck, PieceOpen, PieceStream, PieceAbort,
             PieceReload, PieceSave, CompleteStart, CompleteCheck, CompleteHash,
             CompletePlace, CompleteForget, SweepUploads, TempClean, RemoveAll, Restart
    <2>2. /\ meta \in Meta /\ CopyIsEarned(meta) /\ meta.bits = Pieces
          /\ n \in Inodes
      BY <2>1 DEF Publishable, Complete, missing, EarnedInv, TypeInv, TypeOK, Meta
    <2>3. QED
      BY <2>2 DEF CopyIsEarned
  <1>2. QED
    BY <1>1, EarnedAlways, PTL DEF Spec, PlacedOnlyIfEarned

-----------------------------------------------------------------------------
(***************************************************************************)
(* One incarnation of a session and clients that send the bytes of their   *)
(* files: what meta.json credits has arrived, and what is published was    *)
(* uploaded.  HonestInv is the inductive invariant.                        *)
(***************************************************************************)

(* What a step must keep to preserve HonestInv, when it changes at most    *)
(* one request: units that arrived stay, and the copies of meta.json it    *)
(* leaves behind are old ones or real.                                     *)
LEMMA HonestStep ==
  ASSUME HonestInv, TypeInv', NEW n0, Inodes = {n0}, NEW p \in Procs,
         \A q \in Procs \ {p} : req'[q] = req[q],
         born \subseteq born',
         \A n \in born : \A u \in Units : Arrived(n, u) => Arrived(n, u)',
         part' # None => part' \in born',
         saved' \subseteq born',
         \A n \in saved' \ saved : \A u \in Units : Arrived(n, u)',
         meta' \in {meta, None} \/ CopyIsReal(meta)',
         \/ req'[p].m \in {None, meta, req[p].m}
         \/ CopyIsReal(req[p].m)',
         BodyIsReal(req[p])'
  PROVE  HonestInv'
  <1>1. \A m \in Meta : CopyIsReal(m) => CopyIsReal(m)'
    BY DEF CopyIsReal, HonestInv, TypeInv, TypeOK, Meta, Arrived
  <1>2. meta' # None => CopyIsReal(meta)'
    BY <1>1 DEF HonestInv, TypeInv, TypeOK, CopyIsReal, Arrived
  <1>3. ASSUME NEW q \in Procs, req'[q].m # None
        PROVE  CopyIsReal(req[q].m)'
    <2>1. req[q].m \in Meta \cup {None} /\ meta \in Meta \cup {None}
      BY DEF HonestInv, TypeInv, TypeOK, Request
    <2>2. req'[q].m \in {meta, req[q].m} => CopyIsReal(req'[q].m)
      BY <1>3 DEF HonestInv
    <2>3. CASE req'[q].m \in {meta, req[q].m}
      <3>1. req'[q].m \in Meta /\ CopyIsReal(req'[q].m)
        BY <1>3, <2>1, <2>2, <2>3
      <3>2. QED
        BY <1>1, <3>1 DEF CopyIsReal, Arrived
    <2>4. CASE req'[q].m \notin {meta, req[q].m}
      <3>1. q = p
        BY <2>4
      <3>2. QED
        BY <1>3, <2>4, <3>1
    <2>5. QED
      BY <2>3, <2>4
  <1>4. ASSUME NEW q \in Procs
        PROVE  BodyIsReal(req[q])'
    <2>1. CASE q = p
      BY <2>1
    <2>2. CASE q # p
      <3>1. req[q] \in Request /\ BodyIsReal(req[q]) /\ req'[q] = req[q]
        BY <2>2 DEF HonestInv, TypeInv, TypeOK
      <3>2. \A u \in req[q].from .. req[q].pos - 1 : u \in Units
        BY <3>1, SessionAssumption DEF Request, Units
      <3>3. QED
        BY <3>1, <3>2 DEF BodyIsReal
    <2>3. QED
      BY <2>1, <2>2
  <1>5. part' # None => part' \in born'
    OBVIOUS
  <1>6. \A n \in saved' : \A u \in Units : Arrived(n, u)'
    BY DEF HonestInv
  <1>7. QED
    BY <1>2, <1>3, <1>4, <1>5, <1>6 DEF HonestInv

(* Only the credited units and the marked pieces of a copy matter.         *)
LEMMA SameCredit ==
  ASSUME NEW m \in Meta, NEW c \in Meta, CopyIsReal(m),
         c.ranges = m.ranges, c.bits = m.bits
  PROVE  CopyIsReal(c)
  BY DEF CopyIsReal

(* A new meta.json credits nothing, and a new data.part is made only when  *)
(* the session has had none.                                               *)
LEMMA HonestNewSession ==
  ASSUME HonestInv, NEW n0, Inodes = {n0}, NEW file, NEW nov, NEW ext,
         NewSessionMeta(file, nov, ext)
  PROVE  /\ born \subseteq born'
         /\ \A n \in born : \A u \in Units : Arrived(n, u) => Arrived(n, u)'
         /\ part' # None => part' \in born'
         /\ meta' \in {meta, None} \/ CopyIsReal(meta)'
  <1>1. meta' \in {meta, None} \/ (meta'.ranges = {} /\ meta'.bits = {})
    BY DEF NewSessionMeta, Torn
  <1>2. meta' \in {meta, None} \/ CopyIsReal(meta)'
    BY <1>1 DEF CopyIsReal
  <1>3. CASE UNCHANGED <<part, disk>> /\ born \subseteq born'
    BY <1>2, <1>3 DEF HonestInv, Arrived
  <1>4. CASE \E n \in Inodes \ born : born' = born \cup {n} /\ part' = n
    <2>1. born = {}
      BY <1>4 DEF HonestInv, TypeInv, TypeOK
    <2>2. QED
      BY <1>2, <1>4, <2>1
  <1>5. QED
    BY <1>3, <1>4 DEF NewSessionMeta

(* Every step of /upload_init keeps HonestInv.                             *)
LEMMA HonestOfInit ==
  ASSUME HonestInv, TypeInv', NEW n0, Inodes = {n0}, NEW p \in Procs,
         InitStart(p) \/ InitExtract(p) \/ InitResume(p) \/ InitNew(p)
  PROVE  HonestInv'
  <1>1. req[p] \in Request /\ WellFormed(req[p]) /\ TypeOK
    BY DEF HonestInv, TypeOK, TypeInv
  <1>2. CASE InitStart(p)
    <2>1. \A q \in Procs \ {p} : req'[q] = req[q]
      BY <1>1, <1>2 DEF InitStart, InitResumes, InitRebuilds, TypeOK
    <2>2. req'[p].pc # "stream"
      BY <1>2, InitStartRequest DEF HonestInv
    <2>3. req'[p].m \in {None, meta, [meta EXCEPT !.extract = TRUE]} /\ (meta = None => req'[p].m = None)
      BY <1>2, InitStartRequest DEF HonestInv
    <2>4. req'[p].m \in {None, meta, req[p].m} \/ CopyIsReal(req[p].m)'
      <3>1. SUFFICES ASSUME meta \in Meta, meta # None,
                            req'[p].m = [meta EXCEPT !.extract = TRUE]
                     PROVE  CopyIsReal(req[p].m)'
        BY <1>1, <2>3 DEF TypeOK
      <3>2. req'[p].m.ranges = meta.ranges /\ req'[p].m.bits = meta.bits
        BY <3>1 DEF Meta
      <3>3. QED
        BY <1>2, <3>1, <3>2 DEF HonestInv, CopyIsReal, Arrived, InitStart
    <2>5. QED
      BY <1>2, <2>1, <2>2, <2>4, HonestStep
      DEF InitStart, InitResumes, InitRebuilds, BodyIsReal, HonestInv, Arrived
  <1>3. CASE InitExtract(p)
    <2>1. \A q \in Procs \ {p} : req'[q] = req[q]
      BY <1>1, <1>3 DEF InitExtract, Reply, TypeOK
    <2>2. req'[p].pc # "stream" /\ req'[p].m \in {None, req[p].m}
      BY <1>1, <1>3 DEF InitExtract, Reply, TypeOK, Idle, Request
    <2>3. meta' \in {meta, None} \/ CopyIsReal(meta)'
      BY <1>1, <1>3 DEF InitExtract, SaveMeta, Torn, HonestInv, WellFormed, CopyIsReal, Arrived
    <2>4. QED
      BY <1>3, <2>1, <2>2, <2>3, HonestStep
      DEF InitExtract, BodyIsReal, HonestInv, Arrived
  <1>4. CASE InitResume(p)
    <2>1. (\A q \in Procs \ {p} : req'[q] = req[q]) /\ req'[p] = Idle
      BY <1>1, <1>4 DEF InitResume, Reply, TypeOK
    <2>2. req'[p].pc # "stream" /\ req'[p].m = None
      BY <2>1 DEF Idle
    <2>3. CASE NewSessionMeta(req[p].file, req[p].nov, req[p].ext)
      <3> HIDE DEF NewSessionMeta
      <3>1. QED
        BY <1>4, <2>1, <2>2, <2>3, HonestNewSession, HonestStep
        DEF InitResume, BodyIsReal, HonestInv
    <2>4. CASE /\ meta' \in {meta, None, [req[p].m EXCEPT !.hashes = HashList(req[p].file)]}
               /\ UNCHANGED <<part, disk, born>>
      <3>1. req[p].m \in Meta /\ CopyIsReal(req[p].m)
        BY <1>1, <1>4 DEF InitResume, WellFormed, Request, HonestInv
      <3>2. meta' \in {meta, None} \/ (meta'.ranges = req[p].m.ranges /\ meta'.bits = req[p].m.bits)
        BY <2>4, <3>1 DEF Meta
      <3>3. meta' \in {meta, None} \/ CopyIsReal(meta)'
        BY <2>4, <3>1, <3>2 DEF CopyIsReal, Arrived
      <3>4. QED
        BY <1>4, <2>1, <2>2, <2>4, <3>3, HonestStep
        DEF InitResume, BodyIsReal, HonestInv, Arrived
    <2>5. QED
      BY <1>4, <2>3, <2>4 DEF InitResume, SaveMeta, Torn
  <1>5. CASE InitNew(p)
    <2>1. (\A q \in Procs \ {p} : req'[q] = req[q]) /\ req'[p] = Idle
      BY <1>1, <1>5 DEF InitNew, Reply, TypeOK
    <2>2. req'[p].pc # "stream" /\ req'[p].m = None
      BY <2>1 DEF Idle
    <2>3. NewSessionMeta(req[p].file, req[p].nov, req[p].ext)
      BY <1>5 DEF InitNew
    <2>4. QED
      BY <1>5, <2>1, <2>2, <2>3, HonestNewSession, HonestStep
      DEF InitNew, BodyIsReal, HonestInv
  <1>6. QED
    BY <1>2, <1>3, <1>4, <1>5

(* verifySpan marks only credited pieces, and takes the credit back of     *)
(* none that is marked.                                                    *)
LEMMA VerifyIsReal ==
  ASSUME NEW r, r.m \in Meta, CopyIsReal(r.m)
  PROVE  CopyIsReal(VerifySpan(r))
  <1> DEFINE v == VerifySpan(r)
             failed == Unmarked(r) \ Good(r)
  <1>1. /\ v.bits = r.m.bits \cup Good(r)
        /\ v.ranges = r.m.ranges \ UNION {PieceUnits(i) : i \in failed}
    BY DEF VerifySpan, Meta
  <1>2. Good(r) \subseteq Unmarked(r)
    BY DEF Good, Matching
  <1>3. \A i \in Unmarked(r) : i \notin r.m.bits /\ PieceUnits(i) \subseteq r.m.ranges
    BY DEF Unmarked
  <1>4. \A i, j : \A u \in PieceUnits(i) : u \in PieceUnits(j) => i = j
    BY DEF PieceUnits
  <1> HIDE DEF v
  <1>5. ASSUME NEW i \in v.bits
        PROVE  PieceUnits(i) \subseteq v.ranges
    <2>1. PieceUnits(i) \subseteq r.m.ranges /\ i \notin failed
      BY <1>1, <1>2, <1>3, <1>5 DEF CopyIsReal
    <2>2. QED
      BY <1>1, <1>4, <2>1
  <1>6. QED
    BY <1>1, <1>5 DEF CopyIsReal, v

(* Every step of /upload_piece and /upload_chunk keeps HonestInv.          *)
LEMMA HonestOfPiece ==
  ASSUME HonestInv, TypeInv', NEW n0, Inodes = {n0}, Damage = FALSE, NEW p \in Procs,
         \/ PieceStart(p) \/ ChunkStart(p) \/ PieceCheck(p) \/ PieceOpen(p)
         \/ PieceStream(p) \/ PieceAbort(p) \/ PieceReload(p) \/ PieceSave(p)
  PROVE  HonestInv'
  <1>1. req[p] \in Request /\ WellFormed(req[p]) /\ TypeOK
    BY DEF HonestInv, TypeOK, TypeInv
  <1>2. CASE PieceStart(p) \/ ChunkStart(p)
    <2>1. req'[p].pc = "check" /\ req'[p].m = None /\ \A q \in Procs \ {p} : req'[q] = req[q]
      BY <1>2, BodyRequest DEF HonestInv
    <2>2. UNCHANGED <<meta, part, disk, saved, born>>
      BY <1>2 DEF PieceStart, ChunkStart
    <2>3. QED
      BY <2>1, <2>2, HonestStep DEF BodyIsReal, HonestInv, Arrived
  <1>3. CASE PieceCheck(p) \/ PieceAbort(p)
    <2>1. /\ req'[p].pc # "stream" /\ req'[p].m \in {None, req[p].m}
          /\ \A q \in Procs \ {p} : req'[q] = req[q]
      BY <1>1, <1>3 DEF PieceCheck, PieceAbort, GoTo, Reply, TypeOK, Idle, Request
    <2>2. UNCHANGED <<meta, part, disk, saved, born>>
      BY <1>3 DEF PieceCheck, PieceAbort
    <2>3. QED
      BY <2>1, <2>2, HonestStep DEF BodyIsReal, HonestInv, Arrived
  <1>4. CASE PieceOpen(p)
    <2>1. \A q \in Procs \ {p} : req'[q] = req[q]
      BY <1>1, <1>4 DEF PieceOpen, Reply, TypeOK
    <2>2. UNCHANGED <<meta, part, disk, saved, born>>
      BY <1>4 DEF PieceOpen
    <2>3. CASE part # None
      <3>1. req'[p] = [req[p] EXCEPT !.pc = "stream", !.fd = part]
        BY <1>1, <1>4, <2>3 DEF PieceOpen, TypeOK
      <3>2. req'[p].fd \in born /\ req'[p].m = req[p].m
        BY <1>1, <2>3, <3>1 DEF Request, HonestInv
      <3>3. req'[p].from .. req'[p].pos - 1 = {}
        BY <1>1, <1>4, <3>1 DEF PieceOpen, WellFormed, Request
      <3>4. BodyIsReal(req[p])'
        BY <2>2, <3>2, <3>3 DEF BodyIsReal
      <3>5. QED
        BY <2>1, <2>2, <3>2, <3>4, HonestStep DEF HonestInv, Arrived
    <2>4. CASE part = None
      <3>1. req'[p] = Idle
        BY <1>1, <1>4, <2>4 DEF PieceOpen, Reply, TypeOK
      <3>2. BodyIsReal(req[p])' /\ req'[p].m = None
        BY <3>1 DEF BodyIsReal, Idle
      <3>3. QED
        BY <2>1, <2>2, <3>2, HonestStep DEF HonestInv, Arrived
    <2>5. QED
      BY <2>3, <2>4
  <1>5. CASE PieceStream(p)
    <2>1. /\ req[p].pos \in Units /\ req[p].fd \in Inodes /\ req[p].file \in Sources
          /\ req[p].fd \in born
      BY <1>1, <1>5, SessionAssumption
      DEF PieceStream, Request, Units, WellFormed, HonestInv, BodyIsReal
    <2>2. disk' = [disk EXCEPT ![req[p].fd][req[p].pos] = req[p].file[req[p].pos]]
      BY <1>5 DEF PieceStream
    <2>3. req' = [req EXCEPT ![p] = [req[p] EXCEPT !.pos = req[p].pos + 1]]
      BY <1>1, <1>5 DEF PieceStream, TypeOK
    <2>4. \A n \in Inodes : \A u \in Units : Arrived(n, u) => Arrived(n, u)'
      BY <1>1, <2>1, <2>2 DEF Arrived, TypeOK
    <2>5. \E file \in Sources : disk'[req[p].fd][req[p].pos] = file[req[p].pos]
      BY <1>1, <2>1, <2>2 DEF TypeOK
    <2>6. UNCHANGED <<meta, part, saved, born>>
      BY <1>5 DEF PieceStream
    <2>7. BodyIsReal(req[p])'
      <3>1. /\ req'[p].fd = req[p].fd /\ req'[p].from = req[p].from
            /\ req'[p].pos = req[p].pos + 1
        BY <1>1, <2>3 DEF Request, TypeOK
      <3>2. ASSUME NEW u \in req'[p].from .. req'[p].pos - 1
            PROVE  \E file \in Sources : disk'[req[p].fd][u] = file[u]
        <4>1. CASE u = req[p].pos
          BY <2>5, <4>1
        <4>2. CASE u # req[p].pos
          <5>1. u \in req[p].from .. req[p].pos - 1 /\ u \in Units
            BY <1>1, <3>1, <4>2, SessionAssumption DEF Request, Units
          <5>2. Arrived(req[p].fd, u)
            BY <1>5, <5>1 DEF HonestInv, BodyIsReal, PieceStream
          <5>3. QED
            BY <2>1, <2>4, <5>1, <5>2 DEF Arrived
        <4>3. QED
          BY <4>1, <4>2
      <3>3. QED
        BY <2>1, <2>6, <3>1, <3>2 DEF BodyIsReal, Arrived
    <2>8. QED
      BY <1>1, <2>3, <2>4, <2>6, <2>7, HonestStep DEF HonestInv, TypeOK, Request
  <1>6. CASE PieceReload(p)
    <2>1. \A q \in Procs \ {p} : req'[q] = req[q]
      BY <1>1, <1>6 DEF PieceReload, Reply, TypeOK
    <2>2. UNCHANGED <<meta, part, disk, saved, born>>
      BY <1>6 DEF PieceReload
    <2>3. CASE meta # None /\ ~ClaimConflict(req[p], meta)
      <3> DEFINE c == [MergeClaim(req[p], meta) EXCEPT !.ranges = @ \cup Span(req[p])]
      <3>1. meta \in Meta /\ CopyIsReal(meta)
        BY <1>1, <2>3 DEF HonestInv, TypeOK
      <3>2. c.ranges = meta.ranges \cup Span(req[p]) /\ c.bits = meta.bits
        BY <3>1 DEF MergeClaim, Meta
      <3>3. /\ req[p].fd \in born /\ req[p].fd \in Inodes
            /\ \A u \in Span(req[p]) : Arrived(req[p].fd, u)
        BY <1>1, <1>6 DEF PieceReload, BodyComplete, Span, HonestInv, BodyIsReal, TypeOK
      <3> HIDE DEF c
      <3>4. CopyIsReal(c)
        BY <1>1, <3>1, <3>2, <3>3 DEF CopyIsReal, TypeOK
      <3>5. req'[p] = [req[p] EXCEPT !.pc = "save", !.fd = None, !.m = c]
        BY <1>1, <1>6, <2>3 DEF PieceReload, TypeOK, c
      <3>6. req'[p].m = c /\ req'[p].pc = "save"
        BY <1>1, <3>5 DEF Request
      <3>7. CopyIsReal(req[p].m)' /\ BodyIsReal(req[p])'
        BY <2>2, <3>4, <3>6 DEF CopyIsReal, Arrived, BodyIsReal
      <3>8. QED
        BY <2>1, <2>2, <3>7, HonestStep DEF HonestInv, Arrived
    <2>4. CASE ~(meta # None /\ ~ClaimConflict(req[p], meta))
      <3>1. req'[p] = Idle
        BY <1>1, <1>6, <2>4 DEF PieceReload, Reply, TypeOK
      <3>2. BodyIsReal(req[p])' /\ req'[p].m = None
        BY <3>1 DEF BodyIsReal, Idle
      <3>3. QED
        BY <2>1, <2>2, <3>2, HonestStep DEF HonestInv, Arrived
    <2>5. QED
      BY <2>3, <2>4
  <1>7. CASE PieceSave(p)
    <2>1. (\A q \in Procs \ {p} : req'[q] = req[q]) /\ req'[p] = Idle
      BY <1>1, <1>7 DEF PieceSave, Reply, TypeOK
    <2>2. UNCHANGED <<part, disk, saved, born>>
      BY <1>7 DEF PieceSave
    <2>3. BodyIsReal(req[p])' /\ req'[p].m = None
      BY <2>1 DEF BodyIsReal, Idle
    <2>4. req[p].m \in Meta /\ CopyIsReal(req[p].m)
      BY <1>1, <1>7 DEF PieceSave, WellFormed, Request, HonestInv
    <2>5. CopyIsReal(VerifySpan(req[p]))
      BY <2>4, VerifyIsReal
    <2>6. meta' \in {meta, None} \/ CopyIsReal(meta)'
      BY <1>7, <2>2, <2>5 DEF PieceSave, SaveMeta, Torn, CopyIsReal, Arrived
    <2>7. QED
      BY <2>1, <2>2, <2>3, <2>6, HonestStep DEF HonestInv, Arrived
  <1>8. QED
    BY <1>2, <1>3, <1>4, <1>5, <1>6, <1>7

(* Every step of /upload_complete keeps HonestInv: the file is published   *)
(* only when every piece is marked, so when every unit has arrived.        *)
LEMMA HonestOfComplete ==
  ASSUME HonestInv, TypeInv', NEW n0, Inodes = {n0}, NEW p \in Procs,
         \/ CompleteStart(p) \/ CompleteCheck(p) \/ CompleteHash(p)
         \/ CompletePlace(p) \/ CompleteForget(p)
  PROVE  HonestInv'
  <1>1. req[p] \in Request /\ WellFormed(req[p]) /\ TypeOK
    BY DEF HonestInv, TypeOK, TypeInv
  <1>2. /\ req'[p].pc # "stream" /\ req'[p].m \in {None, req[p].m}
        /\ \A q \in Procs \ {p} : req'[q] = req[q]
    BY CompleteRequest DEF HonestInv
  <1>3. UNCHANGED <<disk, born>> /\ meta' \in {meta, None} /\ part' \in {part, None}
    BY DEF CompleteStart, CompleteCheck, CompleteHash, CompletePlace, CompleteForget
  <1>4. CASE saved' = saved
    BY <1>2, <1>3, <1>4, HonestStep DEF BodyIsReal, HonestInv, Arrived
  <1>5. CASE saved' # saved
    <2>1. /\ Publishable /\ saved' = saved \cup {part}
      BY <1>5 DEF CompleteStart, CompleteCheck, CompleteHash, CompletePlace,
                  CompleteForget
    <2>2. /\ part \in born /\ part \in Inodes /\ meta \in Meta
          /\ meta.bits = Pieces /\ CopyIsReal(meta)
      BY <1>1, <2>1 DEF Publishable, Complete, missing, HonestInv, TypeOK, Meta
    <2>3. \A u \in Units : Arrived(part, u)
      <3>1. \A u \in Units : u \in PieceUnits(PieceOf(u)) /\ PieceOf(u) \in Pieces
        BY DEF PieceUnits, Pieces
      <3>2. QED
        BY <2>2, <3>1 DEF CopyIsReal
    <2>4. saved' \subseteq born'
      BY <1>3, <2>1, <2>2 DEF HonestInv
    <2>5. QED
      BY <1>2, <1>3, <2>1, <2>3, <2>4, HonestStep DEF BodyIsReal, HonestInv, Arrived
  <1>6. QED
    BY <1>4, <1>5

LEMMA HonestOfSweep ==
  HonestInv /\ TypeInv' /\ RemoveAll => HonestInv'
  BY DEF RemoveAll, HonestInv, CopyIsReal, BodyIsReal, Arrived

LEMMA HonestNext ==
  ASSUME NEW n0, Inodes = {n0}, Damage = FALSE
  PROVE  HonestInv /\ [Next]_vars => HonestInv'
  <1> SUFFICES ASSUME HonestInv, [Next]_vars
               PROVE  HonestInv'
    OBVIOUS
  <1>1. TypeInv'
    BY TypeNext DEF HonestInv
  <1>2. ASSUME NEW p \in Procs, Handler(p) \/ Client(p)
        PROVE  HonestInv'
    BY <1>1, <1>2, HonestOfInit, HonestOfPiece, HonestOfComplete DEF Handler, Client
  <1>3. CASE SweepUploads \/ TempClean
    BY <1>1, <1>3, HonestOfSweep DEF SweepUploads, TempClean
  <1>4. CASE Restart
    BY <1>1, <1>4 DEF Restart, Idle, HonestInv, CopyIsReal, BodyIsReal, Arrived
  <1>5. CASE UNCHANGED vars
    BY <1>1, <1>5 DEF vars, HonestInv, CopyIsReal, BodyIsReal, Arrived
  <1>6. QED
    BY <1>2, <1>3, <1>4, <1>5 DEF Next

LEMMA HonestAlways ==
  ASSUME NEW n0, Inodes = {n0}, Damage = FALSE
  PROVE  Spec => []HonestInv
  <1>1. Init => HonestInv
    <2>1. Init => TypeInv
      BY TypeInit
    <2>2. QED
      BY <2>1 DEF Init, HonestInv, BodyIsReal, Idle
  <1>2. HonestInv /\ [Next]_vars => HonestInv'
    BY HonestNext
  <1>3. QED
    BY <1>1, <1>2, PTL DEF Spec

-----------------------------------------------------------------------------
(* When clients send only their own bytes, no meta.json, and no copy of it *)
(* about to be written back, ever credits a unit that has not arrived,     *)
(* whatever requests and sweeps interleave within one incarnation.         *)
THEOREM CoverageCorrect ==
  ASSUME NEW n0, Inodes = {n0}, Damage = FALSE
  PROVE  Spec => []CoverageIsReal
  <1>1. HonestInv => CoverageIsReal
    BY DEF HonestInv, TypeInv, TypeOK, CoverageIsReal, Copies, CopyIsReal, Arrived
  <1>2. QED
    BY <1>1, HonestAlways, PTL

(* When they all upload the same file, what appears in the shared folder   *)
(* is that file, also from a session without verification.                 *)
THEOREM PublishedCorrect ==
  ASSUME NEW n0, Inodes = {n0}, Damage = FALSE, NEW src, Sources = {src}
  PROVE  Spec => []SavedIsSource
  <1>1. HonestInv => SavedIsSource
    <2> SUFFICES ASSUME HonestInv, NEW n \in saved
                 PROVE  disk[n] \in Sources
      BY DEF SavedIsSource
    <2>1. disk[n] \in [Units -> Values] /\ src \in [Units -> Values]
      BY SessionAssumption DEF HonestInv, TypeInv, TypeOK
    <2>2. \A u \in Units : disk[n][u] = src[u]
      BY DEF HonestInv, Arrived
    <2>3. QED
      BY <2>1, <2>2
  <1>2. QED
    BY <1>1, HonestAlways, PTL

-----------------------------------------------------------------------------
(***************************************************************************)
(* The upload engine implements VerifiedUpload: one incarnation of a       *)
(* session whose clients send one file, no unit of which reads like a hole.*)
(***************************************************************************)

(* What the refinement needs beyond HonestInv: a file that has not been    *)
(* made yet is all holes, and the published file is not data.part.         *)
OnceInv ==
  /\ HonestInv
  /\ \A n \in Inodes \ born : disk[n] = [u \in Units |-> Hole]
  /\ part \notin saved

(* newSessionMeta makes data.part empty where it was not made yet, and so  *)
(* changes no content.                                                     *)
LEMMA NewSessionKeepsDisk ==
  ASSUME OnceInv, NEW file, NEW nov, NEW ext, NewSessionMeta(file, nov, ext)
  PROVE  disk' = disk /\ born \subseteq born' /\ part' \notin saved
  <1>1. disk \in [Inodes -> [Units -> Values]] /\ saved \subseteq born
    BY DEF OnceInv, HonestInv, TypeInv, TypeOK
  <1>2. CASE UNCHANGED <<part, disk>> /\ born \subseteq born'
    BY <1>2 DEF OnceInv
  <1>3. CASE \E n \in Inodes \ born :
               /\ born' = born \cup {n}
               /\ part' = n
               /\ disk' = [disk EXCEPT ![n] = [u \in Units |-> Hole]]
    BY <1>1, <1>3 DEF OnceInv
  <1>4. QED
    BY <1>2, <1>3 DEF NewSessionMeta

(* The disk changes only when a body is streamed; data.part gets its name  *)
(* once, and loses it to the shared folder or to a sweep.                  *)
LEMMA WhatChanges ==
  ASSUME OnceInv, [Next]_vars
  PROVE  /\ disk' = disk \/ \E p \in Procs : PieceStream(p)
         /\ born \subseteq born'
         /\ \/ saved' = saved /\ part' \notin saved
            \/ /\ Publishable /\ saved' = saved \cup {part} /\ part' = None
               /\ meta' = None /\ disk' = disk
  <1> USE DEF OnceInv
  <1>1. ASSUME NEW p \in Procs, InitResume(p) \/ InitNew(p)
        PROVE  disk' = disk /\ born \subseteq born' /\ part' \notin saved /\ saved' = saved
    BY <1>1, NewSessionKeepsDisk DEF InitResume, InitNew
  <1>2. None \notin saved
    BY NoneAssumption DEF HonestInv, TypeInv, TypeOK
  <1>3. ASSUME NEW p \in Procs,
               \/ InitStart(p) \/ InitExtract(p) \/ PieceStart(p) \/ ChunkStart(p)
               \/ PieceCheck(p) \/ PieceOpen(p) \/ PieceAbort(p) \/ PieceReload(p)
               \/ PieceSave(p) \/ CompleteStart(p) \/ CompleteCheck(p)
               \/ CompleteHash(p) \/ CompleteForget(p)
        PROVE  UNCHANGED <<disk, born, saved, part>>
    BY <1>3 DEF InitStart, InitExtract, PieceStart, ChunkStart, PieceCheck, PieceOpen,
                PieceAbort, PieceReload, PieceSave, CompleteStart, CompleteCheck,
                CompleteHash, CompleteForget
  <1>4. ASSUME NEW p \in Procs, PieceStream(p)
        PROVE  UNCHANGED <<born, saved, part>>
    BY <1>4 DEF PieceStream
  <1>5. ASSUME NEW p \in Procs, CompletePlace(p)
        PROVE  /\ UNCHANGED <<disk, born>>
               /\ \/ UNCHANGED <<saved, part>>
                  \/ /\ Publishable /\ saved' = saved \cup {part} /\ part' = None
                     /\ meta' = None
    BY <1>5 DEF CompletePlace
  <1>6. CASE SweepUploads \/ TempClean \/ Restart
    BY <1>2, <1>6 DEF SweepUploads, TempClean, RemoveAll, Restart
  <1>7. CASE UNCHANGED vars
    BY <1>7 DEF vars
  <1>8. QED
    BY <1>1, <1>3, <1>4, <1>5, <1>6, <1>7 DEF Next, Handler, Client

LEMMA OnceNext ==
  ASSUME NEW n0, Inodes = {n0}, Damage = FALSE
  PROVE  OnceInv /\ [Next]_vars => OnceInv'
  <1> SUFFICES ASSUME OnceInv, [Next]_vars
               PROVE  OnceInv'
    OBVIOUS
  <1>1. HonestInv'
    BY HonestNext DEF OnceInv
  <1>2. ASSUME NEW p \in Procs, PieceStream(p), NEW n \in Inodes \ born'
        PROVE  disk'[n] = disk[n]
    <2>1. req[p].fd \in born /\ born' = born
      BY <1>2 DEF PieceStream, OnceInv, HonestInv, BodyIsReal
    <2>2. \E v : disk' = [disk EXCEPT ![req[p].fd][req[p].pos] = v]
      BY <1>2 DEF PieceStream
    <2>3. QED
      BY <2>1, <2>2 DEF OnceInv, HonestInv, TypeInv, TypeOK
  <1>3. \A n \in Inodes \ born' : disk'[n] = [u \in Units |-> Hole]
    BY <1>2, WhatChanges DEF OnceInv
  <1>4. part' \notin saved'
    BY WhatChanges, NoneAssumption DEF OnceInv, HonestInv, TypeInv, TypeOK, Publishable
  <1>5. QED
    BY <1>1, <1>3, <1>4 DEF OnceInv

(* What is marked is stored.                                               *)
MarksAreStored == \A i \in Marked : i \in Pieces /\ PieceUnits(i) \subseteq Stored

LEMMA MarkedIsStored == HonestInv => MarksAreStored
  <1> SUFFICES ASSUME HonestInv, NEW i \in Marked
               PROVE  i \in Pieces /\ PieceUnits(i) \subseteq Stored
    BY DEF MarksAreStored
  <1>1. meta \in Meta /\ CopyIsReal(meta) /\ i \in meta.bits
    BY DEF Marked, HonestInv, TypeInv, TypeOK
  <1>2. QED
    BY <1>1 DEF CopyIsReal, Meta, Stored, Arrived, PieceUnits

(* The engine keeps the promise of VerifiedUpload: pieces are marked only  *)
(* when stored, and the file is delivered once, complete, with every piece *)
(* marked; sweeps, restarts and stale saves only lose marks.               *)
THEOREM PromiseKept ==
  ASSUME NEW n0, Inodes = {n0}, Damage = FALSE,
         NEW src, Sources = {src}, \A u \in Units : src[u] # Hole
  PROVE  Spec => KeepsPromise
  <1>1. Init => OnceInv
    <2>1. Init => TypeInv
      BY TypeInit
    <2>2. QED
      BY <2>1 DEF Init, OnceInv, HonestInv, BodyIsReal, Idle
  <1>2. OnceInv /\ [Next]_vars => OnceInv'
    BY OnceNext
  <1>3. Init => Promise!Init
    BY DEF Init, Promise!Init, Stored, Marked
  <1>4. OnceInv /\ OnceInv' /\ [Next]_vars
          => [Promise!Next]_<<Stored, Marked, saved # {}>>
    <2> SUFFICES ASSUME OnceInv, OnceInv', [Next]_vars
                 PROVE  Promise!Next \/ UNCHANGED <<Stored, Marked, saved # {}>>
      OBVIOUS
    <2>1. CASE disk' = disk /\ saved' = saved
      <3>1. Stored' = Stored
        BY <2>1 DEF Stored
      <3>2. Marked' \subseteq Pieces /\ \A i \in Marked' : PieceUnits(i) \subseteq Stored
        <4>1. HonestInv'
          BY DEF OnceInv
        <4>2. MarksAreStored'
          BY <4>1, MarkedIsStored, PTL
        <4>3. QED
          BY <3>1, <4>2 DEF MarksAreStored
      <3>3. Promise!Mark
        BY <2>1, <3>1, <3>2 DEF Promise!Mark
      <3>4. QED
        BY <3>3 DEF Promise!Next
    <2>2. CASE \E p \in Procs : PieceStream(p)
      <3>1. PICK p \in Procs : PieceStream(p)
        BY <2>2
      <3>2. /\ req[p].pos \in Units /\ req[p].file = src
            /\ req[p].fd = n0
        BY <3>1, SessionAssumption
        DEF PieceStream, OnceInv, HonestInv, TypeInv, TypeOK, WellFormed, Request, Units
      <3>3. Stored' = Stored \cup {req[p].pos}
        <4>1. disk' = [disk EXCEPT ![n0][req[p].pos] = src[req[p].pos]]
          BY <3>1, <3>2 DEF PieceStream
        <4>2. disk \in [{n0} -> [Units -> Values]]
          BY DEF OnceInv, HonestInv, TypeInv, TypeOK
        <4>3. \A u \in Units : u \in Stored' <=> disk'[n0][u] = src[u]
          BY DEF Stored
        <4>4. \A u \in Units : u \in Stored <=> disk[n0][u] = src[u]
          BY DEF Stored
        <4>5. Stored \subseteq Units /\ Stored' \subseteq Units
          BY DEF Stored
        <4>6. QED
          BY <3>2, <4>1, <4>2, <4>3, <4>4, <4>5
      <3>4. UNCHANGED <<Marked, saved>>
        BY <3>1 DEF PieceStream, Marked
      <3>5. Promise!Store
        BY <3>2, <3>3, <3>4 DEF Promise!Store
      <3>6. QED
        BY <3>5 DEF Promise!Next
    <2>3. CASE /\ Publishable /\ saved' = saved \cup {part} /\ part' = None
               /\ meta' = None /\ disk' = disk
      <3>1. meta \in Meta /\ meta.bits = Pieces /\ part \in Inodes
        BY <2>3 DEF Publishable, Complete, missing, OnceInv, HonestInv, TypeInv, TypeOK, Meta
      <3>2. saved = {} /\ saved' # {}
        BY <2>3, <3>1 DEF OnceInv, HonestInv, TypeInv, TypeOK
      <3>3. Marked = Pieces /\ Marked' = {}
        BY <2>3, <3>1, NoneAssumption DEF Marked
      <3>4. Stored = Units /\ Stored' = Stored
        <4>1. \A u \in Units : PieceOf(u) \in Marked /\ u \in PieceUnits(PieceOf(u))
          BY <3>3 DEF Pieces, PieceUnits
        <4>2. Units \subseteq Stored
          BY <4>1, MarkedIsStored DEF OnceInv, MarksAreStored
        <4>3. QED
          BY <2>3, <4>2 DEF Stored
      <3>5. Promise!Deliver
        BY <3>2, <3>3, <3>4 DEF Promise!Deliver
      <3>6. QED
        BY <3>5 DEF Promise!Next
    <2>4. QED
      BY <2>1, <2>2, <2>3, WhatChanges
  <1>5. QED
    BY <1>1, <1>2, <1>3, <1>4, PTL DEF Spec, KeepsPromise, Promise!Spec
=============================================================================
