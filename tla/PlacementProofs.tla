-------------------------- MODULE PlacementProofs --------------------------
(***************************************************************************)
(* No placement overwrites an uploaded file, and complete files stay: for  *)
(* any number of requests, files and candidate names, whatever clients     *)
(* delete and the owner drops into the folder meanwhile.  PlaceInv and     *)
(* StayInv are the inductive invariants.                                   *)
(***************************************************************************)
EXTENDS Placement, TLAPS

USE DEF Names

(* A name that is about to be renamed to, and the file the owner may have  *)
(* put there.                                                              *)
Renaming(r) == r.pc \in {"rename", "xrename"}
Takeable == dropped \cup {None}

(* What a step does at most to the folder that others rely on: files that  *)
(* the owner dropped stay so, and only who has the lock may put one where  *)
(* another request is about to rename to.                                  *)
FolderKept(p) ==
  /\ dirent' \in [Names -> Files \cup {None}]
  /\ \A n \in Names : dirent'[n] \in {dirent[n], None} \/ lock = p
  /\ \A n \in Names : dirent[n] \in dropped => dirent[n] \in dropped'
  /\ done' \subseteq Files
  /\ dropped' \subseteq Files
  /\ quiet' = quiet

(* What a step of request p must keep to preserve PlaceInv.                *)
LEMMA PlaceStep ==
  ASSUME PlaceInv, NEW p \in Procs, NEW r \in Request,
         req' = [req EXCEPT ![p] = r], WellFormed(r),
         FolderKept(p),
         lock' \in Procs \cup {None},
         Holding(r) => lock' = p,
         lock' = lock \/ lock \in {None, p},
         Renaming(r) => dirent'[r.name] = None
  PROVE  PlaceInv'
  <1>1. TypeOK'
    BY DEF PlaceInv, TypeOK, FolderKept
  <1>2. \A q \in Procs : req'[q] = IF q = p THEN r ELSE req[q]
    BY DEF PlaceInv, TypeOK
  <1>3. \A q \in Procs : WellFormed(req'[q])
    BY <1>2 DEF PlaceInv
  <1>4. ASSUME NEW q \in Procs, Holding(req'[q])
        PROVE  lock' = q
    <2>1. CASE q = p
      BY <1>2, <1>4, <2>1
    <2>2. CASE q # p
      <3>1. lock = q
        BY <1>2, <1>4, <2>2 DEF PlaceInv
      <3>2. q # None
        BY PlacementAssumption
      <3>3. QED
        BY <2>2, <3>1, <3>2
    <2>3. QED
      BY <2>1, <2>2
  <1>5. ASSUME NEW q \in Procs, Renaming(req'[q])
        PROVE  dirent'[req'[q].name] \in Takeable'
    <2>1. CASE q = p
      BY <1>2, <1>5, <2>1 DEF Takeable
    <2>2. CASE q # p
      <3>1. req'[q] = req[q]
        BY <1>2, <2>2
      <3>2. Holding(req[q])
        BY <1>5, <3>1 DEF Holding, Renaming
      <3>3. lock = q /\ req[q].name \in Names /\ dirent[req[q].name] \in Takeable
        BY <1>5, <3>1, <3>2 DEF PlaceInv, WellFormed, Renaming, Takeable
      <3>4. QED
        BY <2>2, <3>1, <3>3 DEF FolderKept, Takeable
    <2>3. QED
      BY <2>1, <2>2
  <1>6. QED
    BY <1>1, <1>3, <1>4, <1>5 DEF PlaceInv, Renaming, Takeable

(* The request of p after a step, when it changes some of its fields.      *)
LEMMA Changed ==
  ASSUME PlaceInv, NEW p \in Procs, NEW pc \in PCs
  PROVE  /\ [req EXCEPT ![p].pc = pc] = [req EXCEPT ![p] = [req[p] EXCEPT !.pc = pc]]
         /\ [req[p] EXCEPT !.pc = pc] \in Request
         /\ \A n \in Names :
              [req[p] EXCEPT !.pc = pc, !.name = n] \in Request
         /\ req[p] \in Request
         /\ Idle \in Request
         /\ WellFormed(req[p])
  <1>1. req[p] \in Request /\ WellFormed(req[p])
    BY DEF PlaceInv, TypeOK
  <1>2. [req EXCEPT ![p].pc = pc] = [req EXCEPT ![p] = [req[p] EXCEPT !.pc = pc]]
    OBVIOUS
  <1>3. [req[p] EXCEPT !.pc = pc] \in Request
    BY <1>1 DEF Request
  <1>4. \A n \in Names : [req[p] EXCEPT !.pc = pc, !.name = n] \in Request
    BY <1>1 DEF Request
  <1>5. Idle \in Request
    BY PlacementAssumption DEF Idle, Request, PCs
  <1>6. QED
    BY <1>1, <1>2, <1>3, <1>4, <1>5

(* The steps that choose a name.                                           *)
LEMMA ChooseStep ==
  ASSUME PlaceInv, NEW p \in Procs, NEW n \in Names, NEW pc \in {"create", "xrename", "mcreate"},
         req[p].pc \in {"reserve", "xreserve", "mreserve"},
         req[p].pc = "xreserve" \/ pc # "xrename",
         Lock(p), uniquePath(n),
         req' = [req EXCEPT ![p].pc = pc, ![p].name = n],
         UNCHANGED <<dirent, done, dropped, quiet>>
  PROVE  PlaceInv'
  <1> DEFINE r == [req[p] EXCEPT !.pc = pc, !.name = n]
  <1>1. r \in Request /\ req[p] \in Request /\ WellFormed(req[p])
    BY Changed DEF PCs
  <1>2. req' = [req EXCEPT ![p] = r]
    OBVIOUS
  <1>3. r.pc = pc /\ r.name = n /\ r.file = req[p].file /\ r.zip = req[p].zip
    BY <1>1 DEF Request
  <1>4. WellFormed(r)
    BY <1>1, <1>3 DEF WellFormed, Holding
  <1>5. dirent'[r.name] = None
    BY <1>3 DEF uniquePath, Vacant
  <1>6. lock' = p /\ lock \in {None, p}
    BY DEF Lock
  <1>7. FolderKept(p)
    BY DEF PlaceInv, TypeOK, FolderKept
  <1> HIDE DEF r
  <1>8. QED
    BY <1>1, <1>2, <1>4, <1>5, <1>6, <1>7, PlaceStep DEF Renaming

(* The steps that end a request, or start one that has no name yet.        *)
LEMMA FreshStep ==
  ASSUME PlaceInv, NEW p \in Procs, NEW r \in Request, WellFormed(r),
         ~Holding(r),
         req' = [req EXCEPT ![p] = r],
         FolderKept(p),
         lock' = lock \/ Unlock(p)
  PROVE  PlaceInv'
  <1>1. lock' = lock \/ lock \in {None, p}
    BY DEF Unlock
  <1>2. lock' \in Procs \cup {None}
    BY DEF Unlock, PlaceInv, TypeOK
  <1>3. ~Renaming(r)
    BY DEF Holding, Renaming
  <1>4. QED
    BY <1>1, <1>2, <1>3, PlaceStep

(* The folder after one name in it changes.                                *)
LEMMA PutStep ==
  ASSUME PlaceInv, NEW n \in Names, NEW f \in Files \cup {None}, Put(n, f)
  PROVE  /\ dirent' \in [Names -> Files \cup {None}]
         /\ \A m \in Names : dirent'[m] = IF m = n THEN f ELSE dirent[m]
  BY DEF Put, PlaceInv, TypeOK

(* A file that appears is not in the folder yet.                           *)
LEMMA FreshFile ==
  ASSUME NEW f \in Files, Fresh(f)
  PROVE  \A n \in Names : dirent[n] # f
  BY DEF Fresh, Somewhere

(* No name that leads to an uploaded file leads to another file next.      *)
NoneReplaced ==
  \A n \in Names :
    dirent[n] \notin dropped \cup {None} => dirent'[n] \in {dirent[n], None}

(* What the steps of a request start from.                                 *)
LEMMA Before ==
  ASSUME PlaceInv, NEW p \in Procs
  PROVE  /\ dirent \in [Names -> Files \cup {None}] /\ lock \in Procs \cup {None}
         /\ done \subseteq Files /\ dropped \subseteq Files
         /\ req[p] \in Request /\ WellFormed(req[p])
         /\ Holding(req[p]) => lock = p
         /\ Idle \in Request /\ WellFormed(Idle) /\ ~Holding(Idle)
  <1>1. WellFormed(Idle) /\ ~Holding(Idle)
    BY DEF WellFormed, Holding, Idle
  <1>2. QED
    BY <1>1, Changed DEF PlaceInv, TypeOK, PCs

(* A step that leaves the folder alone.                                    *)
LEMMA Untouched ==
  ASSUME PlaceInv, NEW p \in Procs, UNCHANGED <<dirent, quiet>>,
         done' \subseteq Files, dropped' \subseteq Files,
         dropped' = dropped \/ \E f \in Files : Fresh(f) /\ dropped' = dropped \ {f}
  PROVE  FolderKept(p) /\ NoneReplaced
  BY Before, FreshFile DEF FolderKept, NoneReplaced

(* A step that frees a name.                                               *)
LEMMA Freed ==
  ASSUME PlaceInv, NEW p \in Procs, NEW n \in Names, Put(n, None), quiet' = quiet,
         done' \subseteq Files, dropped' \subseteq Files,
         dropped' = dropped \/ \E f \in Files : Fresh(f) /\ dropped' = dropped \ {f}
  PROVE  FolderKept(p) /\ NoneReplaced
  BY PutStep, FreshFile DEF FolderKept, NoneReplaced

(* /upload_complete up to the rename, and the retry.                       *)
LEMMA CompletionSteps ==
  ASSUME PlaceInv, NEW p \in Procs,
         \/ Start(p) \/ Reserve(p) \/ Create(p) \/ Free(p)
         \/ RenameFails(p) \/ Retry(p) \/ Answer(p)
  PROVE  PlaceInv' /\ NoneReplaced
  <1>b. /\ dirent \in [Names -> Files \cup {None}] /\ lock \in Procs \cup {None}
        /\ done \subseteq Files /\ dropped \subseteq Files
        /\ req[p] \in Request /\ WellFormed(req[p])
        /\ Holding(req[p]) => lock = p
        /\ Idle \in Request /\ WellFormed(Idle) /\ ~Holding(Idle)
    BY Before
  <1>1. CASE Start(p)
    <2>1. PICK f \in Files, pc \in {"reserve", "mreserve"} :
             /\ Fresh(f)
             /\ done' = done \ {f}
             /\ dropped' = dropped \ {f}
             /\ req' = [req EXCEPT ![p] = [Idle EXCEPT !.pc = pc, !.file = f]]
      BY <1>1 DEF Start
    <2> DEFINE r == [Idle EXCEPT !.pc = pc, !.file = f]
    <2>2. r \in Request /\ WellFormed(r) /\ ~Holding(r)
      BY <1>b DEF Request, WellFormed, Holding, Idle, PCs
    <2>3. UNCHANGED <<dirent, lock, quiet>>
      BY <1>1 DEF Start
    <2>4. FolderKept(p) /\ NoneReplaced
      BY <1>b, <2>1, <2>3, Untouched
    <2> HIDE DEF r
    <2>5. PlaceInv'
      BY <2>1, <2>2, <2>3, <2>4, FreshStep DEF r
    <2>6. QED
      BY <2>4, <2>5
  <1>2. CASE Reserve(p)
    <2>1. PlaceInv'
      BY <1>2, ChooseStep DEF Reserve
    <2>2. QED
      BY <1>2, <2>1 DEF Reserve, NoneReplaced
  <1>3. CASE Create(p)
    <2>1. req[p].pc = "create" /\ lock = p /\ req[p].name \in Names /\ req[p].file \in Files
      BY <1>3, <1>b DEF Create, WellFormed, Holding
    <2>2. UNCHANGED <<done, dropped, quiet>>
      BY <1>3 DEF Create
    <2>3. CASE /\ dirent[req[p].name] = None
               /\ Put(req[p].name, req[p].file)
               /\ req' = [req EXCEPT ![p].pc = "free"]
               /\ UNCHANGED lock
      <3> DEFINE r == [req[p] EXCEPT !.pc = "free"]
      <3>1. r \in Request /\ req' = [req EXCEPT ![p] = r]
        BY <2>3, Changed DEF PCs
      <3>2. r.pc = "free" /\ r.name = req[p].name /\ r.file = req[p].file
        BY <1>b DEF Request
      <3> HIDE DEF r
      <3>3. WellFormed(r) /\ ~Renaming(r)
        BY <2>1, <3>2 DEF WellFormed, Renaming
      <3>4. FolderKept(p) /\ NoneReplaced
        BY <1>b, <2>1, <2>2, <2>3, PutStep DEF FolderKept, NoneReplaced
      <3>5. PlaceInv'
        BY <1>b, <2>1, <2>3, <3>1, <3>3, <3>4, PlaceStep
      <3>6. QED
        BY <3>4, <3>5
    <2>4. CASE /\ MoreTries(req[p])
               /\ req' = [req EXCEPT ![p].pc = "reserve", ![p].tries = req[p].tries + 1]
               /\ UNCHANGED <<dirent, lock>>
      <3> DEFINE r == [req[p] EXCEPT !.pc = "reserve", !.tries = req[p].tries + 1]
      <3>1. req[p].tries + 1 \in 0 .. Tries
        BY <1>b, <2>4, PlacementAssumption DEF Request, MoreTries
      <3>2. r \in Request
        BY <1>b, <3>1 DEF Request, PCs
      <3>3. r.pc = "reserve" /\ r.file = req[p].file
        BY <1>b DEF Request
      <3>4. req' = [req EXCEPT ![p] = r]
        BY <2>4
      <3> HIDE DEF r
      <3>5. WellFormed(r) /\ ~Holding(r)
        BY <2>1, <3>3 DEF WellFormed, Holding
      <3>6. FolderKept(p) /\ NoneReplaced
        BY <1>b, <2>2, <2>4, Untouched
      <3>7. PlaceInv'
        BY <2>4, <3>2, <3>4, <3>5, <3>6, FreshStep
      <3>8. QED
        BY <3>6, <3>7
    <2>5. CASE /\ req' = [req EXCEPT ![p] = Idle]
               /\ Unlock(p)
               /\ UNCHANGED dirent
      <3>1. FolderKept(p) /\ NoneReplaced
        BY <1>b, <2>2, <2>5, Untouched
      <3>2. PlaceInv'
        BY <1>b, <2>5, <3>1, FreshStep
      <3>3. QED
        BY <3>1, <3>2
    <2>6. QED
      BY <1>3, <2>3, <2>4, <2>5 DEF Create
  <1>4. CASE Free(p)
    <2>1. req[p].pc = "free" /\ lock = p /\ req[p].name \in Names /\ req[p].file \in Files
      BY <1>4, <1>b DEF Free, WellFormed, Holding
    <2> DEFINE r == [req[p] EXCEPT !.pc = "rename"]
    <2>2. r \in Request /\ req' = [req EXCEPT ![p] = r]
      BY <1>4, Changed DEF Free, PCs
    <2>3. r.pc = "rename" /\ r.name = req[p].name /\ r.file = req[p].file
      BY <1>b DEF Request
    <2> HIDE DEF r
    <2>4. WellFormed(r)
      BY <2>1, <2>3 DEF WellFormed
    <2>5. Put(req[p].name, None) /\ UNCHANGED <<lock, done, dropped, quiet>>
      BY <1>4 DEF Free
    <2>6. FolderKept(p) /\ NoneReplaced
      BY <1>b, <2>1, <2>5, Freed
    <2>7. dirent'[r.name] = None
      BY <2>1, <2>3, <2>5, PutStep
    <2>8. PlaceInv'
      BY <1>b, <2>1, <2>2, <2>4, <2>5, <2>6, <2>7, PlaceStep
    <2>9. QED
      BY <2>6, <2>8
  <1>5. CASE RenameFails(p) \/ Answer(p)
    <2>1. /\ req' = [req EXCEPT ![p] = Idle]
          /\ UNCHANGED <<dirent, done, dropped, quiet>>
          /\ lock' = lock \/ Unlock(p)
      BY <1>5 DEF RenameFails, Answer
    <2>2. FolderKept(p) /\ NoneReplaced
      BY <1>b, <2>1, Untouched
    <2>3. PlaceInv'
      BY <1>b, <2>1, <2>2, FreshStep
    <2>4. QED
      BY <2>2, <2>3
  <1>6. CASE Retry(p)
    <2>1. UNCHANGED <<dirent, lock, done, dropped, quiet>>
      BY <1>6 DEF Retry
    <2>2. FolderKept(p) /\ NoneReplaced
      BY <1>b, <2>1, Untouched
    <2>3. CASE req' = [req EXCEPT ![p] = Idle]
      BY <1>b, <2>1, <2>2, <2>3, FreshStep
    <2>4. CASE /\ dirent[0] \in done \cup dropped
               /\ req' = [req EXCEPT ![p].pc = "told", ![p].told = dirent[0]]
      <3> DEFINE r == [req[p] EXCEPT !.pc = "told", !.told = dirent[0]]
      <3>1. r \in Request
        BY <1>b, <2>4 DEF Request, PCs
      <3>2. r.pc = "told"
        BY <1>b DEF Request
      <3>3. req' = [req EXCEPT ![p] = r]
        BY <2>4
      <3> HIDE DEF r
      <3>4. WellFormed(r) /\ ~Holding(r)
        BY <3>2 DEF WellFormed, Holding
      <3>5. QED
        BY <2>1, <2>2, <3>1, <3>3, <3>4, FreshStep
    <2>5. QED
      BY <1>6, <2>3, <2>4 DEF Retry
  <1>7. QED
    BY <1>1, <1>2, <1>3, <1>4, <1>5, <1>6

(* The two renames, and the removal of an extracted archive.               *)
LEMMA RenameSteps ==
  ASSUME PlaceInv, NEW p \in Procs,
         \/ Rename(p) \/ ExtractReserve(p) \/ ExtractFails(p)
         \/ ExtractRename(p) \/ ExtractRemove(p)
  PROVE  PlaceInv' /\ NoneReplaced
  <1>b. /\ dirent \in [Names -> Files \cup {None}] /\ lock \in Procs \cup {None}
        /\ done \subseteq Files /\ dropped \subseteq Files
        /\ req[p] \in Request /\ WellFormed(req[p])
        /\ Holding(req[p]) => lock = p
        /\ Idle \in Request /\ WellFormed(Idle) /\ ~Holding(Idle)
    BY Before
  <1>r. ASSUME Renaming(req[p]), Put(req[p].name, req[p].file), Unlock(p), quiet' = quiet,
               done' \subseteq Files, dropped' \subseteq Files,
               dropped' = dropped \/ \E f \in Files : Fresh(f) /\ dropped' = dropped \ {f},
               NEW r \in Request, WellFormed(r), ~Holding(r),
               req' = [req EXCEPT ![p] = r]
        PROVE  PlaceInv' /\ NoneReplaced
    <2>1. lock = p /\ req[p].name \in Names /\ req[p].file \in Files
      BY <1>r, <1>b DEF WellFormed, Holding, Renaming
    <2>2. dirent[req[p].name] \in dropped \cup {None}
      BY <1>r DEF PlaceInv, Renaming
    <2>3. /\ dirent' \in [Names -> Files \cup {None}]
          /\ \A m \in Names : dirent'[m] = IF m = req[p].name THEN req[p].file ELSE dirent[m]
      BY <1>r, <2>1, PutStep
    <2>4. FolderKept(p)
      BY <1>r, <2>1, <2>3, FreshFile DEF FolderKept
    <2>5. PlaceInv'
      BY <1>r, <2>4, FreshStep
    <2>6. QED
      BY <2>2, <2>3, <2>5 DEF NoneReplaced
  <1>1. CASE Rename(p)
    <2>1. /\ req[p].pc = "rename" /\ Unlock(p) /\ Put(req[p].name, req[p].file)
          /\ Renaming(req[p]) /\ quiet' = quiet
      BY <1>1 DEF Rename, Renaming
    <2>2. req[p].name \in Names /\ req[p].file \in Files
      BY <1>b, <2>1 DEF WellFormed, Holding
    <2>3. ASSUME NEW pc \in {"idle", "lost"},
                 req' = [req EXCEPT ![p] = [Idle EXCEPT !.pc = pc,
                           !.file = IF pc = "lost" THEN req[p].file ELSE None]],
                 done' = done \cup {req[p].file},
                 dropped' = dropped
          PROVE  PlaceInv' /\ NoneReplaced
      <3> DEFINE r == [Idle EXCEPT !.pc = pc, !.file = IF pc = "lost" THEN req[p].file ELSE None]
      <3>1. r \in Request /\ WellFormed(r) /\ ~Holding(r)
        BY <1>b, <2>2 DEF Request, WellFormed, Holding, Idle, PCs
      <3>2. done' \subseteq Files /\ dropped' \subseteq Files
        BY <1>b, <2>2, <2>3
      <3>3. req' = [req EXCEPT ![p] = r]
        BY <2>3
      <3> HIDE DEF r
      <3>4. QED
        BY <1>r, <2>1, <2>3, <3>1, <3>2, <3>3
    <2>4. ASSUME NEW top \in Files, Fresh(top),
                 done' = (done \ {top}) \cup {req[p].file},
                 dropped' = dropped \ {top},
                 req' = [req EXCEPT ![p] = [Idle EXCEPT !.pc = "xreserve", !.file = top,
                           !.zip = req[p].name, !.arch = req[p].file]]
          PROVE  PlaceInv' /\ NoneReplaced
      <3> DEFINE r == [Idle EXCEPT !.pc = "xreserve", !.file = top,
                         !.zip = req[p].name, !.arch = req[p].file]
      <3>1. r \in Request /\ WellFormed(r) /\ ~Holding(r)
        BY <1>b, <2>2 DEF Request, WellFormed, Holding, Idle, PCs
      <3>2. done' \subseteq Files /\ dropped' \subseteq Files
        BY <1>b, <2>2, <2>4
      <3>3. req' = [req EXCEPT ![p] = r]
        BY <2>4
      <3> HIDE DEF r
      <3>4. QED
        BY <1>r, <2>1, <2>4, <3>1, <3>2, <3>3
    <2>5. QED
      BY <1>1, <2>3, <2>4 DEF Rename
  <1>2. CASE ExtractReserve(p)
    <2>1. PlaceInv'
      BY <1>2, ChooseStep DEF ExtractReserve
    <2>2. QED
      BY <1>2, <2>1 DEF ExtractReserve, NoneReplaced
  <1>3. CASE ExtractFails(p)
    <2>1. FolderKept(p) /\ NoneReplaced
      BY <1>b, <1>3, Untouched DEF ExtractFails
    <2>2. PlaceInv'
      BY <1>b, <1>3, <2>1, FreshStep DEF ExtractFails
    <2>3. QED
      BY <2>1, <2>2
  <1>4. CASE ExtractRename(p)
    <2> DEFINE r == [req[p] EXCEPT !.pc = "xremove"]
    <2>1. /\ req[p].pc = "xrename" /\ Unlock(p) /\ Put(req[p].name, req[p].file)
          /\ done' = done \cup {req[p].file} /\ UNCHANGED <<dropped, quiet>>
          /\ Renaming(req[p])
      BY <1>4 DEF ExtractRename, Renaming
    <2>2. r \in Request /\ req' = [req EXCEPT ![p] = r]
      BY <1>4, Changed DEF ExtractRename, PCs
    <2>3. r.pc = "xremove" /\ r.zip = req[p].zip
      BY <1>b DEF Request
    <2> HIDE DEF r
    <2>4. WellFormed(r) /\ ~Holding(r)
      BY <1>b, <2>1, <2>3 DEF WellFormed, Holding
    <2>5. done' \subseteq Files /\ dropped' \subseteq Files
      BY <1>b, <2>1 DEF WellFormed
    <2>6. QED
      BY <1>r, <2>1, <2>2, <2>4, <2>5
  <1>5. CASE ExtractRemove(p)
    <2>1. /\ req[p].zip \in Names /\ Put(req[p].zip, None)
          /\ UNCHANGED <<lock, done, dropped, quiet>>
          /\ req' = [req EXCEPT ![p] = Idle]
      BY <1>5, <1>b DEF ExtractRemove, WellFormed
    <2>2. FolderKept(p) /\ NoneReplaced
      BY <1>b, <2>1, Freed
    <2>3. PlaceInv'
      BY <1>b, <2>1, <2>2, FreshStep
    <2>4. QED
      BY <2>2, <2>3
  <1>6. QED
    BY <1>1, <1>2, <1>3, <1>4, <1>5

(* What the next part of a multipart request changes.                      *)
LEMMA PartStep ==
  ASSUME PlaceInv, NEW p \in Procs, NEW complete \in SUBSET Files, NextPart(p, complete)
  PROVE  /\ \E r \in Request : /\ WellFormed(r) /\ ~Holding(r)
                               /\ req' = [req EXCEPT ![p] = r]
         /\ done' \subseteq Files /\ dropped' \subseteq Files
         /\ dropped' = dropped \/ \E f \in Files : Fresh(f) /\ dropped' = dropped \ {f}
  <1>b. /\ dropped \subseteq Files
        /\ Idle \in Request /\ WellFormed(Idle) /\ ~Holding(Idle)
    BY Before
  <1>1. CASE req' = [req EXCEPT ![p] = Idle] /\ done' = complete /\ dropped' = dropped
    BY <1>b, <1>1
  <1>2. ASSUME NEW f \in Files, Fresh(f), done' = complete \ {f}, dropped' = dropped \ {f},
               req' = [req EXCEPT ![p] = [Idle EXCEPT !.pc = "mreserve", !.file = f]]
        PROVE  /\ \E r \in Request : /\ WellFormed(r) /\ ~Holding(r)
                                     /\ req' = [req EXCEPT ![p] = r]
               /\ done' \subseteq Files /\ dropped' \subseteq Files
               /\ \E g \in Files : Fresh(g) /\ dropped' = dropped \ {g}
    <2> DEFINE r == [Idle EXCEPT !.pc = "mreserve", !.file = f]
    <2>1. r \in Request /\ WellFormed(r) /\ ~Holding(r)
      BY <1>b DEF Request, WellFormed, Holding, Idle, PCs
    <2>2. req' = [req EXCEPT ![p] = r] /\ done' \subseteq Files /\ dropped' \subseteq Files
      BY <1>2, <1>b
    <2> HIDE DEF r
    <2>3. QED
      BY <1>2, <2>1, <2>2
  <1>3. QED
    BY <1>1, <1>2 DEF NextPart

(* The multipart upload.                                                   *)
LEMMA MultipartSteps ==
  ASSUME PlaceInv, NEW p \in Procs,
         MultiReserve(p) \/ MultiCreate(p) \/ MultiSave(p) \/ MultiRemove(p)
  PROVE  PlaceInv' /\ NoneReplaced
  <1>b. /\ dirent \in [Names -> Files \cup {None}] /\ lock \in Procs \cup {None}
        /\ done \subseteq Files /\ dropped \subseteq Files
        /\ req[p] \in Request /\ WellFormed(req[p])
        /\ Holding(req[p]) => lock = p
    BY Before
  <1>1. CASE MultiReserve(p)
    <2>1. PlaceInv'
      BY <1>1, ChooseStep DEF MultiReserve
    <2>2. QED
      BY <1>1, <2>1 DEF MultiReserve, NoneReplaced
  <1>p. ASSUME NEW complete \in SUBSET Files, NextPart(p, complete),
               lock' = lock \/ Unlock(p), quiet' = quiet,
               UNCHANGED dirent \/ (req[p].pc = "mstream" /\ Put(req[p].name, None))
        PROVE  PlaceInv' /\ NoneReplaced
    <2>1. PICK r \in Request : /\ WellFormed(r) /\ ~Holding(r)
                               /\ req' = [req EXCEPT ![p] = r]
      BY <1>p, PartStep
    <2>2. /\ done' \subseteq Files /\ dropped' \subseteq Files
          /\ dropped' = dropped \/ \E f \in Files : Fresh(f) /\ dropped' = dropped \ {f}
      BY <1>p, PartStep
    <2>3. CASE UNCHANGED dirent
      <3>1. FolderKept(p) /\ NoneReplaced
        BY <1>p, <2>2, <2>3, Untouched
      <3>2. QED
        BY <1>p, <2>1, <3>1, FreshStep
    <2>4. CASE req[p].pc = "mstream" /\ Put(req[p].name, None)
      <3>1. req[p].name \in Names
        BY <1>b, <2>4 DEF WellFormed
      <3>2. FolderKept(p) /\ NoneReplaced
        BY <1>p, <2>2, <2>4, <3>1, Freed
      <3>3. QED
        BY <1>p, <2>1, <3>2, FreshStep
    <2>5. QED
      BY <1>p, <2>3, <2>4
  <1>2. CASE MultiCreate(p)
    <2>1. /\ req[p].pc = "mcreate" /\ lock = p /\ Unlock(p) /\ quiet' = quiet
          /\ req[p].name \in Names /\ req[p].file \in Files
      BY <1>2, <1>b DEF MultiCreate, WellFormed, Holding
    <2>2. CASE /\ dirent[req[p].name] = None
               /\ Put(req[p].name, req[p].file)
               /\ req' = [req EXCEPT ![p].pc = "mstream"]
               /\ UNCHANGED <<done, dropped>>
      <3> DEFINE r == [req[p] EXCEPT !.pc = "mstream"]
      <3>1. r \in Request /\ req' = [req EXCEPT ![p] = r]
        BY <2>2, Changed DEF PCs
      <3>2. r.pc = "mstream" /\ r.name = req[p].name /\ r.file = req[p].file
        BY <1>b DEF Request
      <3> HIDE DEF r
      <3>3. WellFormed(r) /\ ~Holding(r)
        BY <2>1, <3>2 DEF WellFormed, Holding
      <3>4. FolderKept(p) /\ NoneReplaced
        BY <1>b, <2>1, <2>2, PutStep DEF FolderKept, NoneReplaced
      <3>5. PlaceInv'
        BY <2>1, <3>1, <3>3, <3>4, FreshStep
      <3>6. QED
        BY <3>4, <3>5
    <2>3. CASE NextPart(p, done) /\ UNCHANGED dirent
      BY <1>b, <1>p, <2>1, <2>3
    <2>4. QED
      BY <1>2, <2>2, <2>3 DEF MultiCreate
  <1>3. CASE MultiSave(p)
    <2>1. req[p].file \in Files
      BY <1>3, <1>b DEF MultiSave, WellFormed
    <2>2. QED
      BY <1>b, <1>p, <1>3, <2>1 DEF MultiSave
  <1>4. CASE MultiRemove(p)
    BY <1>b, <1>p, <1>4 DEF MultiRemove
  <1>5. QED
    BY <1>1, <1>2, <1>3, <1>4

(* A change of the folder by a client that deletes or by the owner.        *)
LEMMA FolderSteps ==
  ASSUME PlaceInv, NEW n \in Names, Delete(n) \/ Drop(n)
  PROVE  PlaceInv' /\ NoneReplaced
  <1>1. PICK f \in Files \cup {None} :
             /\ Put(n, f)
             /\ UNCHANGED <<lock, req>>
             /\ f # None => dirent[n] = None
             /\ dropped' = dropped \cup ({f} \ {None})
             /\ done' \subseteq Files /\ dropped' \subseteq Files /\ quiet' \in BOOLEAN
    <2>1. CASE Delete(n)
      BY <2>1 DEF Delete, PlaceInv, TypeOK
    <2>2. CASE Drop(n)
      <3>1. PICK f \in Files : Put(n, f) /\ done' = done \ {f} /\ dropped' = dropped \cup {f}
        BY <2>2 DEF Drop
      <3>2. f # None
        BY PlacementAssumption
      <3>3. dirent[n] = None /\ UNCHANGED <<lock, req, quiet>>
        BY <2>2 DEF Drop
      <3>4. QED
        BY <3>1, <3>2, <3>3 DEF PlaceInv, TypeOK
    <2>3. QED
      BY <2>1, <2>2
  <1>2. /\ dirent' \in [Names -> Files \cup {None}]
        /\ \A m \in Names : dirent'[m] = IF m = n THEN f ELSE dirent[m]
    BY <1>1, PutStep
  <1>3. TypeOK'
    BY <1>1, <1>2 DEF PlaceInv, TypeOK
  <1>4. ASSUME NEW p \in Procs, Renaming(req[p])
        PROVE  dirent'[req[p].name] \in dropped' \cup {None}
    <2>1. dirent[req[p].name] \in dropped \cup {None} /\ req[p].name \in Names
      BY <1>4 DEF PlaceInv, WellFormed, Holding, Renaming
    <2>2. CASE req[p].name = n
      BY <1>1, <1>2, <2>1, <2>2
    <2>3. CASE req[p].name # n
      BY <1>1, <1>2, <2>1, <2>3
    <2>4. QED
      BY <2>2, <2>3
  <1>5. PlaceInv'
    <2>1. (\A p \in Procs : WellFormed(req[p]))'
      BY <1>1 DEF PlaceInv
    <2>2. (\A p \in Procs : Holding(req[p]) => lock = p)'
      BY <1>1 DEF PlaceInv
    <2>3. (\A p \in Procs : req[p].pc \in {"rename", "xrename"}
                              => dirent[req[p].name] \in dropped \cup {None})'
      BY <1>1, <1>4 DEF Renaming
    <2>4. QED
      BY <1>3, <2>1, <2>2, <2>3 DEF PlaceInv
  <1>6. QED
    BY <1>1, <1>2, <1>5 DEF NoneReplaced

-----------------------------------------------------------------------------
LEMMA PlaceStart == Init => PlaceInv
  <1> SUFFICES ASSUME Init PROVE PlaceInv
    OBVIOUS
  <1>1. \A p \in Procs : req[p] = Idle
    BY DEF Init
  <1>2. Idle \in Request
    BY PlacementAssumption DEF Idle, Request, PCs
  <1>3. TypeOK
    BY <1>2 DEF Init, TypeOK
  <1>4. WellFormed(Idle) /\ ~Holding(Idle) /\ Idle.pc \notin {"rename", "xrename"}
    BY DEF WellFormed, Holding, Idle
  <1>5. QED
    BY <1>1, <1>3, <1>4 DEF PlaceInv

LEMMA PlaceNext ==
  ASSUME PlaceInv, [Next]_vars
  PROVE  PlaceInv' /\ [NoneReplaced]_vars
  <1>1. CASE UNCHANGED vars
    <2>1. UNCHANGED <<dirent, lock, req, done, dropped, quiet>>
      BY <1>1 DEF vars
    <2>2. PlaceInv'
      BY <2>1 DEF PlaceInv, TypeOK
    <2>3. QED
      BY <1>1, <2>2
  <1>2. CASE Next
    BY <1>2, CompletionSteps, RenameSteps, MultipartSteps, FolderSteps DEF Next, Place
  <1>3. QED
    BY <1>1, <1>2

(* PlaceInv, of every reachable state: whoever is between the choice of a  *)
(* name and its use holds uploadLock, and only the owner can have taken a  *)
(* name that is about to be renamed to.                                    *)
THEOREM PlaceCorrect == Spec => []PlaceInv
  <1>1. PlaceInv /\ [Next]_vars => PlaceInv'
    BY PlaceNext
  <1>2. QED
    BY <1>1, PlaceStart, PTL DEF Spec

(* The placement never leaves its types, for any number of requests, files *)
(* and candidate names.                                                    *)
THEOREM PlaceTypeCorrect == Spec => []TypeOK
  <1>1. PlaceInv => TypeOK
    BY DEF PlaceInv
  <1>2. QED
    BY <1>1, PlaceCorrect, PTL

(* No handler puts a file in the place of one that a client uploaded, for  *)
(* any number of requests, files and candidate names, whatever is deleted  *)
(* and dropped into the folder at whatever moment.                         *)
THEOREM NoOverwriteCorrect == Spec => NoOverwrite
  <1>1. PlaceInv /\ [Next]_vars => [NoneReplaced]_vars
    BY PlaceNext
  <1>2. PlaceInv /\ [Next]_vars
          => [\A n \in Names :
                dirent[n] \notin dropped \cup {None} => dirent'[n] \in {dirent[n], None}]_vars
    BY <1>1 DEF NoneReplaced
  <1>3. QED
    BY <1>2, PlaceCorrect, PTL DEF Spec, NoOverwrite

-----------------------------------------------------------------------------
(* What a step of request p must keep to preserve StayInv: r is the request*)
(* after it.  A file that is no longer complete is one that appears; one   *)
(* that becomes complete was pending here; and no name that others have in *)
(* hand, or that leads to a complete file, changes.                        *)
Leaves(p, r) ==
  /\ dropped' \subseteq dropped
  /\ \A f \in done : f \in done' \/ Fresh(f)
  /\ \A f \in done' : f \in done \/ (Pending(req[p]) /\ f = req[p].file)
  /\ Pending(r) => /\ r.file \in Files \ (done' \cup dropped')
                   /\ Fresh(r.file) \/ (Pending(req[p]) /\ r.file = req[p].file)
  /\ Extracting(r) => /\ r.arch \in done'
                      /\ \/ Extracting(req[p]) /\ r.arch = req[p].arch
                         \/ Pending(req[p]) /\ r.arch = req[p].file

OwnName(p, n) ==
  \/ dirent[n] \in dropped \cup {None}
  \/ Pending(req[p]) /\ dirent[n] = req[p].file
  \/ /\ req[p].pc = "xremove"
     /\ req[p].zip = n
     /\ req[p].arch = dirent[n]

KeepsHand(r) ==
  /\ r.pc \in {"free", "mstream"} => dirent'[r.name] = r.file
  /\ Extracting(r) => dirent'[r.zip] = r.arch

Touches(p) == quiet => \A n \in Names : dirent'[n] # dirent[n] => OwnName(p, n)

(* A step that changes names of its own only removes no complete file but  *)
(* the archive it has just extracted.                                      *)
LEMMA TouchesOwn ==
  ASSUME PlaceInv, StayInv, NEW p \in Procs, Touches(p), NEW n \in Names,
         quiet, dirent[n] \in done, dirent'[n] # dirent[n]
  PROVE  Extracted(n)
  <1>1. OwnName(p, n)
    BY DEF Touches
  <1>2. dirent[n] \notin dropped \cup {None}
    BY PlacementAssumption DEF StayInv, PlaceInv, TypeOK
  <1>3. ~(Pending(req[p]) /\ dirent[n] = req[p].file)
    BY DEF StayInv
  <1>4. QED
    BY <1>1, <1>2, <1>3 DEF OwnName, Extracted

LEMMA StayStep ==
  ASSUME PlaceInv, StayInv, NEW p \in Procs, NEW r \in Request,
         req' = [req EXCEPT ![p] = r],
         Leaves(p, r), Touches(p), quiet' = quiet,
         quiet => KeepsHand(r)
  PROVE  StayInv'
  <1>1. \A q \in Procs : req'[q] = IF q = p THEN r ELSE req[q]
    BY DEF PlaceInv, TypeOK
  <1>2. \A f : Fresh(f) => \A q \in Procs : f # req[q].file /\ f # req[q].arch
    BY DEF Fresh, Somewhere
  <1>3. done' \cap dropped' = {}
    BY DEF Leaves, StayInv
  <1>4. ASSUME NEW q \in Procs, Pending(req'[q])
        PROVE  req'[q].file \in Files \ (done' \cup dropped')
    <2>1. CASE q = p
      BY <1>1, <1>4, <2>1 DEF Leaves
    <2>2. CASE q # p
      BY <1>1, <1>4, <2>2 DEF Leaves, StayInv
    <2>3. QED
      BY <2>1, <2>2
  <1>5. ASSUME NEW q \in Procs, Extracting(req'[q])
        PROVE  req'[q].arch \in done'
    <2>1. CASE q = p
      BY <1>1, <1>5, <2>1 DEF Leaves
    <2>2. CASE q # p
      BY <1>1, <1>2, <1>5, <2>2 DEF Leaves, StayInv
    <2>3. QED
      BY <2>1, <2>2
  <1>6. ASSUME NEW q \in Procs, q # p
        PROVE  /\ Pending(r) /\ Pending(req[q]) => r.file # req[q].file
               /\ Extracting(r) /\ Extracting(req[q]) => r.arch # req[q].arch
    BY <1>2, <1>6 DEF Leaves, StayInv
  <1>7. ASSUME NEW q \in Procs, NEW s \in Procs, q # s
        PROVE  /\ Pending(req'[q]) /\ Pending(req'[s]) => req'[q].file # req'[s].file
               /\ Extracting(req'[q]) /\ Extracting(req'[s]) => req'[q].arch # req'[s].arch
    <2>1. CASE q = p
      BY <1>1, <1>6, <1>7, <2>1
    <2>2. CASE s = p
      BY <1>1, <1>6, <1>7, <2>2
    <2>3. CASE q # p /\ s # p
      BY <1>1, <1>7, <2>3 DEF StayInv
    <2>4. QED
      BY <2>1, <2>2, <2>3
  <1>8. ASSUME quiet, NEW q \in Procs, q # p PROVE InHand(req[q])'
    <2>1. WellFormed(req[q]) /\ InHand(req[q]) /\ req'[q] = req[q]
      BY <1>1, <1>8 DEF PlaceInv, StayInv
    <2>2. CASE req[q].pc \in {"free", "mstream"}
      <3>1. PICK n \in Names : n = req[q].name
        BY <2>1, <2>2 DEF WellFormed, Holding
      <3>2. dirent[n] = req[q].file /\ Pending(req[q]) /\ ~Extracting(req[q])
        BY <2>1, <2>2, <3>1 DEF InHand, Pending, Extracting
      <3>3. dirent[n] \in Files \ (done \cup dropped)
        BY <3>2 DEF StayInv
      <3>4. ~OwnName(p, n)
        <4>1. dirent[n] \notin dropped \cup {None}
          BY <3>3, PlacementAssumption
        <4>2. ~(Pending(req[p]) /\ dirent[n] = req[p].file)
          BY <1>8, <3>2 DEF StayInv
        <4>3. ~(req[p].pc = "xremove" /\ req[p].arch = dirent[n])
          BY <3>3 DEF StayInv, Extracting
        <4>4. QED
          BY <4>1, <4>2, <4>3 DEF OwnName
      <3>5. dirent'[n] = dirent[n]
        BY <1>8, <3>4 DEF Touches
      <3>6. QED
        BY <2>1, <3>1, <3>2, <3>5 DEF InHand
    <2>3. CASE Extracting(req[q])
      <3>1. PICK n \in Names : n = req[q].zip
        BY <2>1, <2>3 DEF WellFormed, Extracting
      <3>2. dirent[n] = req[q].arch /\ req[q].pc \notin {"free", "mstream"}
        BY <2>1, <2>3, <3>1 DEF InHand, Extracting
      <3>3. dirent[n] \in done
        BY <2>3, <3>2 DEF StayInv
      <3>4. ~OwnName(p, n)
        <4>1. dirent[n] \notin dropped \cup {None}
          BY <3>3, PlacementAssumption DEF StayInv, PlaceInv, TypeOK
        <4>2. ~(Pending(req[p]) /\ dirent[n] = req[p].file)
          BY <3>3 DEF StayInv
        <4>3. ~(req[p].pc = "xremove" /\ req[p].arch = dirent[n])
          BY <1>8, <2>3, <3>2 DEF StayInv, Extracting
        <4>4. QED
          BY <4>1, <4>2, <4>3 DEF OwnName
      <3>5. dirent'[n] = dirent[n]
        BY <1>8, <3>4 DEF Touches
      <3>6. QED
        BY <2>1, <3>1, <3>2, <3>5 DEF InHand
    <2>4. CASE req[q].pc \notin {"free", "mstream"} /\ ~Extracting(req[q])
      BY <2>1, <2>4 DEF InHand
    <2>5. QED
      BY <2>2, <2>3, <2>4
  <1>9. (quiet => \A q \in Procs : InHand(req[q]))'
    <2>1. ASSUME quiet, NEW q \in Procs PROVE InHand(req[q])'
      <3>1. CASE q = p
        BY <1>1, <2>1, <3>1 DEF InHand, KeepsHand
      <3>2. CASE q # p
        BY <1>8, <2>1, <3>2
      <3>3. QED
        BY <3>1, <3>2
    <2>2. QED
      BY <2>1
  <1>10. QED
    BY <1>3, <1>4, <1>5, <1>7, <1>9 DEF StayInv

(* What the steps of a request start from, besides Before.                 *)
LEMMA BeforeStay ==
  ASSUME PlaceInv, StayInv, NEW p \in Procs
  PROVE  /\ Pending(req[p]) => req[p].file \in Files \ (done \cup dropped)
         /\ Extracting(req[p]) => req[p].arch \in done
         /\ quiet => InHand(req[p])
         /\ ~Pending(Idle) /\ ~Extracting(Idle) /\ KeepsHand(Idle)
  BY DEF StayInv, Pending, Extracting, Idle, InHand, KeepsHand

(* The request ends, or goes on to a point where it has no name yet, and   *)
(* the folder stays as it is.                                              *)
LEMMA StayIdle ==
  ASSUME PlaceInv, StayInv, NEW p \in Procs, NEW r \in Request,
         req' = [req EXCEPT ![p] = r],
         ~Pending(r) \/ (Pending(req[p]) /\ r.file = req[p].file),
         ~Extracting(r) \/ (Extracting(req[p]) /\ r.arch = req[p].arch),
         quiet => KeepsHand(r),
         UNCHANGED <<done, dropped, quiet>>, Touches(p)
  PROVE  StayInv'
  <1>1. Leaves(p, r)
    BY BeforeStay DEF Leaves
  <1>2. QED
    BY <1>1, StayStep

(* /upload_complete up to the rename, and the retry.                       *)
LEMMA CompletionStays ==
  ASSUME PlaceInv, StayInv, NEW p \in Procs,
         \/ Start(p) \/ Reserve(p) \/ Create(p) \/ Free(p)
         \/ RenameFails(p) \/ Retry(p) \/ Answer(p)
  PROVE  StayInv' /\ Touches(p)
  <1>b. /\ req[p] \in Request /\ WellFormed(req[p]) /\ Idle \in Request
        /\ dirent \in [Names -> Files \cup {None}]
        /\ done \subseteq Files /\ dropped \subseteq Files
    BY Before
  <1>c. /\ Pending(req[p]) => req[p].file \in Files \ (done \cup dropped)
        /\ Extracting(req[p]) => req[p].arch \in done
        /\ quiet => InHand(req[p])
        /\ ~Pending(Idle) /\ ~Extracting(Idle) /\ KeepsHand(Idle)
    BY BeforeStay
  <1>1. CASE Start(p)
    <2>1. PICK f \in Files, pc \in {"reserve", "mreserve"} :
             /\ Fresh(f)
             /\ done' = done \ {f}
             /\ dropped' = dropped \ {f}
             /\ req' = [req EXCEPT ![p] = [Idle EXCEPT !.pc = pc, !.file = f]]
      BY <1>1 DEF Start
    <2> DEFINE r == [Idle EXCEPT !.pc = pc, !.file = f]
    <2>2. r \in Request /\ r.pc = pc /\ r.file = f /\ req' = [req EXCEPT ![p] = r]
      BY <1>b, <2>1 DEF Request, Idle, PCs
    <2> HIDE DEF r
    <2>3. Touches(p) /\ quiet' = quiet
      BY <1>1 DEF Start, Touches
    <2>4. Leaves(p, r)
      BY <2>1, <2>2 DEF Leaves, Extracting
    <2>5. KeepsHand(r)
      BY <2>2 DEF KeepsHand, Extracting
    <2>6. QED
      BY <2>2, <2>3, <2>4, <2>5, StayStep
  <1>2. CASE Reserve(p)
    <2>1. PICK n \in Names : req' = [req EXCEPT ![p].pc = "create", ![p].name = n]
      BY <1>2 DEF Reserve
    <2> DEFINE r == [req[p] EXCEPT !.pc = "create", !.name = n]
    <2>2. /\ r \in Request /\ r.pc = "create" /\ r.file = req[p].file
          /\ req' = [req EXCEPT ![p] = r]
      BY <1>b, <2>1 DEF Request, PCs
    <2> HIDE DEF r
    <2>3. Touches(p) /\ UNCHANGED <<done, dropped, quiet>> /\ Pending(req[p])
      BY <1>2 DEF Reserve, Touches, Pending
    <2>4. ~Extracting(r) /\ KeepsHand(r)
      BY <2>2 DEF KeepsHand, Extracting
    <2>5. QED
      BY <2>2, <2>3, <2>4, StayIdle
  <1>3. CASE Create(p)
    <2>1. /\ req[p].pc = "create" /\ req[p].name \in Names /\ req[p].file \in Files
          /\ UNCHANGED <<done, dropped, quiet>> /\ Pending(req[p])
      BY <1>3, <1>b DEF Create, WellFormed, Holding, Pending
    <2>2. CASE /\ dirent[req[p].name] = None
               /\ Put(req[p].name, req[p].file)
               /\ req' = [req EXCEPT ![p].pc = "free"]
      <3> DEFINE r == [req[p] EXCEPT !.pc = "free"]
      <3>1. /\ r \in Request /\ r.pc = "free" /\ r.file = req[p].file /\ r.name = req[p].name
            /\ req' = [req EXCEPT ![p] = r]
        BY <1>b, <2>2 DEF Request, PCs
      <3> HIDE DEF r
      <3>2. \A m \in Names : dirent'[m] = IF m = req[p].name THEN req[p].file ELSE dirent[m]
        BY <2>1, <2>2, PutStep
      <3>3. Touches(p)
        BY <2>2, <3>2 DEF Touches, OwnName
      <3>4. ~Extracting(r) /\ KeepsHand(r)
        BY <2>1, <3>1, <3>2 DEF KeepsHand, Extracting
      <3>5. QED
        BY <2>1, <3>1, <3>3, <3>4, StayIdle
    <2>3. CASE /\ MoreTries(req[p])
               /\ req' = [req EXCEPT ![p].pc = "reserve", ![p].tries = req[p].tries + 1]
               /\ UNCHANGED dirent
      <3> DEFINE r == [req[p] EXCEPT !.pc = "reserve", !.tries = req[p].tries + 1]
      <3>1. req[p].tries + 1 \in 0 .. Tries
        BY <1>b, <2>3, PlacementAssumption DEF Request, MoreTries
      <3>2. /\ r \in Request /\ r.pc = "reserve" /\ r.file = req[p].file
            /\ req' = [req EXCEPT ![p] = r]
        BY <1>b, <2>3, <3>1 DEF Request, PCs
      <3> HIDE DEF r
      <3>3. ~Extracting(r) /\ KeepsHand(r) /\ Touches(p)
        BY <2>3, <3>2 DEF KeepsHand, Extracting, Touches
      <3>4. QED
        BY <2>1, <3>2, <3>3, StayIdle
    <2>4. CASE req' = [req EXCEPT ![p] = Idle] /\ UNCHANGED dirent
      <3>1. Touches(p)
        BY <2>4 DEF Touches
      <3>2. QED
        BY <1>b, <1>c, <2>1, <2>4, <3>1, StayIdle
    <2>5. QED
      BY <1>3, <2>2, <2>3, <2>4 DEF Create
  <1>4. CASE Free(p)
    <2>1. /\ req[p].pc = "free" /\ req[p].name \in Names /\ Pending(req[p])
          /\ UNCHANGED <<done, dropped, quiet>>
      BY <1>4, <1>b DEF Free, WellFormed, Holding, Pending
    <2> DEFINE r == [req[p] EXCEPT !.pc = "rename"]
    <2>2. /\ r \in Request /\ r.pc = "rename" /\ r.file = req[p].file
          /\ req' = [req EXCEPT ![p] = r]
      BY <1>4, <1>b DEF Free, Request, PCs
    <2> HIDE DEF r
    <2>3. \A m \in Names : dirent'[m] = IF m = req[p].name THEN None ELSE dirent[m]
      BY <1>4, <2>1, PutStep DEF Free
    <2>4. Touches(p)
      BY <1>c, <2>1, <2>3 DEF Touches, OwnName, InHand
    <2>5. ~Extracting(r) /\ KeepsHand(r)
      BY <2>2 DEF KeepsHand, Extracting
    <2>6. QED
      BY <2>1, <2>2, <2>4, <2>5, StayIdle
  <1>5. CASE RenameFails(p) \/ Answer(p)
    <2>1. req' = [req EXCEPT ![p] = Idle] /\ UNCHANGED <<dirent, done, dropped, quiet>>
      BY <1>5 DEF RenameFails, Answer
    <2>2. Touches(p)
      BY <2>1 DEF Touches
    <2>3. QED
      BY <1>b, <1>c, <2>1, <2>2, StayIdle
  <1>6. CASE Retry(p)
    <2>1. UNCHANGED <<dirent, done, dropped, quiet>>
      BY <1>6 DEF Retry
    <2>2. Touches(p)
      BY <2>1 DEF Touches
    <2>3. CASE req' = [req EXCEPT ![p] = Idle]
      BY <1>b, <1>c, <2>1, <2>2, <2>3, StayIdle
    <2>4. CASE /\ dirent[0] \in done \cup dropped
               /\ req' = [req EXCEPT ![p].pc = "told", ![p].told = dirent[0]]
      <3> DEFINE r == [req[p] EXCEPT !.pc = "told", !.told = dirent[0]]
      <3>1. r \in Request /\ r.pc = "told" /\ req' = [req EXCEPT ![p] = r]
        BY <1>b, <2>4 DEF Request, PCs
      <3> HIDE DEF r
      <3>2. ~Pending(r) /\ ~Extracting(r) /\ KeepsHand(r)
        BY <3>1 DEF Pending, Extracting, KeepsHand
      <3>3. QED
        BY <2>1, <2>2, <3>1, <3>2, StayIdle
    <2>5. QED
      BY <1>6, <2>2, <2>3, <2>4 DEF Retry
  <1>7. QED
    BY <1>1, <1>2, <1>3, <1>4, <1>5, <1>6

(* The two renames, and the removal of an extracted archive.               *)
LEMMA RenameStays ==
  ASSUME PlaceInv, StayInv, NEW p \in Procs,
         \/ Rename(p) \/ ExtractReserve(p) \/ ExtractFails(p)
         \/ ExtractRename(p) \/ ExtractRemove(p)
  PROVE  StayInv' /\ Touches(p)
  <1>b. /\ req[p] \in Request /\ WellFormed(req[p]) /\ Idle \in Request
        /\ dirent \in [Names -> Files \cup {None}]
        /\ done \subseteq Files /\ dropped \subseteq Files
    BY Before
  <1>c. /\ Pending(req[p]) => req[p].file \in Files \ (done \cup dropped)
        /\ Extracting(req[p]) => req[p].arch \in done
        /\ quiet => InHand(req[p])
        /\ ~Pending(Idle) /\ ~Extracting(Idle) /\ KeepsHand(Idle)
    BY BeforeStay
  <1>r. ASSUME Renaming(req[p]), Put(req[p].name, req[p].file)
        PROVE  /\ req[p].name \in Names /\ req[p].file \in Files \ (done \cup dropped)
               /\ Pending(req[p]) /\ dirent[req[p].name] \in dropped \cup {None}
               /\ \A m \in Names : dirent'[m] = IF m = req[p].name THEN req[p].file ELSE dirent[m]
               /\ Touches(p)
    <2>1. req[p].name \in Names /\ Pending(req[p]) /\ dirent[req[p].name] \in dropped \cup {None}
      BY <1>r, <1>b DEF PlaceInv, WellFormed, Holding, Renaming, Pending
    <2>2. \A m \in Names : dirent'[m] = IF m = req[p].name THEN req[p].file ELSE dirent[m]
      BY <1>r, <1>c, <2>1, PutStep
    <2>3. Touches(p)
      BY <2>1, <2>2 DEF Touches, OwnName
    <2>4. QED
      BY <1>c, <2>1, <2>2, <2>3
  <1>1. CASE Rename(p)
    <2>1. /\ req[p].pc = "rename" /\ Put(req[p].name, req[p].file)
          /\ Renaming(req[p]) /\ quiet' = quiet
      BY <1>1 DEF Rename, Renaming
    <2>2. ASSUME NEW pc \in {"idle", "lost"},
                 req' = [req EXCEPT ![p] = [Idle EXCEPT !.pc = pc,
                           !.file = IF pc = "lost" THEN req[p].file ELSE None]],
                 done' = done \cup {req[p].file},
                 dropped' = dropped
          PROVE  StayInv'
      <3> DEFINE r == [Idle EXCEPT !.pc = pc, !.file = IF pc = "lost" THEN req[p].file ELSE None]
      <3>1. r \in Request /\ r.pc = pc /\ req' = [req EXCEPT ![p] = r]
        BY <1>b, <1>r, <2>1, <2>2 DEF Request, Idle, PCs
      <3> HIDE DEF r
      <3>2. ~Pending(r) /\ ~Extracting(r) /\ KeepsHand(r)
        BY <3>1 DEF Pending, Extracting, KeepsHand
      <3>3. Leaves(p, r)
        BY <1>r, <2>1, <2>2, <3>2 DEF Leaves
      <3>4. QED
        BY <1>r, <2>1, <3>1, <3>2, <3>3, StayStep
    <2>3. ASSUME NEW top \in Files, Fresh(top),
                 done' = (done \ {top}) \cup {req[p].file},
                 dropped' = dropped \ {top},
                 req' = [req EXCEPT ![p] = [Idle EXCEPT !.pc = "xreserve", !.file = top,
                           !.zip = req[p].name, !.arch = req[p].file]]
          PROVE  StayInv'
      <3> DEFINE r == [Idle EXCEPT !.pc = "xreserve", !.file = top,
                         !.zip = req[p].name, !.arch = req[p].file]
      <3>1. /\ r \in Request /\ r.pc = "xreserve" /\ r.file = top
            /\ r.zip = req[p].name /\ r.arch = req[p].file
            /\ req' = [req EXCEPT ![p] = r]
        BY <1>b, <1>r, <2>1, <2>3 DEF Request, Idle, PCs
      <3> HIDE DEF r
      <3>2. top # req[p].file
        BY <2>3 DEF Fresh, Somewhere
      <3>3. Leaves(p, r)
        BY <1>r, <2>1, <2>3, <3>1, <3>2 DEF Leaves
      <3>4. KeepsHand(r)
        BY <1>r, <2>1, <3>1 DEF KeepsHand
      <3>5. QED
        BY <1>r, <2>1, <3>1, <3>3, <3>4, StayStep
    <2>4. QED
      BY <1>1, <1>r, <2>1, <2>2, <2>3 DEF Rename
  <1>2. CASE ExtractReserve(p)
    <2>1. PICK n \in Names : req' = [req EXCEPT ![p].pc = "xrename", ![p].name = n]
      BY <1>2 DEF ExtractReserve
    <2> DEFINE r == [req[p] EXCEPT !.pc = "xrename", !.name = n]
    <2>2. /\ r \in Request /\ r.pc = "xrename" /\ r.file = req[p].file
          /\ r.zip = req[p].zip /\ r.arch = req[p].arch
          /\ req' = [req EXCEPT ![p] = r]
      BY <1>b, <2>1 DEF Request, PCs
    <2> HIDE DEF r
    <2>3. /\ Touches(p) /\ UNCHANGED <<dirent, done, dropped, quiet>>
          /\ Pending(req[p]) /\ Extracting(req[p])
      BY <1>2 DEF ExtractReserve, Touches, Pending, Extracting
    <2>4. quiet => KeepsHand(r)
      BY <1>c, <2>2, <2>3 DEF KeepsHand, InHand
    <2>5. QED
      BY <2>2, <2>3, <2>4, StayIdle
  <1>3. CASE ExtractFails(p)
    <2>1. req' = [req EXCEPT ![p] = Idle] /\ UNCHANGED <<dirent, done, dropped, quiet>>
      BY <1>3 DEF ExtractFails
    <2>2. Touches(p)
      BY <2>1 DEF Touches
    <2>3. QED
      BY <1>b, <1>c, <2>1, <2>2, StayIdle
  <1>4. CASE ExtractRename(p)
    <2> DEFINE r == [req[p] EXCEPT !.pc = "xremove"]
    <2>1. /\ req[p].pc = "xrename" /\ Put(req[p].name, req[p].file)
          /\ done' = done \cup {req[p].file} /\ UNCHANGED <<dropped, quiet>>
          /\ Renaming(req[p]) /\ Extracting(req[p])
      BY <1>4 DEF ExtractRename, Renaming, Extracting
    <2>2. /\ r \in Request /\ r.pc = "xremove" /\ r.zip = req[p].zip /\ r.arch = req[p].arch
          /\ req' = [req EXCEPT ![p] = r]
      BY <1>4, <1>b DEF ExtractRename, Request, PCs
    <2> HIDE DEF r
    <2>3. Leaves(p, r)
      BY <1>c, <1>r, <2>1, <2>2 DEF Leaves, Pending
    <2>4. quiet => KeepsHand(r)
      <3>1. req[p].zip \in Names
        BY <1>b, <2>1 DEF WellFormed
      <3>2. quiet => dirent[req[p].zip] = req[p].arch
        BY <1>c, <2>1 DEF InHand
      <3>3. req[p].arch \notin dropped \cup {None}
        BY <1>b, <1>c, <2>1, PlacementAssumption DEF StayInv
      <3>4. quiet => req[p].zip # req[p].name
        BY <1>r, <2>1, <3>2, <3>3
      <3>5. QED
        BY <1>r, <2>1, <2>2, <3>1, <3>2, <3>4 DEF KeepsHand
    <2>5. QED
      BY <1>r, <2>1, <2>2, <2>3, <2>4, StayStep
  <1>5. CASE ExtractRemove(p)
    <2>1. /\ req[p].zip \in Names /\ Put(req[p].zip, None) /\ req[p].pc = "xremove"
          /\ UNCHANGED <<done, dropped, quiet>>
          /\ req' = [req EXCEPT ![p] = Idle]
      BY <1>5, <1>b DEF ExtractRemove, WellFormed
    <2>2. \A m \in Names : dirent'[m] = IF m = req[p].zip THEN None ELSE dirent[m]
      BY <2>1, PutStep
    <2>3. Touches(p)
      BY <1>c, <2>1, <2>2 DEF Touches, OwnName, InHand, Extracting
    <2>4. QED
      BY <1>b, <1>c, <2>1, <2>3, StayIdle
  <1>6. QED
    BY <1>1, <1>2, <1>3, <1>4, <1>5

(* The multipart upload.                                                   *)
LEMMA MultipartStays ==
  ASSUME PlaceInv, StayInv, NEW p \in Procs,
         MultiReserve(p) \/ MultiCreate(p) \/ MultiSave(p) \/ MultiRemove(p)
  PROVE  StayInv' /\ Touches(p)
  <1>b. /\ req[p] \in Request /\ WellFormed(req[p]) /\ Idle \in Request
        /\ dirent \in [Names -> Files \cup {None}]
        /\ done \subseteq Files /\ dropped \subseteq Files
    BY Before
  <1>c. /\ Pending(req[p]) => req[p].file \in Files \ (done \cup dropped)
        /\ quiet => InHand(req[p])
        /\ ~Pending(Idle) /\ ~Extracting(Idle) /\ KeepsHand(Idle)
    BY BeforeStay
  <1>1. CASE MultiReserve(p)
    <2>1. PICK n \in Names : req' = [req EXCEPT ![p].pc = "mcreate", ![p].name = n]
      BY <1>1 DEF MultiReserve
    <2> DEFINE r == [req[p] EXCEPT !.pc = "mcreate", !.name = n]
    <2>2. /\ r \in Request /\ r.pc = "mcreate" /\ r.file = req[p].file
          /\ req' = [req EXCEPT ![p] = r]
      BY <1>b, <2>1 DEF Request, PCs
    <2> HIDE DEF r
    <2>3. Touches(p) /\ UNCHANGED <<done, dropped, quiet>> /\ Pending(req[p])
      BY <1>1 DEF MultiReserve, Touches, Pending
    <2>4. ~Extracting(r) /\ KeepsHand(r)
      BY <2>2 DEF KeepsHand, Extracting
    <2>5. QED
      BY <2>2, <2>3, <2>4, StayIdle
  <1>p. ASSUME NEW complete \in {done, done \cup {req[p].file}}, NextPart(p, complete),
               Pending(req[p]), quiet' = quiet, Touches(p)
        PROVE  StayInv'
    <2>1. CASE req' = [req EXCEPT ![p] = Idle] /\ done' = complete /\ dropped' = dropped
      <3>1. Leaves(p, Idle)
        BY <1>c, <1>p, <2>1 DEF Leaves
      <3>2. QED
        BY <1>b, <1>c, <1>p, <2>1, <3>1, StayStep
    <2>2. ASSUME NEW f \in Files, Fresh(f), done' = complete \ {f}, dropped' = dropped \ {f},
                 req' = [req EXCEPT ![p] = [Idle EXCEPT !.pc = "mreserve", !.file = f]]
          PROVE  StayInv'
      <3> DEFINE r == [Idle EXCEPT !.pc = "mreserve", !.file = f]
      <3>1. r \in Request /\ r.pc = "mreserve" /\ r.file = f /\ req' = [req EXCEPT ![p] = r]
        BY <1>b, <2>2 DEF Request, Idle, PCs
      <3> HIDE DEF r
      <3>2. ~Extracting(r) /\ KeepsHand(r)
        BY <3>1 DEF Extracting, KeepsHand
      <3>3. Leaves(p, r)
        BY <1>p, <2>2, <3>1, <3>2 DEF Leaves
      <3>4. QED
        BY <1>p, <3>1, <3>2, <3>3, StayStep
    <2>3. QED
      BY <1>p, <2>1, <2>2 DEF NextPart
  <1>2. CASE MultiCreate(p)
    <2>1. /\ req[p].pc = "mcreate" /\ quiet' = quiet /\ Pending(req[p])
          /\ req[p].name \in Names /\ req[p].file \in Files
      BY <1>2, <1>b DEF MultiCreate, WellFormed, Holding, Pending
    <2>2. CASE /\ dirent[req[p].name] = None
               /\ Put(req[p].name, req[p].file)
               /\ req' = [req EXCEPT ![p].pc = "mstream"]
               /\ UNCHANGED <<done, dropped>>
      <3> DEFINE r == [req[p] EXCEPT !.pc = "mstream"]
      <3>1. /\ r \in Request /\ r.pc = "mstream" /\ r.file = req[p].file /\ r.name = req[p].name
            /\ req' = [req EXCEPT ![p] = r]
        BY <1>b, <2>2 DEF Request, PCs
      <3> HIDE DEF r
      <3>2. \A m \in Names : dirent'[m] = IF m = req[p].name THEN req[p].file ELSE dirent[m]
        BY <2>1, <2>2, PutStep
      <3>3. Touches(p)
        BY <2>2, <3>2 DEF Touches, OwnName
      <3>4. ~Extracting(r) /\ KeepsHand(r)
        BY <2>1, <3>1, <3>2 DEF KeepsHand, Extracting
      <3>5. QED
        BY <2>1, <2>2, <3>1, <3>3, <3>4, StayIdle
    <2>3. CASE NextPart(p, done) /\ UNCHANGED dirent
      <3>1. Touches(p)
        BY <2>3 DEF Touches
      <3>2. QED
        BY <1>p, <2>1, <2>3, <3>1
    <2>4. QED
      BY <1>2, <2>2, <2>3 DEF MultiCreate
  <1>3. CASE MultiSave(p)
    <2>1. Touches(p) /\ quiet' = quiet /\ Pending(req[p]) /\ NextPart(p, done \cup {req[p].file})
      BY <1>3 DEF MultiSave, Touches, Pending
    <2>2. QED
      BY <1>p, <2>1
  <1>4. CASE MultiRemove(p)
    <2>1. /\ req[p].pc = "mstream" /\ req[p].name \in Names /\ Pending(req[p])
          /\ Put(req[p].name, None) /\ NextPart(p, done) /\ quiet' = quiet
      BY <1>4, <1>b DEF MultiRemove, WellFormed, Pending
    <2>2. \A m \in Names : dirent'[m] = IF m = req[p].name THEN None ELSE dirent[m]
      BY <2>1, PutStep
    <2>3. Touches(p)
      BY <1>c, <2>1, <2>2 DEF Touches, OwnName, InHand
    <2>4. QED
      BY <1>p, <2>1, <2>3
  <1>5. QED
    BY <1>1, <1>2, <1>3, <1>4

(* A client that deletes, and the owner.                                   *)
LEMMA FolderStays ==
  ASSUME PlaceInv, StayInv, NEW n \in Names, Delete(n) \/ Drop(n)
  PROVE  /\ StayInv'
         /\ \A m \in Names : dirent[m] \in done /\ dirent'[m] # dirent[m] => Delete(m)
  <1>t. /\ dirent \in [Names -> Files \cup {None}] /\ None \notin done
        /\ \A p \in Procs : WellFormed(req[p])
    BY PlacementAssumption DEF PlaceInv, TypeOK
  <1>1. CASE Delete(n)
    <2>1. /\ \A m \in Names : dirent'[m] = IF m = n THEN None ELSE dirent[m]
          /\ UNCHANGED <<req, done, dropped>>
          /\ quiet' => quiet /\ ~Busy(n)
      BY <1>1, PutStep DEF Delete
    <2>2. ASSUME quiet', NEW p \in Procs PROVE InHand(req[p])'
      <3>1. quiet /\ n \notin {req[p].name, req[p].zip} /\ InHand(req[p])
        BY <2>1, <2>2 DEF Busy, StayInv
      <3>2. /\ req[p].pc \in {"free", "mstream"} => req[p].name \in Names
            /\ Extracting(req[p]) => req[p].zip \in Names
        BY <1>t DEF WellFormed, Holding, Extracting
      <3>3. QED
        BY <2>1, <3>1, <3>2 DEF InHand
    <2>3. StayInv'
      BY <2>1, <2>2 DEF StayInv
    <2>4. QED
      BY <1>1, <2>1, <2>3
  <1>2. CASE Drop(n)
    <2>1. PICK f \in Files : /\ Fresh(f) /\ Put(n, f)
                             /\ done' = done \ {f} /\ dropped' = dropped \cup {f}
      BY <1>2 DEF Drop
    <2>2. dirent[n] = None /\ UNCHANGED <<lock, req, quiet>>
      BY <1>2 DEF Drop
    <2>3. /\ \A m \in Names : dirent'[m] = IF m = n THEN f ELSE dirent[m]
          /\ \A p \in Procs : f # req[p].file /\ f # req[p].arch
      BY <2>1, PutStep DEF Fresh, Somewhere
    <2>4. \A p \in Procs : Pending(req[p]) => req[p].file # None
      BY PlacementAssumption DEF StayInv
    <2>5. \A p \in Procs : Extracting(req[p]) => req[p].arch # None
      BY <1>t DEF StayInv
    <2>6. ASSUME quiet, NEW p \in Procs PROVE InHand(req[p])'
      <3>1. InHand(req[p])
        BY <2>6 DEF StayInv
      <3>2. /\ req[p].pc \in {"free", "mstream"} => req[p].name \in Names /\ req[p].file # None
            /\ Extracting(req[p]) => req[p].zip \in Names /\ req[p].arch # None
        BY <1>t, <2>4, <2>5 DEF WellFormed, Holding, Extracting, Pending
      <3>3. QED
        BY <2>2, <2>3, <3>1, <3>2 DEF InHand
    <2>7. StayInv'
      BY <2>1, <2>2, <2>3, <2>6 DEF StayInv
    <2>8. QED
      BY <1>t, <2>2, <2>3, <2>7
  <1>3. QED
    BY <1>1, <1>2

(* No complete file goes.                                                  *)
NoneLost ==
  \A n \in Names :
    quiet /\ dirent[n] \in done /\ dirent'[n] # dirent[n] => Delete(n) \/ Extracted(n)

LEMMA StayNext ==
  ASSUME PlaceInv, StayInv, [Next]_vars
  PROVE  StayInv' /\ [NoneLost]_vars
  <1>1. CASE UNCHANGED vars
    <2>1. UNCHANGED <<dirent, lock, req, done, dropped, quiet>>
      BY <1>1 DEF vars
    <2>2. StayInv'
      BY <2>1 DEF StayInv, InHand
    <2>3. QED
      BY <1>1, <2>2
  <1>2. ASSUME NEW p \in Procs, Place(p) PROVE StayInv' /\ NoneLost
    <2>1. StayInv' /\ Touches(p)
      BY <1>2, CompletionStays, RenameStays, MultipartStays DEF Place
    <2>2. NoneLost
      BY <2>1, TouchesOwn DEF NoneLost
    <2>3. QED
      BY <2>1, <2>2
  <1>3. ASSUME NEW n \in Names, Delete(n) \/ Drop(n) PROVE StayInv' /\ NoneLost
    BY <1>3, FolderStays DEF NoneLost
  <1>4. QED
    BY <1>1, <1>2, <1>3 DEF Next

(* Complete files stay until a client deletes them or, as archives, they   *)
(* have been extracted, for any number of requests, files and names, as    *)
(* long as no client deletes what a request is at work on.                 *)
THEOREM StayCorrect == Spec => FilesStay
  <1>1. Init => StayInv
    BY DEF Init, StayInv, Idle, Pending, Extracting, InHand
  <1>2. PlaceInv /\ StayInv /\ [Next]_vars => StayInv' /\ [NoneLost]_vars
    BY StayNext
  <1>3. PlaceInv /\ StayInv /\ [Next]_vars
          => [\A n \in Names :
                quiet /\ dirent[n] \in done /\ dirent'[n] # dirent[n]
                  => Delete(n) \/ Extracted(n)]_vars
    BY <1>2 DEF NoneLost
  <1>4. QED
    BY <1>1, <1>2, <1>3, PlaceCorrect, PTL DEF Spec, FilesStay
=============================================================================
