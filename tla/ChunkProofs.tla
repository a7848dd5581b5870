---------------------------- MODULE ChunkProofs ----------------------------
(***************************************************************************)
(* The v1 lane, for any number of requests and incarnations and any file:  *)
(* what is published is the file and what was answered with 200 is stored. *)
(* ChunkIInv is the inductive invariant.                                   *)
(***************************************************************************)
EXTENDS ChunkUpload, FiniteSetTheorems, TLAPS

Data == Range(File)
Body == {"open", "append"}

(* Read unit by unit, what lies in a file is the client's from one place   *)
(* to another.                                                             *)
Holds(s, from, to) == \A i \in from + 1 .. to : s[i] = File[i]
Begins(s) == Len(s) <= Size /\ Holds(s, 0, Len(s))

OneLife == \A m, n \in born : m = n

(* What each request has in hand: a place within the file, behind which    *)
(* there is something to send, and a data.part of the session.             *)
InHand(r) ==
  /\ r.pc \in {"check", "open", "append"} => r.from < r.to
  /\ r.pc \in {"check", "open"} => r.pos = r.from
  /\ r.pc = "append" => r.fd \in born /\ r.from <= r.pos /\ r.pos <= r.to

Typed ==
  /\ ChunkTypeOK
  /\ disk \in [Inodes -> Seq(Data)]
  /\ IsFiniteSet(born)
  /\ part \in born \cup {NoInode}
  /\ saved \subseteq born
  /\ part \notin saved
  /\ \A n \in Inodes \ born : disk[n] = <<>>
  /\ \A p \in Writers : InHand(chunk[p])

(* One body at a time: it goes to where the file ends, and a removed       *)
(* session does not come back under it.                                    *)
Alternating ==
  serial =>
    /\ \A p, q \in Writers : chunk[p].pc \in Body /\ chunk[q].pc \in Body => p = q
    /\ \A p \in Writers :
         /\ chunk[p].pc = "open" /\ dir => chunk[p].from = sessReceived
         /\ chunk[p].pc = "append" => Len(disk[chunk[p].fd]) = chunk[p].pos
    /\ \A n \in Inodes : Begins(disk[n])
    /\ \A n \in saved : Len(disk[n]) = Size

(* Overlapping bodies: each finds the file at least as long as what itself *)
(* put there, and exactly as long only if nobody else put anything.        *)
Behind(r) ==
  /\ r.pc = "open" => r.from = 0 \/ \E n \in born : r.from <= Len(disk[n])
  /\ r.pc = "append" /\ OneLife =>
       /\ r.pos <= Len(disk[r.fd])
       /\ r.pos = Len(disk[r.fd]) => Holds(disk[r.fd], r.from, r.pos)

Overlapping == \A p \in Writers : Behind(chunk[p])

(* What was answered is there.                                             *)
Answered ==
  serial \/ OneLife =>
    \A a \in acked :
      a[1] \in born /\ a[3] <= Len(disk[a[1]]) /\ Holds(disk[a[1]], a[2], a[3])

ChunkIInv == Typed /\ Alternating /\ Overlapping /\ Answered
-----------------------------------------------------------------------------
(* Lemmas on sequences and on the operators of the model.                  *)

LEMMA FileFacts == File \in Seq(Data) /\ Size \in Nat \ {0} /\ \A i \in 1 .. Size : File[i] \in Data
  BY ChunkAssumption DEF Size, Data

(* A beginning of the file, unit by unit.                                  *)
LEMMA Beginning ==
  ASSUME NEW s \in Seq(Data)
  PROVE  Begins(s) <=> IsBeginning(s)
  <1>1. ASSUME Len(s) <= Size
        PROVE  /\ SubSeq(File, 1, Len(s)) \in Seq(Data)
               /\ Len(SubSeq(File, 1, Len(s))) = Len(s)
               /\ \A i \in 1 .. Len(s) : SubSeq(File, 1, Len(s))[i] = File[i]
    BY <1>1, FileFacts DEF Size
  <1>2. QED
    BY <1>1, FileFacts DEF Begins, Holds, IsBeginning

LEMMA WholeFile ==
  ASSUME NEW s \in Seq(Data), Begins(s), Len(s) = Size
  PROVE  s = File
  BY FileFacts DEF Begins, Holds, Size

(* The units between two places, as sequences.                             *)
LEMMA HeldSpan ==
  ASSUME NEW s \in Seq(Data), NEW from \in Nat, NEW to \in Nat,
         to <= Len(s), to <= Size, Holds(s, from, to)
  PROVE  SubSeq(s, from + 1, to) = SubSeq(File, from + 1, to)
  <1>1. CASE from < to
    <2> DEFINE t == SubSeq(s, from + 1, to)
               f == SubSeq(File, from + 1, to)
    <2>1. /\ t \in Seq(Data) /\ Len(t) = to - from
          /\ \A i \in 1 .. to - from : t[i] = s[from + i]
      BY <1>1
    <2>2. /\ f \in Seq(Data) /\ Len(f) = to - from
          /\ \A i \in 1 .. to - from : f[i] = File[from + i]
      BY <1>1, FileFacts DEF Size
    <2>3. \A i \in 1 .. to - from : s[from + i] = File[from + i]
      BY <1>1 DEF Holds
    <2>4. Len(t) = Len(f) /\ \A i \in 1 .. Len(t) : t[i] = f[i]
      BY <2>1, <2>2, <2>3
    <2> HIDE DEF t, f
    <2>5. t = f
      BY <2>1, <2>2, <2>4
    <2>6. QED
      BY <2>5 DEF t, f
  <1>2. CASE from >= to
    BY <1>2, FileFacts DEF Size
  <1>3. QED
    BY <1>1, <1>2

(* What a unit more leaves as it was.                                      *)
LEMMA AppendKeeps ==
  ASSUME NEW s \in Seq(Data), NEW d \in Data
  PROVE  /\ Append(s, d) \in Seq(Data)
         /\ Len(Append(s, d)) = Len(s) + 1
         /\ Append(s, d)[Len(s) + 1] = d
         /\ \A from, to \in Nat : to <= Len(s) /\ Holds(s, from, to) => Holds(Append(s, d), from, to)
  BY DEF Holds

(* OpenFile leads the name to an incarnation of the session, and a new one *)
(* is empty.                                                               *)
LEMMA OpenFacts ==
  ASSUME Typed, NEW n \in Inodes, OpenAppend(n)
  PROVE  /\ dir /\ part' = n /\ n \in born' /\ born' = born \cup {n}
         /\ n \notin saved /\ IsFiniteSet(born')
         /\ part # n => part = NoInode /\ n \notin born /\ disk[n] = <<>>
         /\ sessReceived = Len(disk[n])
  BY FS_AddElement, ChunkAssumption DEF Typed, ChunkTypeOK, OpenAppend, sessReceived

(* How much there is under the name.                                       *)
LEMMA Received ==
  ASSUME Typed
  PROVE  /\ sessReceived \in Nat
         /\ sessReceived > 0 => part \in born /\ Len(disk[part]) = sessReceived
  BY DEF Typed, ChunkTypeOK, sessReceived

-----------------------------------------------------------------------------
(* GoTo and Reply change one request.                                      *)
LEMMA Moves ==
  ASSUME Typed, NEW p \in Writers
  PROVE  /\ \A pc \in ChunkPCs : GoTo(p, pc) =>
              /\ \A q \in Writers \ {p} : chunk'[q] = chunk[q]
              /\ chunk'[p].pc = pc /\ chunk'[p].from = chunk[p].from
         /\ Reply(p) =>
              /\ \A q \in Writers \ {p} : chunk'[q] = chunk[q]
              /\ chunk'[p].pc = "idle"
  BY DEF GoTo, Reply, Typed, ChunkTypeOK, ChunkRequest, ChunkIdle

(* The steps that neither open data.part nor write.                        *)
Quiet(p) ==
  \/ InitStart(p) \/ ChunkStart(p) \/ ChunkCheck(p) \/ ChunkAbort(p)
  \/ ChunkConfirm(p) \/ CompleteCheck(p) \/ CompleteHash(p)

LEMMA QuietSteps ==
  ASSUME Typed, NEW p \in Writers, Quiet(p)
  PROVE  /\ \A q \in Writers \ {p} : chunk'[q] = chunk[q]
         /\ UNCHANGED <<part, disk, saved, born>>
         /\ chunk'[p].pc # "append"
         /\ \/ chunk'[p].pc # "open" /\ dir' = dir /\ serial' = serial
            \/ /\ serial' = (serial /\ ~BodyInHand)
               /\ chunk'[p].pc = "open" => dir' = dir /\ chunk'[p].from = sessReceived
  <1>1. CASE InitStart(p)
    BY <1>1, Moves DEF InitStart, ChunkPCs
  <1>2. CASE ChunkStart(p)
    <2>1. PICK from, to \in 0 .. Size :
            chunk' = [chunk EXCEPT ![p] = [ChunkIdle EXCEPT !.pc = "check",
                            !.from = from, !.pos = from, !.to = to]]
      BY <1>2 DEF ChunkStart
    <2>2. chunk'[p].pc = "check" /\ \A q \in Writers \ {p} : chunk'[q] = chunk[q]
      BY <2>1 DEF Typed, ChunkTypeOK, ChunkIdle
    <2>3. QED
      BY <1>2, <2>2 DEF ChunkStart
  <1>3. CASE ChunkCheck(p)
    <2>1. CASE AtOffset(p)
      BY <1>3, <2>1, Moves DEF ChunkCheck, ChunkPCs, AtOffset
    <2>2. CASE ~AtOffset(p)
      BY <1>3, <2>2, Moves DEF ChunkCheck
    <2>3. QED
      BY <2>1, <2>2
  <1>4. CASE ChunkAbort(p) \/ ChunkConfirm(p)
    BY <1>4, Moves DEF ChunkAbort, ChunkConfirm
  <1>5. CASE CompleteCheck(p)
    <2>1. PICK hash \in BOOLEAN :
            chunk' = [chunk EXCEPT ![p] = [ChunkIdle EXCEPT !.pc = "hash", !.hash = hash]]
      BY <1>5 DEF CompleteCheck
    <2>2. chunk'[p].pc = "hash" /\ \A q \in Writers \ {p} : chunk'[q] = chunk[q]
      BY <2>1 DEF Typed, ChunkTypeOK, ChunkIdle
    <2>3. QED
      BY <1>5, <2>2 DEF CompleteCheck
  <1>6. CASE CompleteHash(p)
    BY <1>6, Moves DEF CompleteHash, ChunkPCs
  <1>7. QED
    BY <1>1, <1>2, <1>3, <1>4, <1>5, <1>6 DEF Quiet

(* A step of one request, to r, that forgets no incarnation.               *)
LEMMA HandStep ==
  ASSUME Typed, NEW p \in Writers, NEW r \in ChunkRequest, InHand(r)',
         chunk' = [chunk EXCEPT ![p] = r], born \subseteq born'
  PROVE  chunk' \in [Writers -> ChunkRequest] /\ \A q \in Writers : InHand(chunk[q])'
  BY DEF Typed, ChunkTypeOK, InHand

LEMMA IdleHand == ChunkIdle \in ChunkRequest /\ InHand(ChunkIdle)'
  BY FileFacts DEF ChunkIdle, ChunkRequest, ChunkPCs, InHand

LEMMA HashHand ==
  ASSUME NEW hash \in BOOLEAN
  PROVE  /\ [ChunkIdle EXCEPT !.pc = "hash", !.hash = hash] \in ChunkRequest
         /\ [ChunkIdle EXCEPT !.pc = "hash", !.hash = hash].pc = "hash"
  <1>1. [ChunkIdle EXCEPT !.pc = "hash", !.hash = hash] \in ChunkRequest
    BY IdleHand DEF ChunkRequest, ChunkPCs
  <1>2. [ChunkIdle EXCEPT !.pc = "hash", !.hash = hash].pc = "hash"
    BY DEF ChunkIdle
  <1>3. QED
    BY <1>1, <1>2

LEMMA TypedInit == ChunkInit => Typed
  <1> SUFFICES ASSUME ChunkInit PROVE Typed
    OBVIOUS
  <1>1. chunk \in [Writers -> ChunkRequest] /\ \A p \in Writers : InHand(chunk[p])
    BY FileFacts DEF ChunkInit, ChunkIdle, ChunkRequest, ChunkPCs, InHand
  <1>2. disk \in [Inodes -> Seq(Data)] /\ \A n \in Inodes : disk[n] = <<>>
    BY DEF ChunkInit
  <1>3. QED
    BY <1>1, <1>2, FS_EmptySet DEF ChunkInit, Typed, ChunkTypeOK, Data

(* The steps of requests that make no file and write nothing.              *)
LEMMA TypedQuiet ==
  ASSUME Typed, NEW p \in Writers,
         InitStart(p) \/ ChunkStart(p) \/ ChunkCheck(p) \/ ChunkAbort(p) \/ CompleteCheck(p) \/ CompleteHash(p)
  PROVE  Typed'
  <1> USE FileFacts DEF ChunkRequest, ChunkPCs, ChunkIdle
  <1>1. chunk[p] \in ChunkRequest /\ InHand(chunk[p])
    BY DEF Typed, ChunkTypeOK
  <1>2. /\ UNCHANGED <<part, disk, saved, born, acked>>
        /\ dir' \in BOOLEAN /\ meta' \in BOOLEAN /\ serial' \in BOOLEAN
    BY DEF Typed, ChunkTypeOK, InitStart, ChunkStart, ChunkCheck, ChunkAbort, CompleteCheck, CompleteHash
  <1>3. ASSUME NEW r \in ChunkRequest, InHand(r), chunk' = [chunk EXCEPT ![p] = r]
        PROVE  Typed'
    <2>1. chunk' \in [Writers -> ChunkRequest] /\ \A q \in Writers : InHand(chunk[q])'
      BY <1>2, <1>3, HandStep DEF InHand
    <2>2. QED
      BY <1>2, <2>1 DEF Typed, ChunkTypeOK
  <1>4. CASE InitStart(p)
    BY <1>1, <1>3, <1>4 DEF InitStart, GoTo, InHand
  <1>5. CASE ChunkStart(p)
    <2>1. PICK from, to \in 0 .. Size :
            /\ from < to
            /\ chunk' = [chunk EXCEPT ![p] = [ChunkIdle EXCEPT !.pc = "check",
                            !.from = from, !.pos = from, !.to = to]]
      BY <1>5 DEF ChunkStart
    <2> DEFINE r == [ChunkIdle EXCEPT !.pc = "check", !.from = from, !.pos = from, !.to = to]
    <2>2. r \in ChunkRequest /\ InHand(r)
      BY <2>1 DEF InHand
    <2>3. chunk' = [chunk EXCEPT ![p] = r]
      BY <2>1
    <2> HIDE DEF r
    <2>4. QED
      BY <1>3, <2>2, <2>3
  <1>6. CASE ChunkCheck(p)
    BY <1>1, <1>3, <1>6, IdleHand DEF ChunkCheck, GoTo, Reply, InHand
  <1>7. CASE ChunkAbort(p)
    BY <1>3, <1>7, IdleHand DEF ChunkAbort, Reply, InHand
  <1>8. CASE CompleteCheck(p)
    <2>1. PICK hash \in BOOLEAN :
            chunk' = [chunk EXCEPT ![p] = [ChunkIdle EXCEPT !.pc = "hash", !.hash = hash]]
      BY <1>8 DEF CompleteCheck
    <2> DEFINE r == [ChunkIdle EXCEPT !.pc = "hash", !.hash = hash]
    <2>2. r \in ChunkRequest /\ r.pc = "hash"
      BY HashHand
    <2>3. chunk' = [chunk EXCEPT ![p] = r]
      BY <2>1
    <2> HIDE DEF r
    <2>4. QED
      BY <1>3, <2>2, <2>3 DEF InHand
  <1>9. CASE CompleteHash(p)
    BY <1>1, <1>3, <1>9, IdleHand DEF CompleteHash, GoTo, Reply, InHand
  <1>10. QED
    BY <1>4, <1>5, <1>6, <1>7, <1>8, <1>9

(* The steps that may make a file.                                         *)
LEMMA TypedOpen ==
  ASSUME Typed, NEW p \in Writers, InitNew(p) \/ ChunkOpen(p)
  PROVE  Typed'
  <1> USE FileFacts DEF ChunkRequest, ChunkPCs, ChunkIdle
  <1>1. chunk[p] \in ChunkRequest /\ InHand(chunk[p])
    BY DEF Typed, ChunkTypeOK
  <1>2. /\ UNCHANGED <<dir, disk, saved, acked, serial>>
        /\ meta' \in BOOLEAN
        /\ \/ \E n \in Inodes : OpenAppend(n)
           \/ UNCHANGED <<part, born>>
    BY DEF Typed, ChunkTypeOK, InitNew, ChunkOpen
  <1>3. /\ part' \in born' \cup {NoInode}
        /\ part' \notin saved'
        /\ born \subseteq born' /\ born' \subseteq Inodes /\ IsFiniteSet(born')
    BY <1>2, OpenFacts DEF Typed, ChunkTypeOK
  <1>4. PICK r \in ChunkRequest : InHand(r)' /\ chunk' = [chunk EXCEPT ![p] = r]
    <2>1. ASSUME NEW n \in Inodes, OpenAppend(n), chunk[p].pc = "open",
                 chunk' = [chunk EXCEPT ![p].pc = "append", ![p].fd = n]
          PROVE  \E r \in ChunkRequest : InHand(r)' /\ chunk' = [chunk EXCEPT ![p] = r]
      <3>1. PICK r \in ChunkRequest : r = [chunk[p] EXCEPT !.pc = "append", !.fd = n]
        BY <1>1
      <3>2. InHand(r)'
        BY <1>1, <2>1, <3>1, OpenFacts DEF InHand
      <3>3. chunk' = [chunk EXCEPT ![p] = r]
        BY <2>1, <3>1 DEF Typed, ChunkTypeOK
      <3>4. QED
        BY <3>2, <3>3
    <2>2. CASE Reply(p)
      BY <2>2, IdleHand DEF Reply
    <2>3. QED
      BY <2>1, <2>2 DEF InitNew, ChunkOpen
  <1>5. chunk' \in [Writers -> ChunkRequest] /\ \A q \in Writers : InHand(chunk[q])'
    BY <1>3, <1>4, HandStep
  <1>6. QED
    BY <1>2, <1>3, <1>5 DEF Typed, ChunkTypeOK

LEMMA TypedAppend ==
  ASSUME Typed, NEW p \in Writers, ChunkAppend(p)
  PROVE  /\ Typed'
         /\ chunk[p].fd \in born /\ chunk[p].pos + 1 \in 1 .. Size
         /\ disk' = [disk EXCEPT ![chunk[p].fd] = Append(@, File[chunk[p].pos + 1])]
  <1>1. /\ chunk[p] \in ChunkRequest /\ InHand(chunk[p]) /\ born \subseteq Inodes
        /\ chunk[p].pc = "append" /\ chunk[p].pos < chunk[p].to
    BY DEF Typed, ChunkTypeOK, ChunkAppend
  <1>2. /\ chunk[p].fd \in born /\ chunk[p].pos + 1 \in 1 .. Size
        /\ disk' = [disk EXCEPT ![chunk[p].fd] = Append(@, File[chunk[p].pos + 1])]
    BY <1>1, FileFacts DEF ChunkAppend, InHand, ChunkRequest
  <1>3. disk' \in [Inodes -> Seq(Data)] /\ \A n \in Inodes \ born : disk'[n] = <<>>
    BY <1>1, <1>2, FileFacts DEF Typed
  <1>4. PICK r \in ChunkRequest : r = [chunk[p] EXCEPT !.pos = chunk[p].pos + 1]
    <2>1. [chunk[p] EXCEPT !.pos = chunk[p].pos + 1] \in ChunkRequest
      BY <1>1, <1>2, FileFacts DEF ChunkRequest
    <2>2. QED
      BY <2>1
  <1>5. InHand(r)'
    BY <1>1, <1>4, FileFacts DEF InHand, ChunkRequest, ChunkAppend
  <1>6. chunk' = [chunk EXCEPT ![p] = r]
    BY <1>4 DEF ChunkAppend
  <1>7. chunk' \in [Writers -> ChunkRequest] /\ \A q \in Writers : InHand(chunk[q])'
    BY <1>5, <1>6, HandStep DEF ChunkAppend
  <1>8. QED
    BY <1>2, <1>3, <1>7 DEF Typed, ChunkTypeOK, ChunkAppend, Data

(* What is answered with 200 has reached the name's file.                  *)
LEMMA TypedConfirm ==
  ASSUME Typed, NEW p \in Writers, ChunkConfirm(p)
  PROVE  /\ Typed'
         /\ Alone(chunk[p]) => part \in born /\ Len(disk[part]) = chunk[p].to
  <1>1. chunk[p] \in ChunkRequest /\ InHand(chunk[p]) /\ chunk[p].pc = "append"
    BY DEF Typed, ChunkTypeOK, ChunkConfirm
  <1>2. Alone(chunk[p]) => part \in born /\ Len(disk[part]) = chunk[p].to
    BY <1>1, Received, FileFacts DEF Alone, InHand, ChunkRequest
  <1>3. acked' \subseteq Inodes \X (0 .. Size) \X (0 .. Size)
    BY <1>1, <1>2 DEF ChunkConfirm, ChunkRequest, Typed, ChunkTypeOK
  <1>4. chunk' \in [Writers -> ChunkRequest] /\ \A q \in Writers : InHand(chunk[q])'
    BY HandStep, IdleHand DEF ChunkConfirm, Reply
  <1>5. QED
    BY <1>2, <1>3, <1>4 DEF Typed, ChunkTypeOK, ChunkConfirm

LEMMA TypedPlace ==
  ASSUME Typed, NEW p \in Writers, CompletePlace(p)
  PROVE  /\ Typed'
         /\ saved' # saved => part \in born /\ Len(disk[part]) = Size /\ saved' = saved \cup {part}
  <1>1. AllReceived => part \in born /\ Len(disk[part]) = Size
    BY Received, FileFacts DEF AllReceived
  <1>2. chunk' \in [Writers -> ChunkRequest] /\ \A q \in Writers : InHand(chunk[q])'
    BY HandStep, IdleHand DEF CompletePlace, Reply
  <1>3. NoInode \notin saved'
    BY <1>1, ChunkAssumption DEF Typed, ChunkTypeOK, CompletePlace
  <1>4. QED
    BY <1>1, <1>2, <1>3 DEF Typed, ChunkTypeOK, CompletePlace

LEMMA TypedElse ==
  ASSUME Typed, RemoveAll \/ Restart
  PROVE  Typed'
  <1>1. CASE RemoveAll
    BY <1>1, ChunkAssumption DEF RemoveAll, Typed, ChunkTypeOK, InHand
  <1>2. CASE Restart
    BY <1>2, IdleHand DEF Restart, Typed, ChunkTypeOK, InHand, ChunkIdle
  <1>3. QED
    BY <1>1, <1>2

-----------------------------------------------------------------------------
(* One body at a time.  The steps that write nothing.                      *)
LEMMA AlternatingKept ==
  ASSUME Alternating, NEW p \in Writers,
         \A q \in Writers \ {p} : chunk'[q] = chunk[q],
         disk' = disk, serial' => serial,
         \A n \in saved' \ saved : Len(disk[n]) = Size,
         serial' /\ chunk'[p].pc \in Body => chunk[p].pc \in Body \/ ~BodyInHand,
         serial' /\ chunk'[p].pc = "open" /\ dir' => chunk'[p].from = sessReceived',
         serial' /\ chunk'[p].pc = "append" => Len(disk[chunk'[p].fd]) = chunk'[p].pos,
         serial' /\ dir' => (dir /\ sessReceived' = sessReceived) \/ ~BodyInHand
  PROVE  Alternating'
  BY DEF Alternating, Body, BodyInHand

LEMMA AlternatingQuiet ==
  ASSUME Typed, Alternating, NEW p \in Writers, Quiet(p)
  PROVE  Alternating'
  <1>1. sessReceived' = sessReceived
    BY QuietSteps DEF sessReceived
  <1>2. /\ disk' = disk /\ saved' = saved
        /\ \A q \in Writers \ {p} : chunk'[q] = chunk[q]
    BY QuietSteps
  <1>3. CASE chunk'[p].pc # "open" /\ dir' = dir /\ serial' = serial
    BY <1>1, <1>2, <1>3, QuietSteps, AlternatingKept DEF Body
  <1>4. CASE /\ serial' = (serial /\ ~BodyInHand)
             /\ chunk'[p].pc = "open" => dir' = dir /\ chunk'[p].from = sessReceived
    <2>1. serial' => serial /\ ~BodyInHand
      BY <1>4
    <2>2. QED
      BY <1>1, <1>2, <1>4, <2>1, QuietSteps, AlternatingKept DEF Body
  <1>5. QED
    BY <1>3, <1>4, QuietSteps

LEMMA AlternatingOpen ==
  ASSUME Typed, Alternating, NEW p \in Writers, InitNew(p) \/ ChunkOpen(p)
  PROVE  Alternating'
  <1>1. /\ \A q \in Writers \ {p} : chunk'[q] = chunk[q]
        /\ UNCHANGED <<dir, disk, saved, serial>>
    BY DEF Typed, ChunkTypeOK, InitNew, ChunkOpen, Reply
  <1>2. sessReceived' = sessReceived
    <2>1. ASSUME NEW n \in Inodes, OpenAppend(n) PROVE sessReceived' = sessReceived
      BY <1>1, <2>1, OpenFacts, ChunkAssumption DEF sessReceived
    <2>2. CASE UNCHANGED part
      BY <1>1, <2>2 DEF sessReceived
    <2>3. QED
      BY <2>1, <2>2 DEF InitNew, ChunkOpen
  <1>3. /\ chunk'[p].pc # "open"
        /\ chunk'[p].pc = "append" => chunk[p].pc = "open"
        /\ serial /\ chunk'[p].pc = "append" => Len(disk[chunk'[p].fd]) = chunk'[p].pos
    <2>1. ASSUME NEW n \in Inodes, OpenAppend(n), chunk[p].pc = "open",
                 chunk' = [chunk EXCEPT ![p].pc = "append", ![p].fd = n]
          PROVE  /\ chunk'[p].pc = "append"
                 /\ serial => Len(disk[chunk'[p].fd]) = chunk'[p].pos
      BY <2>1, OpenFacts DEF Typed, ChunkTypeOK, ChunkRequest, InHand, Alternating
    <2>2. CASE Reply(p)
      BY <2>2 DEF Reply, Typed, ChunkTypeOK, ChunkIdle
    <2>3. QED
      BY <2>1, <2>2 DEF InitNew, ChunkOpen
  <1>4. QED
    BY <1>1, <1>2, <1>3, AlternatingKept DEF Body

(* The only body in hand adds the next unit of the file.                   *)
LEMMA AlternatingAppend ==
  ASSUME Typed, Alternating, NEW p \in Writers, ChunkAppend(p)
  PROVE  Alternating'
  <1> SUFFICES ASSUME serial PROVE Alternating'
    BY DEF Alternating, ChunkAppend
  <1> DEFINE n == chunk[p].fd
             d == File[chunk[p].pos + 1]
  <1>1. /\ n \in born /\ n \in Inodes /\ chunk[p].pos \in Nat /\ chunk[p].pos + 1 \in 1 .. Size
        /\ disk[n] \in Seq(Data) /\ d \in Data
        /\ chunk[p].pc = "append" /\ Len(disk[n]) = chunk[p].pos
        /\ disk' = [disk EXCEPT ![n] = Append(disk[n], d)]
    <2>0. chunk[p] \in ChunkRequest /\ chunk[p].pc = "append" /\ born \subseteq Inodes
      BY DEF Typed, ChunkTypeOK, ChunkAppend
    <2>1. /\ n \in born /\ n \in Inodes /\ disk[n] \in Seq(Data)
          /\ chunk[p].pos \in Nat /\ chunk[p].pc = "append"
      BY <2>0, TypedAppend, FileFacts DEF Typed, ChunkRequest
    <2>2. Len(disk[n]) = chunk[p].pos
      BY <2>1 DEF Alternating
    <2>3. QED
      BY <2>1, <2>2, TypedAppend, FileFacts
  <1>2. /\ \A q \in Writers \ {p} : chunk'[q] = chunk[q] /\ chunk[q].pc \notin Body
        /\ chunk'[p].pc = "append" /\ chunk'[p].fd = n /\ chunk'[p].pos = chunk[p].pos + 1
        /\ UNCHANGED <<dir, saved>>
    BY <1>1 DEF Typed, ChunkTypeOK, ChunkRequest, ChunkAppend, Alternating, Body
  <1>i. chunk[p].fd = n /\ File[chunk[p].pos + 1] = d
    OBVIOUS
  <1> HIDE DEF n, d
  <1>3. /\ disk'[n] = Append(disk[n], d) /\ Len(disk'[n]) = chunk[p].pos + 1
        /\ \A m \in Inodes \ {n} : disk'[m] = disk[m]
    BY <1>1, AppendKeeps DEF Typed
  <1>4. Begins(disk'[n])
    <2>1. Begins(disk[n])
      BY <1>1 DEF Alternating
    <2>2. Holds(disk'[n], 0, Len(disk[n])) /\ disk'[n][Len(disk[n]) + 1] = d
      BY <1>1, <1>3, <2>1, AppendKeeps DEF Begins
    <2>3. QED
      BY <1>1, <1>3, <1>i, <2>2, FileFacts DEF Begins, Holds
  <1>5. n \notin saved
    BY <1>1, FileFacts DEF Alternating
  <1>6. \A m \in Inodes : Begins(disk'[m])
    BY <1>3, <1>4 DEF Alternating
  <1>7. \A m \in saved' : Len(disk'[m]) = Size
    BY <1>2, <1>3, <1>5 DEF Alternating, Typed, ChunkTypeOK
  <1>8. QED
    BY <1>2, <1>3, <1>6, <1>7 DEF Alternating, Body

LEMMA AlternatingPlace ==
  ASSUME Typed, Alternating, NEW p \in Writers, CompletePlace(p)
  PROVE  Alternating'
  <1>1. /\ \A q \in Writers \ {p} : chunk'[q] = chunk[q]
        /\ chunk'[p].pc = "idle"
        /\ UNCHANGED <<disk, serial>>
        /\ dir' => dir /\ part' = part
    BY DEF Typed, ChunkTypeOK, CompletePlace, Reply, ChunkIdle
  <1>2. \A n \in saved' \ saved : Len(disk[n]) = Size
    BY TypedPlace
  <1>3. dir' => sessReceived' = sessReceived
    BY <1>1 DEF sessReceived
  <1>4. QED
    BY <1>1, <1>2, <1>3, AlternatingKept DEF Body

LEMMA AlternatingElse ==
  ASSUME Typed, Alternating, RemoveAll \/ Restart
  PROVE  Alternating'
  <1>1. CASE RemoveAll
    BY <1>1 DEF RemoveAll, Alternating
  <1>2. CASE Restart
    <2>1. \A p \in Writers : chunk'[p].pc = "idle"
      BY <1>2 DEF Restart, ChunkIdle
    <2>2. QED
      BY <1>2, <2>1 DEF Restart, Alternating, Body
  <1>3. QED
    BY <1>1, <1>2

-----------------------------------------------------------------------------
(* Overlapping bodies.                                                     *)
LEMMA OverlappingKept ==
  ASSUME Overlapping, NEW p \in Writers,
         \A q \in Writers \ {p} : chunk'[q] = chunk[q],
         disk' = disk, born \subseteq born', Behind(chunk[p])'
  PROVE  Overlapping'
  BY DEF Overlapping, Behind, OneLife

LEMMA OverlappingQuiet ==
  ASSUME Typed, Overlapping, NEW p \in Writers, Quiet(p) \/ InitNew(p) \/ CompletePlace(p)
  PROVE  Overlapping'
  <1>1. CASE Quiet(p)
    <2>1. Behind(chunk[p])'
      BY <1>1, QuietSteps, Received DEF Behind
    <2>2. QED
      BY <1>1, <2>1, QuietSteps, OverlappingKept
  <1>2. CASE InitNew(p) \/ CompletePlace(p)
    <2>1. disk' = disk /\ born \subseteq born' /\ Reply(p)
      BY <1>2 DEF InitNew, CompletePlace, OpenAppend
    <2>2. QED
      BY <2>1, Moves, OverlappingKept DEF Behind
  <1>3. QED
    BY <1>1, <1>2

LEMMA OverlappingOpen ==
  ASSUME Typed, Overlapping, NEW p \in Writers, ChunkOpen(p)
  PROVE  Overlapping'
  <1>1. /\ \A q \in Writers \ {p} : chunk'[q] = chunk[q]
        /\ disk' = disk /\ born \subseteq born'
    BY DEF Typed, ChunkTypeOK, ChunkOpen, Reply, OpenAppend
  <1>2. CASE Reply(p)
    BY <1>1, <1>2, OverlappingKept DEF Reply, Behind, ChunkIdle, Typed, ChunkTypeOK
  <1>3. ASSUME NEW n \in Inodes, OpenAppend(n), chunk[p].pc = "open",
               chunk' = [chunk EXCEPT ![p].pc = "append", ![p].fd = n], OneLife'
        PROVE  /\ chunk'[p].pos <= Len(disk[n])
               /\ Holds(disk[n], chunk'[p].from, chunk'[p].pos)
    <2>1. /\ chunk'[p].from = chunk[p].from /\ chunk'[p].pos = chunk[p].from
          /\ chunk[p].from \in Nat /\ Len(disk[n]) \in Nat
      BY <1>3, FileFacts DEF Typed, ChunkTypeOK, ChunkRequest, InHand
    <2>2. n \in born' /\ born \subseteq born'
      BY <1>3, OpenFacts
    <2>3. chunk[p].from <= Len(disk[n])
      BY <1>3, <2>1, <2>2 DEF Overlapping, Behind, OneLife
    <2>4. QED
      BY <2>1, <2>3 DEF Holds
  <1>4. ASSUME NEW n \in Inodes, OpenAppend(n), chunk[p].pc = "open",
               chunk' = [chunk EXCEPT ![p].pc = "append", ![p].fd = n]
        PROVE  Overlapping'
    <2>1. chunk'[p].pc = "append" /\ chunk'[p].fd = n
      BY <1>4 DEF Typed, ChunkTypeOK, ChunkRequest
    <2>2. Behind(chunk[p])'
      BY <1>1, <1>3, <1>4, <2>1 DEF Behind
    <2>3. QED
      BY <1>1, <2>2, OverlappingKept
  <1>5. QED
    BY <1>2, <1>4 DEF ChunkOpen

LEMMA OverlappingAppend ==
  ASSUME Typed, Overlapping, NEW p \in Writers, ChunkAppend(p)
  PROVE  Overlapping'
  <1> DEFINE n == chunk[p].fd
             d == File[chunk[p].pos + 1]
  <1>1. /\ n \in born /\ n \in Inodes /\ chunk[p].pos \in Nat /\ chunk[p].from \in Nat
        /\ chunk[p].from <= chunk[p].pos
        /\ disk[n] \in Seq(Data) /\ d \in Data /\ chunk[p].pc = "append"
        /\ disk' = [disk EXCEPT ![n] = Append(disk[n], d)]
    <2>1. chunk[p] \in ChunkRequest /\ InHand(chunk[p]) /\ chunk[p].pc = "append"
      BY DEF Typed, ChunkTypeOK, ChunkAppend
    <2>2. /\ chunk[p].pos \in Nat /\ chunk[p].from \in Nat
          /\ chunk[p].from <= chunk[p].pos
      BY <2>1 DEF ChunkRequest, InHand
    <2>3. n \in born /\ n \in Inodes /\ disk[n] \in Seq(Data)
      BY TypedAppend DEF Typed, ChunkTypeOK
    <2>4. d \in Data
      BY TypedAppend, FileFacts
    <2>5. disk' = [disk EXCEPT ![n] = Append(disk[n], d)]
      BY TypedAppend
    <2>6. QED
      BY <2>1, <2>2, <2>3, <2>4, <2>5
  <1>2. /\ \A q \in Writers \ {p} : chunk'[q] = chunk[q]
        /\ chunk'[p] = [chunk[p] EXCEPT !.pos = chunk[p].pos + 1]
        /\ born' = born
    BY DEF Typed, ChunkTypeOK, ChunkAppend
  <1>3. /\ disk'[n] = Append(disk[n], d) /\ Len(disk'[n]) = Len(disk[n]) + 1
        /\ disk'[n][Len(disk[n]) + 1] = d
        /\ \A m \in Inodes \ {n} : disk'[m] = disk[m]
    BY <1>1, AppendKeeps DEF Typed
  <1>4. \A m \in Inodes : Len(disk[m]) \in Nat /\ Len(disk[m]) <= Len(disk'[m])
    BY <1>1, <1>3 DEF Typed
  <1>5. ASSUME OneLife
        PROVE  /\ chunk[p].pos + 1 <= Len(disk'[n])
               /\ chunk[p].pos + 1 = Len(disk'[n]) => Holds(disk'[n], chunk[p].from, chunk[p].pos + 1)
    <2>1. /\ chunk[p].pos <= Len(disk[n])
          /\ chunk[p].pos = Len(disk[n]) => Holds(disk[n], chunk[p].from, chunk[p].pos)
      BY <1>1, <1>5 DEF Overlapping, Behind
    <2>2. ASSUME chunk[p].pos = Len(disk[n])
          PROVE  Holds(disk'[n], chunk[p].from, chunk[p].pos + 1)
      <3>1. Holds(disk'[n], chunk[p].from, chunk[p].pos)
        BY <1>1, <1>3, <2>1, <2>2, AppendKeeps
      <3>2. QED
        BY <1>1, <1>3, <2>2, <3>1 DEF Holds
    <2>3. QED
      BY <1>1, <1>3, <1>4, <2>1, <2>2
  <1>6. Behind(chunk[p])'
    <2>1. /\ chunk'[p].pc = "append" /\ chunk'[p].fd = n /\ chunk'[p].from = chunk[p].from
          /\ chunk'[p].pos = chunk[p].pos + 1
      BY <1>1, <1>2 DEF Typed, ChunkTypeOK, ChunkRequest
    <2> HIDE DEF n, d
    <2>2. QED
      BY <1>2, <1>5, <2>1 DEF Behind, OneLife
  <1>7. ASSUME NEW q \in Writers \ {p}
        PROVE  Behind(chunk[q])'
    <2>1. Behind(chunk[q]) /\ chunk'[q] = chunk[q]
      BY <1>2 DEF Overlapping
    <2>2. chunk[q].from \in Nat /\ chunk[q].pos \in Nat
      BY FileFacts DEF Typed, ChunkTypeOK, ChunkRequest
    <2>3. chunk[q].pc = "open" => Behind(chunk[q])'
      BY <1>2, <1>4, <2>1, <2>2 DEF Behind, Typed, ChunkTypeOK
    <2>4. ASSUME chunk[q].pc = "append", OneLife
          PROVE  /\ chunk[q].pos <= Len(disk'[chunk[q].fd])
                 /\ chunk[q].pos = Len(disk'[chunk[q].fd]) =>
                      Holds(disk'[chunk[q].fd], chunk[q].from, chunk[q].pos)
      <3>1. chunk[q].fd = n
        BY <1>1, <2>4 DEF Typed, InHand, OneLife
      <3>2. chunk[q].pos <= Len(disk[n])
        BY <2>1, <2>4, <3>1 DEF Behind
      <3>3. QED
        BY <1>3, <1>4, <1>1, <2>2, <3>1, <3>2
    <2>5. QED
      BY <1>2, <2>1, <2>3, <2>4 DEF Behind, OneLife
  <1>8. QED
    BY <1>6, <1>7 DEF Overlapping

LEMMA OverlappingElse ==
  ASSUME Overlapping, RemoveAll \/ Restart
  PROVE  Overlapping'
  BY DEF RemoveAll, Restart, Overlapping, Behind, ChunkIdle, OneLife

-----------------------------------------------------------------------------
(* What was answered stays where it is: files only grow at their ends.     *)
LEMMA AnsweredKept ==
  ASSUME Answered, serial' => serial, born \subseteq born', acked' = acked, disk' = disk
  PROVE  Answered'
  BY DEF Answered, OneLife

LEMMA AnsweredAppend ==
  ASSUME Typed, Answered, NEW p \in Writers, ChunkAppend(p)
  PROVE  Answered'
  <1> DEFINE n == chunk[p].fd
             d == File[chunk[p].pos + 1]
  <1>1. /\ n \in born /\ n \in Inodes /\ disk[n] \in Seq(Data) /\ d \in Data
        /\ disk' = [disk EXCEPT ![n] = Append(disk[n], d)]
    BY TypedAppend, FileFacts DEF Typed, ChunkTypeOK
  <1>2. UNCHANGED <<serial, born, acked>>
    BY DEF ChunkAppend
  <1> HIDE DEF n, d
  <1>3. SUFFICES ASSUME serial \/ OneLife, NEW a \in acked
                 PROVE  /\ a[3] <= Len(disk'[a[1]])
                        /\ Holds(disk'[a[1]], a[2], a[3])
    BY <1>2 DEF Answered, OneLife
  <1>4. /\ a[1] \in born /\ a[3] <= Len(disk[a[1]]) /\ Holds(disk[a[1]], a[2], a[3])
        /\ a[1] \in Inodes /\ a[2] \in Nat /\ a[3] \in Nat
    BY <1>3, FileFacts DEF Answered, Typed, ChunkTypeOK
  <1>5. CASE a[1] = n
    BY <1>1, <1>4, <1>5, AppendKeeps DEF Typed
  <1>6. CASE a[1] # n
    BY <1>1, <1>4, <1>6 DEF Typed
  <1>7. QED
    BY <1>5, <1>6

(* The guard after the last byte sees that the chunk is there.             *)
LEMMA AnsweredConfirm ==
  ASSUME Typed, Alternating, Overlapping, Answered, NEW p \in Writers, ChunkConfirm(p)
  PROVE  Answered'
  <1> DEFINE r == chunk[p]
  <1>1. UNCHANGED <<serial, born, disk>>
    BY DEF ChunkConfirm
  <1>2. CASE ~Alone(r)
    BY <1>1, <1>2, AnsweredKept DEF ChunkConfirm
  <1>3. CASE Alone(r)
    <2>1. /\ part \in born /\ Len(disk[part]) = r.to /\ acked' = acked \cup {<<part, r.from, r.to>>}
          /\ part \in Inodes
      BY <1>3, TypedConfirm DEF ChunkConfirm, Typed, ChunkTypeOK
    <2>2. r.pc = "append" /\ r.pos = r.to /\ r.fd \in born /\ r.from \in Nat /\ r.to \in Nat
      BY FileFacts DEF ChunkConfirm, Typed, ChunkTypeOK, ChunkRequest, InHand
    <2>3. ASSUME serial PROVE Holds(disk[part], r.from, r.to)
      <3>1. Holds(disk[part], 0, r.to)
        BY <2>1, <2>3 DEF Alternating, Begins
      <3>2. QED
        BY <2>2, <3>1 DEF Holds
    <2>4. ASSUME OneLife PROVE Holds(disk[part], r.from, r.to)
      <3>1. r.fd = part
        BY <2>1, <2>2, <2>4 DEF OneLife
      <3>2. QED
        BY <2>1, <2>2, <2>4, <3>1 DEF Overlapping, Behind
    <2> HIDE DEF r
    <2>5. QED
      BY <1>1, <2>1, <2>2, <2>3, <2>4 DEF Answered, OneLife
  <1>4. QED
    BY <1>2, <1>3

-----------------------------------------------------------------------------
LEMMA ChunkFirst == ChunkInit => ChunkIInv
  <1> SUFFICES ASSUME ChunkInit PROVE ChunkIInv
    OBVIOUS
  <1>1. Typed
    BY TypedInit
  <1>2. /\ \A p \in Writers : chunk[p].pc = "idle"
        /\ \A n \in Inodes : Len(disk[n]) = 0
        /\ saved = {} /\ acked = {}
    BY DEF ChunkInit, ChunkIdle
  <1>3. \A n \in Inodes : Begins(disk[n])
    BY <1>2, FileFacts DEF Begins, Holds
  <1>4. QED
    BY <1>1, <1>2, <1>3 DEF ChunkIInv, Alternating, Body, Overlapping, Behind, Answered

LEMMA ChunkStep == ChunkIInv /\ [ChunkNext]_chunkvars => ChunkIInv'
  <1> SUFFICES ASSUME ChunkIInv, [ChunkNext]_chunkvars PROVE ChunkIInv'
    OBVIOUS
  <1>i. Typed /\ Alternating /\ Overlapping /\ Answered
    BY DEF ChunkIInv
  <1>1. ASSUME NEW p \in Writers, Quiet(p) PROVE ChunkIInv'
    <2>1. Typed'
      BY <1>i, <1>1, TypedQuiet, TypedConfirm DEF Quiet
    <2>2. CASE ChunkConfirm(p)
      BY <1>i, <1>1, <2>1, <2>2, AlternatingQuiet, OverlappingQuiet, AnsweredConfirm DEF ChunkIInv
    <2>3. CASE ~ChunkConfirm(p)
      <3>1. acked' = acked
        BY <1>1, <2>3 DEF Quiet, InitStart, ChunkStart, ChunkCheck, ChunkAbort, CompleteCheck, CompleteHash
      <3>2. born' = born /\ disk' = disk /\ (serial' => serial)
        BY <1>i, <1>1, QuietSteps
      <3>3. Answered'
        BY <1>i, <3>1, <3>2, AnsweredKept
      <3>4. QED
        BY <1>i, <1>1, <2>1, <3>3, AlternatingQuiet, OverlappingQuiet DEF ChunkIInv
    <2>4. QED
      BY <2>2, <2>3
  <1>2. ASSUME NEW p \in Writers, InitNew(p) \/ ChunkOpen(p) PROVE ChunkIInv'
    <2>1. Typed' /\ Alternating' /\ Overlapping'
      BY <1>i, <1>2, TypedOpen, AlternatingOpen, OverlappingQuiet, OverlappingOpen
    <2>2. Answered'
      BY <1>i, <1>2, AnsweredKept DEF InitNew, ChunkOpen, OpenAppend
    <2>3. QED
      BY <2>1, <2>2 DEF ChunkIInv
  <1>3. ASSUME NEW p \in Writers, ChunkAppend(p) PROVE ChunkIInv'
    BY <1>i, <1>3, TypedAppend, AlternatingAppend, OverlappingAppend, AnsweredAppend DEF ChunkIInv
  <1>4. ASSUME NEW p \in Writers, CompletePlace(p) PROVE ChunkIInv'
    <2>1. Typed' /\ Alternating' /\ Overlapping'
      BY <1>i, <1>4, TypedPlace, AlternatingPlace, OverlappingQuiet
    <2>2. Answered'
      BY <1>i, <1>4, AnsweredKept DEF CompletePlace
    <2>3. QED
      BY <2>1, <2>2 DEF ChunkIInv
  <1>5. ASSUME RemoveAll \/ Restart PROVE ChunkIInv'
    <2>1. Typed' /\ Alternating' /\ Overlapping'
      BY <1>i, <1>5, TypedElse, AlternatingElse, OverlappingElse
    <2>2. Answered'
      BY <1>i, <1>5, AnsweredKept DEF RemoveAll, Restart
    <2>3. QED
      BY <2>1, <2>2 DEF ChunkIInv
  <1>6. CASE UNCHANGED chunkvars
    BY <1>i, <1>6 DEF ChunkIInv, chunkvars, Typed, ChunkTypeOK, InHand, Alternating, BodyInHand,
       sessReceived, Overlapping, Behind, OneLife, Answered
  <1>7. QED
    BY <1>1, <1>2, <1>3, <1>4, <1>5, <1>6 DEF ChunkNext, Quiet

LEMMA ChunkAlways == ChunkSpec => []ChunkIInv
  BY ChunkFirst, ChunkStep, PTL DEF ChunkSpec

(* While clients send one body at a time, whatever they abort, retry or    *)
(* begin again after sweeps and restarts, every data.part is a beginning   *)
(* of the file and what is published is the file.                          *)
THEOREM ChunkCorrect == ChunkSpec => []ChunkInv
  <1>1. ChunkIInv => ChunkInv
    <2> SUFFICES ASSUME ChunkIInv PROVE ChunkInv
      OBVIOUS
    <2>1. Typed /\ Alternating
      BY DEF ChunkIInv
    <2>2. PartIsBeginning
      BY <2>1, Beginning DEF Typed, Alternating, PartIsBeginning
    <2>3. SavedIsFile
      BY <2>1, WholeFile DEF Typed, ChunkTypeOK, Alternating, SavedIsFile
    <2>4. QED
      BY <2>1, <2>2, <2>3 DEF ChunkInv, Typed
  <1>2. QED
    BY <1>1, ChunkAlways, PTL

LEMMA OneIsAlone ==
  ASSUME NEW S, IsFiniteSet(S), Cardinality(S) <= 1
  PROVE  \A m, n \in S : m = n
  <1> SUFFICES ASSUME NEW m \in S, NEW n \in S, m # n PROVE FALSE
    OBVIOUS
  <1>1. IsFiniteSet({m}) /\ Cardinality({m}) = 1
    BY FS_Singleton
  <1>2. Cardinality({m} \cup {n}) = 2
    BY <1>1, FS_AddElement, SMTT(20)
  <1>3. Cardinality({m} \cup {n}) <= Cardinality(S)
    BY FS_Subset
  <1>4. Cardinality(S) \in Nat
    BY FS_CardinalityType
  <1>5. QED
    BY <1>2, <1>3, <1>4

(* A chunk that was answered with 200 lies at its offset, also when bodies *)
(* overlapped, as long as the session had one life.                        *)
THEOREM AckedCorrect == ChunkSpec => []AckedIsStored
  <1>1. ChunkIInv => AckedIsStored
    <2> SUFFICES ASSUME ChunkIInv, serial \/ Cardinality(born) <= 1, NEW a \in acked
                 PROVE  /\ a[1] # NoInode
                        /\ a[3] <= Len(disk[a[1]])
                        /\ SubSeq(disk[a[1]], a[2] + 1, a[3]) = SubSeq(File, a[2] + 1, a[3])
      BY DEF AckedIsStored
    <2>1. Typed /\ Answered
      BY DEF ChunkIInv
    <2>2. serial \/ OneLife
      BY <2>1, OneIsAlone DEF Typed, OneLife
    <2>3. /\ a[1] \in Inodes /\ a[2] \in Nat /\ a[3] \in 0 .. Size
          /\ a[3] <= Len(disk[a[1]]) /\ Holds(disk[a[1]], a[2], a[3])
          /\ disk[a[1]] \in Seq(Data)
      BY <2>1, <2>2, FileFacts DEF Answered, Typed, ChunkTypeOK
    <2>4. a[3] \in Nat /\ a[3] <= Size
      BY <2>3, FileFacts
    <2>5. SubSeq(disk[a[1]], a[2] + 1, a[3]) = SubSeq(File, a[2] + 1, a[3])
      BY <2>3, <2>4, HeldSpan
    <2>6. QED
      BY <2>3, <2>5, ChunkAssumption
  <1>2. QED
    BY <1>1, ChunkAlways, PTL
=============================================================================
