---------------------------- MODULE RelayProofs ----------------------------
(***************************************************************************)
(* The relay, for any number of downloads, polls and posts, any size of    *)
(* the share and any number of slots.  Bookkeeping is the inductive        *)
(* invariant of the tables, the semaphore and the places of the streams;   *)
(* Contents is the one of the bytes and rests on it.                       *)
(***************************************************************************)
EXTENDS Relay, FiniteSetTheorems, TLAPS

LEMMA FileFacts == File \in Seq(Unit) /\ Len(File) = Size /\ \A i \in 1 .. Size : File[i] = i - 1
  BY RelayAssumption DEF File, Unit

-----------------------------------------------------------------------------
Counted == IsFiniteSet(Holding) /\ slots = Cardinality(Holding)

(* Who was asked for has a plan that leaves something to relay.            *)
PlanOK(d) ==
  /\ d \in jobs \cup claimed => pc[d] # "idle" /\ plan[d].relay
  /\ pc[d] = "wait" => plan[d].relay
  /\ plan[d].first <= plan[d].last
  /\ plan[d].relay =>
       /\ plan[d].last \in Unit
       /\ plan[d].offset = Most(plan[d].received, plan[d].first)
       /\ plan[d].offset <= plan[d].last

PieceOK(x) ==
  piece[x].pc # "idle" =>
    /\ piece[x].job \in claimed
    /\ plan[piece[x].job].offset <= piece[x].at
    /\ piece[x].at <= plan[piece[x].job].last + 1
    /\ piece[x].pc = "write" => piece[x].at <= plan[piece[x].job].last

Bookkeeping ==
  /\ TypeOK
  /\ Counted
  /\ \A d \in Downloads : PlanOK(d)
  /\ \A x \in Pieces : PieceOK(x)
  /\ NoLostWakeup
  /\ ClaimIsServed

USE RelayAssumption

LEMMA HolderCounts ==
  ASSUME TypeOK, Counted, NEW d \in Holding
  PROVE  slots \in 1 .. Slots
  <1>1. Cardinality(Holding) # 0
    BY FS_EmptySet DEF Counted
  <1>2. QED
    BY <1>1 DEF TypeOK, Counted

LEMMA InitBookkeeping == Init => Bookkeeping
  <1> SUFFICES ASSUME Init PROVE Bookkeeping
    OBVIOUS
  <1> USE DEF Init
  <1>1. NoPlan \in Plan /\ NoPlan.first <= NoPlan.last /\ ~NoPlan.relay
    BY DEF NoPlan, Plan, Unit
  <1>2. NoPiece \in Piece /\ NoPiece.pc = "idle"
    BY DEF NoPiece, Piece
  <1>3. retained \in Seq(Unit)
    BY FileFacts DEF Unit
  <1>4. Holding = {}
    BY DEF Holding
  <1>5. Counted
    BY <1>4, FS_EmptySet DEF Counted
  <1>6. TypeOK
    <2>1. plan \in [Downloads -> Plan] /\ piece \in [Pieces -> Piece]
      BY <1>1, <1>2
    <2>2. got \in [Downloads -> Seq(Unit)] /\ offers \in [Polls -> SUBSET Downloads]
      OBVIOUS
    <2>3. managed \in {"none", "placed", "listed"} /\ slots \in 0 .. Slots
      OBVIOUS
    <2>7. sharesDir \in BOOLEAN /\ mixed \in BOOLEAN
      BY Zenon
    <2>4. /\ pc \in [Downloads -> {"idle", "wait", "slot", "send", "tail", "done"}]
          /\ left \in [Downloads -> 0 .. Size]
          /\ poll \in [Polls -> {"idle", "wait"}]
      OBVIOUS
    <2>5. /\ jobs = {} /\ pending = {} /\ waiters = {} /\ claimed = {} /\ ended = {}
          /\ appending = {} /\ signal = {} /\ doubled = {} /\ bereft = {}
      OBVIOUS
    <2> HIDE DEF Init
    <2>6. QED
      BY <1>3, <2>1, <2>2, <2>3, <2>4, <2>5, <2>7 DEF TypeOK
  <1>7. \A d \in Downloads : PlanOK(d)
    BY <1>1 DEF PlanOK
  <1>8. \A x \in Pieces : PieceOK(x)
    BY <1>2 DEF PieceOK
  <1>9. NoLostWakeup /\ ClaimIsServed
    BY DEF NoLostWakeup, ClaimIsServed
  <1>10. QED
    BY <1>5, <1>6, <1>7, <1>8, <1>9 DEF Bookkeeping

-----------------------------------------------------------------------------
(* What a step does to the slots and to those who hold them.               *)
Steady == Holding' = Holding /\ slots' = slots
Takes(d) == d \notin Holding /\ Holding' = Holding \cup {d} /\ slots' = slots + 1
Gives(d) == d \in Holding /\ Holding' = Holding \ {d} /\ slots' = slots - 1

LEMMA FinishGives ==
  ASSUME TypeOK, NEW d \in Downloads, pc[d] \in {"send", "tail"}, Finish(d)
  PROVE  Gives(d)
  BY DEF TypeOK, Finish, Holding, Gives

LEMMA SlotSteps ==
  ASSUME TypeOK, Next
  PROVE  Steady \/ \E d \in Downloads : (Takes(d) /\ slots < Slots) \/ Gives(d)
  <1>1. ASSUME NEW d \in Downloads, serveGuestEntry(d) \/ handleDownload(d)
        PROVE  Steady
    <2>1. pc[d] = "idle" /\ slots' = slots
      BY <1>1 DEF serveGuestEntry, handleDownload
    <2>2. \E s \in {"done", "slot", "wait"} : pc' = [pc EXCEPT ![d] = s]
      BY <1>1 DEF serveGuestEntry, handleDownload, Answered, Disk, serveGuestRelay
    <2>3. QED
      BY <2>1, <2>2 DEF TypeOK, Steady, Holding
  <1>2. ASSUME NEW d \in Downloads, Claimed(d) \/ WaitEnds(d) \/ QueueLeft(d)
        PROVE  Steady
    BY <1>2 DEF TypeOK, Claimed, WaitEnds, QueueLeft, Unqueued, Steady, Holding
  <1>3. ASSUME NEW d \in Downloads, Acquire(d)
        PROVE  Takes(d) /\ slots < Slots
    BY <1>3 DEF TypeOK, Acquire, SlotFree, Takes, Holding
  <1>4. ASSUME NEW d \in Downloads, SendFile(d) \/ TailEnd(d)
        PROVE  Gives(d)
    BY <1>4, FinishGives DEF SendFile, TailEnd
  <1>5. ASSUME NEW d \in Downloads, SendPrefix(d)
        PROVE  Steady
    BY <1>5 DEF TypeOK, SendPrefix, Steady, Holding
  <1>6. ASSUME NEW x \in Pieces, Transfer(x)
        PROVE  Steady \/ \E d \in Downloads : Gives(d)
    <2> DEFINE d == piece[x].job
    <2>1. d \in Downloads /\ pc[d] = "tail"
      BY <1>6 DEF TypeOK, Transfer, Piece
    <2>2. CASE Finish(d)
      BY <2>1, <2>2, FinishGives
    <2>3. CASE UNCHANGED <<pc, slots, appending, tables>>
      BY <2>3 DEF Steady, Holding
    <2>4. QED
      BY <1>6, <2>2, <2>3 DEF Transfer
  <1>7. CASE UNCHANGED downloads
    BY <1>7 DEF downloads, Steady, Holding
  <1>8. ASSUME NEW q \in Polls, RelayNeed(q) \/ NeedEnds(q) \/ Skip(q) \/ \E x \in Pieces : RelayPiece(q, x)
        PROVE  UNCHANGED downloads
    BY <1>8 DEF RelayNeed, NeedEnds, Skip, RelayPiece
  <1>9. ASSUME NEW x \in Pieces, PieceRead(x) \/ PieceEnds(x) \/ PieceRefused(x)
        PROVE  UNCHANGED downloads
    BY <1>9 DEF PieceRead, PieceEnds, PieceRefused
  <1>10. CASE Placed
    BY <1>10 DEF Placed, Steady, Holding
  <1>11. CASE Listed
    BY <1>7, <1>11 DEF Listed
  <1>12. QED
    BY <1>1, <1>2, <1>3, <1>4, <1>5, <1>6, <1>7, <1>8, <1>9, <1>10, <1>11
    DEF Next, Handler, Poster

LEMMA CountedStep ==
  ASSUME TypeOK, Counted, Next
  PROVE  Counted' /\ slots' \in 0 .. Slots
  <1>1. CASE Steady
    BY <1>1 DEF TypeOK, Counted, Steady
  <1>2. ASSUME NEW d \in Downloads, Takes(d), slots < Slots
        PROVE  Counted' /\ slots' \in 0 .. Slots
    <2>1. IsFiniteSet(Holding') /\ Cardinality(Holding') = Cardinality(Holding) + 1
      BY <1>2, FS_AddElement DEF Takes, Counted
    <2>2. QED
      BY <1>2, <2>1 DEF TypeOK, Takes, Counted
  <1>3. ASSUME NEW d \in Downloads, Gives(d)
        PROVE  Counted' /\ slots' \in 0 .. Slots
    <2>1. IsFiniteSet(Holding') /\ Cardinality(Holding') = Cardinality(Holding) - 1
      BY <1>3, FS_RemoveElement DEF Gives, Counted
    <2>2. slots \in 1 .. Slots
      BY <1>3, HolderCounts DEF Gives
    <2>3. QED
      BY <1>3, <2>1, <2>2 DEF Gives, Counted
  <1>4. QED
    BY <1>1, <1>2, <1>3, SlotSteps

-----------------------------------------------------------------------------
LEMMA DiskTyped ==
  ASSUME TypeOK, NEW d \in Downloads, NEW first \in Unit, NEW last \in Nat,
         first <= last, NEW file \in Seq(Unit), last < Len(file), Disk(d, first, last, file)
  PROVE  /\ pc' = [pc EXCEPT ![d] = "slot"]
         /\ plan' \in [Downloads -> Plan]
         /\ \A e \in Downloads : e # d => plan'[e] = plan[e]
         /\ ~plan'[d].relay /\ plan'[d].first = first /\ plan'[d].last = last
         /\ plan'[d].bytes = SubSeq(file, first + 1, last + 1)
         /\ UNCHANGED <<left, tables, signal>>
  <1>0. PICK p : p = [NoPlan EXCEPT !.first = first, !.last = last,
                                    !.bytes = SubSeq(file, first + 1, last + 1)]
    OBVIOUS
  <1>1. /\ p \in Plan
        /\ ~p.relay /\ p.first = first /\ p.last = last
        /\ p.bytes = SubSeq(file, first + 1, last + 1)
    <2>1. SubSeq(file, first + 1, last + 1) \in Seq(Unit)
      BY DEF Unit
    <2>2. QED
      BY <1>0, <2>1 DEF NoPlan, Plan, Unit
  <1>2. /\ plan' = [plan EXCEPT ![d] = p]
        /\ pc' = [pc EXCEPT ![d] = "slot"]
        /\ UNCHANGED <<left, tables, signal>>
    BY <1>0 DEF Disk
  <1>3. QED
    BY <1>1, <1>2 DEF TypeOK

(* What a request that comes in does to the tables of the relay.           *)
Enters(d) ==
  \/ Answered(d)
  \/ \E first \in Unit, last \in Nat :
       /\ first <= last
       /\ \/ \E file \in {File, retained} : last < Len(file) /\ Disk(d, first, last, file)
          \/ /\ last \in Unit
             /\ JobOffset(Len(retained), first) <= last
             /\ serveGuestRelay(d, first, last, Len(retained))

LEMMA EntrySteps ==
  ASSUME TypeOK, NEW d \in Downloads, serveGuestEntry(d) \/ handleDownload(d)
  PROVE  /\ pc[d] = "idle"
         /\ Enters(d)
         /\ UNCHANGED <<share, retained, got, appending, slots, poll, offers, piece, history>>
  <1>1. Unit \subseteq Nat /\ Len(File) = Size /\ Len(retained) \in Nat
    BY FileFacts DEF Unit, TypeOK
  <1>2. CASE handleDownload(d)
    <2>1. PICK first \in Unit : \E last \in Unit : first <= last /\ Disk(d, first, last, File)
      BY <1>2 DEF handleDownload
    <2>2. PICK last \in Unit : first <= last /\ Disk(d, first, last, File)
      BY <2>1
    <2>3. last < Len(File)
      BY <1>1 DEF Unit
    <2>4. Enters(d)
      BY <1>1, <2>2, <2>3 DEF Enters
    <2>5. QED
      BY <1>2, <2>4 DEF handleDownload
  <1>3. CASE serveGuestEntry(d)
    <2> DEFINE received == Len(retained)
    <2>1. CASE Answered(d)
      BY <1>3, <2>1 DEF serveGuestEntry, Enters
    <2>2. ASSUME NEW first \in Unit, NEW last \in Unit, first <= last,
                 serveGuestRelay(d, first, last, received)
          PROVE  Enters(d)
      <3>1. CASE JobOffset(received, first) <= last
        BY <1>1, <2>2, <3>1 DEF Enters
      <3>2. CASE ~(JobOffset(received, first) <= last)
        <4>1. JobOffset(received, first) > last /\ last < received
          BY <1>1, <2>2, <3>2 DEF JobOffset, Most, Unit
        <4>2. Disk(d, first, last, retained)
          BY <2>2, <4>1 DEF serveGuestRelay
        <4>3. QED
          BY <1>1, <2>2, <4>1, <4>2 DEF Enters
      <3>3. QED
        BY <3>1, <3>2
    <2>3. CASE ~Answered(d)
      <3>1. PICK alive \in BOOLEAN, ranged \in BOOLEAN :
              \E first, last \in Unit :
                /\ first <= last
                /\ ~ranged => first = 0 /\ last = Size - 1
                /\ CASE managed = "listed" -> Disk(d, first, last, File)
                     [] managed # "listed" /\ ranged /\ last < received ->
                          Disk(d, first, last, retained)
                     [] managed # "listed" /\ ~(ranged /\ last < received) /\ ~alive ->
                          IF received > 0 /\ ~ranged
                          THEN Disk(d, 0, received - 1, retained)
                          ELSE Answered(d)
                     [] OTHER -> serveGuestRelay(d, first, last, received)
        BY <1>3, <2>3 DEF serveGuestEntry
      <3>2. PICK first \in Unit, last \in Unit :
                /\ first <= last
                /\ CASE managed = "listed" -> Disk(d, first, last, File)
                     [] managed # "listed" /\ ranged /\ last < received ->
                          Disk(d, first, last, retained)
                     [] managed # "listed" /\ ~(ranged /\ last < received) /\ ~alive ->
                          IF received > 0 /\ ~ranged
                          THEN Disk(d, 0, received - 1, retained)
                          ELSE Answered(d)
                     [] OTHER -> serveGuestRelay(d, first, last, received)
        BY <3>1
      <3>3. CASE managed = "listed"
        <4>1. Disk(d, first, last, File) /\ last < Len(File)
          BY <1>1, <3>2, <3>3 DEF Unit
        <4>2. QED
          BY <1>1, <1>3, <3>2, <4>1 DEF Enters, serveGuestEntry
      <3>4. CASE managed # "listed" /\ ranged /\ last < received
        <4>1. Disk(d, first, last, retained)
          BY <3>2, <3>4
        <4>2. QED
          BY <1>1, <1>3, <3>2, <3>4, <4>1 DEF Enters, serveGuestEntry
      <3>5. CASE managed # "listed" /\ ~(ranged /\ last < received) /\ ~alive
        <4>1. Disk(d, 0, received - 1, retained) /\ received > 0
          BY <2>3, <3>2, <3>5
        <4>2. 0 \in Unit /\ received - 1 \in Nat /\ 0 <= received - 1 /\ received - 1 < Len(retained)
          BY <1>1, <4>1 DEF Unit
        <4>3. Enters(d)
          BY <4>1, <4>2 DEF Enters
        <4>4. QED
          BY <1>3, <4>3 DEF serveGuestEntry
      <3>6. CASE managed # "listed" /\ ~(ranged /\ last < received) /\ alive
        <4>1. serveGuestRelay(d, first, last, received)
          BY <3>2, <3>6
        <4>2. QED
          BY <1>3, <2>2, <3>2, <4>1 DEF serveGuestEntry
      <3>7. QED
        BY <3>3, <3>4, <3>5, <3>6
    <2>4. QED
      BY <2>1, <2>3
  <1>4. QED
    BY <1>2, <1>3

LEMMA RelayTyped ==
  ASSUME TypeOK, NEW d \in Downloads, NEW first \in Unit, NEW last \in Unit,
         first <= last, JobOffset(Len(retained), first) <= last,
         serveGuestRelay(d, first, last, Len(retained))
  PROVE  /\ pc' = [pc EXCEPT ![d] = "wait"]
         /\ plan' \in [Downloads -> Plan]
         /\ \A e \in Downloads : e # d => plan'[e] = plan[e]
         /\ plan'[d].relay /\ plan'[d].first = first /\ plan'[d].last = last
         /\ plan'[d].received = Len(retained)
         /\ plan'[d].offset = Most(Len(retained), first)
         /\ left' \in [Downloads -> 0 .. Size]
         /\ relayEnqueue(d)
  <1> DEFINE offset == JobOffset(Len(retained), first)
  <1>1. PICK p : p = [relay |-> TRUE, first |-> first, last |-> last,
                      received |-> Len(retained), offset |-> offset, bytes |-> <<>>]
    OBVIOUS
  <1>2. Len(retained) \in Nat /\ first \in Nat /\ last \in 0 .. Size - 1 /\ offset \in Nat
    BY DEF TypeOK, JobOffset, Most, Unit
  <1>3. offset = Most(Len(retained), first)
    BY DEF JobOffset
  <1>4. /\ pc' = [pc EXCEPT ![d] = "wait"]
        /\ plan' = [plan EXCEPT ![d] = p]
        /\ left' = [left EXCEPT ![d] = last - offset + 1]
        /\ relayEnqueue(d)
    BY <1>1, <1>2 DEF serveGuestRelay
  <1>5. p \in Plan
    BY <1>1, <1>2 DEF Plan
  <1>6. last - offset + 1 \in 0 .. Size
    BY <1>2
  <1> HIDE DEF offset
  <1>7. QED
    BY <1>1, <1>3, <1>4, <1>5, <1>6 DEF TypeOK

LEMMA EntryKeeps ==
  ASSUME TypeOK, NEW d \in Downloads, serveGuestEntry(d) \/ handleDownload(d)
  PROVE  /\ \E s \in {"done", "slot", "wait"} : pc' = [pc EXCEPT ![d] = s]
         /\ plan' \in [Downloads -> Plan]
         /\ \A e \in Downloads : e # d => plan'[e] = plan[e]
         /\ left' \in [Downloads -> 0 .. Size]
         /\ claimed' = claimed /\ ended' = ended
         /\ \/ /\ UNCHANGED <<tables, signal>>
               /\ pc'[d] # "wait"
               /\ \/ plan'[d] = plan[d]
                  \/ ~plan'[d].relay /\ plan'[d].first <= plan'[d].last
            \/ /\ relayEnqueue(d)
               /\ pc'[d] = "wait"
               /\ plan'[d].relay
               /\ plan'[d].last \in Unit
               /\ plan'[d].first <= plan'[d].last
               /\ plan'[d].offset = Most(plan'[d].received, plan'[d].first)
               /\ plan'[d].offset <= plan'[d].last
  <1>1. pc[d] = "idle" /\ Enters(d)
    BY EntrySteps
  <1>2. CASE Answered(d)
    BY <1>2 DEF Answered, TypeOK, tables
  <1>3. ASSUME NEW first \in Unit, NEW last \in Nat, first <= last,
               NEW file \in {File, retained}, last < Len(file), Disk(d, first, last, file)
        PROVE  /\ pc' = [pc EXCEPT ![d] = "slot"]
               /\ plan' \in [Downloads -> Plan]
               /\ \A e \in Downloads : e # d => plan'[e] = plan[e]
               /\ UNCHANGED <<left, tables, signal>>
               /\ ~plan'[d].relay /\ plan'[d].first <= plan'[d].last
    <2>1. file \in Seq(Unit)
      BY FileFacts DEF TypeOK
    <2>2. QED
      BY <1>3, <2>1, DiskTyped
  <1>4. ASSUME NEW first \in Unit, NEW last \in Unit, first <= last,
               JobOffset(Len(retained), first) <= last,
               serveGuestRelay(d, first, last, Len(retained))
        PROVE  /\ pc' = [pc EXCEPT ![d] = "wait"]
               /\ plan' \in [Downloads -> Plan]
               /\ \A e \in Downloads : e # d => plan'[e] = plan[e]
               /\ left' \in [Downloads -> 0 .. Size]
               /\ relayEnqueue(d)
               /\ plan'[d].relay
               /\ plan'[d].last \in Unit
               /\ plan'[d].first <= plan'[d].last
               /\ plan'[d].offset = Most(plan'[d].received, plan'[d].first)
               /\ plan'[d].offset <= plan'[d].last
    BY <1>4, RelayTyped DEF JobOffset
  <1>5. CASE \E first \in Unit, last \in Nat : first <= last /\
               \E file \in {File, retained} : last < Len(file) /\ Disk(d, first, last, file)
    BY <1>3, <1>5 DEF TypeOK, tables
  <1>6. CASE \E first \in Unit, last \in Unit :
               /\ first <= last
               /\ JobOffset(Len(retained), first) <= last
               /\ serveGuestRelay(d, first, last, Len(retained))
    BY <1>4, <1>6 DEF TypeOK, relayEnqueue
  <1>7. QED
    BY <1>1, <1>2, <1>5, <1>6 DEF Enters

-----------------------------------------------------------------------------
(* What the ends of a handler do to the variables that have types.         *)
LEMMA RemoveTyped ==
  ASSUME TypeOK, NEW d \in Downloads, relayRemove(d)
  PROVE  /\ jobs' \subseteq Downloads /\ pending' \subseteq jobs'
         /\ ended' \subseteq Downloads
         /\ UNCHANGED <<waiters, claimed>>
  BY DEF TypeOK, relayRemove

LEMMA TypeStep ==
  ASSUME Bookkeeping, Next
  PROVE  TypeOK'
  <1> USE DEF Bookkeeping, share, tables, page, history
  <1>1. slots' \in 0 .. Slots
    BY CountedStep
  <1>2. ASSUME NEW d \in Downloads, serveGuestEntry(d) \/ handleDownload(d)
        PROVE  TypeOK'
    <2>1. UNCHANGED <<share, retained, got, appending, slots, poll, offers, piece, history>>
      BY <1>2, EntrySteps
    <2>2. /\ plan' \in [Downloads -> Plan]
          /\ left' \in [Downloads -> 0 .. Size]
          /\ claimed' = claimed /\ ended' = ended
      BY <1>2, EntryKeeps
    <2>6. pc' \in [Downloads -> {"idle", "wait", "slot", "send", "tail", "done"}]
      <3>1. PICK s \in {"done", "slot", "wait"} : pc' = [pc EXCEPT ![d] = s]
        BY <1>2, EntryKeeps
      <3>2. QED
        BY <3>1 DEF TypeOK
    <2>3. UNCHANGED <<tables, signal>> \/ relayEnqueue(d)
      BY <1>2, EntryKeeps
    <2>4. /\ jobs' \subseteq Downloads /\ pending' \subseteq jobs'
          /\ waiters' \subseteq Polls /\ signal' \subseteq Polls
      BY <2>3 DEF TypeOK, relayEnqueue
    <2>5. QED
      BY <2>1, <2>2, <2>4, <2>6 DEF TypeOK
  <1>3. ASSUME NEW d \in Downloads, Claimed(d) \/ Acquire(d)
        PROVE  TypeOK'
    BY <1>1, <1>3 DEF TypeOK, Claimed, Acquire
  <1>4. ASSUME NEW d \in Downloads, WaitEnds(d) \/ QueueLeft(d)
        PROVE  TypeOK'
    <2>1. relayRemove(d)
      BY <1>4 DEF WaitEnds, QueueLeft
    <2>2. QED
      BY <1>1, <1>4, <2>1, RemoveTyped DEF TypeOK, WaitEnds, QueueLeft
  <1>5. ASSUME NEW d \in Downloads, SendFile(d)
        PROVE  TypeOK'
    <2>1. relayRemove(d) /\ pc' = [pc EXCEPT ![d] = "done"] /\ appending' = appending \ {d}
      BY <1>5 DEF SendFile, Finish
    <2>2. PICK n \in 0 .. Len(plan[d].bytes) : got' = [got EXCEPT ![d] = SubSeq(plan[d].bytes, 1, n)]
      BY <1>5 DEF SendFile
    <2>3. plan[d].bytes \in Seq(Unit)
      BY DEF TypeOK, Plan
    <2>4. SubSeq(plan[d].bytes, 1, n) \in Seq(Unit)
      BY <2>3
    <2>5. got' \in [Downloads -> Seq(Unit)]
      BY <2>2, <2>4 DEF TypeOK
    <2>6. QED
      BY <1>1, <1>5, <2>1, <2>5, RemoveTyped DEF TypeOK, SendFile
  <1>6. ASSUME NEW d \in Downloads, SendPrefix(d)
        PROVE  TypeOK'
    <2>1. plan[d].first \in Nat /\ plan[d].last \in Nat /\ plan[d].received \in Nat
      BY DEF TypeOK, Plan, Unit
    <2>2. Prefix(d) \in Seq(Unit)
      BY <2>1 DEF TypeOK, Prefix, Least
    <2>3. got' \in [Downloads -> Seq(Unit)]
      BY <1>6, <2>2 DEF TypeOK, SendPrefix
    <2>4. pc' \in [Downloads -> {"idle", "wait", "slot", "send", "tail", "done"}]
      BY <1>6 DEF TypeOK, SendPrefix
    <2>5. appending' \subseteq Downloads
      BY <1>6 DEF TypeOK, SendPrefix
    <2>6. mixed' \in BOOLEAN
      <3>1. CASE Appends(d)
        BY <1>6, <3>1 DEF SendPrefix
      <3>2. CASE ~Appends(d)
        BY <1>6, <3>2 DEF SendPrefix, TypeOK
      <3>3. QED
        BY <3>1, <3>2
    <2>7. QED
      BY <1>6, <2>3, <2>4, <2>5, <2>6 DEF TypeOK, SendPrefix
  <1>7. ASSUME NEW d \in Downloads, TailEnd(d)
        PROVE  TypeOK'
    <2>1. relayRemove(d) /\ pc' = [pc EXCEPT ![d] = "done"] /\ appending' = appending \ {d}
      BY <1>7 DEF TailEnd, Finish
    <2>2. QED
      BY <1>1, <1>7, <2>1, RemoveTyped DEF TypeOK, TailEnd
  <1>8. ASSUME NEW q \in Polls, RelayNeed(q) \/ NeedEnds(q) \/ Skip(q)
        PROVE  TypeOK'
    BY <1>8 DEF TypeOK, RelayNeed, NeedEnds, Skip, downloads
  <1>9. ASSUME NEW q \in Polls, NEW x \in Pieces, RelayPiece(q, x)
        PROVE  TypeOK'
    <2>1. PICK d \in offers[q] :
            /\ offers' = [offers EXCEPT ![q] = @ \ {d}]
            /\ IF d \in jobs
               THEN /\ claimed' = claimed \cup {d}
                    /\ pending' = pending \ {d}
                    /\ doubled' = IF d \in claimed THEN doubled \cup {d} ELSE doubled
                    /\ piece' = [piece EXCEPT ![x] = Stream(d)]
               ELSE UNCHANGED <<claimed, pending, doubled, piece>>
      BY <1>9 DEF RelayPiece
    <2>2. d \in Downloads
      BY DEF TypeOK
    <2>3. Stream(d) \in Piece
      BY <2>2 DEF TypeOK, Stream, Piece, Plan
    <2>4. piece' \in [Pieces -> Piece]
      BY <2>1, <2>3 DEF TypeOK
    <2>5. QED
      BY <1>9, <2>1, <2>2, <2>4 DEF TypeOK, RelayPiece, downloads
  <1>10. ASSUME NEW x \in Pieces, piece[x].pc # "idle"
         PROVE  /\ piece[x].job \in Downloads /\ piece[x].at \in Nat
                /\ NoPiece \in Piece
                /\ [piece[x] EXCEPT !.pc = "write"] \in Piece
                /\ [piece[x] EXCEPT !.pc = "read", !.at = piece[x].at + 1] \in Piece
    <2>1. PICK p : p = piece[x]
      OBVIOUS
    <2>2. p \in [pc : {"read", "write"}, job : Downloads, at : Nat]
      BY <1>10, <2>1 DEF TypeOK, Piece
    <2>3. /\ [p EXCEPT !.pc = "write"] \in Piece
          /\ [p EXCEPT !.pc = "read", !.at = p.at + 1] \in Piece
      <3> DEFINE Active == [pc : {"read", "write"}, job : Downloads, at : Nat]
      <3>1. [p EXCEPT !.pc = "write"] \in Active
        BY <2>2
      <3>2. p.at + 1 \in Nat
        BY <2>2
      <3>3. [p EXCEPT !.pc = "read", !.at = p.at + 1] \in Active
        BY <2>2, <3>2
      <3>4. Active \subseteq Piece
        BY DEF Piece
      <3>5. QED
        BY <3>1, <3>3, <3>4
    <2>4. p.job \in Downloads /\ p.at \in Nat
      BY <2>2
    <2>5. NoPiece \in Piece
      BY DEF Piece, NoPiece
    <2>6. QED
      BY <2>1, <2>3, <2>4, <2>5
  <1>11. ASSUME NEW x \in Pieces, PieceRead(x)
         PROVE  TypeOK'
    <2>1. piece' = [piece EXCEPT ![x] = [piece[x] EXCEPT !.pc = "write"]]
      BY <1>11 DEF PieceRead
    <2>2. piece' \in [Pieces -> Piece]
      BY <1>10, <1>11, <2>1 DEF TypeOK, PieceRead
    <2>3. QED
      BY <1>11, <2>2 DEF TypeOK, PieceRead, downloads
  <1>12. ASSUME NEW x \in Pieces, PieceEnds(x) \/ PieceRefused(x)
         PROVE  TypeOK'
    <2>1. piece[x].job \in Downloads /\ NoPiece \in Piece
      BY <1>10, <1>12 DEF PieceEnds, PieceRefused
    <2>2. piece' \in [Pieces -> Piece]
      BY <1>12, <2>1 DEF TypeOK, PieceEnds, PieceRefused
    <2>3. ended' \subseteq Downloads
      BY <1>12, <2>1 DEF TypeOK, PieceEnds, PieceRefused, PipeClosed
    <2>4. QED
      BY <1>12, <2>2, <2>3 DEF TypeOK, PieceEnds, PieceRefused, downloads
  <1>13. ASSUME NEW x \in Pieces, Transfer(x)
         PROVE  TypeOK'
    <2> DEFINE d == piece[x].job
               unit == piece[x].at
    <2>1. d \in Downloads /\ unit \in Nat
          /\ [piece[x] EXCEPT !.pc = "read", !.at = unit + 1] \in Piece
      BY <1>10, <1>13 DEF Transfer
    <2>2. unit \in Unit
      <3>1. PieceOK(x) /\ piece[x].pc = "write"
        BY <1>13 DEF Transfer
      <3>2. d \in claimed /\ unit <= plan[d].last /\ PlanOK(d)
        BY <2>1, <3>1 DEF PieceOK
      <3>3. plan[d].last \in Unit
        BY <3>2 DEF PlanOK
      <3>4. QED
        BY <2>1, <3>2, <3>3 DEF Unit
    <2>3. piece' = [piece EXCEPT ![x] = [piece[x] EXCEPT !.pc = "read", !.at = unit + 1]]
      BY <1>13 DEF Transfer
    <2>4. piece' \in [Pieces -> Piece]
      BY <2>1, <2>3 DEF TypeOK
    <2>5. retained' \in Seq(Unit)
      BY <1>13, <2>2 DEF TypeOK, Transfer
    <2>6. CASE UNCHANGED <<pc, slots, appending, tables>>
      <3>1. got' \in [Downloads -> Seq(Unit)] /\ left' \in [Downloads -> 0 .. Size]
        <4>1. CASE got' = [got EXCEPT ![d] = Append(@, unit)] /\ left' = [left EXCEPT ![d] = @ - 1]
          <5>1. Append(got[d], unit) \in Seq(Unit)
            BY <2>1, <2>2 DEF TypeOK
          <5>2. left[d] - 1 \in 0 .. Size
            BY <1>13, <2>1 DEF TypeOK, Transfer
          <5>3. QED
            BY <4>1, <5>1, <5>2 DEF TypeOK
        <4>2. CASE UNCHANGED <<got, left>>
          BY <4>2 DEF TypeOK
        <4>3. QED
          BY <1>13, <4>1, <4>2 DEF Transfer
      <3>2. QED
        BY <1>13, <2>4, <2>5, <2>6, <3>1 DEF TypeOK, Transfer
    <2>7. CASE Finish(d) /\ UNCHANGED <<got, left>>
      <3>1. relayRemove(d) /\ pc' = [pc EXCEPT ![d] = "done"] /\ appending' = appending \ {d}
        BY <2>7 DEF Finish
      <3>2. QED
        BY <1>1, <1>13, <2>1, <2>4, <2>5, <2>7, <3>1, RemoveTyped DEF TypeOK, Transfer
    <2>8. QED
      BY <1>13, <2>6, <2>7 DEF Transfer
  <1>14. CASE Placed
    BY <1>14 DEF TypeOK, Placed
  <1>15. CASE Listed
    BY <1>15 DEF TypeOK, Listed, downloads
  <1>16. QED
    BY <1>2, <1>3, <1>4, <1>5, <1>6, <1>7, <1>8, <1>9, <1>11, <1>12, <1>13, <1>14, <1>15
    DEF Next, Handler, Poster

-----------------------------------------------------------------------------
(* What every step but the arrival of a request keeps of the plans.        *)
PlansKept ==
  /\ plan' = plan
  /\ jobs' \subseteq jobs
  /\ claimed \subseteq claimed'
  /\ claimed' \subseteq claimed \cup jobs
  /\ \A d \in Downloads : /\ pc'[d] = "idle" => pc[d] = "idle"
                          /\ pc'[d] = "wait" => pc[d] = "wait"

Arrives == \E d \in Downloads : serveGuestEntry(d) \/ handleDownload(d)

LEMMA PlansStep ==
  ASSUME TypeOK, Next, ~Arrives
  PROVE  PlansKept
  <1> USE DEF tables
  <1>1. ASSUME NEW d \in Downloads, Handler(d)
        PROVE  PlansKept
    <2>1. plan' = plan /\ claimed' = claimed /\ jobs' \subseteq jobs
      BY <1>1 DEF Handler, Claimed, WaitEnds, Acquire, QueueLeft, SendFile, SendPrefix, TailEnd,
                  Finish, relayRemove
    <2>2. \E s \in {"slot", "send", "tail", "done"} : pc' = [pc EXCEPT ![d] = s]
      BY <1>1 DEF Handler, Claimed, WaitEnds, Acquire, QueueLeft, SendFile, SendPrefix, TailEnd,
                  Finish
    <2>3. QED
      BY <2>1, <2>2 DEF TypeOK, PlansKept
  <1>2. ASSUME NEW q \in Polls, RelayNeed(q) \/ NeedEnds(q) \/ Skip(q)
        PROVE  PlansKept
    BY <1>2 DEF RelayNeed, NeedEnds, Skip, PlansKept, downloads
  <1>3. ASSUME NEW q \in Polls, NEW x \in Pieces, RelayPiece(q, x)
        PROVE  PlansKept
    BY <1>3 DEF RelayPiece, PlansKept, downloads
  <1>4. ASSUME NEW x \in Pieces, PieceRead(x) \/ PieceEnds(x) \/ PieceRefused(x)
        PROVE  PlansKept
    BY <1>4 DEF PieceRead, PieceEnds, PieceRefused, PlansKept, downloads
  <1>5. ASSUME NEW x \in Pieces, Transfer(x)
        PROVE  PlansKept
    BY <1>5 DEF TypeOK, Transfer, Finish, relayRemove, PlansKept
  <1>6. CASE Placed \/ Listed
    BY <1>6 DEF Placed, Listed, PlansKept, downloads
  <1>7. QED
    BY <1>1, <1>2, <1>3, <1>4, <1>5, <1>6 DEF Next, Poster, Arrives

LEMMA PlanOKStep ==
  ASSUME Bookkeeping, Next
  PROVE  \A d \in Downloads : PlanOK(d)'
  <1> USE DEF Bookkeeping
  <1>1. ASSUME NEW e \in Downloads, serveGuestEntry(e) \/ handleDownload(e), NEW d \in Downloads
        PROVE  PlanOK(d)'
    <2>1. pc[e] = "idle" /\ e \notin jobs \cup claimed
      BY <1>1, EntrySteps DEF PlanOK
    <2>2. PICK s \in {"done", "slot", "wait"} : pc' = [pc EXCEPT ![e] = s]
      BY <1>1, EntryKeeps
    <2>3. pc'[e] = s /\ \A f \in Downloads : f # e => pc'[f] = pc[f]
      BY <2>2 DEF TypeOK
    <2>4. claimed' = claimed /\ jobs' \subseteq jobs \cup {e}
      BY <1>1, EntryKeeps DEF relayEnqueue, tables
    <2>5. CASE d # e
      <3>1. plan'[d] = plan[d]
        BY <1>1, <2>5, EntryKeeps
      <3>2. QED
        BY <2>3, <2>4, <2>5, <3>1 DEF PlanOK
    <2>6. CASE d = e
      <3>1. CASE /\ UNCHANGED <<tables, signal>>
                 /\ pc'[e] # "wait"
                 /\ plan'[e] = plan[e] \/ (~plan'[e].relay /\ plan'[e].first <= plan'[e].last)
        BY <2>1, <2>3, <2>6, <3>1 DEF PlanOK, tables
      <3>2. CASE /\ relayEnqueue(e)
                 /\ pc'[e] = "wait"
                 /\ plan'[e].relay
                 /\ plan'[e].last \in Unit
                 /\ plan'[e].first <= plan'[e].last
                 /\ plan'[e].offset = Most(plan'[e].received, plan'[e].first)
                 /\ plan'[e].offset <= plan'[e].last
        BY <2>6, <3>2 DEF PlanOK
      <3>3. QED
        BY <1>1, <3>1, <3>2, EntryKeeps
    <2>7. QED
      BY <2>5, <2>6
  <1>2. CASE ~Arrives
    BY <1>2, PlansStep DEF PlansKept, PlanOK
  <1>3. QED
    BY <1>1, <1>2 DEF Arrives

LEMMA PieceOKStep ==
  ASSUME Bookkeeping, Next
  PROVE  \A x \in Pieces : PieceOK(x)'
  <1> USE DEF Bookkeeping
  <1>1. ASSUME NEW e \in Downloads, serveGuestEntry(e) \/ handleDownload(e), NEW x \in Pieces
        PROVE  PieceOK(x)'
    <2>1. pc[e] = "idle" /\ e \notin claimed /\ piece' = piece
      BY <1>1, EntrySteps DEF PlanOK, page
    <2>2. claimed' = claimed /\ \A d \in Downloads : d # e => plan'[d] = plan[d]
      BY <1>1, EntryKeeps
    <2>3. claimed \subseteq Downloads
      BY DEF TypeOK
    <2>4. QED
      BY <2>1, <2>2, <2>3 DEF PieceOK
  <1>2. ASSUME PlansKept, NEW x \in Pieces, piece'[x] = piece[x] \/ piece'[x].pc = "idle"
        PROVE  PieceOK(x)'
    BY <1>2 DEF PlansKept, PieceOK
  <1>3. ASSUME PlansKept, piece' = piece
        PROVE  \A x \in Pieces : PieceOK(x)'
    BY <1>2, <1>3
  <1>4. ASSUME PlansKept, NEW q \in Polls, NEW x \in Pieces, RelayPiece(q, x)
        PROVE  \A y \in Pieces : PieceOK(y)'
    <2>1. PICK d \in offers[q] :
            IF d \in jobs
            THEN claimed' = claimed \cup {d} /\ piece' = [piece EXCEPT ![x] = Stream(d)]
            ELSE UNCHANGED piece
      BY <1>4 DEF RelayPiece
    <2>2. CASE d \in jobs
      <3>1. d \in claimed' /\ piece' = [piece EXCEPT ![x] = Stream(d)]
        BY <2>1, <2>2
      <3>2. d \in Downloads /\ PlanOK(d) /\ plan[d].offset \in Nat /\ plan[d].last \in Nat
        BY <2>2 DEF TypeOK, Plan
      <3>3. plan[d].offset <= plan[d].last
        BY <2>2, <3>2 DEF PlanOK
      <3>4. piece'[x].pc = "read" /\ piece'[x].job = d /\ piece'[x].at = plan[d].offset
        BY <3>1 DEF TypeOK, Stream
      <3>5. PieceOK(x)'
        BY <1>4, <3>1, <3>2, <3>3, <3>4 DEF PieceOK, PlansKept
      <3>6. \A y \in Pieces : y # x => piece'[y] = piece[y]
        BY <3>1 DEF TypeOK
      <3>7. QED
        BY <1>2, <1>4, <3>5, <3>6
    <2>3. CASE d \notin jobs
      BY <1>3, <1>4, <2>1, <2>3
    <2>4. QED
      BY <2>2, <2>3
  <1>5. ASSUME PlansKept, NEW x \in Pieces, PieceRead(x)
        PROVE  \A y \in Pieces : PieceOK(y)'
    <2>1. /\ piece'[x].pc = "write"
          /\ piece'[x].job = piece[x].job /\ piece'[x].at = piece[x].at
          /\ \A y \in Pieces : y # x => piece'[y] = piece[y]
      BY <1>5 DEF PieceRead, TypeOK, Piece
    <2>2. piece[x].job \in Downloads /\ piece[x].at \in Nat /\ piece[x].pc = "read"
      BY <1>5 DEF PieceRead, TypeOK, Piece
    <2>3. plan[piece[x].job].last \in Nat
      BY <2>2 DEF TypeOK, Plan
    <2>4. piece[x].at <= plan[piece[x].job].last
      BY <1>5, <2>2, <2>3 DEF PieceOK, PieceRead, PieceDone
    <2>5. PieceOK(x)'
      BY <1>5, <2>1, <2>2, <2>4 DEF PieceOK, PlansKept
    <2>6. QED
      BY <1>2, <1>5, <2>1, <2>5
  <1>6. ASSUME PlansKept, NEW x \in Pieces, PieceEnds(x) \/ PieceRefused(x)
        PROVE  \A y \in Pieces : PieceOK(y)'
    <2>1. /\ piece'[x].pc = "idle"
          /\ \A y \in Pieces : y # x => piece'[y] = piece[y]
      BY <1>6 DEF PieceEnds, PieceRefused, TypeOK, NoPiece
    <2>2. QED
      BY <1>2, <1>6, <2>1
  <1>7. ASSUME PlansKept, NEW x \in Pieces, Transfer(x)
        PROVE  \A y \in Pieces : PieceOK(y)'
    <2>1. piece[x].job \in Downloads /\ piece[x].at \in Nat /\ piece[x].pc = "write"
      BY <1>7 DEF Transfer, TypeOK, Piece
    <2>2. /\ piece'[x].pc = "read"
          /\ piece'[x].job = piece[x].job /\ piece'[x].at = piece[x].at + 1
          /\ \A y \in Pieces : y # x => piece'[y] = piece[y]
      BY <1>7 DEF Transfer, TypeOK, Piece
    <2>3. plan[piece[x].job].last \in Nat /\ plan[piece[x].job].offset \in Nat
      BY <2>1 DEF TypeOK, Plan
    <2>4. PieceOK(x)'
      BY <1>7, <2>1, <2>2, <2>3 DEF PieceOK, PlansKept
    <2>5. QED
      BY <1>2, <1>7, <2>2, <2>4
  <1>8. CASE ~Arrives
    <2>1. PlansKept
      BY <1>8, PlansStep
    <2>2. ASSUME NEW d \in Downloads, Handler(d)
          PROVE  piece' = piece
      BY <2>2 DEF Handler, Claimed, WaitEnds, Acquire, QueueLeft, SendFile, SendPrefix, TailEnd, page
    <2>3. ASSUME NEW q \in Polls, RelayNeed(q) \/ NeedEnds(q) \/ Skip(q)
          PROVE  piece' = piece
      BY <2>3 DEF RelayNeed, NeedEnds, Skip
    <2>4. ASSUME Placed \/ Listed
          PROVE  piece' = piece
      BY <2>4 DEF Placed, Listed, page
    <2>5. QED
      BY <1>3, <1>4, <1>5, <1>6, <1>7, <1>8, <2>1, <2>2, <2>3, <2>4 DEF Next, Poster, Arrives
  <1>9. QED
    BY <1>1, <1>8 DEF Arrives

-----------------------------------------------------------------------------
(* A step that wakes nobody and lists nothing keeps the sleepers.          *)
LEMMA SleepersKept ==
  ASSUME NoLostWakeup, UNCHANGED <<poll, signal, waiters>>, pending' \subseteq pending
  PROVE  NoLostWakeup'
  BY DEF NoLostWakeup

LEMMA WakeupStep ==
  ASSUME Bookkeeping, Next
  PROVE  NoLostWakeup'
  <1> USE DEF Bookkeeping, tables, page
  <1>1. ASSUME NEW d \in Downloads, serveGuestEntry(d) \/ handleDownload(d)
        PROVE  NoLostWakeup'
    <2>1. poll' = poll
      BY <1>1, EntrySteps
    <2>2. CASE UNCHANGED <<tables, signal>>
      BY <2>1, <2>2 DEF NoLostWakeup
    <2>3. CASE relayEnqueue(d)
      BY <2>1, <2>3 DEF NoLostWakeup, relayEnqueue
    <2>4. QED
      BY <1>1, <2>2, <2>3, EntryKeeps
  <1>2. ASSUME NEW d \in Downloads, Handler(d)
        PROVE  NoLostWakeup'
    <2>1. UNCHANGED <<poll, signal, waiters>> /\ pending' \subseteq pending
      BY <1>2 DEF Handler, Claimed, WaitEnds, Acquire, QueueLeft, SendFile, SendPrefix, TailEnd,
                  Finish, relayRemove
    <2>2. QED
      BY <2>1, SleepersKept
  <1>3. ASSUME NEW q \in Polls, RelayNeed(q)
        PROVE  NoLostWakeup'
    <2>1. pending' = pending /\ signal' = signal
      BY <1>3 DEF RelayNeed
    <2>2. CASE HasWork
      BY <1>3, <2>1, <2>2 DEF RelayNeed, NoLostWakeup
    <2>3. CASE ~HasWork
      <3>1. pending = {} /\ waiters' = waiters \cup {q} /\ poll' = [poll EXCEPT ![q] = "wait"]
        BY <1>3, <2>3 DEF RelayNeed, HasWork
      <3>2. QED
        BY <2>1, <3>1 DEF NoLostWakeup, TypeOK
    <2>4. QED
      BY <2>2, <2>3
  <1>4. ASSUME NEW q \in Polls, NeedEnds(q)
        PROVE  NoLostWakeup'
    BY <1>4 DEF NeedEnds, NoLostWakeup, TypeOK
  <1>5. ASSUME NEW q \in Polls, Skip(q) \/ \E x \in Pieces : RelayPiece(q, x)
        PROVE  NoLostWakeup'
    <2>1. UNCHANGED <<poll, signal, waiters>> /\ pending' \subseteq pending
      BY <1>5 DEF Skip, RelayPiece
    <2>2. QED
      BY <2>1, SleepersKept
  <1>6. ASSUME NEW x \in Pieces, Poster(x)
        PROVE  NoLostWakeup'
    <2>1. UNCHANGED <<poll, signal, waiters>> /\ pending' \subseteq pending
      BY <1>6 DEF Poster, PieceRead, PieceEnds, PieceRefused, Transfer, Finish, relayRemove
    <2>2. QED
      BY <2>1, SleepersKept
  <1>7. CASE Placed \/ Listed
    BY <1>7 DEF Placed, Listed, NoLostWakeup
  <1>8. QED
    BY <1>1, <1>2, <1>3, <1>4, <1>5, <1>6, <1>7 DEF Next

(* A claimed job keeps its post while no post ends but by closing the pipe. *)
LEMMA ServedKept ==
  ASSUME ClaimIsServed, jobs' \cap claimed' \subseteq jobs \cap claimed, ended \subseteq ended',
         \A x \in Pieces : \/ piece'[x].pc # "idle" /\ piece'[x].job = piece[x].job
                          \/ piece[x].pc = "idle"
                          \/ piece[x].job \in ended'
  PROVE  ClaimIsServed'
  BY DEF ClaimIsServed, Streams

LEMMA ServedStep ==
  ASSUME Bookkeeping, Next
  PROVE  ClaimIsServed'
  <1> USE DEF Bookkeeping, tables, page
  <1>1. ASSUME NEW d \in Downloads, serveGuestEntry(d) \/ handleDownload(d)
        PROVE  ClaimIsServed'
    <2>1. d \notin claimed /\ piece' = piece
      BY <1>1, EntrySteps DEF PlanOK
    <2>2. claimed' = claimed /\ ended' = ended /\ jobs' \subseteq jobs \cup {d}
      BY <1>1, EntryKeeps DEF relayEnqueue
    <2>3. QED
      BY <2>1, <2>2 DEF ClaimIsServed, Streams
  <1>2. ASSUME NEW d \in Downloads, Handler(d)
        PROVE  ClaimIsServed'
    <2>1. piece' = piece /\ claimed' = claimed /\ jobs' \subseteq jobs /\ ended \subseteq ended'
      BY <1>2 DEF Handler, Claimed, WaitEnds, Acquire, QueueLeft, SendFile, SendPrefix, TailEnd,
                  Finish, relayRemove
    <2>2. QED
      BY <2>1, ServedKept
  <1>3. ASSUME NEW q \in Polls, RelayNeed(q) \/ NeedEnds(q) \/ Skip(q)
        PROVE  ClaimIsServed'
    <2>1. UNCHANGED <<piece, claimed, jobs, ended>>
      BY <1>3 DEF RelayNeed, NeedEnds, Skip
    <2>2. QED
      BY <2>1, ServedKept
  <1>4. ASSUME NEW q \in Polls, NEW x \in Pieces, RelayPiece(q, x)
        PROVE  ClaimIsServed'
    <2>1. piece[x].pc = "idle" /\ jobs' = jobs /\ ended' = ended
      BY <1>4 DEF RelayPiece
    <2>2. PICK d \in offers[q] :
            IF d \in jobs
            THEN claimed' = claimed \cup {d} /\ piece' = [piece EXCEPT ![x] = Stream(d)]
            ELSE UNCHANGED <<claimed, piece>>
      BY <1>4 DEF RelayPiece
    <2>3. CASE d \in jobs
      <3>1. claimed' = claimed \cup {d} /\ piece' = [piece EXCEPT ![x] = Stream(d)]
        BY <2>2, <2>3
      <3>2. /\ piece'[x].pc # "idle" /\ piece'[x].job = d
            /\ \A y \in Pieces : y # x => piece'[y] = piece[y]
        BY <3>1 DEF TypeOK, Stream
      <3>3. QED
        BY <2>1, <3>1, <3>2 DEF ClaimIsServed, Streams
    <2>4. CASE d \notin jobs
      BY <2>1, <2>2, <2>4, ServedKept
    <2>5. QED
      BY <2>3, <2>4
  <1>5. ASSUME NEW x \in Pieces, PieceRead(x)
        PROVE  ClaimIsServed'
    <2>1. /\ piece'[x].pc # "idle" /\ piece'[x].job = piece[x].job
          /\ \A y \in Pieces : y # x => piece'[y] = piece[y]
      BY <1>5 DEF PieceRead, TypeOK, Piece
    <2>2. UNCHANGED <<claimed, jobs, ended>>
      BY <1>5 DEF PieceRead
    <2>3. QED
      BY <2>1, <2>2 DEF ClaimIsServed, Streams
  <1>6. ASSUME NEW x \in Pieces, PieceEnds(x) \/ PieceRefused(x)
        PROVE  ClaimIsServed'
    <2>1. /\ piece[x].job \in ended'
          /\ \A y \in Pieces : y # x => piece'[y] = piece[y]
      BY <1>6 DEF PieceEnds, PieceRefused, PipeClosed, TypeOK
    <2>2. claimed' = claimed /\ jobs' = jobs /\ ended \subseteq ended'
      BY <1>6 DEF PieceEnds, PieceRefused, PipeClosed
    <2>3. QED
      BY <2>1, <2>2 DEF ClaimIsServed, Streams
  <1>7. ASSUME NEW x \in Pieces, Transfer(x)
        PROVE  ClaimIsServed'
    <2>1. /\ piece'[x].pc # "idle" /\ piece'[x].job = piece[x].job
          /\ \A y \in Pieces : y # x => piece'[y] = piece[y]
      BY <1>7 DEF Transfer, TypeOK, Piece
    <2>2. claimed' = claimed /\ jobs' \subseteq jobs /\ ended \subseteq ended'
      BY <1>7 DEF Transfer, Finish, relayRemove
    <2>3. QED
      BY <2>1, <2>2 DEF ClaimIsServed, Streams
  <1>8. CASE Placed \/ Listed
    BY <1>8, ServedKept DEF Placed, Listed
  <1>9. QED
    BY <1>1, <1>2, <1>3, <1>4, <1>5, <1>6, <1>7, <1>8 DEF Next, Poster

-----------------------------------------------------------------------------
LEMMA Booked == Spec => []Bookkeeping
  <1>1. Bookkeeping /\ [Next]_vars => Bookkeeping'
    <2> SUFFICES ASSUME Bookkeeping, [Next]_vars PROVE Bookkeeping'
      OBVIOUS
    <2>1. CASE Next
      BY <2>1, TypeStep, CountedStep, PlanOKStep, PieceOKStep, WakeupStep, ServedStep
      DEF Bookkeeping
    <2>2. CASE UNCHANGED vars
      BY <2>2 DEF Bookkeeping, TypeOK, Counted, Holding, PlanOK, PieceOK, NoLostWakeup,
                  ClaimIsServed, Streams, vars, share, downloads, tables, page, history
    <2>3. QED
      BY <2>1, <2>2
  <1>2. QED
    BY <1>1, InitBookkeeping, PTL DEF Spec

(* Every variable keeps the shape that the code gives it; among them the   *)
(* semaphore, which is never released more often than it was acquired.     *)
THEOREM Types == Spec => []TypeOK
  BY Booked, PTL DEF Bookkeeping

(* relayEnqueue and the check of handleAPIRelayNeed leave nobody asleep on *)
(* a job, for any number of polls and downloads.                           *)
THEOREM Wakeups == Spec => []NoLostWakeup
  BY Booked, PTL DEF Bookkeeping

(* The slots that are taken are the bodies that are being sent, however    *)
(* handlers end.                                                           *)
THEOREM Slotted == Spec => []SlotsCounted
  BY Booked, PTL DEF Bookkeeping, Counted, SlotsCounted

(* No download waits for ever on a pipe that nobody writes or closes.      *)
THEOREM Served == Spec => []ClaimIsServed
  BY Booked, PTL DEF Bookkeeping

-----------------------------------------------------------------------------
(* The bytes.  While appends begin at a quiet end of the file and jobs are *)
(* posted once, the place of a stream says what was written and sent.      *)
Clean == ~mixed /\ doubled = {}

Begins(s, first) == \A i \in 1 .. Len(s) : s[i] = first + i - 1

RetainedOK == Len(retained) <= Size /\ Begins(retained, 0)

OneStream ==
  \A x, y \in Pieces :
     piece[x].pc # "idle" /\ piece[y].pc # "idle" /\ piece[x].job = piece[y].job => x = y

AppendOK ==
  \A d \in appending :
    /\ pc[d] = "tail" /\ plan[d].relay
    /\ \A e \in appending : e = d
    /\ \A x \in Pieces : Streams(x, d) => piece[x].at = Len(retained)

Before(d) == pc[d] \in {"wait", "slot", "send"}

BytesOK(d) ==
  /\ plan[d].last \in Unit
  /\ pc[d] \in {"slot", "send", "tail"} /\ plan[d].relay => d \in claimed
  /\ pc[d] = "tail" => plan[d].relay
  /\ pc[d] = "idle" \/ Before(d) => got[d] = <<>>
  /\ ~plan[d].relay => /\ Begins(plan[d].bytes, plan[d].first)
                       /\ Len(plan[d].bytes) <= plan[d].last - plan[d].first + 1
  /\ Before(d) /\ plan[d].relay =>
       /\ \A x \in Pieces : Streams(x, d) => piece[x].at = plan[d].offset
       /\ d \notin bereft => plan[d].received <= Len(retained)
  /\ d \notin bereft =>
       /\ Begins(got[d], plan[d].first)
       /\ Len(got[d]) <= plan[d].last - plan[d].first + 1
       /\ pc[d] = "tail" =>
            \A x \in Pieces : Streams(x, d) => piece[x].at = plan[d].first + Len(got[d])

Contents ==
  Clean => RetainedOK /\ OneStream /\ AppendOK /\ \A d \in Downloads : BytesOK(d)

LEMMA PrefixOfFile ==
  ASSUME NEW s \in Seq(Unit)
  PROVE  IsPrefix(s, File) <=> Len(s) <= Size /\ Begins(s, 0)
  <1>1. SubSeq(s, 1, Len(s)) = s
    OBVIOUS
  <1>2. ASSUME Len(s) <= Size
        PROVE  /\ SubSeq(File, 1, Len(s)) \in Seq(Unit)
               /\ Len(SubSeq(File, 1, Len(s))) = Len(s)
               /\ \A i \in 1 .. Len(s) : SubSeq(File, 1, Len(s))[i] = i - 1
    BY <1>2, FileFacts
  <1>3. QED
    BY <1>1, <1>2, FileFacts DEF IsPrefix, Begins

LEMMA PrefixOfSpan ==
  ASSUME NEW s \in Seq(Unit), NEW first \in Unit, NEW last \in Unit, first <= last,
         Len(s) <= last - first + 1, Begins(s, first)
  PROVE  IsPrefix(s, Span(first, last))
  <1> DEFINE t == Span(first, last)
  <1>1. /\ t \in Seq(Unit) /\ Len(t) = last - first + 1
        /\ \A i \in 1 .. Len(t) : t[i] = first + i - 1
    BY FileFacts DEF Span, Unit
  <1> HIDE DEF t
  <1>2. /\ SubSeq(t, 1, Len(s)) \in Seq(Unit) /\ Len(SubSeq(t, 1, Len(s))) = Len(s)
        /\ \A i \in 1 .. Len(s) : SubSeq(t, 1, Len(s))[i] = first + i - 1
    BY <1>1 DEF Unit
  <1>3. SubSeq(s, 1, Len(s)) = s
    OBVIOUS
  <1>4. s = SubSeq(t, 1, Len(s))
    BY <1>2 DEF Begins
  <1>5. QED
    BY <1>1, <1>3, <1>4 DEF IsPrefix, t

LEMMA ContentsMean ==
  ASSUME TypeOK, \A d \in Downloads : PlanOK(d), Contents
  PROVE  PrefixKept /\ FaithfulBytes
  <1>1. PrefixKept
    BY PrefixOfFile DEF PrefixKept, Contents, Clean, RetainedOK, TypeOK
  <1>2. ASSUME Clean, NEW d \in Downloads, d \notin bereft
        PROVE  IsPrefix(got[d], Span(plan[d].first, plan[d].last))
    <2>1. BytesOK(d) /\ PlanOK(d) /\ got[d] \in Seq(Unit) /\ plan[d].first \in Unit
      BY <1>2 DEF Contents, TypeOK, Plan
    <2>2. QED
      BY <1>2, <2>1, PrefixOfSpan DEF BytesOK, PlanOK
  <1>3. QED
    BY <1>1, <1>2 DEF FaithfulBytes, Clean

LEMMA InitContents == Init => Contents
  <1> SUFFICES ASSUME Init PROVE Contents
    OBVIOUS
  <1>1. RetainedOK
    <2>1. PICK n \in 0 .. Size : retained = SubSeq(File, 1, n)
      BY DEF Init
    <2>2. QED
      BY <2>1, FileFacts DEF RetainedOK, Begins
  <1>2. OneStream /\ AppendOK
    BY DEF Init, NoPiece, OneStream, AppendOK
  <1>3. ASSUME NEW d \in Downloads
        PROVE  BytesOK(d)
    <2>1. pc[d] = "idle" /\ plan[d] = NoPlan /\ got[d] = <<>>
      BY DEF Init
    <2>2. NoPlan.last = 0 /\ NoPlan.first = 0 /\ ~NoPlan.relay /\ NoPlan.bytes = <<>>
      BY DEF NoPlan
    <2>3. QED
      BY <2>1, <2>2 DEF BytesOK, Before, Begins, Unit
  <1>4. QED
    BY <1>1, <1>2, <1>3 DEF Contents

-----------------------------------------------------------------------------
LEMMA CleanBefore ==
  ASSUME TypeOK, Next, Clean'
  PROVE  Clean
  <1>1. ASSUME NEW d \in Downloads, serveGuestEntry(d) \/ handleDownload(d)
        PROVE  UNCHANGED history
    BY <1>1 DEF serveGuestEntry, handleDownload
  <1>2. ASSUME NEW d \in Downloads, Claimed(d) \/ WaitEnds(d) \/ Acquire(d) \/ QueueLeft(d) \/
                                     SendFile(d) \/ TailEnd(d)
        PROVE  UNCHANGED history
    BY <1>2 DEF Claimed, WaitEnds, Acquire, QueueLeft, SendFile, TailEnd
  <1>3. ASSUME NEW d \in Downloads, SendPrefix(d)
        PROVE  Clean
    <2>1. (mixed => mixed') /\ doubled' = doubled
      BY <1>3 DEF SendPrefix
    <2>2. QED
      BY <2>1 DEF Clean
  <1>4. ASSUME NEW q \in Polls, RelayNeed(q) \/ NeedEnds(q) \/ Skip(q)
        PROVE  UNCHANGED history
    BY <1>4 DEF RelayNeed, NeedEnds, Skip
  <1>5. ASSUME NEW q \in Polls, NEW x \in Pieces, RelayPiece(q, x)
        PROVE  Clean
    <2>1. mixed' = mixed /\ doubled \subseteq doubled'
      BY <1>5 DEF RelayPiece
    <2>2. QED
      BY <2>1 DEF Clean
  <1>6. ASSUME NEW x \in Pieces, Poster(x)
        PROVE  UNCHANGED history
    BY <1>6 DEF Poster, PieceRead, PieceEnds, PieceRefused, Transfer
  <1>7. CASE Placed
    BY <1>7 DEF Placed, Clean
  <1>8. CASE Listed
    BY <1>8 DEF Listed, history, Clean
  <1>9. CASE UNCHANGED history
    BY <1>9 DEF history, Clean
  <1>10. QED
    BY <1>1, <1>2, <1>3, <1>4, <1>5, <1>6, <1>7, <1>8, <1>9 DEF Next, Handler

(* A stream that is there after a step was there before it, at its place.  *)
StreamsKept ==
  \A x \in Pieces : piece'[x].pc # "idle" =>
     piece[x].pc # "idle" /\ piece'[x].job = piece[x].job /\ piece'[x].at = piece[x].at

LEMMA OneStreamKept ==
  ASSUME OneStream, StreamsKept
  PROVE  OneStream'
  BY DEF OneStream, StreamsKept

LEMMA AppendKept ==
  ASSUME AppendOK, StreamsKept, appending' \subseteq appending, retained' = retained,
         \A d \in appending' : pc'[d] = pc[d] /\ plan'[d] = plan[d]
  PROVE  AppendOK'
  BY DEF AppendOK, StreamsKept, Streams

LEMMA BytesKept ==
  ASSUME NEW d, BytesOK(d), StreamsKept,
         plan'[d] = plan[d], pc'[d] = pc[d], got'[d] = got[d],
         claimed \subseteq claimed', bereft \subseteq bereft',
         retained' = retained
  PROVE  BytesOK(d)'
  BY DEF BytesOK, Before, StreamsKept, Streams

(* A handler that ends, with what its client has.                          *)
LEMMA BytesDone ==
  ASSUME NEW d, BytesOK(d), plan'[d] = plan[d], pc'[d] = "done", bereft' = bereft,
         got'[d] = got[d]
  PROVE  BytesOK(d)'
  BY DEF BytesOK, Before

LEMMA BytesSent ==
  ASSUME NEW d, BytesOK(d), plan'[d] = plan[d], pc'[d] = "done", bereft' = bereft,
         plan[d] \in Plan, ~plan[d].relay,
         NEW n \in 0 .. Len(plan[d].bytes), got'[d] = SubSeq(plan[d].bytes, 1, n)
  PROVE  BytesOK(d)'
  <1>1. plan[d].bytes \in Seq(Unit) /\ plan[d].first \in Nat /\ plan[d].last \in Nat
    BY DEF Plan, Unit
  <1>2. Len(got'[d]) = n /\ \A i \in 1 .. n : got'[d][i] = plan[d].bytes[i]
    BY <1>1
  <1>3. Begins(got'[d], plan[d].first) /\ Len(got'[d]) <= plan[d].last - plan[d].first + 1
    BY <1>1, <1>2 DEF BytesOK, Begins
  <1>4. QED
    BY <1>3 DEF BytesOK, Before

Bytes == RetainedOK /\ OneStream /\ AppendOK /\ \A d \in Downloads : BytesOK(d)

(* A request comes in.                                                     *)
LEMMA BytesEnter ==
  ASSUME Bookkeeping, Bytes, NEW d \in Downloads, serveGuestEntry(d) \/ handleDownload(d)
  PROVE  Bytes'
  <1> USE DEF Bookkeeping, Bytes, history, page, tables
  <1>1. pc[d] = "idle" /\ d \notin claimed /\ Enters(d) /\ got[d] = <<>>
    BY EntrySteps DEF PlanOK, BytesOK
  <1>2. UNCHANGED <<retained, got, appending, piece, bereft>> /\ StreamsKept
    BY EntrySteps DEF StreamsKept
  <1>3. claimed' = claimed /\ \A e \in Downloads : e # d => plan'[e] = plan[e]
    BY EntryKeeps
  <1>4. PICK s \in {"done", "slot", "wait"} : pc' = [pc EXCEPT ![d] = s]
    BY EntryKeeps
  <1>5. pc'[d] = s /\ \A e \in Downloads : e # d => pc'[e] = pc[e]
    BY <1>4 DEF TypeOK
  <1>6. RetainedOK'
    BY <1>2 DEF RetainedOK
  <1>7. OneStream'
    BY <1>2, OneStreamKept
  <1>8. AppendOK'
    <2>1. d \notin appending /\ appending \subseteq Downloads
      BY <1>1 DEF AppendOK, TypeOK
    <2>2. QED
      BY <1>2, <1>3, <1>5, <2>1, AppendKept
  <1>9. ASSUME NEW e \in Downloads, e # d
        PROVE  BytesOK(e)'
    BY <1>2, <1>3, <1>5, <1>9, BytesKept
  <1>10. BytesOK(d)'
    <2>1. \A x \in Pieces : ~Streams(x, d)'
      BY <1>1, <1>2 DEF PieceOK, Streams
    <2>2. got'[d] = <<>>
      BY <1>1, <1>2
    <2>3. CASE Answered(d)
      <3>1. pc'[d] = "done" /\ plan'[d] = plan[d]
        BY <2>3 DEF Answered, TypeOK
      <3>2. got'[d] = got[d] /\ bereft' = bereft /\ BytesOK(d)
        BY <1>2
      <3>3. QED
        BY <3>1, <3>2, BytesDone
    <2>4. ASSUME NEW first \in Unit, NEW last \in Nat, first <= last,
                 NEW file \in {File, retained}, last < Len(file), Disk(d, first, last, file)
          PROVE  BytesOK(d)'
      <3>1. file \in Seq(Unit) /\ Len(file) <= Size /\ Begins(file, 0)
        BY FileFacts DEF TypeOK, RetainedOK, Begins
      <3>2. last \in Unit
        BY <2>4, <3>1 DEF Unit
      <3>3. /\ pc'[d] = "slot" /\ ~plan'[d].relay
            /\ plan'[d].first = first /\ plan'[d].last = last
            /\ plan'[d].bytes = SubSeq(file, first + 1, last + 1)
        BY <2>4, <3>1, DiskTyped DEF TypeOK
      <3>4. /\ Len(plan'[d].bytes) = last - first + 1
            /\ Begins(plan'[d].bytes, first)
        BY <2>4, <3>1, <3>3 DEF Begins, Unit
      <3>5. Begins(got'[d], first) /\ Len(got'[d]) <= last - first + 1
        BY <2>2, <2>4 DEF Begins, Unit
      <3>6. QED
        BY <2>2, <2>4, <3>2, <3>3, <3>4, <3>5 DEF BytesOK, Before
    <2>5. ASSUME NEW first \in Unit, NEW last \in Unit, first <= last,
                 JobOffset(Len(retained), first) <= last,
                 serveGuestRelay(d, first, last, Len(retained))
          PROVE  BytesOK(d)'
      <3>1. /\ pc'[d] = "wait" /\ plan'[d].relay
            /\ plan'[d].first = first /\ plan'[d].last = last
            /\ plan'[d].received = Len(retained)
        BY <2>5, RelayTyped DEF TypeOK
      <3>2. Begins(got'[d], first) /\ Len(got'[d]) <= last - first + 1
        BY <2>2, <2>5 DEF Begins, Unit
      <3>3. plan'[d].received <= Len(retained')
        BY <1>2, <3>1 DEF TypeOK
      <3>4. QED
        BY <2>1, <2>2, <2>5, <3>1, <3>2, <3>3 DEF BytesOK, Before
    <2>6. QED
      BY <1>1, <2>3, <2>4, <2>5 DEF Enters
  <1>11. QED
    BY <1>6, <1>7, <1>8, <1>9, <1>10

(* A handler goes on or ends, without a unit through its pipe.             *)
LEMMA BytesHandler ==
  ASSUME Bookkeeping, Bytes, NEW d \in Downloads, Handler(d), ~SendPrefix(d)
  PROVE  Bytes'
  <1> USE DEF Bookkeeping, Bytes, history, page, tables
  <1>1. UNCHANGED <<retained, plan, claimed, piece, bereft>> /\ StreamsKept
    BY DEF Handler, Claimed, WaitEnds, Acquire, QueueLeft, SendFile, TailEnd, Finish, relayRemove,
           StreamsKept
  <1>2. PICK s \in {"slot", "send", "done"} : pc' = [pc EXCEPT ![d] = s]
    BY DEF Handler, Claimed, WaitEnds, Acquire, QueueLeft, SendFile, TailEnd, Finish
  <1>3. pc'[d] = s /\ \A e \in Downloads : e # d => pc'[e] = pc[e]
    BY <1>2 DEF TypeOK
  <1>4. \A e \in Downloads : e # d => got'[e] = got[e]
    BY DEF Handler, Claimed, WaitEnds, Acquire, QueueLeft, SendFile, TailEnd, TypeOK
  <1>5. /\ appending' \subseteq appending
        /\ d \in appending' => pc[d] # "tail"
    BY DEF Handler, Claimed, WaitEnds, Acquire, QueueLeft, SendFile, TailEnd, Finish
  <1>6. AppendOK'
    <2>1. d \notin appending' /\ appending \subseteq Downloads
      BY <1>5 DEF AppendOK, TypeOK
    <2>2. QED
      BY <1>1, <1>3, <1>5, <2>1, AppendKept
  <1>7. RetainedOK' /\ OneStream'
    BY <1>1, OneStreamKept DEF RetainedOK
  <1>8. ASSUME NEW e \in Downloads, e # d
        PROVE  BytesOK(e)'
    BY <1>1, <1>3, <1>4, <1>8, BytesKept
  <1>9. BytesOK(d)'
    <2>1. plan[d] \in Plan /\ plan'[d] = plan[d]
      BY <1>1 DEF TypeOK
    <2>2. CASE Claimed(d) \/ Acquire(d)
      <3>1. \/ pc[d] = "wait" /\ pc'[d] = "slot" /\ d \in claimed
            \/ pc[d] = "slot" /\ pc'[d] = "send"
        BY <2>2 DEF Claimed, Acquire, TypeOK
      <3>2. got'[d] = got[d]
        BY <2>2 DEF Claimed, Acquire
      <3>3. got[d] = <<>> /\ Before(d) /\ Before(d)'
        BY <3>1 DEF BytesOK, Before
      <3>4. pc'[d] # "idle" /\ pc'[d] # "tail"
        BY <3>1
      <3>5. plan[d].relay => d \in claimed
        BY <3>1 DEF BytesOK
      <3>6. QED
        BY <1>1, <3>2, <3>3, <3>4, <3>5 DEF BytesOK, Streams
    <2>3. CASE WaitEnds(d) \/ QueueLeft(d) \/ TailEnd(d)
      <3>1. pc'[d] = "done" /\ got'[d] = got[d]
        BY <2>3 DEF WaitEnds, QueueLeft, TailEnd, Finish, TypeOK
      <3>2. QED
        BY <1>1, <2>1, <3>1, BytesDone
    <2>4. CASE SendFile(d)
      <3>1. pc'[d] = "done" /\ ~plan[d].relay
        BY <2>4 DEF SendFile, Finish, TypeOK
      <3>2. PICK n \in 0 .. Len(plan[d].bytes) : got'[d] = SubSeq(plan[d].bytes, 1, n)
        BY <2>4 DEF SendFile, TypeOK
      <3>3. QED
        BY <1>1, <2>1, <3>1, <3>2, BytesSent
    <2>5. QED
      BY <2>2, <2>3, <2>4 DEF Handler
  <1>10. QED
    BY <1>6, <1>7, <1>8, <1>9

LEMMA SpanOfBegin ==
  ASSUME NEW s \in Seq(Unit), Begins(s, 0), NEW first \in Nat, NEW end \in Nat,
         first < end, end <= Len(s)
  PROVE  /\ Len(SubSeq(s, first + 1, end)) = end - first
         /\ Begins(SubSeq(s, first + 1, end), first)
  <1>1. /\ Len(SubSeq(s, first + 1, end)) = end - first
        /\ \A i \in 1 .. end - first : SubSeq(s, first + 1, end)[i] = s[first + i]
    OBVIOUS
  <1>2. QED
    BY <1>1 DEF Begins

(* The retained units are sent, and the file is opened for the rest.       *)
LEMMA BytesPrefix ==
  ASSUME Bookkeeping, Bytes, Clean', NEW d \in Downloads, SendPrefix(d)
  PROVE  Bytes'
  <1> USE DEF Bookkeeping, Bytes, page, tables
  <1>1. UNCHANGED <<retained, plan, claimed, piece, bereft>> /\ StreamsKept
    BY DEF SendPrefix, StreamsKept
  <1>2. /\ pc[d] = "send" /\ pc'[d] = "tail" /\ got'[d] = Prefix(d)
        /\ \A e \in Downloads : e # d => pc'[e] = pc[e] /\ got'[e] = got[e]
    BY DEF SendPrefix, TypeOK
  <1>3. /\ plan[d].relay /\ plan[d].first \in Unit /\ plan[d].last \in Unit
        /\ plan[d].received \in Nat
        /\ plan[d].offset = Most(plan[d].received, plan[d].first)
        /\ plan[d].offset <= plan[d].last /\ plan[d].first <= plan[d].last
        /\ plan[d].offset \in Nat
    BY DEF SendPrefix, PlanOK, TypeOK, Plan
  <1>4. /\ \A x \in Pieces : Streams(x, d) => piece[x].at = plan[d].offset
        /\ d \notin bereft => plan[d].received <= Len(retained)
        /\ d \in claimed
    BY <1>2, <1>3 DEF BytesOK, Before
  <1>5. AppendOK'
    <2>1. CASE Appends(d)
      <3>1. appending' = appending \cup {d} /\ appending = {} /\ Len(retained) = plan[d].received
        BY <2>1 DEF SendPrefix, Clean
      <3>2. plan[d].offset = plan[d].received
        BY <2>1 DEF Appends, Extends
      <3>3. QED
        BY <1>1, <1>2, <1>3, <1>4, <3>1, <3>2 DEF AppendOK, Streams
    <2>2. CASE ~Appends(d)
      <3>1. appending' = appending
        BY <2>2 DEF SendPrefix
      <3>2. d \notin appending /\ appending \subseteq Downloads
        BY <1>2 DEF AppendOK, TypeOK
      <3>3. QED
        BY <1>1, <1>2, <3>1, <3>2, AppendKept
    <2>3. QED
      BY <2>1, <2>2
  <1>6. RetainedOK' /\ OneStream'
    BY <1>1, OneStreamKept DEF RetainedOK
  <1>7. ASSUME NEW e \in Downloads, e # d
        PROVE  BytesOK(e)'
    BY <1>1, <1>2, <1>7, BytesKept
  <1>8. ASSUME d \notin bereft
        PROVE  /\ Begins(Prefix(d), plan[d].first)
               /\ Len(Prefix(d)) <= plan[d].last - plan[d].first + 1
               /\ plan[d].offset = plan[d].first + Len(Prefix(d))
    <2>1. CASE plan[d].first < plan[d].received
      <3>1. /\ plan[d].received <= plan[d].last
            /\ plan[d].offset = plan[d].received
            /\ plan[d].received <= Len(retained)
        BY <1>3, <1>4, <1>8, <2>1 DEF Most, Unit
      <3>2. retained \in Seq(Unit) /\ Len(retained) \in Nat /\ Begins(retained, 0)
        BY DEF TypeOK, RetainedOK
      <3>3. Least(Least(plan[d].received, plan[d].last + 1), Len(retained)) = plan[d].received
        BY <1>3, <3>1, <3>2 DEF Least, Unit
      <3>4. Prefix(d) = SubSeq(retained, plan[d].first + 1, plan[d].received)
        BY <2>1, <3>3 DEF Prefix
      <3>5. /\ Len(Prefix(d)) = plan[d].received - plan[d].first
            /\ Begins(Prefix(d), plan[d].first)
        BY <1>3, <2>1, <3>1, <3>2, <3>4, SpanOfBegin DEF Unit
      <3>6. QED
        BY <1>3, <2>1, <3>1, <3>5 DEF Unit
    <2>2. CASE ~(plan[d].first < plan[d].received)
      <3>1. Prefix(d) = <<>>
        BY <2>2 DEF Prefix
      <3>2. plan[d].offset = plan[d].first
        BY <1>3, <2>2 DEF Most, Unit
      <3>3. QED
        BY <1>3, <3>1, <3>2 DEF Begins, Unit
    <2>3. QED
      BY <2>1, <2>2
  <1>9. BytesOK(d)'
    <2>1. ~Before(d)' /\ pc'[d] # "idle"
      BY <1>2 DEF Before
    <2>2. QED
      BY <1>1, <1>2, <1>3, <1>4, <1>8, <2>1 DEF BytesOK, Streams
  <1>10. QED
    BY <1>5, <1>6, <1>7, <1>9

(* The page polls, posts, and a post goes on or ends.                      *)
LEMMA BytesPost ==
  ASSUME Bookkeeping, Bytes, Clean', NEW q \in Polls, NEW x \in Pieces, RelayPiece(q, x)
  PROVE  Bytes'
  <1> USE DEF Bookkeeping, Bytes, downloads
  <1>1. UNCHANGED <<retained, pc, plan, got, appending, bereft>> /\ piece[x].pc = "idle"
    BY DEF RelayPiece
  <1>2. PICK d \in offers[q] :
          IF d \in jobs
          THEN /\ claimed' = claimed \cup {d}
               /\ doubled' = IF d \in claimed THEN doubled \cup {d} ELSE doubled
               /\ piece' = [piece EXCEPT ![x] = Stream(d)]
          ELSE UNCHANGED <<claimed, piece>>
    BY DEF RelayPiece
  <1>3. claimed \subseteq claimed'
    BY <1>2
  <1>4. RetainedOK'
    BY <1>1 DEF RetainedOK
  <1>5. CASE d \notin jobs
    <2>1. StreamsKept
      BY <1>2, <1>5 DEF StreamsKept
    <2>2. AppendOK' /\ OneStream'
      BY <1>1, <2>1, AppendKept, OneStreamKept
    <2>3. \A e \in Downloads : BytesOK(e)'
      BY <1>1, <1>3, <2>1, BytesKept
    <2>4. QED
      BY <1>4, <2>2, <2>3
  <1>6. CASE d \in jobs
    <2>1. d \notin claimed /\ d \in Downloads /\ piece' = [piece EXCEPT ![x] = Stream(d)]
      BY <1>2, <1>6 DEF Clean, TypeOK
    <2>2. /\ piece'[x].pc = "read" /\ piece'[x].job = d /\ piece'[x].at = plan[d].offset
          /\ \A y \in Pieces : y # x => piece'[y] = piece[y]
      BY <2>1 DEF TypeOK, Stream
    <2>3. \A y \in Pieces : ~Streams(y, d)
      BY <2>1 DEF PieceOK, Streams
    <2>4. plan[d].relay /\ pc[d] # "idle"
      BY <1>6, <2>1 DEF PlanOK
    <2>5. pc[d] \notin {"slot", "send", "tail"}
      BY <2>1, <2>4 DEF BytesOK
    <2>6. OneStream'
      BY <2>2, <2>3 DEF OneStream, Streams
    <2>7. AppendOK'
      <3>1. d \notin appending
        BY <2>5 DEF AppendOK
      <3>2. QED
        BY <1>1, <2>2, <3>1 DEF AppendOK, Streams
    <2>8. ASSUME NEW e \in Downloads
          PROVE  BytesOK(e)'
      <3>1. CASE e # d
        <4>1. \A y \in Pieces : Streams(y, e)' => Streams(y, e) /\ piece'[y].at = piece[y].at
          BY <2>2, <3>1 DEF Streams
        <4>2. QED
          BY <1>1, <1>3, <4>1 DEF BytesOK, Before
      <3>2. CASE e = d
        <4>1. \A y \in Pieces : Streams(y, d)' => piece'[y].at = plan[d].offset
          BY <2>2, <2>3 DEF Streams
        <4>2. QED
          BY <1>1, <1>3, <2>4, <2>5, <3>2, <4>1 DEF BytesOK, Before
      <3>3. QED
        BY <3>1, <3>2
    <2>9. QED
      BY <1>4, <2>6, <2>7, <2>8
  <1>7. QED
    BY <1>5, <1>6

LEMMA BytesPage ==
  ASSUME Bookkeeping, Bytes,
         \/ \E q \in Polls : RelayNeed(q) \/ NeedEnds(q) \/ Skip(q)
         \/ \E x \in Pieces : PieceRead(x) \/ PieceEnds(x) \/ PieceRefused(x)
         \/ Listed
  PROVE  Bytes'
  <1> USE DEF Bookkeeping, Bytes, downloads, tables, page, history
  <1>1. UNCHANGED <<retained, pc, plan, got, appending, claimed, bereft>>
    BY DEF RelayNeed, NeedEnds, Skip, PieceRead, PieceEnds, PieceRefused, Listed
  <1>2. StreamsKept
    <2>1. CASE piece' = piece
      BY <2>1 DEF StreamsKept
    <2>2. ASSUME NEW x \in Pieces, PieceRead(x)
          PROVE  StreamsKept
      <3>1. /\ piece[x].pc = "read"
            /\ piece'[x].job = piece[x].job /\ piece'[x].at = piece[x].at
            /\ \A y \in Pieces : y # x => piece'[y] = piece[y]
        BY <2>2 DEF PieceRead, TypeOK, Piece
      <3>2. QED
        BY <3>1 DEF StreamsKept
    <2>3. ASSUME NEW x \in Pieces, PieceEnds(x) \/ PieceRefused(x)
          PROVE  StreamsKept
      <3>1. /\ piece'[x].pc = "idle"
            /\ \A y \in Pieces : y # x => piece'[y] = piece[y]
        BY <2>3 DEF PieceEnds, PieceRefused, TypeOK, NoPiece
      <3>2. QED
        BY <3>1 DEF StreamsKept
    <2>4. QED
      BY <2>1, <2>2, <2>3 DEF RelayNeed, NeedEnds, Skip, Listed
  <1>3. AppendOK' /\ OneStream' /\ RetainedOK'
    BY <1>1, <1>2, AppendKept, OneStreamKept DEF RetainedOK
  <1>4. \A d \in Downloads : BytesOK(d)'
    BY <1>1, <1>2, BytesKept
  <1>5. QED
    BY <1>3, <1>4

(* The prefix is removed: who counted on it is bereft.                     *)
LEMMA BytesPlaced ==
  ASSUME Bookkeeping, Bytes, Placed
  PROVE  Bytes'
  <1> USE DEF Bookkeeping, Bytes, tables, page
  <1>1. /\ UNCHANGED <<pc, plan, got, claimed, piece>>
        /\ retained' = <<>> /\ appending' = {}
        /\ bereft \subseteq bereft' /\ \A d \in Downloads : Before(d) => d \in bereft'
    BY DEF Placed, Before
  <1>2. OneStream' /\ AppendOK' /\ RetainedOK'
    BY <1>1 DEF OneStream, AppendOK, RetainedOK, Begins
  <1>3. \A d \in Downloads : BytesOK(d)'
    BY <1>1 DEF BytesOK, Before, Streams
  <1>4. QED
    BY <1>2, <1>3

(* A unit through the pipe of a download, which may also extend the file.  *)
LEMMA BytesTransfer ==
  ASSUME Bookkeeping, Bytes, NEW x \in Pieces, Transfer(x)
  PROVE  Bytes'
  <1> USE DEF Bookkeeping, Bytes, tables, history
  <1>1. PICK d : d = piece[x].job
    OBVIOUS
  <1>2. PICK unit : unit = piece[x].at
    OBVIOUS
  <1>3. /\ d \in Downloads /\ unit \in Nat /\ Streams(x, d) /\ pc[d] = "tail"
        /\ unit <= plan[d].last
    BY <1>1, <1>2 DEF Transfer, TypeOK, Piece, PieceOK, Streams
  <1>4. plan[d].relay /\ plan[d].last \in Unit /\ plan[d].first \in Unit
    BY <1>3 DEF BytesOK, TypeOK, Plan
  <1>5. /\ piece'[x].pc = "read" /\ piece'[x].job = d /\ piece'[x].at = unit + 1
        /\ \A y \in Pieces : y # x => piece'[y] = piece[y]
    BY <1>1, <1>2 DEF Transfer, TypeOK, Piece
  <1>6. UNCHANGED <<plan, claimed, bereft>>
    BY DEF Transfer, Finish, relayRemove
  <1>7. \A y \in Pieces : Streams(y, d) => y = x
    BY <1>3 DEF OneStream, Streams
  <1>8. \A e \in Downloads : e # d => pc'[e] = pc[e] /\ got'[e] = got[e]
    BY <1>1 DEF Transfer, Finish, TypeOK
  <1>9. \A y \in Pieces, e \in Downloads :
           e # d /\ Streams(y, e)' => Streams(y, e) /\ piece'[y].at = piece[y].at
    BY <1>5 DEF Streams
  <1>10. \A y \in Pieces : Streams(y, d)' => y = x
    BY <1>5, <1>7 DEF Streams
  <1>11. OneStream'
    BY <1>3, <1>5 DEF OneStream, Streams
  <1>12. retained \in Seq(Unit) /\ appending \subseteq Downloads
    BY DEF TypeOK
  <1>13. retained' = IF d \in appending THEN Append(retained, unit) ELSE retained
    BY <1>1, <1>2 DEF Transfer
  <1>14. d \in appending => unit = Len(retained)
    BY <1>2, <1>3 DEF AppendOK
  <1>15. /\ Len(retained) <= Len(retained')
         /\ d \in appending => Len(retained') = unit + 1
         /\ RetainedOK'
    <2>1. CASE d \in appending
      <3>1. /\ Len(retained') = Len(retained) + 1
            /\ \A i \in 1 .. Len(retained) : retained'[i] = retained[i]
            /\ retained'[Len(retained) + 1] = unit
        BY <1>12, <1>13, <2>1
      <3>2. Len(retained) \in Nat /\ Len(retained) + 1 <= Size
        BY <1>3, <1>4, <1>12, <1>14, <2>1 DEF Unit
      <3>3. Begins(retained', 0)
        BY <1>14, <2>1, <3>1, <3>2 DEF RetainedOK, Begins
      <3>4. QED
        BY <1>14, <2>1, <3>1, <3>2, <3>3 DEF RetainedOK
    <2>2. CASE d \notin appending
      BY <1>12, <1>13, <2>2 DEF RetainedOK
    <2>3. QED
      BY <2>1, <2>2
  <1>16. AppendOK'
    <2>1. appending' \subseteq appending
      BY DEF Transfer, Finish
    <2>2. ASSUME NEW e \in appending'
          PROVE  /\ pc'[e] = "tail" /\ plan'[e].relay
                 /\ \A f \in appending' : f = e
                 /\ \A y \in Pieces : Streams(y, e)' => piece'[y].at = Len(retained')
      <3>1. e \in appending /\ e \in Downloads /\ \A f \in appending' : f = e
        BY <1>12, <2>1 DEF AppendOK
      <3>2. CASE e = d
        <4>1. pc'[d] = "tail"
          BY <1>1, <1>3, <3>2 DEF Transfer, Finish
        <4>2. QED
          BY <1>4, <1>5, <1>6, <1>10, <1>15, <3>1, <3>2, <4>1
      <3>3. CASE e # d
        <4>1. d \notin appending
          BY <3>1, <3>3 DEF AppendOK
        <4>2. retained' = retained
          BY <1>13, <4>1
        <4>3. QED
          BY <1>6, <1>8, <1>9, <3>1, <3>3, <4>2 DEF AppendOK
      <3>4. QED
        BY <3>2, <3>3
    <2>3. QED
      BY <2>2 DEF AppendOK
  <1>17. ASSUME NEW e \in Downloads, e # d
         PROVE  BytesOK(e)'
    <2>1. plan[e].received \in Nat /\ Len(retained) \in Nat /\ Len(retained') \in Nat
      BY <1>12, TypeStep DEF TypeOK, Plan, Next, Poster
    <2>2. plan[e].received <= Len(retained) => plan[e].received <= Len(retained')
      BY <1>15, <2>1
    <2>3. QED
      BY <1>6, <1>8, <1>9, <1>17, <2>2 DEF BytesOK, Before
  <1>18. BytesOK(d)'
    <2>1. CASE Finish(d) /\ got' = got
      <3>1. pc'[d] = "done"
        BY <1>3, <2>1 DEF Finish, TypeOK
      <3>2. QED
        BY <1>3, <1>6, <2>1, <3>1, BytesDone
    <2>2. CASE pc' = pc /\ got' = [got EXCEPT ![d] = Append(@, unit)]
      <3>1. got[d] \in Seq(Unit) /\ got'[d] = Append(got[d], unit)
        BY <1>3, <2>2 DEF TypeOK
      <3>2. /\ Len(got'[d]) = Len(got[d]) + 1
            /\ \A i \in 1 .. Len(got[d]) : got'[d][i] = got[d][i]
            /\ got'[d][Len(got[d]) + 1] = unit
            /\ Len(got[d]) \in Nat
        BY <3>1
      <3>3. ASSUME d \notin bereft
            PROVE  /\ Begins(got'[d], plan[d].first)
                   /\ Len(got'[d]) <= plan[d].last - plan[d].first + 1
                   /\ unit + 1 = plan[d].first + Len(got'[d])
        <4>1. /\ unit = plan[d].first + Len(got[d])
              /\ Begins(got[d], plan[d].first)
          BY <1>2, <1>3, <3>3 DEF BytesOK
        <4>2. Begins(got'[d], plan[d].first)
          <5>1. ASSUME NEW i \in 1 .. Len(got'[d])
                PROVE  got'[d][i] = plan[d].first + i - 1
            <6>1. CASE i <= Len(got[d])
              <7>1. i \in 1 .. Len(got[d]) /\ got'[d][i] = got[d][i]
                BY <3>2, <6>1
              <7>2. QED
                BY <4>1, <7>1 DEF Begins
            <6>2. CASE i = Len(got[d]) + 1
              <7>1. got'[d][i] = unit
                BY <3>2, <6>2
              <7>2. QED
                BY <1>4, <3>2, <4>1, <6>2, <7>1 DEF Unit
            <6>3. QED
              BY <3>2, <6>1, <6>2
          <5>2. QED
            BY <5>1 DEF Begins
        <4>3. QED
          BY <1>3, <1>4, <3>2, <4>1, <4>2 DEF Unit
      <3>4. pc'[d] = "tail" /\ ~Before(d)'
        BY <1>3, <2>2 DEF Before
      <3>5. d \in claimed'
        BY <1>3, <1>4, <1>6 DEF BytesOK
      <3>6. QED
        BY <1>4, <1>5, <1>6, <1>10, <3>3, <3>4, <3>5 DEF BytesOK
    <2>3. QED
      BY <1>1, <1>2, <2>1, <2>2 DEF Transfer
  <1>19. QED
    BY <1>11, <1>15, <1>16, <1>17, <1>18

LEMMA ContentsStep ==
  ASSUME Bookkeeping, Contents, Next
  PROVE  Contents'
  <1> SUFFICES ASSUME Clean' PROVE Bytes'
    BY DEF Contents, Bytes
  <1>1. Bytes
    BY CleanBefore DEF Bookkeeping, Contents, Bytes
  <1>2. ASSUME NEW d \in Downloads, serveGuestEntry(d) \/ handleDownload(d) \/ Handler(d)
        PROVE  Bytes'
    BY <1>1, <1>2, BytesEnter, BytesHandler, BytesPrefix
  <1>3. ASSUME NEW q \in Polls, NEW x \in Pieces, RelayPiece(q, x)
        PROVE  Bytes'
    BY <1>1, <1>3, BytesPost
  <1>4. ASSUME NEW x \in Pieces, Transfer(x)
        PROVE  Bytes'
    BY <1>1, <1>4, BytesTransfer
  <1>5. CASE \/ \E q \in Polls : RelayNeed(q) \/ NeedEnds(q) \/ Skip(q)
             \/ \E x \in Pieces : PieceRead(x) \/ PieceEnds(x) \/ PieceRefused(x)
             \/ Listed
    BY <1>1, <1>5, BytesPage
  <1>6. CASE Placed
    BY <1>1, <1>6, BytesPlaced
  <1>7. QED
    BY <1>2, <1>3, <1>4, <1>5, <1>6 DEF Next, Poster

LEMMA Accounted == Spec => []Contents
  <1>1. Bookkeeping /\ Contents /\ [Next]_vars => Contents'
    <2> SUFFICES ASSUME Bookkeeping, Contents, [Next]_vars PROVE Contents'
      OBVIOUS
    <2>1. CASE Next
      BY <2>1, ContentsStep
    <2>2. CASE UNCHANGED vars
      BY <2>2 DEF Contents, Clean, RetainedOK, OneStream, AppendOK, BytesOK, Before, Streams,
                  vars, share, downloads, tables, page, history
    <2>3. QED
      BY <2>1, <2>2
  <1>2. QED
    BY <1>1, InitContents, Booked, PTL DEF Spec

LEMMA Means == Bookkeeping /\ Contents => PrefixKept /\ FaithfulBytes
  BY ContentsMean DEF Bookkeeping

(* What handlers append to .shares/<id> is a beginning of the owner's      *)
(* file, as long as they do so one at a time and a job has one post.       *)
THEOREM Kept == Spec => []PrefixKept
  BY Booked, Accounted, Means, PTL

(* Under the same conditions a download sends a beginning of what it was   *)
(* asked for, across the prefix from disk and the relayed rest.            *)
THEOREM Faithful == Spec => []FaithfulBytes
  BY Booked, Accounted, Means, PTL
=============================================================================
