---------------------------- MODULE QueueProofs -----------------------------
(***************************************************************************)
(* The upload queue of the web page, for any number of uploads, lanes,     *)
(* pieces and answers: the lanes are counted and used, a file is completed *)
(* whole, and a finished batch adds up.                                    *)
(* QueueIInv is the inductive invariant.                                   *)
(***************************************************************************)
EXTENDS UploadQueue, FiniteSetTheorems, TLAPS

Places == Running \cup {"idle", "queued", "dropped", "done"}
Runs(where) == {i \in Items : where[i] \in Running}
Over(where) == {i \in Batch : where[i] = "done"}
Dropped(where) == {i \in Batch : where[i] = "dropped"}
Announced(where) == {i \in Batch : where[i] \notin {"idle", "done"}}

(* A queue holds uploads that wait, each of them once.                     *)
Waits(q, where) ==
  /\ q \in Seq(Items)
  /\ \A j \in 1 .. Len(q) : where[q[j]] = "queued"
  /\ \A j, k \in 1 .. Len(q) : q[j] = q[k] => j = k

QueueLanes ==
  /\ upActive \in 0 .. UP_PAR
  /\ at \in [Items -> Places]
  /\ Waits(upQueue, at)
  /\ LanesFull

(* The counts of the batch and of the announced shares stand for where     *)
(* its uploads are; all of them were published, or none.                   *)
Counted ==
  /\ pending = Cardinality(Announced(at))
  /\ tally.done + tally.failed + tally.cancelledN = Cardinality(Over(at))
  /\ tally.total + Cardinality(Dropped(at)) = Cardinality(Batch)
  /\ (\A i \in Batch : at[i] = "idle") \/ (\A i \in Batch : at[i] # "idle")

Ended == tally.finished => \A i \in Batch : at[i] \in {"done", "dropped"}

Tallies == [total : Nat, done : Nat, failed : Nat, cancelledN : Nat,
            cancelled : BOOLEAN, finished : BOOLEAN]

BatchCounts == tally \in Tallies /\ Counted /\ Ended

Clicks == [paused : BOOLEAN, cancelled : BOOLEAN, stale : BOOLEAN]
Outcomes == {"done", "failed", "cancelled"}

UploadState ==
  /\ todo \in [Items -> SUBSET Pieces]
  /\ DOMAIN sent = Items /\ \A i \in Items : DOMAIN sent[i] \subseteq Pieces
  /\ clicks \in [Items -> Clicks]
  /\ outcome \in [Items -> Outcomes]
  /\ faults \in 0 .. Faults
  /\ acked \in [Items -> SUBSET Pieces]

(* While pieces are sent, each is in a queue, in flight or accepted.       *)
Accounted ==
  \A i \in Items :
    /\ at[i] = "send" => todo[i] \cup InFlight(i) \cup acked[i] = Pieces
    /\ at[i] = "complete" => acked[i] = Pieces

QueueIInv == QueueLanes /\ BatchCounts /\ UploadState /\ Accounted

-----------------------------------------------------------------------------
(* The order of the uploads.  A finite set of numbers is numbered from     *)
(* below: were there sets for which that fails, a smallest of them would   *)
(* have a largest number, and without it a numbering that can be extended. *)
Rising(s) == \A a, b \in DOMAIN s : a < b => s[a] < s[b]

(* A family of finite sets, if there is one, has a smallest.               *)
LEMMA SmallestSet ==
  ASSUME NEW S, IsFiniteSet(S), NEW F, F \subseteq SUBSET S, F # {}
  PROVE  \E X \in F : IsFiniteSet(X) /\ \A x \in X : X \ {x} \notin F
  <1>1. IsWellFoundedOn(StrictSubsetOrdering(S), SUBSET S)
    BY FS_StrictSubsetOrderingWellFounded, FS_FiniteSubsetsOfFinite
  <1>2. PICK X \in F : \A Y \in F : <<Y, X>> \notin StrictSubsetOrdering(S)
    BY <1>1, WFMin
  <1>3. \A x \in X : <<X \ {x}, X>> \in StrictSubsetOrdering(S)
    BY DEF StrictSubsetOrdering
  <1>4. QED
    BY <1>2, <1>3, FS_Subset

LEMMA Largest ==
  ASSUME NEW S, IsFiniteSet(S), S \subseteq Nat, S # {}
  PROVE  \E m \in S : \A x \in S : x <= m
  <1> DEFINE F == {X \in SUBSET S : X # {} /\ ~ \E m \in X : \A x \in X : x <= m}
  <1>1. ASSUME F # {} PROVE FALSE
    <2>1. PICK X \in F : \A x \in X : X \ {x} \notin F
      BY <1>1, SmallestSet, ZenonT(30)
    <2>2. PICK x \in X : TRUE
      BY <2>1
    <2>3. CASE X \ {x} = {}
      BY <2>1, <2>2, <2>3
    <2>4. CASE X \ {x} # {}
      <3>1. PICK m \in X \ {x} : \A y \in X \ {x} : y <= m
        BY <2>1, <2>2, <2>4
      <3>2. (\A y \in X : y <= m) \/ (\A y \in X : y <= x)
        BY <3>1, <2>1
      <3>3. QED
        BY <2>1, <2>2, <3>1, <3>2
    <2>5. QED
      BY <2>3, <2>4
  <1>2. S \notin F
    BY <1>1
  <1>3. QED
    BY <1>2

LEMMA NumberingExists ==
  ASSUME NEW S, IsFiniteSet(S), S \subseteq Nat
  PROVE  \E s \in [1 .. Cardinality(S) -> S] : Rising(s)
  <1> DEFINE F == {X \in SUBSET S : ~ \E s \in [1 .. Cardinality(X) -> X] : Rising(s)}
  <1>1. ASSUME F # {} PROVE FALSE
    <2>1. PICK X \in F : IsFiniteSet(X) /\ \A x \in X : X \ {x} \notin F
      BY <1>1, SmallestSet
    <2>2. X \subseteq Nat /\ Cardinality(X) \in Nat
      BY <2>1, FS_CardinalityType
    <2>3. X # {}
      <3>1. ASSUME X = {} PROVE FALSE
        <4> DEFINE s == [k \in 1 .. 0 |-> 0]
        <4>1. s \in [1 .. Cardinality(X) -> X] /\ Rising(s)
          BY <3>1, FS_EmptySet DEF Rising
        <4>2. QED
          BY <2>1, <4>1
      <3>2. QED
        BY <3>1
    <2>4. PICK m \in X : \A x \in X : x <= m
      BY <2>1, <2>2, <2>3, Largest
    <2>5. Cardinality(X \ {m}) = Cardinality(X) - 1 /\ Cardinality(X) > 0
      <3>1. Cardinality(X) # 0
        BY <2>1, <2>3, FS_EmptySet
      <3>2. Cardinality(X \ {m}) = Cardinality(X) - 1
        BY <2>1, FS_RemoveElement
      <3>3. QED
        BY <2>2, <3>1, <3>2
    <2>6. PICK s \in [1 .. Cardinality(X) - 1 -> X \ {m}] : Rising(s)
      <3>1. X \ {m} \in SUBSET S /\ X \ {m} \notin F
        BY <2>1
      <3>2. \E s \in [1 .. Cardinality(X \ {m}) -> X \ {m}] : Rising(s)
        BY <3>1
      <3>3. QED
        BY <2>5, <3>2
    <2> DEFINE t == [k \in 1 .. Cardinality(X) |-> IF k = Cardinality(X) THEN m ELSE s[k]]
    <2>7. t \in [1 .. Cardinality(X) -> X]
      BY <2>2, <2>6
    <2>8. Rising(t)
      <3> SUFFICES ASSUME NEW a \in 1 .. Cardinality(X), NEW b \in 1 .. Cardinality(X), a < b
                   PROVE  t[a] < t[b]
        BY DEF Rising
      <3>1. a \in 1 .. Cardinality(X) - 1 /\ t[a] = s[a] /\ s[a] \in X \ {m}
        BY <2>2, <2>6
      <3>2. CASE b = Cardinality(X)
        <4>1. s[a] \in Nat /\ m \in Nat /\ s[a] <= m /\ s[a] # m
          BY <2>2, <2>4, <3>1
        <4>2. t[b] = m
          BY <3>2
        <4>3. QED
          BY <3>1, <4>1, <4>2
      <3>3. CASE b # Cardinality(X)
        BY <2>2, <2>6, <3>1, <3>3 DEF Rising
      <3>4. QED
        BY <3>2, <3>3
    <2>9. QED
      BY <2>1, <2>7, <2>8
  <1>2. S \notin F
    BY <1>1
  <1>3. QED
    BY <1>2

LEMMA NumberedRises ==
  ASSUME NEW S, IsFiniteSet(S), S \subseteq Nat
  PROVE  /\ Numbered(S) \in [1 .. Cardinality(S) -> S]
         /\ \A a, b \in 1 .. Cardinality(S) : Numbered(S)[a] = Numbered(S)[b] => a = b
  <1> DEFINE n == Numbered(S)
  <1>1. n \in [1 .. Cardinality(S) -> S] /\ \A a, b \in DOMAIN n : a < b => n[a] < n[b]
    BY NumberingExists DEF Rising, Numbered
  <1>2. \A a \in 1 .. Cardinality(S) : n[a] \in Nat
    BY <1>1
  <1>3. Cardinality(S) \in Nat
    BY FS_CardinalityType
  <1> HIDE DEF n
  <1>4. \A a, b \in 1 .. Cardinality(S) : n[a] = n[b] => a = b
    BY <1>1, <1>2, <1>3
  <1>5. QED
    BY <1>1, <1>4 DEF n

-----------------------------------------------------------------------------
LEMMA ItemsFinite ==
  /\ IsFiniteSet(Items) /\ Items \subseteq Nat
  /\ \A where : /\ IsFiniteSet(Runs(where)) /\ Cardinality(Runs(where)) \in Nat
                /\ IsFiniteSet(Over(where)) /\ Cardinality(Over(where)) \in 0 .. Cardinality(Batch)
                /\ IsFiniteSet(Dropped(where)) /\ Cardinality(Dropped(where)) \in 0 .. Cardinality(Batch)
                /\ IsFiniteSet(Announced(where)) /\ Cardinality(Announced(where)) \in 0 .. Cardinality(Batch)
  <1>1. IsFiniteSet(Items) /\ Items \subseteq Nat
    BY UploadQueueAssumption, FS_Union DEF Items
  <1>2. Cardinality(Batch) \in Nat
    BY UploadQueueAssumption, FS_CardinalityType
  <1>3. \A T \in SUBSET Batch : IsFiniteSet(T) /\ Cardinality(T) \in 0 .. Cardinality(Batch)
    <2> SUFFICES ASSUME NEW T \in SUBSET Batch
                 PROVE  IsFiniteSet(T) /\ Cardinality(T) \in 0 .. Cardinality(Batch)
      OBVIOUS
    <2>1. IsFiniteSet(T) /\ Cardinality(T) <= Cardinality(Batch)
      BY UploadQueueAssumption, FS_Subset
    <2>2. QED
      BY <1>2, <2>1, FS_CardinalityType
  <1>4. \A T \in SUBSET Items : IsFiniteSet(T) /\ Cardinality(T) \in Nat
    BY <1>1, FS_Subset, FS_CardinalityType
  <1>5. ASSUME NEW where
        PROVE  /\ Runs(where) \in SUBSET Items
               /\ Over(where) \in SUBSET Batch /\ Dropped(where) \in SUBSET Batch
               /\ Announced(where) \in SUBSET Batch
    BY DEF Runs, Over, Dropped, Announced
  <1>6. QED
    BY <1>1, <1>3, <1>4, <1>5

(* Uploads that are left in the queue when others are taken out.           *)
LEMMA KeptWaits ==
  ASSUME NEW q, NEW where, NEW gone, Waits(q, where)
  PROVE  /\ Waits(Kept(q, gone), [i \in Items |-> IF i \in gone THEN "dropped" ELSE where[i]])
         /\ Kept(q, gone) # <<>> => q # <<>>
  <1> DEFINE S == {j \in DOMAIN q : q[j] \notin gone}
             n == Cardinality(S)
             places == Numbered(S)
             kept == Kept(q, gone)
             after == [i \in Items |-> IF i \in gone THEN "dropped" ELSE where[i]]
  <1>1. q \in Seq(Items) /\ DOMAIN q = 1 .. Len(q) /\ Len(q) \in Nat
    BY DEF Waits
  <1>2. S \subseteq 1 .. Len(q) /\ IsFiniteSet(1 .. Len(q)) /\ IsFiniteSet(S) /\ S \subseteq Nat
    <2>1. S \in SUBSET (1 .. Len(q)) /\ 1 .. Len(q) \subseteq Nat
      BY <1>1
    <2>2. IsFiniteSet(1 .. Len(q))
      BY <1>1, FS_Interval
    <2>3. IsFiniteSet(S)
      BY <2>1, <2>2, FS_Subset
    <2>4. QED
      BY <2>1, <2>2, <2>3
  <1>3. n \in Nat
    BY <1>2, FS_CardinalityType
  <1>4. /\ places \in [1 .. n -> S]
        /\ \A a, b \in 1 .. n : places[a] = places[b] => a = b
    BY <1>2, NumberedRises
  <1> HIDE DEF places, n
  <1>5. kept = [k \in 1 .. n |-> q[places[k]]]
    BY <1>4 DEF Kept, places
  <1> HIDE DEF kept
  <1>6. \A k \in 1 .. n : /\ places[k] \in 1 .. Len(q) /\ q[places[k]] \notin gone
                          /\ q[places[k]] \in Items
    BY <1>1, <1>2, <1>4
  <1>7. kept \in [1 .. n -> Items]
    BY <1>5, <1>6
  <1>8. kept \in Seq(Items) /\ Len(kept) = n
    BY <1>3, <1>7
  <1>9. \A k \in 1 .. n : after[kept[k]] = "queued"
    BY <1>5, <1>6 DEF Waits
  <1>10. \A j, k \in 1 .. n : kept[j] = kept[k] => j = k
    BY <1>4, <1>5, <1>6 DEF Waits
  <1>11. Waits(kept, after)
    BY <1>8, <1>9, <1>10 DEF Waits
  <1>12. kept # <<>> => q # <<>>
    <2>1. ASSUME q = <<>> PROVE kept = <<>>
      <3>1. n = 0
        BY <1>2, <2>1, FS_EmptySet DEF n
      <3>2. QED
        BY <1>8, <3>1
    <2>2. QED
      BY <2>1
  <1>13. QED
    BY <1>11, <1>12 DEF kept

(* Uploads that are put at its end.                                        *)
LEMMA EnqueueWaits ==
  ASSUME NEW q, NEW where, NEW S, S \subseteq Items, Waits(q, where),
         \A i \in S : where[i] = "idle"
  PROVE  Waits(q \o Numbered(S), [i \in Items |-> IF i \in S THEN "queued" ELSE where[i]])
  <1> DEFINE n == Cardinality(S)
             s == Numbered(S)
             all == q \o s
             after == [i \in Items |-> IF i \in S THEN "queued" ELSE where[i]]
  <1>1. IsFiniteSet(S) /\ S \subseteq Nat /\ n \in Nat
    BY ItemsFinite, FS_Subset, FS_CardinalityType
  <1>2. s \in [1 .. n -> S] /\ \A a, b \in 1 .. n : s[a] = s[b] => a = b
    BY <1>1, NumberedRises
  <1> HIDE DEF s, n
  <1>3. s \in Seq(Items) /\ Len(s) = n
    <2>1. s \in [1 .. n -> Items]
      BY <1>2
    <2>2. QED
      BY <1>1, <2>1
  <1>4. /\ q \in Seq(Items) /\ Len(q) \in Nat /\ q \in [1 .. Len(q) -> Items]
        /\ \A j \in 1 .. Len(q) : q[j] \notin S /\ where[q[j]] = "queued"
    BY DEF Waits
  <1>5. /\ all \in Seq(Items) /\ Len(all) = Len(q) + n
        /\ \A j \in 1 .. Len(q) : all[j] = q[j]
        /\ \A j \in Len(q) + 1 .. Len(q) + n : all[j] = s[j - Len(q)] /\ j - Len(q) \in 1 .. n
    BY <1>1, <1>3, <1>4
  <1> HIDE DEF all
  <1>6. \A j \in 1 .. Len(all) : j \in 1 .. Len(q) \/ j \in Len(q) + 1 .. Len(q) + n
    BY <1>1, <1>4, <1>5
  <1>7. \A j \in Len(q) + 1 .. Len(q) + n : all[j] \in S
    BY <1>2, <1>5
  <1>8. \A j \in 1 .. Len(all) : after[all[j]] = "queued"
    BY <1>4, <1>5, <1>6, <1>7
  <1>9. ASSUME NEW j \in 1 .. Len(all), NEW k \in 1 .. Len(all), all[j] = all[k]
        PROVE  j = k
    <2>1. CASE j \in 1 .. Len(q) /\ k \in 1 .. Len(q)
      BY <1>5, <1>9, <2>1 DEF Waits
    <2>2. CASE j \in Len(q) + 1 .. Len(q) + n /\ k \in Len(q) + 1 .. Len(q) + n
      <3>1. s[j - Len(q)] = s[k - Len(q)] /\ j - Len(q) \in 1 .. n /\ k - Len(q) \in 1 .. n
        BY <1>5, <1>9, <2>2
      <3>2. j - Len(q) = k - Len(q)
        BY <1>2, <3>1
      <3>3. QED
        BY <1>1, <1>4, <2>2, <3>2
    <2>3. QED
      BY <1>4, <1>5, <1>6, <1>7, <1>9, <2>1, <2>2
  <1>10. QED
    BY <1>5, <1>8, <1>9 DEF Waits, all, s

-----------------------------------------------------------------------------
(* The queue is pumped: whatever waits and finds a lane starts.            *)
LEMMA Pumped ==
  ASSUME NEW q, NEW taken \in 0 .. UP_PAR, NEW where \in [Items -> Places],
         Waits(q, where), taken = Cardinality(Runs(where)),
         pumpQueue(q, taken, where)
  PROVE  /\ at' \in [Items -> Places]
         /\ Waits(upQueue', at')
         /\ upActive' \in 0 .. UP_PAR /\ upActive' = Cardinality(Runs(at'))
         /\ upQueue' # <<>> => upActive' = UP_PAR
         /\ \A i \in Items : at'[i] = where[i] \/ (where[i] = "queued" /\ at'[i] = "adopt")
  <1> DEFINE k == Starts(q, taken)
             started == {q[j] : j \in 1 .. k}
             f == [j \in 1 .. k |-> q[j]]
  <1>1. /\ q \in Seq(Items) /\ Len(q) \in Nat /\ UP_PAR \in Nat
        /\ k \in Nat /\ k <= Len(q) /\ taken + k <= UP_PAR
        /\ k = Len(q) \/ taken + k = UP_PAR
    BY UploadQueueAssumption DEF Starts, Smaller, Waits
  <1>2. /\ upQueue' = SubSeq(q, k + 1, Len(q))
        /\ upActive' = taken + k
        /\ at' = [i \in Items |-> IF i \in started THEN "adopt" ELSE where[i]]
    BY DEF pumpQueue
  <1> HIDE DEF k
  <1>3. \A i \in started : i \in Items /\ where[i] = "queued"
    BY <1>1 DEF Waits
  <1>4. IsFiniteSet(started) /\ Cardinality(started) = k
    <2>1. f \in Bijection(1 .. k, started)
      <3>1. f \in [1 .. k -> started]
        OBVIOUS
      <3>2. \A a, b \in 1 .. k : f[a] = f[b] => a = b
        BY <1>1 DEF Waits
      <3>3. \A i \in started : \E j \in 1 .. k : f[j] = i
        OBVIOUS
      <3>4. QED
        BY <3>1, <3>2, <3>3 DEF Bijection, Injection, Surjection, IsInjective
    <2>2. ExistsBijection(1 .. k, started)
      BY <2>1 DEF ExistsBijection
    <2>3. IsFiniteSet(1 .. k) /\ Cardinality(1 .. k) = k
      BY <1>1, FS_Interval
    <2>4. QED
      BY <2>2, <2>3, FS_Bijection
  <1> HIDE DEF started
  <1>5. Runs(at') = Runs(where) \cup started /\ Runs(where) \cap started = {}
    BY <1>2, <1>3 DEF Runs, Running
  <1>6. Cardinality(Runs(at')) = taken + k
    <2>1. IsFiniteSet(Runs(where)) /\ Cardinality(Runs(where)) = taken
      BY ItemsFinite
    <2>2. Cardinality(Runs(where) \cup started) = taken + k - Cardinality(Runs(where) \cap started)
      BY <1>4, <2>1, FS_Union
    <2>3. QED
      <3>1. Cardinality(Runs(where) \cap started) = 0
        BY <1>5, FS_EmptySet
      <3>2. Cardinality(Runs(where) \cup started) = taken + k
        BY <1>1, <2>2, <3>1
      <3>3. QED
        BY <1>5, <3>2
  <1>7. at' \in [Items -> Places]
    BY <1>2 DEF Places, Running
  <1>8. /\ upQueue' \in Seq(Items) /\ Len(upQueue') = Len(q) - k
        /\ \A j \in 1 .. Len(upQueue') : upQueue'[j] = q[k + j] /\ k + j \in 1 .. Len(q)
    BY <1>1, <1>2
  <1>9. \A j \in 1 .. Len(q) : j > k => q[j] \notin started
    BY <1>1 DEF Waits, started
  <1>10. \A j \in 1 .. Len(upQueue') : at'[upQueue'[j]] = "queued"
    BY <1>1, <1>2, <1>8, <1>9 DEF Waits
  <1>11. \A i, j \in 1 .. Len(upQueue') : upQueue'[i] = upQueue'[j] => i = j
    <2> SUFFICES ASSUME NEW i \in 1 .. Len(upQueue'), NEW j \in 1 .. Len(upQueue'), upQueue'[i] = upQueue'[j]
                 PROVE  i = j
      OBVIOUS
    <2>1. q[k + i] = q[k + j] /\ k + i \in 1 .. Len(q) /\ k + j \in 1 .. Len(q)
      BY <1>8
    <2>2. k + i = k + j
      BY <2>1 DEF Waits
    <2>3. QED
      BY <1>1, <1>8, <2>2
  <1>12. upQueue' # <<>> => upActive' = UP_PAR
    BY <1>1, <1>2, <1>8
  <1>13. Waits(upQueue', at')
    BY <1>8, <1>10, <1>11 DEF Waits
  <1>14. upActive' \in 0 .. UP_PAR /\ upActive' = Cardinality(Runs(at'))
    BY <1>1, <1>2, <1>6
  <1>15. \A i \in Items : at'[i] = where[i] \/ (where[i] = "queued" /\ at'[i] = "adopt")
    BY <1>2, <1>3
  <1>16. QED
    BY <1>7, <1>12, <1>13, <1>14, <1>15

-----------------------------------------------------------------------------
LEMMA QueueFirst == Init => QueueIInv
  <1> SUFFICES ASSUME Init PROVE QueueIInv
    OBVIOUS
  <1>1. /\ Cardinality(Batch) \in Nat /\ UP_PAR \in Nat /\ Faults \in Nat
        /\ 0 \in 0 .. UP_PAR /\ 0 \in 0 .. Faults
    BY UploadQueueAssumption, FS_CardinalityType
  <1>2. \A i \in Items : at[i] = "idle" /\ DOMAIN sent[i] = {} /\ clicks[i] = Untouched
    BY DEF Init
  <1>3. Runs(at) = {} /\ Over(at) = {} /\ Dropped(at) = {} /\ Announced(at) = {}
    BY <1>2 DEF Runs, Running, Over, Dropped, Announced, Items
  <1>4. /\ Cardinality(Runs(at)) = 0 /\ Cardinality(Over(at)) = 0
        /\ Cardinality(Dropped(at)) = 0 /\ Cardinality(Announced(at)) = 0
    BY <1>3, FS_EmptySet
  <1>5. QueueLanes
    <2>1. upQueue = <<>> /\ upQueue \in Seq(Items) /\ Len(upQueue) = 0
      BY DEF Init
    <2>2. Waits(upQueue, at)
      BY <2>1 DEF Waits
    <2>3. LanesFull
      BY <1>4, <2>1 DEF Init, LanesFull, Runs
    <2>4. QED
      BY <1>1, <2>2, <2>3 DEF Init, QueueLanes, Places
  <1>6. BatchCounts
    <2>1. tally.done = 0 /\ tally.failed = 0 /\ tally.cancelledN = 0 /\ tally.total = Cardinality(Batch)
      BY DEF Init
    <2>2. \A i \in Batch : at[i] = "idle"
      BY <1>2 DEF Items
    <2>3. Counted
      BY <1>1, <1>4, <2>1, <2>2 DEF Init, Counted
    <2>4. QED
      BY <1>1, <2>3 DEF Init, Ended, BatchCounts, Tallies
  <1>7. UploadState
    <2>1. Untouched \in Clicks
      BY DEF Untouched, Clicks
    <2>2. QED
      BY <1>1, <1>2, <2>1 DEF Init, UploadState, Outcomes
  <1>8. Accounted
    BY <1>2 DEF Accounted
  <1>9. QED
    BY <1>5, <1>6, <1>7, <1>8 DEF QueueIInv

LEMMA QueueTyped == QueueIInv => TypeOK
  <1> SUFFICES ASSUME QueueIInv PROVE TypeOK
    OBVIOUS
  <1>1. pending \in 0 .. Cardinality(Batch)
    BY ItemsFinite DEF QueueIInv, BatchCounts, Counted
  <1>2. tally \in [total : 0 .. Cardinality(Batch), done : 0 .. Cardinality(Batch),
                   failed : 0 .. Cardinality(Batch), cancelledN : 0 .. Cardinality(Batch),
                   cancelled : BOOLEAN, finished : BOOLEAN]
    <2>1. /\ Cardinality(Batch) \in Nat
          /\ Cardinality(Over(at)) \in 0 .. Cardinality(Batch)
          /\ Cardinality(Dropped(at)) \in 0 .. Cardinality(Batch)
      BY ItemsFinite, UploadQueueAssumption, FS_CardinalityType
    <2>2. tally \in Tallies
      BY DEF QueueIInv, BatchCounts
    <2>3. /\ tally.total \in Nat /\ tally.done \in Nat /\ tally.failed \in Nat /\ tally.cancelledN \in Nat
          /\ tally.done + tally.failed + tally.cancelledN = Cardinality(Over(at))
          /\ tally.total + Cardinality(Dropped(at)) = Cardinality(Batch)
      BY <2>2 DEF Tallies, QueueIInv, BatchCounts, Counted
    <2>4. /\ tally.total \in 0 .. Cardinality(Batch) /\ tally.done \in 0 .. Cardinality(Batch)
          /\ tally.failed \in 0 .. Cardinality(Batch) /\ tally.cancelledN \in 0 .. Cardinality(Batch)
      BY <2>1, <2>3
    <2>5. QED
      BY <2>2, <2>4 DEF Tallies
  <1>3. upQueue \in Seq(Items) /\ upActive \in 0 .. UP_PAR /\ at \in [Items -> Places]
    BY DEF QueueIInv, QueueLanes, Waits
  <1>4. QED
    BY <1>1, <1>2, <1>3 DEF TypeOK, Places, QueueIInv, UploadState, Clicks, Outcomes

-----------------------------------------------------------------------------
(* What a step does to the queue and the counts.  An upload that runs and  *)
(* goes on running changes neither.                                        *)
LEMMA GoesOn ==
  ASSUME QueueIInv, NEW i \in Items, at[i] \in Running, NEW w \in Running, Goes(i, w)
  PROVE  QueueLanes' /\ BatchCounts'
  <1>1. /\ at \in [Items -> Places] /\ at' = [at EXCEPT ![i] = w]
        /\ UNCHANGED <<upQueue, upActive, pending, tally>>
    BY DEF QueueIInv, QueueLanes, Goes
  <1>2. /\ at' \in [Items -> Places]
        /\ \A j \in Items : at'[j] = at[j] \/ (j = i /\ at[j] \in Running /\ at'[j] \in Running)
    BY <1>1 DEF Places
  <1>3. /\ Runs(at') = Runs(at) /\ Over(at') = Over(at) /\ Dropped(at') = Dropped(at)
        /\ Announced(at') = Announced(at)
    BY <1>2 DEF Runs, Over, Dropped, Announced, Running, Items
  <1>4. QueueLanes'
    <2>1. Waits(upQueue, at)'
      BY <1>1, <1>2 DEF QueueIInv, QueueLanes, Waits, Running
    <2>2. LanesFull'
      BY <1>1, <1>3 DEF QueueIInv, QueueLanes, LanesFull, Runs
    <2>3. QED
      BY <1>1, <1>2, <2>1, <2>2 DEF QueueIInv, QueueLanes
  <1>5. BatchCounts'
    <2>1. \A j \in Batch : /\ at'[j] = "idle" <=> at[j] = "idle"
                           /\ at[j] \in {"done", "dropped"} => at'[j] = at[j]
      BY <1>2 DEF Running, Items
    <2>2. Counted'
      BY <1>1, <1>3, <2>1 DEF QueueIInv, BatchCounts, Counted
    <2>3. Ended'
      BY <1>1, <2>1 DEF QueueIInv, BatchCounts, Ended
    <2>4. QED
      BY <1>1, <2>2, <2>3 DEF QueueIInv, BatchCounts
  <1>6. QED
    BY <1>4, <1>5

(* One that is over gives its lane back, and is counted.                   *)
LEMMA CountsOne ==
  ASSUME QueueIInv, NEW i \in Batch, NEW how \in Outcomes, Count(i, how)
  PROVE  /\ tally' \in Tallies
         /\ tally'.done + tally'.failed + tally'.cancelledN
              = tally.done + tally.failed + tally.cancelledN + 1
         /\ tally'.total = tally.total
         /\ tally'.finished => tally.finished \/ NoneLeft(at')
  <1> DEFINE t == CASE how = "done" -> [tally EXCEPT !.done = @ + 1]
                    [] how = "failed" -> [tally EXCEPT !.failed = @ + 1]
                    [] how = "cancelled" -> [tally EXCEPT !.cancelledN = @ + 1]
  <1>1. tally \in Tallies
    BY DEF QueueIInv, BatchCounts
  <1>2. /\ t \in Tallies /\ t.total = tally.total
        /\ t.done + t.failed + t.cancelledN = tally.done + tally.failed + tally.cancelledN + 1
    <2>1. CASE how = "done"
      BY <1>1, <2>1 DEF Tallies
    <2>2. CASE how = "failed"
      BY <1>1, <2>2 DEF Tallies
    <2>3. CASE how = "cancelled"
      BY <1>1, <2>3 DEF Tallies
    <2>4. QED
      BY <2>1, <2>2, <2>3 DEF Outcomes
  <1>3. t.finished = tally.finished
    <2>1. CASE how = "done"
      BY <1>1, <2>1, Zenon DEF Tallies
    <2>2. CASE how = "failed"
      BY <1>1, <2>2, Zenon DEF Tallies
    <2>3. CASE how = "cancelled"
      BY <1>1, <2>3, Zenon DEF Tallies
    <2>4. QED
      BY <2>1, <2>2, <2>3 DEF Outcomes
  <1>4. tally' = [t EXCEPT !.finished = t.finished \/ NoneLeft(at')]
    BY DEF Count
  <1> HIDE DEF t
  <1>5. PICK last \in BOOLEAN : last = (t.finished \/ NoneLeft(at'))
    OBVIOUS
  <1>6. tally' = [t EXCEPT !.finished = last]
    BY <1>4, <1>5
  <1>7. /\ tally' \in Tallies /\ tally'.total = t.total /\ tally'.done = t.done
        /\ tally'.failed = t.failed /\ tally'.cancelledN = t.cancelledN
    BY <1>2, <1>6 DEF Tallies
  <1>8. tally'.finished = last
    BY <1>2, <1>6, Zenon DEF Tallies
  <1>9. QED
    BY <1>2, <1>3, <1>5, <1>7, <1>8

LEMMA IsOver ==
  ASSUME QueueIInv, NEW i \in Items, at[i] \in Running, NEW how \in Outcomes, done(i, how)
  PROVE  /\ QueueLanes' /\ BatchCounts'
         /\ at'[i] = "done"
         /\ \A j \in Items \ {i} : at'[j] = at[j] \/ at'[j] = "adopt"
  <1> DEFINE where == [at EXCEPT ![i] = "done"]
  <1>1. /\ pumpQueue(upQueue, upActive - 1, where) /\ Count(i, how)
        /\ pending' = IF i \in Batch THEN pending - 1 ELSE pending
    BY DEF done, AfterDone
  <1>2. /\ at \in [Items -> Places] /\ where \in [Items -> Places]
        /\ where[i] = "done" /\ \A j \in Items \ {i} : where[j] = at[j]
    BY DEF QueueIInv, QueueLanes, Places
  <1> HIDE DEF where
  <1>3. Runs(where) = Runs(at) \ {i} /\ i \in Runs(at)
    BY <1>2 DEF Runs, Running
  <1>4. /\ upActive = Cardinality(Runs(at)) /\ upActive \in 0 .. UP_PAR
        /\ IsFiniteSet(Runs(at)) /\ Runs(at) # {}
    BY <1>3, ItemsFinite DEF QueueIInv, QueueLanes, LanesFull, Runs
  <1>5. upActive - 1 \in 0 .. UP_PAR /\ upActive - 1 = Cardinality(Runs(where))
    <2>1. Cardinality(Runs(at)) # 0
      BY <1>4, FS_EmptySet
    <2>2. Cardinality(Runs(where)) = Cardinality(Runs(at)) - 1
      BY <1>3, <1>4, FS_RemoveElement
    <2>3. QED
      BY <1>4, <2>1, <2>2, UploadQueueAssumption
  <1>6. Waits(upQueue, where)
    BY <1>2 DEF QueueIInv, QueueLanes, Waits, Running
  <1>7. /\ at' \in [Items -> Places]
        /\ Waits(upQueue', at')
        /\ upActive' \in 0 .. UP_PAR /\ upActive' = Cardinality(Runs(at'))
        /\ upQueue' # <<>> => upActive' = UP_PAR
        /\ \A j \in Items : at'[j] = where[j] \/ (where[j] = "queued" /\ at'[j] = "adopt")
    BY <1>1, <1>2, <1>5, <1>6, Pumped
  <1>8. QueueLanes'
    BY <1>7 DEF QueueLanes, LanesFull, Runs
  <1>9. /\ Over(at') = Over(at) \cup (Batch \cap {i}) /\ i \notin Over(at)
        /\ Announced(at') = Announced(at) \ {i}
        /\ i \in Batch => i \in Announced(at)
        /\ Dropped(at') = Dropped(at)
    BY <1>2, <1>7 DEF Over, Announced, Dropped, Running, Items
  <1>10. \A j \in Batch : /\ at'[j] = "idle" <=> at[j] = "idle"
                          /\ at[j] \in {"done", "dropped"} => at'[j] = at[j]
    BY <1>2, <1>7 DEF Running, Items
  <1>11. pending' = Cardinality(Announced(at'))
    <2>1. IsFiniteSet(Announced(at)) /\ pending = Cardinality(Announced(at))
      BY ItemsFinite DEF QueueIInv, BatchCounts, Counted
    <2>2. CASE i \in Batch
      <3>1. Cardinality(Announced(at) \ {i}) = Cardinality(Announced(at)) - 1
        BY <1>9, <2>1, <2>2, FS_RemoveElement
      <3>2. QED
        BY <1>1, <1>9, <2>1, <2>2, <3>1
    <2>3. CASE i \notin Batch
      <3>1. Announced(at') = Announced(at)
        <4>1. i \notin Announced(at)
          BY <2>3 DEF Announced
        <4>2. QED
          BY <1>9, <4>1
      <3>2. QED
        BY <1>1, <2>1, <2>3, <3>1
    <2>4. QED
      BY <2>2, <2>3
  <1>12. BatchCounts'
    <2>1. CASE i \in Batch
      <3>1. /\ tally' \in Tallies
            /\ tally'.done + tally'.failed + tally'.cancelledN
                 = tally.done + tally.failed + tally.cancelledN + 1
            /\ tally'.total = tally.total
            /\ tally'.finished => tally.finished \/ NoneLeft(at')
        BY <1>1, <2>1, CountsOne
      <3>2. Cardinality(Over(at')) = Cardinality(Over(at)) + 1
        <4>1. Over(at') = Over(at) \cup {i}
          BY <1>9, <2>1
        <4>2. QED
          BY <4>1, <1>9, ItemsFinite, FS_AddElement
      <3>3. \A j \in Batch : at[j] # "idle"
        BY <2>1 DEF QueueIInv, BatchCounts, Counted, Running
      <3>4. Counted'
        BY <1>9, <1>10, <1>11, <3>1, <3>2, <3>3 DEF QueueIInv, BatchCounts, Counted
      <3>5. ~tally.finished
        BY <2>1 DEF QueueIInv, BatchCounts, Ended, Running
      <3>6. Ended'
        <4>1. \A j \in Batch : at'[j] \in Places /\ at'[j] # "idle"
          BY <1>7, <1>10, <3>3 DEF Items
        <4>2. QED
          BY <3>1, <3>5, <4>1 DEF Ended, NoneLeft, Places
      <3>7. QED
        BY <3>1, <3>4, <3>6 DEF BatchCounts
    <2>2. CASE i \notin Batch
      <3>1. tally' = tally
        BY <1>1, <2>2 DEF Count
      <3>2. Over(at') = Over(at)
        BY <1>9, <2>2
      <3>3. Counted'
        BY <1>9, <1>10, <1>11, <3>1, <3>2 DEF QueueIInv, BatchCounts, Counted
      <3>4. Ended'
        BY <1>10, <3>1 DEF QueueIInv, BatchCounts, Ended
      <3>5. QED
        BY <3>1, <3>3, <3>4 DEF QueueIInv, BatchCounts
    <2>3. QED
      BY <2>1, <2>2
  <1>13. QED
    BY <1>2, <1>7, <1>8, <1>12

-----------------------------------------------------------------------------
(* The ways in which a step of an upload ends.                             *)
Same(i) ==
  \A j \in Items \ {i} : todo'[j] = todo[j] /\ sent'[j] = sent[j] /\ acked'[j] = acked[j]

LEMMA DoneKeeps ==
  ASSUME QueueIInv, NEW i \in Items, at[i] \in Running, NEW how \in Outcomes, done(i, how),
         faults' \in 0 .. Faults
  PROVE  QueueIInv'
  <1>1. /\ QueueLanes' /\ BatchCounts'
        /\ at'[i] = "done"
        /\ \A j \in Items \ {i} : at'[j] = at[j] \/ at'[j] = "adopt"
    BY IsOver
  <1>2. /\ outcome' = [outcome EXCEPT ![i] = "done"] /\ clicks' = [clicks EXCEPT ![i] = Untouched]
        /\ todo' = [todo EXCEPT ![i] = {}] /\ sent' = [sent EXCEPT ![i] = <<>>]
        /\ acked' = [acked EXCEPT ![i] = {}]
    BY DEF done
  <1>3. Same(i)
    BY <1>2 DEF Same, QueueIInv, UploadState
  <1>4. UploadState'
    <2>1. Untouched \in Clicks
      BY DEF Untouched, Clicks
    <2>2. /\ DOMAIN sent' = Items /\ \A j \in Items : DOMAIN sent'[j] \subseteq Pieces
      BY <1>2 DEF QueueIInv, UploadState
    <2>3. QED
      BY <1>2, <2>1, <2>2 DEF QueueIInv, UploadState, Outcomes
  <1>5. Accounted'
    BY <1>1, <1>3 DEF Same, QueueIInv, Accounted, InFlight
  <1>6. QED
    BY <1>1, <1>4, <1>5 DEF QueueIInv

LEMMA GoesKeeps ==
  ASSUME QueueIInv, NEW i \in Items, at[i] \in Running, NEW w \in Running, Goes(i, w),
         UploadState', Same(i),
         w = "send" => todo'[i] \cup InFlight(i)' \cup acked'[i] = Pieces,
         w = "complete" => acked'[i] = Pieces
  PROVE  QueueIInv'
  <1>1. QueueLanes' /\ BatchCounts'
    BY GoesOn
  <1>2. at'[i] = w /\ \A j \in Items \ {i} : at'[j] = at[j]
    BY DEF Goes, QueueIInv, QueueLanes
  <1>3. Accounted'
    BY <1>2 DEF Same, QueueIInv, Accounted, InFlight
  <1>4. QED
    BY <1>1, <1>3 DEF QueueIInv

LEMMA StaysKeeps ==
  ASSUME QueueIInv, NEW i \in Items, UNCHANGED <<upQueue, upActive, pending, tally, at>>,
         UploadState', Same(i),
         at[i] = "send" => todo'[i] \cup InFlight(i)' \cup acked'[i] = Pieces,
         at[i] = "complete" => acked'[i] = Pieces
  PROVE  QueueIInv'
  <1>1. QueueLanes' /\ BatchCounts'
    BY DEF QueueIInv, QueueLanes, Waits, LanesFull, Runs, BatchCounts, Counted, Ended, Announced, Over, Dropped
  <1>2. Accounted'
    BY DEF Same, QueueIInv, Accounted, InFlight
  <1>3. QED
    BY <1>1, <1>2 DEF QueueIInv

(* The click flags keep their type, whichever of them a step sets.         *)
LEMMA ClicksTyped ==
  ASSUME QueueIInv, NEW i \in Items, NEW b \in BOOLEAN
  PROVE  /\ [clicks EXCEPT ![i].stale = FALSE] \in [Items -> Clicks]
         /\ [clicks EXCEPT ![i].paused = b] \in [Items -> Clicks]
         /\ [clicks EXCEPT ![i].paused = FALSE, ![i].stale = FALSE] \in [Items -> Clicks]
         /\ \A j \in Items : [clicks[j] EXCEPT !.cancelled = TRUE, !.stale = TRUE] \in Clicks
  <1>1. clicks \in [Items -> Clicks]
    BY DEF QueueIInv, UploadState
  <1>2. \A c \in Clicks : /\ [c EXCEPT !.stale = FALSE] \in Clicks
                          /\ [c EXCEPT !.paused = b] \in Clicks
                          /\ [c EXCEPT !.paused = FALSE, !.stale = FALSE] \in Clicks
                          /\ [c EXCEPT !.cancelled = TRUE, !.stale = TRUE] \in Clicks
    BY DEF Clicks
  <1>3. QED
    BY <1>1, <1>2

LEMMA StartKeeps ==
  ASSUME QueueIInv, NEW i \in Items, at[i] \in Running, NEW missing \in SUBSET Pieces,
         startUpload(i, missing), faults' \in 0 .. Faults
  PROVE  QueueIInv'
  <1>1. /\ Goes(i, "send") /\ clicks' = [clicks EXCEPT ![i].stale = FALSE] /\ outcome' = outcome
        /\ todo' = [todo EXCEPT ![i] = missing] /\ sent' = [sent EXCEPT ![i] = <<>>]
        /\ acked' = [acked EXCEPT ![i] = Pieces \ missing]
    BY DEF startUpload, Begins
  <1>2. Same(i)
    BY <1>1 DEF Same, QueueIInv, UploadState
  <1>3. UploadState'
    <2>1. clicks' \in [Items -> Clicks]
      BY <1>1, ClicksTyped
    <2>2. DOMAIN sent' = Items /\ \A j \in Items : DOMAIN sent'[j] \subseteq Pieces
      BY <1>1 DEF QueueIInv, UploadState
    <2>3. QED
      BY <1>1, <2>1, <2>2 DEF QueueIInv, UploadState
  <1>4. todo'[i] \cup InFlight(i)' \cup acked'[i] = Pieces
    BY <1>1 DEF QueueIInv, UploadState, InFlight
  <1>5. QED
    BY <1>1, <1>2, <1>3, <1>4, GoesKeeps DEF Running

LEMMA AbandonedKeeps ==
  ASSUME QueueIInv, NEW i \in Items, at[i] \in Running, Abandoned(i), UNCHANGED faults
  PROVE  QueueIInv'
  <1>1. Goes(i, "adrift") /\ UNCHANGED <<todo, sent, clicks, outcome, acked, faults>>
    BY DEF Abandoned
  <1>2. UploadState' /\ Same(i)
    BY <1>1 DEF QueueIInv, UploadState, Same
  <1>3. QED
    BY <1>1, <1>2, GoesKeeps DEF Running

LEMMA OutcomeTyped == ASSUME QueueIInv, NEW i \in Items PROVE outcome[i] \in Outcomes
  BY DEF QueueIInv, UploadState

LEMMA BeginInitKeeps ==
  ASSUME QueueIInv, NEW i \in Items, at[i] \in Running, beginInit(i), faults' \in 0 .. Faults
  PROVE  QueueIInv'
  <1>1. CASE clicks[i].cancelled
    BY <1>1, DoneKeeps, OutcomeTyped DEF beginInit
  <1>2. CASE ~clicks[i].cancelled
    <2>1. /\ Goes(i, "init") /\ clicks' = [clicks EXCEPT ![i].stale = FALSE]
          /\ UNCHANGED <<todo, sent, outcome, acked>>
      BY <1>2 DEF beginInit, Begins
    <2>2. UploadState' /\ Same(i)
      BY <2>1, ClicksTyped DEF QueueIInv, UploadState, Same
    <2>3. QED
      BY <2>1, <2>2, GoesKeeps DEF Running
  <1>3. QED
    BY <1>1, <1>2

LEMMA ElsewhereKeeps ==
  ASSUME QueueIInv, NEW i \in Items, at[i] \in Running, Elsewhere(i), faults' \in 0 .. Faults
  PROVE  QueueIInv'
  BY DoneKeeps, BeginInitKeeps DEF Elsewhere, Outcomes

LEMMA BreaksKeeps ==
  ASSUME QueueIInv, NEW i \in Items, at[i] \in Running, Breaks(i), faults' \in 0 .. Faults
  PROVE  QueueIInv'
  <1>1. CASE clicks[i].cancelled
    BY <1>1, DoneKeeps, OutcomeTyped DEF Breaks
  <1>2. CASE ~clicks[i].cancelled
    <2>1. /\ Goes(i, "awaiting") /\ clicks' = [clicks EXCEPT ![i].paused = TRUE]
          /\ outcome' = [outcome EXCEPT ![i] = "failed"]
          /\ todo' = [todo EXCEPT ![i] = {}] /\ sent' = [sent EXCEPT ![i] = <<>>] /\ acked' = acked
      BY <1>2 DEF Breaks, BrokenOff
    <2>2. DOMAIN sent' = Items /\ \A j \in Items : DOMAIN sent'[j] \subseteq Pieces
      BY <2>1 DEF QueueIInv, UploadState
    <2>3. UploadState'
      BY <2>1, <2>2, ClicksTyped DEF QueueIInv, UploadState, Outcomes
    <2>4. Same(i)
      BY <2>1 DEF QueueIInv, UploadState, Same
    <2>5. QED
      BY <2>1, <2>3, <2>4, GoesKeeps DEF Running
  <1>3. QED
    BY <1>1, <1>2

LEMMA FaultsTyped == QueueIInv /\ (Helps \/ Hurts) => faults' \in 0 .. Faults
  BY UploadQueueAssumption DEF QueueIInv, UploadState, Helps, Hurts

-----------------------------------------------------------------------------
(* The answers.                                                            *)
LEMMA AnswersKeep ==
  ASSUME QueueIInv, NEW i \in Items,
         Adopted(i) \/ AdoptedAgain(i) \/ InitAnswered(i) \/ Completed(i) \/ Resumed(i)
  PROVE  QueueIInv'
  <1>1. at[i] \in Running
    BY DEF Adopted, AdoptedAgain, InitAnswered, Completed, Resumed, Running
  <1>2. faults' \in 0 .. Faults
    BY FaultsTyped DEF Adopted, AdoptedAgain, InitAnswered, Completed, Resumed
  <1>3. \/ Helps /\ Abandoned(i)
        \/ \E missing \in SUBSET Pieces : startUpload(i, missing)
        \/ Elsewhere(i) \/ Breaks(i)
        \/ i \in Batch /\ Goes(i, "again") /\ UNCHANGED <<todo, sent, clicks, outcome, acked>>
        \/ done(i, "failed") \/ done(i, outcome[i])
    <2>1. CASE Adopted(i)
      <3>1. \A missing \in SUBSET Pieces :
              (IF i \in Batch /\ missing = {} THEN Pieces ELSE missing) \in SUBSET Pieces
        OBVIOUS
      <3>2. QED
        BY <2>1, <3>1 DEF Adopted
    <2>2. CASE AdoptedAgain(i)
      BY <2>2 DEF AdoptedAgain
    <2>3. CASE InitAnswered(i)
      BY <2>3 DEF InitAnswered
    <2>4. CASE Completed(i)
      BY <2>4 DEF Completed
    <2>5. CASE Resumed(i)
      BY <2>5 DEF Resumed
    <2>6. QED
      BY <2>1, <2>2, <2>3, <2>4, <2>5
  <1>4. CASE Helps /\ Abandoned(i)
    BY <1>1, <1>4, AbandonedKeeps DEF Helps
  <1>5. CASE \E missing \in SUBSET Pieces : startUpload(i, missing)
    BY <1>1, <1>2, <1>5, StartKeeps
  <1>6. CASE Elsewhere(i) \/ Breaks(i)
    BY <1>1, <1>2, <1>6, ElsewhereKeeps, BreaksKeeps
  <1>7. CASE Goes(i, "again") /\ UNCHANGED <<todo, sent, clicks, outcome, acked>>
    <2>1. UploadState' /\ Same(i)
      BY <1>2, <1>7 DEF QueueIInv, UploadState, Same
    <2>2. QED
      BY <1>1, <1>7, <2>1, GoesKeeps DEF Running
  <1>8. CASE done(i, "failed") \/ done(i, outcome[i])
    BY <1>1, <1>2, <1>8, DoneKeeps, OutcomeTyped DEF Outcomes
  <1>9. QED
    BY <1>3, <1>4, <1>5, <1>6, <1>7, <1>8

(* The lanes of an upload: a piece is taken from the queue before it is in *)
(* flight, and is in flight until it is accepted.                          *)
LEMMA LanesKeep ==
  ASSUME QueueIInv, NEW i \in Items, NEW p \in Pieces,
         launch(i, p) \/ PieceAccepted(i, p) \/ PieceRetried(i, p)
  PROVE  QueueIInv'
  <1>1. /\ at[i] = "send" /\ UNCHANGED <<upQueue, upActive, pending, tally, at, clicks, outcome>>
        /\ faults' \in 0 .. Faults
    BY FaultsTyped, UploadQueueAssumption DEF launch, PieceAccepted, PieceRetried, Helps
  <1>2. /\ todo \in [Items -> SUBSET Pieces] /\ acked \in [Items -> SUBSET Pieces]
        /\ DOMAIN sent = Items /\ \A j \in Items : DOMAIN sent[j] \subseteq Pieces
        /\ todo[i] \cup DOMAIN sent[i] \cup acked[i] = Pieces
    BY <1>1 DEF QueueIInv, UploadState, Accounted, InFlight
  <1>3. /\ DOMAIN With(sent[i], p, 0) = DOMAIN sent[i] \cup {p}
        /\ DOMAIN With(sent[i], p, sent[i][p] + 1) = DOMAIN sent[i] \cup {p}
        /\ DOMAIN Without(sent[i], p) = DOMAIN sent[i] \ {p}
    BY DEF With, Without
  <1>4. PICK d \in SUBSET Pieces : todo' = [todo EXCEPT ![i] = d]
    <2>1. CASE launch(i, p)
      BY <1>2, <2>1 DEF launch
    <2>2. CASE PieceAccepted(i, p)
      BY <1>2, <2>2 DEF PieceAccepted
    <2>3. CASE PieceRetried(i, p)
      BY <1>2, <2>3 DEF PieceRetried
    <2>4. QED
      BY <2>1, <2>2, <2>3
  <1>5. PICK g : sent' = [sent EXCEPT ![i] = g] /\ DOMAIN g \subseteq Pieces
    <2>1. CASE launch(i, p)
      <3>1. sent' = [sent EXCEPT ![i] = With(sent[i], p, 0)]
        BY <2>1 DEF launch
      <3>2. DOMAIN With(sent[i], p, 0) \subseteq Pieces
        BY <1>2, <1>3
      <3>3. QED
        BY <3>1, <3>2
    <2>2. CASE PieceAccepted(i, p)
      BY <1>2, <1>3, <2>2 DEF PieceAccepted
    <2>3. CASE PieceRetried(i, p)
      <3>1. sent' = [sent EXCEPT ![i] = With(sent[i], p, sent[i][p] + 1)]
        BY <2>3 DEF PieceRetried
      <3>2. DOMAIN With(sent[i], p, sent[i][p] + 1) \subseteq Pieces
        BY <1>2, <1>3
      <3>3. QED
        BY <3>1, <3>2
    <2>4. QED
      BY <2>1, <2>2, <2>3
  <1>6. acked' \in [Items -> SUBSET Pieces] /\ \A j \in Items \ {i} : acked'[j] = acked[j]
    BY <1>2 DEF launch, PieceAccepted, PieceRetried
  <1>7. UploadState'
    BY <1>1, <1>2, <1>4, <1>5, <1>6 DEF QueueIInv, UploadState
  <1>8. Same(i)
    BY <1>2, <1>4, <1>5, <1>6 DEF Same
  <1>9. todo'[i] \cup DOMAIN sent'[i] \cup acked'[i] = Pieces
    <2>1. CASE launch(i, p)
      BY <1>2, <1>3, <2>1 DEF launch
    <2>2. CASE PieceAccepted(i, p)
      BY <1>2, <1>3, <2>2 DEF PieceAccepted
    <2>3. CASE PieceRetried(i, p)
      BY <1>2, <1>3, <2>3 DEF PieceRetried, InFlight
    <2>4. QED
      BY <2>1, <2>2, <2>3
  <1>10. QED
    BY <1>1, <1>7, <1>8, <1>9, StaysKeeps DEF InFlight

(* An upload breaks off, or its lanes find every piece sent.               *)
LEMMA LanesEnd ==
  ASSUME QueueIInv, NEW i \in Items,
         (\E p \in Pieces : PieceFailed(i, p)) \/ SendCancelled(i) \/ LanesDone(i)
  PROVE  QueueIInv'
  <1>1. at[i] = "send" /\ at[i] \in Running
    BY DEF PieceFailed, SendCancelled, LanesDone, Running
  <1>2. CASE (\E p \in Pieces : PieceFailed(i, p)) \/ SendCancelled(i)
    <2>1. Breaks(i) /\ faults' \in 0 .. Faults
      BY <1>2, FaultsTyped DEF PieceFailed, SendCancelled
    <2>2. QED
      BY <1>1, <2>1, BreaksKeeps
  <1>3. CASE LanesDone(i)
    <2>1. /\ Goes(i, "complete") /\ UNCHANGED <<todo, sent, clicks, outcome, faults, acked>>
          /\ todo[i] = {} /\ InFlight(i) = {}
      BY <1>3 DEF LanesDone, AllSent
    <2>2. UploadState' /\ Same(i)
      BY <2>1 DEF QueueIInv, UploadState, Same
    <2>3. acked'[i] = Pieces
      BY <1>1, <2>1 DEF QueueIInv, Accounted
    <2>4. QED
      BY <1>1, <2>1, <2>2, <2>3, GoesKeeps DEF Running
  <1>4. QED
    BY <1>2, <1>3

-----------------------------------------------------------------------------
(* The buttons.                                                            *)
LEMMA PauseKeeps ==
  ASSUME QueueIInv, NEW i \in Items, PauseClick(i)
  PROVE  QueueIInv'
  <1>1. at[i] \in Running /\ UNCHANGED <<todo, sent, outcome, faults, acked>>
    BY DEF PauseClick
  <1>2. Same(i)
    BY <1>1 DEF Same
  <1>3. clicks' \in [Items -> Clicks] => UploadState'
    BY <1>1 DEF QueueIInv, UploadState
  <1>4. CASE at[i] = "awaiting"
    <2>1. Goes(i, "resume") /\ clicks' = [clicks EXCEPT ![i].paused = FALSE, ![i].stale = FALSE]
      BY <1>4 DEF PauseClick
    <2>2. UploadState'
      BY <1>3, <2>1, ClicksTyped
    <2>3. QED
      BY <1>1, <1>2, <2>1, <2>2, GoesKeeps DEF Running
  <1>5. CASE at[i] # "awaiting"
    <2>1. /\ UNCHANGED <<upQueue, upActive, pending, tally, at>>
          /\ clicks' = [clicks EXCEPT ![i].paused = ~ @]
      BY <1>5 DEF PauseClick
    <2>2. PICK b \in BOOLEAN : b = ~ clicks[i].paused
      OBVIOUS
    <2>3. clicks' = [clicks EXCEPT ![i].paused = b]
      BY <2>1, <2>2
    <2>4. UploadState'
      BY <1>3, <2>3, ClicksTyped
    <2>5. /\ at[i] = "send" => todo'[i] \cup InFlight(i)' \cup acked'[i] = Pieces
          /\ at[i] = "complete" => acked'[i] = Pieces
      BY <1>1 DEF QueueIInv, Accounted, InFlight
    <2>6. QED
      BY <1>2, <2>1, <2>4, <2>5, StaysKeeps
  <1>6. QED
    BY <1>4, <1>5

LEMMA CancelledTyped ==
  ASSUME QueueIInv, NEW S, Cancelled(S), UNCHANGED <<todo, sent, faults, acked>>
  PROVE  UploadState'
  <1>1. \A j \in Items : [clicks[j] EXCEPT !.cancelled = TRUE, !.stale = TRUE] \in Clicks
    BY ClicksTyped
  <1>2. clicks' \in [Items -> Clicks]
    BY <1>1 DEF Cancelled, QueueIInv, UploadState
  <1>3. outcome' \in [Items -> Outcomes]
    BY DEF Cancelled, QueueIInv, UploadState, Outcomes
  <1>4. QED
    BY <1>2, <1>3 DEF QueueIInv, UploadState

LEMMA CancelKeeps ==
  ASSUME QueueIInv, NEW i \in Items, CancelClick(i)
  PROVE  QueueIInv'
  <1>1. /\ UNCHANGED <<upQueue, upActive, pending, tally, at, todo, sent, faults, acked>>
        /\ Cancelled({i})
    BY DEF CancelClick
  <1>2. UploadState'
    BY <1>1, CancelledTyped
  <1>3. Same(i)
    BY <1>1 DEF Same
  <1>4. /\ at[i] = "send" => todo'[i] \cup InFlight(i)' \cup acked'[i] = Pieces
        /\ at[i] = "complete" => acked'[i] = Pieces
    BY <1>1 DEF QueueIInv, Accounted, InFlight
  <1>5. QED
    BY <1>1, <1>2, <1>3, <1>4, StaysKeeps

LEMMA CancelBatchKeeps == QueueIInv /\ cancelBatch => QueueIInv'
  <1> SUFFICES ASSUME QueueIInv, cancelBatch PROVE QueueIInv'
    OBVIOUS
  <1> DEFINE waiting == {i \in Batch : at[i] = "queued"}
             where == [i \in Items |-> IF i \in waiting THEN "dropped" ELSE at[i]]
  <1>1. /\ ~tally.finished /\ \A i \in Batch : at[i] # "idle"
        /\ upQueue' = Kept(upQueue, waiting) /\ at' = where
        /\ tally' = [tally EXCEPT !.cancelled = TRUE, !.total = @ - Cardinality(waiting),
                                  !.finished = NoneLeft(where)]
        /\ Cancelled({i \in Batch : at[i] \in Running})
        /\ UNCHANGED <<upActive, pending, todo, sent, faults, acked>>
    BY DEF cancelBatch
  <1>2. at \in [Items -> Places] /\ Waits(upQueue, at)
    BY DEF QueueIInv, QueueLanes
  <1>3. Waits(upQueue', at') /\ (upQueue' # <<>> => upQueue # <<>>)
    BY <1>1, <1>2, KeptWaits
  <1>4. /\ at' \in [Items -> Places]
        /\ \A i \in Items : at'[i] = at[i] \/ (i \in waiting /\ at[i] = "queued" /\ at'[i] = "dropped")
        /\ \A i \in waiting : i \in Items /\ at'[i] = "dropped"
    BY <1>1, <1>2 DEF Places, Items
  <1>5. /\ Runs(at') = Runs(at) /\ Over(at') = Over(at) /\ Announced(at') = Announced(at)
        /\ Dropped(at') = Dropped(at) \cup waiting /\ Dropped(at) \cap waiting = {}
    BY <1>4 DEF Runs, Running, Over, Announced, Dropped, Items
  <1>6. QueueLanes'
    BY <1>1, <1>3, <1>4, <1>5 DEF QueueIInv, QueueLanes, LanesFull, Runs
  <1>7. /\ IsFiniteSet(waiting) /\ Cardinality(waiting) \in Nat
        /\ Cardinality(Dropped(at')) = Cardinality(Dropped(at)) + Cardinality(waiting)
    <2>1. waiting \in SUBSET Batch
      OBVIOUS
    <2>2. IsFiniteSet(waiting) /\ Cardinality(waiting) \in Nat
      BY <2>1, UploadQueueAssumption, FS_Subset, FS_CardinalityType
    <2>3. IsFiniteSet(Dropped(at)) /\ Cardinality(Dropped(at)) \in Nat
      BY ItemsFinite
    <2> HIDE DEF waiting
    <2>4. Cardinality(Dropped(at) \cup waiting)
            = Cardinality(Dropped(at)) + Cardinality(waiting) - Cardinality(Dropped(at) \cap waiting)
      BY <2>2, <2>3, FS_Union
    <2>5. Cardinality(Dropped(at) \cap waiting) = 0
      BY <1>5, FS_EmptySet
    <2>6. QED
      BY <1>5, <2>2, <2>3, <2>4, <2>5
  <1>8. PICK over \in BOOLEAN : over = NoneLeft(where)
    BY DEF NoneLeft
  <1> DEFINE left == tally.total - Cardinality(waiting)
  <1>9. tally' = [tally EXCEPT !.cancelled = TRUE, !.total = left, !.finished = over]
    BY <1>1, <1>8
  <1>10. tally \in Tallies /\ left \in Nat
    <2>1. tally \in Tallies /\ tally.total \in Nat /\ tally.total + Cardinality(Dropped(at)) = Cardinality(Batch)
      BY DEF QueueIInv, BatchCounts, Counted, Tallies
    <2>2. /\ Cardinality(Dropped(at)) \in Nat /\ Cardinality(Batch) \in Nat
          /\ Cardinality(Dropped(at')) <= Cardinality(Batch)
      BY ItemsFinite, UploadQueueAssumption, FS_CardinalityType
    <2>3. QED
      BY <1>7, <2>1, <2>2
  <1> HIDE DEF left
  <1>11. /\ tally' \in Tallies /\ tally'.total = left /\ tally'.done = tally.done
         /\ tally'.failed = tally.failed /\ tally'.cancelledN = tally.cancelledN
    BY <1>9, <1>10 DEF Tallies
  <1>12. tally'.finished = over
    BY <1>9, <1>10, Zenon DEF Tallies
  <1>13. Counted'
    <2>1. tally'.total + Cardinality(Dropped(at')) = Cardinality(Batch)
      <3>1. tally.total + Cardinality(Dropped(at)) = Cardinality(Batch) /\ tally.total \in Nat
        BY <1>10 DEF QueueIInv, BatchCounts, Counted, Tallies
      <3>2. Cardinality(Dropped(at)) \in Nat
        BY ItemsFinite
      <3>3. QED
        BY <1>7, <1>11, <3>1, <3>2 DEF left
    <2>2. \A i \in Batch : at'[i] # "idle"
      BY <1>1, <1>4 DEF Items
    <2>3. QED
      BY <1>1, <1>5, <1>11, <2>1, <2>2 DEF QueueIInv, BatchCounts, Counted
  <1>14. Ended'
    <2>1. \A i \in Batch : at'[i] \in Places /\ at'[i] # "idle"
      BY <1>1, <1>4 DEF Items
    <2>2. tally'.finished => NoneLeft(at')
      BY <1>1, <1>8, <1>12
    <2>3. QED
      BY <2>1, <2>2 DEF Ended, NoneLeft, Places
  <1>15. UploadState'
    BY <1>1, CancelledTyped
  <1>16. Accounted'
    BY <1>1, <1>4 DEF QueueIInv, Accounted, InFlight
  <1>17. QED
    BY <1>6, <1>11, <1>13, <1>14, <1>15, <1>16 DEF QueueIInv, BatchCounts

-----------------------------------------------------------------------------
(* Uploads that are enqueued.                                              *)
LEMMA EnqueueKeeps ==
  ASSUME QueueIInv, NEW S, S \subseteq Items, \A i \in S : at[i] = "idle", Enqueue(S),
         UNCHANGED <<todo, sent, clicks, outcome, faults, acked>>
  PROVE  /\ QueueLanes' /\ UploadState' /\ Accounted'
         /\ \A i \in S : at'[i] \in {"queued", "adopt"}
         /\ \A i \in Items \ S : at'[i] = at[i] \/ (at[i] = "queued" /\ at'[i] = "adopt")
  <1> DEFINE where == [i \in Items |-> IF i \in S THEN "queued" ELSE at[i]]
             q == upQueue \o Numbered(S)
  <1>1. at \in [Items -> Places] /\ Waits(upQueue, at) /\ upActive \in 0 .. UP_PAR
    BY DEF QueueIInv, QueueLanes
  <1>2. Waits(q, where)
    BY <1>1, EnqueueWaits
  <1>3. /\ where \in [Items -> Places]
        /\ \A i \in S : where[i] = "queued"
        /\ \A i \in Items \ S : where[i] = at[i]
    BY <1>1 DEF Places
  <1>4. pumpQueue(q, upActive, where)
    BY DEF Enqueue
  <1> HIDE DEF where, q
  <1>5. \A i \in S : at[i] \notin Running /\ where[i] \notin Running
    BY <1>3 DEF Running
  <1>6. Runs(where) = Runs(at)
    BY <1>3, <1>5 DEF Runs
  <1>7. upActive = Cardinality(Runs(where))
    BY <1>6 DEF QueueIInv, QueueLanes, LanesFull, Runs
  <1>8. /\ at' \in [Items -> Places]
        /\ Waits(upQueue', at')
        /\ upActive' \in 0 .. UP_PAR /\ upActive' = Cardinality(Runs(at'))
        /\ upQueue' # <<>> => upActive' = UP_PAR
        /\ \A i \in Items : at'[i] = where[i] \/ (where[i] = "queued" /\ at'[i] = "adopt")
    BY <1>1, <1>2, <1>3, <1>4, <1>7, Pumped
  <1>9. QueueLanes'
    BY <1>8 DEF QueueLanes, LanesFull, Runs
  <1>10. \A i \in S : at'[i] \in {"queued", "adopt"}
    BY <1>3, <1>8
  <1>11. \A i \in Items \ S : at'[i] = at[i] \/ (at[i] = "queued" /\ at'[i] = "adopt")
    BY <1>3, <1>8
  <1>12. UploadState'
    BY DEF QueueIInv, UploadState
  <1>13. Accounted'
    BY <1>10, <1>11 DEF QueueIInv, Accounted, InFlight
  <1>14. QED
    BY <1>9, <1>10, <1>11, <1>12, <1>13

LEMMA PickKeeps ==
  ASSUME QueueIInv, NEW i \in Items, PickSession(i)
  PROVE  QueueIInv'
  <1>1. i \in Picked /\ i \notin Batch
    BY UploadQueueAssumption DEF PickSession
  <1>2. /\ QueueLanes' /\ UploadState' /\ Accounted'
        /\ \A j \in Items \ {i} : at'[j] = at[j] \/ (at[j] = "queued" /\ at'[j] = "adopt")
    BY EnqueueKeeps DEF PickSession
  <1>3. \A j \in Batch : at'[j] = at[j] \/ (at[j] = "queued" /\ at'[j] = "adopt")
    BY <1>1, <1>2 DEF Items
  <1>4. Over(at') = Over(at) /\ Dropped(at') = Dropped(at) /\ Announced(at') = Announced(at)
    BY <1>3 DEF Over, Dropped, Announced
  <1>5. BatchCounts'
    <2>1. UNCHANGED <<pending, tally>>
      BY DEF PickSession
    <2>2. Counted'
      BY <1>3, <1>4, <2>1 DEF QueueIInv, BatchCounts, Counted
    <2>3. Ended'
      BY <1>3, <2>1 DEF QueueIInv, BatchCounts, Ended
    <2>4. QED
      BY <2>1, <2>2, <2>3 DEF QueueIInv, BatchCounts
  <1>6. QED
    BY <1>2, <1>5 DEF QueueIInv

LEMMA PublishKeeps == QueueIInv /\ sharePublishItems => QueueIInv'
  <1> SUFFICES ASSUME QueueIInv, sharePublishItems PROVE QueueIInv'
    OBVIOUS
  <1>1. /\ \A i \in Batch : at[i] = "idle"
        /\ Batch # {} /\ Enqueue(Batch)
        /\ pending' = pending + Cardinality(Batch)
        /\ UNCHANGED <<tally, todo, sent, clicks, outcome, faults, acked>>
    BY DEF sharePublishItems
  <1>2. /\ QueueLanes' /\ UploadState' /\ Accounted'
        /\ \A i \in Batch : at'[i] \in {"queued", "adopt"}
    <2>1. Batch \subseteq Items
      BY DEF Items
    <2>2. UNCHANGED <<todo, sent, clicks, outcome, faults, acked>>
      BY <1>1
    <2>3. QED
      BY <1>1, <2>1, <2>2, EnqueueKeeps
  <1>3. /\ Over(at) = {} /\ Over(at') = {} /\ Dropped(at) = {} /\ Dropped(at') = {}
        /\ Announced(at) = {} /\ Announced(at') = Batch
    BY <1>1, <1>2 DEF Over, Dropped, Announced
  <1>4. Cardinality({}) = 0 /\ Cardinality(Batch) \in Nat
    BY UploadQueueAssumption, FS_CardinalityType, FS_EmptySet
  <1>5. pending' = Cardinality(Announced(at'))
    BY <1>1, <1>3, <1>4 DEF QueueIInv, BatchCounts, Counted
  <1>6. Counted'
    BY <1>1, <1>2, <1>3, <1>5 DEF QueueIInv, BatchCounts, Counted
  <1>7. ~tally.finished
    <2>1. Ended
      BY DEF QueueIInv, BatchCounts
    <2>2. PICK i \in Batch : at[i] = "idle"
      BY <1>1
    <2>3. QED
      BY <2>1, <2>2 DEF Ended
  <1>8. BatchCounts'
    BY <1>1, <1>6, <1>7 DEF QueueIInv, BatchCounts, Ended
  <1>9. QED
    BY <1>2, <1>8 DEF QueueIInv

-----------------------------------------------------------------------------
LEMMA QueueStep == QueueIInv /\ [Next]_vars => QueueIInv'
  <1> SUFFICES ASSUME QueueIInv, [Next]_vars PROVE QueueIInv'
    OBVIOUS
  <1>1. CASE sharePublishItems
    BY <1>1, PublishKeeps
  <1>2. CASE cancelBatch
    BY <1>2, CancelBatchKeeps
  <1>3. ASSUME NEW i \in Items, PickSession(i) \/ PauseClick(i) \/ CancelClick(i)
        PROVE  QueueIInv'
    BY <1>3, PickKeeps, PauseKeeps, CancelKeeps
  <1>4. ASSUME NEW i \in Items, Answer(i) PROVE QueueIInv'
    BY <1>4, AnswersKeep, LanesKeep, LanesEnd DEF Answer
  <1>5. CASE UNCHANGED vars
    BY <1>5 DEF vars, QueueIInv, QueueLanes, Waits, LanesFull, Runs, BatchCounts, Counted, Ended,
                Announced, Over, Dropped, UploadState, Accounted, InFlight
  <1>6. QED
    BY <1>1, <1>2, <1>3, <1>4, <1>5 DEF Next

LEMMA QueueAlways == Spec => []QueueIInv
  BY QueueFirst, QueueStep, PTL DEF Spec

(* The lanes of the queue are counted, and none idles while uploads wait.  *)
THEOREM QueueCorrect == Spec => []QueueInv
  <1>1. QueueIInv => QueueInv
    BY QueueTyped DEF QueueIInv, QueueLanes, QueueInv
  <1>2. QED
    BY <1>1, QueueAlways, PTL

(* A file is completed only when the server has accepted every piece.      *)
THEOREM CompletedWhole == Spec => []WholeBeforeComplete
  <1>1. QueueIInv => WholeBeforeComplete
    BY DEF QueueIInv, Accounted, WholeBeforeComplete
  <1>2. QED
    BY <1>1, QueueAlways, PTL

(* A batch that says it is finished has nothing left, and adds up.         *)
THEOREM BatchAddsUp == Spec => []BatchIsOver
  <1>1. QueueIInv => BatchIsOver
    <2> SUFFICES ASSUME QueueIInv, tally.finished
                 PROVE  /\ \A i \in Batch : at[i] \in {"done", "dropped"}
                        /\ tally.done + tally.failed + tally.cancelledN = tally.total
      BY DEF BatchIsOver
    <2>1. \A i \in Batch : at[i] \in {"done", "dropped"}
      BY DEF QueueIInv, BatchCounts, Ended
    <2>2. Batch = Over(at) \cup Dropped(at) /\ Over(at) \cap Dropped(at) = {}
      BY <2>1 DEF Over, Dropped
    <2>3. /\ IsFiniteSet(Over(at)) /\ IsFiniteSet(Dropped(at))
          /\ Cardinality(Over(at)) \in Nat /\ Cardinality(Dropped(at)) \in Nat
      BY ItemsFinite
    <2>4. Cardinality(Over(at) \cup Dropped(at))
            = Cardinality(Over(at)) + Cardinality(Dropped(at)) - Cardinality(Over(at) \cap Dropped(at))
      BY <2>3, FS_Union
    <2>5. Cardinality(Over(at) \cap Dropped(at)) = 0
      BY <2>2, FS_EmptySet
    <2>6. /\ tally.done + tally.failed + tally.cancelledN = Cardinality(Over(at))
          /\ tally.total + Cardinality(Dropped(at)) = Cardinality(Batch) /\ tally.total \in Nat
      BY DEF QueueIInv, BatchCounts, Counted, Tallies
    <2>7. Cardinality(Batch) = Cardinality(Over(at)) + Cardinality(Dropped(at))
      BY <2>2, <2>3, <2>4, <2>5
    <2>8. QED
      BY <2>1, <2>3, <2>6, <2>7
  <1>2. QED
    BY <1>1, QueueAlways, PTL
=============================================================================
