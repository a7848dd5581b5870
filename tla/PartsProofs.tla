----------------------------- MODULE PartsProofs -----------------------------
(***************************************************************************)
(* The parts that MCParts checks side by side, for any sizes and any       *)
(* number of requests: the bytes of a range that is asked for, the list of *)
(* a directory from its caches, the hash of a file from its cache, the     *)
(* accounting of what has been uploaded by lists of intervals, the length  *)
(* of a folder archive, what a start makes of the files it finds, what an  *)
(* uploaded archive is unpacked to, and what the walks over a folder list  *)
(* and its archives hold.  At the end, that all of it holds of MCSpec.     *)
(***************************************************************************)
EXTENDS MCParts, FiniteSetTheorems, FunctionTheorems, WellFoundedInduction, TLAPS

-----------------------------------------------------------------------------
(* Ranges.  The parser gives a part of the file exactly when the header    *)
(* asks for some of its bytes, and then those.                             *)
LEMMA RequestTyped ==
  ASSUME NEW q \in Requests
  PROVE  /\ q.size \in Nat
         /\ q.range \in SuffixRanges \cup Spans206 \cup OtherRanges
         /\ q.method \in {"GET", "HEAD"}
         /\ q.ifNone \in {"", "same", "other"} /\ q.ifRange \in {"", "same", "other"}
  <1>1. q.size \in Sizes
    BY DEF Requests
  <1>2. q.range \in SuffixRanges \cup Spans206 \cup OtherRanges
    BY DEF Requests
  <1>3. /\ q.method \in {"GET", "HEAD"}
        /\ q.ifNone \in {"", "same", "other"} /\ q.ifRange \in {"", "same", "other"}
    BY DEF Requests
  <1>4. q.size \in Nat
    BY <1>1, ByteRangeAssumption DEF Sizes
  <1>5. QED
    BY <1>2, <1>3, <1>4

LEMMA ParsedIsAsked ==
  ASSUME NEW q \in Requests
  PROVE  LET p == parseRange(q.range, q.size) IN
         /\ p.partial \in BOOLEAN
         /\ p.partial => AskedBytes(q) # {} /\ p.start .. p.end = AskedBytes(q)
         /\ ~p.partial /\ q.range.kind # "none" => AskedBytes(q) = {}
  <1> DEFINE r == q.range
             size == q.size
             first == FirstByte(size, r)
             last == LastByte(size, r)
             asked == AskedBytes(q)
             p == parseRange(r, size)
  <1>1. size \in Nat /\ r \in SuffixRanges \cup Spans206 \cup OtherRanges
    BY RequestTyped
  <1>2. CASE r \in OtherRanges
    <2>1. r.kind \in {"none", "bad"}
      BY <1>2 DEF OtherRanges
    <2>2. p = WholeFile(size) /\ (r.kind # "none" => asked = {})
      BY <2>1 DEF parseRange, AskedBytes
    <2>3. QED
      BY <2>2 DEF WholeFile
  <1>3. ASSUME r.kind \in {"suffix", "span"}, first \in Int, last \in Int,
               asked = {b \in 0 .. size - 1 : first <= b /\ b <= last},
               first >= 0, last < size
        PROVE  /\ p.partial \in BOOLEAN
               /\ p.partial => asked # {} /\ p.start .. p.end = asked
               /\ ~p.partial => asked = {}
    <2> HIDE DEF first, last, asked
    <2>1. CASE size > 0 /\ first <= last
      <3>1. p = [start |-> first, end |-> last, partial |-> TRUE]
        BY <1>1, <1>3, <2>1 DEF parseRange, first, last
      <3>2. asked = first .. last /\ first \in asked
        BY <1>1, <1>3, <2>1
      <3>3. QED
        BY <3>1, <3>2
    <2>2. CASE ~(size > 0 /\ first <= last)
      <3>1. p = WholeFile(size)
        BY <1>1, <1>3, <2>2 DEF parseRange, first, last
      <3>2. asked = {}
        BY <1>1, <1>3, <2>2
      <3>3. QED
        BY <3>1, <3>2 DEF WholeFile
    <2>3. QED
      BY <1>1, <1>3, <2>1, <2>2
  <1>4. CASE r \in SuffixRanges
    <2>1. r.kind = "suffix" /\ r.n \in Int
      BY <1>4 DEF SuffixRanges, Numbers
    <2>2. /\ first = IF size - r.n < 0 THEN 0 ELSE size - r.n
          /\ last = size - 1
          /\ asked = {b \in 0 .. size - 1 : b >= size - r.n}
      BY <2>1 DEF FirstByte, LastByte, AskedBytes, FileBytes
    <2>3. QED
      BY <1>1, <1>3, <2>1, <2>2
  <1>5. CASE r \in Spans206
    <2>1. /\ r.kind = "span"
          /\ r.s = Blank \/ r.s \in Nat
          /\ r.e = Blank \/ r.e \in Int
      BY <1>5 DEF Spans206, Numbers
    <2>2. /\ first = (IF r.s = Blank THEN 0 ELSE r.s)
          /\ last = (IF r.e = Blank THEN size - 1 ELSE IF r.e > size - 1 THEN size - 1 ELSE r.e)
          /\ asked = {b \in 0 .. size - 1 : /\ (r.s = Blank \/ r.s <= b)
                                            /\ (r.e = Blank \/ b <= r.e)}
      BY <2>1 DEF FirstByte, LastByte, Clamp, AskedBytes, FileBytes
    <2>3. QED
      BY <1>1, <1>3, <2>1, <2>2
  <1>6. QED
    BY <1>1, <1>2, <1>4, <1>5

(* The answer to one request.                                              *)
LEMMA AnswerIsRight ==
  ASSUME NEW q \in Requests
  PROVE  LET a == handleDownload(q)
             asked == AskedBytes(q) IN
         /\ a.status = 206 => a.body = asked /\ a.body # {} /\ q.ifRange # "other"
         /\ a.status = 416 => asked = {}
         /\ a.status = 304 => q.ifNone # "other"
         /\ a.status = 200 /\ q.method = "GET" =>
              /\ a.body = FileBytes(q)
              /\ \/ q.range.kind = "none"
                 \/ q.ifRange = "other"
                 \/ q.ifRange = "same" /\ asked = {}
         /\ a.status = 200 => a.length = Cardinality(FileBytes(q))
  <1> DEFINE p == parseRange(q.range, q.size)
             partial == p.partial /\ ifRangeAllowsPartial(q)
             cached == etagMatches(q) \/ modifiedSinceAllowsNotModified(q)
             refused == q.range.kind # "none" /\ ~partial /\ q.ifRange = ""
             a == handleDownload(q)
             asked == AskedBytes(q)
  <1>1. /\ p.partial \in BOOLEAN
        /\ p.partial => asked # {} /\ p.start .. p.end = asked
        /\ ~p.partial /\ q.range.kind # "none" => asked = {}
    BY ParsedIsAsked
  <1>2. /\ q.size \in Nat /\ q.method \in {"GET", "HEAD"}
        /\ q.ifNone \in {"", "same", "other"} /\ q.ifRange \in {"", "same", "other"}
    BY RequestTyped
  <1>3. a = CASE cached -> Carries(304, {})
              [] ~cached /\ q.method = "HEAD" -> [status |-> 200, body |-> {}, length |-> q.size]
              [] ~cached /\ q.method = "GET" /\ refused -> Carries(416, {})
              [] ~cached /\ q.method = "GET" /\ partial -> Carries(206, p.start .. p.end)
              [] OTHER -> Carries(200, 0 .. q.size - 1)
    BY DEF handleDownload
  <1>4. refused => asked = {} /\ ~partial
    BY <1>1 DEF ifRangeAllowsPartial
  <1>5. partial => asked # {} /\ p.start .. p.end = asked /\ q.ifRange # "other"
    BY <1>1 DEF ifRangeAllowsPartial
  <1>6. ~partial /\ ~refused => \/ q.range.kind = "none"
                                \/ q.ifRange = "other"
                                \/ q.ifRange = "same" /\ asked = {}
    BY <1>1, <1>2 DEF ifRangeAllowsPartial
  <1>7. cached => q.ifNone # "other"
    BY DEF etagMatches, modifiedSinceAllowsNotModified
  <1>8. Cardinality(FileBytes(q)) = q.size
    <2>1. q.size \in Nat
      BY <1>2
    <2>2. Cardinality(0 .. q.size - 1) = IF 0 > q.size - 1 THEN 0 ELSE q.size - 1 - 0 + 1
      BY <2>1, FS_Interval, SMTT(20)
    <2>3. QED
      BY <2>1, <2>2 DEF FileBytes
  <1>9. \A status, body : /\ Carries(status, body).status = status
                          /\ Carries(status, body).body = body
                          /\ Carries(status, body).length = Cardinality(body)
    BY DEF Carries
  <1> HIDE DEF p, partial, cached, refused, a, asked
  <1>10. CASE cached
    <2>1. a.status = 304
      BY <1>3, <1>9, <1>10
    <2>2. QED
      BY <1>7, <1>10, <2>1 DEF a, asked
  <1>11. CASE ~cached /\ q.method = "HEAD"
    <2>1. a.status = 200 /\ a.length = q.size
      BY <1>3, <1>11
    <2>2. QED
      BY <1>8, <1>11, <2>1 DEF a, asked
  <1>12. CASE ~cached /\ q.method = "GET" /\ refused
    <2>1. a.status = 416
      BY <1>3, <1>4, <1>9, <1>12
    <2>2. QED
      BY <1>4, <1>12, <2>1 DEF a, asked
  <1>13. CASE ~cached /\ q.method = "GET" /\ partial
    <2>1. a = Carries(206, p.start .. p.end)
      BY <1>3, <1>4, <1>13
    <2>2. a.status = 206 /\ a.body = asked
      BY <1>5, <1>9, <1>13, <2>1
    <2>3. QED
      BY <1>5, <1>13, <2>2 DEF a, asked
  <1>14. CASE ~cached /\ q.method = "GET" /\ ~refused /\ ~partial
    <2>1. a = Carries(200, 0 .. q.size - 1)
      BY <1>3, <1>14
    <2>2. a.status = 200 /\ a.body = FileBytes(q) /\ a.length = Cardinality(FileBytes(q))
      BY <1>9, <2>1 DEF FileBytes
    <2>3. QED
      BY <1>6, <1>14, <2>2 DEF a, asked
  <1>15. QED
    BY <1>2, <1>10, <1>11, <1>12, <1>13, <1>14

(* Whatever is requested of a file of whatever length, the bytes that were *)
(* asked for are answered, of the version that was asked for.              *)
THEOREM AnswersCorrect == request = Blank /\ [][request' \in Requests]_request => []AnswersInv
  <1> DEFINE Asked == request = Blank \/ request \in Requests
  <1>1. request = Blank => Asked
    OBVIOUS
  <1>2. Asked /\ [request' \in Requests]_request => Asked'
    OBVIOUS
  <1>3. Asked => AnswersInv
    <2> SUFFICES ASSUME request \in Requests, request # Blank
                 PROVE  AnswersInv
      BY DEF AnswersInv, RangeIsExact, ResumeIsSafe
    <2>1. RangeIsExact
      BY AnswerIsRight DEF RangeIsExact, serveHostFile
    <2>2. ResumeIsSafe
      BY AnswerIsRight DEF ResumeIsSafe, serveHostFile
    <2>3. QED
      BY <2>1, <2>2 DEF AnswersInv
  <1>4. QED
    BY <1>1, <1>2, <1>3, PTL

-----------------------------------------------------------------------------
(* Lists.  What is stored and was not late is as new as the last change    *)
(* that was announced, whether or not it can be used.                      *)
Recent ==
  \A c \in Caches \ late : entry[c] # Empty => entry[c].seen >= said

ListIInv == ListTypeOK /\ Recent

LEMMA ListFirst == ListInit => ListIInv
  BY ListCacheAssumption DEF ListInit, ListIInv, ListTypeOK, Recent, Stages, Caches

LEMMA ListKept == ListIInv /\ [ListNext]_listvars => ListIInv'
  <1> SUFFICES ASSUME ListIInv, [ListNext]_listvars PROVE ListIInv'
    OBVIOUS
  <1> USE ListCacheAssumption DEF ListIInv
  <1>1. CASE Change
    BY <1>1 DEF Change, ListTypeOK, Recent
  <1>2. CASE invalidateListCaches
    BY <1>2 DEF invalidateListCaches, Dropped, ListTypeOK, Recent
  <1>3. ASSUME NEW c \in Caches, Expire(c) PROVE ListIInv'
    BY <1>3 DEF Expire, ListTypeOK, Recent
  <1>4. ASSUME NEW w \in Walkers, NEW c \in Caches, Get(w, c) PROVE ListIInv'
    <2>1. /\ UNCHANGED <<tree, said, entry, late>>
          /\ \E x \in [pc : Stages, of : Caches, seen : 0 .. MaxChanges] : walker' = [walker EXCEPT ![w] = x]
      <3>1. UNCHANGED <<tree, said, entry, late>>
        BY <1>4 DEF Get
      <3>2. CASE Usable(c)
        <4>1. walker' = [walker EXCEPT ![w] = [pc |-> "done", of |-> c, seen |-> entry[c].seen]]
          BY <1>4, <3>2 DEF Get
        <4>2. entry[c].seen \in 0 .. MaxChanges
          BY <3>2 DEF Usable, ListTypeOK
        <4>3. QED
          BY <3>1, <4>1, <4>2 DEF Stages
      <3>3. CASE ~Usable(c)
        <4>1. walker' = [walker EXCEPT ![w] = [pc |-> "walk", of |-> c, seen |-> 0]]
          BY <1>4, <3>3 DEF Get
        <4>2. [pc |-> "walk", of |-> c, seen |-> 0] \in [pc : Stages, of : Caches, seen : 0 .. MaxChanges]
          BY DEF Stages
        <4>3. QED
          BY <3>1, <4>1, <4>2
      <3>4. QED
        BY <3>2, <3>3
    <2>2. QED
      BY <2>1 DEF ListTypeOK, Recent
  <1>5. ASSUME NEW w \in Walkers, Walks(w) PROVE ListIInv'
    BY <1>5 DEF Walks, ListTypeOK, Recent, Stages
  <1>6. ASSUME NEW w \in Walkers, Set(w) PROVE ListIInv'
    <2> DEFINE c == walker[w].of
    <2>1. /\ c \in Caches /\ walker[w].seen \in 0 .. MaxChanges
          /\ entry' = [entry EXCEPT ![c] = [seen |-> walker[w].seen, root |-> tree]]
          /\ late' = (IF walker[w].seen < said THEN late \cup {c} ELSE late \ {c})
          /\ walker' = [walker EXCEPT ![w].pc = "done"]
          /\ UNCHANGED <<tree, said>>
      BY <1>6 DEF Set, ListTypeOK
    <2> HIDE DEF c
    <2>2. ListTypeOK'
      BY <2>1 DEF ListTypeOK, Stages
    <2>3. Recent'
      BY <2>1 DEF ListTypeOK, Recent
    <2>4. QED
      BY <2>2, <2>3
  <1>7. CASE UNCHANGED listvars
    BY <1>7 DEF listvars, ListTypeOK, Recent
  <1>8. QED
    BY <1>1, <1>2, <1>3, <1>4, <1>5, <1>6, <1>7 DEF ListNext

(* Who changes the directory and is answered finds the change in the next  *)
(* list, but for a walk that was stored too late.                          *)
THEOREM ListsCorrect == ListInit /\ [][ListNext]_listvars => []OwnChangesSeen
  <1>1. ListIInv => OwnChangesSeen
    BY DEF ListIInv, Recent, OwnChangesSeen, Usable
  <1>2. QED
    BY <1>1, ListFirst, ListKept, PTL

-----------------------------------------------------------------------------
(* Hashes.  A version has one name, under which it is the file, is         *)
(* remembered, or was seen by a request.                                   *)
Sighted(n) ==
  ({file[n], cache[n].of} \cup {asker[p].of : p \in {a \in Askers : asker[a].name = n}}) \ {None}

OneName ==
  /\ \A n \in Names : Sighted(n) \subseteq 1 .. placed
  /\ \A n, m \in Names : n # m => Sighted(n) \cap Sighted(m) = {}

(* A digest that is computed for a version of a file may be that of a      *)
(* later content, but is one that every request which saw that version can *)
(* be answered; and it is that of the version while this is the file.      *)
Answers(n, v, d) ==
  /\ file[n] = v => d = v
  /\ \A p \in Askers : asker[p].name = n /\ asker[p].of = v => d \in had[p]

Digests ==
  /\ \A n \in Names : cache[n].digest # None =>
       cache[n].of # None /\ Answers(n, cache[n].of, cache[n].digest)
  /\ \A p \in Askers :
       /\ asker[p].pc # "idle" => asker[p].name \in Names /\ asker[p].of # None
       /\ asker[p].pc = "idle" => asker[p] = Asleep
       /\ asker[p].pc = "store" =>
            asker[p].digest # None /\ Answers(asker[p].name, asker[p].of, asker[p].digest)
       /\ asker[p].digest # None => asker[p].digest \in had[p]
       /\ asker[p].name # None /\ file[asker[p].name] # None => file[asker[p].name] \in had[p]

HashIInv ==
  HashTypeOK /\ IsFiniteSet(Remembered(cache)) /\ OneName /\ Digests /\ SingleFlight

EntryType == [of : Versions \cup {None}, digest : Versions \cup {None}]
AskerType == [pc     : {"idle", "look", "join", "wait", "hash", "store", "close", "done"},
              name   : Names \cup {None},
              of     : Versions \cup {None},
              digest : Versions \cup {None},
              on     : Askers \cup {None}]

LEMMA NoneApart == None \notin Askers /\ None \notin Names /\ None \notin Versions /\ None \notin Nat
  BY HashCacheAssumption DEF Versions

(* Of finitely many things one is the oldest.                              *)
LEMMA Oldest ==
  ASSUME NEW K, IsFiniteSet(K), K # {}, NEW f, \A n \in K : f[n] \in Nat
  PROVE  \E n \in K : \A m \in K : f[n] <= f[m]
  <1> DEFINE Older(n) == {m \in K : f[m] < f[n]}
             F == {Older(n) : n \in K}
  <1>1. IsWellFoundedOn(StrictSubsetOrdering(K), SUBSET K)
    BY FS_StrictSubsetOrderingWellFounded, FS_FiniteSubsetsOfFinite
  <1>2. F \subseteq SUBSET K /\ F # {}
    OBVIOUS
  <1>3. PICK X \in F : \A Y \in F : <<Y, X>> \notin StrictSubsetOrdering(K)
    BY <1>1, <1>2, WFMin
  <1>4. PICK n \in K : X = Older(n)
    BY <1>3
  <1>5. ASSUME NEW m \in K, f[m] < f[n] PROVE FALSE
    <2>1. m \in Older(n) /\ m \notin Older(m)
      BY <1>5
    <2>2. Older(m) \subseteq Older(n)
      BY <1>5
    <2>3. <<Older(m), Older(n)>> \in StrictSubsetOrdering(K)
      BY <2>1, <2>2, Zenon DEF StrictSubsetOrdering
    <2>4. QED
      BY <1>3, <1>4, <2>3
  <1>6. QED
    BY <1>5

(* What is kept when the oldest make room: were it too much, its oldest    *)
(* would have gone.                                                        *)
LEMMA Evicts ==
  ASSUME NEW c \in [Names -> EntryType], IsFiniteSet(Remembered(c)),
         \A n \in Remembered(c) : c[n].of \in Nat,
         \A n, m \in Remembered(c) : c[n].of = c[m].of => n = m
  PROVE  /\ Evicted(c) \in [Names -> EntryType]
         /\ \A n \in Names : Evicted(c)[n] \in {c[n], Forgotten}
         /\ IsFiniteSet(Remembered(Evicted(c)))
         /\ Cardinality(Remembered(Evicted(c))) <= hashCacheMax
  <1> DEFINE K == Remembered(Evicted(c))
             Newer(n) == {m \in Remembered(c) : c[m].of > c[n].of}
  <1>1. Forgotten \in EntryType
    BY DEF Forgotten, EntryType
  <1>2. /\ Evicted(c) \in [Names -> EntryType]
        /\ \A n \in Names : Evicted(c)[n] \in {c[n], Forgotten}
    BY <1>1 DEF Evicted
  <1>3. K \subseteq Remembered(c)
    BY <1>2 DEF Remembered
  <1>4. \A n \in K : ~(Cardinality(Newer(n)) >= hashCacheMax)
    BY <1>3 DEF Evicted, Remembered
  <1>5. IsFiniteSet(K) /\ Cardinality(K) \in Nat
    BY <1>3, FS_Subset, FS_CardinalityType
  <1> HIDE DEF K
  <1>6. ASSUME Cardinality(K) > hashCacheMax PROVE FALSE
    <2>1. hashCacheMax \in Nat \ {0}
      BY HashCacheAssumption
    <2>2. K # {}
      BY <1>5, <1>6, <2>1, FS_EmptySet
    <2> DEFINE f == [n \in K |-> c[n].of]
    <2>3. \A n \in K : f[n] \in Nat
      BY <1>3
    <2>4. PICK n \in K : \A m \in K : f[n] <= f[m]
      BY <1>5, <2>2, <2>3, Oldest
    <2>5. \A m \in K \ {n} : m \in Newer(n)
      BY <1>3, <2>3, <2>4
    <2>6. IsFiniteSet(Newer(n)) /\ Cardinality(Newer(n)) \in Nat
      BY FS_Subset, FS_CardinalityType
    <2>7. IsFiniteSet(K \ {n}) /\ Cardinality(K \ {n}) = Cardinality(K) - 1
      BY <1>5, FS_RemoveElement
    <2>8. Cardinality(K \ {n}) <= Cardinality(Newer(n))
      BY <2>5, <2>6, FS_Subset
    <2>9. QED
      BY <1>4, <1>5, <1>6, <2>1, <2>6, <2>7, <2>8
  <1>7. QED
    BY <1>2, <1>5, <1>6, HashCacheAssumption DEF K

LEMMA HashTyped ==
  HashTypeOK => /\ cache \in [Names -> EntryType] /\ asker \in [Askers -> AskerType]
                /\ placed \in Nat /\ file \in [Names -> Versions \cup {None}]
  BY HashCacheAssumption DEF HashTypeOK, EntryType, AskerType

(* A step that makes no new version sights none.                           *)
LEMMA SightedLess ==
  ASSUME OneName, placed' = placed, \A n \in Names : Sighted(n)' \subseteq Sighted(n)
  PROVE  OneName'
  BY DEF OneName

(* A request that goes on with its name and its version.                   *)
LEMMA GoesOn ==
  ASSUME HashIInv, NEW p \in Askers, NEW x \in AskerType,
         asker' = [asker EXCEPT ![p] = x], asker[p].pc # "idle", x.pc # "idle",
         x.name = asker[p].name, x.of = asker[p].of,
         x.digest # None => x.digest \in had[p],
         x.pc = "store" => x.digest # None /\ Answers(x.name, x.of, x.digest),
         UNCHANGED <<file, placed, unsaid, had>>
  PROVE  /\ asker' \in [Askers -> AskerType]
         /\ \A n \in Names :
              cache'[n].of \in {cache[n].of, None} \/ (n = x.name /\ cache'[n].of = x.of) =>
                Sighted(n)' \subseteq Sighted(n)
         /\ \A n, v, d : Answers(n, v, d) => Answers(n, v, d)'
         /\ (\A n \in Names : cache'[n].digest # None =>
               cache'[n].of # None /\ Answers(n, cache'[n].of, cache'[n].digest)) => Digests'
  <1>1. asker \in [Askers -> AskerType]
    BY HashTyped DEF HashIInv
  <1>2. /\ asker' \in [Askers -> AskerType] /\ asker'[p] = x
        /\ \A a \in Askers : asker'[a].name = asker[a].name /\ asker'[a].of = asker[a].of
        /\ \A a \in Askers \ {p} : asker'[a] = asker[a]
    BY <1>1
  <1>3. \A n, v, d : Answers(n, v, d) => Answers(n, v, d)'
    BY <1>2 DEF Answers
  <1>4. ASSUME NEW n \in Names,
               cache'[n].of \in {cache[n].of, None} \/ (n = x.name /\ cache'[n].of = x.of)
        PROVE  Sighted(n)' \subseteq Sighted(n)
    BY <1>2, <1>4 DEF Sighted
  <1>5. ASSUME \A n \in Names : cache'[n].digest # None =>
                 cache'[n].of # None /\ Answers(n, cache'[n].of, cache'[n].digest)
        PROVE  Digests'
    <2>1. \A n \in Names : cache'[n].digest # None =>
            cache'[n].of # None /\ (Answers(n, cache[n].of, cache[n].digest))'
      <3> SUFFICES ASSUME NEW n \in Names, cache'[n].digest # None
                   PROVE  cache'[n].of # None /\ (Answers(n, cache[n].of, cache[n].digest))'
        OBVIOUS
      <3>1. PICK v, d : v = cache'[n].of /\ d = cache'[n].digest
        OBVIOUS
      <3>2. v # None /\ Answers(n, v, d)
        BY <1>5, <3>1
      <3>3. Answers(n, v, d)'
        BY <1>3, <3>2
      <3>4. QED
        BY <3>1, <3>2, <3>3 DEF Answers
    <2>2. ASSUME NEW a \in Askers
          PROVE  /\ asker'[a].pc # "idle" => asker'[a].name \in Names /\ asker'[a].of # None
                 /\ asker'[a].pc = "idle" => asker'[a] = Asleep
                 /\ asker'[a].digest # None => asker'[a].digest \in had'[a]
                 /\ asker'[a].name # None /\ file'[asker'[a].name] # None => file'[asker'[a].name] \in had'[a]
      BY <1>2 DEF HashIInv, Digests
    <2>3. ASSUME NEW a \in Askers, asker'[a].pc = "store"
          PROVE  asker'[a].digest # None /\ (Answers(asker[a].name, asker[a].of, asker[a].digest))'
      <3>1. PICK n, v, d : n = asker'[a].name /\ v = asker'[a].of /\ d = asker'[a].digest
        OBVIOUS
      <3>2. d # None /\ Answers(n, v, d)
        <4>1. CASE a = p
          BY <1>2, <2>3, <3>1, <4>1
        <4>2. CASE a # p
          BY <1>2, <2>3, <3>1, <4>2 DEF HashIInv, Digests
        <4>3. QED
          BY <4>1, <4>2
      <3>3. Answers(n, v, d)'
        BY <1>3, <3>2
      <3>4. QED
        BY <3>1, <3>2, <3>3 DEF Answers
    <2>4. QED
      BY <2>1, <2>2, <2>3 DEF Digests
  <1>6. QED
    BY <1>2, <1>3, <1>4, <1>5

(* The same, when neither the cache nor who computes changes.              *)
LEMMA GoesOnAlone ==
  ASSUME HashIInv, NEW p \in Askers, NEW x \in AskerType,
         asker' = [asker EXCEPT ![p] = x], asker[p].pc # "idle", x.pc # "idle",
         x.name = asker[p].name, x.of = asker[p].of,
         x.digest # None => x.digest \in had[p],
         x.pc = "store" => x.digest # None /\ Answers(x.name, x.of, x.digest),
         UNCHANGED <<file, placed, unsaid, had, cache>>,
         flight' \in [Names -> Askers \cup {None}],
         SingleFlight'
  PROVE  HashIInv'
  <1>1. /\ asker' \in [Askers -> AskerType]
        /\ \A n \in Names : cache'[n].of = cache[n].of => Sighted(n)' \subseteq Sighted(n)
        /\ (\A n \in Names : cache'[n].digest # None =>
               cache'[n].of # None /\ Answers(n, cache'[n].of, cache'[n].digest)) => Digests'
    BY GoesOn
  <1>2. OneName'
    BY <1>1, SightedLess DEF HashIInv
  <1>3. Digests'
    BY <1>1 DEF HashIInv, Digests
  <1>4. HashTypeOK' /\ IsFiniteSet(Remembered(cache))'
    BY <1>1 DEF HashIInv, HashTypeOK, AskerType, Remembered
  <1>5. QED
    BY <1>2, <1>3, <1>4 DEF HashIInv

(* Who does not come to compute disturbs nobody who does.                  *)
LEMMA StillSingle ==
  ASSUME HashIInv, NEW p \in Askers, NEW x \in AskerType, asker' = [asker EXCEPT ![p] = x],
         x.name = asker[p].name, UNCHANGED flight,
         x.pc \in {"hash", "store", "close"} => asker[p].pc \in {"hash", "store", "close"}
  PROVE  SingleFlight'
  <1>1. asker \in [Askers -> AskerType]
    BY HashTyped DEF HashIInv
  <1>2. \A n \in Names : Computing(n)' \subseteq Computing(n)
    BY <1>1 DEF Computing
  <1>3. QED
    BY <1>2 DEF HashIInv, SingleFlight

LEMMA LookKeeps == ASSUME HashIInv, NEW p \in Askers, Look(p) PROVE HashIInv'
  <1> DEFINE n == asker[p].name
  <1>1. /\ asker[p] \in AskerType /\ asker \in [Askers -> AskerType] /\ asker[p].pc = "look"
        /\ n \in Names /\ asker[p].of # None /\ cache[n] \in EntryType
        /\ UNCHANGED <<file, placed, unsaid, cache, flight, had>>
    BY HashTyped DEF HashIInv, Digests, Look
  <1>2. CASE Hit(p)
    <2> DEFINE x == [asker[p] EXCEPT !.pc = "done", !.digest = cache[n].digest]
    <2>1. asker' = [asker EXCEPT ![p] = x]
      BY <1>1, <1>2 DEF Look
    <2>2. /\ x \in AskerType /\ x.pc = "done" /\ x.name = n /\ x.of = asker[p].of
          /\ x.digest = cache[n].digest
      BY <1>1 DEF AskerType, EntryType
    <2> HIDE DEF x
    <2>3. cache[n].digest # None => cache[n].digest \in had[p]
      BY <1>1, <1>2 DEF Hit, HashIInv, Digests, Answers
    <2>4. SingleFlight'
      BY <1>1, <2>1, <2>2, StillSingle
    <2>5. flight' \in [Names -> Askers \cup {None}]
      BY <1>1 DEF HashIInv, HashTypeOK
    <2>6. QED
      BY <1>1, <2>1, <2>2, <2>3, <2>4, <2>5, GoesOnAlone
  <1>3. CASE ~Hit(p)
    <2> DEFINE x == [asker[p] EXCEPT !.pc = "join"]
    <2>1. asker' = [asker EXCEPT ![p] = x]
      BY <1>1, <1>3 DEF Look
    <2>2. /\ x \in AskerType /\ x.pc = "join" /\ x.name = n /\ x.of = asker[p].of
          /\ x.digest = asker[p].digest
      BY <1>1 DEF AskerType
    <2> HIDE DEF x
    <2>3. x.digest # None => x.digest \in had[p]
      BY <2>2 DEF HashIInv, Digests
    <2>4. SingleFlight'
      BY <1>1, <2>1, <2>2, StillSingle
    <2>5. flight' \in [Names -> Askers \cup {None}]
      BY <1>1 DEF HashIInv, HashTypeOK
    <2>6. QED
      BY <1>1, <2>1, <2>2, <2>3, <2>4, <2>5, GoesOnAlone
  <1>4. QED
    BY <1>2, <1>3

LEMMA JoinKeeps == ASSUME HashIInv, NEW p \in Askers, Join(p) PROVE HashIInv'
  <1>0. PICK n : n = asker[p].name
    OBVIOUS
  <1>1. /\ asker[p] \in AskerType /\ asker \in [Askers -> AskerType] /\ asker[p].pc = "join"
        /\ n \in Names /\ asker[p].of # None /\ flight \in [Names -> Askers \cup {None}]
        /\ UNCHANGED <<file, placed, unsaid, cache, had>>
    BY <1>0, HashTyped DEF HashIInv, Digests, Join, HashTypeOK
  <1>2. CASE Flying(n)
    <2> DEFINE x == [asker[p] EXCEPT !.pc = "wait", !.on = flight[n]]
    <2>1. asker' = [asker EXCEPT ![p] = x] /\ UNCHANGED flight
      BY <1>0, <1>1, <1>2 DEF Join
    <2>2. /\ x \in AskerType /\ x.pc = "wait" /\ x.name = n /\ x.of = asker[p].of
          /\ x.digest = asker[p].digest
      BY <1>0, <1>1 DEF AskerType
    <2> HIDE DEF x
    <2>3. x.digest # None => x.digest \in had[p]
      BY <2>2 DEF HashIInv, Digests
    <2>4. SingleFlight'
      BY <1>0, <1>1, <2>1, <2>2, StillSingle
    <2>5. QED
      BY <1>0, <1>1, <2>1, <2>2, <2>3, <2>4, GoesOnAlone
  <1>3. CASE ~Flying(n)
    <2> DEFINE x == [asker[p] EXCEPT !.pc = "hash"]
    <2>1. asker' = [asker EXCEPT ![p] = x] /\ flight' = [flight EXCEPT ![n] = p] /\ flight[n] = None
      BY <1>0, <1>1, <1>3 DEF Join, Flying
    <2>2. /\ x \in AskerType /\ x.pc = "hash" /\ x.name = n /\ x.of = asker[p].of
          /\ x.digest = asker[p].digest
      BY <1>0, <1>1 DEF AskerType
    <2> HIDE DEF x
    <2>3. x.digest # None => x.digest \in had[p]
      BY <2>2 DEF HashIInv, Digests
    <2>4. SingleFlight'
      <3>1. Computing(n) = {}
        BY <1>0, <1>1, <2>1, NoneApart DEF HashIInv, SingleFlight, Computing
      <3>2. Computing(n)' \subseteq {p} /\ \A m \in Names \ {n} : Computing(m)' \subseteq Computing(m)
        BY <1>0, <1>1, <2>1, <2>2, <3>1 DEF Computing
      <3>3. flight'[n] = p /\ \A m \in Names \ {n} : flight'[m] = flight[m]
        BY <1>0, <1>1, <2>1
      <3>4. QED
        BY <3>2, <3>3 DEF HashIInv, SingleFlight
    <2>5. flight' \in [Names -> Askers \cup {None}]
      BY <1>0, <1>1, <2>1
    <2>6. QED
      BY <1>0, <1>1, <2>1, <2>2, <2>3, <2>4, <2>5, GoesOnAlone
  <1>4. QED
    BY <1>2, <1>3

LEMMA WakeKeeps == ASSUME HashIInv, NEW p \in Askers, Wake(p) PROVE HashIInv'
  <1> DEFINE x == [asker[p] EXCEPT !.pc = "look", !.on = None]
  <1>1. /\ asker[p] \in AskerType /\ asker \in [Askers -> AskerType] /\ asker[p].pc = "wait"
        /\ asker' = [asker EXCEPT ![p] = x]
        /\ UNCHANGED <<file, placed, unsaid, cache, flight, had>>
    BY HashTyped DEF HashIInv, Wake
  <1>2. /\ x \in AskerType /\ x.pc = "look" /\ x.name = asker[p].name /\ x.of = asker[p].of
        /\ x.digest = asker[p].digest
    BY <1>1 DEF AskerType
  <1> HIDE DEF x
  <1>3. x.digest # None => x.digest \in had[p]
    BY <1>2 DEF HashIInv, Digests
  <1>4. SingleFlight'
    BY <1>1, <1>2, StillSingle
  <1>5. flight' \in [Names -> Askers \cup {None}]
    BY <1>1 DEF HashIInv, HashTypeOK
  <1>6. QED
    BY <1>1, <1>2, <1>3, <1>4, <1>5, GoesOnAlone

LEMMA HashFileKeeps == ASSUME HashIInv, NEW p \in Askers, HashFile(p) PROVE HashIInv'
  <1>0. PICK n, now : n = asker[p].name /\ now = file[n]
    OBVIOUS
  <1> DEFINE x == [asker[p] EXCEPT !.pc = IF now = None THEN AfterError ELSE "store", !.digest = now]
  <1>1. /\ asker[p] \in AskerType /\ asker \in [Askers -> AskerType] /\ asker[p].pc = "hash"
        /\ n \in Names /\ asker[p].of # None /\ now \in Versions \cup {None}
        /\ asker' = [asker EXCEPT ![p] = x]
        /\ UNCHANGED <<file, placed, unsaid, cache, flight, had>>
    BY <1>0, HashTyped DEF HashIInv, Digests, HashFile, HashTypeOK
  <1>2. /\ x \in AskerType /\ x.pc = (IF now = None THEN "close" ELSE "store")
        /\ x.name = n /\ x.of = asker[p].of /\ x.digest = now
    BY <1>0, <1>1 DEF AskerType, AfterError
  <1> HIDE DEF x
  <1>3. now # None => \A a \in Askers : asker[a].name = n => now \in had[a]
    BY <1>0, <1>1, NoneApart DEF HashIInv, Digests
  <1>4. x.digest # None => x.digest \in had[p]
    BY <1>0, <1>2, <1>3
  <1>5. x.pc = "store" => x.digest # None /\ Answers(x.name, x.of, x.digest)
    BY <1>0, <1>2, <1>3 DEF Answers
  <1>6. SingleFlight'
    BY <1>0, <1>1, <1>2, StillSingle
  <1>7. flight' \in [Names -> Askers \cup {None}]
    BY <1>1 DEF HashIInv, HashTypeOK
  <1>8. QED
    BY <1>0, <1>1, <1>2, <1>4, <1>5, <1>6, <1>7, GoesOnAlone

LEMMA CloseKeeps == ASSUME HashIInv, NEW p \in Askers, Close(p) PROVE HashIInv'
  <1>0. PICK n : n = asker[p].name
    OBVIOUS
  <1> DEFINE x == [asker[p] EXCEPT !.pc = "done"]
  <1>1. /\ asker[p] \in AskerType /\ asker \in [Askers -> AskerType] /\ asker[p].pc = "close"
        /\ n \in Names /\ asker' = [asker EXCEPT ![p] = x]
        /\ flight \in [Names -> Askers \cup {None}] /\ flight' = [flight EXCEPT ![n] = None]
        /\ UNCHANGED <<file, placed, unsaid, cache, had>>
    BY <1>0, HashTyped DEF HashIInv, Digests, Close, HashTypeOK
  <1>2. /\ x \in AskerType /\ x.pc = "done" /\ x.name = n /\ x.of = asker[p].of
        /\ x.digest = asker[p].digest
    BY <1>0, <1>1 DEF AskerType
  <1> HIDE DEF x
  <1>3. x.digest # None => x.digest \in had[p]
    BY <1>2 DEF HashIInv, Digests
  <1>4. SingleFlight'
    <2>1. p \in Computing(n)
      BY <1>0, <1>1 DEF Computing
    <2>2. Computing(n) \subseteq {flight[n]}
      BY <1>1 DEF HashIInv, SingleFlight
    <2>3. Computing(n) = {p}
      BY <2>1, <2>2
    <2>4. Computing(n)' = {} /\ \A m \in Names \ {n} : Computing(m)' \subseteq Computing(m)
      BY <1>1, <1>2, <2>3 DEF Computing
    <2>5. \A m \in Names \ {n} : flight'[m] = flight[m]
      BY <1>1
    <2>6. QED
      BY <2>4, <2>5 DEF HashIInv, SingleFlight
  <1>5. flight' \in [Names -> Askers \cup {None}]
    BY <1>1
  <1>6. QED
    BY <1>0, <1>1, <1>2, <1>3, <1>4, <1>5, GoesOnAlone

LEMMA StoreKeeps == ASSUME HashIInv, NEW p \in Askers, Store(p) PROVE HashIInv'
  <1>0. PICK n, v, d : n = asker[p].name /\ v = asker[p].of /\ d = asker[p].digest
    OBVIOUS
  <1> DEFINE x == [asker[p] EXCEPT !.pc = "close"]
             c == [cache EXCEPT ![n] = [of |-> v, digest |-> d]]
  <1>1. /\ asker[p] \in AskerType /\ asker \in [Askers -> AskerType] /\ asker[p].pc = "store"
        /\ cache \in [Names -> EntryType]
        /\ n \in Names /\ v # None /\ d # None /\ Answers(n, v, d)
        /\ asker' = [asker EXCEPT ![p] = x]
        /\ cache' = Evicted(c)
        /\ UNCHANGED <<file, placed, unsaid, flight, had>>
    BY <1>0, HashTyped DEF HashIInv, Digests, Store
  <1>2. /\ x \in AskerType /\ x.pc = "close" /\ x.name = n /\ x.of = v /\ x.digest = d
    BY <1>0, <1>1 DEF AskerType
  <1> HIDE DEF x
  <1>3. c \in [Names -> EntryType]
    <2>1. [of |-> v, digest |-> d] \in EntryType
      BY <1>0, <1>1 DEF AskerType, EntryType
    <2>2. QED
      BY <1>1, <2>1
  <1>4. c[n].of = v /\ c[n].digest = d /\ \A m \in Names \ {n} : c[m] = cache[m]
    BY <1>1
  <1> HIDE DEF c
  <1>5. Forgotten.of = None /\ Forgotten.digest = None
    BY DEF Forgotten
  <1>6. IsFiniteSet(Remembered(c))
    <2>1. Remembered(c) \subseteq Remembered(cache) \cup {n}
      BY <1>4 DEF Remembered
    <2>2. IsFiniteSet(Remembered(cache) \cup {n})
      BY FS_AddElement DEF HashIInv
    <2>3. QED
      BY <2>1, <2>2, FS_Subset
  <1>7. \A m \in Names : c[m].of # None => c[m].of \in Sighted(m)
    BY <1>0, <1>1, <1>4 DEF Sighted
  <1>8. ASSUME NEW m \in Remembered(c) PROVE m \in Names /\ c[m].of # None
    <2>1. m \in Names /\ c[m] # Forgotten
      BY <1>8 DEF Remembered
    <2>2. CASE m = n
      BY <1>1, <1>4, <2>1, <2>2
    <2>3. CASE m # n
      <3>1. cache[m] \in EntryType /\ cache[m] # Forgotten
        BY <1>1, <1>4, <2>1, <2>3
      <3>2. cache[m].of # None \/ cache[m].digest # None
        BY <3>1 DEF EntryType, Forgotten
      <3>3. cache[m].of # None
        BY <2>1, <3>2 DEF HashIInv, Digests
      <3>4. QED
        BY <1>4, <2>1, <2>3, <3>3
    <2>4. QED
      BY <2>2, <2>3
  <1>9. /\ \A m \in Remembered(c) : c[m].of \in Nat
        /\ \A k, m \in Remembered(c) : c[k].of = c[m].of => k = m
    <2>1. \A m \in Remembered(c) : m \in Names /\ c[m].of \in Sighted(m)
      BY <1>7, <1>8
    <2>2. placed \in Nat
      BY HashTyped DEF HashIInv
    <2>3. QED
      BY <2>1, <2>2 DEF HashIInv, OneName
  <1>10. /\ cache' \in [Names -> EntryType]
         /\ \A m \in Names : cache'[m] \in {c[m], Forgotten}
         /\ IsFiniteSet(Remembered(cache'))
         /\ Cardinality(Remembered(cache')) <= hashCacheMax
    BY <1>1, <1>3, <1>6, <1>9, Evicts
  <1>11. /\ asker' \in [Askers -> AskerType]
         /\ \A m \in Names :
              cache'[m].of \in {cache[m].of, None} \/ (m = n /\ cache'[m].of = v) =>
                Sighted(m)' \subseteq Sighted(m)
         /\ (\A m \in Names : cache'[m].digest # None =>
               cache'[m].of # None /\ Answers(m, cache'[m].of, cache'[m].digest)) => Digests'
    BY <1>0, <1>1, <1>2, GoesOn DEF HashIInv, Digests
  <1>12. OneName'
    <2>1. \A m \in Names : cache'[m].of \in {cache[m].of, None} \/ (m = n /\ cache'[m].of = v)
      BY <1>4, <1>5, <1>10
    <2>2. QED
      BY <1>1, <1>11, <2>1, SightedLess DEF HashIInv
  <1>13. Digests'
    <2>1. \A m \in Names : cache'[m].digest # None =>
            cache'[m].of # None /\ Answers(m, cache'[m].of, cache'[m].digest)
      BY <1>1, <1>4, <1>5, <1>10 DEF HashIInv, Digests
    <2>2. QED
      BY <1>11, <2>1
  <1>14. SingleFlight'
    BY <1>0, <1>1, <1>2, StillSingle
  <1>15. HashTypeOK'
    BY <1>1, <1>10, <1>11 DEF HashIInv, HashTypeOK, EntryType, AskerType, Remembered
  <1>16. QED
    BY <1>10, <1>12, <1>13, <1>14, <1>15 DEF HashIInv, Remembered

(* Files come and go.                                                      *)
LEMMA PlaceKeeps == ASSUME HashIInv, NEW n \in Names, Place(n) PROVE HashIInv'
  <1>0. PICK v : v = placed + 1
    OBVIOUS
  <1>1. /\ placed \in Nat /\ v \in Versions /\ placed' = v /\ v \in 0 .. MaxVersions
        /\ file \in [Names -> Versions \cup {None}] /\ file' = [file EXCEPT ![n] = v]
        /\ had' = [p \in Askers |-> IF asker[p].name = n THEN had[p] \cup {v} ELSE had[p]]
        /\ UNCHANGED <<unsaid, cache, flight, asker>>
    BY <1>0, HashTyped, HashCacheAssumption DEF HashIInv, Place, Versions, HashTypeOK
  <1>2. /\ Sighted(n)' \subseteq Sighted(n) \cup {v}
        /\ \A m \in Names \ {n} : Sighted(m)' \subseteq Sighted(m)
    BY <1>1 DEF Sighted
  <1>3. \A m \in Names : v \notin Sighted(m) /\ Sighted(m) \subseteq 1 .. v
    BY <1>0, <1>1 DEF HashIInv, OneName
  <1>4. OneName'
    <2>1. ASSUME NEW m \in Names PROVE Sighted(m)' \subseteq 1 .. placed'
      <3>1. v \in Nat /\ v >= 1 /\ v \in 1 .. v /\ 1 .. placed' = 1 .. v
        BY <1>0, <1>1
      <3>2. Sighted(m)' \subseteq Sighted(m) \cup {v}
        BY <1>2
      <3>3. QED
        BY <1>3, <3>1, <3>2
    <2>2. ASSUME NEW m \in Names, NEW k \in Names, m # k PROVE Sighted(m)' \cap Sighted(k)' = {}
      BY <1>2, <1>3, <2>2 DEF HashIInv, OneName
    <2>3. QED
      BY <2>1, <2>2 DEF OneName
  <1>5. \A p \in Askers : had[p] \subseteq had'[p]
    BY <1>1
  <1>6. ASSUME NEW m \in Names, NEW u, NEW d, Answers(m, u, d), u # v
        PROVE  Answers(m, u, d)'
    <2>1. file'[m] = u => file[m] = u
      BY <1>1, <1>6
    <2>2. QED
      BY <1>1, <1>5, <1>6, <2>1 DEF Answers
  <1>7. \A m \in Names : cache[m].of # None => cache[m].of # v
    BY <1>3 DEF Sighted
  <1>8. \A p \in Askers : asker[p].name \in Names /\ asker[p].of # None => asker[p].of # v
    BY <1>3 DEF Sighted
  <1>9. Digests'
    <2>1. ASSUME NEW m \in Names, cache'[m].digest # None
          PROVE  cache'[m].of # None /\ (Answers(m, cache[m].of, cache[m].digest))'
      <3>1. PICK u, d : u = cache[m].of /\ d = cache[m].digest
        OBVIOUS
      <3>2. u # None /\ Answers(m, u, d) /\ u # v
        BY <1>1, <1>7, <2>1, <3>1 DEF HashIInv, Digests
      <3>3. Answers(m, u, d)'
        BY <1>6, <3>2
      <3>4. QED
        BY <1>1, <3>1, <3>2, <3>3 DEF Answers
    <2>2. ASSUME NEW a \in Askers
          PROVE  /\ asker'[a].pc # "idle" => asker'[a].name \in Names /\ asker'[a].of # None
                 /\ asker'[a].pc = "idle" => asker'[a] = Asleep
                 /\ asker'[a].digest # None => asker'[a].digest \in had'[a]
                 /\ asker'[a].name # None /\ file'[asker'[a].name] # None => file'[asker'[a].name] \in had'[a]
      <3>1. /\ asker'[a].pc # "idle" => asker'[a].name \in Names /\ asker'[a].of # None
            /\ asker'[a].pc = "idle" => asker'[a] = Asleep
        BY <1>1 DEF HashIInv, Digests
      <3>2. asker'[a].digest # None => asker'[a].digest \in had'[a]
        BY <1>1, <1>5 DEF HashIInv, Digests
      <3>3. asker'[a].name # None /\ file'[asker'[a].name] # None => file'[asker'[a].name] \in had'[a]
        <4>1. CASE asker[a].name = n
          BY <1>1, <4>1
        <4>2. CASE asker[a].name # n
          BY <1>1, <4>2 DEF HashIInv, Digests
        <4>3. QED
          BY <4>1, <4>2
      <3>4. QED
        BY <3>1, <3>2, <3>3
    <2>3. ASSUME NEW a \in Askers, asker'[a].pc = "store"
          PROVE  asker'[a].digest # None /\ (Answers(asker[a].name, asker[a].of, asker[a].digest))'
      <3>1. PICK m, u, d : m = asker[a].name /\ u = asker[a].of /\ d = asker[a].digest
        OBVIOUS
      <3>2. m \in Names /\ u # None /\ d # None /\ Answers(m, u, d) /\ u # v
        BY <1>1, <1>8, <2>3, <3>1 DEF HashIInv, Digests
      <3>3. Answers(m, u, d)'
        BY <1>6, <3>2
      <3>4. QED
        BY <1>1, <3>1, <3>2, <3>3 DEF Answers
    <2>4. QED
      BY <2>1, <2>2, <2>3 DEF Digests
  <1>10. HashTypeOK' /\ IsFiniteSet(Remembered(cache))' /\ SingleFlight'
    <2>1. had' \in [Askers -> SUBSET Versions]
      BY <1>1 DEF HashIInv, HashTypeOK
    <2>2. HashTypeOK'
      BY <1>1, <2>1 DEF HashIInv, HashTypeOK
    <2>3. QED
      BY <1>1, <2>2 DEF HashIInv, Remembered, SingleFlight, Computing
  <1>11. QED
    BY <1>4, <1>9, <1>10 DEF HashIInv

LEMMA DeleteKeeps ==
  ASSUME HashIInv, NEW n \in Names, Delete(n) \/ invalidateFileHash(n)
  PROVE  HashIInv'
  <1>1. /\ file \in [Names -> Versions \cup {None}] /\ cache \in [Names -> EntryType]
        /\ file' = file \/ file' = [file EXCEPT ![n] = None]
        /\ cache' = cache \/ cache' = [cache EXCEPT ![n] = Forgotten]
        /\ unsaid' \subseteq Names
        /\ UNCHANGED <<placed, flight, asker, had>>
    BY HashTyped DEF HashIInv, HashTypeOK, Delete, invalidateFileHash
  <1>2. Forgotten \in EntryType /\ Forgotten.of = None /\ Forgotten.digest = None
    BY DEF Forgotten, EntryType
  <1>3. /\ \A m \in Names : file'[m] \in {file[m], None}
        /\ \A m \in Names : cache'[m] \in {cache[m], Forgotten}
    BY <1>1
  <1>4. OneName'
    <2>1. \A m \in Names : Sighted(m)' \subseteq Sighted(m)
      BY <1>1, <1>2, <1>3 DEF Sighted
    <2>2. QED
      BY <1>1, <2>1, SightedLess DEF HashIInv
  <1>5. \A u, d : \A m \in Names : u # None /\ Answers(m, u, d) => Answers(m, u, d)'
    BY <1>1, <1>3 DEF Answers
  <1>6. Digests'
    <2>1. ASSUME NEW m \in Names, cache'[m].digest # None
          PROVE  cache'[m].of # None /\ (Answers(m, cache[m].of, cache[m].digest))'
      <3>1. PICK u, d : u = cache'[m].of /\ d = cache'[m].digest
        OBVIOUS
      <3>2. u # None /\ Answers(m, u, d)
        BY <1>2, <1>3, <2>1, <3>1 DEF HashIInv, Digests
      <3>3. Answers(m, u, d)'
        BY <1>5, <3>2
      <3>4. QED
        BY <3>1, <3>2, <3>3 DEF Answers
    <2>2. ASSUME NEW a \in Askers
          PROVE  /\ asker'[a].pc # "idle" => asker'[a].name \in Names /\ asker'[a].of # None
                 /\ asker'[a].pc = "idle" => asker'[a] = Asleep
                 /\ asker'[a].digest # None => asker'[a].digest \in had'[a]
                 /\ asker'[a].name # None /\ file'[asker'[a].name] # None => file'[asker'[a].name] \in had'[a]
      <3>1. asker'[a].name # None => asker'[a].name \in Names
        BY <1>1, HashTyped DEF HashIInv, AskerType
      <3>2. QED
        BY <1>1, <1>3, <3>1 DEF HashIInv, Digests
    <2>3. ASSUME NEW a \in Askers, asker'[a].pc = "store"
          PROVE  asker'[a].digest # None /\ (Answers(asker[a].name, asker[a].of, asker[a].digest))'
      <3>1. PICK m, u, d : m = asker[a].name /\ u = asker[a].of /\ d = asker[a].digest
        OBVIOUS
      <3>2. m \in Names /\ u # None /\ d # None /\ Answers(m, u, d)
        BY <1>1, <2>3, <3>1 DEF HashIInv, Digests
      <3>3. Answers(m, u, d)'
        BY <1>5, <3>2
      <3>4. QED
        BY <1>1, <3>1, <3>2, <3>3 DEF Answers
    <2>4. QED
      BY <2>1, <2>2, <2>3 DEF Digests
  <1>7. /\ IsFiniteSet(Remembered(cache')) /\ Cardinality(Remembered(cache')) <= hashCacheMax
    <2>1. Remembered(cache') \subseteq Remembered(cache)
      BY <1>3 DEF Remembered
    <2>2. /\ IsFiniteSet(Remembered(cache)) /\ Cardinality(Remembered(cache)) <= hashCacheMax
          /\ hashCacheMax \in Nat
      BY HashCacheAssumption DEF HashIInv, HashTypeOK, Remembered
    <2>3. Cardinality(Remembered(cache)) \in Nat /\ Cardinality(Remembered(cache')) \in Nat
      BY <2>1, <2>2, FS_Subset, FS_CardinalityType
    <2>4. Cardinality(Remembered(cache')) <= Cardinality(Remembered(cache))
      BY <2>1, <2>2, FS_Subset
    <2>5. QED
      BY <2>1, <2>2, <2>3, <2>4, FS_Subset
  <1>8. file' \in [Names -> Versions \cup {None}] /\ cache' \in [Names -> EntryType]
    BY <1>1, <1>2
  <1>9. HashTypeOK' /\ SingleFlight'
    BY <1>1, <1>7, <1>8 DEF HashIInv, HashTypeOK, EntryType, Remembered, SingleFlight, Computing
  <1>10. QED
    BY <1>4, <1>6, <1>7, <1>9 DEF HashIInv, Remembered

LEMMA AskKeeps ==
  ASSUME HashIInv, NEW p \in Askers, NEW n \in Names, handleFileHash(p, n)
  PROVE  HashIInv'
  <1>0. PICK v : v = file[n]
    OBVIOUS
  <1> DEFINE x == [Asleep EXCEPT !.pc = "look", !.name = n, !.of = v]
  <1>1. /\ asker \in [Askers -> AskerType] /\ asker[p] = Asleep /\ v # None /\ v \in Versions
        /\ asker' = [asker EXCEPT ![p] = x] /\ had' = [had EXCEPT ![p] = {v}]
        /\ had \in [Askers -> SUBSET Versions]
        /\ UNCHANGED <<file, placed, unsaid, cache, flight>>
    BY <1>0, HashTyped DEF HashIInv, Digests, HashTypeOK, handleFileHash
  <1>2. /\ x \in AskerType /\ x.pc = "look" /\ x.name = n /\ x.of = v /\ x.digest = None
        /\ Asleep.name = None /\ Asleep.of = None
    BY <1>1 DEF AskerType, Asleep
  <1> HIDE DEF x
  <1>3. /\ asker' \in [Askers -> AskerType] /\ asker'[p] = x /\ had'[p] = {v}
        /\ \A a \in Askers \ {p} : asker'[a] = asker[a] /\ had'[a] = had[a]
    BY <1>1, <1>2
  <1>4. OneName'
    <2>1. \A m \in Names : Sighted(m)' \subseteq Sighted(m)
      BY <1>0, <1>1, <1>2, <1>3 DEF Sighted
    <2>2. QED
      BY <1>1, <2>1, SightedLess DEF HashIInv
  <1>5. ASSUME NEW m \in Names, NEW u, NEW d, Answers(m, u, d) PROVE Answers(m, u, d)'
    <2>1. ASSUME NEW a \in Askers, asker'[a].name = m, asker'[a].of = u PROVE d \in had'[a]
      <3>1. CASE a = p
        BY <1>0, <1>2, <1>3, <1>5, <2>1, <3>1 DEF Answers
      <3>2. CASE a # p
        BY <1>3, <1>5, <2>1, <3>2 DEF Answers
      <3>3. QED
        BY <3>1, <3>2
    <2>2. QED
      BY <1>1, <1>5, <2>1 DEF Answers
  <1>6. Digests'
    <2>1. ASSUME NEW m \in Names, cache'[m].digest # None
          PROVE  cache'[m].of # None /\ (Answers(m, cache[m].of, cache[m].digest))'
      <3>1. PICK u, d : u = cache[m].of /\ d = cache[m].digest
        OBVIOUS
      <3>2. u # None /\ Answers(m, u, d)
        BY <1>1, <2>1, <3>1 DEF HashIInv, Digests
      <3>3. Answers(m, u, d)'
        BY <1>5, <3>2
      <3>4. QED
        BY <1>1, <3>1, <3>2, <3>3 DEF Answers
    <2>2. ASSUME NEW a \in Askers
          PROVE  /\ asker'[a].pc # "idle" => asker'[a].name \in Names /\ asker'[a].of # None
                 /\ asker'[a].pc = "idle" => asker'[a] = Asleep
                 /\ asker'[a].digest # None => asker'[a].digest \in had'[a]
                 /\ asker'[a].name # None /\ file'[asker'[a].name] # None => file'[asker'[a].name] \in had'[a]
      <3>1. CASE a = p
        BY <1>0, <1>1, <1>2, <1>3, <3>1
      <3>2. CASE a # p
        BY <1>1, <1>3, <3>2 DEF HashIInv, Digests
      <3>3. QED
        BY <3>1, <3>2
    <2>3. ASSUME NEW a \in Askers, asker'[a].pc = "store"
          PROVE  asker'[a].digest # None /\ (Answers(asker[a].name, asker[a].of, asker[a].digest))'
      <3>1. a # p /\ asker'[a] = asker[a]
        BY <1>2, <1>3, <2>3
      <3>2. PICK m, u, d : m = asker[a].name /\ u = asker[a].of /\ d = asker[a].digest
        OBVIOUS
      <3>3. m \in Names /\ d # None /\ Answers(m, u, d)
        BY <2>3, <3>1, <3>2 DEF HashIInv, Digests
      <3>4. Answers(m, u, d)'
        BY <1>5, <3>3
      <3>5. QED
        BY <3>1, <3>2, <3>3, <3>4 DEF Answers
    <2>4. QED
      BY <2>1, <2>2, <2>3 DEF Digests
  <1>7. SingleFlight'
    <2>1. \A m \in Names : Computing(m)' \subseteq Computing(m)
      BY <1>2, <1>3 DEF Computing
    <2>2. QED
      BY <1>1, <2>1 DEF HashIInv, SingleFlight
  <1>8. HashTypeOK' /\ IsFiniteSet(Remembered(cache))'
    BY <1>1, <1>3 DEF HashIInv, HashTypeOK, AskerType, Remembered
  <1>9. QED
    BY <1>4, <1>6, <1>7, <1>8 DEF HashIInv

-----------------------------------------------------------------------------
LEMMA HashFirst == HashInit => HashIInv
  <1> SUFFICES ASSUME HashInit PROVE HashIInv
    OBVIOUS
  <1>1. Forgotten \in EntryType /\ Asleep \in AskerType /\ Forgotten.of = None /\ Forgotten.digest = None
    BY DEF Forgotten, Asleep, EntryType, AskerType
  <1>2. Asleep.pc = "idle" /\ Asleep.name = None /\ Asleep.of = None /\ Asleep.digest = None
    BY DEF Asleep
  <1>3. /\ \A n \in Names : file[n] = None /\ cache[n] = Forgotten
        /\ \A p \in Askers : asker[p] = Asleep
    BY DEF HashInit
  <1>4. Remembered(cache) = {} /\ IsFiniteSet({}) /\ Cardinality({}) = 0
    BY <1>3, FS_EmptySet DEF Remembered
  <1>5. HashTypeOK
    <2>1. 0 \in 0 .. MaxVersions /\ 0 <= hashCacheMax
      BY HashCacheAssumption
    <2>2. Cardinality({n \in Names : cache[n] # Forgotten}) <= hashCacheMax
      BY <1>4, <2>1 DEF Remembered
    <2>3. cache \in [Names -> EntryType] /\ asker \in [Askers -> AskerType]
      BY <1>1 DEF HashInit
    <2>4. QED
      BY <2>1, <2>2, <2>3 DEF HashInit, HashTypeOK, EntryType, AskerType
  <1>6. OneName
    BY <1>1, <1>2, <1>3 DEF OneName, Sighted
  <1>7. Digests
    BY <1>1, <1>2, <1>3 DEF Digests
  <1>8. SingleFlight
    BY <1>2, <1>3 DEF SingleFlight, Computing
  <1>9. QED
    BY <1>4, <1>5, <1>6, <1>7, <1>8 DEF HashIInv

LEMMA HashKept == HashIInv /\ [HashNext]_hashvars => HashIInv'
  <1> SUFFICES ASSUME HashIInv, [HashNext]_hashvars PROVE HashIInv'
    OBVIOUS
  <1>1. ASSUME NEW n \in Names, Place(n) \/ Delete(n) \/ invalidateFileHash(n) PROVE HashIInv'
    BY <1>1, PlaceKeeps, DeleteKeeps
  <1>2. ASSUME NEW p \in Askers, NEW n \in Names, handleFileHash(p, n) PROVE HashIInv'
    BY <1>2, AskKeeps
  <1>3. ASSUME NEW p \in Askers, Step(p) PROVE HashIInv'
    BY <1>3, LookKeeps, JoinKeeps, WakeKeeps, HashFileKeeps, StoreKeeps, CloseKeeps DEF Step
  <1>4. CASE UNCHANGED hashvars
    <2>1. UNCHANGED <<file, placed, cache, flight, asker, had, unsaid>>
      BY <1>4 DEF hashvars
    <2>2. HashTypeOK' /\ IsFiniteSet(Remembered(cache))'
      BY <2>1 DEF HashIInv, HashTypeOK, Remembered
    <2>3. OneName'
      <3>1. \A m \in Names : Sighted(m)' = Sighted(m)
        BY <2>1 DEF Sighted
      <3>2. QED
        BY <2>1, <3>1 DEF HashIInv, OneName
    <2>4. Digests'
      <3>1. \A m, u, d : Answers(m, u, d)' = Answers(m, u, d)
        BY <2>1 DEF Answers
      <3>2. QED
        BY <2>1, <3>1 DEF HashIInv, Digests, Answers
    <2>5. SingleFlight'
      <3>1. \A m : Computing(m)' = Computing(m)
        BY <2>1 DEF Computing
      <3>2. QED
        BY <2>1, <3>1 DEF HashIInv, SingleFlight
    <2>6. QED
      BY <2>2, <2>3, <2>4, <2>5 DEF HashIInv
  <1>5. QED
    BY <1>1, <1>2, <1>3, <1>4 DEF HashNext

(* A hash that is answered is that of a content which the file had since   *)
(* the request came, and a file is read by one request at a time.          *)
THEOREM HashesCorrect == HashInit /\ [][HashNext]_hashvars => []HashInv
  <1>1. HashIInv => HashInv
    BY DEF HashIInv, HashInv, Digests, HashIsOfFile
  <1>2. QED
    BY <1>1, HashFirst, HashKept, PTL

(* No more hashes are remembered than there is room for.                   *)
THEOREM HashesBounded ==
  HashInit /\ [][HashNext]_hashvars => [](Cardinality(Remembered(cache)) <= hashCacheMax)
  <1>1. HashIInv => Cardinality(Remembered(cache)) <= hashCacheMax
    BY DEF HashIInv, HashTypeOK, Remembered
  <1>2. QED
    BY <1>1, HashFirst, HashKept, PTL

-----------------------------------------------------------------------------
(* The lists of intervals of a session.  Folds are defined by recursion    *)
(* over sets of positions, so what a fold gives is found step by step:     *)
(* the numbers for which a statement holds are a set that grows up to n.   *)
(* Induction up to n, over the set of the numbers for which it holds.      *)
LEMMA Upward ==
  ASSUME NEW n \in Nat, NEW B, 0 \in B, \A k \in 1 .. n : k - 1 \in B => k \in B
  PROVE  0 .. n \subseteq B
  <1> DEFINE F == {0 .. k : k \in (0 .. n) \ B}
  <1>1. ASSUME F # {} PROVE FALSE
    <2>1. IsWellFoundedOn(StrictSubsetOrdering(0 .. n), SUBSET (0 .. n))
      <3>1. IsFiniteSet(0 .. n)
        BY FS_Interval
      <3>2. FiniteSubsetsOf(0 .. n) = SUBSET (0 .. n)
        BY <3>1, FS_FiniteSubsetsOfFinite
      <3>3. QED
        BY <3>2, FS_StrictSubsetOrderingWellFounded
    <2>2. F \subseteq SUBSET (0 .. n)
      OBVIOUS
    <2>3. PICK X \in F : \A Y \in F : <<Y, X>> \notin StrictSubsetOrdering(0 .. n)
      BY <1>1, <2>1, <2>2, WFMin
    <2>4. PICK k \in (0 .. n) \ B : X = 0 .. k
      BY <2>3
    <2>5. k \in 1 .. n /\ k - 1 \in 0 .. n
      BY <2>4
    <2>6. k - 1 \in B
      <3>1. (0 .. k - 1) \subseteq 0 .. k /\ k \in 0 .. k /\ k \notin 0 .. k - 1
        BY <2>5
      <3>2. <<0 .. k - 1, X>> \in StrictSubsetOrdering(0 .. n)
        BY <2>4, <2>5, <3>1 DEF StrictSubsetOrdering
      <3>3. QED
        BY <2>3, <2>5, <3>2
    <2>7. QED
      BY <2>4, <2>5, <2>6
  <1>2. QED
    BY <1>1

(* A fold exists: what FoldLeft defines by recursion over the sets of      *)
(* positions has a value of type V for each of them.                       *)
Maps(G, n, V) == \A k \in 1 .. n, v \in V : G[k][v] \in V
Folds(h, n, base, G) ==
  \A s \in SUBSET (1 .. n) :
    h[s] = IF s = {} THEN base ELSE G[Max(s)][h[s \ {Max(s)}]]

LEMMA FoldExists ==
  ASSUME NEW V, NEW base \in V, NEW n \in Nat, NEW G, Maps(G, n, V)
  PROVE  \E h \in [SUBSET (1 .. n) -> V] : Folds(h, n, base, G)
  <1> DEFINE B == {k \in 0 .. n : \E h \in [SUBSET (1 .. k) -> V] : Folds(h, k, base, G)}
  <1>1. 0 \in B
    <2>1. [s \in SUBSET (1 .. 0) |-> base] \in [SUBSET (1 .. 0) -> V]
      OBVIOUS
    <2>2. SUBSET (1 .. 0) = {{}}
      OBVIOUS
    <2>3. Folds([s \in SUBSET (1 .. 0) |-> base], 0, base, G)
      BY <2>2 DEF Folds
    <2>4. QED
      BY <2>1, <2>3
  <1>2. ASSUME NEW k \in 1 .. n, k - 1 \in B PROVE k \in B
    <2>1. PICK h \in [SUBSET (1 .. k - 1) -> V] : Folds(h, k - 1, base, G)
      BY <1>2
    <2> DEFINE g == [s \in SUBSET (1 .. k) |-> IF k \in s THEN G[k][h[s \ {k}]] ELSE h[s]]
    <2>2. \A s \in SUBSET (1 .. k) : s \ {k} \in SUBSET (1 .. k - 1)
      OBVIOUS
    <2>3. \A s \in SUBSET (1 .. k) : k \notin s => s \in SUBSET (1 .. k - 1)
      OBVIOUS
    <2>4. g \in [SUBSET (1 .. k) -> V]
      BY <2>2, <2>3 DEF Maps
    <2>5. ASSUME NEW s \in SUBSET (1 .. k)
          PROVE  g[s] = IF s = {} THEN base ELSE G[Max(s)][g[s \ {Max(s)}]]
      <3>1. CASE k \in s
        <4>1. Max(s) = k
          <5>1. \A y \in s : k >= y
            OBVIOUS
          <5>2. \A x \in s : (\A y \in s : x >= y) => x = k
            BY <3>1, <5>1
          <5>3. QED
            BY <3>1, <5>1, <5>2 DEF Max
        <4>2. k \notin s \ {k} /\ g[s \ {k}] = h[s \ {k}]
          BY <2>2
        <4>3. QED
          BY <3>1, <4>1, <4>2
      <3>2. CASE k \notin s
        <4>1. s \in SUBSET (1 .. k - 1) /\ g[s] = h[s]
          BY <2>3, <3>2
        <4>2. s \ {Max(s)} \in SUBSET (1 .. k) /\ k \notin s \ {Max(s)}
          BY <3>2
        <4>3. g[s \ {Max(s)}] = h[s \ {Max(s)}]
          BY <4>2
        <4>4. QED
          BY <2>1, <4>1, <4>3 DEF Folds
      <3>3. QED
        BY <3>1, <3>2
    <2> HIDE DEF g
    <2>6. Folds(g, k, base, G)
      BY <2>5 DEF Folds
    <2>7. QED
      BY <2>4, <2>6
  <1> HIDE DEF B
  <1>3. 0 .. n \subseteq B
    BY <1>1, <1>2, Upward
  <1>4. n \in B
    BY <1>3
  <1>5. QED
    BY <1>4 DEF B

Interval == Nat \X Nat

LEMMA MaxOfInterval ==
  ASSUME NEW k \in Nat \ {0}
  PROVE  Max(1 .. k) = k
  <1>1. k \in 1 .. k /\ \A y \in 1 .. k : k >= y
    OBVIOUS
  <1>2. \A x \in 1 .. k : (\A y \in 1 .. k : x >= y) => x = k
    BY <1>1
  <1>3. QED
    BY <1>1, <1>2 DEF Max

(* Of numbers up to n one is the largest.                                  *)
LEMMA MaxIn ==
  ASSUME NEW n \in Nat, NEW s \in SUBSET (1 .. n), s # {}
  PROVE  Max(s) \in s /\ \A y \in s : Max(s) >= y
  <1> DEFINE Bounded(k) == \A x \in SUBSET (1 .. k) : x # {} => \E m \in x : \A y \in x : m >= y
             B == {k \in 0 .. n : Bounded(k)}
  <1>1. 0 \in B
    <2>1. \A x \in SUBSET (1 .. 0) : x = {}
      OBVIOUS
    <2>2. Bounded(0)
      BY <2>1
    <2>3. 0 \in 0 .. n
      OBVIOUS
    <2> HIDE DEF Bounded
    <2>4. QED
      BY <2>2, <2>3
  <1>2. ASSUME NEW k \in 1 .. n, k - 1 \in B PROVE k \in B
    <2>1. ASSUME NEW x \in SUBSET (1 .. k), x # {} PROVE \E m \in x : \A y \in x : m >= y
      <3>1. CASE k \in x
        BY <3>1
      <3>2. CASE k \notin x
        <4>1. x \in SUBSET (1 .. k - 1)
          BY <3>2
        <4>2. QED
          BY <1>2, <2>1, <4>1
      <3>3. QED
        BY <3>1, <3>2
    <2>2. QED
      BY <2>1
  <1> HIDE DEF B
  <1>3. n \in B
    BY <1>1, <1>2, Upward
  <1>4. PICK m \in s : \A y \in s : m >= y
    BY <1>3 DEF B
  <1>5. QED
    BY <1>4 DEF Max

LEMMA MergeType ==
  ASSUME NEW v \in Seq(Interval), NEW r \in Interval
  PROVE  Merge(v, r) \in Seq(Interval)
  <1>1. v # <<>> => /\ Len(v) \in Nat \ {0} /\ v[Len(v)] \in Interval
                    /\ Front(v) \in Seq(Interval)
    BY DEF Front
  <1>2. \A a, b \in Nat : <<a, b>> \in Interval
    BY DEF Interval
  <1>3. \A i \in Interval : i[1] \in Nat /\ i[2] \in Nat
    BY DEF Interval
  <1>4. QED
    BY <1>1, <1>2, <1>3 DEF Merge, Last

(* A fold by its steps, when each result is a value of V: what the         *)
(* recursion gives for all the positions is the last of a table.           *)
Iterates(it, V, n, base, G) ==
  /\ it[{}] = base
  /\ \A s \in SUBSET (1 .. n) :
       s # {} /\ it[s \ {Max(s)}] \in V => it[s] = G[Max(s)][it[s \ {Max(s)}]]

Table(m, V, n, base, G) ==
  /\ m \in [0 .. n -> V]
  /\ m[0] = base
  /\ \A k \in 1 .. n : m[k] = G[k][m[k - 1]]

LEMMA FoldTable ==
  ASSUME NEW V, NEW base \in V, NEW n \in Nat, NEW G, Maps(G, n, V),
         NEW it, Iterates(it, V, n, base, G)
  PROVE  \E m : Table(m, V, n, base, G) /\ it[1 .. n] = m[n]
  <1> DEFINE m == [j \in 0 .. n |-> it[1 .. j]]
             B == {k \in 0 .. n : m[k] \in V}
  <1>1. m[0] = base
    <2>1. 1 .. 0 = {} /\ 0 \in 0 .. n
      OBVIOUS
    <2>2. QED
      BY <2>1 DEF Iterates
  <1>2. ASSUME NEW k \in 1 .. n, m[k - 1] \in V
        PROVE  m[k] = G[k][m[k - 1]] /\ m[k] \in V
    <2>1. k \in Nat \ {0} /\ k - 1 \in 0 .. n /\ k \in 0 .. n
      OBVIOUS
    <2>2. Max(1 .. k) = k
      BY <2>1, MaxOfInterval
    <2>3. (1 .. k) \ {k} = 1 .. k - 1
      BY <2>1
    <2>4. k \in 1 .. k
      BY <2>1
    <2>5. 1 .. k \subseteq 1 .. n
      BY <2>1
    <2>6. \A j \in 0 .. n : m[j] = it[1 .. j]
      OBVIOUS
    <2>7. it[(1 .. k) \ {Max(1 .. k)}] = m[k - 1]
      BY <2>1, <2>2, <2>3, <2>6
    <2> HIDE DEF m
    <2>8. it[1 .. k] = G[k][m[k - 1]]
      BY <1>2, <2>2, <2>4, <2>5, <2>7 DEF Iterates
    <2>9. m[k] = it[1 .. k]
      BY <2>1 DEF m
    <2>10. QED
      BY <1>2, <2>8, <2>9 DEF Maps
  <1>3. 0 \in B
    BY <1>1
  <1>4. ASSUME NEW k \in 1 .. n, k - 1 \in B PROVE k \in B
    <2>1. m[k - 1] \in V /\ k \in 0 .. n
      BY <1>4
    <2> HIDE DEF m
    <2>2. QED
      BY <1>2, <2>1
  <1> HIDE DEF B
  <1>5. 0 .. n \subseteq B
    BY <1>3, <1>4, Upward
  <1>6. m \in [0 .. n -> V]
    BY <1>5 DEF B
  <1>7. ASSUME NEW k \in 1 .. n PROVE m[k] = G[k][m[k - 1]]
    <2>1. k - 1 \in 0 .. n
      OBVIOUS
    <2> HIDE DEF m
    <2>2. QED
      BY <1>2, <1>6, <2>1
  <1>8. it[1 .. n] = m[n]
    OBVIOUS
  <1> HIDE DEF m
  <1>9. QED
    BY <1>1, <1>6, <1>7, <1>8 DEF Table

LEMMA MergeSteps ==
  ASSUME NEW t \in Seq(Interval)
  PROVE  \E m \in [0 .. Len(t) -> Seq(Interval)] :
           /\ m[0] = <<>>
           /\ \A k \in 1 .. Len(t) : m[k] = Merge(m[k - 1], t[k])
           /\ FoldLeft(Merge, <<>>, t) = m[Len(t)]
  <1> DEFINE n == Len(t)
             V == Seq(Interval)
             G == [k \in 1 .. n |-> [v \in V |-> Merge(v, t[k])]]
             Eqn(it) == it = [s \in SUBSET (DOMAIN t) |->
                               IF s = {} THEN <<>> ELSE Merge(it[s \ {Max(s)}], t[Max(s)])]
             it == CHOOSE it : Eqn(it)
  <1>1. \A v \in V, k \in 1 .. n : Merge(v, t[k]) \in V
    BY MergeType
  <1>2. Maps(G, n, V) /\ \A k \in 1 .. n, v \in V : G[k][v] = Merge(v, t[k])
    BY <1>1 DEF Maps
  <1>3. <<>> \in V /\ n \in Nat /\ DOMAIN t = 1 .. n
    OBVIOUS
  <1>4. FoldLeft(Merge, <<>>, t) = it[1 .. n]
    BY <1>3 DEF FoldLeft, MapThenFoldSet
  <1> HIDE DEF n, V, G, it
  <1>5. \A s \in SUBSET (1 .. n) : s # {} => Max(s) \in 1 .. n
    BY <1>3, MaxIn
  <1>6. PICK h \in [SUBSET (1 .. n) -> V] : Folds(h, n, <<>>, G)
    BY <1>2, <1>3, FoldExists
  <1>7. \A s \in SUBSET (1 .. n) :
          h[s] = IF s = {} THEN <<>> ELSE Merge(h[s \ {Max(s)}], t[Max(s)])
    BY <1>2, <1>5, <1>6 DEF Folds
  <1>8. Eqn(it)
    BY <1>3, <1>7 DEF it
  <1>9. Iterates(it, V, n, <<>>, G)
    <2>1. it[{}] = <<>>
      BY <1>3, <1>8
    <2>2. \A s \in SUBSET (1 .. n) :
            s # {} /\ it[s \ {Max(s)}] \in V => it[s] = G[Max(s)][it[s \ {Max(s)}]]
      BY <1>2, <1>3, <1>5, <1>8
    <2>3. QED
      BY <2>1, <2>2 DEF Iterates
  <1> HIDE DEF Eqn
  <1>10. PICK m : Table(m, V, n, <<>>, G) /\ it[1 .. n] = m[n]
    BY <1>2, <1>3, <1>9, FoldTable
  <1>11. \A k \in 1 .. n : k - 1 \in 0 .. n
    BY <1>3
  <1>12. /\ m \in [0 .. n -> V] /\ m[0] = <<>>
         /\ \A k \in 1 .. n : m[k] = Merge(m[k - 1], t[k])
    BY <1>2, <1>10, <1>11 DEF Table
  <1>13. QED
    BY <1>4, <1>10, <1>12 DEF n, V

(* What comes no later than the k-th interval, in order.                   *)
Precedes(rs, j, k) == Before(rs[j], rs[k]) \/ (rs[j] = rs[k] /\ j < k)

LEMMA Ordered ==
  ASSUME NEW rs \in Seq(Interval)
  PROVE  /\ \A j, k \in DOMAIN rs : j = k \/ Precedes(rs, j, k) \/ Precedes(rs, k, j)
         /\ \A k \in DOMAIN rs : ~Precedes(rs, k, k)
         /\ \A i, j, k \in DOMAIN rs : Precedes(rs, i, j) /\ Precedes(rs, j, k) => Precedes(rs, i, k)
         /\ \A k \in DOMAIN rs : NotAfter(rs, k) = {j \in DOMAIN rs : j = k \/ Precedes(rs, j, k)}
  <1>1. \A k \in DOMAIN rs : /\ k \in Nat /\ rs[k] = <<rs[k][1], rs[k][2]>>
                             /\ rs[k][1] \in Nat /\ rs[k][2] \in Nat
    BY DEF Interval
  <1>2. \A j, k \in DOMAIN rs :
          rs[j] = rs[k] <=> rs[j][1] = rs[k][1] /\ rs[j][2] = rs[k][2]
    BY <1>1
  <1>3. QED
    BY <1>1, <1>2 DEF Precedes, Before, NotAfter

(* The rank of an interval.                                                *)
LEMMA Ranks ==
  ASSUME NEW rs \in Seq(Interval)
  PROVE  \E c \in [DOMAIN rs -> DOMAIN rs] :
           /\ \A k \in DOMAIN rs : c[k] = Cardinality(NotAfter(rs, k))
           /\ \A j, k \in DOMAIN rs : c[j] = c[k] => j = k
           /\ \A j, k \in DOMAIN rs : c[j] < c[k] => Precedes(rs, j, k)
           /\ \A i \in DOMAIN rs : \E k \in DOMAIN rs : c[k] = i
  <1> DEFINE n == Len(rs)
             c == [k \in DOMAIN rs |-> Cardinality(NotAfter(rs, k))]
  <1>1. n \in Nat /\ DOMAIN rs = 1 .. n /\ IsFiniteSet(1 .. n) /\ Cardinality(1 .. n) = n
    <2>1. n \in Nat /\ DOMAIN rs = 1 .. n
      OBVIOUS
    <2>2. IsFiniteSet(1 .. n) /\ Cardinality(1 .. n) = n
      BY <2>1, FS_Interval, SMTT(20)
    <2>3. QED
      BY <2>1, <2>2
  <1>2. ASSUME NEW k \in 1 .. n
        PROVE  /\ NotAfter(rs, k) \subseteq 1 .. n /\ k \in NotAfter(rs, k)
               /\ IsFiniteSet(NotAfter(rs, k))
               /\ Cardinality(NotAfter(rs, k)) \in 1 .. n
    <2>1. NotAfter(rs, k) \subseteq 1 .. n /\ k \in NotAfter(rs, k)
      BY <1>1 DEF NotAfter
    <2>2. /\ IsFiniteSet(NotAfter(rs, k)) /\ Cardinality(NotAfter(rs, k)) <= n
          /\ Cardinality(NotAfter(rs, k)) \in Nat
      BY <1>1, <2>1, FS_Subset, FS_CardinalityType
    <2>3. Cardinality(NotAfter(rs, k)) # 0
      BY <2>1, <2>2, FS_EmptySet
    <2>4. QED
      BY <2>1, <2>2, <2>3
  <1>3. ASSUME NEW j \in 1 .. n, NEW k \in 1 .. n, Precedes(rs, j, k)
        PROVE  c[j] < c[k]
    <2>1. NotAfter(rs, j) \subseteq NotAfter(rs, k) /\ k \notin NotAfter(rs, j)
      BY <1>1, <1>3, Ordered
    <2>2. k \in NotAfter(rs, k)
      BY <1>2
    <2>3. /\ Cardinality(NotAfter(rs, j)) <= Cardinality(NotAfter(rs, k))
          /\ Cardinality(NotAfter(rs, j)) # Cardinality(NotAfter(rs, k))
      BY <1>2, <2>1, <2>2, FS_Subset
    <2>4. QED
      BY <1>1, <1>2, <2>3
  <1>4. c \in [1 .. n -> 1 .. n]
    BY <1>1, <1>2
  <1>5. \A k \in 1 .. n : c[k] = Cardinality(NotAfter(rs, k))
    BY <1>1
  <1> HIDE DEF c
  <1>6. \A k \in 1 .. n : c[k] \in Nat
    BY <1>4
  <1>7. ASSUME NEW j \in 1 .. n, NEW k \in 1 .. n, c[j] <= c[k]
        PROVE  j = k \/ Precedes(rs, j, k)
    <2>1. j = k \/ Precedes(rs, j, k) \/ Precedes(rs, k, j)
      BY <1>1, Ordered
    <2>2. ~Precedes(rs, k, j)
      BY <1>3, <1>6, <1>7
    <2>3. QED
      BY <2>1, <2>2
  <1>8. \A j, k \in 1 .. n : c[j] = c[k] => j = k
    <2> TAKE j, k \in 1 .. n
    <2>1. c[j] = c[k] => (j = k \/ Precedes(rs, j, k))
      BY <1>6, <1>7
    <2>2. QED
      BY <1>3, <1>6, <2>1
  <1>9. c \in Injection(1 .. n, 1 .. n)
    BY <1>4, <1>8 DEF Injection, IsInjective
  <1>10. c \in Surjection(1 .. n, 1 .. n)
    BY <1>1, <1>9, FS_Injection
  <1>11. \A i \in 1 .. n : \E k \in 1 .. n : c[k] = i
    BY <1>10 DEF Surjection
  <1> HIDE DEF n
  <1>12. \A j, k \in 1 .. n : c[j] < c[k] => Precedes(rs, j, k)
    BY <1>6, <1>7
  <1>13. QED
    BY <1>1, <1>4, <1>5, <1>8, <1>11, <1>12

LEMMA SortedKeeps ==
  ASSUME NEW rs \in Seq(Interval)
  PROVE  /\ Sorted(rs) \in Seq(Interval) /\ Len(Sorted(rs)) = Len(rs)
         /\ \A i \in DOMAIN rs : \E k \in DOMAIN rs : Sorted(rs)[i] = rs[k]
         /\ \A k \in DOMAIN rs : \E i \in DOMAIN rs : Sorted(rs)[i] = rs[k]
         /\ \A i, j \in DOMAIN rs : i < j => Sorted(rs)[i][1] <= Sorted(rs)[j][1]
  <1>1. PICK c \in [DOMAIN rs -> DOMAIN rs] :
           /\ \A k \in DOMAIN rs : c[k] = Cardinality(NotAfter(rs, k))
           /\ \A j, k \in DOMAIN rs : c[j] = c[k] => j = k
           /\ \A j, k \in DOMAIN rs : c[j] < c[k] => Precedes(rs, j, k)
           /\ \A i \in DOMAIN rs : \E k \in DOMAIN rs : c[k] = i
    BY Ranks
  <1> DEFINE At(i) == CHOOSE k \in DOMAIN rs : Cardinality(NotAfter(rs, k)) = i
  <1>2. ASSUME NEW i \in DOMAIN rs PROVE At(i) \in DOMAIN rs /\ c[At(i)] = i
    BY <1>1
  <1>3. \A k \in DOMAIN rs : At(c[k]) = k
    BY <1>1, <1>2
  <1>4. Sorted(rs) = [i \in DOMAIN rs |-> rs[At(i)]]
    BY DEF Sorted
  <1> HIDE DEF At
  <1>5. \A i \in DOMAIN rs : Sorted(rs)[i] = rs[At(i)] /\ At(i) \in DOMAIN rs
    BY <1>2, <1>4
  <1>6. Sorted(rs) \in Seq(Interval) /\ Len(Sorted(rs)) = Len(rs)
    BY <1>4, <1>5
  <1>7. \A i, j \in DOMAIN rs : i < j => Precedes(rs, At(i), At(j))
    BY <1>1, <1>2
  <1>8. \A j, k \in DOMAIN rs : Precedes(rs, j, k) => rs[j][1] <= rs[k][1]
    <2>1. \A k \in DOMAIN rs : rs[k][1] \in Nat
      BY DEF Interval
    <2>2. QED
      BY <2>1 DEF Precedes, Before
  <1>9. \A i, j \in DOMAIN rs : i < j => Sorted(rs)[i][1] <= Sorted(rs)[j][1]
    BY <1>5, <1>7, <1>8
  <1>10. \A k \in DOMAIN rs : \E i \in DOMAIN rs : Sorted(rs)[i] = rs[k]
    <2> TAKE k \in DOMAIN rs
    <2>1. c[k] \in DOMAIN rs /\ Sorted(rs)[c[k]] = rs[k]
      BY <1>1, <1>3, <1>5
    <2>2. QED
      BY <2>1
  <1>11. \A i \in DOMAIN rs : \E k \in DOMAIN rs : Sorted(rs)[i] = rs[k]
    BY <1>5
  <1>12. QED
    BY <1>6, <1>9, <1>10, <1>11

-----------------------------------------------------------------------------
(* The numbers in the intervals of a list, and the lists that rangeAdd     *)
(* leaves: no interval is empty, and each ends before the next begins.     *)
In(v) == {b \in Nat : \E k \in DOMAIN v : v[k][1] <= b /\ b < v[k][2]}
Apart(v) == /\ \A k \in DOMAIN v : v[k][1] < v[k][2]
            /\ \A j, k \in DOMAIN v : j < k => v[j][2] < v[k][1]
Within(v, z) == \A k \in DOMAIN v : v[k][2] <= z

(* One step of the merge: the list so far, and the next interval in order. *)
LEMMA FrontIs ==
  ASSUME NEW S, NEW v \in Seq(S), v # <<>>
  PROVE  /\ Front(v) \in Seq(S) /\ Len(Front(v)) = Len(v) - 1 /\ Len(v) \in Nat \ {0}
         /\ \A k \in 1 .. Len(v) - 1 : Front(v)[k] = v[k]
         /\ Last(v) = v[Len(v)] /\ Last(v) \in S
  <1>1. Len(v) \in Nat \ {0} /\ \A k \in 1 .. Len(v) : v[k] \in S
    OBVIOUS
  <1>2. Front(v) = SubSeq(v, 1, Len(v) - 1)
    BY DEF Front
  <1>3. Front(v) = [k \in 1 .. Len(v) - 1 |-> v[k]]
    BY <1>1, <1>2
  <1>4. \A k \in 1 .. Len(v) - 1 : v[k] \in S
    BY <1>1
  <1>5. Last(v) = v[Len(v)] /\ Last(v) \in S
    BY <1>1 DEF Last
  <1>6. QED
    BY <1>1, <1>3, <1>4, <1>5

LEMMA MergeKeeps ==
  ASSUME NEW v \in Seq(Interval), Apart(v), NEW r \in Interval, r[1] < r[2],
         v # <<>> => v[Len(v)][1] <= r[1]
  PROVE  /\ Apart(Merge(v, r)) /\ Merge(v, r) # <<>>
         /\ Merge(v, r)[Len(Merge(v, r))][1] <= r[1]
         /\ In(Merge(v, r)) = In(v) \cup {b \in Nat : r[1] <= b /\ b < r[2]}
         /\ \A z \in Nat : Within(v, z) /\ r[2] <= z => Within(Merge(v, r), z)
  <1> DEFINE n == Len(v)
             u == Merge(v, r)
  <1>1. /\ n \in Nat /\ DOMAIN v = 1 .. n /\ r[1] \in Nat /\ r[2] \in Nat
        /\ \A k \in 1 .. n : v[k][1] \in Nat /\ v[k][2] \in Nat
    BY DEF Interval
  <1>2. Merge(v, r) \in Seq(Interval)
    BY MergeType
  <1>3. CASE v = <<>> \/ ~(r[1] <= v[n][2])
    <2>1. u = Append(v, r)
      BY <1>3 DEF Merge, Last
    <2>2. /\ Len(u) = n + 1 /\ DOMAIN u = 1 .. n + 1 /\ u[n + 1] = r
          /\ \A k \in 1 .. n : u[k] = v[k]
      BY <1>1, <2>1
    <2>3. \A k \in 1 .. n : v[k][2] < r[1]
      <3> SUFFICES ASSUME NEW k \in 1 .. n PROVE v[k][2] < r[1]
        OBVIOUS
      <3>1. n \in 1 .. n /\ k <= n /\ v # <<>>
        BY <1>1
      <3>2. v[n][1] < v[n][2] /\ v[n][2] < r[1]
        BY <1>1, <1>3, <3>1 DEF Apart
      <3>3. k < n => v[k][2] < v[n][1]
        BY <1>1, <3>1 DEF Apart
      <3>4. QED
        BY <1>1, <3>1, <3>2, <3>3
    <2> HIDE DEF u, n
    <2>4. Apart(u)
      <3>1. \A k \in 1 .. n + 1 : k \in 1 .. n \/ k = n + 1
        BY <1>1
      <3>2. \A j, k \in 1 .. n + 1 : j < k => j \in 1 .. n
        BY <1>1
      <3>3. \A k \in 1 .. n + 1 : u[k][1] < u[k][2]
        BY <1>1, <2>2, <3>1 DEF Apart
      <3>4. \A j, k \in 1 .. n + 1 : j < k => u[j][2] < u[k][1]
        BY <1>1, <2>2, <2>3, <3>1, <3>2 DEF Apart
      <3>5. QED
        BY <2>2, <3>3, <3>4 DEF Apart
    <2>5. In(u) = In(v) \cup {b \in Nat : r[1] <= b /\ b < r[2]}
      <3>1. \A k : k \in 1 .. n + 1 <=> k \in 1 .. n \/ k = n + 1
        BY <1>1
      <3>2. QED
        BY <1>1, <2>2, <3>1 DEF In
    <2>6. \A z \in Nat : Within(v, z) /\ r[2] <= z => Within(u, z)
      <3>1. \A k \in 1 .. n + 1 : k \in 1 .. n \/ k = n + 1
        BY <1>1
      <3>2. QED
        BY <1>1, <2>2, <3>1 DEF Within
    <2>7. u # <<>> /\ u[Len(u)][1] <= r[1]
      BY <1>1, <2>2
    <2>8. QED
      BY <2>4, <2>5, <2>6, <2>7 DEF u
  <1>4. CASE v # <<>> /\ r[1] <= v[n][2]
    <2>1. n \in 1 .. n /\ n \in Nat \ {0} /\ v[n][1] <= r[1]
      BY <1>1, <1>4
    <2>2. CASE ~(r[2] > v[n][2])
      <3>1. u = v
        BY <1>4, <2>2 DEF Merge, Last
      <3>2. \A b \in Nat : r[1] <= b /\ b < r[2] => v[n][1] <= b /\ b < v[n][2]
        BY <1>1, <2>1, <2>2
      <3>3. In(v) = In(v) \cup {b \in Nat : r[1] <= b /\ b < r[2]}
        BY <1>1, <2>1, <3>2 DEF In
      <3>4. QED
        BY <1>4, <2>1, <3>1, <3>3
    <2>3. CASE r[2] > v[n][2]
      <3>1. u = Append(Front(v), <<v[n][1], r[2]>>)
        BY <1>4, <2>3 DEF Merge, Last
      <3>2. /\ Front(v) \in Seq(Interval) /\ Len(Front(v)) = n - 1
            /\ \A k \in 1 .. n - 1 : Front(v)[k] = v[k]
        BY <2>1, FrontIs
      <3>3. /\ Len(u) = n /\ DOMAIN u = 1 .. n /\ u[n] = <<v[n][1], r[2]>>
            /\ \A k \in 1 .. n - 1 : u[k] = v[k]
        BY <2>1, <3>1, <3>2
      <3>4. u[n][1] = v[n][1] /\ u[n][2] = r[2]
        BY <3>3
      <3>5. \A k : k \in 1 .. n <=> k \in 1 .. n - 1 \/ k = n
        BY <2>1
      <3> HIDE DEF u, n
      <3>6. Apart(u)
        <4>1. \A j, k \in 1 .. n : j < k => j \in 1 .. n - 1
          BY <1>1
        <4>2. \A k \in 1 .. n : u[k][1] < u[k][2]
          <5>1. u[n][1] < u[n][2]
            BY <1>1, <2>1, <2>3, <3>4 DEF Apart
          <5>2. \A k \in 1 .. n - 1 : u[k][1] < u[k][2]
            BY <1>1, <3>3, <3>5 DEF Apart
          <5>3. QED
            BY <3>5, <5>1, <5>2
        <4>3. \A j, k \in 1 .. n : j < k => u[j][2] < u[k][1]
          <5>1. \A j, k \in 1 .. n : j < k => v[j][2] < v[k][1]
            BY <1>1 DEF Apart
          <5>2. \A j \in 1 .. n - 1 : u[j][2] = v[j][2]
            BY <3>3
          <5>3. \A k \in 1 .. n : u[k][1] = v[k][1]
            BY <3>3, <3>4, <3>5
          <5>4. QED
            BY <4>1, <5>1, <5>2, <5>3
        <4>4. QED
          BY <3>3, <4>2, <4>3 DEF Apart
      <3>7. In(u) = In(v) \cup {b \in Nat : r[1] <= b /\ b < r[2]}
        <4>1. \A b \in Nat : u[n][1] <= b /\ b < u[n][2]
                               <=> \/ v[n][1] <= b /\ b < v[n][2]
                                   \/ r[1] <= b /\ b < r[2]
          BY <1>1, <1>4, <2>1, <2>3, <3>4
        <4>2. QED
          BY <1>1, <2>1, <3>3, <3>5, <4>1 DEF In
      <3>8. \A z \in Nat : Within(v, z) /\ r[2] <= z => Within(u, z)
        BY <1>1, <3>3, <3>4, <3>5 DEF Within
      <3>9. u # <<>> /\ u[Len(u)][1] <= r[1]
        BY <1>1, <2>1, <3>3, <3>4
      <3>10. QED
        BY <3>6, <3>7, <3>8, <3>9 DEF u
    <2>4. QED
      BY <2>2, <2>3
  <1>5. QED
    BY <1>3, <1>4

(* The merge of intervals in order: their numbers, and no others.          *)
InFirst(t, k) == {b \in Nat : \E j \in 1 .. k : t[j][1] <= b /\ b < t[j][2]}

Placewise(t, z) ==
  /\ \A k \in DOMAIN t : t[k][1] < t[k][2] /\ t[k][2] <= z
  /\ \A j, k \in DOMAIN t : j < k => t[j][1] <= t[k][1]

LEMMA MergedSorted ==
  ASSUME NEW t \in Seq(Interval), NEW z \in Nat, Placewise(t, z)
  PROVE  LET u == FoldLeft(Merge, <<>>, t)
         IN u \in Seq(Interval) /\ Apart(u) /\ Within(u, z) /\ In(u) = In(t)
  <1> DEFINE n == Len(t)
  <1>1. n \in Nat /\ DOMAIN t = 1 .. n /\ \A k \in 1 .. n : t[k] \in Interval
    OBVIOUS
  <1>2. PICK m \in [0 .. n -> Seq(Interval)] :
           /\ m[0] = <<>>
           /\ \A k \in 1 .. n : m[k] = Merge(m[k - 1], t[k])
           /\ FoldLeft(Merge, <<>>, t) = m[n]
    BY MergeSteps
  <1> DEFINE Good(k) == /\ Apart(m[k]) /\ Within(m[k], z)
                        /\ m[k] # <<>> => k \in 1 .. n /\ m[k][Len(m[k])][1] <= t[k][1]
                        /\ In(m[k]) = InFirst(t, k)
             B == {k \in 0 .. n : Good(k)}
  <1>3. Good(0)
    <2>1. DOMAIN <<>> = {} /\ 1 .. 0 = {}
      OBVIOUS
    <2>2. Apart(<<>>) /\ Within(<<>>, z) /\ In(<<>>) = {} /\ InFirst(t, 0) = {}
      BY <2>1 DEF Apart, Within, In, InFirst
    <2>3. m[0] = <<>>
      BY <1>2
    <2>4. QED
      BY <2>2, <2>3
  <1>4. ASSUME NEW k \in 1 .. n, Good(k - 1) PROVE Good(k)
    <2>1. /\ k - 1 \in 0 .. n /\ m[k - 1] \in Seq(Interval) /\ t[k] \in Interval
          /\ k \in Nat
      BY <1>1, <1>2
    <2>2. t[k][1] < t[k][2] /\ t[k][2] <= z
      BY <1>1 DEF Placewise
    <2>3. m[k - 1] # <<>> => m[k - 1][Len(m[k - 1])][1] <= t[k][1]
      <3>1. ASSUME m[k - 1] # <<>> PROVE m[k - 1][Len(m[k - 1])][1] <= t[k][1]
        <4>1. k - 1 \in 1 .. n /\ m[k - 1][Len(m[k - 1])][1] <= t[k - 1][1]
          BY <1>4, <3>1
        <4>2. t[k - 1][1] <= t[k][1]
          <5>1. k - 1 \in DOMAIN t /\ k \in DOMAIN t /\ k - 1 < k
            BY <1>1, <2>1, <4>1
          <5>2. QED
            BY <5>1 DEF Placewise
        <4>3. PICK x \in Interval : x = m[k - 1][Len(m[k - 1])]
          BY <2>1, <3>1
        <4>4. t[k - 1] \in Interval
          BY <1>1, <4>1
        <4>5. x[1] \in Nat /\ t[k - 1][1] \in Nat /\ t[k][1] \in Nat
          BY <2>1, <4>4 DEF Interval
        <4>6. x[1] <= t[k - 1][1]
          BY <4>1, <4>3
        <4>7. QED
          BY <4>2, <4>3, <4>5, <4>6
      <3>2. QED
        BY <3>1
    <2>4. m[k] = Merge(m[k - 1], t[k])
      BY <1>2
    <2>5. /\ Apart(m[k]) /\ m[k] # <<>> /\ m[k][Len(m[k])][1] <= t[k][1]
          /\ In(m[k]) = In(m[k - 1]) \cup {b \in Nat : t[k][1] <= b /\ b < t[k][2]}
          /\ Within(m[k], z)
      BY <1>4, <2>1, <2>2, <2>3, <2>4, MergeKeeps
    <2>6. InFirst(t, k) = InFirst(t, k - 1) \cup {b \in Nat : t[k][1] <= b /\ b < t[k][2]}
      <3>1. \A j : j \in 1 .. k <=> j \in 1 .. k - 1 \/ j = k
        BY <2>1
      <3>2. QED
        BY <3>1 DEF InFirst
    <2>7. QED
      BY <1>4, <2>5, <2>6
  <1> HIDE DEF Good
  <1>5. 0 \in B
    BY <1>1, <1>3
  <1>6. \A k \in 1 .. n : k - 1 \in B => k \in B
    BY <1>1, <1>4
  <1> HIDE DEF B
  <1>7. n \in B
    <2>1. n \in Nat
      BY <1>1
    <2> HIDE DEF n
    <2>2. 0 .. n \subseteq B
      BY <1>5, <1>6, <2>1, Upward
    <2>3. QED
      BY <2>1, <2>2
  <1>8. In(t) = InFirst(t, n)
    BY <1>1 DEF In, InFirst
  <1>9. Good(n) /\ m[n] \in Seq(Interval)
    BY <1>1, <1>2, <1>7 DEF B
  <1>10. QED
    BY <1>2, <1>8, <1>9 DEF Good

(* rangeAdd: the numbers of the interval come in, whatever was there.      *)
Normal(v, z) == v \in Seq(Interval) /\ Apart(v) /\ Within(v, z)

LEMMA NormalIs ==
  ASSUME NEW z, NEW v, Normal(v, z)
  PROVE  /\ v \in Seq(Interval) /\ Len(v) \in Nat /\ DOMAIN v = 1 .. Len(v)
         /\ \A k \in 1 .. Len(v) : /\ v[k] \in Interval
                                   /\ v[k][1] \in Nat /\ v[k][2] \in Nat
                                   /\ v[k][1] < v[k][2] /\ v[k][2] <= z
         /\ \A j, k \in 1 .. Len(v) : j < k => v[j][2] < v[k][1]
  <1>1. /\ v \in Seq(Interval) /\ Len(v) \in Nat /\ DOMAIN v = 1 .. Len(v)
        /\ \A k \in 1 .. Len(v) : v[k] \in Interval
    BY DEF Normal
  <1>2. \A x \in Interval : x[1] \in Nat /\ x[2] \in Nat
    BY DEF Interval
  <1>3. /\ \A k \in 1 .. Len(v) : v[k][1] < v[k][2] /\ v[k][2] <= z
        /\ \A j, k \in 1 .. Len(v) : j < k => v[j][2] < v[k][1]
    BY <1>1 DEF Normal, Apart, Within
  <1>4. QED
    BY <1>1, <1>2, <1>3

LEMMA AddIs ==
  ASSUME NEW z \in Nat, NEW v, Normal(v, z), NEW s \in Nat, NEW e \in Nat, s < e, e <= z
  PROVE  LET u == FoldLeft(Merge, <<>>, Sorted(Append(v, <<s, e>>)))
         IN Normal(u, z) /\ In(u) = In(v) \cup (s .. e - 1)
  <1> DEFINE w == Append(v, <<s, e>>)
             n == Len(v)
  <1>1. v \in Seq(Interval) /\ n \in Nat /\ DOMAIN v = 1 .. n /\ <<s, e>> \in Interval
    BY DEF Normal, Interval
  <1>2. /\ w \in Seq(Interval) /\ DOMAIN w = 1 .. n + 1 /\ w[n + 1] = <<s, e>>
        /\ \A k \in 1 .. n : w[k] = v[k]
    BY <1>1
  <1>3. \A k : k \in 1 .. n + 1 <=> k \in 1 .. n \/ k = n + 1
    BY <1>1
  <1>4. w[n + 1][1] = s /\ w[n + 1][2] = e
    BY <1>2
  <1> HIDE DEF w, n
  <1>5. \A k \in 1 .. n : v[k][1] < v[k][2] /\ v[k][2] <= z
    BY <1>1 DEF Normal, Apart, Within
  <1>6. \A k \in DOMAIN w : w[k][1] < w[k][2] /\ w[k][2] <= z
    BY <1>2, <1>3, <1>4, <1>5
  <1>7. In(w) = In(v) \cup (s .. e - 1)
    <2>1. \A b \in Nat : b \in s .. e - 1 <=> s <= b /\ b < e
      OBVIOUS
    <2>2. s .. e - 1 \subseteq Nat
      OBVIOUS
    <2>3. In(w) = In(v) \cup {b \in Nat : s <= b /\ b < e}
      BY <1>1, <1>2, <1>3, <1>4 DEF In
    <2>4. QED
      BY <2>1, <2>2, <2>3
  <1> DEFINE t == Sorted(w)
  <1>8. /\ t \in Seq(Interval) /\ Len(t) = Len(w)
        /\ \A i \in DOMAIN w : \E k \in DOMAIN w : t[i] = w[k]
        /\ \A k \in DOMAIN w : \E i \in DOMAIN w : t[i] = w[k]
        /\ \A i, j \in DOMAIN w : i < j => t[i][1] <= t[j][1]
    BY <1>2, SortedKeeps
  <1>9. DOMAIN t = DOMAIN w
    BY <1>2, <1>8
  <1> HIDE DEF t
  <1>10. In(t) = In(w)
    BY <1>8, <1>9 DEF In
  <1>11. \A k \in DOMAIN t : t[k][1] < t[k][2] /\ t[k][2] <= z
    BY <1>6, <1>8, <1>9
  <1>12. \A j, k \in DOMAIN t : j < k => t[j][1] <= t[k][1]
    BY <1>8, <1>9
  <1> DEFINE u == FoldLeft(Merge, <<>>, t)
  <1>13. u \in Seq(Interval) /\ Apart(u) /\ Within(u, z) /\ In(u) = In(t)
    <2>1. Placewise(t, z)
      BY <1>11, <1>12 DEF Placewise
    <2>2. QED
      BY <1>8, <2>1, MergedSorted
  <1> HIDE DEF u
  <1>14. Normal(u, z) /\ In(u) = In(v) \cup (s .. e - 1)
    BY <1>7, <1>10, <1>13 DEF Normal
  <1>15. QED
    BY <1>14 DEF u, t, w

(* rangeCover: one interval around a span is what there is to look for.    *)
LEMMA CoverIs ==
  ASSUME NEW z \in Nat, NEW v, Normal(v, z), NEW s \in Nat, NEW e \in Nat, s < e
  PROVE  rangeCover(v, s, e) <=> s .. e - 1 \subseteq In(v)
  <1>1. \A k \in DOMAIN v : v[k][1] \in Nat /\ v[k][2] \in Nat /\ k \in Nat
    BY DEF Normal, Interval
  <1>2. ASSUME NEW k \in DOMAIN v, v[k][1] <= s, e <= v[k][2]
        PROVE  s .. e - 1 \subseteq In(v)
    <2>1. \A b \in s .. e - 1 : b \in Nat /\ v[k][1] <= b /\ b < v[k][2]
      BY <1>1, <1>2
    <2>2. QED
      BY <2>1 DEF In
  <1>3. ASSUME s .. e - 1 \subseteq In(v)
        PROVE  \E k \in DOMAIN v : v[k][1] <= s /\ e <= v[k][2]
    <2>1. s \in s .. e - 1
      OBVIOUS
    <2>2. PICK k \in DOMAIN v : v[k][1] <= s /\ s < v[k][2]
      BY <1>3, <2>1 DEF In
    <2>3. ASSUME v[k][2] < e PROVE FALSE
      <3>1. v[k][2] \in s .. e - 1
        BY <1>1, <2>2, <2>3
      <3>2. PICK j \in DOMAIN v : v[j][1] <= v[k][2] /\ v[k][2] < v[j][2]
        BY <1>3, <3>1 DEF In
      <3>3. j < k => v[j][2] < v[k][1]
        BY DEF Normal, Apart
      <3>4. k < j => v[k][2] < v[j][1]
        BY DEF Normal, Apart
      <3>5. j # k
        BY <1>1, <3>2
      <3>6. QED
        BY <1>1, <2>2, <3>2, <3>3, <3>4, <3>5
    <2>4. QED
      BY <1>1, <2>2, <2>3
  <1>4. QED
    BY <1>2, <1>3 DEF rangeCover

(* One list after another: apart if the gap between them is.               *)
LEMMA ConcatIs ==
  ASSUME NEW a \in Seq(Interval), Apart(a), NEW b \in Seq(Interval), Apart(b),
         NEW x \in Nat, Within(a, x), \A j \in DOMAIN b : x < b[j][1]
  PROVE  /\ a \o b \in Seq(Interval) /\ Apart(a \o b) /\ In(a \o b) = In(a) \cup In(b)
         /\ \A k \in DOMAIN (a \o b) :
              \/ k \in DOMAIN a /\ (a \o b)[k] = a[k]
              \/ \E j \in DOMAIN b : (a \o b)[k] = b[j]
  <1> DEFINE p == Len(a)
             q == Len(b)
             c == a \o b
  <1>1. /\ p \in Nat /\ q \in Nat /\ DOMAIN a = 1 .. p /\ DOMAIN b = 1 .. q
        /\ c \in Seq(Interval) /\ DOMAIN c = 1 .. p + q
        /\ \A k \in 1 .. p : c[k] = a[k]
        /\ \A k \in 1 .. q : c[p + k] = b[k]
    OBVIOUS
  <1>2. /\ \A k \in 1 .. p : a[k][1] \in Nat /\ a[k][2] \in Nat
        /\ \A k \in 1 .. q : b[k][1] \in Nat /\ b[k][2] \in Nat
    BY <1>1 DEF Interval
  <1> HIDE DEF p, q, c
  <1>3. \A k \in 1 .. p + q : k \in 1 .. p \/ k - p \in 1 .. q
    BY <1>1
  <1>4. \A k \in 1 .. p + q : k \notin 1 .. p => k - p \in 1 .. q /\ c[k] = b[k - p]
    <2> TAKE k \in 1 .. p + q
    <2>1. k - p \in 1 .. q => c[p + (k - p)] = b[k - p]
      BY <1>1
    <2>2. p + (k - p) = k
      BY <1>1
    <2>3. QED
      BY <1>3, <2>1, <2>2
  <1>5. \A k \in 1 .. p : k \in 1 .. p + q
    BY <1>1
  <1>6. \A k \in 1 .. q : p + k \in 1 .. p + q
    BY <1>1
  <1>7. In(c) = In(a) \cup In(b)
    <2>1. In(c) \subseteq In(a) \cup In(b)
      BY <1>1, <1>4 DEF In
    <2>2. In(a) \subseteq In(c)
      BY <1>1, <1>5 DEF In
    <2>3. In(b) \subseteq In(c)
      BY <1>1, <1>6 DEF In
    <2>4. QED
      BY <2>1, <2>2, <2>3
  <1>8. \A k \in 1 .. p + q : c[k][1] < c[k][2]
    BY <1>1, <1>4 DEF Apart
  <1>9. ASSUME NEW j \in 1 .. p + q, NEW k \in 1 .. p + q, j < k
        PROVE  c[j][2] < c[k][1]
    <2>1. CASE k \in 1 .. p
      <3>1. j \in 1 .. p
        BY <1>1, <1>9, <2>1
      <3>2. QED
        BY <1>1, <1>9, <2>1, <3>1 DEF Apart
    <2>2. CASE j \notin 1 .. p
      <3>1. k \notin 1 .. p /\ j - p < k - p
        BY <1>1, <1>9, <2>2
      <3>2. /\ j - p \in DOMAIN b /\ c[j] = b[j - p]
            /\ k - p \in DOMAIN b /\ c[k] = b[k - p]
        BY <1>1, <1>4, <2>2, <3>1
      <3>3. b[j - p][2] < b[k - p][1]
        BY <3>1, <3>2 DEF Apart
      <3>4. QED
        BY <3>2, <3>3
    <2>3. CASE j \in 1 .. p /\ k \notin 1 .. p
      <3>1. c[j][2] <= x /\ x < c[k][1] /\ c[j][2] \in Nat /\ c[k][1] \in Nat
        BY <1>1, <1>2, <1>4, <2>3 DEF Within
      <3>2. QED
        BY <3>1
    <2>4. QED
      BY <2>1, <2>2, <2>3
  <1>10. Apart(c)
    BY <1>1, <1>8, <1>9 DEF Apart
  <1>11. \A k \in DOMAIN c : \/ k \in DOMAIN a /\ c[k] = a[k]
                             \/ \E j \in DOMAIN b : c[k] = b[j]
    BY <1>1, <1>4
  <1>12. QED
    BY <1>1, <1>7, <1>10, <1>11 DEF c

LEMMA SpanIs ==
  ASSUME NEW s \in Nat, NEW e \in Nat
  PROVE  /\ Span(s, e) \in Seq(Interval) /\ Apart(Span(s, e))
         /\ In(Span(s, e)) = {b \in Nat : s <= b /\ b < e}
         /\ Within(Span(s, e), e)
         /\ \A j \in DOMAIN Span(s, e) : Span(s, e)[j][1] = s
  <1>1. CASE s < e
    <2>1. Span(s, e) = <<<<s, e>>>>
      BY <1>1 DEF Span
    <2>2. /\ <<<<s, e>>>> \in Seq(Interval) /\ DOMAIN <<<<s, e>>>> = {1}
          /\ <<<<s, e>>>>[1][1] = s /\ <<<<s, e>>>>[1][2] = e
      BY DEF Interval
    <2>3. QED
      BY <1>1, <2>1, <2>2 DEF Apart, In, Within
  <1>2. CASE ~(s < e)
    <2>1. Span(s, e) = <<>> /\ DOMAIN <<>> = {} /\ <<>> \in Seq(Interval)
      BY <1>2 DEF Span
    <2>2. \A b \in Nat : ~(s <= b /\ b < e)
      BY <1>2
    <2>3. QED
      BY <2>1, <2>2 DEF Apart, In, Within
  <1>3. QED
    BY <1>1, <1>2

(* What rangeRemove leaves of one interval.                                *)
LEMMA RemainderIs ==
  ASSUME NEW r \in Interval, r[1] < r[2], NEW s \in Nat, NEW e \in Nat, s < e
  PROVE  LET q == Remainder(r, s, e)
         IN /\ q \in Seq(Interval) /\ Apart(q)
            /\ In(q) = {b \in Nat : r[1] <= b /\ b < r[2]} \ (s .. e - 1)
            /\ \A j \in DOMAIN q : r[1] <= q[j][1] /\ q[j][2] <= r[2]
  <1> DEFINE q == Remainder(r, s, e)
             I == {b \in Nat : r[1] <= b /\ b < r[2]}
  <1>1. r[1] \in Nat /\ r[2] \in Nat
    BY DEF Interval
  <1>2. \A b \in Nat : b \in s .. e - 1 <=> s <= b /\ b < e
    OBVIOUS
  <1>3. CASE r[2] <= s \/ e <= r[1]
    <2>1. q = <<r>> /\ <<r>> \in Seq(Interval) /\ DOMAIN <<r>> = {1} /\ <<r>>[1] = r
      BY <1>3 DEF Remainder
    <2>2. I = I \ (s .. e - 1)
      BY <1>1, <1>2, <1>3
    <2>3. Apart(<<r>>) /\ In(<<r>>) = I
      BY <1>1, <2>1 DEF Apart, In
    <2> HIDE DEF q
    <2>4. \A j \in DOMAIN q : r[1] <= q[j][1] /\ q[j][2] <= r[2]
      BY <1>1, <2>1
    <2>5. QED
      BY <2>1, <2>2, <2>3, <2>4 DEF q
  <1>4. CASE ~(r[2] <= s \/ e <= r[1])
    <2> DEFINE a == Span(r[1], s)
               b == Span(e, r[2])
    <2>1. q = a \o b
      BY <1>4 DEF Remainder
    <2>2. /\ a \in Seq(Interval) /\ Apart(a) /\ Within(a, s)
          /\ In(a) = {i \in Nat : r[1] <= i /\ i < s}
          /\ \A j \in DOMAIN a : a[j][1] = r[1]
      BY <1>1, SpanIs
    <2>3. /\ b \in Seq(Interval) /\ Apart(b) /\ Within(b, r[2])
          /\ In(b) = {i \in Nat : e <= i /\ i < r[2]}
          /\ \A j \in DOMAIN b : b[j][1] = e
      BY <1>1, SpanIs
    <2> HIDE DEF a, b, q
    <2>4. \A j \in DOMAIN b : s < b[j][1]
      BY <2>3
    <2>5. /\ a \o b \in Seq(Interval) /\ Apart(a \o b) /\ In(a \o b) = In(a) \cup In(b)
          /\ \A k \in DOMAIN (a \o b) :
               \/ k \in DOMAIN a /\ (a \o b)[k] = a[k]
               \/ \E j \in DOMAIN b : (a \o b)[k] = b[j]
      BY <2>2, <2>3, <2>4, ConcatIs
    <2>6. In(a) \cup In(b) = I \ (s .. e - 1)
      BY <1>1, <1>2, <1>4, <2>2, <2>3
    <2>7. \A j \in DOMAIN q : r[1] <= q[j][1] /\ q[j][2] <= r[2]
      <3>1. \A j \in DOMAIN a : a[j][1] = r[1] /\ a[j][2] <= s /\ a[j][2] \in Nat
        BY <2>2 DEF Within, Interval
      <3>2. \A j \in DOMAIN b : b[j][1] = e /\ b[j][2] <= r[2]
        BY <2>3 DEF Within
      <3>3. \A k \in DOMAIN q : \/ k \in DOMAIN a /\ q[k] = a[k]
                               \/ \E j \in DOMAIN b : q[k] = b[j]
        BY <2>1, <2>5
      <3>4. QED
        BY <1>1, <1>4, <3>1, <3>2, <3>3
    <2>8. QED
      BY <2>1, <2>5, <2>6, <2>7 DEF q
  <1>5. QED
    BY <1>3, <1>4

LEMMA TableExists ==
  ASSUME NEW V, NEW base \in V, NEW n \in Nat, NEW G, Maps(G, n, V)
  PROVE  \E m : Table(m, V, n, base, G)
  <1>1. PICK h \in [SUBSET (1 .. n) -> V] : Folds(h, n, base, G)
    BY FoldExists
  <1>2. Iterates(h, V, n, base, G)
    BY <1>1 DEF Iterates, Folds
  <1>3. QED
    BY <1>2, FoldTable

(* FlattenSeq by its steps.                                                *)
Flattened(f, q, n) ==
  /\ f \in [1 .. n -> Seq(Interval)]
  /\ f[1] = q[1]
  /\ \A k \in 2 .. n : f[k] = f[k - 1] \o q[k]

LEMMA FlattenSteps ==
  ASSUME NEW n \in Nat \ {0}, NEW q \in [1 .. n -> Seq(Interval)]
  PROVE  \E f : Flattened(f, q, n) /\ FlattenSeq(q) = f[n]
  <1> DEFINE V == Seq(Interval)
             G == [k \in 1 .. n |-> [v \in V |-> v \o q[k]]]
             Eqn(f) == f = [i \in 1 .. Len(q) |-> IF i = 1 THEN q[i] ELSE f[i - 1] \o q[i]]
             f == CHOOSE f : Eqn(f)
  <1>1. <<>> \in V /\ \A v \in V, k \in 1 .. n : v \o q[k] \in V /\ <<>> \o q[k] = q[k]
    OBVIOUS
  <1>2. Maps(G, n, V) /\ \A k \in 1 .. n, v \in V : G[k][v] = v \o q[k]
    BY <1>1 DEF Maps
  <1>3. Len(q) = n
    OBVIOUS
  <1>4. FlattenSeq(q) = f[n]
    BY <1>3 DEF FlattenSeq
  <1> HIDE DEF V, G, f
  <1>5. PICK m : Table(m, V, n, <<>>, G)
    BY <1>1, <1>2, TableExists
  <1> DEFINE h == [i \in 1 .. n |-> m[i]]
  <1>6. /\ \A k \in 0 .. n : m[k] \in V
        /\ m[0] = <<>>
        /\ \A k \in 1 .. n : m[k] = G[k][m[k - 1]]
    BY <1>5 DEF Table
  <1>7. \A k \in 1 .. n : k - 1 \in 0 .. n /\ (k = 1 \/ k - 1 \in 1 .. n)
    OBVIOUS
  <1>8. \A k \in 1 .. n : m[k] = m[k - 1] \o q[k]
    BY <1>2, <1>6, <1>7
  <1>9. m[1] = q[1]
    <2>1. 1 \in 1 .. n /\ 1 - 1 = 0
      OBVIOUS
    <2>2. m[1] = m[0] \o q[1]
      BY <1>8, <2>1
    <2>3. QED
      BY <1>1, <1>6, <2>1, <2>2
  <1>10. \A i \in 1 .. n : h[i] = IF i = 1 THEN q[i] ELSE h[i - 1] \o q[i]
    BY <1>7, <1>8, <1>9
  <1>11. h \in [1 .. n -> V]
    BY <1>6
  <1> HIDE DEF h
  <1>12. Eqn(h)
    BY <1>3, <1>10, <1>11
  <1>13. Eqn(f)
    BY <1>12 DEF f
  <1>14. \A i \in 1 .. n : f[i] = IF i = 1 THEN q[i] ELSE f[i - 1] \o q[i]
    BY <1>3, <1>13
  <1> HIDE DEF Eqn
  <1>15. \A k \in 2 .. n : k \in 1 .. n /\ k # 1
    OBVIOUS
  <1>16. f[1] = q[1] /\ \A k \in 2 .. n : f[k] = f[k - 1] \o q[k]
    <2>1. 1 \in 1 .. n
      OBVIOUS
    <2>2. QED
      BY <1>14, <1>15, <2>1
  <1> DEFINE B == {k \in 0 .. n : k = 0 \/ f[k] \in V}
  <1>17. 0 \in B
    OBVIOUS
  <1>18. ASSUME NEW k \in 1 .. n, k - 1 \in B PROVE k \in B
    <2>1. k = 1 \/ (k \in 2 .. n /\ f[k - 1] \in V)
      BY <1>18
    <2>2. f[k] \in V
      BY <1>1, <1>16, <2>1 DEF V
    <2>3. QED
      BY <2>2
  <1> HIDE DEF B
  <1>19. 0 .. n \subseteq B
    BY <1>17, <1>18, Upward
  <1>20. \A k \in 1 .. n : f[k] \in V
    BY <1>19 DEF B
  <1>21. f = [i \in 1 .. n |-> f[i]]
    BY <1>3, <1>13 DEF Eqn
  <1>22. f \in [1 .. n -> V]
    BY <1>20, <1>21
  <1>23. QED
    BY <1>4, <1>16, <1>22 DEF V, Flattened

(* rangeRemove: the numbers of the span go out, and no others.             *)
LEMMA RemoveIs ==
  ASSUME NEW z \in Nat, NEW v, Normal(v, z), NEW s \in Nat, NEW e \in Nat, s < e
  PROVE  /\ Normal(rangeRemove(v, s, e), z)
         /\ In(rangeRemove(v, s, e)) = In(v) \ (s .. e - 1)
  <1> DEFINE n == Len(v)
             q == [k \in DOMAIN v |-> Remainder(v[k], s, e)]
             Cut(k) == {b \in Nat : v[k][1] <= b /\ b < v[k][2]} \ (s .. e - 1)
             Cuts(k) == {b \in Nat : \E j \in 1 .. k : b \in Cut(j)}
  <1>1. /\ v \in Seq(Interval) /\ n \in Nat /\ DOMAIN v = 1 .. n
        /\ \A k \in 1 .. n : /\ v[k] \in Interval /\ v[k][1] \in Nat /\ v[k][2] \in Nat
                             /\ v[k][1] < v[k][2] /\ v[k][2] <= z
        /\ \A j, k \in 1 .. n : j < k => v[j][2] < v[k][1]
    BY NormalIs
  <1>2. rangeRemove(v, s, e) = FlattenSeq(q)
    BY DEF rangeRemove
  <1>3. CASE n = 0
    <2>1. v = <<>> /\ q = <<>>
      BY <1>1, <1>3
    <2>2. FlattenSeq(q) = <<>>
      BY <2>1 DEF FlattenSeq
    <2>3. In(<<>>) = {} /\ Apart(<<>>) /\ Within(<<>>, z) /\ <<>> \in Seq(Interval)
      BY DEF In, Apart, Within
    <2>4. QED
      BY <1>2, <2>1, <2>2, <2>3 DEF Normal
  <1>4. CASE n # 0
    <2>1. \A k \in 1 .. n : /\ q[k] = Remainder(v[k], s, e)
                            /\ q[k] \in Seq(Interval) /\ Apart(q[k]) /\ In(q[k]) = Cut(k)
                            /\ \A j \in DOMAIN q[k] : v[k][1] <= q[k][j][1] /\ q[k][j][2] <= v[k][2]
      <3> TAKE k \in 1 .. n
      <3>1. q[k] = Remainder(v[k], s, e)
        BY <1>1
      <3> HIDE DEF q
      <3>2. v[k] \in Interval /\ v[k][1] < v[k][2]
        BY <1>1
      <3>3. QED
        BY <3>1, <3>2, RemainderIs
    <2>2. q \in [1 .. n -> Seq(Interval)]
      BY <1>1, <2>1
    <2> HIDE DEF q, n, Cut
    <2>3. n \in Nat \ {0}
      BY <1>1, <1>4
    <2>4. PICK f : Flattened(f, q, n) /\ FlattenSeq(q) = f[n]
      BY <2>3, <2>2, FlattenSteps
    <2>5. /\ f \in [1 .. n -> Seq(Interval)]
           /\ f[1] = q[1]
           /\ \A k \in 2 .. n : f[k] = f[k - 1] \o q[k]
      BY <2>4 DEF Flattened
    <2> DEFINE Good(k) == /\ Apart(f[k]) /\ Within(f[k], v[k][2])
                          /\ In(f[k]) = Cuts(k)
               B == {k \in 0 .. n : k = 0 \/ Good(k)}
    <2>6. ASSUME NEW k \in 1 .. n, k = 1 \/ Good(k - 1) PROVE Good(k)
      <3>1. CASE k = 1
        <4>1. Within(q[1], v[1][2])
          BY <2>1, <3>1 DEF Within
        <4>2. Cut(1) = Cuts(1)
          BY DEF Cut
        <4>3. QED
          BY <2>1, <2>5, <3>1, <4>1, <4>2
      <3>2. CASE k # 1
        <4>1. k \in 2 .. n /\ k - 1 \in 1 .. n /\ k - 1 < k
          BY <1>1, <3>2
        <4>2. f[k - 1] \in Seq(Interval) /\ Good(k - 1)
          BY <2>5, <2>6, <3>2, <4>1
        <4>3. \A j \in DOMAIN q[k] : v[k - 1][2] < q[k][j][1]
          <5>1. v[k - 1][2] < v[k][1] /\ v[k - 1][2] \in Nat /\ v[k][1] \in Nat
            BY <1>1, <4>1
          <5>2. \A j \in DOMAIN q[k] : q[k][j][1] \in Nat /\ v[k][1] <= q[k][j][1]
            BY <2>1 DEF Interval
          <5>3. QED
            BY <5>1, <5>2
        <4> DEFINE c == f[k - 1] \o q[k]
        <4>4. f[k] = c
          BY <2>5, <4>1
        <4>5. /\ c \in Seq(Interval) /\ Apart(c) /\ In(c) = In(f[k - 1]) \cup In(q[k])
              /\ \A i \in DOMAIN c :
                   \/ i \in DOMAIN f[k - 1] /\ c[i] = f[k - 1][i]
                   \/ \E j \in DOMAIN q[k] : c[i] = q[k][j]
          BY <1>1, <2>1, <4>1, <4>2, <4>3, ConcatIs
        <4> HIDE DEF c
        <4>6. Within(c, v[k][2])
          <5>1. /\ v[k - 1][2] < v[k][1] /\ v[k - 1][2] \in Nat /\ v[k][1] \in Nat
                /\ v[k][2] \in Nat /\ v[k][1] < v[k][2]
            BY <1>1, <4>1
          <5>2. \A i \in DOMAIN f[k - 1] : f[k - 1][i][2] <= v[k - 1][2] /\ f[k - 1][i][2] \in Nat
            BY <4>2 DEF Within, Interval
          <5>3. \A i \in DOMAIN f[k - 1] : f[k - 1][i][2] <= v[k][2]
            BY <5>1, <5>2
          <5>4. \A j \in DOMAIN q[k] : q[k][j][2] <= v[k][2]
            BY <2>1
          <5>5. QED
            BY <4>5, <5>3, <5>4 DEF Within
        <4>7. Cuts(k) = Cuts(k - 1) \cup Cut(k)
          <5>1. \A j : j \in 1 .. k <=> j \in 1 .. k - 1 \/ j = k
            BY <4>1
          <5>2. Cut(k) \subseteq Nat
            BY DEF Cut
          <5>3. QED
            BY <5>1, <5>2
        <4> HIDE DEF Cuts
        <4>8. QED
          BY <2>1, <4>2, <4>4, <4>5, <4>6, <4>7
      <3>3. QED
        BY <3>1, <3>2
    <2> HIDE DEF Good
    <2>7. 0 \in B
      BY <1>1
    <2>8. ASSUME NEW k \in 1 .. n, k - 1 \in B PROVE k \in B
      <3>1. k = 1 \/ Good(k - 1)
        BY <1>1, <2>8
      <3>2. Good(k) /\ k \in 0 .. n
        BY <1>1, <2>6, <3>1
      <3>3. QED
        BY <3>2
    <2> HIDE DEF B
    <2>9. 0 .. n \subseteq B
      BY <1>1, <2>7, <2>8, Upward
    <2>10. Good(n) /\ n \in 1 .. n
      BY <1>1, <1>4, <2>9 DEF B
    <2>11. Cuts(n) = In(v) \ (s .. e - 1)
      BY <1>1 DEF Cut, In
    <2>12. Within(f[n], z)
      <3>1. \A i \in DOMAIN f[n] : f[n][i][2] <= v[n][2] /\ f[n][i][2] \in Nat
        BY <2>5, <2>10 DEF Good, Within, Interval
      <3>2. v[n][2] <= z /\ v[n][2] \in Nat
        BY <1>1, <2>10
      <3>3. QED
        BY <3>1, <3>2 DEF Within
    <2>13. QED
      BY <1>2, <2>4, <2>5, <2>10, <2>11, <2>12 DEF Good, Normal
  <1>5. QED
    BY <1>3, <1>4

(* "received": each number is counted once.                                *)
Adds(n, r) == n + (r[2] - r[1])

LEMMA AddSteps ==
  ASSUME NEW t \in Seq(Interval)
  PROVE  \E m : /\ m \in [0 .. Len(t) -> Int]
                /\ m[0] = 0
                /\ \A k \in 1 .. Len(t) : m[k] = Adds(m[k - 1], t[k])
                /\ FoldLeft(LAMBDA n, r : n + (r[2] - r[1]), 0, t) = m[Len(t)]
  <1> DEFINE n == Len(t)
             V == Int
             G == [k \in 1 .. n |-> [v \in V |-> Adds(v, t[k])]]
             Eqn(it) == it = [s \in SUBSET (DOMAIN t) |->
                               IF s = {} THEN 0
                               ELSE it[s \ {Max(s)}] + (t[Max(s)][2] - t[Max(s)][1])]
             it == CHOOSE it : Eqn(it)
  <1>1. \A k \in 1 .. n : t[k][1] \in Nat /\ t[k][2] \in Nat
    BY DEF Interval
  <1>2. Maps(G, n, Int) /\ \A k \in 1 .. n, v \in Int : G[k][v] = Adds(v, t[k])
    BY <1>1 DEF Maps, Adds
  <1>3. 0 \in Int /\ n \in Nat /\ DOMAIN t = 1 .. n
    OBVIOUS
  <1>4. FoldLeft(LAMBDA j, r : j + (r[2] - r[1]), 0, t) = it[1 .. n]
    BY <1>3 DEF FoldLeft, MapThenFoldSet
  <1> HIDE DEF n, G, it
  <1>5. \A s \in SUBSET (1 .. n) : s # {} => Max(s) \in 1 .. n
    BY <1>3, MaxIn
  <1>6. PICK h \in [SUBSET (1 .. n) -> Int] : Folds(h, n, 0, G)
    BY <1>2, <1>3, FoldExists
  <1>7. \A s \in SUBSET (1 .. n) :
          h[s] = IF s = {} THEN 0 ELSE h[s \ {Max(s)}] + (t[Max(s)][2] - t[Max(s)][1])
    <2>1. \A s \in SUBSET (1 .. n) : s \ {Max(s)} \in SUBSET (1 .. n)
      OBVIOUS
    <2>2. \A s \in SUBSET (1 .. n) : s # {} => h[s] = Adds(h[s \ {Max(s)}], t[Max(s)])
      BY <1>2, <1>5, <1>6, <2>1 DEF Folds
    <2>3. h[{}] = 0
      BY <1>6 DEF Folds
    <2>4. QED
      BY <2>2, <2>3 DEF Adds
  <1>8. Eqn(it)
    BY <1>3, <1>7 DEF it
  <1>9. Iterates(it, Int, n, 0, G)
    <2>1. it[{}] = 0
      BY <1>3, <1>8
    <2>2. \A s \in SUBSET (1 .. n) :
            s # {} /\ it[s \ {Max(s)}] \in Int => it[s] = G[Max(s)][it[s \ {Max(s)}]]
      BY <1>2, <1>3, <1>5, <1>8 DEF Adds
    <2>3. QED
      BY <2>1, <2>2 DEF Iterates
  <1> HIDE DEF Eqn
  <1>10. 0 \in V /\ Maps(G, n, V) /\ Iterates(it, V, n, 0, G)
    BY <1>2, <1>9
  <1> HIDE DEF V
  <1>11. PICK m : Table(m, V, n, 0, G) /\ it[1 .. n] = m[n]
    BY <1>3, <1>10, FoldTable
  <1> USE DEF V
  <1>12. \A k \in 1 .. n : k - 1 \in 0 .. n
    BY <1>3
  <1>13. /\ m \in [0 .. n -> Int] /\ m[0] = 0
         /\ \A k \in 1 .. n : m[k] = Adds(m[k - 1], t[k])
    BY <1>2, <1>11, <1>12 DEF Table
  <1>14. QED
    BY <1>4, <1>11, <1>13 DEF n

LEMMA IntervalSize ==
  ASSUME NEW a \in Nat, NEW b \in Nat, a < b
  PROVE  IsFiniteSet(a .. b - 1) /\ Cardinality(a .. b - 1) = b - a
  <1>1. PICK c \in Int : c = b - 1
    OBVIOUS
  <1>2. IsFiniteSet(a .. c) /\ Cardinality(a .. c) = IF a > c THEN 0 ELSE c - a + 1
    BY FS_Interval
  <1>3. QED
    BY <1>1, <1>2

LEMMA TotalIs ==
  ASSUME NEW z \in Nat, NEW v, Normal(v, z)
  PROVE  /\ IsFiniteSet(In(v))
         /\ FoldLeft(LAMBDA n, r : n + (r[2] - r[1]), 0, v) = Cardinality(In(v))
  <1> DEFINE n == Len(v)
  <1>1. /\ v \in Seq(Interval) /\ n \in Nat /\ DOMAIN v = 1 .. n
        /\ \A k \in 1 .. n : v[k][1] \in Nat /\ v[k][2] \in Nat /\ v[k][1] < v[k][2]
        /\ \A j, k \in 1 .. n : j < k => v[j][2] < v[k][1]
    BY NormalIs
  <1>2. PICK m : /\ m \in [0 .. n -> Int]
                 /\ m[0] = 0
                 /\ \A k \in 1 .. n : m[k] = Adds(m[k - 1], v[k])
                 /\ FoldLeft(LAMBDA i, r : i + (r[2] - r[1]), 0, v) = m[n]
    BY <1>1, AddSteps
  <1> HIDE DEF n
  <1> DEFINE Good(k) == IsFiniteSet(InFirst(v, k)) /\ Cardinality(InFirst(v, k)) = m[k]
             B == {k \in 0 .. n : Good(k)}
  <1>3. Good(0)
    <2>1. InFirst(v, 0) = {}
      BY DEF InFirst
    <2>2. QED
      BY <1>2, <2>1, FS_EmptySet
  <1>4. ASSUME NEW k \in 1 .. n, Good(k - 1) PROVE Good(k)
    <2> DEFINE I == v[k][1] .. v[k][2] - 1
               F == InFirst(v, k - 1)
    <2>1. k \in Nat \ {0} /\ k - 1 \in 0 .. n /\ v[k][1] \in Nat /\ v[k][2] \in Nat /\ v[k][1] < v[k][2]
      BY <1>1
    <2>2. IsFiniteSet(I) /\ Cardinality(I) = v[k][2] - v[k][1]
      BY <2>1, IntervalSize
    <2>3. InFirst(v, k) = F \cup I
      <3>1. \A j : j \in 1 .. k <=> j \in 1 .. k - 1 \/ j = k
        BY <2>1
      <3>2. \A b : b \in I <=> b \in Nat /\ v[k][1] <= b /\ b < v[k][2]
        BY <2>1
      <3>3. QED
        BY <3>1, <3>2 DEF InFirst
    <2>4. F \cap I = {}
      <3>1. ASSUME NEW b \in F, b \in I PROVE FALSE
        <4>1. PICK j \in 1 .. k - 1 : v[j][1] <= b /\ b < v[j][2]
          BY <3>1 DEF InFirst
        <4>2. j \in 1 .. n /\ j < k
          BY <1>1, <2>1
        <4>3. v[j][2] < v[k][1] /\ v[j][2] \in Nat
          BY <1>1, <4>2
        <4>4. QED
          BY <2>1, <3>1, <4>1, <4>3
      <3>2. QED
        BY <3>1
    <2>5. IsFiniteSet(F) /\ Cardinality(F) = m[k - 1] /\ m[k - 1] \in Int
      BY <1>2, <1>4, <2>1
    <2> HIDE DEF I, F
    <2>6. IsFiniteSet(F \cup I) /\ Cardinality(F \cup I) = Cardinality(F) + Cardinality(I) - 0
      BY <2>2, <2>4, <2>5, FS_Union, FS_EmptySet
    <2>7. m[k] = m[k - 1] + (v[k][2] - v[k][1])
      BY <1>2 DEF Adds
    <2>8. QED
      BY <2>1, <2>2, <2>3, <2>5, <2>6, <2>7
  <1> HIDE DEF Good
  <1>5. 0 \in B
    BY <1>1, <1>3
  <1>6. \A k \in 1 .. n : k - 1 \in B => k \in B
    BY <1>1, <1>4
  <1> HIDE DEF B
  <1>7. 0 .. n \subseteq B
    BY <1>1, <1>5, <1>6, Upward
  <1>8. Good(n)
    BY <1>1, <1>7 DEF B
  <1>9. In(v) = InFirst(v, n)
    BY <1>1 DEF In, InFirst
  <1>10. QED
    BY <1>2, <1>8, <1>9 DEF Good

-----------------------------------------------------------------------------
(* The piece of a byte.                                                    *)
LEMMA PieceOf ==
  ASSUME NEW p \in Nat \ {0}, NEW b \in Nat
  PROVE  /\ b \div p \in Nat
         /\ p * (b \div p) <= b /\ b < p * (b \div p) + p
  OBVIOUS

LEMMA Times ==
  ASSUME NEW p \in Nat \ {0}, NEW i \in Nat, NEW j \in Nat
  PROVE  /\ i * p \in Nat /\ p * i = i * p
         /\ (i + 1) * p = i * p + p
         /\ i < j => i * p + p <= j * p
  <1>1. i * p \in Nat /\ p * i = i * p /\ (i + 1) * p = i * p + p
    OBVIOUS
  <1>2. ASSUME i < j PROVE i * p + p <= j * p
    <2>1. PICK d \in Nat : j = i + 1 + d
      <3>1. j - (i + 1) \in Nat /\ j = i + 1 + (j - (i + 1))
        BY <1>2
      <3>2. QED
        BY <3>1
    <2>2. j * p = i * p + p + d * p /\ d * p >= 0 /\ d * p \in Nat /\ i * p \in Nat
      BY <2>1
    <2>3. QED
      BY <2>2
  <1>3. QED
    BY <1>1, <1>2

(* What every session keeps: the list is in order, and each piece that is  *)
(* marked is there.                                                        *)
Kept(m) ==
  /\ m = [nov |-> m.nov, size |-> Size, ranges |-> m.ranges, bits |-> m.bits]
  /\ Normal(m.ranges, Size)
  /\ m.bits \subseteq Indexes(m)
  /\ \A i \in m.bits : PieceBytes(m, i) \subseteq Covered(m)

LEMMA PieceFacts ==
  ASSUME NEW m, m.size = Size
  PROVE  /\ pieceCount(m) \in Nat
         /\ \A b \in Bytes(m) : b \div PieceLen \in Indexes(m) /\ b \in Nat
         /\ \A i \in Indexes(m) :
              LET r == pieceRange(m, i)
              IN /\ i \in Nat /\ r[1] = i * PieceLen /\ r[1] \in Nat /\ r[2] \in Nat
                 /\ r[1] < r[2] /\ r[2] <= Size /\ r[2] <= i * PieceLen + PieceLen
                 /\ PieceBytes(m, i) = r[1] .. r[2] - 1
  <1> DEFINE p == PieceLen
             n == pieceCount(m)
  <1>1. p \in Nat \ {0} /\ Size \in Nat \ {0}
    BY RangesAssumption
  <1>2. n \in Nat /\ n * p <= Size + p - 1 /\ Size - 1 < n * p /\ n * p \in Nat
    <2>1. PICK b \in Nat : b = Size + p - 1
      BY <1>1
    <2>2. n = b \div p
      BY <2>1 DEF pieceCount
    <2> HIDE DEF n, p
    <2>3. n \in Nat /\ p * n <= b /\ b < p * n + p
      BY <1>1, <2>2, PieceOf
    <2>4. p * n = n * p /\ n * p \in Nat
      BY <1>1, <2>3, Times
    <2>5. QED
      BY <1>1, <2>1, <2>3, <2>4
  <1>3. Indexes(m) = 0 .. n - 1 /\ Bytes(m) = 0 .. Size - 1
    BY DEF Indexes, Bytes
  <1> HIDE DEF n
  <1>4. ASSUME NEW b \in Bytes(m)
        PROVE  /\ b \in Nat /\ b \div p \in Nat /\ (b \div p) * p <= b
               /\ b < (b \div p) * p + p /\ (b \div p) * p \in Nat
    <2>1. b \in Nat
      BY <1>1, <1>3
    <2> HIDE DEF p
    <2>2. b \div p \in Nat /\ p * (b \div p) <= b /\ b < p * (b \div p) + p
      BY <1>1, <2>1, PieceOf
    <2>3. p * (b \div p) = (b \div p) * p /\ (b \div p) * p \in Nat
      BY <1>1, <2>2, Times
    <2>4. QED
      BY <2>1, <2>2, <2>3
  <1>5. \A b \in Bytes(m) : b \div p \in Indexes(m) /\ b \in Nat
    <2> TAKE b \in Bytes(m)
    <2> DEFINE q == b \div p
    <2>1. b \in Nat /\ q \in Nat /\ q * p <= b /\ b <= Size - 1 /\ q * p \in Nat
      BY <1>1, <1>3, <1>4
    <2> HIDE DEF p, q
    <2>2. n < q => n * p + p <= q * p
      BY <1>1, <1>2, <2>1, Times
    <2>3. q < n
      BY <1>1, <1>2, <2>1, <2>2
    <2>4. QED
      BY <1>2, <1>3, <2>1, <2>3 DEF p, q
  <1>6. ASSUME NEW i \in Indexes(m)
        PROVE  LET r == pieceRange(m, i)
               IN /\ i \in Nat /\ r[1] = i * p /\ r[1] \in Nat /\ r[2] \in Nat
                  /\ r[1] < r[2] /\ r[2] <= Size /\ r[2] <= i * p + p
                  /\ PieceBytes(m, i) = r[1] .. r[2] - 1
    <2> DEFINE r == pieceRange(m, i)
    <2>1. i \in Nat /\ i < n
      BY <1>2, <1>3
    <2>2. r[1] = i * p /\ r[2] = IF i * p + p > Size THEN Size ELSE i * p + p
      BY DEF pieceRange
    <2> HIDE DEF p, r
    <2>3. i * p \in Nat /\ i * p + p <= n * p
      BY <1>1, <1>2, <2>1, Times
    <2>4. r[1] \in Nat /\ r[2] \in Nat /\ r[1] < r[2] /\ r[2] <= Size /\ r[2] <= i * p + p
      BY <1>1, <1>2, <2>2, <2>3
    <2>5. ASSUME NEW b \in Bytes(m) PROVE b \div p = i <=> r[1] <= b /\ b < r[2]
      <3> DEFINE q == b \div p
      <3>1. b \in Nat /\ q \in Nat /\ q * p <= b /\ b < q * p + p /\ q * p \in Nat /\ b < Size
        BY <1>1, <1>3, <1>4
      <3> HIDE DEF q
      <3>2. (q < i => q * p + p <= i * p) /\ (i < q => i * p + p <= q * p)
        BY <1>1, <2>1, <3>1, Times
      <3>3. q = i => i * p <= b /\ b < i * p + p
        BY <3>1
      <3>4. i * p <= b /\ b < i * p + p => q = i
        BY <1>1, <2>1, <2>3, <3>1, <3>2
      <3>5. r[1] <= b /\ b < r[2] <=> i * p <= b /\ b < i * p + p
        BY <1>1, <2>2, <2>3, <3>1
      <3>6. QED
        BY <3>3, <3>4, <3>5 DEF q
    <2>6. \A b : b \in r[1] .. r[2] - 1 <=> b \in Bytes(m) /\ r[1] <= b /\ b < r[2]
      BY <1>1, <1>3, <2>4
    <2>7. PieceBytes(m, i) = r[1] .. r[2] - 1
      BY <2>5, <2>6 DEF PieceBytes, p
    <2>8. QED
      BY <2>1, <2>2, <2>4, <2>7 DEF r
  <1>7. QED
    BY <1>2, <1>5, <1>6 DEF n

LEMMA SameSize ==
  ASSUME NEW m, NEW w, w.size = m.size
  PROVE  /\ Indexes(w) = Indexes(m) /\ Bytes(w) = Bytes(m)
         /\ \A i : PieceBytes(w, i) = PieceBytes(m, i) /\ pieceRange(w, i) = pieceRange(m, i)
  BY DEF Indexes, pieceCount, Bytes, PieceBytes, pieceRange

LEMMA CoveredIs ==
  ASSUME NEW m, m.size = Size, Normal(m.ranges, Size)
  PROVE  Covered(m) = In(m.ranges) /\ Covered(m) \subseteq Bytes(m)
  <1>1. Size \in Nat
    BY RangesAssumption
  <1>2. \A k \in DOMAIN m.ranges : m.ranges[k][1] \in Nat /\ m.ranges[k][2] \in Nat
                                   /\ m.ranges[k][2] <= Size
    BY DEF Normal, Within, Interval
  <1>3. \A b \in In(m.ranges) : b \in 0 .. Size - 1
    BY <1>1, <1>2 DEF In
  <1>4. \A b \in 0 .. Size - 1 : b \in Nat
    BY <1>1
  <1>5. QED
    BY <1>3, <1>4 DEF Covered, Bytes, In

(* One piece of verifySpan.                                                *)
Due(m, i) == i \in Indexes(m) /\ i \notin m.bits /\ PieceBytes(m, i) \subseteq Covered(m)

Settled(m, i, good, w) ==
  /\ Kept(w) /\ w.nov = m.nov
  /\ w.bits = IF Due(m, i) /\ i \in good THEN m.bits \cup {i} ELSE m.bits
  /\ Covered(w) = IF Due(m, i) /\ i \notin good
                  THEN Covered(m) \ PieceBytes(m, i)
                  ELSE Covered(m)

LEMMA PieceIs ==
  ASSUME NEW m, Kept(m), NEW i, NEW good
  PROVE  Settled(m, i, good, SettlePiece(m, i, good))
  <1> DEFINE w == SettlePiece(m, i, good)
             r == pieceRange(m, i)
  <1>1. m.size = Size /\ Normal(m.ranges, Size) /\ Size \in Nat
    BY RangesAssumption DEF Kept
  <1>2. Covered(m) = In(m.ranges)
    BY <1>1, CoveredIs
  <1>3. ASSUME i \in Indexes(m)
        PROVE  /\ r[1] \in Nat /\ r[2] \in Nat /\ r[1] < r[2]
               /\ PieceBytes(m, i) = r[1] .. r[2] - 1
               /\ rangeCover(m.ranges, r[1], r[2]) <=> PieceBytes(m, i) \subseteq Covered(m)
    <2>1. /\ r[1] \in Nat /\ r[2] \in Nat /\ r[1] < r[2]
          /\ PieceBytes(m, i) = r[1] .. r[2] - 1
      BY <1>1, <1>3, PieceFacts
    <2> HIDE DEF r
    <2>2. rangeCover(m.ranges, r[1], r[2]) <=> r[1] .. r[2] - 1 \subseteq In(m.ranges)
      BY <1>1, <2>1, CoverIs
    <2>3. QED
      BY <1>2, <2>1, <2>2
  <1>4. CASE ~Due(m, i)
    <2>1. w = m
      BY <1>3, <1>4 DEF Due, SettlePiece
    <2>2. QED
      BY <1>4, <2>1 DEF Settled
  <1>5. CASE Due(m, i) /\ i \in good
    <2>1. w = [m EXCEPT !.bits = m.bits \cup {i}]
      BY <1>3, <1>5 DEF Due, SettlePiece
    <2>2. w = [nov |-> m.nov, size |-> Size, ranges |-> m.ranges, bits |-> m.bits \cup {i}]
      BY <2>1 DEF Kept
    <2>3. /\ w.nov = m.nov /\ w.size = Size /\ w.ranges = m.ranges /\ w.bits = m.bits \cup {i}
      BY <2>2
    <2>4. w = [nov |-> w.nov, size |-> Size, ranges |-> w.ranges, bits |-> w.bits]
      BY <2>2, <2>3
    <2> HIDE DEF w
    <2>5. /\ Indexes(w) = Indexes(m) /\ Bytes(w) = Bytes(m)
          /\ \A j : PieceBytes(w, j) = PieceBytes(m, j)
      BY <1>1, <2>3, SameSize
    <2>6. Covered(w) = Covered(m)
      BY <2>3, <2>5 DEF Covered
    <2>7. \A j \in w.bits : j \in Indexes(w) /\ PieceBytes(w, j) \subseteq Covered(w)
      BY <1>5, <2>3, <2>5, <2>6 DEF Kept, Due
    <2>8. Kept(w)
      BY <1>1, <2>3, <2>4, <2>7 DEF Kept
    <2>9. QED
      BY <1>5, <2>3, <2>6, <2>8 DEF w, Settled
  <1>6. CASE Due(m, i) /\ i \notin good
    <2> DEFINE v == rangeRemove(m.ranges, r[1], r[2])
    <2>1. w = [m EXCEPT !.ranges = v]
      BY <1>3, <1>6 DEF Due, SettlePiece
    <2>2. w = [nov |-> m.nov, size |-> Size, ranges |-> v, bits |-> m.bits]
      BY <2>1 DEF Kept
    <2>3. i \in Indexes(m) /\ i \notin m.bits
      BY <1>6 DEF Due
    <2>4. Normal(v, Size) /\ In(v) = In(m.ranges) \ (r[1] .. r[2] - 1)
      <3>1. r[1] \in Nat /\ r[2] \in Nat /\ r[1] < r[2]
        BY <1>3, <2>3
      <3> HIDE DEF r
      <3>2. QED
        BY <1>1, <3>1, RemoveIs
    <2> HIDE DEF v, r
    <2>5. /\ w.nov = m.nov /\ w.size = Size /\ w.ranges = v /\ w.bits = m.bits
      BY <2>2
    <2>6. w = [nov |-> w.nov, size |-> Size, ranges |-> w.ranges, bits |-> w.bits]
      BY <2>2, <2>5
    <2> HIDE DEF w
    <2>7. /\ Indexes(w) = Indexes(m) /\ Bytes(w) = Bytes(m)
          /\ \A j : PieceBytes(w, j) = PieceBytes(m, j)
      BY <1>1, <2>5, SameSize
    <2>8. Covered(w) = Covered(m) \ PieceBytes(m, i)
      <3>1. Covered(w) = In(v)
        BY <2>4, <2>5, CoveredIs
      <3>2. QED
        BY <1>2, <1>3, <2>3, <2>4, <3>1
    <2>9. \A j \in w.bits : j \in Indexes(w) /\ PieceBytes(w, j) \subseteq Covered(w)
      <3>1. \A j \in m.bits : PieceBytes(m, j) \cap PieceBytes(m, i) = {}
        BY <2>3 DEF PieceBytes
      <3>2. QED
        BY <2>5, <2>7, <2>8, <3>1 DEF Kept
    <2>10. Kept(w)
      BY <2>4, <2>5, <2>6, <2>9 DEF Kept
    <2>11. QED
      BY <1>6, <2>5, <2>8, <2>10 DEF w, Settled
  <1>7. QED
    BY <1>4, <1>5, <1>6

(* verifySpan by its steps.                                                *)
Metas(nov) ==
  {x \in [nov : {nov}, size : {Size}, ranges : Seq(Interval), bits : SUBSET Nat] : Kept(x)}

LEMMA MetasAre ==
  ASSUME NEW x, NEW nov
  PROVE  x \in Metas(nov) <=> Kept(x) /\ x.nov = nov
  <1>1. ASSUME Kept(x), x.nov = nov PROVE x \in Metas(nov)
    <2>1. x = [nov |-> nov, size |-> Size, ranges |-> x.ranges, bits |-> x.bits]
      BY <1>1 DEF Kept
    <2>2. x.size = Size /\ x.ranges \in Seq(Interval)
      BY <1>1 DEF Kept, Normal
    <2>3. x.bits \subseteq Nat
      BY <1>1, <2>2, PieceFacts DEF Kept
    <2>4. QED
      BY <1>1, <2>1, <2>2, <2>3 DEF Metas
  <1>2. x \in Metas(nov) => Kept(x) /\ x.nov = nov
    BY DEF Metas
  <1>3. QED
    BY <1>1, <1>2

SpanWalk(s, e, f, n) ==
  f = s \div PieceLen /\ n = (e - 1) \div PieceLen - f + 1

Verified(t, m, f, n, good) ==
  /\ \A k \in 0 .. n : Kept(t[k]) /\ t[k].nov = m.nov
  /\ t[0] = m
  /\ \A k \in 1 .. n : t[k] = SettlePiece(t[k - 1], f + k - 1, good)

LEMMA VerifySteps ==
  ASSUME NEW m, Kept(m), NEW s, NEW e, NEW f \in Nat, NEW n \in Nat, SpanWalk(s, e, f, n),
         NEW good
  PROVE  \E t : Verified(t, m, f, n, good) /\ verifySpan(m, s, e, good) = t[n]
  <1> DEFINE V == Metas(m.nov)
             q == [k \in 1 .. n |-> f + k - 1]
             G == [k \in 1 .. n |-> [v \in V |-> SettlePiece(v, q[k], good)]]
             Eqn(it) == it = [x \in SUBSET (DOMAIN q) |->
                               IF x = {} THEN m
                               ELSE SettlePiece(it[x \ {Max(x)}], q[Max(x)], good)]
             it == CHOOSE it : Eqn(it)
  <1>1. m \in V
    BY MetasAre
  <1>2. \A v \in V, k \in 1 .. n : SettlePiece(v, q[k], good) \in V
    <2> TAKE v \in V, k \in 1 .. n
    <2>1. Kept(v) /\ v.nov = m.nov
      BY MetasAre
    <2> DEFINE w == SettlePiece(v, q[k], good)
    <2> HIDE DEF q
    <2>2. Kept(w) /\ w.nov = v.nov
      BY <2>1, PieceIs DEF Settled
    <2> HIDE DEF w
    <2>3. w \in V
      BY <2>1, <2>2, MetasAre
    <2>4. QED
      BY <2>3 DEF w
  <1> HIDE DEF V
  <1>3. Maps(G, n, V) /\ \A k \in 1 .. n, v \in V : G[k][v] = SettlePiece(v, q[k], good)
    BY <1>2 DEF Maps
  <1>4. verifySpan(m, s, e, good) = it[1 .. n]
    <2>1. verifySpan(m, s, e, good) = FoldLeft(LAMBDA x, i : SettlePiece(x, i, good), m, q)
      BY DEF verifySpan, SpanWalk
    <2>2. QED
      BY <2>1 DEF FoldLeft, MapThenFoldSet
  <1>5. DOMAIN q = 1 .. n /\ \A k \in 1 .. n : q[k] = f + k - 1
    OBVIOUS
  <1> HIDE DEF G, it, q
  <1>6. \A x \in SUBSET (1 .. n) : x # {} => Max(x) \in 1 .. n
    BY MaxIn
  <1>7. PICK h \in [SUBSET (1 .. n) -> V] : Folds(h, n, m, G)
    BY <1>1, <1>3, FoldExists
  <1>8. \A x \in SUBSET (1 .. n) :
          h[x] = IF x = {} THEN m ELSE SettlePiece(h[x \ {Max(x)}], q[Max(x)], good)
    <2>1. \A x \in SUBSET (1 .. n) : h[x \ {Max(x)}] \in V
      OBVIOUS
    <2>2. \A x \in SUBSET (1 .. n) :
            h[x] = IF x = {} THEN m ELSE G[Max(x)][h[x \ {Max(x)}]]
      BY <1>7 DEF Folds
    <2>3. QED
      BY <1>3, <1>6, <2>1, <2>2
  <1>9. Eqn(it)
    BY <1>5, <1>8 DEF it
  <1>10. Iterates(it, V, n, m, G)
    <2>1. \A x \in SUBSET (1 .. n) :
            it[x] = IF x = {} THEN m ELSE SettlePiece(it[x \ {Max(x)}], q[Max(x)], good)
      BY <1>5, <1>9
    <2> HIDE DEF Eqn
    <2>2. it[{}] = m
      BY <2>1
    <2>3. \A x \in SUBSET (1 .. n) :
            x # {} /\ it[x \ {Max(x)}] \in V => it[x] = G[Max(x)][it[x \ {Max(x)}]]
      BY <1>3, <1>6, <2>1
    <2>4. QED
      BY <2>2, <2>3 DEF Iterates
  <1> HIDE DEF Eqn
  <1>11. PICK t : Table(t, V, n, m, G) /\ it[1 .. n] = t[n]
    BY <1>1, <1>3, <1>10, FoldTable
  <1>12. \A k \in 1 .. n : k - 1 \in 0 .. n
    OBVIOUS
  <1>13. /\ \A k \in 0 .. n : t[k] \in V
         /\ t[0] = m
         /\ \A k \in 1 .. n : t[k] = SettlePiece(t[k - 1], f + k - 1, good)
    <2>1. /\ \A k \in 0 .. n : t[k] \in V
          /\ t[0] = m
          /\ \A k \in 1 .. n : t[k] = G[k][t[k - 1]]
      BY <1>11 DEF Table
    <2>2. \A k \in 1 .. n : t[k] = SettlePiece(t[k - 1], q[k], good)
      BY <1>3, <1>12, <2>1
    <2>3. QED
      BY <1>5, <2>1, <2>2
  <1>14. \A k \in 0 .. n : Kept(t[k]) /\ t[k].nov = m.nov
    BY <1>13, MetasAre DEF V
  <1>15. QED
    BY <1>4, <1>11, <1>13, <1>14 DEF Verified

(* The pieces that a body touches are those between its ends.              *)
LEMMA TouchedAre ==
  ASSUME NEW m, m.size = Size, NEW s \in Nat, NEW e \in Nat, s < e, e <= Size
  PROVE  /\ s \div PieceLen \in Nat /\ (e - 1) \div PieceLen \in Nat
         /\ s \div PieceLen <= (e - 1) \div PieceLen
         /\ \A i \in Indexes(m) :
              PieceBytes(m, i) \cap (s .. e - 1) # {}
                <=> s \div PieceLen <= i /\ i <= (e - 1) \div PieceLen
  <1> DEFINE p == PieceLen
             f == s \div p
             l == (e - 1) \div p
  <1>1. p \in Nat \ {0} /\ Size \in Nat \ {0}
    BY RangesAssumption
  <1>2. f \in Nat /\ p * f <= s /\ s < p * f + p
    <2> HIDE DEF p
    <2>1. QED
      BY <1>1, PieceOf
  <1>3. l \in Nat /\ p * l <= e - 1 /\ e - 1 < p * l + p
    <2>1. PICK b \in Nat : b = e - 1
      OBVIOUS
    <2> HIDE DEF p
    <2>2. b \div p \in Nat /\ p * (b \div p) <= b /\ b < p * (b \div p) + p
      BY <1>1, PieceOf
    <2>3. QED
      BY <2>1, <2>2
  <1> HIDE DEF p, f, l
  <1>4. p * f = f * p /\ p * l = l * p /\ f * p \in Nat /\ l * p \in Nat
    BY <1>1, <1>2, <1>3, Times
  <1>5. f <= l
    <2>1. l < f => l * p + p <= f * p
      BY <1>1, <1>2, <1>3, Times
    <2>2. QED
      BY <1>1, <1>2, <1>3, <1>4, <2>1
  <1>6. ASSUME NEW i \in Indexes(m)
        PROVE  PieceBytes(m, i) \cap (s .. e - 1) # {} <=> f <= i /\ i <= l
    <2> DEFINE r == pieceRange(m, i)
    <2>1. /\ i \in Nat /\ r[1] = i * p /\ r[1] \in Nat /\ r[2] \in Nat
          /\ r[1] < r[2] /\ r[2] <= Size /\ r[2] <= i * p + p
          /\ PieceBytes(m, i) = r[1] .. r[2] - 1
      BY PieceFacts DEF p
    <2>2. r[2] = IF i * p + p > Size THEN Size ELSE i * p + p
      BY DEF pieceRange, p
    <2> HIDE DEF r
    <2>3. /\ i < f => i * p + p <= f * p
          /\ f < i => f * p + p <= i * p
          /\ i < l => i * p + p <= l * p
          /\ l < i => l * p + p <= i * p
      BY <1>1, <1>2, <1>3, <2>1, Times
    <2>4. ASSUME NEW b \in r[1] .. r[2] - 1, b \in s .. e - 1 PROVE f <= i /\ i <= l
      <3>1. /\ b \in Nat /\ r[1] <= b /\ b < r[2] /\ s <= b /\ b <= e - 1
        BY <2>1, <2>4
      <3>2. i * p <= b /\ b < i * p + p
        BY <1>1, <2>1, <3>1
      <3>3. QED
        BY <1>1, <1>2, <1>3, <1>4, <2>1, <2>3, <3>1, <3>2
    <2>5. ASSUME f <= i, i <= l PROVE \E b \in r[1] .. r[2] - 1 : b \in s .. e - 1
      <3>1. CASE s <= r[1]
        <4>1. r[1] <= e - 1
          BY <1>1, <1>3, <1>4, <2>1, <2>3, <2>5
        <4>2. r[1] \in r[1] .. r[2] - 1 /\ r[1] \in s .. e - 1
          BY <2>1, <3>1, <4>1
        <4>3. QED
          BY <4>2
      <3>2. CASE r[1] < s
        <4>1. i = f
          BY <1>1, <1>2, <1>4, <2>1, <2>3, <2>5, <3>2
        <4>2. s < i * p + p
          BY <1>2, <1>4, <4>1
        <4>3. s < r[2]
          BY <1>1, <2>1, <2>2, <4>2
        <4>4. s \in r[1] .. r[2] - 1 /\ s \in s .. e - 1
          BY <2>1, <3>2, <4>3
        <4>5. QED
          BY <4>4
      <3>3. QED
        BY <2>1, <3>1, <3>2
    <2>6. QED
      BY <2>1, <2>4, <2>5
  <1>7. QED
    BY <1>2, <1>3, <1>5, <1>6 DEF f, l, p

LEMMA VerifyIs ==
  ASSUME NEW m, Kept(m), NEW s \in Nat, NEW e \in Nat, s < e, e <= Size, NEW good
  PROVE  LET w == verifySpan(m, s, e, good)
             due == {i \in missingPieces(m) : /\ PieceBytes(m, i) \cap (s .. e - 1) # {}
                                              /\ PieceBytes(m, i) \subseteq Covered(m)}
         IN /\ Kept(w) /\ w.nov = m.nov
            /\ w.bits = m.bits \cup (due \cap good)
            /\ Covered(w) = Covered(m) \ UNION {PieceBytes(m, i) : i \in due \ good}
  <1> DEFINE w == verifySpan(m, s, e, good)
             body == s .. e - 1
             due == {i \in missingPieces(m) : /\ PieceBytes(m, i) \cap body # {}
                                              /\ PieceBytes(m, i) \subseteq Covered(m)}
             f == s \div PieceLen
             l == (e - 1) \div PieceLen
             n == l - f + 1
             DueTo(k) == {i \in due : i < f + k}
             Gone(k) == {b \in Bytes(m) : \E i \in DueTo(k) : i \notin good /\ b \in PieceBytes(m, i)}
  <1>1. m.size = Size /\ Normal(m.ranges, Size) /\ Size \in Nat
    BY RangesAssumption DEF Kept
  <1>2. Covered(m) \subseteq Bytes(m)
    BY <1>1, CoveredIs
  <1>3. /\ f \in Nat /\ l \in Nat /\ f <= l
        /\ \A i \in Indexes(m) : PieceBytes(m, i) \cap body # {} <=> f <= i /\ i <= l
    BY <1>1, TouchedAre
  <1>4. Indexes(m) \subseteq Nat
    BY <1>1, PieceFacts
  <1>5. \A i : i \in due <=> Due(m, i) /\ f <= i /\ i <= l
    <2> HIDE DEF f, l, body
    <2>1. QED
      BY <1>3 DEF Due, missingPieces
  <1>6. due \subseteq Nat
    BY <1>4, <1>5 DEF Due
  <1>7. \A i \in due : i \in Nat /\ f <= i /\ i <= l
    BY <1>5, <1>6
  <1>8. n \in Nat
    <2> HIDE DEF f, l
    <2>1. QED
      BY <1>3
  <1>9. PICK t : Verified(t, m, f, n, good) /\ w = t[n]
    <2>1. f \in Nat /\ SpanWalk(s, e, f, n)
      BY <1>3 DEF SpanWalk
    <2> HIDE DEF f, n
    <2>2. QED
      BY <1>8, <2>1, VerifySteps
  <1> HIDE DEF w, due, f, l, body
  <1>10. /\ \A k \in 0 .. n : Kept(t[k]) /\ t[k].nov = m.nov
         /\ t[0] = m
         /\ \A k \in 1 .. n : t[k] = SettlePiece(t[k - 1], f + k - 1, good)
    BY <1>9 DEF Verified
  <1>11. n = l - f + 1
    OBVIOUS
  <1> HIDE DEF n
  <1> DEFINE Good(k) == /\ t[k].bits = m.bits \cup (DueTo(k) \cap good)
                        /\ Covered(t[k]) = Covered(m) \ Gone(k)
             B == {k \in 0 .. n : Good(k)}
  <1>12. Good(0)
    <2>1. DueTo(0) = {}
      BY <1>3, <1>7
    <2>2. Gone(0) = {}
      BY <2>1
    <2> HIDE DEF DueTo, Gone
    <2>3. QED
      BY <1>10, <2>1, <2>2
  <1>13. ASSUME NEW k \in 1 .. n, Good(k - 1) PROVE Good(k)
    <2> DEFINE x == t[k - 1]
               i == f + k - 1
    <2>1. k - 1 \in 0 .. n /\ k \in Nat /\ i \in Nat /\ f <= i /\ i <= l
      BY <1>3, <1>8, <1>11
    <2>2. Kept(x) /\ t[k] = SettlePiece(x, i, good)
      BY <1>8, <1>10, <2>1
    <2>3. /\ t[k].bits = IF Due(x, i) /\ i \in good THEN x.bits \cup {i} ELSE x.bits
          /\ Covered(t[k]) = IF Due(x, i) /\ i \notin good
                             THEN Covered(x) \ PieceBytes(x, i)
                             ELSE Covered(x)
      <3> DEFINE y == SettlePiece(x, i, good)
      <3> HIDE DEF x, i
      <3>1. Settled(x, i, good, y)
        BY <2>2, PieceIs
      <3>2. t[k] = y
        BY <2>2
      <3> HIDE DEF y
      <3>3. /\ y.bits = IF Due(x, i) /\ i \in good THEN x.bits \cup {i} ELSE x.bits
            /\ Covered(y) = IF Due(x, i) /\ i \notin good
                            THEN Covered(x) \ PieceBytes(x, i)
                            ELSE Covered(x)
        BY <3>1 DEF Settled
      <3>4. QED
        BY <3>3, <3>2
    <2>4. x.bits = m.bits \cup (DueTo(k - 1) \cap good) /\ Covered(x) = Covered(m) \ Gone(k - 1)
      BY <1>13
    <2>5. Indexes(x) = Indexes(m) /\ \A j : PieceBytes(x, j) = PieceBytes(m, j)
      <3>1. x.size = m.size
        BY <1>1, <2>2 DEF Kept
      <3> HIDE DEF x
      <3>2. QED
        BY <3>1, SameSize
    <2>6. \A j \in due : j < f + k <=> j < f + (k - 1) \/ j = i
      BY <1>3, <1>6, <2>1
    <2>7. i \notin DueTo(k - 1)
      BY <1>3, <2>1
    <2>8. DueTo(k) = DueTo(k - 1) \cup (due \cap {i})
      BY <1>3, <2>1, <2>6
    <2> HIDE DEF x, i
    <2>9. PieceBytes(m, i) \cap Gone(k - 1) = {}
      BY <2>7 DEF PieceBytes
    <2> HIDE DEF DueTo
    <2>10. Due(x, i) <=> i \in due
      <3>1. PieceBytes(x, i) \subseteq Covered(x) <=> PieceBytes(m, i) \subseteq Covered(m)
        BY <2>4, <2>5, <2>9
      <3>2. i \in x.bits <=> i \in m.bits
        BY <2>4, <2>7
      <3>3. QED
        BY <1>5, <2>1, <2>5, <3>1, <3>2 DEF Due
    <2>11. t[k].bits = m.bits \cup (DueTo(k) \cap good)
      BY <2>3, <2>4, <2>8, <2>10
    <2>12. Gone(k) = IF i \in due /\ i \notin good
                     THEN Gone(k - 1) \cup PieceBytes(m, i)
                     ELSE Gone(k - 1)
      BY <2>8 DEF PieceBytes
    <2>13. Covered(t[k]) = Covered(m) \ Gone(k)
      BY <2>3, <2>4, <2>5, <2>10, <2>12
    <2>14. QED
      BY <2>11, <2>13
  <1> HIDE DEF Good
  <1>14. 0 \in B
    BY <1>8, <1>12
  <1>15. \A k \in 1 .. n : k - 1 \in B => k \in B
    BY <1>13
  <1> HIDE DEF B
  <1>16. 0 .. n \subseteq B
    BY <1>8, <1>14, <1>15, Upward
  <1>17. Good(n)
    BY <1>8, <1>16 DEF B
  <1>18. DueTo(n) = due
    BY <1>3, <1>7, <1>11
  <1>19. Gone(n) = UNION {PieceBytes(m, i) : i \in due \ good}
    <2> HIDE DEF DueTo
    <2>1. QED
      BY <1>18 DEF PieceBytes
  <1>20. Kept(w) /\ w.nov = m.nov
    BY <1>8, <1>9, <1>10
  <1>21. /\ w.bits = m.bits \cup (due \cap good)
         /\ Covered(w) = Covered(m) \ UNION {PieceBytes(m, i) : i \in due \ good}
    <2> HIDE DEF DueTo, Gone
    <2>1. QED
      BY <1>9, <1>17, <1>18, <1>19 DEF Good
  <1>22. QED
    BY <1>20, <1>21 DEF w, due, body

(* A body, after which the session is as before but for what it brought.   *)
LEMMA AccountIs ==
  ASSUME NEW m, Kept(m), NEW s \in Nat, NEW e \in Nat, s < e, e <= Size, NEW good
  PROVE  LET w == Account(m, s, e, good)
             sum == Covered(m) \cup (s .. e - 1)
             due == {i \in missingPieces(m) : /\ PieceBytes(m, i) \cap (s .. e - 1) # {}
                                              /\ PieceBytes(m, i) \subseteq sum}
         IN /\ Kept(w)
            /\ w.bits = m.bits \cup (due \cap good)
            /\ Covered(w) = sum \ UNION {PieceBytes(m, i) : i \in due \ good}
  <1> DEFINE v == rangeAdd(m, s, e)
             x == [m EXCEPT !.ranges = v]
             w == verifySpan(x, s, e, good)
             body == s .. e - 1
             sum == Covered(m) \cup body
             dueOf(y, c) == {i \in missingPieces(y) : /\ PieceBytes(y, i) \cap body # {}
                                                      /\ PieceBytes(y, i) \subseteq c}
  <1>1. m.size = Size /\ Normal(m.ranges, Size) /\ Size \in Nat
    BY RangesAssumption DEF Kept
  <1>2. v = FoldLeft(Merge, <<>>, Sorted(Append(m.ranges, <<s, e>>)))
    <2>1. ~(e > Size) /\ ~(e <= s \/ s > Size)
      BY <1>1
    <2>2. QED
      BY <1>1, <2>1 DEF rangeAdd
  <1>3. Normal(v, Size) /\ In(v) = In(m.ranges) \cup body
    BY <1>1, <1>2, AddIs
  <1> HIDE DEF v
  <1>4. x = [nov |-> m.nov, size |-> Size, ranges |-> v, bits |-> m.bits]
    BY DEF Kept
  <1>5. x.nov = m.nov /\ x.size = Size /\ x.ranges = v /\ x.bits = m.bits
    BY <1>4
  <1>6. x = [nov |-> x.nov, size |-> Size, ranges |-> x.ranges, bits |-> x.bits]
    BY <1>4, <1>5
  <1> HIDE DEF x
  <1>7. /\ Indexes(x) = Indexes(m) /\ Bytes(x) = Bytes(m)
        /\ \A i : PieceBytes(x, i) = PieceBytes(m, i)
    BY <1>1, <1>5, SameSize
  <1>8. Covered(x) = sum
    BY <1>1, <1>3, <1>5, CoveredIs
  <1>9. Kept(x)
    <2>1. \A i \in x.bits : i \in Indexes(x) /\ PieceBytes(x, i) \subseteq Covered(x)
      BY <1>5, <1>7, <1>8 DEF Kept
    <2>2. QED
      BY <1>3, <1>5, <1>6, <2>1 DEF Kept
  <1> HIDE DEF sum
  <1>10. /\ Kept(w) /\ w.bits = x.bits \cup (dueOf(x, Covered(x)) \cap good)
         /\ Covered(w) = Covered(x) \ UNION {PieceBytes(x, i) : i \in dueOf(x, Covered(x)) \ good}
    BY <1>9, VerifyIs
  <1>11. dueOf(x, Covered(x)) = dueOf(m, sum)
    BY <1>5, <1>7, <1>8 DEF missingPieces
  <1> HIDE DEF dueOf
  <1>12. \A I : UNION {PieceBytes(x, i) : i \in I} = UNION {PieceBytes(m, i) : i \in I}
    BY <1>7
  <1>13. Account(m, s, e, good) = w
    BY DEF Account, x, v
  <1> HIDE DEF w
  <1>14. /\ Kept(w) /\ w.bits = m.bits \cup (dueOf(m, sum) \cap good)
         /\ Covered(w) = sum \ UNION {PieceBytes(m, i) : i \in dueOf(m, sum) \ good}
    BY <1>5, <1>8, <1>10, <1>11, <1>12
  <1>15. QED
    BY <1>13, <1>14 DEF dueOf, sum

(* What is true of a session until it is gone.                             *)
RangesIInv == meta # NoMeta => Kept(meta)

LEMMA BodiesAre ==
  ASSUME NEW m, m.size = Size, NEW b \in Bodies(m)
  PROVE  b[1] \in Nat /\ b[2] \in Nat /\ b[1] < b[2] /\ b[2] <= Size
  <1>1. Size \in Nat \ {0}
    BY RangesAssumption
  <1>2. ASSUME NEW i \in Indexes(m), NEW good, b = <<pieceRange(m, i)[1], pieceRange(m, i)[2], good>>
        PROVE  b[1] \in Nat /\ b[2] \in Nat /\ b[2] <= Size
    <2>1. /\ pieceRange(m, i)[1] \in Nat /\ pieceRange(m, i)[2] \in Nat
          /\ pieceRange(m, i)[2] <= Size
      BY PieceFacts
    <2>2. b[1] = pieceRange(m, i)[1] /\ b[2] = pieceRange(m, i)[2]
      BY <1>2
    <2>3. QED
      BY <2>1, <2>2
  <1>3. ASSUME NEW s \in 0 .. Size - 1, NEW e \in 1 .. Size, b = <<s, e, Indexes(m)>>
        PROVE  b[1] \in Nat /\ b[2] \in Nat /\ b[2] <= Size
    BY <1>1, <1>3
  <1>4. b[1] < b[2] /\ (b \in Pieces(m) \/ b \in Spans(m))
    BY DEF Bodies
  <1>5. b \in Pieces(m) => \E i \in Indexes(m) :
          \E good : b = <<pieceRange(m, i)[1], pieceRange(m, i)[2], good>>
    BY DEF Pieces
  <1>6. b \in Spans(m) => \E s \in 0 .. Size - 1, e \in 1 .. Size : b = <<s, e, Indexes(m)>>
    BY DEF Spans
  <1>7. QED
    BY <1>2, <1>3, <1>4, <1>5, <1>6

LEMMA RangesInit == Init => RangesIInv
  BY DEF Init, RangesIInv

LEMMA RangesNew == newSessionMeta => RangesIInv'
  <1> SUFFICES ASSUME newSessionMeta PROVE Kept(meta')
    BY DEF RangesIInv
  <1>1. PICK nov \in BOOLEAN : meta' = [nov |-> nov, size |-> Size, ranges |-> <<>>, bits |-> {}]
    BY DEF newSessionMeta
  <1> DEFINE m == meta'
  <1>2. m.nov = nov /\ m.size = Size /\ m.ranges = <<>> /\ m.bits = {}
    BY <1>1
  <1>3. m = [nov |-> m.nov, size |-> Size, ranges |-> m.ranges, bits |-> m.bits]
    BY <1>1, <1>2
  <1>4. Normal(<<>>, Size)
    <2>1. DOMAIN <<>> = {} /\ <<>> \in Seq(Interval)
      OBVIOUS
    <2>2. QED
      BY <2>1 DEF Normal, Apart, Within
  <1> HIDE DEF m
  <1>5. Kept(m)
    BY <1>2, <1>3, <1>4 DEF Kept
  <1>6. QED
    BY <1>5 DEF m

LEMMA RangesWrite ==
  ASSUME RangesIInv, writeV2
  PROVE  RangesIInv'
  <1>1. Kept(meta)
    BY DEF RangesIInv, writeV2
  <1>2. PICK b \in Bodies(meta) : meta' = Account(meta, b[1], b[2], b[3])
    BY DEF writeV2
  <1>3. b[1] \in Nat /\ b[2] \in Nat /\ b[1] < b[2] /\ b[2] <= Size
    BY <1>1, BodiesAre DEF Kept
  <1>4. Kept(Account(meta, b[1], b[2], b[3]))
    BY <1>1, <1>3, AccountIs
  <1>5. QED
    BY <1>2, <1>4 DEF RangesIInv

LEMMA RangesAlways == Spec => []RangesIInv
  <1>1. RangesIInv /\ [Next]_meta => RangesIInv'
    <2> SUFFICES ASSUME RangesIInv, [Next]_meta PROVE RangesIInv'
      OBVIOUS
    <2>1. CASE newSessionMeta
      BY <2>1, RangesNew
    <2>2. CASE writeV2
      BY <2>2, RangesWrite
    <2>3. CASE UNCHANGED meta
      BY <2>3 DEF RangesIInv
    <2>4. QED
      BY <2>1, <2>2, <2>3 DEF Next
  <1>2. QED
    BY RangesInit, <1>1, PTL DEF Spec

LEMMA AccountsKept == RangesIInv => AccountsAsSets
  <1> SUFFICES ASSUME Kept(meta) PROVE AccountsAsSets
    BY DEF RangesIInv, AccountsAsSets
  <1> SUFFICES ASSUME NEW b \in Bodies(meta)
      PROVE LET body == b[1] .. b[2] - 1
                sum  == Covered(meta) \cup body
                due  == {i \in missingPieces(meta) : /\ PieceBytes(meta, i) \cap body # {}
                                                    /\ PieceBytes(meta, i) \subseteq sum}
                m    == Account(meta, b[1], b[2], b[3])
            IN /\ m.bits = meta.bits \cup (due \cap b[3])
               /\ Covered(m) = sum \ UNION {PieceBytes(meta, i) : i \in due \ b[3]}
    BY DEF AccountsAsSets
  <1>1. b[1] \in Nat /\ b[2] \in Nat /\ b[1] < b[2] /\ b[2] <= Size
    BY BodiesAre DEF Kept
  <1>2. QED
    BY <1>1, AccountIs

LEMMA CoverKept == RangesIInv => CoverIsExact
  <1> SUFFICES ASSUME Kept(meta) PROVE CoverIsExact
    BY DEF RangesIInv, CoverIsExact
  <1>1. meta.size = Size /\ Normal(meta.ranges, Size) /\ Size \in Nat \ {0}
    BY RangesAssumption DEF Kept
  <1>2. Covered(meta) = In(meta.ranges)
    BY <1>1, CoveredIs
  <1>3. ASSUME NEW s \in Bytes(meta), NEW e \in 1 .. meta.size, s < e
        PROVE  rangeCover(meta.ranges, s, e) <=> s .. e - 1 \subseteq Covered(meta)
    <2>1. s \in Nat /\ e \in Nat
      BY <1>1 DEF Bytes
    <2>2. QED
      BY <1>1, <1>2, <1>3, <2>1, CoverIs
  <1>4. QED
    BY <1>3 DEF CoverIsExact

(* "offset": the pieces before the first missing one.                      *)
LEMMA OffsetIs ==
  ASSUME NEW m, Kept(m)
  PROVE  /\ 0 .. contiguousOffset(m) - 1 \subseteq Covered(m)
         /\ \A i \in missingPieces(m) : contiguousOffset(m) <= i * PieceLen
  <1> DEFINE p == PieceLen
             n == pieceCount(m)
             done == {i \in Indexes(m) : \A j \in 0 .. i : j \in m.bits}
             K == {k \in 1 .. n + 1 : \A j \in 0 .. k - 2 : j \in m.bits}
             off == contiguousOffset(m)
  <1>1. m.size = Size /\ Size \in Nat \ {0} /\ p \in Nat \ {0} /\ n \in Nat
    BY RangesAssumption, PieceFacts DEF Kept
  <1>2. Indexes(m) = 0 .. n - 1
    BY DEF Indexes
  <1>3. m.bits \subseteq Indexes(m) /\ \A i \in m.bits : PieceBytes(m, i) \subseteq Covered(m)
    BY DEF Kept
  <1> HIDE DEF n, p
  <1>4. PICK c \in 0 .. n : done = 0 .. c - 1
    <2>1. 1 \in K
      <3>1. 1 \in 1 .. n + 1
        BY <1>1
      <3>2. 0 .. 1 - 2 = {}
        OBVIOUS
      <3>3. QED
        BY <3>1, <3>2
    <2>2. n + 1 \in Nat /\ K \in SUBSET (1 .. n + 1) /\ K # {}
      <3>1. K \subseteq 1 .. n + 1
        OBVIOUS
      <3> HIDE DEF K
      <3>2. QED
        BY <1>1, <2>1, <3>1
    <2>3. PICK k \in K : \A j \in K : k >= j
      <3> HIDE DEF K
      <3>1. Max(K) \in K /\ \A y \in K : Max(K) >= y
        BY <2>2, MaxIn
      <3>2. QED
        BY <3>1
    <2>4. k \in 1 .. n + 1 /\ \A j \in 0 .. k - 2 : j \in m.bits
      OBVIOUS
    <2>5. k - 1 \in 0 .. n
      BY <1>1, <2>4
    <2>6. ASSUME NEW i \in done PROVE i \in 0 .. (k - 1) - 1
      <3>1. i \in 0 .. n - 1 /\ \A j \in 0 .. i : j \in m.bits
        BY <1>2
      <3>2. i + 2 \in 1 .. n + 1 /\ (i + 2) - 2 = i
        BY <1>1, <3>1
      <3>3. i + 2 \in K
        BY <3>1, <3>2
      <3>4. k >= i + 2
        BY <2>3, <3>3
      <3>5. QED
        BY <1>1, <2>4, <3>1, <3>4
    <2>7. ASSUME NEW i \in 0 .. (k - 1) - 1 PROVE i \in done
      <3>1. i \in 0 .. n - 1 /\ \A j \in 0 .. i : j \in 0 .. k - 2
        BY <1>1, <2>4
      <3>2. QED
        BY <1>2, <2>4, <3>1
    <2>8. QED
      BY <2>5, <2>6, <2>7
  <1>5. off = IF done = {} THEN 0 ELSE pieceRange(m, Cardinality(done) - 1)[2]
    BY DEF contiguousOffset
  <1>6. \A i \in missingPieces(m) : i \in Nat /\ i < n /\ c <= i
    <2> TAKE i \in missingPieces(m)
    <2>1. i \in 0 .. n - 1 /\ i \notin m.bits
      BY <1>2 DEF missingPieces
    <2>2. i \notin done
      BY <2>1
    <2>3. i \notin 0 .. c - 1
      BY <1>4, <2>2
    <2> HIDE DEF done
    <2>4. QED
      BY <1>1, <1>4, <2>1, <2>3
  <1>7. \A i \in 0 .. c - 1 : i \in Indexes(m) /\ i \in m.bits
    <2> TAKE i \in 0 .. c - 1
    <2>1. i \in done
      BY <1>4
    <2>2. i \in 0 .. i
      OBVIOUS
    <2>3. QED
      BY <2>1, <2>2
  <1> HIDE DEF done, off
  <1>8. CASE c = 0
    <2>1. done = {} /\ off = 0
      BY <1>4, <1>5, <1>8
    <2>2. \A i \in missingPieces(m) : i * p \in Nat
      BY <1>1, <1>6, Times
    <2>3. 0 .. off - 1 \subseteq Covered(m)
      BY <2>1
    <2>4. QED
      BY <2>1, <2>2, <2>3 DEF off, p
  <1>9. CASE c # 0
    <2>1. c \in Nat /\ 0 < c /\ c - 1 \in 0 .. c - 1 /\ c - 1 \in Nat
      BY <1>1, <1>4, <1>9
    <2>2. Cardinality(done) = c
      BY <1>4, <2>1, IntervalSize
    <2>3. done # {}
      BY <1>4, <2>1
    <2>4. off = pieceRange(m, c - 1)[2]
      BY <1>5, <2>2, <2>3
    <2>5. PICK x \in Nat : x = (c - 1) * p
      BY <1>1, <2>1, Times
    <2>6. off \in Nat /\ off <= Size /\ off <= x + p
      BY <1>1, <1>7, <2>1, <2>4, <2>5, PieceFacts DEF p
    <2>7. ASSUME NEW b \in 0 .. off - 1 PROVE b \in Covered(m)
      <3> DEFINE q == b \div p
      <3>1. b \in Bytes(m) /\ b \in Nat /\ b < x + p
        BY <1>1, <2>5, <2>6 DEF Bytes
      <3> HIDE DEF q
      <3>2. q \in Nat /\ p * q <= b /\ p * q = q * p
        BY <1>1, <3>1, PieceOf, Times DEF q
      <3>3. PICK y \in Nat : y = q * p /\ y <= b
        BY <1>1, <3>2, Times
      <3>4. c - 1 < q => x + p <= y
        BY <1>1, <2>1, <2>5, <3>2, <3>3, Times
      <3>5. q \in 0 .. c - 1
        BY <1>1, <2>1, <3>1, <3>2, <3>3, <3>4
      <3>6. b \in PieceBytes(m, q)
        BY <3>1 DEF PieceBytes, q, p
      <3>7. QED
        BY <1>3, <1>7, <3>5, <3>6
    <2>8. ASSUME NEW i \in missingPieces(m) PROVE off <= i * p
      <3>1. i \in Nat /\ c - 1 < i
        BY <1>6, <2>1
      <3>2. PICK y \in Nat : y = i * p
        BY <1>1, <3>1, Times
      <3>3. x + p <= y
        BY <1>1, <2>1, <2>5, <3>1, <3>2, Times
      <3>4. QED
        BY <1>1, <2>6, <3>2, <3>3
    <2>9. QED
      BY <2>7, <2>8 DEF off, p
  <1>10. QED
    BY <1>8, <1>9

LEMMA ProgressKept == RangesIInv => ProgressIsExact
  <1> SUFFICES ASSUME Kept(meta) PROVE ProgressIsExact
    BY DEF RangesIInv, ProgressIsExact
  <1>1. meta.size = Size /\ Normal(meta.ranges, Size) /\ Size \in Nat
    BY RangesAssumption DEF Kept
  <1>2. receivedRangesBytes(meta) = Cardinality(Covered(meta))
    <2>1. Covered(meta) = In(meta.ranges)
      BY <1>1, CoveredIs
    <2>2. FoldLeft(LAMBDA n, r : n + (r[2] - r[1]), 0, meta.ranges) = Cardinality(In(meta.ranges))
      BY <1>1, TotalIs
    <2>3. QED
      BY <2>1, <2>2 DEF receivedRangesBytes
  <1>3. QED
    BY <1>2, OffsetIs DEF ProgressIsExact

(* Whatever bodies arrive, the lists account for bytes as sets would: a    *)
(* request adds its bytes and loses those of pieces that fail, no byte is  *)
(* counted twice, and what is said of a span or of the offset is so.       *)
THEOREM RangesCorrect == Spec => []RangesInv
  <1>1. RangesIInv => RangesInv
    BY AccountsKept, CoverKept, ProgressKept DEF RangesInv
  <1>2. QED
    BY <1>1, RangesAlways, PTL

-----------------------------------------------------------------------------
(* The length of an archive.  The sizes of the records are summed per      *)
(* kind of entry by the code, and per part of the archive by the writer.   *)
(* A sum over a sequence by its steps.                                     *)
LEMMA SumSteps ==
  ASSUME NEW t \in Seq(Nat)
  PROVE  \E m : /\ m \in [0 .. Len(t) -> Nat]
                /\ m[0] = 0
                /\ \A k \in 1 .. Len(t) : m[k] = m[k - 1] + t[k]
                /\ AddedUp(t) = m[Len(t)]
  <1> DEFINE n == Len(t)
             V == Nat
             G == [k \in 1 .. n |-> [v \in V |-> v + t[k]]]
             Eqn(it) == it = [s \in SUBSET (DOMAIN t) |->
                               IF s = {} THEN 0 ELSE it[s \ {Max(s)}] + t[Max(s)]]
             it == CHOOSE it : Eqn(it)
  <1>1. \A k \in 1 .. n : t[k] \in Nat
    OBVIOUS
  <1>2. Maps(G, n, Nat) /\ \A k \in 1 .. n, v \in Nat : G[k][v] = v + t[k]
    BY <1>1 DEF Maps
  <1>3. 0 \in Nat /\ n \in Nat /\ DOMAIN t = 1 .. n
    OBVIOUS
  <1>4. AddedUp(t) = it[1 .. n]
    BY <1>3 DEF AddedUp, FoldLeft, MapThenFoldSet
  <1> HIDE DEF n, G, it
  <1>5. \A s \in SUBSET (1 .. n) : s # {} => Max(s) \in 1 .. n
    BY <1>3, MaxIn
  <1>6. PICK h \in [SUBSET (1 .. n) -> Nat] : Folds(h, n, 0, G)
    BY <1>2, <1>3, FoldExists
  <1>7. \A s \in SUBSET (1 .. n) :
          h[s] = IF s = {} THEN 0 ELSE h[s \ {Max(s)}] + t[Max(s)]
    <2>1. \A s \in SUBSET (1 .. n) : s \ {Max(s)} \in SUBSET (1 .. n)
      OBVIOUS
    <2>2. \A s \in SUBSET (1 .. n) : s # {} => h[s] = h[s \ {Max(s)}] + t[Max(s)]
      BY <1>2, <1>5, <1>6, <2>1 DEF Folds
    <2>3. h[{}] = 0
      BY <1>6 DEF Folds
    <2>4. QED
      BY <2>2, <2>3
  <1>8. Eqn(it)
    BY <1>3, <1>7 DEF it
  <1>9. Iterates(it, Nat, n, 0, G)
    <2>1. it[{}] = 0
      BY <1>3, <1>8
    <2>2. \A s \in SUBSET (1 .. n) :
            s # {} /\ it[s \ {Max(s)}] \in Nat => it[s] = G[Max(s)][it[s \ {Max(s)}]]
      BY <1>2, <1>3, <1>5, <1>8
    <2>3. QED
      BY <2>1, <2>2 DEF Iterates
  <1> HIDE DEF Eqn
  <1>10. 0 \in V /\ Maps(G, n, V) /\ Iterates(it, V, n, 0, G)
    BY <1>2, <1>9
  <1> HIDE DEF V
  <1>11. PICK m : Table(m, V, n, 0, G) /\ it[1 .. n] = m[n]
    BY <1>3, <1>10, FoldTable
  <1> USE DEF V
  <1>12. \A k \in 1 .. n : k - 1 \in 0 .. n
    BY <1>3
  <1>13. /\ m \in [0 .. n -> Nat] /\ m[0] = 0
         /\ \A k \in 1 .. n : m[k] = m[k - 1] + t[k]
    BY <1>2, <1>11, <1>12 DEF Table
  <1>14. QED
    BY <1>4, <1>11, <1>13 DEF n

(* The sums of the beginnings of a sequence.                               *)
SumTo(g, k) == AddedUp([j \in 1 .. k |-> g[j]])
Counts(g, n) == \A j \in 1 .. n : g[j] \in Nat

LEMMA SumToIs ==
  ASSUME NEW n \in Nat, NEW g, Counts(g, n)
  PROVE  /\ SumTo(g, 0) = 0
         /\ \A k \in 0 .. n : SumTo(g, k) \in Nat
         /\ \A k \in 1 .. n : SumTo(g, k) = SumTo(g, k - 1) + g[k]
  <1> DEFINE Prefix(k) == [j \in 1 .. k |-> g[j]]
  <1>1. \A k \in 0 .. n : Prefix(k) \in Seq(Nat) /\ Len(Prefix(k)) = k
    <2>1. ASSUME NEW k \in 0 .. n PROVE Prefix(k) \in Seq(Nat) /\ Len(Prefix(k)) = k
      <3>1. k \in Nat /\ \A j \in 1 .. k : j \in 1 .. n
        OBVIOUS
      <3>2. Prefix(k) \in [1 .. k -> Nat]
        BY <3>1 DEF Counts
      <3>3. QED
        BY <3>1, <3>2
    <2>2. QED
      BY <2>1
  <1>2. \A k \in 0 .. n : SumTo(g, k) = AddedUp(Prefix(k))
    BY DEF SumTo
  <1>3. SumTo(g, 0) = 0
    <2>1. 0 \in 0 .. n
      OBVIOUS
    <2> HIDE DEF Prefix
    <2>2. QED
      BY <1>1, <1>2, <2>1, SumSteps
  <1>4. \A k \in 0 .. n : SumTo(g, k) \in Nat
    <2>1. ASSUME NEW k \in 0 .. n PROVE AddedUp(Prefix(k)) \in Nat
      <3> HIDE DEF Prefix
      <3>1. PICK m : m \in [0 .. k -> Nat] /\ AddedUp(Prefix(k)) = m[k]
        BY <1>1, SumSteps
      <3>2. k \in 0 .. k
        OBVIOUS
      <3>3. QED
        BY <3>1, <3>2
    <2>2. QED
      BY <1>2, <2>1
  <1>5. ASSUME NEW k \in 1 .. n PROVE SumTo(g, k) = SumTo(g, k - 1) + g[k]
    <2>1. k \in Nat \ {0} /\ k \in 0 .. n /\ k - 1 \in 0 .. n /\ k - 1 \in Nat
      OBVIOUS
    <2> DEFINE u == Prefix(k)
               v == Prefix(k - 1)
    <2>2. /\ u \in Seq(Nat) /\ Len(u) = k /\ v \in Seq(Nat) /\ Len(v) = k - 1
          /\ u[k] = g[k] /\ \A j \in 1 .. k - 1 : u[j] = v[j]
      BY <1>1, <2>1
    <2>3. SumTo(g, k) = AddedUp(u) /\ SumTo(g, k - 1) = AddedUp(v)
      BY <1>2, <2>1
    <2> HIDE DEF u, v
    <2>4. PICK a : /\ a \in [0 .. k -> Nat] /\ a[0] = 0 /\ AddedUp(u) = a[k]
                   /\ \A j \in 1 .. k : a[j] = a[j - 1] + u[j]
      BY <2>2, SumSteps
    <2>5. PICK b : /\ b \in [0 .. Len(v) -> Nat] /\ b[0] = 0 /\ AddedUp(v) = b[Len(v)]
                   /\ \A j \in 1 .. Len(v) : b[j] = b[j - 1] + v[j]
      BY <2>2, SumSteps
    <2> DEFINE B == {j \in 0 .. k - 1 : a[j] = b[j]}
    <2>6. 0 \in B
      BY <2>1, <2>4, <2>5
    <2>7. \A j \in 1 .. k - 1 : j - 1 \in B => j \in B
      BY <2>1, <2>2, <2>4, <2>5
    <2> HIDE DEF B
    <2>8. 0 .. k - 1 \subseteq B
      BY <2>1, <2>6, <2>7, Upward
    <2>9. a[k - 1] = b[k - 1]
      BY <2>1, <2>8 DEF B
    <2>10. k \in 1 .. k
      BY <2>1
    <2>11. QED
      BY <2>2, <2>3, <2>4, <2>5, <2>9, <2>10
  <1>6. QED
    BY <1>3, <1>4, <1>5

LEMMA SumsGrow ==
  ASSUME NEW n \in Nat, NEW g, Counts(g, n)
  PROVE  \A k \in 0 .. n : SumTo(g, k) <= SumTo(g, n)
  <1> DEFINE B == {k \in 0 .. n : SumTo(g, n - k) <= SumTo(g, n)}
  <1>1. 0 \in B
    BY SumToIs
  <1>2. ASSUME NEW k \in 1 .. n, k - 1 \in B PROVE k \in B
    <2>1. /\ n - k + 1 \in 1 .. n /\ n - (k - 1) = n - k + 1 /\ (n - k + 1) - 1 = n - k
          /\ n - k \in 0 .. n /\ n - k + 1 \in 0 .. n /\ n \in 0 .. n
      OBVIOUS
    <2>2. SumTo(g, n - k + 1) = SumTo(g, n - k) + g[n - k + 1]
      BY <2>1, SumToIs
    <2>3. SumTo(g, n - k) \in Nat /\ SumTo(g, n) \in Nat /\ g[n - k + 1] \in Nat
      BY <2>1, SumToIs DEF Counts
    <2>4. SumTo(g, n - k + 1) <= SumTo(g, n)
      BY <1>2, <2>1
    <2>5. QED
      BY <2>1, <2>2, <2>3, <2>4
  <1> HIDE DEF B
  <1>3. 0 .. n \subseteq B
    BY <1>1, <1>2, Upward
  <1>4. ASSUME NEW k \in 0 .. n PROVE SumTo(g, k) <= SumTo(g, n)
    <2>1. n - k \in 0 .. n /\ n - (n - k) = k
      OBVIOUS
    <2>2. QED
      BY <1>3, <2>1 DEF B
  <1>5. QED
    BY <1>4

AddUp(f, g, h, n) == \A j \in 1 .. n : h[j] = f[j] + g[j]

LEMMA SumsAdd ==
  ASSUME NEW n \in Nat, NEW f, NEW g, NEW h, Counts(f, n), Counts(g, n), AddUp(f, g, h, n)
  PROVE  SumTo(h, n) = SumTo(f, n) + SumTo(g, n)
  <1>1. Counts(h, n)
    BY DEF Counts, AddUp
  <1> DEFINE B == {k \in 0 .. n : SumTo(h, k) = SumTo(f, k) + SumTo(g, k)}
  <1>2. 0 \in B
    BY <1>1, SumToIs
  <1>3. ASSUME NEW k \in 1 .. n, k - 1 \in B PROVE k \in B
    <2>1. k \in 0 .. n /\ k - 1 \in 0 .. n
      OBVIOUS
    <2>2. /\ SumTo(h, k) = SumTo(h, k - 1) + h[k]
          /\ SumTo(f, k) = SumTo(f, k - 1) + f[k]
          /\ SumTo(g, k) = SumTo(g, k - 1) + g[k]
      BY <1>1, SumToIs
    <2>3. /\ SumTo(f, k - 1) \in Nat /\ SumTo(g, k - 1) \in Nat
          /\ f[k] \in Nat /\ g[k] \in Nat
      BY <2>1, SumToIs DEF Counts
    <2>4. SumTo(h, k - 1) = SumTo(f, k - 1) + SumTo(g, k - 1)
      BY <1>3
    <2>5. h[k] = f[k] + g[k]
      BY DEF AddUp
    <2>6. QED
      BY <2>1, <2>2, <2>3, <2>4, <2>5
  <1> HIDE DEF B
  <1>4. 0 .. n \subseteq B
    BY <1>2, <1>3, Upward
  <1>5. n \in B
    BY <1>4
  <1>6. QED
    BY <1>5 DEF B

(* A sum over one sequence after another.                                  *)
LEMMA SumsJoin ==
  ASSUME NEW n \in Nat, NEW m \in Nat, NEW f, NEW g, NEW h, Counts(f, n), Counts(g, m),
         \A j \in 1 .. n : h[j] = f[j],
         \A j \in 1 .. m : h[n + j] = g[j]
  PROVE  Counts(h, n + m) /\ SumTo(h, n + m) = SumTo(f, n) + SumTo(g, m)
  <1>1. Counts(h, n + m)
    <2>1. ASSUME NEW j \in 1 .. n + m PROVE h[j] \in Nat
      <3>1. CASE j \in 1 .. n
        BY <3>1 DEF Counts
      <3>2. CASE j \notin 1 .. n
        <4>1. j - n \in 1 .. m /\ n + (j - n) = j
          BY <3>2
        <4>2. QED
          BY <4>1 DEF Counts
      <3>3. QED
        BY <3>1, <3>2
    <2>2. QED
      BY <2>1 DEF Counts
  <1>2. SumTo(h, n) = SumTo(f, n)
    <2>1. \A j \in 1 .. n : j \in 1 .. n + m
      OBVIOUS
    <2>2. [j \in 1 .. n |-> h[j]] = [j \in 1 .. n |-> f[j]]
      OBVIOUS
    <2>3. QED
      BY <2>2 DEF SumTo
  <1> DEFINE B == {k \in 0 .. m : SumTo(h, n + k) = SumTo(f, n) + SumTo(g, k)}
  <1>3. SumTo(f, n) \in Nat
    <2>1. n \in 0 .. n
      OBVIOUS
    <2>2. QED
      BY <2>1, SumToIs
  <1>4. 0 \in B
    BY <1>2, <1>3, SumToIs
  <1>5. ASSUME NEW k \in 1 .. m, k - 1 \in B PROVE k \in B
    <2>1. /\ k \in 0 .. m /\ k - 1 \in 0 .. m /\ n + k \in 1 .. n + m
          /\ (n + k) - 1 = n + (k - 1) /\ n + m \in Nat
      OBVIOUS
    <2>2. SumTo(h, n + k) = SumTo(h, n + (k - 1)) + h[n + k]
      BY <1>1, <2>1, SumToIs
    <2>3. SumTo(g, k) = SumTo(g, k - 1) + g[k] /\ SumTo(g, k - 1) \in Nat
      BY <2>1, SumToIs
    <2>4. g[k] \in Nat /\ h[n + k] = g[k]
      BY DEF Counts
    <2>5. SumTo(h, n + (k - 1)) = SumTo(f, n) + SumTo(g, k - 1)
      BY <1>5
    <2>6. QED
      BY <1>3, <2>1, <2>2, <2>3, <2>4, <2>5
  <1> HIDE DEF B
  <1>6. 0 .. m \subseteq B
    BY <1>4, <1>5, Upward
  <1>7. m \in B
    BY <1>6
  <1>8. QED
    BY <1>1, <1>7 DEF B

(* The entries of an archive: its folders, then its files.                 *)
DirEntry(n) == [dir |-> TRUE, name |-> n, size |-> 0]
FileEntry(e) == [dir |-> FALSE, name |-> e.name, size |-> e.size]

LEMMA JoinAt ==
  ASSUME NEW S, NEW s \in Seq(S), NEW t \in Seq(S)
  PROVE  /\ s \o t \in Seq(S) /\ Len(s \o t) = Len(s) + Len(t)
         /\ \A i \in 1 .. Len(s) : (s \o t)[i] = s[i]
         /\ \A i \in 1 .. Len(t) : (s \o t)[Len(s) + i] = t[i]
  OBVIOUS

LEMMA LengthIs ==
  ASSUME NEW S, NEW k \in Nat, NEW s \in [1 .. k -> S]
  PROVE  s \in Seq(S) /\ Len(s) = k
  OBVIOUS

LEMMA ArchiveTyped ==
  ASSUME NEW a \in Archives
  PROVE  /\ Len(a.files) \in Nat /\ DOMAIN a.files = 1 .. Len(a.files)
         /\ \A i \in 1 .. Len(a.files) : a.files[i].name \in Nat /\ a.files[i].size \in Nat
         /\ Len(a.dirs) \in Nat /\ DOMAIN a.dirs = 1 .. Len(a.dirs)
         /\ \A i \in 1 .. Len(a.dirs) : a.dirs[i] \in Nat
  <1>1. /\ a.files \in UpTo(MaxEntries, [name : NameLengths, size : FileSizes])
        /\ a.dirs \in UpTo(MaxEntries, NameLengths)
    BY DEF Archives
  <1>2. PICK k \in 0 .. MaxEntries : a.files \in [1 .. k -> [name : NameLengths, size : FileSizes]]
    BY <1>1 DEF UpTo
  <1>3. PICK j \in 0 .. MaxEntries : a.dirs \in [1 .. j -> NameLengths]
    BY <1>1 DEF UpTo
  <1>4. k \in Nat /\ j \in Nat
    BY StoreZipAssumption
  <1>5. Len(a.files) = k
    BY <1>2, <1>4, LengthIs
  <1>6. Len(a.dirs) = j
    BY <1>3, <1>4, LengthIs
  <1>7. \A e \in [name : NameLengths, size : FileSizes] : e.name \in Nat /\ e.size \in Nat
    BY StoreZipAssumption
  <1>8. QED
    BY <1>2, <1>3, <1>4, <1>5, <1>6, <1>7, StoreZipAssumption

LEMMA EntriesAre ==
  ASSUME NEW a \in Archives
  PROVE  LET es == Entries(a)
             d  == Len(a.dirs)
             f  == Len(a.files) IN
         /\ Len(es) = d + f /\ DOMAIN es = 1 .. d + f
         /\ \A i \in 1 .. d : es[i] = DirEntry(a.dirs[i])
         /\ \A i \in 1 .. f : es[d + i] = FileEntry(a.files[i])
  <1> DEFINE d == Len(a.dirs)
             f == Len(a.files)
             s == [i \in 1 .. d |-> DirEntry(a.dirs[i])]
             t == [i \in 1 .. f |-> FileEntry(a.files[i])]
             S == {DirEntry(a.dirs[i]) : i \in 1 .. d} \cup {FileEntry(a.files[i]) : i \in 1 .. f}
  <1>1. /\ d \in Nat /\ DOMAIN a.dirs = 1 .. d
        /\ f \in Nat /\ DOMAIN a.files = 1 .. f
    BY ArchiveTyped
  <1>2. Entries(a) = s \o t
    BY <1>1 DEF Entries, DirEntry, FileEntry
  <1>3. /\ \A i \in 1 .. d : s[i] = DirEntry(a.dirs[i])
        /\ \A i \in 1 .. f : t[i] = FileEntry(a.files[i])
    OBVIOUS
  <1>4. s \in [1 .. d -> S] /\ t \in [1 .. f -> S]
    OBVIOUS
  <1> HIDE DEF d, f, s, t, S
  <1>5. s \in Seq(S) /\ Len(s) = d /\ t \in Seq(S) /\ Len(t) = f
    BY <1>1, <1>4, LengthIs
  <1>6. /\ s \o t \in Seq(S) /\ Len(s \o t) = Len(s) + Len(t)
        /\ \A i \in 1 .. Len(s) : (s \o t)[i] = s[i]
        /\ \A i \in 1 .. Len(t) : (s \o t)[Len(s) + i] = t[i]
    <2>1. s \in Seq(S) /\ t \in Seq(S)
      BY <1>5
    <2>2. QED
      BY ONLY <2>1, JoinAt
  <1>7. DOMAIN (s \o t) = 1 .. d + f
    BY <1>5, <1>6
  <1>8. QED
    BY <1>2, <1>3, <1>5, <1>6, <1>7 DEF d, f

(* The writer's records for an entry that is not large.                    *)
LEMMA DirRecords ==
  ASSUME NEW n \in Nat
  PROVE  /\ LocalSize(DirEntry(n)) = 30 + n + 9
         /\ DirEntry(n).name = n /\ DirEntry(n).size = 0
  BY DEF LocalSize, DirEntry

LEMMA FileRecords ==
  ASSUME NEW e, e.name \in Nat, e.size \in Nat, e.size < Max32
  PROVE  /\ LocalSize(FileEntry(e)) = 30 + e.name + 9 + e.size + 16
         /\ FileEntry(e).name = e.name /\ FileEntry(e).size = e.size
  <1>1. Max32 \in Nat
    BY StoreZipAssumption
  <1>2. ~(e.size >= Max32)
    BY <1>1
  <1>3. QED
    BY <1>2 DEF LocalSize, FileEntry

(* What the code adds up per entry is what the writer writes of it.        *)
Locals(a) == [i \in 1 .. Len(Entries(a)) |-> LocalSize(Entries(a)[i])]
Centrals(a) == [i \in 1 .. Len(Entries(a)) |-> 46 + Entries(a)[i].name + 9]
Costs(a) == [i \in 1 .. Len(Entries(a)) |-> Locals(a)[i] + Centrals(a)[i]]
FileCosts(a) == [i \in DOMAIN a.files |-> FileCost(a.files[i])]
DirCosts(a) == [i \in DOMAIN a.dirs |-> DirCost(a.dirs[i])]

Small(a) == \A i \in 1 .. Len(a.files) : a.files[i].size < Max32

LEMMA CostsAre ==
  ASSUME NEW a \in Archives, Small(a)
  PROVE  LET n == Len(Entries(a)) IN
         /\ n = Len(a.dirs) + Len(a.files) /\ n \in Nat /\ DOMAIN Entries(a) = 1 .. n
         /\ Counts(Locals(a), n) /\ Counts(Centrals(a), n)
         /\ \A i \in 1 .. n : Entries(a)[i].name \in Nat /\ Entries(a)[i].size \in Nat
         /\ \A i \in 1 .. n : Entries(a)[i].size = 0 \/ Entries(a)[i].size < Max32
         /\ \A i \in 1 .. Len(a.dirs) : Costs(a)[i] = DirCosts(a)[i]
         /\ \A i \in 1 .. Len(a.files) : Costs(a)[Len(a.dirs) + i] = FileCosts(a)[i]
         /\ Counts(DirCosts(a), Len(a.dirs)) /\ Counts(FileCosts(a), Len(a.files))
  <1> DEFINE es == Entries(a)
             n == Len(es)
             d == Len(a.dirs)
             f == Len(a.files)
  <1>1. /\ f \in Nat /\ DOMAIN a.files = 1 .. f
        /\ \A i \in 1 .. f : a.files[i].name \in Nat /\ a.files[i].size \in Nat
        /\ d \in Nat /\ DOMAIN a.dirs = 1 .. d
        /\ \A i \in 1 .. d : a.dirs[i] \in Nat
    BY ArchiveTyped
  <1>2. /\ n = d + f /\ DOMAIN es = 1 .. d + f
        /\ \A i \in 1 .. d : es[i] = DirEntry(a.dirs[i])
        /\ \A i \in 1 .. f : es[d + i] = FileEntry(a.files[i])
    BY EntriesAre
  <1>3. /\ \A i \in 1 .. n : Locals(a)[i] = LocalSize(es[i])
        /\ \A i \in 1 .. n : Centrals(a)[i] = 46 + es[i].name + 9
        /\ \A i \in 1 .. n : Costs(a)[i] = Locals(a)[i] + Centrals(a)[i]
    BY DEF Locals, Centrals, Costs
  <1>4. /\ \A i \in 1 .. d : DirCosts(a)[i] = 30 + 9 + a.dirs[i] + 46 + 9 + a.dirs[i]
        /\ \A i \in 1 .. f : FileCosts(a)[i] = 30 + 9 + a.files[i].name + a.files[i].size + 16
                                               + 46 + 9 + a.files[i].name
    BY <1>1 DEF DirCosts, FileCosts, DirCost, FileCost
  <1>5. \A i \in 1 .. f : a.files[i].size < Max32
    BY DEF Small
  <1> HIDE DEF es, n, d, f
  <1>6. ASSUME NEW i \in 1 .. d
        PROVE  /\ i \in 1 .. n /\ es[i].name = a.dirs[i] /\ es[i].size = 0
               /\ Locals(a)[i] = 30 + a.dirs[i] + 9
               /\ Centrals(a)[i] = 46 + a.dirs[i] + 9
    <2>1. i \in 1 .. n /\ a.dirs[i] \in Nat
      BY <1>1, <1>2
    <2>2. es[i] = DirEntry(a.dirs[i])
      BY <1>2
    <2>3. LocalSize(es[i]) = 30 + a.dirs[i] + 9 /\ es[i].name = a.dirs[i] /\ es[i].size = 0
      BY <2>1, <2>2, DirRecords, Zenon
    <2>4. Locals(a)[i] = LocalSize(es[i]) /\ Centrals(a)[i] = 46 + es[i].name + 9
      BY <1>3, <2>1
    <2>5. QED
      BY <2>1, <2>3, <2>4
  <1>7. ASSUME NEW i \in 1 .. f
        PROVE  /\ d + i \in 1 .. n /\ es[d + i].name = a.files[i].name
               /\ es[d + i].size = a.files[i].size
               /\ Locals(a)[d + i] = 30 + a.files[i].name + 9 + a.files[i].size + 16
               /\ Centrals(a)[d + i] = 46 + a.files[i].name + 9
    <2>1. d + i \in 1 .. n /\ a.files[i].name \in Nat /\ a.files[i].size \in Nat
      BY <1>1, <1>2
    <2>2. es[d + i] = FileEntry(a.files[i]) /\ a.files[i].size < Max32
      BY <1>2, <1>5
    <2>3. /\ LocalSize(es[d + i]) = 30 + a.files[i].name + 9 + a.files[i].size + 16
          /\ es[d + i].name = a.files[i].name /\ es[d + i].size = a.files[i].size
      BY <2>1, <2>2, FileRecords, Zenon
    <2>4. Locals(a)[d + i] = LocalSize(es[d + i]) /\ Centrals(a)[d + i] = 46 + es[d + i].name + 9
      BY <1>3, <2>1
    <2>5. QED
      BY <2>1, <2>3, <2>4
  <1>8. \A i \in 1 .. d : /\ Locals(a)[i] \in Nat /\ Centrals(a)[i] \in Nat
                          /\ Costs(a)[i] = DirCosts(a)[i] /\ DirCosts(a)[i] \in Nat
                          /\ es[i].name \in Nat
    <2>1. ASSUME NEW i \in 1 .. d
          PROVE  /\ Locals(a)[i] \in Nat /\ Centrals(a)[i] \in Nat
                 /\ Costs(a)[i] = DirCosts(a)[i] /\ DirCosts(a)[i] \in Nat
                 /\ es[i].name \in Nat
      <3>1. a.dirs[i] \in Nat
        BY <1>1
      <3>2. Costs(a)[i] = Locals(a)[i] + Centrals(a)[i]
        BY <1>3, <1>6
      <3>3. DirCosts(a)[i] = 30 + 9 + a.dirs[i] + 46 + 9 + a.dirs[i]
        BY <1>4
      <3>4. QED
        BY <1>6, <3>1, <3>2, <3>3
    <2>2. QED
      BY <2>1
  <1>9. \A i \in 1 .. f : /\ Locals(a)[d + i] \in Nat /\ Centrals(a)[d + i] \in Nat
                          /\ Costs(a)[d + i] = FileCosts(a)[i] /\ FileCosts(a)[i] \in Nat
                          /\ es[d + i].name \in Nat /\ es[d + i].size \in Nat
                          /\ es[d + i].size < Max32
    <2>1. ASSUME NEW i \in 1 .. f
          PROVE  /\ Locals(a)[d + i] \in Nat /\ Centrals(a)[d + i] \in Nat
                 /\ Costs(a)[d + i] = FileCosts(a)[i] /\ FileCosts(a)[i] \in Nat
                 /\ es[d + i].name \in Nat /\ es[d + i].size \in Nat
                 /\ es[d + i].size < Max32
      <3>1. a.files[i].name \in Nat /\ a.files[i].size \in Nat /\ a.files[i].size < Max32
        BY <1>1, <1>5
      <3>2. Costs(a)[d + i] = Locals(a)[d + i] + Centrals(a)[d + i]
        BY <1>3, <1>7
      <3>3. FileCosts(a)[i] = 30 + 9 + a.files[i].name + a.files[i].size + 16
                              + 46 + 9 + a.files[i].name
        BY <1>4
      <3>4. QED
        BY <1>7, <3>1, <3>2, <3>3
    <2>2. QED
      BY <2>1
  <1>10. \A i \in 1 .. n : i \in 1 .. d \/ \E j \in 1 .. f : i = d + j
    <2>1. ASSUME NEW i \in 1 .. n, i \notin 1 .. d PROVE i - d \in 1 .. f /\ i = d + (i - d)
      BY <1>1, <1>2, <2>1
    <2>2. QED
      BY <2>1
  <1>11. \A i \in 1 .. n : /\ Locals(a)[i] \in Nat /\ Centrals(a)[i] \in Nat
                           /\ es[i].name \in Nat /\ es[i].size \in Nat
                           /\ (es[i].size = 0 \/ es[i].size < Max32)
    BY <1>6, <1>8, <1>9, <1>10
  <1>12. n \in Nat
    BY <1>1, <1>2
  <1>13. QED
    BY <1>2, <1>8, <1>9, <1>11, <1>12 DEF Counts, es, n, d, f

(* The announced length, if one is announced.                              *)
LEMMA AnnouncedIs ==
  ASSUME NEW a \in Archives, storeZipLength(a) # -1
  PROVE  /\ Small(a) /\ Len(a.files) + Len(a.dirs) < Max16
         /\ storeZipLength(a) = SumTo(Costs(a), Len(Entries(a))) + 22
         /\ SumTo(Costs(a), Len(Entries(a))) + 22 <= Max32
  <1> DEFINE d == Len(a.dirs)
             f == Len(a.files)
             total == AddedUp(FileCosts(a)) + AddedUp(DirCosts(a)) + 22
  <1>1. /\ f \in Nat /\ DOMAIN a.files = 1 .. f
        /\ \A i \in 1 .. f : a.files[i].size \in Nat
        /\ d \in Nat /\ DOMAIN a.dirs = 1 .. d /\ Max32 \in Nat /\ Max16 \in Nat
    BY ArchiveTyped, StoreZipAssumption
  <1>2. ~TooLarge(a) /\ ~(total >= Max32 + 1) /\ storeZipLength(a) = total
    BY DEF storeZipLength, FileCosts, DirCosts
  <1>3. Small(a) /\ f + d < Max16
    <2>1. ~(f + d >= Max16) /\ \A i \in 1 .. f : ~(a.files[i].size >= Max32)
      BY <1>1, <1>2 DEF TooLarge
    <2> HIDE DEF d
    <2>2. \A i \in 1 .. f : a.files[i].size < Max32
      BY <1>1, <2>1
    <2>3. f + d < Max16
      <3> HIDE DEF f
      <3>1. QED
        BY <1>1, <2>1
    <2>4. QED
      BY <2>2, <2>3 DEF Small
  <1>4. AddedUp(FileCosts(a)) = SumTo(FileCosts(a), f)
    <2>1. FileCosts(a) = [j \in 1 .. f |-> FileCosts(a)[j]]
      BY <1>1 DEF FileCosts
    <2>2. QED
      BY <2>1 DEF SumTo
  <1>5. AddedUp(DirCosts(a)) = SumTo(DirCosts(a), d)
    <2>1. DirCosts(a) = [j \in 1 .. d |-> DirCosts(a)[j]]
      BY <1>1 DEF DirCosts
    <2>2. QED
      BY <2>1 DEF SumTo
  <1> HIDE DEF d, f
  <1>6. /\ Len(Entries(a)) = d + f
        /\ \A i \in 1 .. d : Costs(a)[i] = DirCosts(a)[i]
        /\ \A i \in 1 .. f : Costs(a)[d + i] = FileCosts(a)[i]
        /\ Counts(DirCosts(a), d) /\ Counts(FileCosts(a), f)
    BY <1>3, CostsAre DEF d, f
  <1>7. SumTo(Costs(a), d + f) = SumTo(DirCosts(a), d) + SumTo(FileCosts(a), f)
    BY <1>1, <1>6, SumsJoin
  <1>8. SumTo(DirCosts(a), d) \in Nat /\ SumTo(FileCosts(a), f) \in Nat
    BY <1>1, <1>6, SumToIs
  <1>9. SumTo(Costs(a), d + f) = AddedUp(FileCosts(a)) + AddedUp(DirCosts(a))
    BY <1>4, <1>5, <1>7, <1>8
  <1>10. total = SumTo(Costs(a), d + f) + 22 /\ SumTo(Costs(a), d + f) \in Nat
    BY <1>4, <1>5, <1>8, <1>9
  <1> HIDE DEF total
  <1>11. SumTo(Costs(a), d + f) + 22 <= Max32
    BY <1>1, <1>2, <1>10
  <1>12. QED
    BY <1>2, <1>3, <1>6, <1>10, <1>11 DEF d, f

LocalsOf(es, l, n) == \A j \in 1 .. n : l[j] = LocalSize(es[j])

LEMMA BeforeIs ==
  ASSUME NEW n \in Nat, NEW es, NEW l, LocalsOf(es, l, n), NEW i \in 1 .. n + 1
  PROVE  Offset(es, i) = SumTo(l, i - 1)
  <1>1. \A j \in 1 .. i - 1 : j \in 1 .. n
    OBVIOUS
  <1>2. [j \in 1 .. i - 1 |-> LocalSize(es[j])] = [j \in 1 .. i - 1 |-> l[j]]
    BY <1>1 DEF LocalsOf
  <1>3. QED
    BY <1>2 DEF Offset, SumTo

LEMMA WrittenIs ==
  ASSUME NEW a \in Archives, storeZipLength(a) # -1
  PROVE  zipWriter(a) = storeZipLength(a)
  <1> DEFINE es == Entries(a)
             n == Len(es)
             l == Locals(a)
             c == Centrals(a)
             d == Len(a.dirs)
             f == Len(a.files)
             sum == SumTo(Costs(a), n)
             locals == Offset(es, n + 1)
             central == AddedUp([i \in DOMAIN es |-> CentralSize(es, i)])
  <1>1. Small(a) /\ f + d < Max16 /\ f \in Nat /\ d \in Nat
    BY AnnouncedIs, ArchiveTyped
  <1>2. storeZipLength(a) = sum + 22 /\ sum + 22 <= Max32
    BY AnnouncedIs
  <1>3. n = d + f /\ n \in Nat
    BY <1>1, CostsAre
  <1>4. DOMAIN es = 1 .. n /\ Counts(l, n) /\ Counts(c, n)
    BY <1>1, CostsAre
  <1>5. /\ \A i \in 1 .. n : es[i].name \in Nat /\ es[i].size \in Nat
        /\ \A i \in 1 .. n : es[i].size = 0 \/ es[i].size < Max32
    BY <1>1, CostsAre
  <1>6. LocalsOf(es, l, n)
    BY DEF Locals, LocalsOf
  <1>7. \A i \in 1 .. n : c[i] = 46 + es[i].name + 9
    BY DEF Centrals
  <1>8. AddUp(l, c, Costs(a), n)
    BY DEF Costs, AddUp
  <1>9. zipWriter(a) = locals + central
                       + (IF n >= Max16 \/ central >= Max32 \/ locals >= Max32 THEN 76 ELSE 0) + 22
    BY DEF zipWriter
  <1> HIDE DEF n, es, l, c, d, f
  <1>10. n < Max16 /\ Max32 \in Nat /\ Max16 \in Nat
    BY <1>1, <1>3, StoreZipAssumption
  <1> DEFINE L == SumTo(l, n)
             C == SumTo(c, n)
  <1>11. n \in Nat /\ n \in 0 .. n /\ n + 1 \in 1 .. n + 1 /\ (n + 1) - 1 = n
    BY <1>3
  <1>12. sum = L + C
    BY <1>4, <1>8, <1>11, SumsAdd
  <1>13. L \in Nat /\ C \in Nat
    BY <1>4, <1>11, SumToIs
  <1>14. locals = L
    <2>1. Offset(es, n + 1) = SumTo(l, (n + 1) - 1)
      BY <1>6, <1>11, BeforeIs
    <2>2. QED
      BY <1>11, <2>1
  <1>15. \A k \in 0 .. n : SumTo(l, k) \in Nat /\ SumTo(l, k) <= L
    BY <1>4, <1>11, SumToIs, SumsGrow
  <1> HIDE DEF L, C, locals, sum
  <1>16. L + C + 22 <= Max32 /\ Max32 > 0
    BY <1>2, <1>10, <1>12, <1>13
  <1>17. ASSUME NEW i \in 1 .. n
         PROVE  CentralSize(es, i) = c[i]
    <2>1. i \in 1 .. n + 1 /\ i - 1 \in 0 .. n
      BY <1>11
    <2>2. Offset(es, i) = SumTo(l, i - 1)
      BY <1>6, <1>11, <2>1, BeforeIs
    <2>3. ~(Offset(es, i) >= Max32)
      BY <1>10, <1>13, <1>15, <1>16, <2>1, <2>2
    <2>4. PICK x \in Nat : x = es[i].size
      BY <1>5
    <2>5. ~(x >= Max32)
      BY <1>5, <1>10, <1>16, <2>4
    <2>6. CentralSize(es, i) = 46 + es[i].name + 9 + 0
      BY <2>3, <2>4, <2>5 DEF CentralSize
    <2>7. QED
      BY <1>5, <1>7, <2>6
  <1>18. central = C
    <2>1. [i \in DOMAIN es |-> CentralSize(es, i)] = [j \in 1 .. n |-> c[j]]
      BY <1>4, <1>17
    <2>2. QED
      BY <2>1 DEF SumTo, C
  <1> HIDE DEF central
  <1>19. ~(n >= Max16) /\ ~(central >= Max32) /\ ~(locals >= Max32)
    BY <1>10, <1>11, <1>13, <1>14, <1>16, <1>18
  <1>20. zipWriter(a) = L + C + 22
    BY <1>9, <1>13, <1>14, <1>18, <1>19
  <1>21. QED
    BY <1>2, <1>12, <1>13, <1>20

(* Whatever is shared, of whatever sizes and near whatever limits: when a  *)
(* length is announced for an archive, as many bytes are written.          *)
THEOREM LengthsCorrect == archive = NoArchive /\ [][archive' \in Archives]_archive => []LengthIsExact
  <1> DEFINE Asked == archive = NoArchive \/ archive \in Archives
  <1>1. archive = NoArchive => Asked
    OBVIOUS
  <1>2. Asked /\ [archive' \in Archives]_archive => Asked'
    OBVIOUS
  <1>3. Asked => LengthIsExact
    BY WrittenIs DEF LengthIsExact, absStoreZipLength
  <1>4. QED
    BY <1>1, <1>2, <1>3, PTL

-----------------------------------------------------------------------------
(* The start of the server.  Its two folds, over the visible files and     *)
(* over the hidden ones, are tables whose rows are the states between.     *)
(* Of a family of finite sets, one that has no smaller one by an element.  *)
LEMMA LeastSet ==
  ASSUME NEW S, IsFiniteSet(S), NEW F, F \subseteq SUBSET S, F # {}
  PROVE  \E X \in F : IsFiniteSet(X) /\ \A x \in X : X \ {x} \notin F
  <1>1. IsWellFoundedOn(StrictSubsetOrdering(S), SUBSET S)
    BY FS_StrictSubsetOrderingWellFounded, FS_FiniteSubsetsOfFinite
  <1>2. PICK X \in F : \A Y \in F : <<Y, X>> \notin StrictSubsetOrdering(S)
    BY <1>1, WFMin
  <1>3. \A x \in X : <<X \ {x}, X>> \in StrictSubsetOrdering(S)
    BY DEF StrictSubsetOrdering
  <1>4. QED
    BY <1>2, <1>3, FS_Subset

(* The sum over a function, which takes the elements of its domain in any  *)
(* order, by its steps.                                                    *)
Chosen(s) == CHOOSE x \in s : TRUE
AddsAll(f, h, S) ==
  \A s \in SUBSET S : f[s] = IF s = {} THEN 0 ELSE h[Chosen(s)] + f[s \ {Chosen(s)}]

LEMMA ChosenIn == ASSUME NEW s, s # {} PROVE Chosen(s) \in s
  BY DEF Chosen

LEMMA SumExists ==
  ASSUME NEW S, IsFiniteSet(S), NEW h \in [S -> Nat]
  PROVE  \E f \in [SUBSET S -> Nat] : AddsAll(f, h, S)
  <1> DEFINE n == Cardinality(S)
             UpToSize(k) == {s \in SUBSET S : Cardinality(s) <= k}
             Good(f, k) == \A s \in UpToSize(k) :
                             f[s] = IF s = {} THEN 0 ELSE h[Chosen(s)] + f[s \ {Chosen(s)}]
             B == {k \in 0 .. n : \E f \in [UpToSize(k) -> Nat] : Good(f, k)}
  <1>1. n \in Nat
    BY FS_CardinalityType
  <1>2. \A s \in SUBSET S : /\ IsFiniteSet(s) /\ Cardinality(s) \in Nat /\ Cardinality(s) <= n
                            /\ (Cardinality(s) = 0 <=> s = {})
    BY FS_Subset, FS_CardinalityType, FS_EmptySet
  <1>3. ASSUME NEW s \in SUBSET S, s # {}
        PROVE  /\ Chosen(s) \in s /\ h[Chosen(s)] \in Nat /\ s \ {Chosen(s)} \in SUBSET S
               /\ Cardinality(s \ {Chosen(s)}) = Cardinality(s) - 1
    BY <1>2, <1>3, ChosenIn, FS_RemoveElement
  <1>4. 0 \in B
    <2>1. UpToSize(0) = {{}}
      BY <1>2, FS_EmptySet
    <2> DEFINE f == [s \in UpToSize(0) |-> 0]
    <2>2. Good(f, 0)
      BY <2>1
    <2>3. f \in [UpToSize(0) -> Nat]
      OBVIOUS
    <2>4. 0 \in 0 .. n
      BY <1>1
    <2> HIDE DEF f, UpToSize, Good, n
    <2>5. QED
      BY <2>2, <2>3, <2>4
  <1>5. ASSUME NEW k \in 1 .. n, k - 1 \in B PROVE k \in B
    <2>1. PICK f \in [UpToSize(k - 1) -> Nat] : Good(f, k - 1)
      BY <1>5
    <2> DEFINE e == [s \in UpToSize(k) |->
                      IF s \in UpToSize(k - 1) THEN f[s] ELSE h[Chosen(s)] + f[s \ {Chosen(s)}]]
    <2>2. k \in Nat \ {0} /\ k - 1 \in Nat
      OBVIOUS
    <2>3. \A s \in UpToSize(k) : s # {} => s \ {Chosen(s)} \in UpToSize(k - 1)
      BY <1>2, <1>3, <2>2
    <2>4. {} \in UpToSize(k - 1) /\ UpToSize(k - 1) \subseteq UpToSize(k)
      BY <1>2, <2>2, FS_EmptySet
    <2>5. ASSUME NEW s \in UpToSize(k)
          PROVE  e[s] \in Nat /\ e[s] = IF s = {} THEN 0 ELSE h[Chosen(s)] + e[s \ {Chosen(s)}]
      <3> HIDE DEF UpToSize
      <3>1. s \in SUBSET S
        BY DEF UpToSize
      <3>2. CASE s \in UpToSize(k - 1)
        <4>1. f[s] = IF s = {} THEN 0 ELSE h[Chosen(s)] + f[s \ {Chosen(s)}]
          BY <2>1, <3>2
        <4>2. s # {} => e[s \ {Chosen(s)}] = f[s \ {Chosen(s)}]
          BY <2>3, <2>4
        <4>3. e[s] = f[s] /\ f[s] \in Nat
          BY <3>2
        <4> HIDE DEF e
        <4>4. QED
          BY <4>1, <4>2, <4>3
      <3>3. CASE s \notin UpToSize(k - 1)
        <4>1. s # {}
          BY <2>4, <3>3
        <4>2. /\ e[s \ {Chosen(s)}] = f[s \ {Chosen(s)}] /\ f[s \ {Chosen(s)}] \in Nat
              /\ e[s] = h[Chosen(s)] + f[s \ {Chosen(s)}]
          BY <2>3, <2>4, <3>3, <4>1
        <4> HIDE DEF e
        <4>3. QED
          BY <1>3, <3>1, <4>1, <4>2
      <3>4. QED
        BY <3>2, <3>3
    <2>6. e \in [UpToSize(k) -> Nat]
      <3>1. e = [s \in UpToSize(k) |-> e[s]]
        OBVIOUS
      <3> HIDE DEF e, UpToSize
      <3>2. QED
        BY <2>5, <3>1
    <2> HIDE DEF e
    <2>7. Good(e, k)
      BY <2>5
    <2>8. k \in 0 .. n
      OBVIOUS
    <2> HIDE DEF Good, UpToSize, n
    <2>9. QED
      BY <2>6, <2>7, <2>8
  <1> HIDE DEF B
  <1>6. 0 .. n \subseteq B
    BY <1>1, <1>4, <1>5, Upward
  <1>7. PICK f \in [UpToSize(n) -> Nat] : Good(f, n)
    <2>1. n \in B
      BY <1>1, <1>6
    <2> HIDE DEF UpToSize, Good, n
    <2>2. QED
      BY <2>1 DEF B
  <1>8. UpToSize(n) = SUBSET S
    BY <1>2
  <1>9. QED
    BY <1>7, <1>8 DEF AddsAll

SumOf(h) == FoldFunction(+, 0, h)

LEMMA TotalBy ==
  ASSUME NEW S, IsFiniteSet(S), NEW h \in [S -> Nat]
  PROVE  \E f \in [SUBSET S -> Nat] : AddsAll(f, h, S) /\ SumOf(h) = f[S]
  <1> DEFINE Eqn(it) == it = [s \in SUBSET (DOMAIN h) |->
                               IF s = {} THEN 0 ELSE h[Chosen(s)] + it[s \ {Chosen(s)}]]
             it == CHOOSE it : Eqn(it)
  <1>1. SumOf(h) = it[DOMAIN h]
    BY DEF SumOf, FoldFunction, FoldFunctionOnSet, MapThenFoldSet, Chosen
  <1>2. DOMAIN h = S
    OBVIOUS
  <1> HIDE DEF it
  <1>3. PICK f \in [SUBSET S -> Nat] : AddsAll(f, h, S)
    BY SumExists
  <1>4. f = [s \in SUBSET S |-> IF s = {} THEN 0 ELSE h[Chosen(s)] + f[s \ {Chosen(s)}]]
    BY <1>3 DEF AddsAll
  <1>5. Eqn(f)
    BY <1>2, <1>4
  <1>6. Eqn(it)
    BY <1>5 DEF it
  <1>7. \A s \in SUBSET S : it[s] = IF s = {} THEN 0 ELSE h[Chosen(s)] + it[s \ {Chosen(s)}]
    BY <1>2, <1>6
  <1>8. it = [s \in SUBSET S |-> it[s]]
    BY <1>2, <1>6
  <1> HIDE DEF Eqn
  <1> DEFINE F == {s \in SUBSET S : it[s] # f[s]}
  <1>9. F = {}
    <2> SUFFICES ASSUME F # {} PROVE FALSE
      OBVIOUS
    <2>1. PICK s \in F : \A x \in s : s \ {x} \notin F
      BY LeastSet
    <2>2. CASE s = {}
      BY <1>3, <1>7, <2>1, <2>2 DEF AddsAll
    <2>3. CASE s # {}
      <3>1. s \in SUBSET S /\ Chosen(s) \in s /\ s \ {Chosen(s)} \in SUBSET S
        BY <2>3, ChosenIn
      <3>2. it[s \ {Chosen(s)}] = f[s \ {Chosen(s)}]
        BY <2>1, <3>1
      <3>3. QED
        BY <1>3, <1>7, <2>1, <2>3, <3>1, <3>2 DEF AddsAll
    <2>4. QED
      BY <2>2, <2>3
  <1>10. QED
    BY <1>1, <1>2, <1>3, <1>9

(* One more of something is one more of all.                               *)
LEMMA TotalUp ==
  ASSUME NEW S, IsFiniteSet(S), NEW h \in [S -> Nat], NEW p \in S
  PROVE  /\ SumOf(h) \in Nat
         /\ SumOf([h EXCEPT ![p] = @ + 1]) = SumOf(h) + 1
  <1> DEFINE g == [h EXCEPT ![p] = @ + 1]
  <1>1. g \in [S -> Nat] /\ g[p] = h[p] + 1 /\ \A q \in S \ {p} : g[q] = h[q]
    OBVIOUS
  <1> HIDE DEF g
  <1>2. PICK e \in [SUBSET S -> Nat] : AddsAll(e, h, S) /\ SumOf(h) = e[S]
    BY TotalBy
  <1>3. PICK f \in [SUBSET S -> Nat] : AddsAll(f, g, S) /\ SumOf(g) = f[S]
    BY <1>1, TotalBy
  <1> DEFINE F == {s \in SUBSET S : f[s] # e[s] + (IF p \in s THEN 1 ELSE 0)}
  <1>4. F = {}
    <2> SUFFICES ASSUME F # {} PROVE FALSE
      OBVIOUS
    <2>1. PICK s \in F : \A x \in s : s \ {x} \notin F
      BY LeastSet
    <2>2. s \in SUBSET S
      OBVIOUS
    <2>3. CASE s = {}
      <3>1. f[s] = 0 /\ e[s] = 0
        BY <1>2, <1>3, <2>2, <2>3 DEF AddsAll
      <3>2. QED
        BY <2>1, <2>3, <3>1
    <2>4. CASE s # {}
      <3> DEFINE a == Chosen(s)
      <3>1. a \in s /\ s \ {a} \in SUBSET S /\ a \in S
        BY <2>2, <2>4, ChosenIn
      <3>2. f[s] = g[a] + f[s \ {a}] /\ e[s] = h[a] + e[s \ {a}]
        BY <1>2, <1>3, <2>2, <2>4 DEF AddsAll
      <3> HIDE DEF a
      <3>3. f[s \ {a}] = e[s \ {a}] + (IF p \in s \ {a} THEN 1 ELSE 0)
        BY <2>1, <3>1
      <3>4. /\ f[s \ {a}] \in Nat /\ e[s \ {a}] \in Nat /\ h[a] \in Nat /\ g[a] \in Nat
            /\ g[a] = h[a] + (IF p = a THEN 1 ELSE 0)
        BY <1>1, <3>1
      <3>5. CASE p = a
        BY <2>1, <3>1, <3>2, <3>3, <3>4, <3>5
      <3>6. CASE p # a
        BY <2>1, <3>1, <3>2, <3>3, <3>4, <3>6
      <3>7. QED
        BY <3>5, <3>6
    <2>5. QED
      BY <2>3, <2>4
  <1>5. f[S] = e[S] + 1 /\ e[S] \in Nat
    BY <1>4
  <1>6. QED
    BY <1>2, <1>3, <1>5 DEF g

(* What a start can make of what it finds, whatever is left out: values    *)
(* for the tables of its two folds.                                        *)
FirstOf(d) == CHOOSE p \in Places \ d : \A q \in Places \ d : p <= q
Spots == Places \cup {FirstOf(d) : d \in SUBSET Places}
Rests(hid) == {Drops(hid, S) : S \in SUBSET DOMAIN hid}
Texts(vis, hid) ==
  {vis[p] : p \in DOMAIN vis}
    \cup UNION {{Shown(id, h[id].has) : h \in Rests(hid)} : id \in DOMAIN hid}
Shelves(vis, hid) == UNION {[d -> Texts(vis, hid)] : d \in SUBSET Spots}
Stands(vis, hid) ==
  [visible : Shelves(vis, hid), hidden : Rests(hid), hosts : [Places -> Nat]]

LEMMA StandsAre ==
  ASSUME NEW vis, NEW hid, NEW v
  PROVE  v \in Stands(vis, hid) <=>
           /\ v = [visible |-> v.visible, hidden |-> v.hidden, hosts |-> v.hosts]
           /\ v.visible \in Shelves(vis, hid)
           /\ v.hidden \in Rests(hid)
           /\ v.hosts \in [Places -> Nat]
  BY DEF Stands

LEMMA SpotIs ==
  ASSUME NEW f, DOMAIN f \subseteq Spots
  PROVE  uniquePath(f) \in Spots
  <1>1. uniquePath(f) = FirstOf(DOMAIN f)
    BY DEF uniquePath, Vacant, FirstOf
  <1>2. Places \ DOMAIN f = Places \ (DOMAIN f \cap Places)
    OBVIOUS
  <1>3. FirstOf(DOMAIN f) = FirstOf(DOMAIN f \cap Places)
    BY <1>2 DEF FirstOf
  <1>4. DOMAIN f \cap Places \in SUBSET Places
    OBVIOUS
  <1>5. QED
    BY <1>1, <1>3, <1>4 DEF Spots

LEMMA DropsTwice ==
  ASSUME NEW hid, NEW h \in Rests(hid), NEW id \in DOMAIN hid
  PROVE  Drops(h, {id}) \in Rests(hid)
  <1>1. PICK S \in SUBSET DOMAIN hid : h = Drops(hid, S)
    BY DEF Rests
  <1>2. DOMAIN h = DOMAIN hid \ S /\ \A y \in DOMAIN h : h[y] = hid[y]
    BY <1>1 DEF Drops
  <1>3. Drops(h, {id}) = Drops(hid, S \cup {id})
    BY <1>2 DEF Drops
  <1>4. QED
    BY <1>3 DEF Rests

LEMMA PutIn ==
  ASSUME NEW D, NEW X, NEW f \in UNION {[d -> X] : d \in SUBSET D}, NEW p \in D, NEW x \in X
  PROVE  Put(f, p, x) \in UNION {[d -> X] : d \in SUBSET D}
  <1>1. PICK d \in SUBSET D : f \in [d -> X]
    OBVIOUS
  <1>2. Put(f, p, x) \in [d \cup {p} -> X]
    BY <1>1 DEF Put
  <1>3. QED
    BY <1>2

LEMMA OneMore ==
  ASSUME NEW h \in [Places -> Nat], NEW p
  PROVE  [h EXCEPT ![p] = @ + 1] \in [Places -> Nat]
  <1>1. CASE p \in Places
    BY <1>1
  <1>2. CASE p \notin Places
    <2>1. [h EXCEPT ![p] = @ + 1] = h
      BY <1>2
    <2>2. QED
      BY <2>1
  <1>3. QED
    BY <1>1, <1>2

LEMMA RelistIn ==
  ASSUME NEW vis, NEW hid, NEW v \in Stands(vis, hid), NEW g, NEW p \in Places
  PROVE  Relist(g, v, p) \in Stands(vis, hid)
  <1> DEFINE w == [v EXCEPT !.hosts[p] = @ + 1]
  <1>1. /\ v = [visible |-> v.visible, hidden |-> v.hidden, hosts |-> v.hosts]
        /\ v.visible \in Shelves(vis, hid) /\ v.hidden \in Rests(hid)
        /\ v.hosts \in [Places -> Nat]
    BY StandsAre
  <1>2. w = [visible |-> v.visible, hidden |-> v.hidden, hosts |-> [v.hosts EXCEPT ![p] = @ + 1]]
    <2>1. v = [visible |-> v.visible, hidden |-> v.hidden, hosts |-> v.hosts]
      BY <1>1
    <2>2. p \in Places /\ v.hosts \in [Places -> Nat]
      BY <1>1
    <2>3. QED
      BY ONLY <2>1, <2>2
  <1>3. [v.hosts EXCEPT ![p] = @ + 1] \in [Places -> Nat]
    BY <1>1, OneMore
  <1>4. w \in Stands(vis, hid)
    BY <1>1, <1>2, <1>3 DEF Stands
  <1> HIDE DEF w
  <1>5. Relist(g, v, p) = IF registryFull(g, v.hosts) THEN v ELSE w
    BY DEF Relist, w
  <1>6. QED
    BY <1>4, <1>5

LEMMA AdoptIn ==
  ASSUME NEW vis, NEW hid, NEW v \in Stands(vis, hid), NEW g, NEW stuck, NEW id \in DOMAIN hid
  PROVE  Adopt(g, stuck, v, id) \in Stands(vis, hid)
  <1> DEFINE p == uniquePath(v.visible)
             x == Shown(id, v.hidden[id].has)
             w == [visible |-> Put(v.visible, p, x),
                   hidden  |-> Drops(v.hidden, {id}),
                   hosts   |-> [v.hosts EXCEPT ![p] = @ + 1]]
  <1>1. /\ v.visible \in Shelves(vis, hid) /\ v.hidden \in Rests(hid)
        /\ v.hosts \in [Places -> Nat]
    BY StandsAre
  <1>2. p \in Spots
    <2>1. DOMAIN v.visible \subseteq Spots
      BY <1>1 DEF Shelves
    <2>2. QED
      BY <2>1, SpotIs
  <1>3. x \in Texts(vis, hid)
    <2>1. x \in {Shown(id, h[id].has) : h \in Rests(hid)}
      BY <1>1
    <2> HIDE DEF x
    <2>2. QED
      BY <2>1 DEF Texts
  <1>4. Drops(v.hidden, {id}) \in Rests(hid)
    BY <1>1, DropsTwice
  <1> HIDE DEF p, x
  <1>5. Put(v.visible, p, x) \in Shelves(vis, hid)
    BY <1>1, <1>2, <1>3, PutIn DEF Shelves
  <1>6. [v.hosts EXCEPT ![p] = @ + 1] \in [Places -> Nat]
    BY <1>1, OneMore
  <1>7. w \in Stands(vis, hid)
    BY <1>4, <1>5, <1>6 DEF Stands
  <1> HIDE DEF w
  <1>8. Adopt(g, stuck, v, id) = v \/ Adopt(g, stuck, v, id) = w
    BY DEF Adopt, w, p, x
  <1>9. QED
    BY <1>7, <1>8

(* The folds of a start by their steps.                                    *)
Relists(g, s, a) == FoldLeft(LAMBDA x, p : Relist(g, x, p), s, a)
Adopts(g, stuck, s, b) == FoldLeft(LAMBDA x, id : Adopt(g, stuck, x, id), s, b)

RelistTable(t, vis, hid, g, s, a, n) ==
  /\ \A k \in 0 .. n : t[k] \in Stands(vis, hid)
  /\ t[0] = s
  /\ \A k \in 1 .. n : t[k] = Relist(g, t[k - 1], a[k])

LEMMA RelistSteps ==
  ASSUME NEW vis, NEW hid, NEW s \in Stands(vis, hid), NEW g,
         NEW n \in Nat, NEW a \in [1 .. n -> Places]
  PROVE  \E t : /\ RelistTable(t, vis, hid, g, s, a, n)
                /\ Relists(g, s, a) = t[n]
  <1> DEFINE V == Stands(vis, hid)
             G == [k \in 1 .. n |-> [v \in V |-> Relist(g, v, a[k])]]
             Eqn(it) == it = [x \in SUBSET (DOMAIN a) |->
                               IF x = {} THEN s ELSE Relist(g, it[x \ {Max(x)}], a[Max(x)])]
             it == CHOOSE it : Eqn(it)
  <1>1. \A v \in V, k \in 1 .. n : Relist(g, v, a[k]) \in V
    BY RelistIn
  <1> HIDE DEF V
  <1>2. Maps(G, n, V) /\ \A k \in 1 .. n, v \in V : G[k][v] = Relist(g, v, a[k])
    BY <1>1 DEF Maps
  <1>3. Relists(g, s, a) = it[1 .. n]
    BY DEF Relists, FoldLeft, MapThenFoldSet
  <1>4. DOMAIN a = 1 .. n /\ s \in V
    BY DEF V
  <1> HIDE DEF G, it
  <1>5. \A x \in SUBSET (1 .. n) : x # {} => Max(x) \in 1 .. n
    BY MaxIn
  <1>6. PICK h \in [SUBSET (1 .. n) -> V] : Folds(h, n, s, G)
    BY <1>2, <1>4, FoldExists
  <1>7. \A x \in SUBSET (1 .. n) :
          h[x] = IF x = {} THEN s ELSE Relist(g, h[x \ {Max(x)}], a[Max(x)])
    <2>1. \A x \in SUBSET (1 .. n) : h[x \ {Max(x)}] \in V
      OBVIOUS
    <2>2. \A x \in SUBSET (1 .. n) :
            h[x] = IF x = {} THEN s ELSE G[Max(x)][h[x \ {Max(x)}]]
      BY <1>6 DEF Folds
    <2>3. QED
      BY <1>2, <1>5, <2>1, <2>2
  <1>8. Eqn(it)
    BY <1>4, <1>7 DEF it
  <1>9. Iterates(it, V, n, s, G)
    <2>1. \A x \in SUBSET (1 .. n) :
            it[x] = IF x = {} THEN s ELSE Relist(g, it[x \ {Max(x)}], a[Max(x)])
      BY <1>4, <1>8
    <2> HIDE DEF Eqn
    <2>2. it[{}] = s
      BY <2>1
    <2>3. \A x \in SUBSET (1 .. n) :
            x # {} /\ it[x \ {Max(x)}] \in V => it[x] = G[Max(x)][it[x \ {Max(x)}]]
      BY <1>2, <1>5, <2>1
    <2>4. QED
      BY <2>2, <2>3 DEF Iterates
  <1> HIDE DEF Eqn
  <1>10. PICK t : Table(t, V, n, s, G) /\ it[1 .. n] = t[n]
    BY <1>2, <1>4, <1>9, FoldTable
  <1>11. /\ \A k \in 0 .. n : t[k] \in V
         /\ t[0] = s
         /\ \A k \in 1 .. n : t[k] = G[k][t[k - 1]]
    BY <1>10 DEF Table
  <1>12. \A k \in 1 .. n : k - 1 \in 0 .. n
    OBVIOUS
  <1>13. \A k \in 1 .. n : t[k] = Relist(g, t[k - 1], a[k])
    BY <1>2, <1>11, <1>12
  <1>14. QED
    BY <1>3, <1>10, <1>11, <1>13 DEF RelistTable, V

AdoptTable(t, vis, hid, g, stuck, s, b, n) ==
  /\ \A k \in 0 .. n : t[k] \in Stands(vis, hid)
  /\ t[0] = s
  /\ \A k \in 1 .. n : t[k] = Adopt(g, stuck, t[k - 1], b[k])

LEMMA AdoptSteps ==
  ASSUME NEW vis, NEW hid, NEW s \in Stands(vis, hid), NEW g, NEW stuck,
         NEW n \in Nat, NEW b \in [1 .. n -> DOMAIN hid]
  PROVE  \E t : /\ AdoptTable(t, vis, hid, g, stuck, s, b, n)
                /\ Adopts(g, stuck, s, b) = t[n]
  <1> DEFINE V == Stands(vis, hid)
             G == [k \in 1 .. n |-> [v \in V |-> Adopt(g, stuck, v, b[k])]]
             Eqn(it) == it = [x \in SUBSET (DOMAIN b) |->
                               IF x = {} THEN s ELSE Adopt(g, stuck, it[x \ {Max(x)}], b[Max(x)])]
             it == CHOOSE it : Eqn(it)
  <1>1. \A v \in V, k \in 1 .. n : Adopt(g, stuck, v, b[k]) \in V
    BY AdoptIn
  <1> HIDE DEF V
  <1>2. Maps(G, n, V) /\ \A k \in 1 .. n, v \in V : G[k][v] = Adopt(g, stuck, v, b[k])
    BY <1>1 DEF Maps
  <1>3. Adopts(g, stuck, s, b) = it[1 .. n]
    BY DEF Adopts, FoldLeft, MapThenFoldSet
  <1>4. DOMAIN b = 1 .. n /\ s \in V
    BY DEF V
  <1> HIDE DEF G, it
  <1>5. \A x \in SUBSET (1 .. n) : x # {} => Max(x) \in 1 .. n
    BY MaxIn
  <1>6. PICK h \in [SUBSET (1 .. n) -> V] : Folds(h, n, s, G)
    BY <1>2, <1>4, FoldExists
  <1>7. \A x \in SUBSET (1 .. n) :
          h[x] = IF x = {} THEN s ELSE Adopt(g, stuck, h[x \ {Max(x)}], b[Max(x)])
    <2>1. \A x \in SUBSET (1 .. n) : h[x \ {Max(x)}] \in V
      OBVIOUS
    <2>2. \A x \in SUBSET (1 .. n) :
            h[x] = IF x = {} THEN s ELSE G[Max(x)][h[x \ {Max(x)}]]
      BY <1>6 DEF Folds
    <2>3. QED
      BY <1>2, <1>5, <2>1, <2>2
  <1>8. Eqn(it)
    BY <1>4, <1>7 DEF it
  <1>9. Iterates(it, V, n, s, G)
    <2>1. \A x \in SUBSET (1 .. n) :
            it[x] = IF x = {} THEN s ELSE Adopt(g, stuck, it[x \ {Max(x)}], b[Max(x)])
      BY <1>4, <1>8
    <2> HIDE DEF Eqn
    <2>2. it[{}] = s
      BY <2>1
    <2>3. \A x \in SUBSET (1 .. n) :
            x # {} /\ it[x \ {Max(x)}] \in V => it[x] = G[Max(x)][it[x \ {Max(x)}]]
      BY <1>2, <1>5, <2>1
    <2>4. QED
      BY <2>2, <2>3 DEF Iterates
  <1> HIDE DEF Eqn
  <1>10. PICK t : Table(t, V, n, s, G) /\ it[1 .. n] = t[n]
    BY <1>2, <1>4, <1>9, FoldTable
  <1>11. /\ \A k \in 0 .. n : t[k] \in V
         /\ t[0] = s
         /\ \A k \in 1 .. n : t[k] = G[k][t[k - 1]]
    BY <1>10 DEF Table
  <1>12. \A k \in 1 .. n : k - 1 \in 0 .. n
    OBVIOUS
  <1>13. \A k \in 1 .. n : t[k] = Adopt(g, stuck, t[k - 1], b[k])
    BY <1>2, <1>11, <1>12
  <1>14. QED
    BY <1>3, <1>10, <1>11, <1>13 DEF AdoptTable, V

(* Whoever lists all of a finite set has as many names as it has elements. *)
LEMMA OrderIs ==
  ASSUME NEW S, IsFiniteSet(S), NEW a \in SetToSeqs(S)
  PROVE  \E n \in Nat : /\ n = Cardinality(S)
                        /\ a \in [1 .. n -> S]
                        /\ \A i, j \in 1 .. n : i # j => a[i] # a[j]
                        /\ \A x \in S : \E i \in 1 .. n : a[i] = x
  <1> DEFINE n == Cardinality(S)
  <1>1. n \in Nat
    BY FS_CardinalityType
  <1>2. a \in [1 .. n -> S] /\ \A i, j \in 1 .. n : i # j => a[i] # a[j]
    BY DEF SetToSeqs
  <1>3. a \in Injection(1 .. n, S)
    BY <1>2 DEF Injection, IsInjective
  <1>4. Cardinality(1 .. n) = n
    BY <1>1, FS_Interval
  <1>5. a \in Surjection(1 .. n, S)
    BY <1>3, <1>4, FS_Injection
  <1>6. \A x \in S : \E i \in 1 .. n : a[i] = x
    BY <1>5 DEF Surjection
  <1>7. QED
    BY <1>1, <1>2, <1>6

(* A registry that is full stays full when another path is listed.         *)
LEMMA PlacesFinite == IsFiniteSet(Places)
  BY RestoreAssumption, FS_Interval DEF Places

LEMMA FullStays ==
  ASSUME NEW g, DOMAIN g \subseteq Guests, NEW h \in [Places -> Nat], NEW p \in Places,
         registryFull(g, h)
  PROVE  registryFull(g, [h EXCEPT ![p] = @ + 1])
  <1> DEFINE i == [h EXCEPT ![p] = @ + 1]
             c == Cardinality(DOMAIN g)
  <1>1. c \in Nat
    BY RestoreAssumption, FS_Subset, FS_CardinalityType
  <1>2. SumOf(h) \in Nat /\ SumOf(i) = SumOf(h) + 1
    BY PlacesFinite, TotalUp
  <1>3. Entered(g, h) = c + SumOf(h) /\ Entered(g, i) = c + SumOf(i)
    BY DEF Entered, SumOf
  <1> HIDE DEF c, i
  <1>4. c + SumOf(h) >= listMax
    BY <1>3 DEF registryFull
  <1>5. c + SumOf(i) >= listMax
    BY <1>1, <1>2, <1>4, RestoreAssumption
  <1>6. QED
    BY <1>3, <1>5 DEF registryFull, i

(* The first name that is free is one of the free names.                   *)
LEMMA VacantOf ==
  ASSUME NEW f, DOMAIN f \subseteq Places
  PROVE  /\ IsFiniteSet(Vacant(f)) /\ Cardinality(Vacant(f)) \in Nat
         /\ Vacant(f) # {} => uniquePath(f) \in Vacant(f)
         /\ Cardinality(Vacant(f)) > 0 => Vacant(f) # {}
  <1>1. IsFiniteSet(Vacant(f)) /\ Cardinality(Vacant(f)) \in Nat
    BY PlacesFinite, FS_Subset, FS_CardinalityType DEF Vacant
  <1>2. Cardinality(Vacant(f)) > 0 => Vacant(f) # {}
    BY FS_EmptySet
  <1>3. ASSUME Vacant(f) # {} PROVE uniquePath(f) \in Vacant(f)
    <2>1. Vacant(f) \subseteq Nat
      BY RestoreAssumption DEF Vacant, Places
    <2>2. PICK v \in Vacant(f) : \A q \in Vacant(f) : v <= q
      <3>1. PICK v \in Vacant(f) : \A q \in Vacant(f) : <<q, v>> \notin OpToRel(<, Nat)
        BY <1>3, <2>1, NatLessThanWellFounded, WFMin
      <3>2. \A q \in Vacant(f) : ~(q < v)
        BY <2>1, <3>1 DEF OpToRel
      <3>3. QED
        BY <2>1, <3>2
    <2>3. QED
      BY <2>2 DEF uniquePath
  <1>4. QED
    BY <1>1, <1>2, <1>3

(* While the visible files are listed nothing else changes, and a first    *)
(* start lists each once.                                                  *)
ListedOnce(h, S) == \A p \in Places : h[p] = IF p \in S THEN 1 ELSE 0

LEMMA RelistKeeps ==
  ASSUME NEW vis, NEW hid, NEW g, DOMAIN g \subseteq Guests, DOMAIN vis \subseteq Places,
         NEW s \in Stands(vis, hid), s.visible = vis, s.hidden = hid,
         NEW a \in SetToSeqs(DOMAIN vis)
  PROVE  LET r == Relists(g, s, a) IN
           /\ r \in Stands(vis, hid) /\ r.visible = vis /\ r.hidden = hid
           /\ ListedOnce(s.hosts, {}) => registryFull(g, r.hosts) \/ ListedOnce(r.hosts, DOMAIN vis)
  <1>1. IsFiniteSet(DOMAIN vis)
    BY PlacesFinite, FS_Subset
  <1>2. PICK n \in Nat : /\ a \in [1 .. n -> DOMAIN vis]
                         /\ \A i, j \in 1 .. n : i # j => a[i] # a[j]
                         /\ \A x \in DOMAIN vis : \E i \in 1 .. n : a[i] = x
    BY <1>1, OrderIs
  <1>3. a \in [1 .. n -> Places]
    BY <1>2
  <1>4. PICK t : /\ RelistTable(t, vis, hid, g, s, a, n)
                 /\ Relists(g, s, a) = t[n]
    BY <1>3, RelistSteps
  <1> DEFINE Seen(k) == {a[i] : i \in 1 .. k}
             Good(k) == /\ t[k].visible = vis /\ t[k].hidden = hid
                        /\ ListedOnce(s.hosts, {}) =>
                             registryFull(g, t[k].hosts) \/ ListedOnce(t[k].hosts, Seen(k))
             B == {k \in 0 .. n : Good(k)}
  <1>5. /\ \A k \in 0 .. n : t[k] \in Stands(vis, hid)
        /\ t[0] = s
        /\ \A k \in 1 .. n : t[k] = Relist(g, t[k - 1], a[k])
    BY <1>4 DEF RelistTable
  <1>6. Good(0)
    <2>1. Seen(0) = {}
      OBVIOUS
    <2> HIDE DEF Seen
    <2>2. QED
      BY <1>5, <2>1
  <1>7. ASSUME NEW k \in 1 .. n, Good(k - 1) PROVE Good(k)
    <2> DEFINE v == t[k - 1]
               w == [v EXCEPT !.hosts[a[k]] = @ + 1]
               h == v.hosts
               i == [h EXCEPT ![a[k]] = @ + 1]
    <2>1. k - 1 \in 0 .. n /\ a[k] \in Places
      BY <1>3
    <2>2. v = [visible |-> v.visible, hidden |-> v.hidden, hosts |-> h] /\ h \in [Places -> Nat]
      BY <1>5, <2>1, StandsAre
    <2>3. t[k] = IF registryFull(g, h) THEN v ELSE w
      BY <1>5 DEF Relist
    <2>4. w = [visible |-> v.visible, hidden |-> v.hidden, hosts |-> i]
      BY ONLY <2>1, <2>2
    <2> HIDE DEF w
    <2>5. t[k].visible = vis /\ t[k].hidden = hid
      BY <1>7, <2>3, <2>4
    <2>6. CASE registryFull(g, h)
      BY <1>7, <2>3, <2>5, <2>6
    <2>7. CASE ~registryFull(g, h)
      <3>1. t[k].hosts = i
        BY <2>3, <2>4, <2>7
      <3>2. ASSUME ListedOnce(s.hosts, {}) PROVE ListedOnce(i, Seen(k))
        <4>1. ListedOnce(h, Seen(k - 1))
          BY <1>7, <2>7, <3>2
        <4>2. Seen(k) = Seen(k - 1) \cup {a[k]}
          <5>1. 1 .. k = (1 .. k - 1) \cup {k}
            OBVIOUS
          <5>2. QED
            BY <5>1
        <4>3. a[k] \notin Seen(k - 1)
          BY <1>2
        <4> HIDE DEF Seen, h, v
        <4>4. \A p \in Places : i[p] = IF p = a[k] THEN h[p] + 1 ELSE h[p]
          BY <2>2
        <4> HIDE DEF i
        <4>5. QED
          BY <4>1, <4>2, <4>3, <4>4 DEF ListedOnce
      <3> HIDE DEF Seen, i
      <3>3. QED
        BY <2>5, <3>1, <3>2
    <2>8. QED
      BY <2>6, <2>7
  <1> HIDE DEF Good
  <1>8. n \in B
    <2>1. 0 \in B /\ \A k \in 1 .. n : k - 1 \in B => k \in B
      BY <1>6, <1>7
    <2> HIDE DEF B
    <2>2. QED
      BY <2>1, Upward
  <1>9. Seen(n) = DOMAIN vis
    <2>1. Seen(n) \subseteq DOMAIN vis
      BY <1>2
    <2>2. DOMAIN vis \subseteq Seen(n)
      BY <1>2
    <2>3. QED
      BY <2>1, <2>2
  <1>10. Good(n)
    BY <1>8
  <1> HIDE DEF Seen
  <1>11. n \in 0 .. n
    OBVIOUS
  <1>12. QED
    BY <1>4, <1>5, <1>9, <1>10, <1>11 DEF Good

(* Why a hidden file stays where it is, and where one that does not is.    *)
Stays(g, stuck, hid, h, id) ==
  Belongs(g, id) \/ hid[id].has = "" \/ registryFull(g, h) \/ id \in stuck
Shows(v, vis, hid, id) ==
  \E p \in DOMAIN v.visible \ DOMAIN vis :
    v.visible[p] = Shown(id, hid[id].has) /\ v.hosts[p] > 0
Moved(v, w, hid, id, p) ==
  /\ w.visible = Put(v.visible, p, Shown(id, hid[id].has))
  /\ w.hidden = Drops(v.hidden, {id})
  /\ w.hosts = [v.hosts EXCEPT ![p] = @ + 1]

LEMMA StillHidden ==
  ASSUME NEW vis, NEW hid, NEW v \in Stands(vis, hid)
  PROVE  \A id \in DOMAIN v.hidden : id \in DOMAIN hid /\ v.hidden[id] = hid[id]
  <1>1. v.hidden \in Rests(hid)
    BY StandsAre
  <1>2. PICK S \in SUBSET DOMAIN hid : v.hidden = Drops(hid, S)
    BY <1>1 DEF Rests
  <1>3. QED
    BY <1>2 DEF Drops

LEMMA AdoptIs ==
  ASSUME NEW vis, NEW hid, NEW v \in Stands(vis, hid), NEW g, NEW stuck,
         DOMAIN v.visible \subseteq Places, Cardinality(Vacant(v.visible)) > 0,
         NEW id \in DOMAIN v.hidden
  PROVE  LET w == Adopt(g, stuck, v, id) IN
           \/ w = v /\ Stays(g, stuck, hid, v.hosts, id)
           \/ \E p \in Vacant(v.visible) : Moved(v, w, hid, id, p)
  <1> DEFINE p == uniquePath(v.visible)
             w == [visible |-> Put(v.visible, p, Shown(id, hid[id].has)),
                   hidden  |-> Drops(v.hidden, {id}),
                   hosts   |-> [v.hosts EXCEPT ![p] = @ + 1]]
  <1>1. v.hidden[id] = hid[id]
    BY StillHidden
  <1>2. p \in Vacant(v.visible)
    BY VacantOf
  <1>3. Adopt(g, stuck, v, id) = IF Stays(g, stuck, hid, v.hosts, id) THEN v ELSE w
    BY <1>1 DEF Adopt, Stays
  <1> HIDE DEF p
  <1>4. Moved(v, w, hid, id, p)
    BY DEF Moved
  <1> HIDE DEF w
  <1>5. QED
    BY <1>2, <1>3, <1>4

(* After some files of those in the order b.                               *)
Room(v, m) == DOMAIN v.visible \subseteq Places /\ m <= Cardinality(Vacant(v.visible))
Grown(v, vis) == \A p \in DOMAIN vis : p \in DOMAIN v.visible /\ v.visible[p] = vis[p]
Decided(v, vis, hid, g, stuck, b, k) ==
  \A j \in 1 .. k : IF b[j] \in DOMAIN v.hidden
                    THEN Stays(g, stuck, hid, v.hosts, b[j])
                    ELSE Shows(v, vis, hid, b[j])
Waiting(v, b, k, n) == \A j \in k + 1 .. n : b[j] \in DOMAIN v.hidden
Fully(s, v) == ListedOnce(s.hosts, DOMAIN s.visible) => ListedOnce(v.hosts, DOMAIN v.visible)

Adopted(v, w, hid, id, p) ==
  /\ p \in Places /\ p \notin DOMAIN v.visible
  /\ DOMAIN w.visible = DOMAIN v.visible \cup {p}
  /\ \A q \in DOMAIN v.visible : w.visible[q] = v.visible[q]
  /\ w.visible[p] = Shown(id, hid[id].has)
  /\ DOMAIN w.hidden = DOMAIN v.hidden \ {id}
  /\ w.hosts[p] = v.hosts[p] + 1 /\ w.hosts[p] > 0
  /\ \A q \in Places \ {p} : w.hosts[q] = v.hosts[q]
  /\ Cardinality(Vacant(w.visible)) = Cardinality(Vacant(v.visible)) - 1

LEMMA MovedFacts ==
  ASSUME NEW vis, NEW hid, NEW v \in Stands(vis, hid), DOMAIN v.visible \subseteq Places,
         NEW id \in DOMAIN v.hidden, NEW p \in Vacant(v.visible), NEW w, Moved(v, w, hid, id, p)
  PROVE  Adopted(v, w, hid, id, p)
  <1>1. p \in Places /\ p \notin DOMAIN v.visible
    BY DEF Vacant
  <1>2. v.hosts \in [Places -> Nat]
    BY StandsAre
  <1>3. w.hosts[p] = v.hosts[p] + 1 /\ w.hosts[p] > 0 /\ \A q \in Places \ {p} : w.hosts[q] = v.hosts[q]
    BY <1>1, <1>2 DEF Moved
  <1>4. /\ DOMAIN w.visible = DOMAIN v.visible \cup {p}
        /\ \A q \in DOMAIN v.visible : w.visible[q] = v.visible[q]
        /\ w.visible[p] = Shown(id, hid[id].has)
    BY <1>1 DEF Moved, Put
  <1>5. DOMAIN w.hidden = DOMAIN v.hidden \ {id}
    BY DEF Moved, Drops
  <1>6. Vacant(w.visible) = Vacant(v.visible) \ {p}
    BY <1>4 DEF Vacant
  <1>7. Cardinality(Vacant(w.visible)) = Cardinality(Vacant(v.visible)) - 1
    BY <1>6, VacantOf, FS_RemoveElement
  <1>8. QED
    BY <1>1, <1>3, <1>4, <1>5, <1>7 DEF Adopted

LEMMA DecidedOn ==
  ASSUME NEW vis, NEW hid, NEW v \in Stands(vis, hid), NEW g, NEW stuck, NEW s,
         NEW n \in Nat, NEW k \in 1 .. n, NEW b \in [1 .. n -> DOMAIN hid],
         DOMAIN g \subseteq Guests,
         \A i, j \in 1 .. n : i # j => b[i] # b[j],
         Room(v, n - (k - 1)), Grown(v, vis), Waiting(v, b, k - 1, n), Fully(s, v),
         Decided(v, vis, hid, g, stuck, b, k - 1),
         registryFull(g, s.hosts) => registryFull(g, v.hosts)
  PROVE  LET w == Adopt(g, stuck, v, b[k]) IN
           /\ Room(w, n - k) /\ Grown(w, vis) /\ Waiting(w, b, k, n) /\ Fully(s, w)
           /\ Decided(w, vis, hid, g, stuck, b, k)
           /\ registryFull(g, s.hosts) => registryFull(g, w.hosts)
  <1> DEFINE w == Adopt(g, stuck, v, b[k])
  <1>1. b[k] \in DOMAIN v.hidden
    BY DEF Waiting
  <1>2. DOMAIN v.visible \subseteq Places /\ n - (k - 1) <= Cardinality(Vacant(v.visible))
    BY DEF Room
  <1>3. Cardinality(Vacant(v.visible)) \in Nat
    BY <1>2, VacantOf
  <1>4. Cardinality(Vacant(v.visible)) > 0 /\ n - k <= Cardinality(Vacant(v.visible)) - 1
    <2> DEFINE c == Cardinality(Vacant(v.visible))
    <2> HIDE DEF c
    <2>1. c \in Nat /\ n - (k - 1) <= c
      BY <1>2, <1>3 DEF c
    <2>2. c > 0 /\ n - k <= c - 1
      BY <2>1
    <2>3. QED
      BY <2>2 DEF c
  <1>5. \/ w = v /\ Stays(g, stuck, hid, v.hosts, b[k])
        \/ \E p \in Vacant(v.visible) : Moved(v, w, hid, b[k], p)
    BY <1>1, <1>2, <1>4, AdoptIs
  <1>6. \A j \in 1 .. k : j = k \/ j \in 1 .. (k - 1)
    OBVIOUS
  <1>7. (k + 1) .. n \subseteq ((k - 1) + 1) .. n
    OBVIOUS
  <1> HIDE DEF w
  <1>8. CASE w = v /\ Stays(g, stuck, hid, v.hosts, b[k])
    <2>1. Room(v, n - k)
      <3> DEFINE c == Cardinality(Vacant(v.visible))
      <3> HIDE DEF c
      <3>1. c \in Nat /\ n - k <= c - 1
        BY <1>3, <1>4 DEF c
      <3>2. n - k <= c
        BY <3>1
      <3>3. QED
        BY <1>2, <3>2 DEF Room, c
    <2>2. Waiting(v, b, k, n)
      BY <1>7 DEF Waiting
    <2>3. Decided(v, vis, hid, g, stuck, b, k)
      BY <1>1, <1>6, <1>8 DEF Decided
    <2>4. QED
      BY <1>8, <2>1, <2>2, <2>3 DEF w
  <1>9. CASE \E p \in Vacant(v.visible) : Moved(v, w, hid, b[k], p)
    <2>1. PICK p \in Vacant(v.visible) : Moved(v, w, hid, b[k], p)
      BY <1>9
    <2>2. /\ p \in Places /\ p \notin DOMAIN v.visible
          /\ DOMAIN w.visible = DOMAIN v.visible \cup {p}
          /\ \A q \in DOMAIN v.visible : w.visible[q] = v.visible[q]
          /\ w.visible[p] = Shown(b[k], hid[b[k]].has)
          /\ DOMAIN w.hidden = DOMAIN v.hidden \ {b[k]}
          /\ w.hosts[p] = v.hosts[p] + 1 /\ w.hosts[p] > 0
          /\ \A q \in Places \ {p} : w.hosts[q] = v.hosts[q]
          /\ Cardinality(Vacant(w.visible)) = Cardinality(Vacant(v.visible)) - 1
      <3>1. Adopted(v, w, hid, b[k], p)
        BY <1>1, <1>2, <2>1, MovedFacts
      <3>2. QED
        BY <3>1 DEF Adopted
    <2>3. Room(w, n - k)
      BY <1>2, <1>4, <2>2 DEF Room
    <2>4. Grown(w, vis)
      BY <2>2 DEF Grown
    <2>5. Waiting(w, b, k, n)
      <3> SUFFICES ASSUME NEW j \in (k + 1) .. n PROVE b[j] \in DOMAIN w.hidden
        BY DEF Waiting
      <3>1. j \in 1 .. n /\ j # k
        OBVIOUS
      <3>2. b[j] \in DOMAIN v.hidden
        BY <1>7 DEF Waiting
      <3>3. b[j] # b[k]
        BY <3>1
      <3>4. QED
        BY <2>2, <3>2, <3>3
    <2>6. v.hosts \in [Places -> Nat] /\ w.hosts = [v.hosts EXCEPT ![p] = @ + 1]
      BY <2>1, StandsAre DEF Moved
    <2>7. Fully(s, w)
      <3> SUFFICES ASSUME ListedOnce(s.hosts, DOMAIN s.visible)
                   PROVE  ListedOnce(w.hosts, DOMAIN w.visible)
        BY DEF Fully
      <3>1. ListedOnce(v.hosts, DOMAIN v.visible)
        BY DEF Fully
      <3>2. QED
        BY <2>2, <3>1 DEF ListedOnce
    <2>8. registryFull(g, v.hosts) => registryFull(g, w.hosts)
      BY <2>2, <2>6, FullStays
    <2>9. Decided(w, vis, hid, g, stuck, b, k)
      <3> SUFFICES ASSUME NEW j \in 1 .. k
                   PROVE  IF b[j] \in DOMAIN w.hidden
                          THEN Stays(g, stuck, hid, w.hosts, b[j])
                          ELSE Shows(w, vis, hid, b[j])
        BY DEF Decided
      <3>1. CASE j = k
        <4>1. p \notin DOMAIN vis
          BY <2>2 DEF Grown
        <4>2. Shows(w, vis, hid, b[k])
          BY <2>2, <4>1 DEF Shows
        <4>3. QED
          BY <2>2, <3>1, <4>2
      <3>2. CASE j \in 1 .. (k - 1)
        <4>1. IF b[j] \in DOMAIN v.hidden
              THEN Stays(g, stuck, hid, v.hosts, b[j])
              ELSE Shows(v, vis, hid, b[j])
          BY <3>2 DEF Decided
        <4>2. Stays(g, stuck, hid, v.hosts, b[j]) => Stays(g, stuck, hid, w.hosts, b[j])
          BY <2>8 DEF Stays
        <4>3. ASSUME Shows(v, vis, hid, b[j]) PROVE Shows(w, vis, hid, b[j])
          <5>1. PICK q \in DOMAIN v.visible \ DOMAIN vis :
                  v.visible[q] = Shown(b[j], hid[b[j]].has) /\ v.hosts[q] > 0
            BY <4>3 DEF Shows
          <5>2. q \in Places \ {p} /\ q \in DOMAIN w.visible \ DOMAIN vis
            BY <1>2, <2>2
          <5>3. w.visible[q] = Shown(b[j], hid[b[j]].has) /\ w.hosts[q] > 0
            BY <2>2, <5>1, <5>2
          <5>4. QED
            BY <5>2, <5>3 DEF Shows
        <4>4. b[j] # b[k]
          <5>1. j \in 1 .. n /\ j # k
            BY <3>2
          <5>2. QED
            BY <5>1
        <4>5. b[j] \in DOMAIN w.hidden <=> b[j] \in DOMAIN v.hidden
          BY <2>2, <4>4
        <4>6. QED
          BY <4>1, <4>2, <4>3, <4>5
      <3>3. QED
        BY <1>6, <3>1, <3>2
    <2>10. QED
      BY <2>3, <2>4, <2>5, <2>7, <2>8, <2>9 DEF w
  <1>10. QED
    BY <1>5, <1>8, <1>9

LEMMA AdoptKeeps ==
  ASSUME NEW vis, NEW hid, NEW g, NEW stuck, DOMAIN g \subseteq Guests,
         DOMAIN hid \subseteq Guests, NEW s \in Stands(vis, hid), s.visible = vis, s.hidden = hid,
         DOMAIN vis \subseteq Places, Cardinality(DOMAIN hid) <= Cardinality(Vacant(vis)),
         NEW b \in SetToSeqs(DOMAIN hid)
  PROVE  LET r == Adopts(g, stuck, s, b) IN
           /\ r \in Stands(vis, hid) /\ DOMAIN r.visible \subseteq Places /\ Grown(r, vis)
           /\ Fully(s, r)
           /\ registryFull(g, s.hosts) => registryFull(g, r.hosts)
           /\ \A id \in DOMAIN hid : IF id \in DOMAIN r.hidden
                                     THEN Stays(g, stuck, hid, r.hosts, id)
                                     ELSE Shows(r, vis, hid, id)
  <1>1. IsFiniteSet(DOMAIN hid)
    BY RestoreAssumption, FS_Subset
  <1>2. PICK n \in Nat : /\ n = Cardinality(DOMAIN hid)
                         /\ b \in [1 .. n -> DOMAIN hid]
                         /\ \A i, j \in 1 .. n : i # j => b[i] # b[j]
                         /\ \A x \in DOMAIN hid : \E i \in 1 .. n : b[i] = x
    BY <1>1, OrderIs
  <1>3. PICK t : AdoptTable(t, vis, hid, g, stuck, s, b, n) /\ Adopts(g, stuck, s, b) = t[n]
    BY <1>2, AdoptSteps
  <1>4. /\ \A k \in 0 .. n : t[k] \in Stands(vis, hid)
        /\ t[0] = s
        /\ \A k \in 1 .. n : t[k] = Adopt(g, stuck, t[k - 1], b[k])
    BY <1>3 DEF AdoptTable
  <1> DEFINE Good(v, k) == /\ Room(v, n - k) /\ Grown(v, vis) /\ Waiting(v, b, k, n) /\ Fully(s, v)
                           /\ Decided(v, vis, hid, g, stuck, b, k)
                           /\ registryFull(g, s.hosts) => registryFull(g, v.hosts)
             B == {k \in 0 .. n : Good(t[k], k)}
  <1>5. Good(s, 0)
    <2>1. n - 0 = n /\ 1 .. 0 = {}
      BY <1>2
    <2>2. Room(s, n - 0)
      BY <1>2, <2>1 DEF Room
    <2>3. Waiting(s, b, 0, n)
      BY <1>2 DEF Waiting
    <2>4. Decided(s, vis, hid, g, stuck, b, 0)
      BY <2>1 DEF Decided
    <2>5. Grown(s, vis) /\ Fully(s, s)
      BY DEF Grown, Fully
    <2>6. QED
      BY <2>2, <2>3, <2>4, <2>5
  <1>6. ASSUME NEW k \in 1 .. n, Good(t[k - 1], k - 1) PROVE Good(t[k], k)
    <2> DEFINE v == t[k - 1]
    <2>1. v \in Stands(vis, hid) /\ t[k] = Adopt(g, stuck, v, b[k])
      BY <1>4
    <2>2. /\ Room(v, n - (k - 1)) /\ Grown(v, vis) /\ Waiting(v, b, k - 1, n) /\ Fully(s, v)
          /\ Decided(v, vis, hid, g, stuck, b, k - 1)
          /\ registryFull(g, s.hosts) => registryFull(g, v.hosts)
      BY <1>6
    <2> HIDE DEF v, Good
    <2>3. Good(Adopt(g, stuck, v, b[k]), k)
      BY <1>2, <2>1, <2>2, DecidedOn DEF Good
    <2>4. QED
      BY <2>1, <2>3
  <1> HIDE DEF Good
  <1>7. n \in B
    <2>1. 0 \in B /\ \A k \in 1 .. n : k - 1 \in B => k \in B
      BY <1>4, <1>5, <1>6
    <2> HIDE DEF B
    <2>2. QED
      BY <2>1, Upward
  <1> DEFINE r == t[n]
  <1>8. Good(r, n) /\ r \in Stands(vis, hid)
    BY <1>4, <1>7
  <1> HIDE DEF r
  <1>9. /\ DOMAIN r.visible \subseteq Places /\ Grown(r, vis) /\ Fully(s, r)
        /\ registryFull(g, s.hosts) => registryFull(g, r.hosts)
        /\ Decided(r, vis, hid, g, stuck, b, n)
    BY <1>8 DEF Good, Room
  <1>10. \A id \in DOMAIN hid : IF id \in DOMAIN r.hidden
                                THEN Stays(g, stuck, hid, r.hosts, id)
                                ELSE Shows(r, vis, hid, id)
    BY <1>2, <1>9 DEF Decided
  <1>11. QED
    BY <1>3, <1>8, <1>9, <1>10 DEF r

(* The registry never holds more than it may: an entry is added to it only *)
(* while it is not full.                                                   *)
Capped(g, h) == Entered(g, h) <= listMax

LEMMA EnteredIs ==
  ASSUME NEW g, DOMAIN g \subseteq Guests, NEW h \in [Places -> Nat]
  PROVE  /\ Cardinality(DOMAIN g) \in Nat /\ SumOf(h) \in Nat
         /\ Entered(g, h) = Cardinality(DOMAIN g) + SumOf(h)
         /\ Entered(g, h) \in Nat
  <1>1. Cardinality(DOMAIN g) \in Nat
    BY RestoreAssumption, FS_Subset, FS_CardinalityType
  <1>2. SumOf(h) \in Nat
    <2>1. PICK f \in [SUBSET Places -> Nat] : AddsAll(f, h, Places) /\ SumOf(h) = f[Places]
      BY PlacesFinite, TotalBy
    <2>2. QED
      BY <2>1
  <1>3. Entered(g, h) = Cardinality(DOMAIN g) + SumOf(h)
    BY DEF Entered, SumOf
  <1>4. QED
    BY <1>1, <1>2, <1>3

LEMMA CappedUp ==
  ASSUME NEW g, DOMAIN g \subseteq Guests, NEW h \in [Places -> Nat], NEW p,
         Capped(g, h), ~registryFull(g, h)
  PROVE  Capped(g, [h EXCEPT ![p] = @ + 1])
  <1> DEFINE i == [h EXCEPT ![p] = @ + 1]
             c == Cardinality(DOMAIN g)
  <1>1. CASE p \notin Places
    <2>1. i = h
      BY <1>1
    <2>2. QED
      BY <2>1
  <1>2. CASE p \in Places
    <2>1. SumOf(h) \in Nat /\ SumOf(i) = SumOf(h) + 1
      BY <1>2, PlacesFinite, TotalUp
    <2>2. i \in [Places -> Nat]
      BY OneMore
    <2> HIDE DEF i
    <2>3. /\ c \in Nat /\ Entered(g, h) = c + SumOf(h) /\ Entered(g, i) = c + SumOf(i)
      BY <2>2, EnteredIs
    <2>4. ~(Entered(g, h) >= listMax)
      BY DEF registryFull
    <2> HIDE DEF c
    <2>5. Entered(g, i) <= listMax
      BY <2>1, <2>3, <2>4, RestoreAssumption
    <2>6. QED
      BY <2>5 DEF Capped, i
  <1>3. QED
    BY <1>1, <1>2

LEMMA RelistCapped ==
  ASSUME NEW vis, NEW hid, NEW v \in Stands(vis, hid), NEW g, DOMAIN g \subseteq Guests,
         NEW p \in Places, Capped(g, v.hosts)
  PROVE  Capped(g, Relist(g, v, p).hosts)
  <1> DEFINE w == [v EXCEPT !.hosts[p] = @ + 1]
  <1>1. /\ v = [visible |-> v.visible, hidden |-> v.hidden, hosts |-> v.hosts]
        /\ v.hosts \in [Places -> Nat]
    BY StandsAre
  <1>2. w.hosts = [v.hosts EXCEPT ![p] = @ + 1]
    BY ONLY <1>1
  <1> HIDE DEF w
  <1>3. Relist(g, v, p) = IF registryFull(g, v.hosts) THEN v ELSE w
    BY DEF Relist, w
  <1>4. CASE registryFull(g, v.hosts)
    BY <1>3, <1>4
  <1>5. CASE ~registryFull(g, v.hosts)
    BY <1>1, <1>2, <1>3, <1>5, CappedUp
  <1>6. QED
    BY <1>4, <1>5

LEMMA AdoptCapped ==
  ASSUME NEW vis, NEW hid, NEW v \in Stands(vis, hid), NEW g, DOMAIN g \subseteq Guests,
         NEW stuck, NEW id, Capped(g, v.hosts)
  PROVE  Capped(g, Adopt(g, stuck, v, id).hosts)
  <1> DEFINE p == uniquePath(v.visible)
             h == [v.hosts EXCEPT ![p] = @ + 1]
             w == [visible |-> Put(v.visible, p, Shown(id, v.hidden[id].has)),
                   hidden  |-> Drops(v.hidden, {id}),
                   hosts   |-> h]
  <1>1. v.hosts \in [Places -> Nat]
    BY StandsAre
  <1>2. ~registryFull(g, v.hosts) => Capped(g, h)
    <2> HIDE DEF p
    <2>1. QED
      BY <1>1, CappedUp
  <1>3. w.hosts = h
    OBVIOUS
  <1>4. Adopt(g, stuck, v, id) = v \/ (Adopt(g, stuck, v, id) = w /\ ~registryFull(g, v.hosts))
    <2> HIDE DEF h
    <2>1. QED
      BY DEF Adopt, h
  <1> HIDE DEF w, h
  <1>5. QED
    BY <1>2, <1>3, <1>4

LEMMA RelistsCapped ==
  ASSUME NEW vis, NEW hid, NEW g, DOMAIN g \subseteq Guests, DOMAIN vis \subseteq Places,
         NEW s \in Stands(vis, hid), Capped(g, s.hosts), NEW a \in SetToSeqs(DOMAIN vis)
  PROVE  Capped(g, Relists(g, s, a).hosts)
  <1>1. IsFiniteSet(DOMAIN vis)
    BY PlacesFinite, FS_Subset
  <1>2. PICK n \in Nat : a \in [1 .. n -> DOMAIN vis]
    BY <1>1, OrderIs
  <1>3. a \in [1 .. n -> Places]
    BY <1>2
  <1>4. PICK t : RelistTable(t, vis, hid, g, s, a, n) /\ Relists(g, s, a) = t[n]
    BY <1>3, RelistSteps
  <1>5. /\ \A k \in 0 .. n : t[k] \in Stands(vis, hid)
        /\ t[0] = s
        /\ \A k \in 1 .. n : t[k] = Relist(g, t[k - 1], a[k])
    BY <1>4 DEF RelistTable
  <1> DEFINE B == {k \in 0 .. n : Capped(g, t[k].hosts)}
  <1>6. 0 \in B
    BY <1>5
  <1>7. ASSUME NEW k \in 1 .. n, k - 1 \in B PROVE k \in B
    <2>1. k - 1 \in 0 .. n /\ k \in 0 .. n /\ a[k] \in Places
      BY <1>3
    <2>2. Capped(g, t[k - 1].hosts) /\ t[k - 1] \in Stands(vis, hid)
      BY <1>5, <1>7, <2>1
    <2>3. Capped(g, Relist(g, t[k - 1], a[k]).hosts)
      BY <2>1, <2>2, RelistCapped
    <2>4. QED
      BY <1>5, <2>1, <2>3
  <1>8. n \in B
    <2> HIDE DEF B
    <2>1. QED
      BY <1>6, <1>7, Upward
  <1>9. QED
    BY <1>4, <1>8

LEMMA AdoptsCapped ==
  ASSUME NEW vis, NEW hid, NEW g, DOMAIN g \subseteq Guests, DOMAIN hid \subseteq Guests, NEW stuck,
         NEW s \in Stands(vis, hid), Capped(g, s.hosts), NEW b \in SetToSeqs(DOMAIN hid)
  PROVE  Capped(g, Adopts(g, stuck, s, b).hosts)
  <1>1. IsFiniteSet(DOMAIN hid)
    BY RestoreAssumption, FS_Subset
  <1>2. PICK n \in Nat : b \in [1 .. n -> DOMAIN hid]
    BY <1>1, OrderIs
  <1>3. PICK t : AdoptTable(t, vis, hid, g, stuck, s, b, n) /\ Adopts(g, stuck, s, b) = t[n]
    BY <1>2, AdoptSteps
  <1>4. /\ \A k \in 0 .. n : t[k] \in Stands(vis, hid)
        /\ t[0] = s
        /\ \A k \in 1 .. n : t[k] = Adopt(g, stuck, t[k - 1], b[k])
    BY <1>3 DEF AdoptTable
  <1> DEFINE B == {k \in 0 .. n : Capped(g, t[k].hosts)}
  <1>5. 0 \in B
    BY <1>4
  <1>6. ASSUME NEW k \in 1 .. n, k - 1 \in B PROVE k \in B
    <2>1. k - 1 \in 0 .. n /\ k \in 0 .. n
      OBVIOUS
    <2>2. Capped(g, t[k - 1].hosts) /\ t[k - 1] \in Stands(vis, hid)
      BY <1>4, <1>6, <2>1
    <2>3. Capped(g, Adopt(g, stuck, t[k - 1], b[k]).hosts)
      BY <2>2, AdoptCapped
    <2>4. QED
      BY <1>4, <2>1, <2>3
  <1>7. n \in B
    <2> HIDE DEF B
    <2>1. QED
      BY <1>5, <1>6, Upward
  <1>8. QED
    BY <1>3, <1>7

-----------------------------------------------------------------------------
(* What a start makes of what it finds.                                    *)
Tabled(f) == f = [x \in DOMAIN f |-> f[x]]
Handled(s, vis, hid, g, stuck, id) ==
  IF id \in DOMAIN s.hidden
  THEN s.hidden[id] = hid[id] /\ Stays(g, stuck, hid, s.hosts, id)
  ELSE Shows(s, vis, hid, id) \/ (id \in Orphans(g, hid) /\ Stays(g, stuck, hid, s.hosts, id))

Started(s, vis, hid, h, g, stuck) ==
  /\ Tabled(s.visible) /\ DOMAIN s.visible \subseteq Places
  /\ Tabled(s.hidden) /\ DOMAIN s.hidden \subseteq DOMAIN hid
  /\ s.hosts \in [Places -> Nat]
  /\ Grown(s, vis)
  /\ \A id \in DOMAIN hid : Handled(s, vis, hid, g, stuck, id)
  /\ ListedOnce(h, {}) => registryFull(g, s.hosts) \/ ListedOnce(s.hosts, DOMAIN s.visible)
  /\ s.visible \in Shelves(vis, hid)
  /\ Capped(g, h) => Capped(g, s.hosts)

LEMMA OrphansIn ==
  ASSUME NEW g, NEW hid, NEW r, \A id \in DOMAIN r : id \in DOMAIN hid /\ r[id] = hid[id]
  PROVE  \A id \in Orphans(g, r) : id \in Orphans(g, hid)
  <1> SUFFICES ASSUME NEW id \in Orphans(g, r) PROVE id \in Orphans(g, hid)
    OBVIOUS
  <1>1. id \in DOMAIN r /\ id \notin DOMAIN g /\ r[id].old
    BY Zenon DEF Orphans
  <1>2. id \in DOMAIN hid /\ hid[id] = r[id]
    BY <1>1
  <1>3. hid[id].old
    BY <1>1, <1>2, Zenon
  <1>4. QED
    BY <1>1, <1>2, <1>3, Zenon DEF Orphans

LEMMA SweepIs ==
  ASSUME NEW g, NEW v, NEW w, NEW h,
         v = [visible |-> w, hidden |-> h, hosts |-> v.hosts]
  PROVE  SweepTempOrphans(g, v) = [visible |-> w, hidden |-> Drops(h, Orphans(g, h)), hosts |-> v.hosts]
  <1> DEFINE O == Orphans(g, v.hidden)
             D == Drops(v.hidden, O)
  <1>1. SweepTempOrphans(g, v) = [v EXCEPT !.hidden = D]
    BY DEF SweepTempOrphans
  <1>2. v.hidden = h
    OBVIOUS
  <1> HIDE DEF D
  <1>3. [v EXCEPT !.hidden = D] = [visible |-> w, hidden |-> D, hosts |-> v.hosts]
    OBVIOUS
  <1>4. QED
    BY <1>1, <1>2, <1>3 DEF D

LEMMA StartIs ==
  ASSUME NEW vis, NEW hid, NEW h \in [Places -> Nat], NEW g, NEW stuck,
         DOMAIN g \subseteq Guests, Tabled(vis), DOMAIN vis \subseteq Places,
         Tabled(hid), DOMAIN hid \subseteq Guests,
         Cardinality(DOMAIN hid) <= Cardinality(Vacant(vis)),
         NEW a \in SetToSeqs(DOMAIN vis), NEW b \in SetToSeqs(DOMAIN hid)
  PROVE  Started(OnStart(g, [visible |-> vis, hidden |-> hid, hosts |-> h], stuck, a, b),
                 vis, hid, h, g, stuck)
  <1> DEFINE s == [visible |-> vis, hidden |-> hid, hosts |-> h]
             l == Relists(g, s, a)
             r == Adopts(g, stuck, l, b)
             w == SweepTempOrphans(g, r)
  <1>1. OnStart(g, s, stuck, a, b) = w
    BY DEF OnStart, RestoreTempShares, Relists, Adopts
  <1>2. s \in Stands(vis, hid) /\ s.visible = vis /\ s.hidden = hid /\ s.hosts = h
    <2>1. vis \in Shelves(vis, hid)
      <3>1. vis \in [DOMAIN vis -> Texts(vis, hid)]
        BY DEF Tabled, Texts
      <3>2. DOMAIN vis \in SUBSET Spots
        BY DEF Spots
      <3>3. QED
        BY <3>1, <3>2 DEF Shelves
    <2>2. hid \in Rests(hid)
      <3>1. hid = Drops(hid, {})
        BY DEF Tabled, Drops
      <3>2. QED
        BY <3>1 DEF Rests
    <2>3. QED
      BY <2>1, <2>2 DEF Stands
  <1> HIDE DEF s
  <1>3. /\ l \in Stands(vis, hid) /\ l.visible = vis /\ l.hidden = hid
        /\ ListedOnce(h, {}) => registryFull(g, l.hosts) \/ ListedOnce(l.hosts, DOMAIN vis)
    BY <1>2, RelistKeeps
  <1>4. Capped(g, h) => Capped(g, l.hosts)
    BY <1>2, RelistsCapped
  <1> HIDE DEF l
  <1>5. /\ r \in Stands(vis, hid) /\ DOMAIN r.visible \subseteq Places /\ Grown(r, vis)
        /\ Fully(l, r)
        /\ registryFull(g, l.hosts) => registryFull(g, r.hosts)
        /\ \A id \in DOMAIN hid : IF id \in DOMAIN r.hidden
                                  THEN Stays(g, stuck, hid, r.hosts, id)
                                  ELSE Shows(r, vis, hid, id)
    BY <1>3, AdoptKeeps
  <1>6. Capped(g, l.hosts) => Capped(g, r.hosts)
    BY <1>3, AdoptsCapped
  <1> HIDE DEF r
  <1>7. /\ r = [visible |-> r.visible, hidden |-> r.hidden, hosts |-> r.hosts]
        /\ r.visible \in Shelves(vis, hid) /\ r.hidden \in Rests(hid)
        /\ r.hosts \in [Places -> Nat]
    BY <1>5, StandsAre
  <1> DEFINE O == Orphans(g, r.hidden)
  <1>8. w = [visible |-> r.visible, hidden |-> Drops(r.hidden, O), hosts |-> r.hosts]
    BY <1>7, SweepIs
  <1>9. \A id \in O : id \in Orphans(g, hid)
    BY <1>5, StillHidden, OrphansIn
  <1> HIDE DEF w, O
  <1>10. /\ w.visible = r.visible /\ w.hosts = r.hosts
        /\ DOMAIN w.hidden = DOMAIN r.hidden \ O
        /\ Tabled(w.hidden)
        /\ \A id \in DOMAIN w.hidden : w.hidden[id] = r.hidden[id]
    BY <1>8 DEF Drops, Tabled
  <1>11. \A id \in DOMAIN r.hidden : id \in DOMAIN hid /\ r.hidden[id] = hid[id]
    BY <1>5, StillHidden
  <1>12. Tabled(w.visible)
    BY <1>7, <1>10 DEF Shelves, Tabled
  <1>13. ASSUME NEW id \in DOMAIN hid PROVE Handled(w, vis, hid, g, stuck, id)
    <2>1. Shows(w, vis, hid, id) <=> Shows(r, vis, hid, id)
      BY <1>10 DEF Shows
    <2>2. Stays(g, stuck, hid, w.hosts, id) <=> Stays(g, stuck, hid, r.hosts, id)
      BY <1>10
    <2>3. CASE id \in DOMAIN w.hidden
      BY <1>5, <1>10, <1>11, <2>2, <2>3 DEF Handled
    <2>4. CASE id \notin DOMAIN w.hidden
      BY <1>5, <1>9, <1>10, <2>1, <2>2, <2>4 DEF Handled
    <2>5. QED
      BY <2>3, <2>4
  <1>14. ListedOnce(h, {}) => registryFull(g, w.hosts) \/ ListedOnce(w.hosts, DOMAIN w.visible)
    BY <1>3, <1>5, <1>10 DEF Fully
  <1>15. Grown(w, vis) /\ DOMAIN w.visible \subseteq Places /\ w.hosts \in [Places -> Nat]
    BY <1>5, <1>7, <1>10 DEF Grown
  <1>16. DOMAIN w.hidden \subseteq DOMAIN hid
    BY <1>10, <1>11
  <1>17. w.visible \in Shelves(vis, hid)
    BY <1>7, <1>10
  <1>18. Capped(g, h) => Capped(g, w.hosts)
    BY <1>10, <1>4, <1>6
  <1>19. Started(w, vis, hid, h, g, stuck)
    BY <1>10, <1>12, <1>13, <1>14, <1>15, <1>16, <1>17, <1>18 DEF Started
  <1>20. QED
    BY <1>1, <1>19 DEF s

TableOver(f, D) == Tabled(f) /\ DOMAIN f \subseteq D

RestoreIInv ==
  /\ TableOver(visible, Places)
  /\ TableOver(hidden, Guests)
  /\ DOMAIN guests \subseteq Guests
  /\ hosts \in [Places -> Nat]

Booted(stuck, again, s, h) ==
  /\ Started(s, visible, hidden, h, guests', stuck)
  /\ visible' = s.visible /\ hidden' = s.hidden /\ hosts' = s.hosts
  /\ DOMAIN guests' \subseteq Guests
  /\ ~again => ListedOnce(h, {}) /\ DOMAIN guests' = {}
  /\ again => h = hosts /\ guests' = guests
  /\ h \in [Places -> Nat]

LEMMA BootIs ==
  ASSUME RestoreIInv, NEW again \in BOOLEAN, NEW stuck, Boot(again, stuck)
  PROVE  \E s, h : Booted(stuck, again, s, h)
  <1> DEFINE g == IF again THEN guests ELSE <<>>
             h == IF again THEN hosts ELSE [p \in Places |-> 0]
  <1>1. /\ guests' = g
        /\ Cardinality(DOMAIN hidden) <= Cardinality(Vacant(visible))
    BY Zenon DEF Boot
  <1>2. PICK a \in SetToSeqs(DOMAIN visible), b \in SetToSeqs(DOMAIN hidden) :
          LET s == OnStart(g, Found(h), stuck, a, b) IN
            visible' = s.visible /\ hidden' = s.hidden /\ hosts' = s.hosts
    BY Zenon DEF Boot
  <1>3. /\ DOMAIN g \subseteq Guests /\ h \in [Places -> Nat]
        /\ ~again => ListedOnce(h, {}) /\ DOMAIN g = {}
        /\ again => h = hosts /\ g = guests
    <2>1. CASE again
      BY <2>1 DEF RestoreIInv
    <2>2. CASE ~again
      BY <2>2 DEF ListedOnce
    <2>3. QED
      BY <2>1, <2>2
  <1> HIDE DEF g, h
  <1> DEFINE s == OnStart(g, Found(h), stuck, a, b)
  <1>4. Started(s, visible, hidden, h, g, stuck)
    BY <1>1, <1>3, StartIs DEF RestoreIInv, TableOver, Found
  <1>5. visible' = s.visible /\ hidden' = s.hidden /\ hosts' = s.hosts
    BY <1>2
  <1> HIDE DEF s
  <1>6. Booted(stuck, again, s, h)
    BY <1>1, <1>3, <1>4, <1>5 DEF Booted
  <1>7. QED
    BY <1>6

LEMMA PutWithin ==
  ASSUME NEW D, NEW f, DOMAIN f \subseteq D, NEW x \in D, NEW y
  PROVE  TableOver(Put(f, x, y), D)
  BY DEF Put, Tabled, TableOver

LEMMA DropsWithin ==
  ASSUME NEW D, NEW f, DOMAIN f \subseteq D, NEW S
  PROVE  TableOver(Drops(f, S), D)
  BY DEF Drops, Tabled, TableOver

LEMMA DropsDomain == ASSUME NEW f, NEW S PROVE DOMAIN Drops(f, S) = DOMAIN f \ S
  BY DEF Drops

LEMMA SweptHidden ==
  SweepTempOrphans(guests, Found(hosts)).hidden = Drops(hidden, Orphans(guests, hidden))
  <1>1. Found(hosts) = [visible |-> visible, hidden |-> hidden, hosts |-> Found(hosts).hosts]
    BY DEF Found
  <1>2. QED
    BY <1>1, SweepIs

LEMMA RestoreFirst == RestoreInit => RestoreIInv
  BY DEF RestoreInit, RestoreIInv, TableOver, Tabled

LEMMA RestoreKept == RestoreIInv /\ [RestoreNext]_restorevars => RestoreIInv'
  <1> SUFFICES ASSUME RestoreIInv, [RestoreNext]_restorevars PROVE RestoreIInv'
    OBVIOUS
  <1> USE DEF RestoreIInv
  <1>1. DOMAIN visible \subseteq Places /\ DOMAIN hidden \subseteq Guests
    BY DEF TableOver
  <1>2. ASSUME NEW again \in BOOLEAN, NEW stuck \in SUBSET Guests, Boot(again, stuck)
        PROVE  RestoreIInv'
    <2>1. PICK s, h : Booted(stuck, again, s, h)
      BY <1>2, BootIs
    <2>2. QED
      BY <1>1, <2>1 DEF Booted, Started, TableOver
  <1>3. CASE Heartbeat
    <2>1. TableOver(hidden', Guests)
      BY <1>1, <1>3, SweptHidden, DropsWithin DEF Heartbeat
    <2>2. UNCHANGED <<visible, guests, hosts>>
      BY <1>3 DEF Heartbeat
    <2>3. QED
      BY <2>1, <2>2
  <1>4. ASSUME NEW id \in Guests, Offer(id) PROVE RestoreIInv'
    <2>1. TableOver(guests', Guests)
      BY <1>4, PutWithin DEF Offer
    <2>2. UNCHANGED <<visible, hidden, hosts>>
      BY <1>4 DEF Offer
    <2>3. DOMAIN guests' \subseteq Guests
      BY <2>1 DEF TableOver
    <2>4. QED
      BY <2>2, <2>3
  <1>5. ASSUME NEW id \in Guests, RelayBegins(id) PROVE RestoreIInv'
    BY <1>5 DEF RelayBegins
  <1>6. ASSUME NEW id \in Guests, Retain(id) PROVE RestoreIInv'
    <2>1. PICK v : hidden' = Put(hidden, id, v)
      BY <1>6, Zenon DEF Retain
    <2>2. TableOver(hidden', Guests)
      BY <1>1, <2>1, PutWithin
    <2>3. UNCHANGED <<visible, guests, hosts>>
      BY <1>6 DEF Retain
    <2>4. QED
      BY <2>2, <2>3
  <1>7. ASSUME NEW id \in Guests, Age(id) PROVE RestoreIInv'
    <2> DEFINE e == [hidden[id] EXCEPT !.old = TRUE]
    <2>1. hidden' = [hidden EXCEPT ![id] = e]
      BY <1>7 DEF Age
    <2> HIDE DEF e
    <2>2. TableOver(hidden', Guests)
      BY <1>1, <2>1 DEF TableOver, Tabled
    <2>3. UNCHANGED <<visible, guests, hosts>>
      BY <1>7 DEF Age
    <2>4. QED
      BY <2>2, <2>3
  <1>8. ASSUME NEW id \in Guests, CompleteShare(id) \/ migrateLegacyRetained(id)
        PROVE  RestoreIInv'
    <2> DEFINE p == uniquePath(visible)
    <2>1. /\ Vacant(visible) # {} /\ guests' = [guests EXCEPT ![id] = p]
          /\ hidden' = Drops(hidden, {id}) /\ UNCHANGED hosts
      BY <1>8 DEF CompleteShare, migrateLegacyRetained
    <2>2. PICK x : visible' = Put(visible, p, x)
      BY <1>8, Zenon DEF CompleteShare, migrateLegacyRetained
    <2>3. p \in Places
      BY <1>1, <2>1, VacantOf DEF Vacant
    <2> HIDE DEF p
    <2>4. TableOver(visible', Places)
      BY <1>1, <2>2, <2>3, PutWithin
    <2>5. TableOver(hidden', Guests)
      BY <1>1, <2>1, DropsWithin
    <2>6. QED
      BY <2>1, <2>4, <2>5
  <1>9. ASSUME NEW id \in Guests, UnshareGuest(id) PROVE RestoreIInv'
    <2>1. /\ guests' = Drops(guests, {id}) /\ UNCHANGED hosts
          /\ visible' = Drops(visible, {guests[id]}) \/ UNCHANGED visible
          /\ hidden' = Drops(hidden, {id}) \/ UNCHANGED hidden
      BY <1>9 DEF UnshareGuest
    <2>2. TableOver(guests', Guests)
      BY <2>1, DropsWithin
    <2>3. TableOver(visible', Places)
      BY <1>1, <2>1, DropsWithin
    <2>4. TableOver(hidden', Guests)
      BY <1>1, <2>1, DropsWithin
    <2>5. DOMAIN guests' \subseteq Guests
      BY <2>2 DEF TableOver
    <2>6. QED
      BY <2>1, <2>3, <2>4, <2>5
  <1>10. ASSUME NEW p \in Places, CopyIn(p) PROVE RestoreIInv'
    <2>1. PICK x : visible' = Put(visible, p, x)
      BY <1>10, Zenon DEF CopyIn
    <2>2. TableOver(visible', Places)
      BY <1>1, <2>1, PutWithin
    <2>3. UNCHANGED <<hidden, guests, hosts>>
      BY <1>10 DEF CopyIn
    <2>4. QED
      BY <2>2, <2>3
  <1>11. ASSUME NEW p \in Places, UnshareHost(p) PROVE RestoreIInv'
    <2>1. hosts' \in [Places -> Nat]
      BY <1>11 DEF UnshareHost
    <2>2. TableOver(visible', Places)
      BY <1>1, <1>11, DropsWithin DEF UnshareHost
    <2>3. UNCHANGED <<hidden, guests>>
      BY <1>11 DEF UnshareHost
    <2>4. QED
      BY <2>1, <2>2, <2>3
  <1>12. CASE UNCHANGED restorevars
    BY <1>12 DEF restorevars
  <1>13. QED
    BY <1>2, <1>3, <1>4, <1>5, <1>6, <1>7, <1>8, <1>9, <1>10, <1>11, <1>12 DEF RestoreNext

-----------------------------------------------------------------------------
LEMMA BootKeeps ==
  ASSUME RestoreIInv, NEW again \in BOOLEAN, NEW stuck \in SUBSET Guests, Boot(again, stuck)
  PROVE  /\ Unchanged
         /\ \A id \in Losing :
              Orphaned(id) /\ (registryFull(guests', hosts') \/ id \in stuck)
  <1>1. PICK s, h : Booted(stuck, again, s, h)
    BY BootIs
  <1>2. /\ Started(s, visible, hidden, h, guests', stuck)
        /\ visible' = s.visible /\ hidden' = s.hidden /\ hosts' = s.hosts
    BY <1>1 DEF Booted
  <1>3. Unchanged
    BY <1>2 DEF Started, Grown, Unchanged
  <1>4. ASSUME NEW id \in Losing
        PROVE  Orphaned(id) /\ (registryFull(guests', hosts') \/ id \in stuck)
    <2>1. /\ id \in DOMAIN hidden /\ hidden[id].has # "" /\ id \notin DOMAIN s.hidden
          /\ ~Shows(s, visible, hidden, id)
      BY <1>2 DEF Losing, Lost, Shows
    <2>2. Handled(s, visible, hidden, guests', stuck, id)
      BY <1>2, <2>1 DEF Started
    <2>3. id \in Orphans(guests', hidden) /\ Stays(guests', stuck, hidden, hosts', id)
      BY <1>2, <2>1, <2>2 DEF Handled
    <2>4. hidden[id].old /\ id \notin DOMAIN guests'
      BY <2>3, Zenon DEF Orphans
    <2>5. registryFull(guests', hosts') \/ id \in stuck
      BY <2>1, <2>3, <2>4 DEF Stays, Belongs
    <2>6. QED
      BY <2>4, <2>5, Zenon DEF Orphaned
  <1>5. QED
    BY <1>3, <1>4

LEMMA HeartbeatKeeps ==
  ASSUME Heartbeat PROVE \A id \in Losing : Orphaned(id)
  <1> SUFFICES ASSUME NEW id \in Losing PROVE Orphaned(id)
    OBVIOUS
  <1>1. hidden' = Drops(hidden, Orphans(guests, hidden))
    BY SweptHidden DEF Heartbeat
  <1>2. id \in DOMAIN hidden /\ id \notin DOMAIN hidden'
    BY DEF Losing, Lost
  <1>3. id \in Orphans(guests, hidden)
    BY <1>1, <1>2, DropsDomain
  <1>4. guests' = guests
    BY DEF Heartbeat
  <1>5. QED
    BY <1>3, <1>4, Zenon DEF Orphans, Orphaned

LEMMA BootLists ==
  ASSUME RestoreIInv, NEW stuck \in SUBSET Guests, ~registryFull(guests', hosts'), Boot(FALSE, stuck)
  PROVE  /\ \A p \in DOMAIN visible' : hosts'[p] = 1
         /\ \A id \in DOMAIN hidden' \ stuck : hidden'[id].has = ""
  <1>1. PICK s, h : Booted(stuck, FALSE, s, h)
    <2>1. FALSE \in BOOLEAN
      OBVIOUS
    <2>2. QED
      BY <2>1, BootIs
  <1>2. /\ Started(s, visible, hidden, h, guests', stuck)
        /\ visible' = s.visible /\ hidden' = s.hidden /\ hosts' = s.hosts
        /\ ListedOnce(h, {}) /\ DOMAIN guests' = {}
    BY <1>1 DEF Booted
  <1>3. ListedOnce(s.hosts, DOMAIN s.visible) /\ DOMAIN s.visible \subseteq Places
    BY <1>2 DEF Started
  <1>4. ASSUME NEW id \in DOMAIN hidden' \ stuck PROVE hidden'[id].has = ""
    <2>1. Handled(s, visible, hidden, guests', stuck, id)
      BY <1>2 DEF Started
    <2>2. QED
      BY <1>2, <2>1 DEF Handled, Stays, Belongs
  <1>5. QED
    BY <1>2, <1>3, <1>4 DEF ListedOnce

(* No start destroys what it finds: a visible file stays as it is, and a   *)
(* retained one is retained still, or visible and listed, unless it is a   *)
(* day old, no live share's, and the registry was full or the move failed. *)
THEOREM StartKeepsCorrect == RestoreInit /\ [][RestoreNext]_restorevars => StartKeepsBytes
  <1>1. RestoreIInv /\ [RestoreNext]_restorevars =>
          [Losing # {} \/ ~Unchanged =>
             /\ \A again \in BOOLEAN, stuck \in SUBSET Guests :
                  Boot(again, stuck) =>
                    /\ Unchanged
                    /\ \A id \in Losing :
                         Orphaned(id) /\ (registryFull(guests', hosts') \/ id \in stuck)
             /\ Heartbeat => \A id \in Losing : Orphaned(id)]_restorevars
    BY BootKeeps, HeartbeatKeeps
  <1>2. QED
    BY <1>1, RestoreFirst, RestoreKept, PTL DEF StartKeepsBytes

(* A first start that does not fill the registry lists each visible file   *)
(* once, those it moved there included, and leaves hidden only what is     *)
(* empty or could not be moved.                                            *)
THEOREM StartListsCorrect == RestoreInit /\ [][RestoreNext]_restorevars => StartListsAll
  <1>1. RestoreIInv /\ [RestoreNext]_restorevars =>
          [\A stuck \in SUBSET Guests :
             ~registryFull(guests', hosts') /\ Boot(FALSE, stuck) =>
               /\ \A p \in DOMAIN visible' : hosts'[p] = 1
               /\ \A id \in DOMAIN hidden' \ stuck : hidden'[id].has = ""]_restorevars
    BY BootLists
  <1>2. QED
    BY <1>1, RestoreFirst, RestoreKept, PTL DEF StartListsAll

-----------------------------------------------------------------------------
(* ZipExtract.  The stage is followed from entry to entry: its files are   *)
(* counted, its bytes are summed, and while nothing has been passed over   *)
(* every file so far is in it with its data.                               *)
LEMMA PartIs ==
  ASSUME NEW e \in Parts
  PROVE  /\ e.kind \in {"file", "dir", "pass"}
         /\ e.kind = "file" => e.path \in Paths /\ e.has \in Nat /\ e.has \in DataSizes /\ e.says \in Nat
         /\ e.kind = "dir" => e.path \in Paths
         /\ e.says \in Nat
  <1>1. Wide - 1 \in Nat
    BY ZipExtractAssumption
  <1>2. DataSizes \subseteq Nat
    BY ZipExtractAssumption
  <1> DEFINE F == [kind : {"file"}, path : Paths, says : DataSizes \cup {Wide - 1}, has : DataSizes, sound : BOOLEAN]
             D == [kind : {"dir"}, path : Paths, says : {0}]
             P == [kind : {"pass"}, says : DataSizes \cup {Wide - 1}]
  <1>3. ASSUME e \in F
        PROVE  e.kind \in {"file"} /\ e.path \in Paths /\ e.says \in DataSizes \cup {Wide - 1} /\ e.has \in DataSizes
    BY <1>3, Zenon
  <1>4. ASSUME e \in D
        PROVE  e.kind = "dir" /\ e.says = 0 /\ e.path \in Paths
    BY <1>4
  <1>5. ASSUME e \in P
        PROVE  e.kind = "pass" /\ e.says \in DataSizes \cup {Wide - 1}
    BY <1>5
  <1>6. e \in F \/ e \in D \/ e \in P
    BY Zenon DEF Parts
  <1> HIDE DEF F, D, P
  <1>7. CASE e \in F
    <2>1. e.kind = "file" /\ e.path \in Paths /\ e.has \in DataSizes /\ e.says \in Nat /\ e.has \in Nat
      BY <1>1, <1>2, <1>3, <1>7
    <2>2. QED
      BY <2>1
  <1>8. CASE e \in D
    <2>1. e.kind = "dir" /\ e.says \in Nat /\ e.path \in Paths
      BY <1>4, <1>8
    <2>2. QED
      BY <2>1
  <1>9. CASE e \in P
    <2>1. e.kind = "pass" /\ e.says \in Nat
      BY <1>1, <1>2, <1>5, <1>9
    <2>2. QED
      BY <2>1
  <1>10. QED
    BY <1>6, <1>7, <1>8, <1>9

LEMMA PathsAre == IsFiniteSet(Paths) /\ \A p \in Paths : Inside(p) \subseteq Paths
  <1>1. IsFiniteSet({<<"a">>} \cup {<<"b">>} \cup {<<"a", "x">>})
    BY FS_Singleton, FS_Union
  <1>2. Paths = {<<"a">>} \cup {<<"b">>} \cup {<<"a", "x">>}
    BY DEF Paths
  <1>3. \A p \in Paths : Inside(p) \subseteq Paths
    BY DEF Inside
  <1>4. QED
    BY <1>1, <1>2, <1>3

(* One entry: what it makes of the stage.                                  *)
Datas == UNION {[D -> DataSizes] : D \in SUBSET Paths}
Errs == {"", "too big", "too many"}
StageType == [data : Datas, dirs : SUBSET Paths, n : Nat, skipped : Nat, live : Nat, err : Errs]

LEMMA MkdirAllIs ==
  ASSUME NEW s \in StageType, NEW ps, ps \subseteq Paths
  PROVE  /\ MkdirAll(s, ps) \in StageType
         /\ MkdirAll(s, ps).data = s.data /\ MkdirAll(s, ps).n = s.n
         /\ MkdirAll(s, ps).live = s.live /\ MkdirAll(s, ps).skipped = s.skipped
         /\ MkdirAll(s, ps).err = s.err
  BY DEF StageType, MkdirAll

LEMMA Skip1Is ==
  ASSUME NEW s \in StageType
  PROVE  /\ Skip1(s) \in StageType
         /\ Skip1(s).data = s.data /\ Skip1(s).n = s.n
         /\ Skip1(s).live = s.live /\ Skip1(s).skipped = s.skipped + 1
         /\ Skip1(s).err = s.err
  BY DEF StageType, Skip1

LEMMA FailIs ==
  ASSUME NEW s \in StageType, NEW x \in Errs
  PROVE  /\ [s EXCEPT !.err = x] \in StageType
         /\ [s EXCEPT !.err = x].data = s.data /\ [s EXCEPT !.err = x].n = s.n
         /\ [s EXCEPT !.err = x].live = s.live /\ [s EXCEPT !.err = x].skipped = s.skipped
         /\ [s EXCEPT !.err = x].err = x
  BY DEF StageType

LEMMA AddedIs ==
  ASSUME NEW f \in Datas, NEW p \in Paths, NEW v \in DataSizes
  PROVE  Added(f, p, v) \in Datas
  <1>1. PICK D \in SUBSET Paths : f \in [D -> DataSizes]
    BY DEF Datas
  <1>2. Added(f, p, v) \in [D \cup {p} -> DataSizes]
    BY <1>1 DEF Added
  <1>3. D \cup {p} \in SUBSET Paths
    OBVIOUS
  <1>4. QED
    BY <1>2, <1>3 DEF Datas

SameFiles(s, t) == t.data = s.data /\ t.n = s.n /\ t.live = s.live

Passes(s, e, t) == SameFiles(s, t) /\ t.skipped = s.skipped + 1 /\ t.err = ""
Stops(s, e, t) ==
  /\ SameFiles(s, t) /\ t.skipped = s.skipped
  /\ \/ t.err = "too many"
     \/ t.err = "too big" /\ e.kind = "file" /\ (e.says > zipBytes \/ TooBig(s, e))
Opens(s, e, t) == SameFiles(s, t) /\ t.skipped = s.skipped /\ t.err = "" /\ e.kind = "dir"
Fills(s, e, t) ==
  /\ e.kind = "file" /\ s.n < zipFiles /\ e.path \notin DOMAIN s.data /\ ~TooBig(s, e)
  /\ t.data = Added(s.data, e.path, e.has) /\ t.n = s.n + 1 /\ t.live = LiveTotal(s, e)
  /\ t.skipped = s.skipped /\ t.err = ""
Unpacked(s, e, t) ==
  /\ t \in StageType
  /\ IF s.err # "" THEN t = s
     ELSE Passes(s, e, t) \/ Stops(s, e, t) \/ Opens(s, e, t) \/ Fills(s, e, t)

LEMMA WriteIs ==
  ASSUME NEW s \in StageType, NEW e \in Parts, e.kind = "file", s.err = "", s.n < zipFiles
  PROVE  Unpacked(s, e, Write(s, e))
  <1> DEFINE b == Blocked(s, e.path)
             k == Taken(s, e.path)
             t == IF b THEN s ELSE MkdirAll(s, Inside(e.path))
             w == [t EXCEPT !.live = LiveTotal(s, e), !.n = @ + 1, !.data = Added(@, e.path, e.has)]
             f == [t EXCEPT !.err = "too big"]
  <1>1. e.path \in Paths /\ e.has \in DataSizes /\ e.has \in Nat
    BY PartIs
  <1>2. Inside(e.path) \subseteq Paths
    BY <1>1, PathsAre
  <1>3. /\ t \in StageType /\ t.data = s.data /\ t.n = s.n /\ t.live = s.live
        /\ t.skipped = s.skipped /\ t.err = ""
    BY <1>2, MkdirAllIs
  <1>4. Write(s, e) = CASE k -> Skip1(t)
                        [] ~k /\ Damaged(e) -> Skip1(t)
                        [] ~k /\ ~Damaged(e) /\ TooBig(s, e) -> f
                        [] OTHER -> w
    BY DEF Write
  <1>5. ~k => e.path \notin DOMAIN s.data
    BY DEF Taken
  <1> HIDE DEF b, k, t
  <1>6. /\ Skip1(t) \in StageType /\ Passes(s, e, Skip1(t))
    BY <1>3, Skip1Is DEF Passes, SameFiles
  <1>7. TooBig(s, e) => f \in StageType /\ Stops(s, e, f)
    <2>1. "too big" \in Errs
      BY DEF Errs
    <2> HIDE DEF f
    <2>2. /\ f \in StageType /\ f.data = t.data /\ f.n = t.n /\ f.live = t.live
          /\ f.skipped = t.skipped /\ f.err = "too big"
      BY <1>3, <2>1, FailIs DEF f
    <2>3. QED
      BY <1>3, <2>2 DEF Stops, SameFiles
  <1>8. ~k /\ ~TooBig(s, e) => w \in StageType /\ Fills(s, e, w)
    <2>1. s.live \in Nat /\ s.n \in Nat /\ s.data \in Datas
      BY DEF StageType
    <2>2. LiveTotal(s, e) \in Nat
      BY ONLY <1>1, <2>1 DEF LiveTotal
    <2>3. Added(s.data, e.path, e.has) \in Datas
      BY <1>1, <2>1, AddedIs
    <2> DEFINE l == LiveTotal(s, e)
               a == Added(s.data, e.path, e.has)
    <2>4. w = [t EXCEPT !.live = l, !.n = s.n + 1, !.data = a]
      BY <1>3
    <2> HIDE DEF l, a, w
    <2>5. /\ w \in StageType /\ w.data = a /\ w.n = s.n + 1 /\ w.live = l
          /\ w.skipped = s.skipped /\ w.err = ""
      <3>1. l \in Nat /\ a \in Datas
        BY <2>2, <2>3 DEF l, a
      <3>2. t \in StageType
        BY <1>3
      <3>3. s.n + 1 \in Nat
        BY ONLY <2>1
      <3>4. /\ w \in StageType /\ w.data = a /\ w.n = s.n + 1 /\ w.live = l
            /\ w.skipped = t.skipped /\ w.err = t.err
        BY ONLY <2>4, <3>1, <3>2, <3>3 DEF StageType
      <3>5. QED
        BY <1>3, <3>4
    <2>6. QED
      BY <1>5, <2>5 DEF Fills, l, a
  <1> HIDE DEF w, f
  <1>9. CASE k
    BY <1>4, <1>6, <1>9 DEF Unpacked
  <1>10. CASE ~k /\ Damaged(e)
    BY <1>4, <1>6, <1>10 DEF Unpacked
  <1>11. CASE ~k /\ ~Damaged(e) /\ TooBig(s, e)
    BY <1>4, <1>7, <1>11 DEF Unpacked
  <1>12. CASE ~k /\ ~Damaged(e) /\ ~TooBig(s, e)
    <2>1. Write(s, e) = w
      BY <1>4, <1>12
    <2>2. QED
      BY <1>8, <1>12, <2>1 DEF Unpacked
  <1>13. QED
    BY <1>9, <1>10, <1>11, <1>12

LEMMA UnpackIs ==
  ASSUME NEW s \in StageType, NEW e \in Parts
  PROVE  Unpacked(s, e, Unpack(s, e))
  <1> DEFINE u == Unpack(s, e)
             f(x) == [s EXCEPT !.err = x]
             m == MkdirAll(s, {e.path} \cup Inside(e.path))
             a == s.err # ""
             b == s.err = "" /\ e.kind = "pass"
             c == s.err = "" /\ e.kind # "pass" /\ s.n >= zipFiles
             d == s.err = "" /\ e.kind = "dir" /\ s.n < zipFiles
             g == s.err = "" /\ e.kind = "file" /\ s.n < zipFiles
             k == Blocked(s, e.path) \/ e.path \in DOMAIN s.data
             l == e.says > zipBytes
  <1>1. u = CASE a -> s
              [] b -> Skip1(s)
              [] c -> f("too many")
              [] d -> IF k THEN s ELSE m
              [] g -> IF l THEN f("too big") ELSE Write(s, e)
    BY DEF Unpack
  <1>2. e.kind \in {"file", "dir", "pass"} /\ s.n \in Nat /\ zipFiles \in Nat
    BY PartIs, ZipExtractAssumption DEF StageType
  <1>3. s.n >= zipFiles <=> ~(s.n < zipFiles)
    BY <1>2
  <1>4. e.kind = "file" \/ e.kind = "dir" \/ e.kind = "pass"
    BY <1>2
  <1>5. a \/ b \/ c \/ d \/ g
    BY ONLY <1>3, <1>4, Zenon
  <1>6. /\ b => ~a
        /\ c => ~a /\ ~b
        /\ d => ~a /\ ~b /\ ~c
        /\ g => ~a /\ ~b /\ ~c /\ ~d
    <2>1. ~(e.kind = "dir" /\ e.kind = "pass") /\ ~(e.kind = "file" /\ e.kind = "pass") /\ ~(e.kind = "file" /\ e.kind = "dir")
      OBVIOUS
    <2>2. QED
      BY ONLY <1>3, <2>1, Zenon
  <1>7. ASSUME NEW x \in Errs
        PROVE  /\ f(x) \in StageType /\ SameFiles(s, f(x)) /\ f(x).skipped = s.skipped /\ f(x).err = x
    BY FailIs DEF SameFiles
  <1>8. "too many" \in Errs /\ "too big" \in Errs
    BY DEF Errs
  <1> HIDE DEF u, f
  <1>9. CASE a
    <2>1. u = s
      <3> HIDE DEF a, b, c, d, g, k, l, m
      <3>1. QED
        BY ONLY <1>1, <1>6, <1>9
    <2>2. QED
      BY <1>9, <2>1 DEF Unpacked, u
  <1>10. CASE b
    <2>1. u = Skip1(s)
      <3> HIDE DEF a, b, c, d, g, k, l, m
      <3>1. QED
        BY ONLY <1>1, <1>6, <1>10
    <2>2. QED
      BY <1>10, <2>1, Skip1Is DEF Unpacked, Passes, SameFiles, u
  <1>11. CASE c
    <2>1. u = f("too many")
      <3> HIDE DEF a, b, c, d, g, k, l, m
      <3>1. QED
        BY ONLY <1>1, <1>6, <1>11
    <2>2. u \in StageType /\ Stops(s, e, u)
      BY <1>7, <1>8, <2>1 DEF Stops
    <2>3. QED
      BY <1>11, <2>2 DEF Unpacked, u
  <1>12. CASE d
    <2>1. u = s \/ u = m
      <3> HIDE DEF a, b, c, d, g, k, l, m
      <3>1. QED
        BY ONLY <1>1, <1>6, <1>12
    <2>2. {e.path} \cup Inside(e.path) \subseteq Paths
      BY <1>12, PartIs, PathsAre
    <2>3. m \in StageType /\ Opens(s, e, m)
      BY <1>12, <2>2, MkdirAllIs DEF Opens, SameFiles
    <2>4. Opens(s, e, s)
      BY <1>12 DEF Opens, SameFiles
    <2>5. s.err = ""
      BY <1>12
    <2> HIDE DEF m, d
    <2>6. QED
      BY <2>1, <2>3, <2>4, <2>5 DEF Unpacked, u
  <1>13. CASE g
    <2>1. u = IF l THEN f("too big") ELSE Write(s, e)
      <3> HIDE DEF a, b, c, d, g, k, l, m
      <3>1. QED
        BY ONLY <1>1, <1>6, <1>13
    <2>2. CASE l
      <3>1. u = f("too big")
        BY <2>1, <2>2
      <3>2. u \in StageType /\ Stops(s, e, u)
        BY <1>7, <1>8, <1>13, <2>2, <3>1 DEF Stops
      <3>3. QED
        BY <1>13, <3>2 DEF Unpacked, u
    <2>3. CASE ~l
      <3>1. u = Write(s, e)
        BY <2>1, <2>3
      <3>2. QED
        BY <1>13, <3>1, WriteIs DEF u
    <2>4. QED
      BY <2>2, <2>3
  <1>14. QED
    BY <1>5, <1>9, <1>10, <1>11, <1>12, <1>13

(* The order in which the elements are taken makes no difference.          *)
InAnyOrder(f, h, S) == \A s \in SUBSET S : \A x \in s : f[s] = h[x] + f[s \ {x}]

LEMMA SumAny ==
  ASSUME NEW S, IsFiniteSet(S), NEW h \in [S -> Nat], NEW f \in [SUBSET S -> Nat], AddsAll(f, h, S)
  PROVE  InAnyOrder(f, h, S)
  <1> DEFINE F == {s \in SUBSET S : \E x \in s : f[s] # h[x] + f[s \ {x}]}
  <1> SUFFICES ASSUME F # {} PROVE FALSE
    BY DEF InAnyOrder
  <1>1. PICK s \in F : \A x \in s : s \ {x} \notin F
    BY LeastSet
  <1>2. PICK x \in s : f[s] # h[x] + f[s \ {x}]
    OBVIOUS
  <1> DEFINE a == Chosen(s)
             r == s \ {a, x}
  <1>3. a \in s
    BY ChosenIn
  <1>4. f[s] = h[a] + f[s \ {a}]
    BY DEF AddsAll
  <1> HIDE DEF a
  <1>5. a # x
    BY <1>2, <1>4
  <1>6. /\ s \ {a} \in SUBSET S /\ s \ {x} \in SUBSET S /\ x \in s \ {a} /\ a \in s \ {x}
        /\ (s \ {a}) \ {x} = r /\ (s \ {x}) \ {a} = r /\ r \in SUBSET S
    BY <1>3, <1>5
  <1>7. f[s \ {a}] = h[x] + f[r]
    BY <1>1, <1>3, <1>6
  <1>8. f[s \ {x}] = h[a] + f[r]
    BY <1>1, <1>6
  <1>9. h[a] \in Nat /\ h[x] \in Nat /\ f[r] \in Nat
    BY <1>3, <1>6
  <1> HIDE DEF r, F
  <1>10. QED
    BY <1>2, <1>4, <1>7, <1>8, <1>9

LEMMA SumSub ==
  ASSUME NEW S, IsFiniteSet(S), NEW h \in [S -> Nat], NEW f \in [SUBSET S -> Nat], AddsAll(f, h, S),
         NEW X \in SUBSET S
  PROVE  f[X] <= f[S]
  <1> DEFINE F == {Y \in SUBSET S : X \subseteq Y /\ ~(f[X] <= f[Y])}
  <1>1. F = {}
    <2> SUFFICES ASSUME F # {} PROVE FALSE
      OBVIOUS
    <2>10. F \subseteq SUBSET S /\ F # {}
      OBVIOUS
    <2>1. PICK Y \in F : \A y \in Y : Y \ {y} \notin F
      <3> HIDE DEF F
      <3>1. QED
        BY <2>10, LeastSet
    <2>2. f[X] \in Nat /\ f[Y] \in Nat
      OBVIOUS
    <2>3. PICK y \in Y : y \notin X
      <3>1. Y # X
        BY <2>2
      <3>2. QED
        BY <3>1
    <2>4. f[Y] = h[y] + f[Y \ {y}]
      BY SumAny DEF InAnyOrder
    <2>5. Y \ {y} \in SUBSET S /\ X \subseteq Y \ {y}
      BY <2>3
    <2>6. f[X] <= f[Y \ {y}]
      BY <2>1, <2>5
    <2>7. f[Y \ {y}] \in Nat /\ h[y] \in Nat
      BY <2>5
    <2>8. ~(f[X] <= f[Y])
      OBVIOUS
    <2> HIDE DEF F
    <2>9. QED
      BY <2>2, <2>4, <2>6, <2>7, <2>8
  <1>2. QED
    BY <1>1

LEMMA TotalAdded ==
  ASSUME NEW S, IsFiniteSet(S), NEW h \in [S -> Nat], NEW p, p \notin S, NEW v \in Nat
  PROVE  SumOf(h) \in Nat /\ SumOf(Added(h, p, v)) = SumOf(h) + v
  <1> DEFINE T == S \cup {p}
             g == Added(h, p, v)
  <1>1. /\ g \in [T -> Nat] /\ g[p] = v /\ \A x \in S : g[x] = h[x]
    BY DEF Added
  <1>2. IsFiniteSet(T) /\ T \ {p} = S /\ S \in SUBSET T /\ p \in T /\ T \in SUBSET T
    BY FS_AddElement
  <1> HIDE DEF g, T
  <1>3. PICK e \in [SUBSET S -> Nat] : AddsAll(e, h, S) /\ SumOf(h) = e[S]
    BY TotalBy
  <1>4. PICK f \in [SUBSET T -> Nat] : AddsAll(f, g, T) /\ SumOf(g) = f[T]
    BY <1>1, <1>2, TotalBy
  <1>5. f[T] = v + f[S]
    <2>1. InAnyOrder(f, g, T)
      BY <1>1, <1>2, <1>4, SumAny
    <2>2. QED
      BY <1>1, <1>2, <2>1 DEF InAnyOrder
  <1> DEFINE F == {s \in SUBSET S : f[s] # e[s]}
  <1>6. F = {}
    <2> SUFFICES ASSUME F # {} PROVE FALSE
      OBVIOUS
    <2>1. PICK s \in F : \A x \in s : s \ {x} \notin F
      BY LeastSet
    <2>2. s \in SUBSET S /\ s \in SUBSET T
      BY <1>2
    <2>3. CASE s = {}
      BY <1>3, <1>4, <2>1, <2>2, <2>3 DEF AddsAll
    <2>4. CASE s # {}
      <3> DEFINE a == Chosen(s)
      <3>1. a \in s /\ s \ {a} \in SUBSET S /\ a \in S
        BY <2>2, <2>4, ChosenIn
      <3>2. f[s] = g[a] + f[s \ {a}] /\ e[s] = h[a] + e[s \ {a}]
        BY <1>3, <1>4, <2>2, <2>4 DEF AddsAll
      <3> HIDE DEF a
      <3>3. f[s \ {a}] = e[s \ {a}] /\ g[a] = h[a]
        BY <1>1, <2>1, <3>1
      <3>4. QED
        BY <2>1, <3>2, <3>3
    <2>5. QED
      BY <2>3, <2>4
  <1>7. f[S] = e[S] /\ e[S] \in Nat
    BY <1>6
  <1>8. QED
    BY <1>3, <1>4, <1>5, <1>7 DEF g

LEMMA OrderTaken ==
  ASSUME NEW S, IsFiniteSet(S)
  PROVE  \E n \in Nat : /\ n = Cardinality(S)
                        /\ SetToSeq(S) \in [1 .. n -> S]
                        /\ \A i, j \in 1 .. n : i # j => SetToSeq(S)[i] # SetToSeq(S)[j]
  <1> DEFINE n == Cardinality(S)
  <1>1. PICK m \in Nat : ExistsBijection(1 .. m, S)
    BY FS_NatBijection
  <1>2. n = m
    BY <1>1, FS_CountingElements
  <1>3. PICK a : a \in Bijection(1 .. n, S)
    BY <1>1, <1>2 DEF ExistsBijection
  <1>4. a \in [1 .. n -> S] /\ IsInjective(a)
    BY <1>3 DEF Bijection, Injection
  <1>5. SetToSeq(S) \in [1 .. n -> S] /\ IsInjective(SetToSeq(S))
    <2> HIDE DEF n
    <2>1. SetToSeq(S) = CHOOSE f \in [1 .. n -> S] : IsInjective(f)
      BY DEF SetToSeq, n
    <2>2. QED
      BY <1>4, <2>1
  <1>6. n \in Nat /\ n = Cardinality(S)
    BY <1>1, <1>2
  <1> HIDE DEF n
  <1>7. QED
    BY <1>5, <1>6 DEF IsInjective

(* The bytes of files in a row are the bytes of their set.                 *)
InRow(h, a, n, g, T) ==
  /\ \A i, j \in 1 .. n : i # j => a[i] # a[j]
  /\ T = {a[i] : i \in 1 .. n} /\ g = [i \in 1 .. n |-> h[a[i]]]

LEMMA BytesBy ==
  ASSUME NEW S, IsFiniteSet(S), NEW h \in [S -> Nat], NEW f \in [SUBSET S -> Nat], AddsAll(f, h, S),
         NEW n \in Nat, NEW a \in [1 .. n -> S], NEW g, NEW T, InRow(h, a, n, g, T)
  PROVE  SumTo(g, n) = f[T] /\ SumTo(g, n) \in Nat /\ T \in SUBSET S
  <1>1. /\ \A i, j \in 1 .. n : i # j => a[i] # a[j]
        /\ T = {a[i] : i \in 1 .. n} /\ g = [i \in 1 .. n |-> h[a[i]]]
    BY DEF InRow
  <1>2. \A i \in 1 .. n : g[i] = h[a[i]]
    BY <1>1
  <1>4. Counts(g, n)
    BY <1>2 DEF Counts
  <1>6. InAnyOrder(f, h, S)
    BY SumAny
  <1>5. f[{}] = 0
    BY DEF AddsAll
  <1> DEFINE X(k) == {a[i] : i \in 1 .. k}
             B == {k \in 0 .. n : SumTo(g, k) = f[X(k)]}
  <1>7. 0 \in B
    <2>1. X(0) = {}
      OBVIOUS
    <2> HIDE DEF X
    <2>3. SumTo(g, 0) = 0
      BY <1>4, SumToIs
    <2>4. SumTo(g, 0) = f[X(0)]
      BY <1>5, <2>1, <2>3, Zenon
    <2>5. QED
      BY <2>4
  <1>8. ASSUME NEW k \in 1 .. n, k - 1 \in B PROVE k \in B
    <2>1. X(k) = X(k - 1) \cup {a[k]} /\ a[k] \notin X(k - 1) /\ X(k) \in SUBSET S
      <3>1. 1 .. k = (1 .. k - 1) \cup {k}
        OBVIOUS
      <3>2. X(k) = X(k - 1) \cup {a[k]}
        BY <3>1
      <3>3. a[k] \notin X(k - 1) /\ X(k) \in SUBSET S
        BY <1>1
      <3>4. QED
        BY <3>2, <3>3
    <2>2. X(k) \ {a[k]} = X(k - 1) /\ a[k] \in X(k)
      BY <2>1
    <2> HIDE DEF X
    <2>3. f[X(k)] = h[a[k]] + f[X(k - 1)]
      <3>1. X(k) \in SUBSET S /\ a[k] \in X(k)
        BY <2>1, <2>2
      <3>2. f[X(k)] = h[a[k]] + f[X(k) \ {a[k]}]
        BY ONLY <1>6, <3>1 DEF InAnyOrder
      <3>3. QED
        BY <2>2, <3>2
    <2>4. g[k] = h[a[k]]
      BY <1>2
    <2>5. SumTo(g, k) = SumTo(g, k - 1) + g[k] /\ SumTo(g, k - 1) = f[X(k - 1)]
      BY <1>4, <1>8, SumToIs
    <2>6. SumTo(g, k - 1) \in Nat /\ g[k] \in Nat
      BY <1>4, <1>8, SumToIs DEF Counts
    <2>7. QED
      BY <2>3, <2>4, <2>5, <2>6
  <1>9. n \in B
    <2>1. 0 \in B /\ \A k \in 1 .. n : k - 1 \in B => k \in B
      BY <1>7, <1>8
    <2> HIDE DEF B
    <2>2. 0 .. n \subseteq B
      BY ONLY <2>1, n \in Nat, Upward
    <2>3. QED
      BY ONLY <2>2, n \in Nat
  <1>10. X(n) = T /\ T \in SUBSET S
    BY <1>1
  <1>11. SumTo(g, n) \in Nat
    BY <1>4, SumToIs
  <1>12. QED
    BY <1>9, <1>10, <1>11

(* Some of the files have no more bytes than all of them.                  *)
LEMMA BytesWithin ==
  ASSUME NEW S, IsFiniteSet(S), NEW h \in [S -> Nat], NEW T \in SUBSET S,
         NEW r, r.data = [p \in T |-> h[p]]
  PROVE  AllBytes(r) \in Nat /\ AllBytes(r) <= SumOf(h) /\ SumOf(h) \in Nat
  <1>1. IsFiniteSet(T)
    BY FS_Subset
  <1> DEFINE a == SetToSeq(T)
  <1>2. PICK n \in Nat : a \in [1 .. n -> T] /\ \A i, j \in 1 .. n : i # j => a[i] # a[j]
    BY <1>1, OrderTaken
  <1> DEFINE g == [i \in 1 .. n |-> h[a[i]]]
  <1>3. AllBytes(r) = SumTo(g, n)
    <2> DEFINE Row(D) == [i \in DOMAIN SetToSeq(D) |-> r.data[SetToSeq(D)[i]]]
    <2>1. DOMAIN r.data = T
      OBVIOUS
    <2>2. AllBytes(r) = AddedUp(Row(T))
      <3>1. AllBytes(r) = AddedUp(Row(DOMAIN r.data))
        BY DEF AllBytes, AddedUp
      <3> HIDE DEF Row
      <3>2. QED
        BY <2>1, <3>1
    <2>6. Row(T) = [i \in DOMAIN a |-> r.data[a[i]]]
      OBVIOUS
    <2> HIDE DEF a, Row
    <2>3. DOMAIN a = 1 .. n /\ \A i \in 1 .. n : r.data[a[i]] = g[i]
      BY <1>2
    <2>4. [i \in DOMAIN a |-> r.data[a[i]]] = [i \in 1 .. n |-> g[i]]
      BY <2>3
    <2> HIDE DEF g
    <2>5. QED
      BY <2>2, <2>4, <2>6 DEF SumTo
  <1> HIDE DEF a
  <1>5. PICK f \in [SUBSET S -> Nat] : AddsAll(f, h, S) /\ SumOf(h) = f[S]
    BY TotalBy
  <1> DEFINE X == {a[i] : i \in 1 .. n}
  <1>9. SumTo(g, n) = f[X] /\ SumTo(g, n) \in Nat /\ X \in SUBSET S
    <2>1. a \in [1 .. n -> S]
      BY <1>2
    <2>2. InRow(h, a, n, g, X)
      BY <1>2 DEF InRow
    <2> HIDE DEF g, X
    <2>3. QED
      BY <1>2, <1>5, <2>1, <2>2, BytesBy
  <1> HIDE DEF X, g
  <1>11. f[X] <= f[S]
    BY <1>5, <1>9, SumSub
  <1>12. AllBytes(r) \in Nat
    BY <1>3, <1>9
  <1>13. f[S] \in Nat
    BY <1>5
  <1>14. QED
    BY <1>3, <1>5, <1>9, <1>11, <1>12, <1>13

(* The files in the stage are counted, and so are their bytes.             *)
Stocked(s) ==
  /\ Cardinality(DOMAIN s.data) = s.n /\ s.n <= zipFiles
  /\ s.live = SumOf(s.data) /\ s.live <= zipBytes

LEMMA StageOf ==
  ASSUME NEW s \in StageType
  PROVE  /\ s.n \in Nat /\ s.live \in Nat /\ s.skipped \in Nat /\ s.err \in Errs
         /\ DOMAIN s.data \subseteq Paths /\ IsFiniteSet(DOMAIN s.data)
         /\ s.data \in [DOMAIN s.data -> DataSizes] /\ s.data \in [DOMAIN s.data -> Nat]
         /\ s.dirs \subseteq Paths
  <1>1. s.data \in Datas /\ s.n \in Nat /\ s.live \in Nat /\ s.skipped \in Nat /\ s.err \in Errs
        /\ s.dirs \subseteq Paths
    BY DEF StageType
  <1>2. PICK D \in SUBSET Paths : s.data \in [D -> DataSizes]
    BY <1>1 DEF Datas
  <1>3. DOMAIN s.data = D /\ DataSizes \subseteq Nat
    BY <1>2, ZipExtractAssumption
  <1>4. IsFiniteSet(D)
    BY PathsAre, FS_Subset
  <1>5. s.data \in [D -> Nat]
    BY <1>2, <1>3
  <1>6. QED
    BY <1>1, <1>2, <1>3, <1>4, <1>5

LEMMA StageStocked == Stage \in StageType /\ Stocked(Stage)
  <1>1. Stage.data = <<>> /\ DOMAIN <<>> = {} /\ Stage.n = 0 /\ Stage.live = 0
    BY DEF Stage
  <1>2. <<>> \in [{} -> Nat] /\ <<>> \in [{} -> DataSizes]
    OBVIOUS
  <1>3. Stage \in StageType
    <2>1. <<>> \in Datas
      BY <1>2 DEF Datas
    <2>2. QED
      BY <2>1 DEF Stage, StageType, Errs
  <1>4. Cardinality({}) = 0 /\ IsFiniteSet({})
    BY FS_EmptySet
  <1>5. SumOf(<<>>) = 0
    <2>1. PICK f \in [SUBSET {} -> Nat] : AddsAll(f, <<>>, {}) /\ SumOf(<<>>) = f[{}]
      BY <1>2, <1>4, TotalBy
    <2>2. QED
      BY <2>1 DEF AddsAll
  <1>6. QED
    BY <1>1, <1>3, <1>4, <1>5, ZipExtractAssumption DEF Stocked

LEMMA StockedOn ==
  ASSUME NEW s \in StageType, NEW e \in Parts, NEW t, Unpacked(s, e, t), Stocked(s)
  PROVE  Stocked(t)
  <1>1. CASE t.data = s.data /\ t.n = s.n /\ t.live = s.live
    BY <1>1 DEF Stocked
  <1>2. CASE Fills(s, e, t)
    <2> DEFINE D == DOMAIN s.data
               l == s.live + e.has
    <2>1. /\ e.kind = "file" /\ s.n < zipFiles /\ e.path \notin D /\ ~TooBig(s, e)
          /\ t.data = Added(s.data, e.path, e.has) /\ t.n = s.n + 1 /\ t.live = l
      BY <1>2 DEF Fills, LiveTotal
    <2>2. e.has \in Nat
      BY <2>1, PartIs
    <2>3. s.n \in Nat /\ s.live \in Nat /\ IsFiniteSet(D) /\ s.data \in [D -> Nat]
      BY StageOf
    <2>4. SumOf(s.data) \in Nat /\ SumOf(t.data) = SumOf(s.data) + e.has
      BY <2>1, <2>2, <2>3, TotalAdded
    <2>5. DOMAIN t.data = D \cup {e.path}
      BY <2>1 DEF Added
    <2>6. Cardinality(DOMAIN t.data) = Cardinality(D) + 1
      BY <2>1, <2>3, <2>5, FS_AddElement
    <2>7. l <= zipBytes
      <3>1. ~(l > zipBytes)
        BY <2>1 DEF TooBig, LiveTotal
      <3>2. QED
        BY <2>2, <2>3, <3>1, ZipExtractAssumption
    <2>8. s.n + 1 <= zipFiles
      BY <2>1, <2>3, ZipExtractAssumption
    <2>9. t.live = SumOf(t.data)
      BY <2>1, <2>4 DEF Stocked
    <2> HIDE DEF l
    <2>10. Cardinality(DOMAIN t.data) = t.n
      BY <2>1, <2>6 DEF Stocked
    <2>11. QED
      BY <2>1, <2>7, <2>8, <2>9, <2>10 DEF Stocked
  <1>3. QED
    BY <1>1, <1>2 DEF Unpacked, Passes, Stops, Opens, SameFiles

(* The sizes of the entries, and what has been said of them.               *)
Say(u) == [i \in DOMAIN u.parts |-> u.parts[i].says]
Have(u) == [i \in DOMAIN u.parts |-> Has(u.parts[i])]

Weighed(s, u, k, n) ==
  /\ s.live <= SumTo(Have(u), k)
  /\ s.err = "too big" => SumTo(Say(u), n) > zipBytes \/ SumTo(Have(u), n) > zipBytes

LEMMA SizesAre ==
  ASSUME NEW u, NEW n \in Nat, u.parts \in [1 .. n -> Parts]
  PROVE  /\ Counts(Say(u), n) /\ Counts(Have(u), n)
         /\ AllSay(u) = SumTo(Say(u), n) /\ AllHave(u) = SumTo(Have(u), n)
  <1>1. DOMAIN u.parts = 1 .. n
    OBVIOUS
  <1>2. \A i \in 1 .. n : u.parts[i] \in Parts
    OBVIOUS
  <1>3. ASSUME NEW e \in Parts PROVE e.says \in Nat /\ Has(e) \in Nat
    BY PartIs DEF Has
  <1>4. Say(u) = [i \in 1 .. n |-> Say(u)[i]] /\ Have(u) = [i \in 1 .. n |-> Have(u)[i]]
    BY <1>1 DEF Say, Have
  <1>5. AllSay(u) = AddedUp(Say(u)) /\ AllHave(u) = AddedUp(Have(u))
    BY DEF AllSay, AllHave, AddedUp, Say, Have
  <1>6. Counts(Say(u), n) /\ Counts(Have(u), n)
    BY <1>1, <1>2, <1>3 DEF Counts, Say, Have
  <1>7. QED
    BY <1>4, <1>5, <1>6 DEF SumTo

(* Of numbers.                                                             *)
LEMMA Climbs ==
  ASSUME NEW l \in Nat, NEW c \in Nat, NEW h \in Nat, NEW d \in Nat, d = c + h, l <= c
  PROVE  l <= d /\ l + h <= d
  OBVIOUS

LEMMA Exceeds ==
  ASSUME NEW x \in Nat, NEW y \in Nat, NEW z \in Nat, x <= y, x > z
  PROVE  y > z
  OBVIOUS

LEMMA WeighedOn ==
  ASSUME NEW u, NEW n \in Nat, u.parts \in [1 .. n -> Parts], NEW k \in 1 .. n,
         NEW s \in StageType, NEW t, Unpacked(s, u.parts[k], t), Weighed(s, u, k - 1, n)
  PROVE  Weighed(t, u, k, n)
  <1> DEFINE e == u.parts[k]
             a == SumTo(Say(u), n)
             b == SumTo(Have(u), n)
             c == SumTo(Have(u), k - 1)
             d == SumTo(Have(u), k)
             x == SumTo(Say(u), k - 1)
  <1>1. Counts(Say(u), n) /\ Counts(Have(u), n)
    BY SizesAre
  <1>2. k - 1 \in 0 .. n /\ k \in 0 .. n /\ n \in 0 .. n
    OBVIOUS
  <1>3. e \in Parts /\ Have(u)[k] = Has(e) /\ Say(u)[k] = e.says
    BY DEF Have, Say
  <1> HIDE DEF e
  <1>4. /\ a \in Nat /\ b \in Nat /\ c \in Nat /\ d \in Nat /\ d = c + Has(e) /\ d <= b
    <2>1. d = c + Has(e)
      BY <1>1, <1>3, SumToIs
    <2>2. d <= b
      BY <1>1, <1>2, SumsGrow
    <2>3. a \in Nat /\ b \in Nat /\ c \in Nat /\ d \in Nat
      BY <1>1, <1>2, SumToIs
    <2>4. QED
      BY <2>1, <2>2, <2>3
  <1>5. e.says \in Nat /\ e.says <= a
    <2>1. SumTo(Say(u), k) = x + e.says /\ x \in Nat /\ SumTo(Say(u), k) <= a
      BY <1>1, <1>2, <1>3, SumToIs, SumsGrow
    <2>2. e.says \in Nat
      BY <1>1, <1>3 DEF Counts
    <2> HIDE DEF x, a
    <2>3. QED
      BY <1>4, <2>1, <2>2
  <1>6. Has(e) \in Nat
    BY <1>1, <1>3 DEF Counts
  <1>7. s.live \in Nat /\ zipBytes \in Nat
    BY StageOf, ZipExtractAssumption
  <1>8. s.live <= c /\ (s.err = "too big" => a > zipBytes \/ b > zipBytes)
    BY DEF Weighed
  <1> HIDE DEF a, b, c, d, x
  <1>9. s.live <= d /\ s.live + Has(e) <= d
    BY <1>4, <1>6, <1>7, <1>8, Climbs
  <1>10. e.kind = "file" => Has(e) = e.has
    BY DEF Has
  <1>11. t.live <= d
    <2>1. CASE t.live = s.live
      BY <1>9, <2>1
    <2>2. CASE Fills(s, e, t)
      <3>1. t.live = s.live + Has(e)
        BY <1>10, <2>2 DEF Fills, LiveTotal
      <3>2. QED
        BY <1>9, <3>1
    <2>3. QED
      BY <2>1, <2>2 DEF Unpacked, Passes, Stops, Opens, SameFiles, e
  <1>12. ASSUME t.err = "too big" PROVE a > zipBytes \/ b > zipBytes
    <2>1. CASE s.err # ""
      BY <1>8, <1>12, <2>1 DEF Unpacked
    <2>2. CASE s.err = ""
      <3>1. e.kind = "file" /\ (e.says > zipBytes \/ TooBig(s, e))
        BY <1>12, <2>2 DEF Unpacked, Passes, Stops, Opens, Fills, e
      <3>2. e.says > zipBytes \/ Has(e) > zipBytes \/ s.live + Has(e) > zipBytes
        BY <1>10, <3>1 DEF TooBig, LiveTotal
      <3>3. s.live + Has(e) \in Nat /\ s.live + Has(e) <= b /\ Has(e) <= b
        <4> DEFINE l == s.live
                   h == Has(e)
        <4>1. l \in Nat /\ h \in Nat /\ c \in Nat /\ d \in Nat /\ b \in Nat /\ d = c + h /\ d <= b /\ l + h <= d
          BY <1>4, <1>6, <1>7, <1>9
        <4> HIDE DEF l, h
        <4>2. l + h \in Nat /\ l + h <= b /\ h <= b
          BY ONLY <4>1
        <4>3. QED
          BY <4>2 DEF l, h
      <3>4. CASE e.says > zipBytes
        BY <1>4, <1>5, <1>7, <3>4, Exceeds
      <3>5. CASE Has(e) > zipBytes
        BY <1>4, <1>6, <1>7, <3>3, <3>5, Exceeds
      <3>6. CASE s.live + Has(e) > zipBytes
        BY <1>4, <1>7, <3>3, <3>6, Exceeds
      <3>7. QED
        BY <3>2, <3>4, <3>5, <3>6
    <2>3. QED
      BY <2>1, <2>2
  <1>13. QED
    BY <1>11, <1>12 DEF Weighed, a, b, d

(* What is in place while nothing has been passed over.                    *)
InPlace(s, u, k) ==
  s.err = "" /\ s.skipped = 0 =>
    \A i \in 1 .. k :
      u.parts[i].kind = "file" =>
        u.parts[i].path \in DOMAIN s.data /\ s.data[u.parts[i].path] = u.parts[i].has

LEMMA InPlaceOn ==
  ASSUME NEW u, NEW n \in Nat, u.parts \in [1 .. n -> Parts], NEW k \in 1 .. n,
         NEW s \in StageType, NEW t, Unpacked(s, u.parts[k], t), InPlace(s, u, k - 1)
  PROVE  InPlace(t, u, k)
  <1>1. \A i \in 1 .. k : i = k \/ i \in 1 .. k - 1
    <2>1. k \in Nat
      OBVIOUS
    <2>2. QED
      BY ONLY <2>1
  <1> DEFINE e == u.parts[k]
  <1> SUFFICES ASSUME t.err = "", t.skipped = 0
               PROVE  \A i \in 1 .. k :
                        u.parts[i].kind = "file" =>
                          u.parts[i].path \in DOMAIN t.data /\ t.data[u.parts[i].path] = u.parts[i].has
    BY DEF InPlace
  <1>2. s.err = ""
    BY DEF Unpacked
  <1>3. ~Passes(s, e, t)
    <2> DEFINE j == s.skipped
    <2>1. j \in Nat
      BY StageOf
    <2> HIDE DEF j
    <2>2. j + 1 # 0
      BY ONLY <2>1
    <2>3. QED
      BY <2>2 DEF Passes, j
  <1>4. ~Stops(s, e, t)
    BY DEF Stops
  <1>5. Opens(s, e, t) \/ Fills(s, e, t)
    BY <1>2, <1>3, <1>4 DEF Unpacked
  <1>6. s.skipped = 0
    BY <1>5 DEF Opens, Fills
  <1>7. \A i \in 1 .. k - 1 :
          u.parts[i].kind = "file" =>
            u.parts[i].path \in DOMAIN s.data /\ s.data[u.parts[i].path] = u.parts[i].has
    BY <1>2, <1>6 DEF InPlace
  <1>8. CASE Opens(s, e, t)
    BY <1>1, <1>7, <1>8 DEF Opens, SameFiles
  <1>9. CASE Fills(s, e, t)
    <2>1. e.path \notin DOMAIN s.data /\ t.data = Added(s.data, e.path, e.has)
      BY <1>9 DEF Fills
    <2>2. /\ DOMAIN t.data = DOMAIN s.data \cup {e.path} /\ t.data[e.path] = e.has
          /\ \A p \in DOMAIN s.data : t.data[p] = s.data[p]
      BY <2>1 DEF Added
    <2>3. QED
      BY <1>1, <1>7, <2>2
  <1>10. QED
    BY <1>5, <1>8, <1>9

(* The fold over the entries by its steps.                                 *)
UnpackTable(t, u, n) ==
  /\ \A k \in 0 .. n : t[k] \in StageType
  /\ t[0] = Stage
  /\ \A k \in 1 .. n : Unpacked(t[k - 1], u.parts[k], t[k])

LEMMA UnpackSteps ==
  ASSUME NEW u, NEW n \in Nat, u.parts \in [1 .. n -> Parts]
  PROVE  \E t : UnpackTable(t, u, n) /\ FoldLeft(Unpack, Stage, u.parts) = t[n]
  <1> DEFINE V == StageType
             a == u.parts
             s == Stage
             G == [k \in 1 .. n |-> [v \in V |-> Unpack(v, a[k])]]
             Eqn(it) == it = [x \in SUBSET (DOMAIN a) |->
                               IF x = {} THEN s ELSE Unpack(it[x \ {Max(x)}], a[Max(x)])]
             it == CHOOSE it : Eqn(it)
  <1>1. \A v \in V, k \in 1 .. n : Unpack(v, a[k]) \in V
    BY UnpackIs DEF Unpacked
  <1>2. Maps(G, n, V) /\ \A k \in 1 .. n, v \in V : G[k][v] = Unpack(v, a[k])
    <2> HIDE DEF V, a
    <2>1. QED
      BY <1>1 DEF Maps
  <1>3. FoldLeft(Unpack, s, a) = it[1 .. n]
    BY DEF FoldLeft, MapThenFoldSet
  <1>4. DOMAIN a = 1 .. n /\ s \in V
    BY StageStocked
  <1> HIDE DEF V, G, it, s, a
  <1>5. \A x \in SUBSET (1 .. n) : x # {} => Max(x) \in 1 .. n
    BY MaxIn
  <1>6. PICK h \in [SUBSET (1 .. n) -> V] : Folds(h, n, s, G)
    BY <1>2, <1>4, FoldExists
  <1>7. \A x \in SUBSET (1 .. n) :
          h[x] = IF x = {} THEN s ELSE Unpack(h[x \ {Max(x)}], a[Max(x)])
    <2>1. \A x \in SUBSET (1 .. n) : h[x \ {Max(x)}] \in V
      OBVIOUS
    <2>2. \A x \in SUBSET (1 .. n) :
            h[x] = IF x = {} THEN s ELSE G[Max(x)][h[x \ {Max(x)}]]
      BY <1>6 DEF Folds
    <2>3. QED
      BY <1>2, <1>5, <2>1, <2>2
  <1>8. Eqn(it)
    BY <1>4, <1>7 DEF it
  <1>9. Iterates(it, V, n, s, G)
    <2>1. \A x \in SUBSET (1 .. n) :
            it[x] = IF x = {} THEN s ELSE Unpack(it[x \ {Max(x)}], a[Max(x)])
      BY <1>4, <1>8
    <2> HIDE DEF Eqn
    <2>2. it[{}] = s
      BY <2>1
    <2>3. \A x \in SUBSET (1 .. n) :
            x # {} /\ it[x \ {Max(x)}] \in V => it[x] = G[Max(x)][it[x \ {Max(x)}]]
      BY <1>2, <1>5, <2>1
    <2>4. QED
      BY <2>2, <2>3 DEF Iterates
  <1> HIDE DEF Eqn
  <1>10. PICK t : Table(t, V, n, s, G) /\ it[1 .. n] = t[n]
    BY <1>2, <1>4, <1>9, FoldTable
  <1>11. /\ \A k \in 0 .. n : t[k] \in V
         /\ t[0] = s
         /\ \A k \in 1 .. n : t[k] = G[k][t[k - 1]]
    BY <1>10 DEF Table
  <1>12. \A k \in 1 .. n : k - 1 \in 0 .. n
    OBVIOUS
  <1>13. \A k \in 1 .. n : t[k] = Unpack(t[k - 1], a[k])
    BY <1>2, <1>11, <1>12
  <1>14. \A k \in 1 .. n : Unpacked(t[k - 1], a[k], t[k])
    <2>1. \A k \in 1 .. n : a[k] \in Parts
      BY DEF a
    <2>2. QED
      BY <1>11, <1>12, <1>13, <2>1, UnpackIs DEF V
  <1>15. QED
    BY <1>3, <1>10, <1>11, <1>14 DEF UnpackTable, V, s, a

(* What all of the entries make of the stage.                              *)
LEMMA UnpackedAll ==
  ASSUME NEW u, NEW n \in Nat, u.parts \in [1 .. n -> Parts],
         NEW s, s = FoldLeft(Unpack, Stage, u.parts)
  PROVE  s \in StageType /\ Stocked(s) /\ Weighed(s, u, n, n) /\ InPlace(s, u, n)
  <1>1. PICK t : UnpackTable(t, u, n) /\ s = t[n]
    BY UnpackSteps
  <1> DEFINE Good(k) == Stocked(t[k]) /\ Weighed(t[k], u, k, n) /\ InPlace(t[k], u, k)
             B == {k \in 0 .. n : Good(k)}
  <1>2. /\ \A k \in 0 .. n : t[k] \in StageType
        /\ t[0] = Stage
        /\ \A k \in 1 .. n : Unpacked(t[k - 1], u.parts[k], t[k])
    BY <1>1 DEF UnpackTable
  <1>3. Good(0)
    <2>1. Stocked(Stage)
      BY StageStocked
    <2>2. Weighed(Stage, u, 0, n)
      <3>1. SumTo(Have(u), 0) = 0
        BY SizesAre, SumToIs
      <3>2. Stage.live = 0 /\ Stage.err # "too big"
        BY Zenon DEF Stage
      <3>3. 0 <= 0
        OBVIOUS
      <3>4. QED
        BY ONLY <3>1, <3>2, <3>3, Zenon DEF Weighed
    <2>3. InPlace(Stage, u, 0)
      <3>1. 1 .. 0 = {}
        OBVIOUS
      <3>2. QED
        BY ONLY <3>1, Zenon DEF InPlace
    <2>4. QED
      BY <1>2, <2>1, <2>2, <2>3
  <1>4. ASSUME NEW k \in 1 .. n, Good(k - 1) PROVE Good(k)
    <2>1. k - 1 \in 0 .. n /\ k \in 0 .. n
      OBVIOUS
    <2>2. t[k - 1] \in StageType /\ Unpacked(t[k - 1], u.parts[k], t[k]) /\ u.parts[k] \in Parts
      BY <1>2, <2>1
    <2>3. Stocked(t[k])
      BY <1>4, <2>2, StockedOn
    <2>4. Weighed(t[k], u, k, n)
      BY <1>4, <2>2, WeighedOn
    <2>5. InPlace(t[k], u, k)
      BY <1>4, <2>2, InPlaceOn
    <2>6. QED
      BY <2>3, <2>4, <2>5
  <1>5. 0 .. n \subseteq B
    <2>1. 0 \in B
      BY <1>3
    <2>2. \A k \in 1 .. n : k - 1 \in B => k \in B
      BY <1>4
    <2> HIDE DEF B
    <2>3. QED
      BY <2>1, <2>2, Upward
  <1>6. Good(n)
    BY <1>5
  <1>7. QED
    BY <1>1, <1>2, <1>6

LEMMA Wraps ==
  ASSUME NEW x \in Nat, NEW w \in Nat, w > 0
  PROVE  x % w \in Nat /\ x % w <= x
  <1>1. x % w \in 0 .. w - 1
    OBVIOUS
  <1>2. CASE x < w
    <2>1. x % w = x
      BY <1>2
    <2>2. QED
      BY <2>1
  <1>3. CASE x >= w
    BY <1>1, <1>3
  <1>4. QED
    BY <1>2, <1>3, <1>1

(* The sum of the headers, by its steps.                                   *)
Header(t, e) == IF t > zipBytes THEN t ELSE (t + e.says) % Wide

LEMMA HeaderIs ==
  ASSUME NEW t \in Nat, NEW e \in Parts
  PROVE  Header(t, e) \in Nat /\ Header(t, e) <= t + e.says
  <1> DEFINE y == e.says
  <1>1. y \in Nat
    BY PartIs
  <1>2. Wide \in Nat /\ Wide > 0 /\ zipBytes \in Nat
    BY ZipExtractAssumption
  <1>3. Header(t, e) = IF t > zipBytes THEN t ELSE (t + y) % Wide
    BY DEF Header
  <1> HIDE DEF y
  <1>4. t + y \in Nat
    BY <1>1
  <1> DEFINE x == t + y
             r == x % Wide
  <1>5. x \in Nat /\ r \in Nat /\ r <= x
    <2>1. x \in Nat
      BY <1>4
    <2> HIDE DEF x
    <2>2. QED
      BY <1>2, <2>1, Wraps
  <1>6. t <= x
    BY <1>1
  <1>7. Header(t, e) = IF t > zipBytes THEN t ELSE r
    BY <1>3
  <1> HIDE DEF r, x
  <1>8. Header(t, e) \in Nat /\ Header(t, e) <= x
    BY <1>5, <1>6, <1>7
  <1>9. QED
    BY <1>8 DEF x, y

LEMMA DeclaredSteps ==
  ASSUME NEW u, NEW n \in Nat, u.parts \in [1 .. n -> Parts]
  PROVE  \E m : /\ m \in [0 .. n -> Nat] /\ m[0] = 0
                /\ \A k \in 1 .. n : m[k] = Header(m[k - 1], u.parts[k])
                /\ Declared(u) = m[n]
  <1> DEFINE V == Nat
             a == u.parts
             G == [k \in 1 .. n |-> [v \in V |-> Header(v, a[k])]]
             Eqn(it) == it = [x \in SUBSET (DOMAIN a) |->
                               IF x = {} THEN 0 ELSE Header(it[x \ {Max(x)}], a[Max(x)])]
             it == CHOOSE it : Eqn(it)
  <1>1. \A v \in V, k \in 1 .. n : Header(v, a[k]) \in V
    BY HeaderIs
  <1>2. Maps(G, n, V) /\ \A k \in 1 .. n, v \in V : G[k][v] = Header(v, a[k])
    <2> HIDE DEF V, a
    <2>1. QED
      BY <1>1 DEF Maps
  <1>3. Declared(u) = it[1 .. n]
    BY DEF Declared, FoldLeft, MapThenFoldSet, Header
  <1>4. DOMAIN a = 1 .. n /\ 0 \in V
    OBVIOUS
  <1> HIDE DEF V, G, it, a
  <1>5. \A x \in SUBSET (1 .. n) : x # {} => Max(x) \in 1 .. n
    BY MaxIn
  <1>6. PICK h \in [SUBSET (1 .. n) -> V] : Folds(h, n, 0, G)
    BY <1>2, <1>4, FoldExists
  <1>7. \A x \in SUBSET (1 .. n) :
          h[x] = IF x = {} THEN 0 ELSE Header(h[x \ {Max(x)}], a[Max(x)])
    <2>1. \A x \in SUBSET (1 .. n) : h[x \ {Max(x)}] \in V
      OBVIOUS
    <2>2. \A x \in SUBSET (1 .. n) :
            h[x] = IF x = {} THEN 0 ELSE G[Max(x)][h[x \ {Max(x)}]]
      BY <1>6 DEF Folds
    <2>3. QED
      BY <1>2, <1>5, <2>1, <2>2
  <1>8. Eqn(it)
    BY <1>4, <1>7 DEF it
  <1>9. Iterates(it, V, n, 0, G)
    <2>1. \A x \in SUBSET (1 .. n) :
            it[x] = IF x = {} THEN 0 ELSE Header(it[x \ {Max(x)}], a[Max(x)])
      BY <1>4, <1>8
    <2> HIDE DEF Eqn
    <2>2. it[{}] = 0
      BY <2>1
    <2>3. \A x \in SUBSET (1 .. n) :
            x # {} /\ it[x \ {Max(x)}] \in V => it[x] = G[Max(x)][it[x \ {Max(x)}]]
      BY <1>2, <1>5, <2>1
    <2>4. QED
      BY <2>2, <2>3 DEF Iterates
  <1> HIDE DEF Eqn
  <1>10. PICK m : Table(m, V, n, 0, G) /\ it[1 .. n] = m[n]
    BY <1>2, <1>4, <1>9, FoldTable
  <1>11. /\ m \in [0 .. n -> V]
         /\ m[0] = 0
         /\ \A k \in 1 .. n : m[k] = G[k][m[k - 1]]
    BY <1>10 DEF Table
  <1>12. \A k \in 1 .. n : k - 1 \in 0 .. n
    OBVIOUS
  <1>13. \A k \in 1 .. n : m[k] = Header(m[k - 1], a[k])
    BY <1>2, <1>11, <1>12
  <1>14. QED
    BY <1>3, <1>10, <1>11, <1>13 DEF V, a

(* The headers sum to no more than they say, wrapped around or not.        *)
LEMMA DeclaredWithin ==
  ASSUME NEW u, NEW n \in Nat, u.parts \in [1 .. n -> Parts]
  PROVE  Declared(u) \in Nat /\ Declared(u) <= AllSay(u)
  <1>1. PICK m : /\ m \in [0 .. n -> Nat] /\ m[0] = 0
                 /\ \A k \in 1 .. n : m[k] = Header(m[k - 1], u.parts[k])
                 /\ Declared(u) = m[n]
    BY DeclaredSteps
  <1> DEFINE c == [k \in 0 .. n |-> SumTo(Say(u), k)]
             B == {k \in 0 .. n : m[k] <= c[k]}
  <1>2. Counts(Say(u), n) /\ AllSay(u) = SumTo(Say(u), n)
    BY SizesAre
  <1>3. /\ c \in [0 .. n -> Nat] /\ c[0] = 0
        /\ \A k \in 1 .. n : c[k] = c[k - 1] + Say(u)[k]
    BY <1>2, SumToIs
  <1>4. \A k \in 1 .. n : u.parts[k] \in Parts /\ Say(u)[k] = u.parts[k].says /\ Say(u)[k] \in Nat
    BY <1>2 DEF Say, Counts
  <1>5. n \in 0 .. n /\ 0 \in 0 .. n /\ 0 <= 0
    OBVIOUS
  <1>6. c[n] = AllSay(u)
    BY <1>2, <1>5
  <1> HIDE DEF c
  <1>7. 0 \in B
    BY <1>1, <1>3, <1>5
  <1>8. ASSUME NEW k \in 1 .. n, k - 1 \in B PROVE k \in B
    <2>1. k \in 0 .. n /\ k - 1 \in 0 .. n /\ m[k - 1] <= c[k - 1]
      BY <1>8
    <2> DEFINE x == m[k - 1]
               y == c[k - 1]
               e == u.parts[k]
               z == e.says
               h == Header(x, e)
    <2>2. x \in Nat /\ y \in Nat /\ x <= y /\ z \in Nat /\ e \in Parts
      BY <1>1, <1>3, <1>4, <2>1
    <2>3. m[k] = h /\ c[k] = y + z
      BY <1>1, <1>3, <1>4
    <2> HIDE DEF x, y, e
    <2>4. h \in Nat /\ h <= x + z
      BY <2>2, HeaderIs
    <2> HIDE DEF z, h
    <2>5. h <= y + z
      BY ONLY <2>2, <2>4
    <2>6. QED
      BY <2>1, <2>3, <2>5
  <1>9. n \in B
    <2>1. 0 .. n \subseteq B
      <3> HIDE DEF B
      <3>1. QED
        BY <1>7, <1>8, Upward
    <2>2. QED
      BY <1>5, <2>1
  <1>10. QED
    BY <1>1, <1>5, <1>6, <1>9

(* What an extraction returns.                                             *)
Tops(s) == {Top(p) : p \in DOMAIN s.data \cup s.dirs}
Placed(s, u) == {p \in DOMAIN s.data : Top(p) \notin u.stuck}
Extracted(s, u) ==
  [err |-> "", data |-> [p \in Placed(s, u) |-> s.data[p]], n |-> s.n,
   skipped |-> s.skipped + Cardinality(Tops(s) \cap u.stuck)]

LEMMA UploadIs ==
  ASSUME NEW u \in Uploads
  PROVE  u.stuck \subseteq Paths /\ \E n \in Nat : u.parts \in [1 .. n -> Parts]
  <1>1. u.stuck \in {{}, {<<"a">>}} /\ u.parts \in UNION {[1 .. k -> Parts] : k \in 1 .. MaxParts}
    BY Zenon DEF Uploads
  <1>2. u.stuck \subseteq Paths
    BY <1>1 DEF Paths
  <1>3. PICK n \in 1 .. MaxParts : u.parts \in [1 .. n -> Parts]
    BY <1>1
  <1>4. n \in Nat
    OBVIOUS
  <1>5. QED
    BY <1>2, <1>3, <1>4

LEMMA ExtractedIs ==
  ASSUME NEW u, NEW s, s = FoldLeft(Unpack, Stage, u.parts)
  PROVE  \/ Refused(u) # "" /\ extractZipIn(u) = Nothing(Refused(u))
         \/ s.err # "" /\ extractZipIn(u) = Nothing(s.err)
         \/ extractZipIn(u) = Nothing("empty")
         \/ s.err = "" /\ extractZipIn(u) = Extracted(s, u)
  <1> DEFINE r == Refused(u)
             p == r # ""
             q == r = "" /\ s.err # ""
             m == r = "" /\ s.err = "" /\ (s.n = 0 \/ Tops(s) \subseteq u.stuck)
             x == CASE p -> Nothing(r) [] q -> Nothing(s.err) [] m -> Nothing("empty")
                    [] OTHER -> Extracted(s, u)
  <1>1. extractZipIn(u) = x
    BY DEF extractZipIn, Tops, Placed, Extracted
  <1>2. /\ p => r # "" /\ ~q /\ ~m
        /\ q => s.err # "" /\ ~m
        /\ ~p /\ ~q => s.err = ""
    OBVIOUS
  <1> HIDE DEF p, q, m
  <1>3. CASE p
    BY <1>1, <1>2, <1>3
  <1>4. CASE ~p /\ q
    BY <1>1, <1>2, <1>4
  <1>5. CASE ~p /\ ~q /\ m
    BY <1>1, <1>2, <1>5
  <1>6. CASE ~p /\ ~q /\ ~m
    BY <1>1, <1>2, <1>6
  <1>7. QED
    BY <1>3, <1>4, <1>5, <1>6

LEMMA SaysNat ==
  ASSUME NEW u, NEW n \in Nat, u.parts \in [1 .. n -> Parts]
  PROVE  AllSay(u) \in Nat
  <1>1. Counts(Say(u), n) /\ AllSay(u) = SumTo(Say(u), n)
    BY SizesAre
  <1>2. n \in 0 .. n
    OBVIOUS
  <1>3. QED
    BY <1>1, <1>2, SumToIs

LEMMA RefusedIs ==
  ASSUME NEW u, NEW n \in Nat, u.parts \in [1 .. n -> Parts], Refused(u) = "too big"
  PROVE  AllSay(u) > zipBytes
  <1>1. Declared(u) > zipBytes
    <2> DEFINE c == Len(u.parts) > zipFiles + SpareEntries
               d == Len(u.parts) <= zipFiles + SpareEntries
               b == Declared(u) > zipBytes
    <2>1. Refused(u) = CASE c -> "too many" [] d /\ b -> "too big" [] OTHER -> ""
      BY DEF Refused
    <2> HIDE DEF c, d, b
    <2>2. b
      <3>1. ASSUME ~b PROVE FALSE
        <4>1. Refused(u) = "too many" \/ Refused(u) = ""
          BY ONLY <2>1, <3>1
        <4>2. QED
          BY <4>1
      <3>2. QED
        BY <3>1
    <2>3. QED
      BY <2>2 DEF b
  <1>2. Declared(u) \in Nat /\ Declared(u) <= AllSay(u)
    BY DeclaredWithin
  <1>3. AllSay(u) \in Nat
    BY SaysNat
  <1>4. QED
    BY <1>1, <1>2, <1>3, ZipExtractAssumption, Exceeds

(* Nothing of a refused archive is placed.                                 *)
LEMMA NothingIs ==
  ASSUME NEW err
  PROVE  /\ Nothing(err).err = err
         /\ AllBytes(Nothing(err)) <= zipBytes /\ Cardinality(DOMAIN Nothing(err).data) <= zipFiles
  <1> DEFINE r == Nothing(err)
  <1>1. r.data = <<>> /\ r.err = err
    BY DEF Nothing
  <1>2. <<>> \in [{} -> Nat] /\ DOMAIN <<>> = {} /\ <<>> = [p \in {} |-> <<>>[p]]
    OBVIOUS
  <1>3. IsFiniteSet({}) /\ Cardinality({}) = 0
    BY FS_EmptySet
  <1> HIDE DEF r
  <1>4. AllBytes(r) \in Nat /\ AllBytes(r) <= SumOf(<<>>) /\ SumOf(<<>>) \in Nat
    <2> DEFINE h == <<>>
               e == {}
    <2>1. IsFiniteSet(e) /\ h \in [e -> Nat] /\ e \in SUBSET e /\ r.data = [p \in e |-> h[p]]
      BY <1>1, <1>2, <1>3
    <2> HIDE DEF h, e
    <2>2. AllBytes(r) \in Nat /\ AllBytes(r) <= SumOf(h) /\ SumOf(h) \in Nat
      BY <2>1, BytesWithin
    <2>3. QED
      BY <2>2 DEF h
  <1>5. SumOf(<<>>) <= zipBytes
    <2>1. Stocked(Stage) /\ Stage.data = <<>>
      BY StageStocked DEF Stage
    <2>2. QED
      BY <2>1 DEF Stocked
  <1>6. AllBytes(r) <= zipBytes
    BY <1>4, <1>5, ZipExtractAssumption
  <1>7. Cardinality(DOMAIN r.data) <= zipFiles
    BY <1>1, <1>2, <1>3, ZipExtractAssumption
  <1>8. QED
    BY <1>1, <1>6, <1>7 DEF r

Whole(u, x) ==
  x.err = "" /\ x.skipped = 0 =>
    /\ \A i \in FileParts(u) :
         u.parts[i].path \in DOMAIN x.data /\ x.data[u.parts[i].path] = u.parts[i].has
    /\ Cardinality(DOMAIN x.data) = x.n

Bounded(u, x) ==
  /\ AllBytes(x) <= zipBytes
  /\ Cardinality(DOMAIN x.data) <= zipFiles
  /\ x.err = "too big" => AllSay(u) > zipBytes \/ AllHave(u) > zipBytes

LEMMA PlacedIs ==
  ASSUME NEW u \in Uploads, NEW n \in Nat, u.parts \in [1 .. n -> Parts],
         NEW s \in StageType, s.err = "", Stocked(s), InPlace(s, u, n)
  PROVE  Whole(u, Extracted(s, u)) /\ Bounded(u, Extracted(s, u))
  <1> DEFINE x == Extracted(s, u)
             D == DOMAIN s.data
             T == Placed(s, u)
             F == Tops(s) \cap u.stuck
  <1>1. /\ IsFiniteSet(D) /\ s.data \in [D -> Nat] /\ s.n \in Nat /\ s.live \in Nat /\ s.skipped \in Nat
    BY StageOf
  <1>2. /\ x.data = [p \in T |-> s.data[p]] /\ x.n = s.n /\ x.err = ""
        /\ x.skipped = s.skipped + Cardinality(F)
    BY DEF Extracted
  <1>3. T \in SUBSET D
    BY DEF Placed
  <1>4. IsFiniteSet(F)
    <2>1. u.stuck \subseteq Paths
      BY UploadIs
    <2>2. QED
      BY <2>1, PathsAre, FS_Subset
  <1>5. Cardinality(F) \in Nat
    BY <1>4, FS_CardinalityType
  <1>6. IsFiniteSet(T) /\ Cardinality(T) \in Nat /\ Cardinality(T) <= Cardinality(D) /\ Cardinality(D) \in Nat
    BY <1>1, <1>3, FS_Subset, FS_CardinalityType
  <1>7. DOMAIN x.data = T
    BY <1>2
  <1>8. Cardinality(D) = s.n /\ s.n <= zipFiles /\ s.live = SumOf(s.data) /\ s.live <= zipBytes
    BY DEF Stocked
  <1>9. AllBytes(x) \in Nat /\ AllBytes(x) <= SumOf(s.data)
    <2> DEFINE h == s.data
    <2>1. IsFiniteSet(D) /\ h \in [D -> Nat] /\ T \in SUBSET D /\ x.data = [p \in T |-> h[p]]
      BY <1>1, <1>2, <1>3
    <2> HIDE DEF h, x, T, D
    <2>2. AllBytes(x) \in Nat /\ AllBytes(x) <= SumOf(h)
      BY ONLY <2>1, BytesWithin
    <2>3. QED
      BY <2>2 DEF h
  <1>10. (T = D /\ s.skipped = 0) \/ x.skipped # 0
    <2>1. CASE F = {} /\ s.skipped = 0
      <3>1. \A p \in D : Top(p) \in Tops(s)
        BY DEF Tops
      <3>2. QED
        BY <2>1, <3>1 DEF Placed
    <2>2. CASE F # {}
      <3>1. Cardinality(F) # 0
        BY <1>4, <2>2, FS_EmptySet
      <3> DEFINE c == Cardinality(F)
                 j == s.skipped
      <3>2. c \in Nat /\ j \in Nat /\ c # 0
        BY <1>1, <1>5, <3>1
      <3> HIDE DEF c, j
      <3>3. j + c # 0
        BY ONLY <3>2
      <3>4. QED
        BY <1>2, <3>3 DEF c, j
    <2>3. CASE s.skipped # 0
      <3> DEFINE c == Cardinality(F)
                 j == s.skipped
      <3>1. c \in Nat /\ j \in Nat /\ j # 0
        BY <1>1, <1>5, <2>3
      <3> HIDE DEF c, j
      <3>2. j + c # 0
        BY ONLY <3>1
      <3>3. QED
        BY <1>2, <3>2 DEF c, j
    <2>4. QED
      BY <2>1, <2>2, <2>3
  <1> HIDE DEF x, T, D
  <1>11. Whole(u, x)
    <2> SUFFICES ASSUME x.skipped = 0
                 PROVE  /\ \A i \in FileParts(u) :
                             /\ u.parts[i].path \in DOMAIN x.data
                             /\ x.data[u.parts[i].path] = u.parts[i].has
                        /\ Cardinality(DOMAIN x.data) = x.n
      BY DEF Whole
    <2>1. T = D /\ s.skipped = 0
      BY <1>10
    <2>2. DOMAIN x.data = D /\ \A p \in D : x.data[p] = s.data[p]
      BY <1>2, <1>7, <2>1
    <2>3. \A i \in 1 .. n :
            u.parts[i].kind = "file" =>
              u.parts[i].path \in D /\ s.data[u.parts[i].path] = u.parts[i].has
      BY <2>1 DEF InPlace, D
    <2>4. FileParts(u) = {i \in 1 .. n : u.parts[i].kind = "file"}
      BY DEF FileParts
    <2>5. \A i \in FileParts(u) :
            u.parts[i].path \in DOMAIN x.data /\ x.data[u.parts[i].path] = u.parts[i].has
      BY <2>2, <2>3, <2>4
    <2>6. Cardinality(DOMAIN x.data) = x.n
      BY <1>2, <1>8, <2>2
    <2>7. QED
      BY <2>5, <2>6
  <1>12. Bounded(u, x)
    <2>1. AllBytes(x) <= zipBytes
      <3> DEFINE y == AllBytes(x)
                 l == s.live
      <3>1. y \in Nat /\ l \in Nat /\ zipBytes \in Nat /\ y <= l /\ l <= zipBytes
        BY <1>1, <1>8, <1>9, ZipExtractAssumption
      <3> HIDE DEF y, l
      <3>2. y <= zipBytes
        BY ONLY <3>1
      <3>3. QED
        BY <3>2 DEF y
    <2>2. Cardinality(DOMAIN x.data) <= zipFiles
      <3> DEFINE y == Cardinality(T)
                 l == s.n
      <3>1. y \in Nat /\ l \in Nat /\ zipFiles \in Nat /\ y <= l /\ l <= zipFiles
        BY <1>1, <1>6, <1>8, ZipExtractAssumption
      <3> HIDE DEF y, l
      <3>2. y <= zipFiles
        BY ONLY <3>1
      <3>3. QED
        BY <1>7, <3>2 DEF y
    <2>3. x.err # "too big"
      BY <1>2
    <2>4. QED
      BY <2>1, <2>2, <2>3 DEF Bounded
  <1>13. QED
    BY <1>11, <1>12 DEF x

(* Every archive of any number of entries.                                 *)
LEMMA ExtractKeeps ==
  ASSUME NEW u \in Uploads
  PROVE  Whole(u, extractZipIn(u)) /\ Bounded(u, extractZipIn(u))
  <1> DEFINE x == extractZipIn(u)
             s == FoldLeft(Unpack, Stage, u.parts)
  <1>1. PICK n \in Nat : u.parts \in [1 .. n -> Parts]
    BY UploadIs
  <1>2. s \in StageType /\ Stocked(s) /\ Weighed(s, u, n, n) /\ InPlace(s, u, n)
    BY <1>1, UnpackedAll
  <1>3. \/ Refused(u) # "" /\ x = Nothing(Refused(u))
        \/ s.err # "" /\ x = Nothing(s.err)
        \/ x = Nothing("empty")
        \/ s.err = "" /\ x = Extracted(s, u)
    BY ExtractedIs
  <1> SUFFICES Whole(u, x) /\ Bounded(u, x)
    OBVIOUS
  <1> HIDE DEF x, s
  <1>4. CASE s.err = "" /\ x = Extracted(s, u)
    BY <1>1, <1>2, <1>4, PlacedIs
  <1>5. ASSUME NEW err, err # "", x = Nothing(err),
               err = "too big" => AllSay(u) > zipBytes \/ AllHave(u) > zipBytes
        PROVE  Whole(u, x) /\ Bounded(u, x)
    <2>1. /\ x.err = err
          /\ AllBytes(x) <= zipBytes /\ Cardinality(DOMAIN x.data) <= zipFiles
      BY <1>5, NothingIs
    <2>2. Whole(u, x)
      BY <1>5, <2>1 DEF Whole
    <2>3. Bounded(u, x)
      BY <1>5, <2>1 DEF Bounded
    <2>4. QED
      BY <2>2, <2>3
  <1>6. CASE Refused(u) # "" /\ x = Nothing(Refused(u))
    BY <1>1, <1>5, <1>6, RefusedIs
  <1>7. CASE s.err # "" /\ x = Nothing(s.err)
    <2>1. s.err = "too big" => AllSay(u) > zipBytes \/ AllHave(u) > zipBytes
      <3>1. AllSay(u) = SumTo(Say(u), n) /\ AllHave(u) = SumTo(Have(u), n)
        BY <1>1, SizesAre
      <3>2. QED
        BY <1>2, <3>1 DEF Weighed
    <2>2. QED
      BY <1>5, <1>7, <2>1
  <1>8. CASE x = Nothing("empty")
    BY <1>5, <1>8
  <1>9. QED
    BY <1>3, <1>4, <1>6, <1>7, <1>8

(* For any archive and any caps: an extraction that succeeds and reports   *)
(* nothing skipped has placed every file of the archive with its data, and *)
(* nothing else; what is placed is within the caps; and an archive is      *)
(* refused for its size only when its sizes, said or real, exceed the cap. *)
THEOREM ExtractCorrect == upload = NoUpload /\ [][upload' \in Uploads]_upload => []ExtractInv
  <1> DEFINE IInv == upload = NoUpload \/ upload \in Uploads
  <1>1. ASSUME IInv PROVE ExtractInv
    <2>1. CASE upload = NoUpload
      BY <2>1 DEF ExtractInv, ExtractIsWhole, ExtractIsBounded
    <2>2. CASE upload \in Uploads
      <3>1. Whole(upload, extractZipIn(upload)) /\ Bounded(upload, extractZipIn(upload))
        BY <2>2, ExtractKeeps
      <3>2. ExtractIsWhole
        BY <3>1 DEF ExtractIsWhole, Whole
      <3>3. ExtractIsBounded
        BY <3>1 DEF ExtractIsBounded, Bounded
      <3>4. QED
        BY <3>2, <3>3 DEF ExtractInv
    <2>3. QED
      BY <1>1, <2>1, <2>2
  <1>2. upload = NoUpload => IInv
    OBVIOUS
  <1>3. IInv /\ [upload' \in Uploads]_upload => IInv'
    OBVIOUS
  <1>4. QED
    BY <1>1, <1>2, <1>3, PTL

-----------------------------------------------------------------------------
(* FolderWalk.  The walk is followed folder by folder: what it has listed, *)
(* cut off and left on its stack after it has read the folders in R is     *)
(* known entry by entry, and no folder is read twice, so that it has read  *)
(* them all before the rounds run out.                                     *)
LEMMA FolderIs ==
  ASSUME NEW f \in Folders, NEW n \in Node
  PROVE  /\ f.parent[n] \in 0 .. Nodes /\ f.parent[n] < n /\ f.kind[n] \in Kinds
         /\ f.parent[n] # 0 => f.parent[n] \in Node /\ f.kind[f.parent[n]] # "file"
  <1>1. /\ f.parent \in [Node -> 0 .. Nodes - 1] /\ f.kind \in [Node -> Kinds]
        /\ f.parent[n] < n
        /\ f.parent[n] # 0 => f.kind[f.parent[n]] # "file"
    BY DEF Folders
  <1>2. f.parent[n] \in 0 .. Nodes - 1 /\ f.kind[n] \in Kinds
    BY <1>1
  <1>3. Nodes \in Nat
    BY FolderWalkAssumption
  <1>4. f.parent[n] \in 0 .. Nodes /\ (f.parent[n] # 0 => f.parent[n] \in Node)
    BY <1>2, <1>3 DEF Node
  <1>5. QED
    BY <1>1, <1>2, <1>4

(* The folders above a node.                                               *)
RisesBy(f, up, k) ==
  \A m \in 0 .. k :
    up[m] = IF m = 0 \/ f.parent[m] = 0 THEN {} ELSE {f.parent[m]} \cup up[f.parent[m]]

LEMMA UpExists ==
  ASSUME NEW f \in Folders
  PROVE  \E up \in [0 .. Nodes -> SUBSET Node] : RisesBy(f, up, Nodes)
  <1> DEFINE B == {k \in 0 .. Nodes : \E up \in [0 .. k -> SUBSET Node] : RisesBy(f, up, k)}
  <1>1. Nodes \in Nat
    BY FolderWalkAssumption
  <1>2. 0 \in B
    <2>1. [m \in 0 .. 0 |-> {}] \in [0 .. 0 -> SUBSET Node] /\ RisesBy(f, [m \in 0 .. 0 |-> {}], 0)
      BY DEF RisesBy
    <2>2. QED
      BY <1>1, <2>1
  <1>3. ASSUME NEW k \in 1 .. Nodes, k - 1 \in B PROVE k \in B
    <2>1. PICK up \in [0 .. k - 1 -> SUBSET Node] : RisesBy(f, up, k - 1)
      BY <1>3
    <2> DEFINE p == f.parent[k]
               v == IF p = 0 THEN {} ELSE {p} \cup up[p]
               new == [m \in 0 .. k |-> IF m = k THEN v ELSE up[m]]
    <2>2. k \in Node /\ p \in 0 .. k - 1 /\ (p # 0 => p \in Node)
      BY <1>1, FolderIs DEF Node
    <2>3. v \in SUBSET Node
      BY <2>1, <2>2
    <2>4. new \in [0 .. k -> SUBSET Node]
      <3> HIDE DEF v
      <3>1. \A m \in 0 .. k : m = k \/ m \in 0 .. k - 1
        OBVIOUS
      <3>2. QED
        BY <2>1, <2>3, <3>1
    <2>5. ASSUME NEW m \in 0 .. k
          PROVE  new[m] = IF m = 0 \/ f.parent[m] = 0 THEN {} ELSE {f.parent[m]} \cup new[f.parent[m]]
      <3>1. CASE m = k
        <4>1. new[m] = v /\ new[p] = up[p] /\ m # 0
          BY <2>2, <3>1
        <4>2. QED
          BY <3>1, <4>1
      <3>2. CASE m # k
        <4>1. m \in 0 .. k - 1 /\ new[m] = up[m]
          BY <3>2
        <4>2. m # 0 => f.parent[m] \in 0 .. k - 1 /\ new[f.parent[m]] = up[f.parent[m]]
          <5> SUFFICES ASSUME m # 0 PROVE f.parent[m] \in 0 .. k - 1 /\ new[f.parent[m]] = up[f.parent[m]]
            OBVIOUS
          <5>1. m \in Node
            BY <1>1, <4>1 DEF Node
          <5>2. f.parent[m] \in 0 .. Nodes /\ f.parent[m] < m
            BY <5>1, FolderIs
          <5>3. f.parent[m] \in 0 .. k - 1
            BY <4>1, <5>2
          <5>4. QED
            BY <5>3
        <4> HIDE DEF new
        <4>3. QED
          BY <2>1, <4>1, <4>2 DEF RisesBy
      <3>3. QED
        BY <3>1, <3>2
    <2>6. RisesBy(f, new, k)
      BY <2>5 DEF RisesBy
    <2> HIDE DEF new
    <2>7. QED
      BY <1>1, <2>4, <2>6
  <1>4. Nodes \in B
    <2> HIDE DEF B
    <2>1. 0 .. Nodes \subseteq B
      BY <1>1, <1>2, <1>3, Upward
    <2>2. QED
      BY <1>1, <2>1
  <1>5. QED
    BY <1>4

LEMMA AboveIs ==
  ASSUME NEW f \in Folders
  PROVE  /\ Above(f, 0) = {}
         /\ \A n \in Node : /\ Above(f, n) \subseteq Node
                            /\ f.parent[n] = 0 => Above(f, n) = {}
                            /\ f.parent[n] # 0 =>
                                 Above(f, n) = {f.parent[n]} \cup Above(f, f.parent[n])
  <1> DEFINE Eqn(up) == up = [n \in 0 .. Nodes |->
                               IF n = 0 \/ f.parent[n] = 0 THEN {} ELSE {f.parent[n]} \cup up[f.parent[n]]]
             up == CHOOSE up : Eqn(up)
  <1>1. PICK u \in [0 .. Nodes -> SUBSET Node] : RisesBy(f, u, Nodes)
    BY UpExists
  <1>2. Eqn(u)
    BY <1>1 DEF RisesBy
  <1>3. AboveAll(f) = up
    BY DEF AboveAll
  <1> HIDE DEF up
  <1>4. Eqn(up)
    BY <1>2 DEF up
  <1>5. \A n \in 0 .. Nodes :
          up[n] = IF n = 0 \/ f.parent[n] = 0 THEN {} ELSE {f.parent[n]} \cup up[f.parent[n]]
    BY <1>4
  <1> HIDE DEF Eqn
  <1>6. Nodes \in Nat /\ \A n \in Node : n \in 0 .. Nodes /\ n # 0
    BY FolderWalkAssumption DEF Node
  <1>7. up[0] = {}
    <2>1. 0 \in 0 .. Nodes
      BY <1>6
    <2>2. QED
      BY ONLY <1>5, <2>1
  <1>8. \A n \in Node : up[n] = IF f.parent[n] = 0 THEN {} ELSE {f.parent[n]} \cup up[f.parent[n]]
    BY ONLY <1>5, <1>6, Zenon
  <1>9. \A n \in Node : up[n] \subseteq Node
    <2> DEFINE B == {k \in 0 .. Nodes : \A n \in 0 .. k : up[n] \subseteq Node}
    <2>1. 0 \in B
      BY <1>6, <1>7
    <2>2. ASSUME NEW k \in 1 .. Nodes, k - 1 \in B PROVE k \in B
      <3>1. k \in Node /\ k \in 0 .. Nodes
        BY <1>6 DEF Node
      <3>2. f.parent[k] \in 0 .. Nodes /\ f.parent[k] < k /\ (f.parent[k] # 0 => f.parent[k] \in Node)
        BY <3>1, FolderIs
      <3>3. f.parent[k] \in 0 .. k - 1
        BY <3>2
      <3>4. up[f.parent[k]] \subseteq Node
        BY <2>2, <3>3
      <3>5. up[k] \subseteq Node
        BY <1>8, <3>1, <3>2, <3>4
      <3>6. \A n \in 0 .. k : n = k \/ n \in 0 .. k - 1
        OBVIOUS
      <3>7. QED
        BY <2>2, <3>1, <3>5, <3>6
    <2>3. 0 .. Nodes \subseteq B
      <3> HIDE DEF B
      <3>1. QED
        BY <1>6, <2>1, <2>2, Upward
    <2>4. QED
      BY <1>6, <2>3
  <1>10. QED
    BY <1>3, <1>7, <1>8, <1>9 DEF Above

LEMMA Downward ==
  ASSUME NEW f \in Folders, NEW B,
         \A n \in Node : f.parent[n] = 0 \/ f.parent[n] \in B => n \in B
  PROVE  Node \subseteq B
  <1> DEFINE C == {k \in 0 .. Nodes : 1 .. k \subseteq B}
  <1>1. Nodes \in Nat
    BY FolderWalkAssumption
  <1>2. 0 \in C
    BY <1>1
  <1>3. ASSUME NEW k \in 1 .. Nodes, k - 1 \in C PROVE k \in C
    <2>1. k \in Node
      BY DEF Node
    <2>2. f.parent[k] \in 0 .. Nodes /\ f.parent[k] < k
      BY <2>1, FolderIs
    <2>3. f.parent[k] = 0 \/ f.parent[k] \in 1 .. k - 1
      BY <2>2
    <2>4. k \in B
      BY <1>3, <2>1, <2>3
    <2>5. 1 .. k = (1 .. k - 1) \cup {k}
      OBVIOUS
    <2>6. QED
      BY <1>3, <2>4, <2>5
  <1>4. 0 .. Nodes \subseteq C
    <2> HIDE DEF C
    <2>1. QED
      BY <1>1, <1>2, <1>3, Upward
  <1>5. Nodes \in C
    BY <1>1, <1>4
  <1>6. QED
    BY <1>5 DEF Node

(* Folders have smaller numbers than what is in them.                      *)
LEMMA AboveLess ==
  ASSUME NEW f \in Folders, NEW n \in Node
  PROVE  Above(f, n) \subseteq 1 .. n - 1 /\ IsFiniteSet(Above(f, n)) /\ n \notin Above(f, n)
  <1> DEFINE B == {m \in Node : Above(f, m) \subseteq 1 .. m - 1}
  <1>1. ASSUME NEW m \in Node, f.parent[m] = 0 \/ f.parent[m] \in B PROVE m \in B
    <2>1. CASE f.parent[m] = 0
      BY <2>1, AboveIs
    <2>2. CASE f.parent[m] # 0
      <3> DEFINE p == f.parent[m]
      <3>1. p \in Node /\ p < m
        BY <2>2, FolderIs
      <3>2. Above(f, p) \subseteq 1 .. p - 1 /\ Above(f, m) = {p} \cup Above(f, p)
        BY <1>1, <2>2, AboveIs
      <3> HIDE DEF p
      <3>3. QED
        BY <3>1, <3>2 DEF Node
    <2>3. QED
      BY <2>1, <2>2
  <1>2. Node \subseteq B
    <2> HIDE DEF B
    <2>1. QED
      BY <1>1, Downward
  <1>3. Above(f, n) \subseteq 1 .. n - 1 /\ n \in Nat
    BY <1>2 DEF Node
  <1>4. n \notin Above(f, n)
    BY <1>3
  <1>5. IsFiniteSet(1 .. n - 1)
    BY <1>3, FS_Interval
  <1>6. QED
    BY <1>3, <1>4, <1>5, FS_Subset

LEMMA AboveUp ==
  ASSUME NEW f \in Folders, NEW n \in Node, NEW d \in Above(f, n)
  PROVE  d \in Node /\ Above(f, d) \subseteq Above(f, n)
  <1> DEFINE B == {m \in Node : \A x \in Above(f, m) : Above(f, x) \subseteq Above(f, m)}
  <1>1. ASSUME NEW m \in Node, f.parent[m] = 0 \/ f.parent[m] \in B PROVE m \in B
    <2>1. CASE f.parent[m] = 0
      BY <2>1, AboveIs
    <2>2. CASE f.parent[m] # 0
      <3>1. Above(f, m) = {f.parent[m]} \cup Above(f, f.parent[m])
        BY <2>2, AboveIs
      <3>2. QED
        BY <1>1, <2>2, <3>1
    <2>3. QED
      BY <2>1, <2>2
  <1>2. Node \subseteq B
    <2> HIDE DEF B
    <2>1. QED
      BY <1>1, Downward
  <1>3. QED
    BY <1>2, AboveIs

(* Of two folders above the same node one is above the other.              *)
LEMMA AboveLine ==
  ASSUME NEW f \in Folders, NEW n \in Node, NEW x \in Above(f, n), NEW y \in Above(f, n)
  PROVE  x = y \/ x \in Above(f, y) \/ y \in Above(f, x)
  <1> DEFINE Line(m) == \A a, b \in Above(f, m) : a = b \/ a \in Above(f, b) \/ b \in Above(f, a)
             B == {m \in Node : Line(m)}
  <1>1. ASSUME NEW m \in Node, f.parent[m] = 0 \/ f.parent[m] \in B PROVE m \in B
    <2>1. CASE f.parent[m] = 0
      BY <2>1, AboveIs
    <2>2. CASE f.parent[m] # 0
      <3>1. Above(f, m) = {f.parent[m]} \cup Above(f, f.parent[m])
        BY <2>2, AboveIs
      <3>2. QED
        BY <1>1, <2>2, <3>1
    <2>3. QED
      BY <2>1, <2>2
  <1>2. Node \subseteq B
    <2> HIDE DEF B
    <2>1. QED
      BY <1>1, Downward
  <1>3. QED
    BY <1>2

LEMMA DepthIs ==
  ASSUME NEW f \in Folders, NEW n \in Node
  PROVE  /\ Depth(f, n) \in 1 .. Nodes
         /\ f.parent[n] = 0 <=> Depth(f, n) = 1
         /\ f.parent[n] # 0 => Depth(f, n) = Depth(f, f.parent[n]) + 1
         /\ \A d \in Above(f, n) : Depth(f, d) < Depth(f, n)
  <1>1. /\ Above(f, n) \subseteq 1 .. n - 1 /\ IsFiniteSet(Above(f, n)) /\ n \in 1 .. Nodes
        /\ n \notin Above(f, n) /\ Nodes \in Nat
    BY AboveLess, FolderWalkAssumption DEF Node
  <1>2. Cardinality(Above(f, n)) \in Nat
    BY <1>1, FS_CardinalityType
  <1>3. Cardinality(Above(f, n)) <= n - 1
    <2>1. IsFiniteSet(1 .. n - 1) /\ Cardinality(1 .. n - 1) = n - 1
      <3>1. n - 1 \in Nat
        BY <1>1
      <3>2. IF 1 > n - 1 THEN Cardinality(1 .. n - 1) = 0 ELSE Cardinality(1 .. n - 1) = (n - 1) - 1 + 1
        BY <3>1, FS_Interval
      <3>3. IsFiniteSet(1 .. n - 1)
        BY <3>1, FS_Interval
      <3>4. QED
        BY <3>1, <3>2, <3>3
    <2>2. Cardinality(Above(f, n)) <= Cardinality(1 .. n - 1)
      BY <1>1, <2>1, FS_Subset
    <2>3. QED
      BY <2>1, <2>2
  <1>4. Depth(f, n) \in 1 .. Nodes
    BY <1>1, <1>2, <1>3 DEF Depth
  <1>5. ASSUME f.parent[n] = 0 PROVE Depth(f, n) = 1
    <2>1. Above(f, n) = {}
      BY <1>5, AboveIs
    <2>2. Cardinality({}) = 0
      BY FS_EmptySet
    <2>3. QED
      BY ONLY <2>1, <2>2 DEF Depth
  <1>6. ASSUME f.parent[n] # 0
        PROVE  Depth(f, n) = Depth(f, f.parent[n]) + 1 /\ Depth(f, n) # 1
    <2> DEFINE p == f.parent[n]
    <2>1. p \in Node /\ Above(f, n) = Above(f, p) \cup {p}
      BY <1>6, AboveIs, FolderIs
    <2> HIDE DEF p
    <2>2. IsFiniteSet(Above(f, p)) /\ p \notin Above(f, p) /\ Cardinality(Above(f, p)) \in Nat
      BY <2>1, AboveLess, FS_CardinalityType
    <2>3. Cardinality(Above(f, n)) = Cardinality(Above(f, p)) + 1
      BY <2>1, <2>2, FS_AddElement
    <2>4. QED
      BY <2>2, <2>3 DEF Depth, p
  <1>7. ASSUME NEW d \in Above(f, n) PROVE Depth(f, d) < Depth(f, n)
    <2>1. d \in Node /\ Above(f, d) \subseteq Above(f, n)
      BY AboveUp
    <2>2. d \notin Above(f, d) /\ IsFiniteSet(Above(f, d)) /\ Cardinality(Above(f, d)) \in Nat
      BY <2>1, AboveLess, FS_CardinalityType
    <2>3. Above(f, n) # Above(f, d)
      BY <2>2
    <2>4. /\ Cardinality(Above(f, d)) <= Cardinality(Above(f, n))
          /\ Cardinality(Above(f, n)) # Cardinality(Above(f, d))
      BY <1>1, <2>1, <2>3, FS_Subset
    <2>5. QED
      BY ONLY <1>2, <2>2, <2>4 DEF Depth
  <1>8. QED
    BY <1>4, <1>5, <1>6, <1>7

(* Above a node that is deeper there is a folder of each depth.            *)
LEMMA LevelIs ==
  ASSUME NEW f \in Folders, NEW n \in Node, NEW c \in Nat \ {0}, Depth(f, n) > c
  PROVE  \E x \in Above(f, n) : Depth(f, x) = c
  <1> DEFINE Good(m) == Depth(f, m) > c => \E x \in Above(f, m) : Depth(f, x) = c
             B == {m \in Node : Good(m)}
  <1>1. ASSUME NEW m \in Node, f.parent[m] = 0 \/ f.parent[m] \in B PROVE m \in B
    <2> SUFFICES ASSUME Depth(f, m) > c PROVE \E x \in Above(f, m) : Depth(f, x) = c
      OBVIOUS
    <2>1. f.parent[m] # 0 /\ Depth(f, m) = Depth(f, f.parent[m]) + 1
      BY DepthIs
    <2>2. /\ Above(f, m) = {f.parent[m]} \cup Above(f, f.parent[m])
          /\ f.parent[m] \in Node
      BY <2>1, AboveIs, FolderIs
    <2>3. Depth(f, f.parent[m]) \in Nat
      BY <2>2, DepthIs
    <2>4. CASE Depth(f, f.parent[m]) = c
      BY <2>2, <2>4
    <2>5. CASE Depth(f, f.parent[m]) > c
      BY <1>1, <2>1, <2>2, <2>5
    <2>6. QED
      BY <2>1, <2>3, <2>4, <2>5
  <1>2. Node \subseteq B
    <2> HIDE DEF B
    <2>1. QED
      BY <1>1, Downward
  <1>3. QED
    BY <1>2

(* What is reached is in the folder, or in one that is.                    *)
LEMMA ReachedIs ==
  ASSUME NEW f \in Folders, NEW n \in Node
  PROVE  /\ n \in Reached(f) <=>
              /\ f.kind[n] # "dot"
              /\ f.parent[n] # 0 => f.parent[n] \in Reached(f) /\ f.kind[f.parent[n]] = "dir"
         /\ n \in Reached(f) => \A d \in Above(f, n) : d \in Reached(f) /\ f.kind[d] = "dir"
  <1>1. CASE f.parent[n] = 0
    BY <1>1, AboveIs DEF Reached
  <1>2. CASE f.parent[n] # 0
    <2> DEFINE p == f.parent[n]
    <2>1. p \in Node /\ Above(f, n) = {p} \cup Above(f, p)
      BY <1>2, AboveIs, FolderIs
    <2> HIDE DEF p
    <2>2. n \in Reached(f) <=> f.kind[n] # "dot" /\ p \in Reached(f) /\ f.kind[p] = "dir"
      BY <2>1 DEF Reached
    <2>3. n \in Reached(f) => \A d \in Above(f, n) : d \in Reached(f) /\ f.kind[d] = "dir"
      <3> SUFFICES ASSUME n \in Reached(f), NEW d \in Above(f, n)
                   PROVE  d \in Reached(f) /\ f.kind[d] = "dir"
        OBVIOUS
      <3>1. d \in Node /\ Above(f, d) \subseteq Above(f, n)
        BY AboveUp
      <3>2. QED
        BY <3>1 DEF Reached
    <2>4. QED
      BY <1>2, <2>2, <2>3 DEF p
  <1>3. QED
    BY <1>1, <1>2

Pending == (0 .. Nodes) \X Nat
WalkType == [stack     : Seq(Pending),
             out       : Seq(Node),
             truncated : BOOLEAN,
             deepUnder : SUBSET Node,
             dirs      : SUBSET Node]
Cut(w) == w.truncated

LEMMA WalkIs ==
  ASSUME NEW w \in WalkType
  PROVE  /\ w.stack \in Seq(Pending) /\ w.out \in Seq(Node) /\ w.deepUnder \subseteq Node
         /\ w.dirs \subseteq Node
  BY DEF WalkType

LEMMA WalkStack ==
  ASSUME NEW w \in WalkType, NEW s \in Seq(Pending), NEW v, v = [w EXCEPT !.stack = s]
  PROVE  /\ v \in WalkType /\ (Cut(v) <=> Cut(w)) /\ v.stack = s
         /\ v.out = w.out /\ v.deepUnder = w.deepUnder /\ v.dirs = w.dirs
  BY DEF WalkType, Cut

LEMMA WalkOut ==
  ASSUME NEW w \in WalkType, NEW n \in Node, NEW v, v = [w EXCEPT !.out = Append(@, n)]
  PROVE  /\ v \in WalkType /\ (Cut(v) <=> Cut(w)) /\ v.out = Append(w.out, n)
         /\ v.stack = w.stack /\ v.deepUnder = w.deepUnder /\ v.dirs = w.dirs
  <1> DEFINE o == Append(w.out, n)
  <1>1. o \in Seq(Node) /\ v = [w EXCEPT !.out = o]
    BY WalkIs
  <1> HIDE DEF o
  <1>2. /\ v \in WalkType /\ (Cut(v) <=> Cut(w)) /\ v.out = o
        /\ v.stack = w.stack /\ v.deepUnder = w.deepUnder /\ v.dirs = w.dirs
    BY ONLY <1>1, w \in WalkType DEF WalkType, Cut
  <1>3. QED
    BY <1>2 DEF o

LEMMA WalkCut ==
  ASSUME NEW w \in WalkType, NEW v, v = [w EXCEPT !.truncated = TRUE]
  PROVE  /\ v \in WalkType /\ Cut(v) /\ v.out = w.out
         /\ v.stack = w.stack /\ v.deepUnder = w.deepUnder /\ v.dirs = w.dirs
  <1> DEFINE yes == TRUE
  <1>1. yes \in BOOLEAN /\ v = [w EXCEPT !.truncated = yes] /\ yes
    OBVIOUS
  <1> HIDE DEF yes
  <1>2. v \in WalkType /\ (Cut(v) <=> yes)
    BY ONLY <1>1, w \in WalkType DEF WalkType, Cut
  <1>3. QED
    BY <1>1, <1>2 DEF WalkType

LEMMA WalkDeep ==
  ASSUME NEW w \in WalkType, NEW S \in SUBSET Node, NEW n \in Node,
         NEW v, v = [w EXCEPT !.deepUnder = @ \cup {n} \cup S]
  PROVE  /\ v \in WalkType /\ (Cut(v) <=> Cut(w)) /\ v.deepUnder = w.deepUnder \cup {n} \cup S
         /\ v.stack = w.stack /\ v.out = w.out /\ v.dirs = w.dirs
  BY DEF WalkType, Cut

IsDot(f, n) == f.kind[n] = "dot"
IsFile(f, n) == f.kind[n] = "file"

LEMMA KindIs ==
  ASSUME NEW f \in Folders, NEW n \in Node
  PROVE  /\ IsDot(f, n) \/ IsDir(f, n) \/ IsFile(f, n)
         /\ ~(IsDot(f, n) /\ IsDir(f, n)) /\ ~(IsDot(f, n) /\ IsFile(f, n))
         /\ ~(IsDir(f, n) /\ IsFile(f, n))
  <1>1. f.kind[n] \in {"file", "dir", "dot", "shut"}
    BY FolderIs DEF Kinds
  <1>2. QED
    BY <1>1 DEF IsDot, IsFile, IsDir

(* What the code does with one entry.                                      *)
Kept5(w, v) == /\ v.stack = w.stack /\ v.out = w.out /\ v.dirs = w.dirs
               /\ v.deepUnder = w.deepUnder
Marks(f, w, n, v) ==
  /\ ~Cut(v) /\ v.stack = w.stack /\ v.out = w.out /\ v.dirs = w.dirs
  /\ v.deepUnder = w.deepUnder \cup {n} \cup Above(f, n)
Pushes(w, n, d, v) ==
  /\ ~Cut(v) /\ v.out = w.out /\ v.deepUnder = w.deepUnder
  /\ v.stack = Append(w.stack, <<n, d>>) /\ v.dirs = w.dirs \cup {n}
Lists(w, n, v) ==
  /\ ~Cut(v) /\ v.stack = w.stack /\ v.dirs = w.dirs /\ v.deepUnder = w.deepUnder
  /\ v.out = Append(w.out, n)
EnteredAs(f, cap, limit, d, w, n, v) ==
  /\ v \in WalkType
  /\ Cut(w) \/ IsDot(f, n) => v = w
  /\ ~Cut(w) /\ IsDir(f, n) /\ d + 1 >= cap => Marks(f, w, n, v)
  /\ ~Cut(w) /\ IsDir(f, n) /\ ~(d + 1 >= cap) => Pushes(w, n, d + 1, v)
  /\ ~Cut(w) /\ IsFile(f, n) /\ Len(w.out) >= limit => Cut(v) /\ Kept5(w, v)
  /\ ~Cut(w) /\ IsFile(f, n) /\ ~(Len(w.out) >= limit) => Lists(w, n, v)

LEMMA EntryIs ==
  ASSUME NEW f \in Folders, NEW n \in Node, NEW w \in WalkType, NEW d \in Nat,
         NEW cap, NEW limit
  PROVE  EnteredAs(f, cap, limit, d, w, n, Entry(f, cap, limit, d, w, n))
  <1> DEFINE v == Entry(f, cap, limit, d, w, n)
             a == Cut(w) \/ IsDot(f, n)
             b == ~Cut(w) /\ IsDir(f, n)
             c == ~Cut(w) /\ IsFile(f, n)
             e == d + 1 >= cap
             g == Len(w.out) >= limit
             v1 == [w EXCEPT !.deepUnder = @ \cup {n} \cup Above(f, n)]
             v2 == [w EXCEPT !.stack = Append(@, <<n, d + 1>>), !.dirs = @ \cup {n}]
             v3 == [w EXCEPT !.truncated = TRUE]
             v4 == [w EXCEPT !.out = Append(@, n)]
  <1>1. v = CASE a -> w [] b -> (IF e THEN v1 ELSE v2) [] c -> (IF g THEN v3 ELSE v4)
    BY DEF Entry, TooDeep, Cut, IsDot, IsFile
  <1>2. (a \/ b \/ c) /\ ~(a /\ b) /\ ~(a /\ c) /\ ~(b /\ c)
    BY KindIs
  <1>3. v1 \in WalkType /\ (~Cut(w) => Marks(f, w, n, v1))
    <2>1. Above(f, n) \in SUBSET Node
      BY AboveIs
    <2>2. QED
      BY <2>1, WalkDeep DEF Marks
  <1>4. v2 \in WalkType /\ (~Cut(w) => Pushes(w, n, d + 1, v2))
    <2>1. d + 1 \in Nat
      OBVIOUS
    <2>2. /\ v2 \in WalkType /\ (Cut(v2) <=> Cut(w)) /\ v2.stack = Append(w.stack, <<n, d + 1>>)
          /\ v2.dirs = w.dirs \cup {n} /\ v2.out = w.out /\ v2.deepUnder = w.deepUnder
      <3> DEFINE p == Append(w.stack, <<n, d + 1>>)
                 D == w.dirs \cup {n}
      <3>1. v2 = [w EXCEPT !.stack = p, !.dirs = D]
        OBVIOUS
      <3>2. p \in Seq(Pending) /\ D \in SUBSET Node
        BY <2>1, WalkIs DEF Pending, Node
      <3> HIDE DEF v2, p, D
      <3>3. /\ v2 \in WalkType /\ (Cut(v2) <=> Cut(w)) /\ v2.stack = p /\ v2.dirs = D
            /\ v2.out = w.out /\ v2.deepUnder = w.deepUnder
        BY ONLY <3>1, <3>2, w \in WalkType DEF WalkType, Cut
      <3>4. QED
        BY <3>3 DEF p, D
    <2> HIDE DEF v2
    <2>3. QED
      BY ONLY <2>2, Zenon DEF Pushes
  <1>5. v3 \in WalkType /\ Cut(v3) /\ Kept5(w, v3)
    BY WalkCut DEF Kept5
  <1>6. v4 \in WalkType /\ (~Cut(w) => Lists(w, n, v4))
    BY WalkOut DEF Lists
  <1> DEFINE ca == Cut(w)
             da == IsDot(f, n)
             di == IsDir(f, n)
             fi == IsFile(f, n)
  <1>7. (a <=> ca \/ da) /\ (b <=> ~ca /\ di) /\ (c <=> ~ca /\ fi)
    OBVIOUS
  <1> HIDE DEF a, b, c, e, g, v, v1, v2, v3, v4
  <1>8. /\ a => v = w
        /\ b => v = IF e THEN v1 ELSE v2
        /\ c => v = IF g THEN v3 ELSE v4
    BY ONLY <1>1, <1>2
  <1>9. v \in WalkType
    BY <1>2, <1>3, <1>4, <1>5, <1>6, <1>8
  <1>10. /\ b /\ e => ~Cut(w) /\ v = v1
         /\ b /\ ~e => ~Cut(w) /\ v = v2
         /\ c /\ g => v = v3
         /\ c /\ ~g => ~Cut(w) /\ v = v4
    BY ONLY <1>7, <1>8
  <1>11. /\ b /\ e => Marks(f, w, n, v)
         /\ b /\ ~e => Pushes(w, n, d + 1, v)
         /\ c /\ g => Cut(v) /\ Kept5(w, v)
         /\ c /\ ~g => Lists(w, n, v)
    BY ONLY <1>3, <1>4, <1>5, <1>6, <1>10, Zenon
  <1>12. QED
    BY ONLY <1>7, <1>8, <1>9, <1>11, Zenon DEF EnteredAs, v, e, g, ca, da, di, fi

(* One step of the loop over the entries of a folder.                      *)
TurnOf(f, cap, limit, cur, w, n) ==
  IF ReadIn(f, cur[1], n) THEN Entry(f, cap, limit, cur[2], w, n) ELSE w
Takes(f, cap, limit, cur, w, n, v) ==
  /\ ReadIn(f, cur[1], n) => EnteredAs(f, cap, limit, cur[2], w, n, v)
  /\ ~ReadIn(f, cur[1], n) => v = w

VisitTable(t, f, cap, limit, cur, w) ==
  /\ \A k \in 0 .. Nodes : t[k] \in WalkType
  /\ t[0] = w
  /\ \A k \in 1 .. Nodes : Takes(f, cap, limit, cur, t[k - 1], k, t[k])

LEMMA VisitSteps ==
  ASSUME NEW f \in Folders, NEW w \in WalkType, NEW cur \in Pending, NEW cap, NEW limit
  PROVE  \E t : /\ VisitTable(t, f, cap, limit, cur, w)
                /\ Visit(f, cap, limit, cur, w) = t[Nodes]
  <1> DEFINE V == WalkType
             n == Nodes
             s == w
             Op(v, k) == TurnOf(f, cap, limit, cur, v, k)
             G == [k \in 1 .. n |-> [v \in V |-> Op(v, k)]]
             Eqn(it) == it = [x \in SUBSET (DOMAIN InOrder) |->
                               IF x = {} THEN s ELSE Op(it[x \ {Max(x)}], InOrder[Max(x)])]
             it == CHOOSE it : Eqn(it)
  <1>1. n \in Nat /\ cur[2] \in Nat /\ DOMAIN InOrder = 1 .. n
        /\ \A k \in 1 .. n : InOrder[k] = k /\ k \in Node
    BY FolderWalkAssumption DEF Pending, InOrder, Node
  <1>2. \A v \in V, k \in 1 .. n : Op(v, k) \in V /\ Takes(f, cap, limit, cur, v, k, Op(v, k))
    <2> SUFFICES ASSUME NEW v \in V, NEW k \in 1 .. n
                 PROVE  Op(v, k) \in V /\ Takes(f, cap, limit, cur, v, k, Op(v, k))
      OBVIOUS
    <2>1. CASE ReadIn(f, cur[1], k)
      <3>1. Op(v, k) = Entry(f, cap, limit, cur[2], v, k)
        BY <2>1 DEF TurnOf
      <3>2. EnteredAs(f, cap, limit, cur[2], v, k, Op(v, k))
        BY <1>1, <3>1, EntryIs
      <3>3. QED
        BY <2>1, <3>2 DEF Takes, EnteredAs
    <2>2. CASE ~ReadIn(f, cur[1], k)
      BY <2>2 DEF TurnOf, Takes
    <2>3. QED
      BY <2>1, <2>2
  <1>3. Visit(f, cap, limit, cur, w) = it[DOMAIN InOrder]
    BY DEF Visit, FoldLeft, MapThenFoldSet, TurnOf
  <1>13. s \in V
    OBVIOUS
  <1> HIDE DEF V, it, s, n, Op
  <1>4. Maps(G, n, V) /\ \A k \in 1 .. n, v \in V : G[k][v] = Op(v, k)
    BY <1>2 DEF Maps
  <1> HIDE DEF G
  <1>5. \A x \in SUBSET (1 .. n) : x # {} => Max(x) \in 1 .. n
    BY <1>1, MaxIn
  <1>6. PICK h \in [SUBSET (1 .. n) -> V] : Folds(h, n, s, G)
    BY <1>1, <1>4, <1>13, FoldExists
  <1>7. \A x \in SUBSET (1 .. n) : h[x] = IF x = {} THEN s ELSE Op(h[x \ {Max(x)}], InOrder[Max(x)])
    <2>1. \A x \in SUBSET (1 .. n) : h[x \ {Max(x)}] \in V
      OBVIOUS
    <2>2. \A x \in SUBSET (1 .. n) :
            h[x] = IF x = {} THEN s ELSE G[Max(x)][h[x \ {Max(x)}]]
      BY <1>6 DEF Folds
    <2>3. QED
      BY <1>1, <1>4, <1>5, <2>1, <2>2
  <1>8. Eqn(it)
    BY <1>1, <1>7 DEF it
  <1>9. Iterates(it, V, n, s, G)
    <2>1. \A x \in SUBSET (1 .. n) :
            it[x] = IF x = {} THEN s ELSE Op(it[x \ {Max(x)}], InOrder[Max(x)])
      BY <1>1, <1>8
    <2> HIDE DEF Eqn
    <2>2. it[{}] = s
      BY <2>1
    <2>3. \A x \in SUBSET (1 .. n) :
            x # {} /\ it[x \ {Max(x)}] \in V => it[x] = G[Max(x)][it[x \ {Max(x)}]]
      <3> SUFFICES ASSUME NEW x \in SUBSET (1 .. n), x # {}, it[x \ {Max(x)}] \in V
                   PROVE  it[x] = G[Max(x)][it[x \ {Max(x)}]]
        OBVIOUS
      <3>1. Max(x) \in 1 .. n /\ InOrder[Max(x)] = Max(x)
        BY <1>1, <1>5
      <3>2. it[x] = Op(it[x \ {Max(x)}], Max(x))
        BY <2>1, <3>1
      <3>3. QED
        BY <1>4, <3>1, <3>2
    <2>4. QED
      BY <2>2, <2>3 DEF Iterates
  <1> HIDE DEF Eqn
  <1>10. PICK t : Table(t, V, n, s, G) /\ it[1 .. n] = t[n]
    BY <1>1, <1>4, <1>9, <1>13, FoldTable
  <1>11. /\ \A k \in 0 .. n : t[k] \in V
         /\ t[0] = s
         /\ \A k \in 1 .. n : t[k] = G[k][t[k - 1]]
    BY <1>10 DEF Table
  <1>12. \A k \in 1 .. n : k - 1 \in 0 .. n
    BY <1>1
  <1>14. \A k \in 1 .. n : t[k] = Op(t[k - 1], k)
    BY <1>4, <1>11, <1>12
  <1>15. \A k \in 1 .. n : Takes(f, cap, limit, cur, t[k - 1], k, t[k])
    BY <1>2, <1>11, <1>12, <1>14
  <1>16. QED
    BY <1>1, <1>3, <1>10, <1>11, <1>15 DEF VisitTable, V, s, n

(* One round, and the walk as the last of its rounds.                      *)
Pops(w, z) ==
  /\ z \in WalkType /\ ~Cut(z) /\ z.stack = Front(w.stack) /\ z.out = w.out
  /\ z.dirs = w.dirs /\ z.deepUnder = w.deepUnder
Visits(f, cap, limit, w, v) ==
  \E z, t : Pops(w, z) /\ VisitTable(t, f, cap, limit, Last(w.stack), z) /\ v = t[Nodes]
Rounds(f, cap, limit, w, v) ==
  /\ v \in WalkType
  /\ Cut(w) \/ w.stack = <<>> => v = w
  /\ ~Cut(w) /\ w.stack # <<>> /\ Len(w.out) >= limit => Cut(v) /\ Kept5(w, v)
  /\ ~Cut(w) /\ w.stack # <<>> /\ Len(w.out) < limit => Visits(f, cap, limit, w, v)

LEMMA RoundIs ==
  ASSUME NEW f \in Folders, NEW w \in WalkType, NEW cap, NEW limit \in Nat
  PROVE  Rounds(f, cap, limit, w, Round(f, cap, limit, w))
  <1> DEFINE v == Round(f, cap, limit, w)
             ca == Cut(w)
             em == w.stack = <<>>
             a == ca \/ em
             b == ~ca /\ ~em /\ Len(w.out) >= limit
             c == ~ca /\ ~em /\ Len(w.out) < limit
             z == [w EXCEPT !.stack = Front(@)]
             v1 == [w EXCEPT !.truncated = TRUE]
             v2 == Visit(f, cap, limit, Last(w.stack), z)
  <1>1. v = CASE a -> w [] b -> v1 [] c -> v2
    BY DEF Round, Cut
  <1>2. Len(w.out) \in Nat
    BY WalkIs
  <1>3. (a \/ b \/ c) /\ ~(a /\ b) /\ ~(a /\ c) /\ ~(b /\ c)
    BY <1>2
  <1>4. v1 \in WalkType /\ Cut(v1) /\ Kept5(w, v1)
    BY WalkCut DEF Kept5
  <1>5. ASSUME ~ca, ~em PROVE v2 \in WalkType /\ Visits(f, cap, limit, w, v2)
    <2>1. w.stack \in Seq(Pending) /\ w.stack # <<>>
      BY <1>5, WalkIs
    <2>2. Last(w.stack) \in Pending /\ Front(w.stack) \in Seq(Pending)
      BY <2>1, FrontIs
    <2>3. Pops(w, z)
      <3> DEFINE s == Front(w.stack)
      <3>1. z = [w EXCEPT !.stack = s]
        OBVIOUS
      <3> HIDE DEF s, z
      <3>2. /\ z \in WalkType /\ (Cut(z) <=> Cut(w)) /\ z.stack = s
            /\ z.out = w.out /\ z.deepUnder = w.deepUnder /\ z.dirs = w.dirs
        BY <2>2, <3>1, WalkStack DEF s
      <3> HIDE DEF ca
      <3>3. ~Cut(w)
        BY <1>5 DEF ca
      <3>4. QED
        BY ONLY <3>2, <3>3, Zenon DEF Pops, s
    <2> HIDE DEF z
    <2>4. PICK t : VisitTable(t, f, cap, limit, Last(w.stack), z) /\ v2 = t[Nodes]
      BY <2>2, <2>3, VisitSteps DEF Pops
    <2>5. Nodes \in 0 .. Nodes
      BY FolderWalkAssumption
    <2>6. v2 \in WalkType
      BY <2>4, <2>5 DEF VisitTable
    <2> HIDE DEF v2
    <2>7. QED
      BY <2>3, <2>4, <2>6 DEF Visits
  <1>6. /\ ~ca /\ ~em /\ Len(w.out) >= limit => b
        /\ ~ca /\ ~em /\ Len(w.out) < limit => c
        /\ ca \/ em => a
        /\ c => ~ca /\ ~em
    OBVIOUS
  <1> HIDE DEF a, b, c, v, v1, v2
  <1>7. (a => v = w) /\ (b => v = v1) /\ (c => v = v2)
    BY ONLY <1>1, <1>3
  <1>8. v \in WalkType
    BY <1>3, <1>4, <1>5, <1>6, <1>7
  <1>9. c => Visits(f, cap, limit, w, v)
    BY ONLY <1>5, <1>6, <1>7, Zenon
  <1>10. b => Cut(v) /\ Kept5(w, v)
    BY ONLY <1>4, <1>7, Zenon
  <1>11. QED
    BY ONLY <1>6, <1>7, <1>8, <1>9, <1>10, Zenon DEF Rounds, v, ca, em

LEMMA StartIn == ASSUME NEW base \in Nat PROVE Start(base) \in WalkType
  <1> DEFINE s == <<<<0, base>>>>
             no == FALSE
  <1>1. s \in Seq(Pending)
    <2>1. <<0, base>> \in Pending
      BY FolderWalkAssumption DEF Pending
    <2>2. QED
      BY <2>1
  <1>2. /\ Start(base) = [stack |-> s, out |-> <<>>, truncated |-> no, deepUnder |-> {}, dirs |-> {}]
        /\ no \in BOOLEAN /\ <<>> \in Seq(Node) /\ {} \in SUBSET Node
    BY DEF Start
  <1> HIDE DEF s, no
  <1>3. QED
    BY <1>1, <1>2 DEF WalkType

WalkTable(t, f, base, cap, limit) ==
  /\ \A k \in 0 .. Nodes + 1 : t[k] \in WalkType
  /\ t[0] = Start(base)
  /\ \A k \in 1 .. Nodes + 1 : Rounds(f, cap, limit, t[k - 1], t[k])

LEMMA WalkSteps ==
  ASSUME NEW f \in Folders, NEW base \in Nat, NEW cap, NEW limit \in Nat
  PROVE  \E t : WalkTable(t, f, base, cap, limit) /\ Walk(f, base, cap, limit) = t[Nodes + 1]
  <1> DEFINE V == WalkType
             n == Nodes + 1
             s == Start(base)
             turns == [i \in 1 .. Nodes + 1 |-> i]
             Op(v) == Round(f, cap, limit, v)
             G == [k \in 1 .. n |-> [v \in V |-> Op(v)]]
             Eqn(it) == it = [x \in SUBSET (DOMAIN turns) |->
                               IF x = {} THEN s ELSE Op(it[x \ {Max(x)}])]
             it == CHOOSE it : Eqn(it)
  <1>1. n \in Nat /\ DOMAIN turns = 1 .. n
    BY FolderWalkAssumption
  <1>2. \A v \in V : Op(v) \in V /\ Rounds(f, cap, limit, v, Op(v))
    BY RoundIs DEF Rounds
  <1>3. Walk(f, base, cap, limit) = it[DOMAIN turns]
    BY DEF Walk, FoldLeft, MapThenFoldSet
  <1>13. s \in V
    BY StartIn
  <1> HIDE DEF V, it, s, n, Op, turns
  <1>4. Maps(G, n, V) /\ \A k \in 1 .. n, v \in V : G[k][v] = Op(v)
    BY <1>2 DEF Maps
  <1> HIDE DEF G
  <1>5. \A x \in SUBSET (1 .. n) : x # {} => Max(x) \in 1 .. n
    BY <1>1, MaxIn
  <1>6. PICK h \in [SUBSET (1 .. n) -> V] : Folds(h, n, s, G)
    BY <1>1, <1>4, <1>13, FoldExists
  <1>7. \A x \in SUBSET (1 .. n) : h[x] = IF x = {} THEN s ELSE Op(h[x \ {Max(x)}])
    <2>1. \A x \in SUBSET (1 .. n) : h[x \ {Max(x)}] \in V
      OBVIOUS
    <2>2. \A x \in SUBSET (1 .. n) :
            h[x] = IF x = {} THEN s ELSE G[Max(x)][h[x \ {Max(x)}]]
      BY <1>6 DEF Folds
    <2>3. QED
      BY <1>4, <1>5, <2>1, <2>2
  <1>8. Eqn(it)
    BY <1>1, <1>7 DEF it
  <1>9. Iterates(it, V, n, s, G)
    <2>1. \A x \in SUBSET (1 .. n) :
            it[x] = IF x = {} THEN s ELSE Op(it[x \ {Max(x)}])
      BY <1>1, <1>8
    <2> HIDE DEF Eqn
    <2>2. it[{}] = s
      BY <2>1
    <2>3. \A x \in SUBSET (1 .. n) :
            x # {} /\ it[x \ {Max(x)}] \in V => it[x] = G[Max(x)][it[x \ {Max(x)}]]
      BY <1>4, <1>5, <2>1
    <2>4. QED
      BY <2>2, <2>3 DEF Iterates
  <1> HIDE DEF Eqn
  <1>10. PICK t : Table(t, V, n, s, G) /\ it[1 .. n] = t[n]
    BY <1>1, <1>4, <1>9, <1>13, FoldTable
  <1>11. /\ \A k \in 0 .. n : t[k] \in V
         /\ t[0] = s
         /\ \A k \in 1 .. n : t[k] = G[k][t[k - 1]]
    BY <1>10 DEF Table
  <1>12. \A k \in 1 .. n : k - 1 \in 0 .. n
    BY <1>1
  <1>14. \A k \in 1 .. n : Rounds(f, cap, limit, t[k - 1], t[k])
    BY <1>2, <1>4, <1>11, <1>12
  <1>16. QED
    BY <1>1, <1>3, <1>10, <1>11, <1>14 DEF WalkTable, V, s, n

(* What the walk knows of the folders in R that it has read or is reading, *)
(* when it has dealt with the entries in Q.                                *)
Shallow(f, base, cap, n) == IsDir(f, n) /\ ~(base + Depth(f, n) >= cap)
Deep(f, base, cap, n) == IsDir(f, n) /\ base + Depth(f, n) >= cap
Level(f, base, x) == IF x = 0 THEN base ELSE base + Depth(f, x)
Met(f, base, cap) ==
  {n \in Node : /\ ReadIn(f, f.parent[n], n)
                /\ f.parent[n] # 0 => /\ f.parent[n] \in Reached(f)
                                      /\ Shallow(f, base, cap, f.parent[n])}
Reads(f, R) == {n \in Node : f.parent[n] \in R /\ ReadIn(f, f.parent[n], n)}
FilesIn(f, Q) == {n \in Q : IsFile(f, n)}
DirsIn(f, base, cap, Q) == {n \in Q : Shallow(f, base, cap, n)}
Marked(f, base, cap, Q) == UNION {{n} \cup Above(f, n) : n \in {m \in Q : Deep(f, base, cap, m)}}

Counted(o, limit) == Cardinality(ToSet(o)) = Len(o) /\ Len(o) <= limit
Standing(f, base, s, R, D) ==
  /\ \A i \in 1 .. Len(s) : /\ s[i][1] \in {0} \cup D /\ s[i][1] \notin R
                            /\ s[i][2] = Level(f, base, s[i][1])
  /\ \A i, j \in 1 .. Len(s) : i # j => s[i][1] # s[j][1]
  /\ R \subseteq {0} \cup D
  /\ \A x \in {0} \cup D : x \in R \/ \E i \in 1 .. Len(s) : s[i][1] = x

Live(f, base, cap, limit, w, R, Q) ==
  /\ ~Cut(w)
  /\ Q \subseteq Met(f, base, cap)
  /\ w.dirs = DirsIn(f, base, cap, Q)
  /\ ToSet(w.out) = FilesIn(f, Q)
  /\ w.deepUnder = Marked(f, base, cap, Q)
  /\ Counted(w.out, limit)
  /\ Standing(f, base, w.stack, R, w.dirs)
Halted(f, base, cap, limit, w) ==
  /\ Cut(w)
  /\ ToSet(w.out) \subseteq FilesIn(f, Met(f, base, cap))
  /\ Counted(w.out, limit)
  /\ Len(w.out) = limit

LEMMA MetReached ==
  ASSUME NEW f \in Folders, NEW base, NEW cap, NEW n \in Met(f, base, cap), ~IsDot(f, n)
  PROVE  n \in Reached(f)
  <1>1. n \in Node /\ (f.parent[n] # 0 => f.parent[n] \in Reached(f) /\ f.kind[f.parent[n]] = "dir")
    BY DEF Met, Shallow, IsDir, ReadIn
  <1>2. f.kind[n] # "dot"
    BY DEF IsDot
  <1>3. QED
    BY <1>1, <1>2, ReachedIs

LEMMA MetOn ==
  ASSUME NEW f \in Folders, NEW base, NEW cap, NEW Q \in SUBSET Met(f, base, cap),
         NEW x \in {0} \cup DirsIn(f, base, cap, Q), NEW n \in Node, ReadIn(f, x, n)
  PROVE  n \in Met(f, base, cap)
  <1>1. f.parent[n] = x
    BY DEF ReadIn
  <1>2. CASE x = 0
    BY <1>1, <1>2 DEF Met
  <1>3. CASE x # 0
    <2>1. x \in Met(f, base, cap) /\ Shallow(f, base, cap, x) /\ x \in Node
      BY <1>3 DEF DirsIn, Met
    <2>2. ~IsDot(f, x)
      BY <2>1, KindIs DEF Shallow
    <2>3. x \in Reached(f)
      BY <2>1, <2>2, MetReached
    <2>4. QED
      BY <1>1, <2>1, <2>3 DEF Met
  <1>4. QED
    BY <1>2, <1>3

LEMMA AppendIs ==
  ASSUME NEW S, NEW o \in Seq(S), NEW n \in S
  PROVE  /\ Append(o, n) \in Seq(S) /\ Len(Append(o, n)) = Len(o) + 1 /\ Len(o) \in Nat
         /\ \A i \in 1 .. Len(o) : Append(o, n)[i] = o[i]
         /\ Append(o, n)[Len(o) + 1] = n
  OBVIOUS

LEMMA CountedOn ==
  ASSUME NEW S, NEW o \in Seq(S), NEW n \in S, n \notin ToSet(o), NEW limit \in Nat,
         Counted(o, limit), ~(Len(o) >= limit)
  PROVE  /\ ToSet(Append(o, n)) = ToSet(o) \cup {n} /\ Counted(Append(o, n), limit)
  <1> DEFINE p == Append(o, n)
             k == Len(o)
  <1>1. /\ Len(p) = k + 1 /\ k \in Nat /\ \A i \in 1 .. k : p[i] = o[i]
        /\ p[k + 1] = n /\ DOMAIN p = 1 .. k + 1 /\ DOMAIN o = 1 .. k
    BY AppendIs
  <1> HIDE DEF p, k
  <1>2. 1 .. k + 1 = (1 .. k) \cup {k + 1}
    BY <1>1
  <1>3. ToSet(p) = {p[i] : i \in 1 .. k + 1} /\ ToSet(o) = {o[i] : i \in 1 .. k}
    BY <1>1 DEF ToSet
  <1>4. ToSet(p) = ToSet(o) \cup {n}
    <2>1. {p[i] : i \in 1 .. k} = {o[i] : i \in 1 .. k}
      BY <1>1
    <2>2. {p[i] : i \in 1 .. k + 1} = {p[i] : i \in 1 .. k} \cup {p[k + 1]}
      BY <1>2
    <2>3. QED
      BY ONLY <1>1, <1>3, <2>1, <2>2
  <1>5. IsFiniteSet(ToSet(o))
    <2> DEFINE T == ToSet(o)
    <2>1. IsFiniteSet(1 .. k)
      BY <1>1, FS_Interval
    <2>2. {o[i] : i \in 1 .. k} = T
      BY <1>3
    <2>3. o \in Surjection(1 .. k, T)
      <3>1. o = [i \in 1 .. k |-> o[i]] /\ \A i \in 1 .. k : o[i] \in T
        BY <1>1, <2>2
      <3>2. \A y \in T : \E i \in 1 .. k : o[i] = y
        BY <2>2
      <3> HIDE DEF T
      <3>3. QED
        BY ONLY <3>1, <3>2 DEF Surjection
    <2> HIDE DEF T
    <2>4. QED
      BY <2>1, <2>3, FS_Surjection DEF T
  <1>6. Cardinality(ToSet(o) \cup {n}) = Cardinality(ToSet(o)) + 1
    BY <1>5, FS_AddElement
  <1>7. Counted(p, limit)
    <2>1. Cardinality(ToSet(o)) = k /\ ~(k >= limit)
      BY DEF Counted, k
    <2>2. k + 1 <= limit
      BY <1>1, <2>1
    <2>3. Cardinality(ToSet(p)) = k + 1
      BY ONLY <1>4, <1>6, <2>1
    <2>4. QED
      BY ONLY <1>1, <2>2, <2>3 DEF Counted
  <1>8. QED
    BY <1>4, <1>7 DEF p

LEMMA StandingPush ==
  ASSUME NEW f, NEW base, NEW s \in Seq(Pending), NEW R, NEW D \in SUBSET Node,
         Standing(f, base, s, R, D), NEW n \in Node, n \notin D,
         NEW d \in Nat, d = Level(f, base, n)
  PROVE  Standing(f, base, Append(s, <<n, d>>), R, D \cup {n})
  <1> DEFINE p == Append(s, <<n, d>>)
             k == Len(s)
  <1>1. <<n, d>> \in Pending
    BY DEF Pending, Node
  <1>2. Len(p) = k + 1 /\ k \in Nat /\ (\A i \in 1 .. k : p[i] = s[i]) /\ p[k + 1] = <<n, d>>
    BY <1>1, AppendIs
  <1>3. /\ \A i \in 1 .. k : s[i][1] \in {0} \cup D /\ s[i][1] \notin R
                             /\ s[i][2] = Level(f, base, s[i][1])
        /\ \A i, j \in 1 .. k : i # j => s[i][1] # s[j][1]
        /\ R \subseteq {0} \cup D
        /\ \A x \in {0} \cup D : x \in R \/ \E i \in 1 .. k : s[i][1] = x
    BY DEF Standing
  <1> DEFINE last == p[k + 1]
  <1>4. last[1] = n /\ last[2] = d
    BY <1>2
  <1>5. n # 0 /\ n \notin R
    BY <1>3 DEF Node
  <1>6. \A i \in 1 .. k + 1 : i = k + 1 \/ i \in 1 .. k
    BY <1>2
  <1> HIDE DEF p, k
  <1>7. \A i \in 1 .. k + 1 : /\ p[i][1] \in {0} \cup D \cup {n} /\ p[i][1] \notin R
                              /\ p[i][2] = Level(f, base, p[i][1])
    BY <1>2, <1>3, <1>4, <1>5, <1>6
  <1>8. \A i, j \in 1 .. k + 1 : i # j => p[i][1] # p[j][1]
    <2> SUFFICES ASSUME NEW i \in 1 .. k + 1, NEW j \in 1 .. k + 1, i # j
                 PROVE  p[i][1] # p[j][1]
      OBVIOUS
    <2>1. CASE i \in 1 .. k /\ j \in 1 .. k
      BY <1>2, <1>3, <2>1
    <2>2. CASE i = k + 1 /\ j \in 1 .. k
      BY <1>2, <1>3, <1>4, <1>5, <2>2
    <2>3. CASE j = k + 1 /\ i \in 1 .. k
      BY <1>2, <1>3, <1>4, <1>5, <2>3
    <2>4. QED
      BY <1>6, <2>1, <2>2, <2>3
  <1>9. \A x \in {0} \cup D \cup {n} : x \in R \/ \E i \in 1 .. k + 1 : p[i][1] = x
    <2> SUFFICES ASSUME NEW x \in {0} \cup D \cup {n}, x \notin R
                 PROVE  \E i \in 1 .. k + 1 : p[i][1] = x
      OBVIOUS
    <2>1. CASE x = n
      <3>1. k + 1 \in 1 .. k + 1
        BY <1>2
      <3>2. QED
        BY <1>4, <2>1, <3>1
    <2>2. CASE x # n
      <3>1. PICK i \in 1 .. k : s[i][1] = x
        BY <1>3, <2>2
      <3>2. i \in 1 .. k + 1 /\ p[i] = s[i]
        BY <1>2, <3>1
      <3>3. QED
        BY <3>1, <3>2
    <2>3. QED
      BY <2>1, <2>2
  <1>10. Len(p) = k + 1 /\ R \subseteq {0} \cup (D \cup {n}) /\ {0} \cup D \cup {n} = {0} \cup (D \cup {n})
    BY <1>2, <1>3
  <1>11. Standing(f, base, p, R, D \cup {n})
    BY ONLY <1>7, <1>8, <1>9, <1>10 DEF Standing
  <1>12. QED
    BY <1>11 DEF p

LEMMA StandingPop ==
  ASSUME NEW f, NEW base, NEW s \in Seq(Pending), s # <<>>, NEW R, NEW D,
         Standing(f, base, s, R, D)
  PROVE  /\ Standing(f, base, Front(s), R \cup {Last(s)[1]}, D)
         /\ Last(s)[1] \in {0} \cup D /\ Last(s)[1] \notin R
         /\ Last(s)[2] = Level(f, base, Last(s)[1])
  <1> DEFINE p == Front(s)
             k == Len(s)
             x == Last(s)[1]
  <1>1. /\ Len(p) = k - 1 /\ k \in Nat \ {0} /\ \A i \in 1 .. k - 1 : p[i] = s[i]
        /\ Last(s) = s[k]
    BY FrontIs
  <1>2. /\ \A i \in 1 .. k : s[i][1] \in {0} \cup D /\ s[i][1] \notin R
                             /\ s[i][2] = Level(f, base, s[i][1])
        /\ \A i, j \in 1 .. k : i # j => s[i][1] # s[j][1]
        /\ R \subseteq {0} \cup D
        /\ \A y \in {0} \cup D : y \in R \/ \E i \in 1 .. k : s[i][1] = y
    BY DEF Standing
  <1>3. k \in 1 .. k /\ \A i \in 1 .. k : i = k \/ i \in 1 .. k - 1
    BY <1>1
  <1>4. \A i \in 1 .. k - 1 : i \in 1 .. k /\ i # k
    BY <1>1
  <1>5. x = s[k][1] /\ x \in {0} \cup D /\ x \notin R /\ Last(s)[2] = Level(f, base, x)
    BY <1>1, <1>2, <1>3
  <1> HIDE DEF p, k, x
  <1>6. \A i \in 1 .. k - 1 : /\ p[i][1] \in {0} \cup D /\ p[i][1] \notin R \cup {x}
                              /\ p[i][2] = Level(f, base, p[i][1])
    BY <1>1, <1>2, <1>3, <1>4, <1>5
  <1>7. \A i, j \in 1 .. k - 1 : i # j => p[i][1] # p[j][1]
    BY <1>1, <1>2, <1>4
  <1>8. \A y \in {0} \cup D : y \in R \cup {x} \/ \E i \in 1 .. k - 1 : p[i][1] = y
    <2> SUFFICES ASSUME NEW y \in {0} \cup D, y \notin R \cup {x}
                 PROVE  \E i \in 1 .. k - 1 : p[i][1] = y
      OBVIOUS
    <2>1. PICK i \in 1 .. k : s[i][1] = y
      BY <1>2
    <2>2. i \in 1 .. k - 1
      BY <1>3, <1>5, <2>1
    <2>3. QED
      BY <1>1, <2>1, <2>2
  <1>9. R \cup {x} \subseteq {0} \cup D
    BY <1>2, <1>5
  <1>10. Standing(f, base, p, R \cup {x}, D)
    BY ONLY <1>1, <1>6, <1>7, <1>8, <1>9 DEF Standing
  <1>11. QED
    BY <1>5, <1>10 DEF p, x

LEMMA LevelIn ==
  ASSUME NEW f \in Folders, NEW base \in Nat, NEW n \in Node
  PROVE  /\ Level(f, base, f.parent[n]) + 1 = base + Depth(f, n)
         /\ base + Depth(f, n) = Level(f, base, n) /\ Level(f, base, n) \in Nat
         /\ Level(f, base, f.parent[n]) \in Nat
  <1>1. Depth(f, n) \in Nat /\ n # 0
    BY DepthIs DEF Node
  <1>2. CASE f.parent[n] = 0
    BY <1>1, <1>2, DepthIs DEF Level
  <1>3. CASE f.parent[n] # 0
    <2>1. Depth(f, n) = Depth(f, f.parent[n]) + 1 /\ f.parent[n] \in Node
      BY <1>3, DepthIs, FolderIs
    <2>2. Depth(f, f.parent[n]) \in Nat
      BY <2>1, DepthIs
    <2>3. QED
      BY <1>1, <1>3, <2>1, <2>2 DEF Level
  <1>4. QED
    BY <1>2, <1>3

(* One more entry, of whatever kind.                                       *)
GrowsBy(f, base, cap, Q, n, P) ==
  /\ FilesIn(f, P) = FilesIn(f, Q) \cup (IF IsFile(f, n) THEN {n} ELSE {})
  /\ DirsIn(f, base, cap, P)
       = DirsIn(f, base, cap, Q) \cup (IF Shallow(f, base, cap, n) THEN {n} ELSE {})
  /\ Marked(f, base, cap, P)
       = Marked(f, base, cap, Q) \cup (IF Deep(f, base, cap, n) THEN {n} \cup Above(f, n) ELSE {})

LEMMA GrowsOn ==
  ASSUME NEW f, NEW base, NEW cap, NEW Q, NEW n
  PROVE  GrowsBy(f, base, cap, Q, n, Q \cup {n})
  <1>1. FilesIn(f, Q \cup {n}) = FilesIn(f, Q) \cup (IF IsFile(f, n) THEN {n} ELSE {})
    BY DEF FilesIn
  <1>2. DirsIn(f, base, cap, Q \cup {n})
          = DirsIn(f, base, cap, Q) \cup (IF Shallow(f, base, cap, n) THEN {n} ELSE {})
    BY DEF DirsIn
  <1>3. Marked(f, base, cap, Q \cup {n})
          = Marked(f, base, cap, Q)
              \cup (IF Deep(f, base, cap, n) THEN {n} \cup Above(f, n) ELSE {})
    <2> DEFINE M(S) == {m \in S : Deep(f, base, cap, m)}
               A(m) == {m} \cup Above(f, m)
    <2>1. M(Q \cup {n}) = M(Q) \cup (IF Deep(f, base, cap, n) THEN {n} ELSE {})
      OBVIOUS
    <2>2. \A S : Marked(f, base, cap, S) = UNION {A(m) : m \in M(S)}
      BY DEF Marked
    <2> HIDE DEF M, A
    <2>3. CASE Deep(f, base, cap, n)
      <3>1. M(Q \cup {n}) = M(Q) \cup {n}
        BY <2>1, <2>3
      <3>2. UNION {A(m) : m \in M(Q) \cup {n}} = (UNION {A(m) : m \in M(Q)}) \cup A(n)
        OBVIOUS
      <3>3. QED
        BY <2>2, <2>3, <3>1, <3>2 DEF A
    <2>4. CASE ~Deep(f, base, cap, n)
      BY <2>1, <2>2, <2>4
    <2>5. QED
      BY <2>3, <2>4
  <1>4. QED
    BY ONLY <1>1, <1>2, <1>3, Zenon DEF GrowsBy

LEMMA LiveTurn ==
  ASSUME NEW f \in Folders, NEW base \in Nat, NEW cap \in Int, NEW limit \in Nat,
         NEW w \in WalkType, NEW R, NEW Q \in SUBSET Node, Live(f, base, cap, limit, w, R, Q),
         NEW x \in R, NEW n \in Node, ReadIn(f, x, n), n \notin Q,
         NEW v, EnteredAs(f, cap, limit, Level(f, base, x), w, n, v)
  PROVE  Halted(f, base, cap, limit, v) \/ Live(f, base, cap, limit, v, R, Q \cup {n})
  <1> DEFINE d == Level(f, base, x)
             D == DirsIn(f, base, cap, Q)
             P == Q \cup {n}
  <1>1. /\ ~Cut(w) /\ Q \subseteq Met(f, base, cap) /\ w.dirs = D
        /\ ToSet(w.out) = FilesIn(f, Q) /\ w.deepUnder = Marked(f, base, cap, Q)
        /\ Counted(w.out, limit) /\ Standing(f, base, w.stack, R, D)
    BY DEF Live
  <1>2. /\ w.stack \in Seq(Pending) /\ w.out \in Seq(Node) /\ D \in SUBSET Node
    BY <1>1, WalkIs
  <1>3. x \in {0} \cup D
    BY <1>1 DEF Standing
  <1>4. f.parent[n] = x
    BY DEF ReadIn
  <1>5. d + 1 = base + Depth(f, n) /\ base + Depth(f, n) = Level(f, base, n) /\ Level(f, base, n) \in Nat
    BY <1>4, LevelIn
  <1>6. n \in Met(f, base, cap) /\ P \subseteq Met(f, base, cap)
    <2>1. n \in Met(f, base, cap)
      BY <1>1, <1>3, MetOn
    <2>2. QED
      BY <1>1, <2>1
  <1>7. n \notin D /\ n \notin FilesIn(f, Q)
    BY DEF DirsIn, FilesIn
  <1> HIDE DEF d, D, P
  <1>8. /\ v \in WalkType
        /\ Cut(w) \/ IsDot(f, n) => v = w
        /\ ~Cut(w) /\ IsDir(f, n) /\ d + 1 >= cap => Marks(f, w, n, v)
        /\ ~Cut(w) /\ IsDir(f, n) /\ ~(d + 1 >= cap) => Pushes(w, n, d + 1, v)
        /\ ~Cut(w) /\ IsFile(f, n) /\ Len(w.out) >= limit => Cut(v) /\ Kept5(w, v)
        /\ ~Cut(w) /\ IsFile(f, n) /\ ~(Len(w.out) >= limit) => Lists(w, n, v)
    BY DEF EnteredAs, d
  <1>9. /\ FilesIn(f, P) = FilesIn(f, Q) \cup (IF IsFile(f, n) THEN {n} ELSE {})
        /\ DirsIn(f, base, cap, P) = D \cup (IF Shallow(f, base, cap, n) THEN {n} ELSE {})
        /\ Marked(f, base, cap, P)
             = Marked(f, base, cap, Q) \cup (IF Deep(f, base, cap, n) THEN {n} \cup Above(f, n) ELSE {})
    <2>1. GrowsBy(f, base, cap, Q, n, P)
      BY GrowsOn DEF P
    <2>2. QED
      BY ONLY <2>1, Zenon DEF GrowsBy, D
  <1>10. /\ IsDot(f, n) \/ IsDir(f, n) \/ IsFile(f, n)
         /\ ~(IsDot(f, n) /\ IsDir(f, n)) /\ ~(IsDot(f, n) /\ IsFile(f, n))
         /\ ~(IsDir(f, n) /\ IsFile(f, n))
    BY KindIs
  <1>11. /\ Shallow(f, base, cap, n) <=> IsDir(f, n) /\ ~(d + 1 >= cap)
         /\ Deep(f, base, cap, n) <=> IsDir(f, n) /\ d + 1 >= cap
    BY <1>5 DEF Shallow, Deep
  <1>12. CASE IsDot(f, n)
    <2>1. v = w /\ ~Shallow(f, base, cap, n) /\ ~Deep(f, base, cap, n) /\ ~IsFile(f, n)
      BY ONLY <1>8, <1>10, <1>11, <1>12
    <2>2. /\ FilesIn(f, P) = FilesIn(f, Q) /\ DirsIn(f, base, cap, P) = D
          /\ Marked(f, base, cap, P) = Marked(f, base, cap, Q)
      BY ONLY <1>9, <2>1
    <2>3. Live(f, base, cap, limit, v, R, P)
      BY ONLY <1>1, <1>6, <2>1, <2>2, Zenon DEF Live
    <2>4. QED
      BY <2>3 DEF P
  <1>13. CASE IsDir(f, n) /\ d + 1 >= cap
    <2>1. Marks(f, w, n, v) /\ ~Shallow(f, base, cap, n) /\ Deep(f, base, cap, n) /\ ~IsFile(f, n)
      BY ONLY <1>1, <1>8, <1>10, <1>11, <1>13
    <2>2. /\ FilesIn(f, P) = FilesIn(f, Q) /\ DirsIn(f, base, cap, P) = D
          /\ Marked(f, base, cap, P) = Marked(f, base, cap, Q) \cup {n} \cup Above(f, n)
      BY ONLY <1>9, <2>1
    <2>3. /\ ~Cut(v) /\ v.stack = w.stack /\ v.out = w.out /\ v.dirs = w.dirs
          /\ v.deepUnder = w.deepUnder \cup {n} \cup Above(f, n)
      BY ONLY <2>1, Zenon DEF Marks
    <2>4. Live(f, base, cap, limit, v, R, P)
      BY ONLY <1>1, <1>6, <2>2, <2>3, Zenon DEF Live
    <2>5. QED
      BY <2>4 DEF P
  <1>14. CASE IsDir(f, n) /\ ~(d + 1 >= cap)
    <2>1. Pushes(w, n, d + 1, v) /\ Shallow(f, base, cap, n) /\ ~Deep(f, base, cap, n) /\ ~IsFile(f, n)
      BY ONLY <1>1, <1>8, <1>10, <1>11, <1>14
    <2>2. /\ FilesIn(f, P) = FilesIn(f, Q) /\ DirsIn(f, base, cap, P) = D \cup {n}
          /\ Marked(f, base, cap, P) = Marked(f, base, cap, Q)
      BY ONLY <1>9, <2>1
    <2>3. /\ ~Cut(v) /\ v.out = w.out /\ v.deepUnder = w.deepUnder
          /\ v.stack = Append(w.stack, <<n, d + 1>>) /\ v.dirs = w.dirs \cup {n}
      BY ONLY <2>1, Zenon DEF Pushes
    <2>4. Standing(f, base, Append(w.stack, <<n, d + 1>>), R, D \cup {n})
      BY <1>1, <1>2, <1>5, <1>7, StandingPush
    <2>5. Live(f, base, cap, limit, v, R, P)
      BY ONLY <1>1, <1>6, <2>2, <2>3, <2>4, Zenon DEF Live
    <2>6. QED
      BY <2>5 DEF P
  <1>15. CASE IsFile(f, n) /\ Len(w.out) >= limit
    <2>1. Cut(v) /\ v.out = w.out
      BY ONLY <1>1, <1>8, <1>15 DEF Kept5
    <2>2. Len(w.out) = limit
      <3>1. Len(w.out) \in Nat /\ Len(w.out) <= limit
        BY <1>1, <1>2 DEF Counted
      <3>2. QED
        BY <1>15, <3>1
    <2>3. FilesIn(f, Q) \subseteq FilesIn(f, Met(f, base, cap))
      BY <1>1 DEF FilesIn
    <2>4. Halted(f, base, cap, limit, v)
      BY ONLY <1>1, <2>1, <2>2, <2>3, Zenon DEF Halted
    <2>5. QED
      BY <2>4
  <1>16. CASE IsFile(f, n) /\ ~(Len(w.out) >= limit)
    <2>1. Lists(w, n, v) /\ ~Shallow(f, base, cap, n) /\ ~Deep(f, base, cap, n)
      BY ONLY <1>1, <1>8, <1>10, <1>11, <1>16
    <2>2. /\ FilesIn(f, P) = FilesIn(f, Q) \cup {n} /\ DirsIn(f, base, cap, P) = D
          /\ Marked(f, base, cap, P) = Marked(f, base, cap, Q)
      BY ONLY <1>9, <1>16, <2>1
    <2>3. /\ ~Cut(v) /\ v.stack = w.stack /\ v.dirs = w.dirs /\ v.deepUnder = w.deepUnder
          /\ v.out = Append(w.out, n)
      BY ONLY <2>1, Zenon DEF Lists
    <2>4. ToSet(Append(w.out, n)) = FilesIn(f, Q) \cup {n} /\ Counted(Append(w.out, n), limit)
      BY <1>1, <1>2, <1>7, <1>16, CountedOn
    <2>5. Live(f, base, cap, limit, v, R, P)
      BY ONLY <1>1, <1>6, <2>2, <2>3, <2>4, Zenon DEF Live
    <2>6. QED
      BY <2>5 DEF P
  <1>17. QED
    BY ONLY <1>10, <1>12, <1>13, <1>14, <1>15, <1>16

(* A whole folder is read.                                                 *)
LEMMA LiveVisit ==
  ASSUME NEW f \in Folders, NEW base \in Nat, NEW cap \in Int, NEW limit \in Nat,
         NEW w \in WalkType, NEW R, Live(f, base, cap, limit, w, R, Reads(f, R)), w.stack # <<>>,
         NEW v, Visits(f, cap, limit, w, v)
  PROVE  \/ Halted(f, base, cap, limit, v)
         \/ \E x \in 0 .. Nodes : x \notin R /\ Live(f, base, cap, limit, v, R \cup {x}, Reads(f, R \cup {x}))
  <1>1. PICK z, t : /\ Pops(w, z) /\ VisitTable(t, f, cap, limit, Last(w.stack), z)
                    /\ v = t[Nodes]
    BY DEF Visits
  <1> DEFINE cur == Last(w.stack)
             x == cur[1]
             S == R \cup {x}
             Sofar(k) == Reads(f, R) \cup {n \in Reads(f, {x}) : n <= k}
             Good(k) == \/ Halted(f, base, cap, limit, t[k])
                        \/ Live(f, base, cap, limit, t[k], S, Sofar(k))
             B == {k \in 0 .. Nodes : Good(k)}
  <1>2. /\ ~Cut(w) /\ Reads(f, R) \subseteq Met(f, base, cap) /\ w.dirs = DirsIn(f, base, cap, Reads(f, R))
        /\ ToSet(w.out) = FilesIn(f, Reads(f, R)) /\ w.deepUnder = Marked(f, base, cap, Reads(f, R))
        /\ Counted(w.out, limit) /\ Standing(f, base, w.stack, R, w.dirs)
    BY DEF Live
  <1>3. w.stack \in Seq(Pending) /\ w.dirs \subseteq Node
    BY WalkIs
  <1>4. /\ Standing(f, base, Front(w.stack), S, w.dirs)
        /\ x \in {0} \cup w.dirs /\ x \notin R /\ cur[2] = Level(f, base, x)
    BY <1>2, <1>3, StandingPop
  <1>5. Nodes \in Nat
    BY FolderWalkAssumption
  <1>6. x \in 0 .. Nodes
    BY <1>3, <1>4, <1>5 DEF Node
  <1>7. /\ z \in WalkType /\ ~Cut(z) /\ z.stack = Front(w.stack) /\ z.out = w.out
        /\ z.dirs = w.dirs /\ z.deepUnder = w.deepUnder
    BY <1>1 DEF Pops
  <1>8. /\ \A k \in 0 .. Nodes : t[k] \in WalkType
        /\ t[0] = z
        /\ \A k \in 1 .. Nodes : Takes(f, cap, limit, cur, t[k - 1], k, t[k])
    BY <1>1 DEF VisitTable
  <1> HIDE DEF cur, x
  <1>9. Good(0)
    <2>1. Sofar(0) = Reads(f, R)
      BY DEF Reads, Node
    <2> HIDE DEF S, Sofar
    <2>2. Live(f, base, cap, limit, z, S, Reads(f, R))
      BY ONLY <1>2, <1>4, <1>7, Zenon DEF Live
    <2>3. QED
      BY ONLY <1>8, <2>1, <2>2, Zenon
  <1>10. ASSUME NEW k \in 1 .. Nodes, Good(k - 1) PROVE Good(k)
    <2>1. k - 1 \in 0 .. Nodes /\ k \in Node /\ k \in Nat
      BY <1>5 DEF Node
    <2>2. t[k - 1] \in WalkType /\ Takes(f, cap, limit, cur, t[k - 1], k, t[k])
      BY <1>8, <2>1
    <2>3. CASE ~ReadIn(f, x, k)
      <3>1. t[k] = t[k - 1]
        BY <2>2, <2>3 DEF Takes, x
      <3>2. Sofar(k) = Sofar(k - 1)
        <4>1. k \notin Reads(f, {x})
          BY <2>3 DEF Reads
        <4>2. \A n \in Reads(f, {x}) : n <= k <=> n <= k - 1
          BY <2>1, <4>1 DEF Reads, Node
        <4>3. QED
          BY <4>2
      <3> HIDE DEF Sofar, S
      <3>3. QED
        BY ONLY <1>10, <3>1, <3>2, Zenon
    <2>4. CASE ReadIn(f, x, k)
      <3>1. f.parent[k] = x
        BY <2>4 DEF ReadIn
      <3>2. Sofar(k) = Sofar(k - 1) \cup {k}
        <4>1. k \in Reads(f, {x})
          BY <2>1, <2>4, <3>1 DEF Reads
        <4>2. \A n \in Reads(f, {x}) : n <= k <=> n <= k - 1 \/ n = k
          BY <2>1 DEF Reads, Node
        <4>3. QED
          BY <2>1, <4>1, <4>2
      <3>3. k \notin Sofar(k - 1)
        BY <1>4, <2>1, <3>1 DEF Reads
      <3>4. Sofar(k - 1) \in SUBSET Node
        BY DEF Reads
      <3>5. EnteredAs(f, cap, limit, Level(f, base, x), t[k - 1], k, t[k])
        BY <1>4, <2>2, <2>4 DEF Takes, x
      <3>6. x \in S
        OBVIOUS
      <3> HIDE DEF Sofar, S
      <3>7. CASE Halted(f, base, cap, limit, t[k - 1])
        <4>1. t[k] = t[k - 1]
          BY <3>5, <3>7 DEF Halted, EnteredAs
        <4>2. QED
          BY <3>7, <4>1
      <3>8. CASE Live(f, base, cap, limit, t[k - 1], S, Sofar(k - 1))
        BY <2>1, <2>2, <2>4, <3>2, <3>3, <3>4, <3>5, <3>6, <3>8, LiveTurn
      <3>9. QED
        BY <1>10, <3>7, <3>8
    <2>5. QED
      BY <2>3, <2>4
  <1> HIDE DEF Good
  <1>11. 0 .. Nodes \subseteq B
    <2>1. 0 \in B /\ \A k \in 1 .. Nodes : k - 1 \in B => k \in B
      BY <1>5, <1>9, <1>10
    <2> HIDE DEF B
    <2>2. QED
      BY <1>5, <2>1, Upward
  <1>12. Good(Nodes)
    BY <1>5, <1>11
  <1>13. Sofar(Nodes) = Reads(f, S)
    BY DEF Reads, Node
  <1> HIDE DEF S, Sofar
  <1>14. Halted(f, base, cap, limit, v) \/ Live(f, base, cap, limit, v, S, Reads(f, S))
    BY ONLY <1>1, <1>12, <1>13, Zenon DEF Good
  <1>15. QED
    BY <1>4, <1>6, <1>14 DEF S

(* Where a walk stands after some rounds.                                  *)
At(f, base, cap, limit, w, k) ==
  \/ Halted(f, base, cap, limit, w)
  \/ \E R \in SUBSET (0 .. Nodes) :
       /\ Live(f, base, cap, limit, w, R, Reads(f, R))
       /\ w.stack = <<>> \/ Cardinality(R) = k

LEMMA AtFirst ==
  ASSUME NEW f \in Folders, NEW base \in Nat, NEW cap, NEW limit \in Nat
  PROVE  At(f, base, cap, limit, Start(base), 0)
  <1> DEFINE w == Start(base)
             no == FALSE
             s == <<<<0, base>>>>
  <1>1. Reads(f, {}) = {} /\ DirsIn(f, base, cap, {}) = {} /\ FilesIn(f, {}) = {}
        /\ Marked(f, base, cap, {}) = {}
    BY DEF Reads, DirsIn, FilesIn, Marked
  <1>2. /\ w = [stack |-> s, out |-> <<>>, truncated |-> no, deepUnder |-> {}, dirs |-> {}] /\ ~no
    BY DEF Start
  <1>3. Standing(f, base, s, {}, {})
    <2>1. Len(s) = 1 /\ s[1] = <<0, base>> /\ \A i \in 1 .. 1 : i = 1
      OBVIOUS
    <2>2. s[1][1] = 0 /\ s[1][2] = base /\ 1 \in 1 .. 1
      BY <2>1
    <2> HIDE DEF s
    <2>3. QED
      BY <2>1, <2>2 DEF Standing, Level
  <1>4. ToSet(<<>>) = {} /\ Counted(<<>>, limit)
    <2>1. ToSet(<<>>) = {} /\ Len(<<>>) = 0
      BY DEF ToSet
    <2>2. Cardinality({}) = 0
      BY FS_EmptySet
    <2>3. QED
      BY ONLY <2>1, <2>2, limit \in Nat DEF Counted
  <1> HIDE DEF w, no, s
  <1>5. ~Cut(w) /\ w.stack = s /\ w.out = <<>> /\ w.deepUnder = {} /\ w.dirs = {}
    BY ONLY <1>2 DEF Cut
  <1>6. Live(f, base, cap, limit, w, {}, {})
    BY ONLY <1>1, <1>3, <1>4, <1>5 DEF Live
  <1>7. Live(f, base, cap, limit, w, {}, Reads(f, {}))
    BY ONLY <1>1, <1>6, Zenon
  <1>8. Cardinality({}) = 0 /\ {} \in SUBSET (0 .. Nodes)
    BY FS_EmptySet
  <1>9. QED
    BY ONLY <1>7, <1>8, Zenon DEF At, w

LEMMA AtOn ==
  ASSUME NEW f \in Folders, NEW base \in Nat, NEW cap \in Int, NEW limit \in Nat, NEW k \in Nat,
         NEW w \in WalkType, At(f, base, cap, limit, w, k), NEW v, Rounds(f, cap, limit, w, v)
  PROVE  At(f, base, cap, limit, v, k + 1)
  <1>1. /\ Cut(w) \/ w.stack = <<>> => v = w
        /\ ~Cut(w) /\ w.stack # <<>> /\ Len(w.out) >= limit => Cut(v) /\ Kept5(w, v)
        /\ ~Cut(w) /\ w.stack # <<>> /\ Len(w.out) < limit => Visits(f, cap, limit, w, v)
    BY DEF Rounds
  <1>2. CASE Halted(f, base, cap, limit, w)
    <2>1. v = w
      BY <1>1, <1>2 DEF Halted
    <2>2. QED
      BY <1>2, <2>1 DEF At
  <1>3. CASE ~Halted(f, base, cap, limit, w)
    <2>1. PICK R \in SUBSET (0 .. Nodes) :
                 /\ Live(f, base, cap, limit, w, R, Reads(f, R))
                 /\ w.stack = <<>> \/ Cardinality(R) = k
      BY <1>3 DEF At
    <2>2. CASE w.stack = <<>>
      <3>1. v = w
        BY <1>1, <2>2
      <3>2. QED
        BY <2>1, <2>2, <3>1 DEF At
    <2>3. CASE w.stack # <<>> /\ Len(w.out) >= limit
      <3>1. /\ ~Cut(w) /\ Reads(f, R) \subseteq Met(f, base, cap)
            /\ ToSet(w.out) = FilesIn(f, Reads(f, R)) /\ Counted(w.out, limit)
        BY <2>1 DEF Live
      <3>2. Cut(v) /\ v.out = w.out
        BY <1>1, <2>3, <3>1 DEF Kept5
      <3>3. Len(w.out) = limit
        <4>1. Len(w.out) \in Nat /\ Len(w.out) <= limit
          BY <3>1, WalkIs DEF Counted
        <4>2. QED
          BY <2>3, <4>1
      <3>4. ToSet(w.out) \subseteq FilesIn(f, Met(f, base, cap))
        BY <3>1 DEF FilesIn
      <3>5. Halted(f, base, cap, limit, v)
        BY ONLY <3>1, <3>2, <3>3, <3>4, Zenon DEF Halted
      <3>6. QED
        BY <3>5 DEF At
    <2>4. CASE w.stack # <<>> /\ Len(w.out) < limit
      <3>1. Visits(f, cap, limit, w, v)
        BY <1>1, <2>1, <2>4 DEF Live
      <3>2. CASE Halted(f, base, cap, limit, v)
        BY <3>2 DEF At
      <3>3. ASSUME NEW x \in 0 .. Nodes, x \notin R,
                   Live(f, base, cap, limit, v, R \cup {x}, Reads(f, R \cup {x}))
            PROVE  At(f, base, cap, limit, v, k + 1)
        <4>1. IsFiniteSet(R)
          <5>1. IsFiniteSet(0 .. Nodes)
            BY FolderWalkAssumption, FS_Interval
          <5>2. QED
            BY <5>1, FS_Subset
        <4>2. Cardinality(R \cup {x}) = k + 1
          BY <2>1, <2>4, <3>3, <4>1, FS_AddElement
        <4>3. R \cup {x} \in SUBSET (0 .. Nodes)
          BY <3>3
        <4>4. QED
          BY ONLY <3>3, <4>2, <4>3, Zenon DEF At
      <3>4. QED
        BY <2>1, <2>4, <3>1, <3>2, <3>3, LiveVisit
    <2>5. Len(w.out) \in Nat
      BY WalkIs
    <2>6. QED
      BY <2>2, <2>3, <2>4, <2>5
  <1>4. QED
    BY <1>2, <1>3

(* What can be met is what is reached above the cap.                       *)
LEMMA MetIs ==
  ASSUME NEW f \in Folders, NEW base \in Nat, NEW cap \in Int, NEW n \in Node, ~IsDot(f, n)
  PROVE  n \in Met(f, base, cap)
           <=> n \in Reached(f) /\ (Depth(f, n) = 1 \/ base + Depth(f, n) <= cap)
  <1>1. n \in Met(f, base, cap)
          <=> /\ ReadIn(f, f.parent[n], n)
              /\ f.parent[n] # 0 => /\ f.parent[n] \in Reached(f)
                                    /\ Shallow(f, base, cap, f.parent[n])
    BY DEF Met
  <1>2. f.kind[n] # "dot" /\ Depth(f, n) \in Nat
    BY DepthIs DEF IsDot
  <1>3. CASE f.parent[n] = 0
    <2>1. n \in Reached(f) /\ Depth(f, n) = 1 /\ n \in Met(f, base, cap)
      BY <1>1, <1>2, <1>3, DepthIs, ReachedIs DEF ReadIn
    <2>2. QED
      BY <2>1
  <1>4. CASE f.parent[n] # 0
    <2> DEFINE p == f.parent[n]
    <2>1. p \in Node /\ Depth(f, n) = Depth(f, p) + 1 /\ Depth(f, p) \in Nat \ {0}
      <3>1. p \in Node
        BY <1>4, FolderIs
      <3>2. QED
        BY <1>4, <3>1, DepthIs
    <2>2. ~(base + Depth(f, p) >= cap) <=> base + Depth(f, n) <= cap
      BY <2>1
    <2>3. Depth(f, n) # 1
      BY <2>1
    <2>4. f.kind[p] \in {"file", "dir", "dot", "shut"} /\ f.kind[p] # "file"
      BY <1>4, <2>1, FolderIs DEF Kinds
    <2>5. p \in Reached(f) => f.kind[p] # "dot"
      BY DEF Reached
    <2>6. n \in Reached(f) <=> p \in Reached(f) /\ f.kind[p] = "dir"
      BY <1>2, <1>4, ReachedIs
    <2>7. ReadIn(f, p, n) <=> f.kind[p] # "shut"
      BY <1>4 DEF ReadIn
    <2>8. n \in Met(f, base, cap)
            <=> f.kind[p] # "shut" /\ p \in Reached(f) /\ IsDir(f, p) /\ ~(base + Depth(f, p) >= cap)
      BY <1>1, <1>4, <2>7 DEF Shallow
    <2>9. IsDir(f, p) <=> f.kind[p] \in {"dir", "shut"}
      BY DEF IsDir
    <2> HIDE DEF p
    <2>10. QED
      BY <2>2, <2>3, <2>4, <2>5, <2>6, <2>8, <2>9
  <1>5. QED
    BY <1>3, <1>4

LEMMA MetAbove ==
  ASSUME NEW f \in Folders, NEW base \in Nat, NEW cap \in Int
  PROVE  /\ FilesIn(f, Met(f, base, cap)) = FilesAbove(f, cap - base)
         /\ DirsIn(f, base, cap, Met(f, base, cap)) = DirsAbove(f, cap - base)
  <1>1. ASSUME NEW n \in Node
        PROVE  /\ n \in FilesIn(f, Met(f, base, cap)) <=> n \in FilesAbove(f, cap - base)
               /\ n \in DirsIn(f, base, cap, Met(f, base, cap)) <=> n \in DirsAbove(f, cap - base)
    <2>1. /\ n \in FilesAbove(f, cap - base)
               <=> n \in Reached(f) /\ IsFile(f, n) /\ (Depth(f, n) = 1 \/ Depth(f, n) <= cap - base)
          /\ n \in DirsAbove(f, cap - base)
               <=> n \in Reached(f) /\ IsDir(f, n) /\ Depth(f, n) < cap - base
      BY DEF FilesAbove, Files, DirsAbove, IsFile
    <2>2. /\ n \in FilesIn(f, Met(f, base, cap)) <=> n \in Met(f, base, cap) /\ IsFile(f, n)
          /\ n \in DirsIn(f, base, cap, Met(f, base, cap))
               <=> n \in Met(f, base, cap) /\ IsDir(f, n) /\ ~(base + Depth(f, n) >= cap)
      BY DEF FilesIn, DirsIn, Shallow
    <2>3. Depth(f, n) \in Nat
      BY DepthIs
    <2>4. /\ Depth(f, n) <= cap - base <=> base + Depth(f, n) <= cap
          /\ Depth(f, n) < cap - base <=> ~(base + Depth(f, n) >= cap)
          /\ ~(base + Depth(f, n) >= cap) => base + Depth(f, n) <= cap
      BY <2>3
    <2>5. IsFile(f, n) \/ IsDir(f, n) => ~IsDot(f, n)
      BY KindIs
    <2>6. CASE IsDot(f, n)
      BY ONLY <2>1, <2>2, <2>5, <2>6
    <2>7. CASE ~IsDot(f, n)
      <3>1. n \in Met(f, base, cap)
              <=> n \in Reached(f) /\ (Depth(f, n) = 1 \/ base + Depth(f, n) <= cap)
        BY <2>7, MetIs
      <3>2. QED
        BY ONLY <2>1, <2>2, <2>4, <3>1
    <2>8. QED
      BY <2>6, <2>7
  <1>2. /\ FilesIn(f, Met(f, base, cap)) \subseteq Node /\ FilesAbove(f, cap - base) \subseteq Node
        /\ DirsIn(f, base, cap, Met(f, base, cap)) \subseteq Node /\ DirsAbove(f, cap - base) \subseteq Node
    BY DEF FilesIn, DirsIn, Met, FilesAbove, DirsAbove, Files, Reached
  <1>3. QED
    BY <1>1, <1>2

(* A walk that has nothing left to read has met everything.                *)
LEMMA ReadAll ==
  ASSUME NEW f \in Folders, NEW base \in Nat, NEW cap \in Int, NEW R,
         Reads(f, R) \subseteq Met(f, base, cap), {0} \cup DirsIn(f, base, cap, Reads(f, R)) \subseteq R
  PROVE  Reads(f, R) = Met(f, base, cap)
  <1> DEFINE B == {n \in Node : n \in Met(f, base, cap) => n \in Reads(f, R)}
  <1>1. ASSUME NEW n \in Node, f.parent[n] = 0 \/ f.parent[n] \in B PROVE n \in B
    <2> SUFFICES ASSUME n \in Met(f, base, cap) PROVE n \in Reads(f, R)
      OBVIOUS
    <2> DEFINE p == f.parent[n]
    <2>1. ReadIn(f, p, n) /\ (p # 0 => p \in Reached(f) /\ Shallow(f, base, cap, p))
      BY DEF Met
    <2>2. CASE p = 0
      BY <2>1, <2>2 DEF Reads
    <2>3. CASE p # 0
      <3>1. p \in Node /\ p \in Reached(f) /\ Shallow(f, base, cap, p) /\ p \in B
        BY <1>1, <2>1, <2>3, FolderIs
      <3>2. ~IsDot(f, p) /\ Depth(f, p) \in Nat
        BY <3>1, DepthIs DEF Reached, IsDot
      <3>3. base + Depth(f, p) <= cap
        BY <3>1, <3>2 DEF Shallow
      <3>4. p \in Met(f, base, cap)
        BY <3>1, <3>2, <3>3, MetIs
      <3>5. p \in DirsIn(f, base, cap, Reads(f, R))
        BY <3>1, <3>4 DEF DirsIn
      <3>6. QED
        BY <2>1, <3>5 DEF Reads
    <2>4. QED
      BY <2>2, <2>3
  <1>2. Node \subseteq B
    <2> HIDE DEF B
    <2>1. QED
      BY <1>1, Downward
  <1>3. Met(f, base, cap) \subseteq Node
    BY DEF Met
  <1>4. QED
    BY <1>2, <1>3

(* What a walk comes to.                                                   *)
Exact(f, base, cap, limit, w) ==
  /\ ~Cut(w)
  /\ ToSet(w.out) = FilesAbove(f, cap - base)
  /\ w.dirs = DirsAbove(f, cap - base)
  /\ w.deepUnder = Marked(f, base, cap, Met(f, base, cap))
  /\ Counted(w.out, limit)
Limited(f, base, cap, limit, w) ==
  /\ Cut(w)
  /\ ToSet(w.out) \subseteq FilesAbove(f, cap - base)
  /\ Counted(w.out, limit)
  /\ Len(w.out) = limit

LEMMA WalkComesTo ==
  ASSUME NEW f \in Folders, NEW base \in Nat, NEW cap \in Int, NEW limit \in Nat,
         NEW w, w = Walk(f, base, cap, limit)
  PROVE  w \in WalkType /\ (Exact(f, base, cap, limit, w) \/ Limited(f, base, cap, limit, w))
  <1>1. PICK t : WalkTable(t, f, base, cap, limit) /\ w = t[Nodes + 1]
    BY WalkSteps
  <1>2. /\ \A k \in 0 .. Nodes + 1 : t[k] \in WalkType
        /\ t[0] = Start(base)
        /\ \A k \in 1 .. Nodes + 1 : Rounds(f, cap, limit, t[k - 1], t[k])
    BY <1>1 DEF WalkTable
  <1>3. Nodes \in Nat /\ Nodes + 1 \in Nat /\ Nodes + 1 \in 0 .. Nodes + 1
    BY FolderWalkAssumption
  <1> DEFINE B == {k \in 0 .. Nodes + 1 : At(f, base, cap, limit, t[k], k)}
  <1>4. 0 \in B
    <2>1. At(f, base, cap, limit, t[0], 0)
      BY <1>2, AtFirst
    <2>2. QED
      BY <1>3, <2>1
  <1>5. ASSUME NEW k \in 1 .. Nodes + 1, k - 1 \in B PROVE k \in B
    <2>1. k - 1 \in 0 .. Nodes + 1 /\ k - 1 \in Nat /\ (k - 1) + 1 = k /\ k \in 0 .. Nodes + 1
      BY <1>3
    <2>2. At(f, base, cap, limit, t[k], (k - 1) + 1)
      BY <1>2, <1>5, <2>1, AtOn
    <2>3. QED
      BY <2>1, <2>2
  <1>6. At(f, base, cap, limit, w, Nodes + 1)
    <2>1. 0 .. Nodes + 1 \subseteq B
      <3> HIDE DEF B
      <3>1. QED
        BY <1>3, <1>4, <1>5, Upward
    <2>2. QED
      BY <1>1, <1>3, <2>1
  <1>7. w \in WalkType
    BY <1>1, <1>2, <1>3
  <1>8. CASE Halted(f, base, cap, limit, w)
    <2>1. Limited(f, base, cap, limit, w)
      BY ONLY <1>8, MetAbove, f \in Folders, base \in Nat, cap \in Int DEF Halted, Limited
    <2>2. QED
      BY <1>7, <2>1
  <1>9. CASE ~Halted(f, base, cap, limit, w)
    <2>1. PICK R \in SUBSET (0 .. Nodes) :
                 /\ Live(f, base, cap, limit, w, R, Reads(f, R))
                 /\ w.stack = <<>> \/ Cardinality(R) = Nodes + 1
      BY <1>6, <1>9 DEF At
    <2>2. /\ ~Cut(w) /\ Reads(f, R) \subseteq Met(f, base, cap)
          /\ w.dirs = DirsIn(f, base, cap, Reads(f, R))
          /\ ToSet(w.out) = FilesIn(f, Reads(f, R)) /\ w.deepUnder = Marked(f, base, cap, Reads(f, R))
          /\ Counted(w.out, limit) /\ Standing(f, base, w.stack, R, w.dirs)
      BY <2>1 DEF Live
    <2>3. w.stack \in Seq(Pending) /\ w.dirs \subseteq Node
      BY <1>7, WalkIs
    <2>4. w.stack = <<>>
      <3> SUFFICES ASSUME w.stack # <<>> PROVE FALSE
        OBVIOUS
      <3>1. IsFiniteSet(0 .. Nodes) /\ Cardinality(0 .. Nodes) = Nodes + 1
        <4>1. /\ IsFiniteSet(0 .. Nodes)
              /\ IF 0 > Nodes THEN Cardinality(0 .. Nodes) = 0
                 ELSE Cardinality(0 .. Nodes) = Nodes - 0 + 1
          BY <1>3, FS_Interval
        <4>2. QED
          BY <1>3, <4>1
      <3>2. R = 0 .. Nodes
        BY <2>1, <3>1, FS_Subset
      <3>3. Last(w.stack)[1] \in {0} \cup w.dirs /\ Last(w.stack)[1] \notin R
        BY <2>2, <2>3, StandingPop
      <3>4. QED
        BY <1>3, <2>3, <3>2, <3>3 DEF Node
    <2>5. {0} \cup w.dirs \subseteq R
      <3>1. Len(w.stack) = 0
        BY <2>4
      <3>2. \A x \in {0} \cup w.dirs : x \in R \/ \E i \in 1 .. Len(w.stack) : w.stack[i][1] = x
        BY <2>2 DEF Standing
      <3>3. QED
        BY <3>1, <3>2
    <2>6. Reads(f, R) = Met(f, base, cap)
      BY <2>2, <2>5, ReadAll
    <2>7. Exact(f, base, cap, limit, w)
      BY ONLY <2>2, <2>6, MetAbove, f \in Folders, base \in Nat, cap \in Int DEF Exact
    <2>8. QED
      BY <1>7, <2>7
  <1>10. QED
    BY <1>8, <1>9

LEMMA WalkLists ==
  ASSUME NEW f \in Folders, NEW base \in Nat, NEW cap \in Int, NEW limit \in Nat,
         NEW w, w = Walk(f, base, cap, limit),
         NEW all, all = FilesAbove(f, cap - base)
  PROVE  /\ Listed(w) \subseteq all /\ Listed(w) \subseteq Node
         /\ Cardinality(Listed(w)) = Len(w.out) /\ Len(w.out) \in Nat /\ Len(w.out) <= limit
         /\ Cut(w) => Len(w.out) = limit
         /\ ~Cut(w) => Listed(w) = all
         /\ Cardinality(all) > limit => Cut(w)
  <1>1. w \in WalkType /\ (Exact(f, base, cap, limit, w) \/ Limited(f, base, cap, limit, w))
    BY WalkComesTo
  <1>2. Len(w.out) \in Nat
    BY <1>1, WalkIs
  <1>3. all \subseteq Node
    BY DEF FilesAbove, Files, Reached
  <1>4. CASE Exact(f, base, cap, limit, w)
    <2>1. ~Cut(w) /\ Listed(w) = all /\ Cardinality(Listed(w)) = Len(w.out) /\ Len(w.out) <= limit
      BY <1>4 DEF Exact, Counted, Listed
    <2>2. ~(Cardinality(all) > limit)
      BY <1>2, <2>1
    <2>3. QED
      BY ONLY <1>2, <1>3, <2>1, <2>2
  <1>5. CASE Limited(f, base, cap, limit, w)
    <2>1. /\ Cut(w) /\ Listed(w) \subseteq all /\ Cardinality(Listed(w)) = Len(w.out)
          /\ Len(w.out) <= limit /\ Len(w.out) = limit
      BY <1>5 DEF Limited, Counted, Listed
    <2>2. QED
      BY ONLY <1>2, <1>3, <2>1
  <1>6. QED
    BY <1>1, <1>4, <1>5

LEMMA CapsAre ==
  /\ maxRelDepth \in Nat /\ maxTreeFiles \in Nat /\ maxZipFiles \in Nat /\ maxZipBytes \in Nat
  /\ Nodes \in Nat /\ Bases \subseteq Nat /\ ZipLimit \in Nat /\ ZipLimit = maxZipFiles + 1
  BY FolderWalkAssumption DEF Bases, ZipLimit

LEMMA ExactAlways == folder \in Folders \cup {NoFolder} => WalkIsExact
  <1> SUFFICES ASSUME folder \in Folders, NEW base \in Bases, NEW limit \in 1 .. Nodes,
                      NEW w, w = walkSharedDirWithEmpty(folder, base, limit),
                      NEW all, all = FilesAbove(folder, maxRelDepth - base)
               PROVE  /\ Listed(w) \subseteq all
                      /\ Cardinality(Listed(w)) = Len(w.out)
                      /\ IF w.truncated THEN Len(w.out) = limit ELSE Listed(w) = all
                      /\ Cardinality(all) > limit => w.truncated
    BY DEF WalkIsExact
  <1>1. base \in Nat /\ limit \in Nat /\ maxRelDepth \in Int
    BY CapsAre
  <1>2. w = Walk(folder, base, maxRelDepth, limit)
    BY DEF walkSharedDirWithEmpty
  <1>3. /\ Listed(w) \subseteq all /\ Cardinality(Listed(w)) = Len(w.out)
        /\ Cut(w) => Len(w.out) = limit
        /\ ~Cut(w) => Listed(w) = all
        /\ Cardinality(all) > limit => Cut(w)
    BY <1>1, <1>2, WalkLists
  <1>4. QED
    BY ONLY <1>3, Zenon DEF Cut

(* A folder that may be expanded is above no file that is too deep.        *)
LEMMA ExpandsWhole ==
  ASSUME NEW f \in Folders, NEW base \in Nat, NEW cap \in Int, NEW limit \in Nat,
         NEW w, Exact(f, base, cap, limit, w),
         NEW d \in Ancestors(f, w), d \notin w.deepUnder,
         NEW m \in Files(f), d \in Above(f, m)
  PROVE  m \in Listed(w)
  <1> DEFINE top == cap - base
             c == IF top >= 1 THEN top ELSE 1
  <1>1. Listed(w) = FilesAbove(f, top) /\ w.deepUnder = Marked(f, base, cap, Met(f, base, cap))
    BY DEF Exact, Listed
  <1>2. m \in Node /\ m \in Reached(f) /\ Depth(f, m) \in Nat
    BY DepthIs DEF Files, Reached
  <1>3. PICK n \in FilesAbove(f, top) : d \in Above(f, n)
    BY <1>1 DEF Ancestors
  <1>4. n \in Node /\ (Depth(f, n) = 1 \/ Depth(f, n) <= top)
    BY DEF FilesAbove, Files, Reached
  <1>5. d \in Node
    BY <1>3, <1>4, AboveUp
  <1>6. /\ Depth(f, n) \in Nat /\ Depth(f, d) \in Nat \ {0} /\ Depth(f, d) < Depth(f, n)
        /\ top \in Int
    BY <1>3, <1>4, <1>5, DepthIs
  <1>7. Depth(f, d) < c
    BY <1>4, <1>6
  <1> SUFFICES ASSUME m \notin FilesAbove(f, top) PROVE FALSE
    BY <1>1
  <1>8. Depth(f, m) > c /\ c \in Nat \ {0}
    <2>1. ~(Depth(f, m) = 1 \/ Depth(f, m) <= top)
      BY DEF FilesAbove
    <2>2. Depth(f, m) \in Nat \ {0}
      BY <1>2, DepthIs
    <2>3. QED
      BY <1>6, <2>1, <2>2
  <1> HIDE DEF c
  <1>9. PICK x \in Above(f, m) : Depth(f, x) = c
    BY <1>2, <1>8, LevelIs
  <1>10. x \in Node /\ x \in Reached(f) /\ f.kind[x] = "dir"
    BY <1>2, AboveUp, ReachedIs
  <1>11. IsDir(f, x) /\ ~IsDot(f, x)
    BY <1>10 DEF IsDir, IsDot
  <1>12. c = 1 \/ base + c <= cap
    BY <1>6 DEF c
  <1>13. base + c >= cap
    BY <1>6 DEF c
  <1>14. x \in Met(f, base, cap)
    BY <1>9, <1>10, <1>11, <1>12, MetIs
  <1>15. {x} \cup Above(f, x) \subseteq w.deepUnder
    <2>1. Deep(f, base, cap, x)
      BY <1>9, <1>11, <1>13 DEF Deep
    <2>2. QED
      BY <1>1, <1>14, <2>1 DEF Marked
  <1>16. x \in Above(f, d)
    BY <1>2, <1>15, AboveLine
  <1>17. Depth(f, x) < Depth(f, d) /\ Depth(f, x) \in Nat
    BY <1>5, <1>10, <1>16, DepthIs
  <1>18. QED
    BY <1>6, <1>7, <1>8, <1>9, <1>17

Unmarked(f, w, d) == over(f, w, d) = ""

LEMMA OverIs ==
  ASSUME NEW f, NEW w, NEW d, Unmarked(f, w, d),
         Cardinality(Under(f, d, Listed(w))) \in Nat
  PROVE  d \notin w.deepUnder /\ (Cut(w) => Cardinality(Under(f, d, Listed(w))) = 0)
  <1> DEFINE count == Cardinality(Under(f, d, Listed(w)))
             a == count > maxTreeFiles
             b == count <= maxTreeFiles /\ d \in w.deepUnder
             c == count <= maxTreeFiles /\ d \notin w.deepUnder /\ Cut(w) /\ count > 0
             v == over(f, w, d)
  <1>1. v = CASE a -> "files" [] b -> "depth" [] c -> "list" [] OTHER -> ""
    BY DEF over, Cut
  <1>2. count \in Nat /\ maxTreeFiles \in Nat
    BY CapsAre
  <1> DEFINE ca == Cut(w)
             de == d \in w.deepUnder
  <1> HIDE DEF count, ca, de
  <1>3. ~(a /\ b) /\ ~(a /\ c) /\ ~(b /\ c)
    BY ONLY <1>2 DEF a, b, c
  <1>4. v = ""
    BY DEF Unmarked
  <1>5. ~a /\ ~b /\ ~c => ~de /\ (ca => count = 0)
    BY ONLY <1>2 DEF a, b, c, ca, de
  <1> HIDE DEF a, b, c, v
  <1>6. ~a /\ ~b /\ ~c
    BY ONLY <1>1, <1>3, <1>4
  <1>7. QED
    BY ONLY <1>5, <1>6, Zenon DEF count, ca, de

LEMMA ExpandableAlways == folder \in Folders \cup {NoFolder} => ExpandableIsWhole
  <1> SUFFICES ASSUME folder \in Folders, NEW limit \in 1 .. Nodes,
                      NEW w, w = walkShared(folder, limit),
                      NEW d \in StatDirs(folder, w), Unmarked(folder, w, d)
               PROVE  Under(folder, d, Listed(w)) = Under(folder, d, Files(folder))
    BY DEF ExpandableIsWhole, Unmarked
  <1>1. limit \in Nat /\ maxRelDepth \in Int /\ 0 \in Nat
    BY CapsAre
  <1>2. w = Walk(folder, 0, maxRelDepth, limit)
    BY DEF walkShared
  <1> DEFINE all == FilesAbove(folder, maxRelDepth - 0)
             count == Cardinality(Under(folder, d, Listed(w)))
  <1>3. Listed(w) \subseteq all /\ Listed(w) \subseteq Node
    BY <1>1, <1>2, WalkLists
  <1>4. IsFiniteSet(Under(folder, d, Listed(w)))
    <2>1. IsFiniteSet(Node)
      BY CapsAre, FS_Interval DEF Node
    <2>2. Under(folder, d, Listed(w)) \subseteq Node
      BY <1>3 DEF Under
    <2>3. QED
      BY <2>1, <2>2, FS_Subset
  <1>5. count \in Nat /\ (count = 0 => Under(folder, d, Listed(w)) = {})
    BY <1>4, FS_CardinalityType, FS_EmptySet
  <1>6. d \notin w.deepUnder /\ (Cut(w) => count = 0)
    BY <1>5, OverIs
  <1>7. d \in Ancestors(folder, w)
    BY <1>6 DEF StatDirs
  <1>8. Under(folder, d, Listed(w)) # {}
    BY <1>7 DEF Under, Ancestors
  <1> HIDE DEF count
  <1>9. ~Cut(w)
    BY <1>5, <1>6, <1>8
  <1>10. Exact(folder, 0, maxRelDepth, limit, w)
    BY <1>1, <1>2, <1>9, WalkComesTo DEF Limited
  <1>11. Listed(w) \subseteq Files(folder)
    BY <1>3 DEF FilesAbove
  <1>12. \A m \in Files(folder) : d \in Above(folder, m) => m \in Listed(w)
    BY <1>1, <1>6, <1>7, <1>10, ExpandsWhole
  <1>13. QED
    BY <1>11, <1>12 DEF Under

(* Lists, and the marks of the folders in them, are right for every folder *)
(* that there can be: what is cut off is cut off by a cap and says so.     *)
THEOREM WalksCorrect == folder = NoFolder /\ [][folder' \in Folders]_folder => []ListsInv
  <1>1. folder = NoFolder => folder \in Folders \cup {NoFolder}
    OBVIOUS
  <1>2. folder \in Folders \cup {NoFolder} /\ [folder' \in Folders]_folder
          => (folder \in Folders \cup {NoFolder})'
    OBVIOUS
  <1>3. folder \in Folders \cup {NoFolder} => ListsInv
    BY ExactAlways, ExpandableAlways DEF ListsInv
  <1>4. QED
    BY <1>1, <1>2, <1>3, PTL

(* The bytes of a set of nodes, and those of a row of them.                *)
Weighs(b) == b \in [SUBSET Node -> Nat] /\ AddsAll(b, NodeSizes, Node)

LEMMA WeightsExist ==
  /\ IsFiniteSet(Node) /\ NodeSizes \in [Node -> Nat]
  /\ \E b : Weighs(b)
  <1>1. IsFiniteSet(Node) /\ NodeSizes \in [Node -> Nat]
    <2>1. IsFiniteSet(Node)
      BY CapsAre, FS_Interval DEF Node
    <2>2. NodeSizes \in [Node -> Nat]
      BY FolderWalkAssumption, Zenon DEF Node
    <2>3. QED
      BY <2>1, <2>2
  <1>2. \E b \in [SUBSET Node -> Nat] : AddsAll(b, NodeSizes, Node)
    BY <1>1, SumExists
  <1>3. QED
    BY ONLY <1>1, <1>2, Zenon DEF Weighs

LEMMA CountTo == ASSUME NEW n \in Nat PROVE IsFiniteSet(1 .. n) /\ Cardinality(1 .. n) = n
  <1>1. /\ IsFiniteSet(1 .. n)
        /\ IF 1 > n THEN Cardinality(1 .. n) = 0 ELSE Cardinality(1 .. n) = n - 1 + 1
    BY FS_Interval
  <1>2. QED
    BY <1>1

Enumerates(a, n, T) ==
  /\ \A i, j \in 1 .. n : i # j => a[i] # a[j]
  /\ T = {a[i] : i \in 1 .. n}

LEMMA RowWeighs ==
  ASSUME NEW b, Weighs(b), NEW n \in Nat, NEW a \in [1 .. n -> Node], NEW T, Enumerates(a, n, T)
  PROVE  Total(a) = b[T] /\ Total(a) \in Nat
  <1> DEFINE g == [i \in 1 .. n |-> NodeSizes[a[i]]]
             Row == [i \in DOMAIN a |-> SizeOf(a[i])]
  <1>1. InRow(NodeSizes, a, n, g, T)
    BY DEF InRow, Enumerates
  <1>2. Total(a) = AddedUp(Row)
    BY DEF Total, AddedUp
  <1>3. Row = [i \in 1 .. n |-> g[i]]
    BY DEF SizeOf
  <1> HIDE DEF g, Row
  <1>4. Total(a) = SumTo(g, n)
    BY <1>2, <1>3 DEF SumTo
  <1>5. IsFiniteSet(Node) /\ NodeSizes \in [Node -> Nat]
    BY WeightsExist
  <1>6. b \in [SUBSET Node -> Nat] /\ AddsAll(b, NodeSizes, Node)
    BY DEF Weighs
  <1>7. SumTo(g, n) = b[T] /\ SumTo(g, n) \in Nat
    <2> DEFINE S == Node
               h == NodeSizes
    <2>1. IsFiniteSet(S) /\ h \in [S -> Nat] /\ b \in [SUBSET S -> Nat] /\ AddsAll(b, h, S)
          /\ InRow(h, a, n, g, T) /\ a \in [1 .. n -> S]
      BY <1>1, <1>5, <1>6
    <2> HIDE DEF S, h
    <2>2. SumTo(g, n) = b[T] /\ SumTo(g, n) \in Nat /\ T \in SUBSET S
      BY <2>1, BytesBy
    <2>3. QED
      BY <2>2
  <1>8. QED
    BY <1>4, <1>7

(* The files of a walk, once each, weigh what their set does.              *)
LEMMA ListWeighs ==
  ASSUME NEW b, Weighs(b), NEW o \in Seq(Node), Cardinality(ToSet(o)) = Len(o)
  PROVE  Total(o) = b[ToSet(o)] /\ Total(o) \in Nat
  <1> DEFINE n == Len(o)
             T == ToSet(o)
  <1>1. n \in Nat /\ o \in [1 .. n -> Node] /\ DOMAIN o = 1 .. n
    OBVIOUS
  <1>2. T = {o[i] : i \in 1 .. n}
    BY <1>1 DEF ToSet
  <1>3. o \in Surjection(1 .. n, T)
    <2>1. o = [i \in 1 .. n |-> o[i]] /\ \A i \in 1 .. n : o[i] \in T
      BY <1>1, <1>2
    <2>2. \A y \in T : \E i \in 1 .. n : o[i] = y
      BY <1>2
    <2> HIDE DEF T
    <2>3. QED
      BY ONLY <2>1, <2>2 DEF Surjection
  <1>4. IsFiniteSet(1 .. n) /\ Cardinality(1 .. n) = n
    BY ONLY <1>1, CountTo
  <1>5. Cardinality(T) = n
    OBVIOUS
  <1> HIDE DEF n, T
  <1>6. o \in Injection(1 .. n, T)
    BY <1>3, <1>4, <1>5, FS_Surjection
  <1>7. \A i, j \in 1 .. n : i # j => o[i] # o[j]
    BY <1>6 DEF Injection, IsInjective
  <1>8. Enumerates(o, n, T)
    BY ONLY <1>2, <1>7, Zenon DEF Enumerates
  <1>9. Total(o) = b[T] /\ Total(o) \in Nat
    BY <1>1, <1>8, RowWeighs
  <1>10. QED
    BY <1>9 DEF T

LEMMA SetWeighs ==
  ASSUME NEW b, Weighs(b), NEW S \in SUBSET Node
  PROVE  Total(SetToSeq(S)) = b[S] /\ Total(SetToSeq(S)) \in Nat
  <1> DEFINE a == SetToSeq(S)
  <1>1. IsFiniteSet(S)
    BY WeightsExist, FS_Subset
  <1>2. PICK n \in Nat : n = Cardinality(S) /\ a \in [1 .. n -> S] /\ \A i, j \in 1 .. n : i # j => a[i] # a[j]
    BY <1>1, OrderTaken
  <1> HIDE DEF a
  <1>3. IsFiniteSet(1 .. n) /\ Cardinality(1 .. n) = n
    BY ONLY <1>2, CountTo
  <1>4. a \in Injection(1 .. n, S)
    BY <1>2 DEF Injection, IsInjective
  <1>5. a \in Surjection(1 .. n, S)
    BY <1>1, <1>2, <1>3, <1>4, FS_Injection
  <1>6. {a[i] : i \in 1 .. n} = S
    BY <1>2, <1>5 DEF Surjection
  <1>7. a \in [1 .. n -> Node]
    BY <1>2
  <1>8. Enumerates(a, n, S)
    BY ONLY <1>2, <1>6, Zenon DEF Enumerates
  <1>9. Total(a) = b[S] /\ Total(a) \in Nat
    BY <1>2, <1>7, <1>8, RowWeighs
  <1>10. QED
    BY <1>9 DEF a

(* The verdict on an archive.                                              *)
Accepts(z) == z.verdict = "ok"
Refuses(z) == z.verdict = "zip_too_big"

LEMMA VerdictIs ==
  ASSUME NEW z, NEW s, s = Served(z), Len(z.files) \in Nat, Total(z.files) \in Nat
  PROVE  /\ Refuses(s) <=> /\ z.files # <<>>
                          /\ (Cut(z) \/ Len(z.files) > maxZipFiles \/ Total(z.files) > maxZipBytes)
         /\ Accepts(s) => z.files # <<>> /\ ~Cut(z)
         /\ s.files = ToSet(z.files) /\ s.dirs = z.dirs
  <1> DEFINE e == z.files = <<>>
             over1 == z.truncated \/ Len(z.files) > maxZipFiles \/ Total(z.files) > maxZipBytes
             a == e
             c == ~e /\ over1
             v == zipVerdict(z)
  <1>1. v = CASE a -> "zip_empty" [] c -> "zip_too_big" [] OTHER -> "ok"
    BY DEF zipVerdict
  <1>2. ~(a /\ c)
    OBVIOUS
  <1>3. s.verdict = v /\ s.files = ToSet(z.files) /\ s.dirs = z.dirs
    BY DEF Served
  <1>4. (c <=> ~e /\ over1) /\ (a <=> e)
    OBVIOUS
  <1>5. over1 <=> Cut(z) \/ Len(z.files) > maxZipFiles \/ Total(z.files) > maxZipBytes
    BY ONLY Zenon DEF Cut
  <1> HIDE DEF a, c, v, over1
  <1>6. (v = "zip_too_big" <=> c) /\ (v = "ok" => ~a /\ ~c)
    BY ONLY <1>1, <1>2
  <1>7. (Refuses(s) <=> v = "zip_too_big") /\ (Accepts(s) <=> v = "ok")
    BY ONLY <1>3 DEF Refuses, Accepts
  <1>8. (Refuses(s) <=> c) /\ (Accepts(s) => ~a /\ ~c)
    BY ONLY <1>6, <1>7
  <1> HIDE DEF e
  <1>9. /\ Refuses(s) <=> ~e /\ over1
        /\ Accepts(s) => ~e /\ ~over1
    BY ONLY <1>4, <1>8
  <1>11. QED
    BY ONLY <1>3, <1>5, <1>9 DEF e

(* Every folder above a listed file is one that the walk saw.              *)
LEMMA AncestorsIn ==
  ASSUME NEW f \in Folders, NEW top \in Int, NEW n \in FilesAbove(f, top)
  PROVE  Above(f, n) \subseteq DirsAbove(f, top)
  <1>1. n \in Node /\ n \in Reached(f) /\ (Depth(f, n) = 1 \/ Depth(f, n) <= top)
    BY DEF FilesAbove, Files, Reached
  <1>2. ASSUME NEW d \in Above(f, n) PROVE d \in DirsAbove(f, top)
    <2>1. d \in Node /\ d \in Reached(f) /\ f.kind[d] = "dir"
      BY <1>1, AboveUp, ReachedIs
    <2>2. Depth(f, d) < Depth(f, n) /\ Depth(f, d) \in Nat \ {0} /\ Depth(f, n) \in Nat
      <3>1. Depth(f, d) < Depth(f, n) /\ Depth(f, d) \in 1 .. Nodes /\ Depth(f, n) \in 1 .. Nodes
        BY <1>1, <2>1, DepthIs
      <3>2. QED
        BY <3>1
    <2>3. Depth(f, d) < top
      BY <1>1, <2>2
    <2>4. IsDir(f, d)
      BY <2>1 DEF IsDir
    <2>5. QED
      BY <2>1, <2>3, <2>4 DEF DirsAbove
  <1>3. QED
    BY <1>2

LEMMA WholeIs ==
  ASSUME NEW f \in Folders, NEW base \in Nat, NEW cap \in Int,
         NEW w, w = Walk(f, base, cap, ZipLimit), NEW s, s = Served(WithEmpty(f, w))
  PROVE  IsWhole(f, s, cap - base)
  <1> DEFINE z == WithEmpty(f, w)
             top == cap - base
             all == FilesAbove(f, top)
             full == SetToSeq(all)
  <1>1. /\ maxZipFiles \in Nat /\ maxZipBytes \in Nat /\ ZipLimit \in Nat
        /\ ZipLimit = maxZipFiles + 1
    BY CapsAre
  <1>2. w \in WalkType /\ (Exact(f, base, cap, ZipLimit, w) \/ Limited(f, base, cap, ZipLimit, w))
    BY <1>1, WalkComesTo
  <1>3. /\ Listed(w) \subseteq all /\ Listed(w) \subseteq Node
        /\ Cardinality(Listed(w)) = Len(w.out) /\ Len(w.out) \in Nat /\ Len(w.out) <= ZipLimit
        /\ Cut(w) => Len(w.out) = ZipLimit
        /\ ~Cut(w) => Listed(w) = all
        /\ Cardinality(all) > ZipLimit => Cut(w)
    BY <1>1, WalkLists
  <1>4. z.files = w.out /\ z.dirs = EmptyDirs(f, w) /\ (Cut(z) <=> Cut(w))
    BY DEF WithEmpty, Cut
  <1>5. all \in SUBSET Node /\ IsFiniteSet(all) /\ top \in Int
    <2>1. all \in SUBSET Node
      BY DEF FilesAbove, Files, Reached
    <2>2. IsFiniteSet(all)
      BY <2>1, WeightsExist, FS_Subset
    <2>3. QED
      BY <2>1, <2>2
  <1>6. Cardinality(all) \in Nat /\ Cardinality(Listed(w)) <= Cardinality(all)
    BY <1>3, <1>5, FS_CardinalityType, FS_Subset
  <1>7. PICK b : Weighs(b)
    BY WeightsExist
  <1>8. Total(w.out) = b[Listed(w)] /\ Total(w.out) \in Nat
    <2>1. w.out \in Seq(Node) /\ Cardinality(ToSet(w.out)) = Len(w.out)
      BY <1>2, <1>3, WalkIs DEF Listed
    <2>2. QED
      BY <1>7, <2>1, ListWeighs DEF Listed
  <1>9. Total(full) = b[all] /\ Total(full) \in Nat
    BY <1>5, <1>7, SetWeighs
  <1>10. b[{}] = 0
    BY <1>7 DEF Weighs, AddsAll
  <1> HIDE DEF z, top, all, full
  <1>11. /\ Refuses(s) <=> /\ w.out # <<>>
                           /\ (Cut(w) \/ Len(w.out) > maxZipFiles \/ Total(w.out) > maxZipBytes)
         /\ Accepts(s) => w.out # <<>> /\ ~Cut(w)
         /\ s.files = ToSet(w.out) /\ s.dirs = EmptyDirs(f, w)
    <2>1. s = Served(z) /\ Len(z.files) \in Nat /\ Total(z.files) \in Nat
      BY <1>3, <1>4, <1>8 DEF z
    <2>2. /\ Refuses(s) <=> /\ z.files # <<>>
                            /\ (Cut(z) \/ Len(z.files) > maxZipFiles \/ Total(z.files) > maxZipBytes)
          /\ Accepts(s) => z.files # <<>> /\ ~Cut(z)
          /\ s.files = ToSet(z.files) /\ s.dirs = z.dirs
      BY <2>1, VerdictIs
    <2>3. QED
      BY ONLY <1>4, <2>2
  <1>12. Refuses(s) <=> Cardinality(all) > maxZipFiles \/ Total(full) > maxZipBytes
    <2>1. CASE Cut(w)
      <3>1. Len(w.out) = maxZipFiles + 1 /\ Cardinality(all) > maxZipFiles
        BY <1>1, <1>3, <1>6, <2>1
      <3>2. w.out # <<>>
        <4>1. Len(<<>>) = 0
          OBVIOUS
        <4>2. Len(w.out) # 0
          BY <1>1, <3>1
        <4>3. QED
          BY <4>1, <4>2, Zenon
      <3>3. QED
        BY <1>11, <2>1, <3>1, <3>2
    <2>2. CASE ~Cut(w)
      <3>1. Listed(w) = all /\ Cardinality(all) = Len(w.out) /\ Total(w.out) = Total(full)
        <4>1. Listed(w) = all
          BY <1>3, <2>2
        <4>2. b[Listed(w)] = b[all] /\ Cardinality(all) = Len(w.out)
          BY ONLY <1>3, <4>1, Zenon
        <4>3. QED
          BY <1>8, <1>9, <4>1, <4>2
      <3>2. CASE w.out = <<>>
        <4>1. all = {} /\ Len(w.out) = 0
          BY <3>1, <3>2 DEF Listed, ToSet
        <4>2. Total(full) = 0
          BY ONLY <1>9, <1>10, <4>1, Zenon
        <4>3. ~(Cardinality(all) > maxZipFiles) /\ ~(Total(full) > maxZipBytes)
          BY ONLY <1>1, <3>1, <4>1, <4>2
        <4>4. QED
          BY ONLY <1>11, <3>2, <4>3
      <3>3. CASE w.out # <<>>
        <4>1. Refuses(s) <=> Len(w.out) > maxZipFiles \/ Total(w.out) > maxZipBytes
          BY ONLY <1>11, <2>2, <3>3
        <4>2. QED
          BY ONLY <3>1, <4>1
      <3>4. QED
        BY <3>2, <3>3
    <2>3. QED
      BY <2>1, <2>2
  <1>13. ASSUME Accepts(s)
         PROVE  s.files = all /\ s.dirs \cup UNION {Above(f, n) : n \in s.files} = DirsAbove(f, top)
    <2>1. ~Cut(w) /\ Exact(f, base, cap, ZipLimit, w)
      BY <1>2, <1>11, <1>13 DEF Limited
    <2>2. s.files = all /\ s.files = Listed(w) /\ w.dirs = DirsAbove(f, top)
      BY <1>3, <1>11, <2>1 DEF Exact, Listed, top
    <2>3. Ancestors(f, w) = UNION {Above(f, n) : n \in s.files}
      BY <2>2 DEF Ancestors
    <2>4. Ancestors(f, w) \subseteq DirsAbove(f, top)
      BY <1>5, <2>2, <2>3, AncestorsIn DEF all
    <2>5. s.dirs = DirsAbove(f, top) \ Ancestors(f, w)
      BY <1>11, <2>2 DEF EmptyDirs
    <2> DEFINE X == Ancestors(f, w)
               Y == DirsAbove(f, top)
    <2>6. (Y \ X) \cup X = Y
      BY <2>4
    <2> HIDE DEF X, Y
    <2>7. s.dirs \cup X = Y
      BY <2>5, <2>6 DEF X, Y
    <2>8. QED
      BY ONLY <2>2, <2>3, <2>7, Zenon DEF X, Y
  <1>14. QED
    BY ONLY <1>12, <1>13, Zenon DEF IsWhole, Accepts, Refuses, all, full, top

LEMMA ArchiveAlways == folder \in Folders \cup {NoFolder} => ArchiveIsWhole
  <1> SUFFICES ASSUME folder \in Folders
               PROVE  /\ \A base \in Bases \ {0} :
                           IsWhole(folder, handleDownloadZip(folder, base), maxRelDepth - base)
                      /\ IsWhole(folder, serveHostDirZip(folder), Nodes + 1)
    BY DEF ArchiveIsWhole
  <1>1. maxRelDepth \in Int /\ Nodes + 1 \in Int /\ Bases \subseteq Nat /\ 0 \in Nat
    BY CapsAre
  <1>2. ASSUME NEW base \in Bases \ {0}
        PROVE  IsWhole(folder, handleDownloadZip(folder, base), maxRelDepth - base)
    <2>1. handleDownloadZip(folder, base)
            = Served(WithEmpty(folder, Walk(folder, base, maxRelDepth, ZipLimit)))
      BY DEF handleDownloadZip, walkSharedDirWithEmpty
    <2>2. QED
      BY <1>1, <2>1, WholeIs
  <1>3. IsWhole(folder, serveHostDirZip(folder), Nodes + 1)
    <2>1. serveHostDirZip(folder) = Served(WithEmpty(folder, Walk(folder, 0, Nodes + 1, ZipLimit)))
      BY DEF serveHostDirZip, walkAbsDirWithEmpty, walkAbsDir
    <2>2. IsWhole(folder, serveHostDirZip(folder), (Nodes + 1) - 0)
      BY <1>1, <2>1, WholeIs
    <2>3. (Nodes + 1) - 0 = Nodes + 1
      BY <1>1
    <2>4. QED
      BY ONLY <2>2, <2>3, Zenon
  <1>4. QED
    BY <1>2, <1>3

(* An archive of any folder is refused for its size when it is over a cap, *)
(* and only then, and one that is made is whole: every file above the cap, *)
(* and every folder that the walk saw.                                     *)
THEOREM ArchivesCorrect ==
  folder = NoFolder /\ [][folder' \in Folders]_folder => []ArchiveIsWhole
  <1>1. folder = NoFolder => folder \in Folders \cup {NoFolder}
    OBVIOUS
  <1>2. folder \in Folders \cup {NoFolder} /\ [folder' \in Folders]_folder
          => (folder \in Folders \cup {NoFolder})'
    OBVIOUS
  <1>3. QED
    BY <1>1, <1>2, ArchiveAlways, PTL

-----------------------------------------------------------------------------
(* Restore, its types.  The counts of the registry are bounded by its cap, *)
(* for which the sum over them has to be followed through every step.      *)
LEMMA NoneEntered ==
  ASSUME NEW h \in [Places -> Nat], \A p \in Places : h[p] = 0
  PROVE  SumOf(h) = 0
  <1>1. PICK f \in [SUBSET Places -> Nat] : AddsAll(f, h, Places) /\ SumOf(h) = f[Places]
    BY PlacesFinite, TotalBy
  <1> DEFINE F == {s \in SUBSET Places : f[s] # 0}
  <1>2. F = {}
    <2> SUFFICES ASSUME F # {} PROVE FALSE
      OBVIOUS
    <2>1. PICK s \in F : \A x \in s : s \ {x} \notin F
      BY PlacesFinite, LeastSet
    <2>2. s \in SUBSET Places /\ f[s] # 0
      OBVIOUS
    <2>3. s # {} /\ f[s] = h[Chosen(s)] + f[s \ {Chosen(s)}]
      BY <1>1, <2>2 DEF AddsAll
    <2>4. Chosen(s) \in s /\ h[Chosen(s)] = 0 /\ f[s \ {Chosen(s)}] = 0
      BY <2>1, <2>2, <2>3, ChosenIn
    <2>5. QED
      BY <2>2, <2>3, <2>4
  <1>3. QED
    BY <1>1, <1>2

LEMMA EachWithin ==
  ASSUME NEW g, DOMAIN g \subseteq Guests, NEW h \in [Places -> Nat], Capped(g, h)
  PROVE  h \in [Places -> 0 .. listMax]
  <1>1. PICK f \in [SUBSET Places -> Nat] : AddsAll(f, h, Places) /\ SumOf(h) = f[Places]
    BY PlacesFinite, TotalBy
  <1>2. /\ Cardinality(DOMAIN g) \in Nat /\ Entered(g, h) = Cardinality(DOMAIN g) + SumOf(h)
        /\ SumOf(h) \in Nat /\ Entered(g, h) <= listMax
    BY EnteredIs DEF Capped
  <1>3. SumOf(h) <= listMax
    BY <1>2, RestoreAssumption
  <1>4. ASSUME NEW p \in Places PROVE h[p] \in 0 .. listMax
    <2>1. f[Places] = h[p] + f[Places \ {p}]
      BY <1>1, PlacesFinite, SumAny DEF InAnyOrder
    <2>2. h[p] \in Nat /\ f[Places \ {p}] \in Nat
      OBVIOUS
    <2>3. QED
      BY <1>1, <1>2, <1>3, <2>1, <2>2, RestoreAssumption
  <1>5. QED
    BY <1>4

LEMMA EnteredDown ==
  ASSUME NEW g, DOMAIN g \subseteq Guests, NEW h \in [Places -> Nat], NEW p \in Places, h[p] > 0,
         Capped(g, h)
  PROVE  Capped(g, [h EXCEPT ![p] = @ - 1]) /\ [h EXCEPT ![p] = @ - 1] \in [Places -> Nat]
  <1> DEFINE i == [h EXCEPT ![p] = @ - 1]
             c == Cardinality(DOMAIN g)
  <1>1. i \in [Places -> Nat] /\ h = [i EXCEPT ![p] = @ + 1]
    <2>1. h[p] \in Nat /\ h[p] - 1 \in Nat /\ (h[p] - 1) + 1 = h[p]
      OBVIOUS
    <2>2. QED
      BY <2>1
  <1> HIDE DEF i
  <1>2. SumOf(i) \in Nat /\ SumOf(h) = SumOf(i) + 1
    BY <1>1, PlacesFinite, TotalUp
  <1>3. c \in Nat /\ Entered(g, h) = c + SumOf(h) /\ Entered(g, i) = c + SumOf(i)
    BY <1>1, EnteredIs
  <1> HIDE DEF c
  <1>4. Entered(g, h) <= listMax
    BY DEF Capped
  <1>5. Entered(g, i) <= listMax
    BY <1>2, <1>3, <1>4, RestoreAssumption
  <1>6. QED
    BY <1>1, <1>5 DEF Capped, i

(* With the entries of guests' shares f for g.                             *)
LEMMA CappedOther ==
  ASSUME NEW g, DOMAIN g \subseteq Guests, NEW f, DOMAIN f \subseteq Guests,
         NEW h \in [Places -> Nat], Capped(g, h),
         \/ DOMAIN f \subseteq DOMAIN g
         \/ (~registryFull(g, h) /\ \E x \in Guests : DOMAIN f = DOMAIN g \cup {x})
  PROVE  Capped(f, h)
  <1> DEFINE c == Cardinality(DOMAIN g)
             d == Cardinality(DOMAIN f)
             e == SumOf(h)
  <1>1. IsFiniteSet(DOMAIN g) /\ IsFiniteSet(DOMAIN f)
    BY RestoreAssumption, FS_Subset
  <1>2. /\ c \in Nat /\ d \in Nat /\ e \in Nat
        /\ Entered(g, h) = c + e /\ Entered(f, h) = d + e
    BY EnteredIs
  <1>3. c + e <= listMax
    BY <1>2 DEF Capped
  <1>4. d <= c \/ (d <= c + 1 /\ c + e < listMax)
    <2>1. CASE DOMAIN f \subseteq DOMAIN g
      BY <1>1, <2>1, FS_Subset
    <2>2. CASE ~registryFull(g, h) /\ \E x \in Guests : DOMAIN f = DOMAIN g \cup {x}
      <3>1. ~(c + e >= listMax)
        BY <1>2, <2>2 DEF registryFull
      <3>2. d = c \/ d = c + 1
        BY <1>1, <2>2, FS_AddElement
      <3> HIDE DEF c, d, e
      <3>3. QED
        BY <1>2, <3>1, <3>2, RestoreAssumption
    <2>3. QED
      BY <2>1, <2>2
  <1> HIDE DEF c, d, e
  <1>5. d + e <= listMax
    BY <1>2, <1>3, <1>4, RestoreAssumption
  <1>6. QED
    BY <1>2, <1>5 DEF Capped

(* What the tables of a restart hold, with the cap that bounds them.       *)
Retained == [has : {"", "prefix", "whole"}, old : BOOLEAN]
RestoreHolds ==
  /\ \A p \in DOMAIN visible : visible[p] \in Content
  /\ \A id \in DOMAIN hidden : hidden[id] \in Retained
  /\ \A id \in DOMAIN guests : guests[id] \in Places \cup {NoPath}
  /\ relaying \subseteq Guests
  /\ Capped(guests, hosts)

LEMMA RetainedNow ==
  ASSUME NEW now \in {"", "prefix", "whole"} PROVE [has |-> now, old |-> FALSE] \in Retained
  BY Zenon DEF Retained

LEMMA AgedIs ==
  ASSUME NEW a, NEW b, NEW t
  PROVE  [[has |-> a, old |-> b] EXCEPT !.old = t] = [has |-> a, old |-> t]
  OBVIOUS

LEMMA RetainedOld ==
  ASSUME NEW r \in Retained PROVE [r EXCEPT !.old = TRUE] \in Retained
  <1>1. PICK a \in {"", "prefix", "whole"}, b \in BOOLEAN : r = [has |-> a, old |-> b]
    BY DEF Retained
  <1>2. [r EXCEPT !.old = TRUE] = [has |-> a, old |-> TRUE]
    BY <1>1, AgedIs, Zenon
  <1>3. QED
    BY <1>2, Zenon DEF Retained

LEMMA PutHolds ==
  ASSUME NEW X, NEW f, \A y \in DOMAIN f : f[y] \in X, NEW x, NEW v \in X
  PROVE  /\ \A y \in DOMAIN Put(f, x, v) : Put(f, x, v)[y] \in X
         /\ DOMAIN Put(f, x, v) = DOMAIN f \cup {x}
  BY DEF Put

LEMMA DropsHolds ==
  ASSUME NEW f, NEW X, \A y \in DOMAIN f : f[y] \in X, NEW S
  PROVE  /\ \A y \in DOMAIN Drops(f, S) : Drops(f, S)[y] \in X
         /\ DOMAIN Drops(f, S) \subseteq DOMAIN f
  BY DEF Drops

LEMMA TextsWithin ==
  ASSUME NEW vis, NEW hid, DOMAIN hid \subseteq Guests, \A p \in DOMAIN vis : vis[p] \in Content
  PROVE  Texts(vis, hid) \subseteq Content
  <1> SUFFICES ASSUME NEW x \in Texts(vis, hid), x \notin {vis[p] : p \in DOMAIN vis}
               PROVE  x \in Content
    OBVIOUS
  <1>1. PICK id \in DOMAIN hid, h \in Rests(hid) : x = Shown(id, h[id].has)
    BY DEF Texts
  <1>2. x = <<id, h[id].has = "whole">>
    BY <1>1, Zenon DEF Shown
  <1>3. id \in Guests \cup {"owner"} /\ (h[id].has = "whole") \in BOOLEAN
    OBVIOUS
  <1>4. QED
    BY <1>2, <1>3, Zenon DEF Content

LEMMA BootHolds ==
  ASSUME RestoreIInv, RestoreHolds, NEW again \in BOOLEAN, NEW stuck, Boot(again, stuck)
  PROVE  RestoreHolds'
  <1>1. PICK s, h : Booted(stuck, again, s, h)
    BY BootIs
  <1>2. /\ Started(s, visible, hidden, h, guests', stuck)
        /\ visible' = s.visible /\ hidden' = s.hidden /\ hosts' = s.hosts
        /\ DOMAIN guests' \subseteq Guests
        /\ ~again => ListedOnce(h, {}) /\ DOMAIN guests' = {}
        /\ again => h = hosts /\ guests' = guests
        /\ h \in [Places -> Nat]
    BY <1>1 DEF Booted
  <1>3. DOMAIN visible \subseteq Places /\ DOMAIN hidden \subseteq Guests
    BY DEF RestoreIInv, TableOver
  <1>4. \A p \in DOMAIN visible' : visible'[p] \in Content
    <2>1. visible' \in Shelves(visible, hidden)
      BY <1>2 DEF Started
    <2>2. \A p \in DOMAIN visible' : visible'[p] \in Texts(visible, hidden)
      BY <2>1 DEF Shelves
    <2>3. QED
      BY <1>3, <2>2, TextsWithin DEF RestoreHolds
  <1>5. \A id \in DOMAIN hidden' : hidden'[id] \in Retained
    <2> SUFFICES ASSUME NEW id \in DOMAIN s.hidden PROVE s.hidden[id] \in Retained
      BY <1>2
    <2>1. id \in DOMAIN hidden /\ Handled(s, visible, hidden, guests', stuck, id)
      BY <1>2 DEF Started
    <2>2. s.hidden[id] = hidden[id]
      BY <2>1 DEF Handled
    <2>3. QED
      BY <2>1, <2>2 DEF RestoreHolds
  <1>6. \A id \in DOMAIN guests' : guests'[id] \in Places \cup {NoPath}
    BY <1>2 DEF RestoreHolds
  <1>7. relaying' \subseteq Guests
    <2>1. relaying' = IF again THEN relaying ELSE {}
      BY Zenon DEF Boot
    <2>2. QED
      BY <2>1 DEF RestoreHolds
  <1>8. Capped(guests', h)
    <2>1. CASE again
      BY <1>2, <2>1 DEF RestoreHolds
    <2>2. CASE ~again
      <3>1. SumOf(h) = 0
        BY <1>2, <2>2, NoneEntered DEF ListedOnce
      <3>2. Cardinality(DOMAIN guests') = 0
        BY <1>2, <2>2, FS_EmptySet
      <3>3. Entered(guests', h) = Cardinality(DOMAIN guests') + SumOf(h)
        BY <1>2, EnteredIs
      <3>4. Entered(guests', h) <= listMax
        BY <3>1, <3>2, <3>3, RestoreAssumption
      <3>5. QED
        BY <3>4 DEF Capped
    <2>3. QED
      BY <2>1, <2>2
  <1>9. Capped(guests', hosts')
    BY <1>2, <1>8 DEF Started
  <1>10. QED
    BY <1>4, <1>5, <1>6, <1>7, <1>9 DEF RestoreHolds

LEMMA ShareHolds ==
  ASSUME RestoreIInv, RestoreHolds, NEW id \in Guests,
         \/ Offer(id) \/ RelayBegins(id) \/ Retain(id) \/ Age(id)
         \/ CompleteShare(id) \/ migrateLegacyRetained(id) \/ UnshareGuest(id)
  PROVE  RestoreHolds'
  <1> USE DEF RestoreHolds
  <1>1. /\ DOMAIN visible \subseteq Places /\ DOMAIN guests \subseteq Guests
        /\ hosts \in [Places -> Nat]
    BY DEF RestoreIInv, TableOver
  <1>2. CASE Offer(id)
    <2>1. /\ ~registryFull(guests, hosts) /\ guests' = Put(guests, id, NoPath)
          /\ UNCHANGED <<visible, hidden, hosts, relaying>>
      BY <1>2 DEF Offer
    <2>2. \A g \in DOMAIN guests : guests[g] \in Places \cup {NoPath}
      OBVIOUS
    <2>3. /\ \A g \in DOMAIN guests' : guests'[g] \in Places \cup {NoPath}
          /\ DOMAIN guests' = DOMAIN guests \cup {id}
      BY ONLY <2>1, <2>2 DEF Put
    <2>4. Capped(guests', hosts)
      BY <1>1, <2>1, <2>3, CappedOther
    <2>5. QED
      BY <2>1, <2>3, <2>4
  <1>3. CASE RelayBegins(id)
    BY <1>3 DEF RelayBegins
  <1>4. CASE Retain(id)
    <2>1. PICK now \in {"", "prefix", "whole"} : hidden' = Put(hidden, id, [has |-> now, old |-> FALSE])
      BY <1>4, Zenon DEF Retain
    <2> DEFINE r == [has |-> now, old |-> FALSE]
    <2>2. r \in Retained
      BY RetainedNow
    <2> HIDE DEF r
    <2>3. \A x \in DOMAIN hidden' : hidden'[x] \in Retained
      BY <2>1, <2>2, PutHolds DEF r
    <2>4. UNCHANGED <<visible, guests, hosts, relaying>>
      BY <1>4 DEF Retain
    <2>5. QED
      BY <2>3, <2>4
  <1>5. CASE Age(id)
    <2> DEFINE r == [hidden[id] EXCEPT !.old = TRUE]
    <2>1. id \in DOMAIN hidden /\ hidden' = [hidden EXCEPT ![id] = r]
      BY <1>5 DEF Age
    <2>2. r \in Retained
      BY <2>1, RetainedOld
    <2> HIDE DEF r
    <2>3. \A x \in DOMAIN hidden' : hidden'[x] \in Retained
      BY <2>1, <2>2
    <2>4. UNCHANGED <<visible, guests, hosts, relaying>>
      BY <1>5 DEF Age
    <2>5. QED
      BY <2>3, <2>4
  <1>6. CASE CompleteShare(id) \/ migrateLegacyRetained(id)
    <2> DEFINE p == uniquePath(visible)
               x == <<id, TRUE>>
    <2>1. /\ Vacant(visible) # {} /\ guests' = [guests EXCEPT ![id] = p]
          /\ visible' = Put(visible, p, x)
          /\ hidden' = Drops(hidden, {id}) /\ UNCHANGED <<hosts, relaying>>
      BY <1>6 DEF CompleteShare, migrateLegacyRetained
    <2>2. p \in Places
      BY <1>1, <2>1, VacantOf DEF Vacant
    <2>3. x \in Content
      BY DEF Content
    <2> HIDE DEF p, x
    <2>4. \A q \in DOMAIN visible' : visible'[q] \in Content
      BY <2>1, <2>3, PutHolds
    <2>5. \A y \in DOMAIN hidden' : hidden'[y] \in Retained
      BY <2>1, DropsHolds
    <2>6. /\ DOMAIN guests' = DOMAIN guests
          /\ \A g \in DOMAIN guests' : guests'[g] \in Places \cup {NoPath}
      BY <2>1, <2>2
    <2>7. Capped(guests', hosts)
      BY <1>1, <2>6, CappedOther
    <2>8. QED
      BY <2>1, <2>4, <2>5, <2>6, <2>7
  <1>7. CASE UnshareGuest(id)
    <2>1. /\ guests' = Drops(guests, {id}) /\ UNCHANGED <<hosts, relaying>>
          /\ visible' = Drops(visible, {guests[id]}) \/ UNCHANGED visible
          /\ hidden' = Drops(hidden, {id}) \/ UNCHANGED hidden
      BY <1>7 DEF UnshareGuest
    <2>2. \A q \in DOMAIN visible' : visible'[q] \in Content
      BY <2>1, DropsHolds
    <2>3. \A y \in DOMAIN hidden' : hidden'[y] \in Retained
      BY <2>1, DropsHolds
    <2>4. /\ \A g \in DOMAIN guests' : guests'[g] \in Places \cup {NoPath}
          /\ DOMAIN guests' \subseteq DOMAIN guests
      BY <2>1, DropsHolds
    <2>5. Capped(guests', hosts)
      BY <1>1, <2>4, CappedOther
    <2>6. QED
      BY <2>1, <2>2, <2>3, <2>4, <2>5
  <1>8. QED
    BY <1>2, <1>3, <1>4, <1>5, <1>6, <1>7

LEMMA HoldsKept == RestoreIInv /\ RestoreHolds /\ [RestoreNext]_restorevars => RestoreHolds'
  <1> SUFFICES ASSUME RestoreIInv, RestoreHolds, [RestoreNext]_restorevars PROVE RestoreHolds'
    OBVIOUS
  <1>1. ASSUME NEW again \in BOOLEAN, NEW stuck \in SUBSET Guests, Boot(again, stuck)
        PROVE  RestoreHolds'
    BY <1>1, BootHolds
  <1>2. CASE Heartbeat
    <2>1. hidden' = Drops(hidden, Orphans(guests, hidden)) /\ UNCHANGED <<visible, guests, hosts, relaying>>
      BY <1>2, SweptHidden DEF Heartbeat
    <2>2. \A y \in DOMAIN hidden' : hidden'[y] \in Retained
      BY <2>1, DropsHolds DEF RestoreHolds
    <2>3. QED
      BY <2>1, <2>2 DEF RestoreHolds
  <1>3. ASSUME NEW id \in Guests,
               \/ Offer(id) \/ RelayBegins(id) \/ Retain(id) \/ Age(id)
               \/ CompleteShare(id) \/ migrateLegacyRetained(id) \/ UnshareGuest(id)
        PROVE  RestoreHolds'
    BY <1>3, ShareHolds
  <1>4. ASSUME NEW p \in Places, CopyIn(p) PROVE RestoreHolds'
    <2> DEFINE x == <<"owner", TRUE>>
    <2>1. visible' = Put(visible, p, x) /\ UNCHANGED <<hidden, guests, hosts, relaying>>
      BY <1>4 DEF CopyIn
    <2>2. x \in Content
      BY DEF Content
    <2> HIDE DEF x
    <2>3. \A q \in DOMAIN visible' : visible'[q] \in Content
      BY <2>1, <2>2, PutHolds DEF RestoreHolds
    <2>4. QED
      BY <2>1, <2>3 DEF RestoreHolds
  <1>5. ASSUME NEW p \in Places, UnshareHost(p) PROVE RestoreHolds'
    <2>1. /\ hosts[p] > 0 /\ hosts' = [hosts EXCEPT ![p] = @ - 1]
          /\ visible' = Drops(visible, {p}) /\ UNCHANGED <<hidden, guests, relaying>>
      BY <1>5 DEF UnshareHost
    <2>2. \A q \in DOMAIN visible' : visible'[q] \in Content
      BY <2>1, DropsHolds DEF RestoreHolds
    <2>3. Capped(guests, hosts')
      BY <2>1, EnteredDown DEF RestoreIInv, RestoreHolds
    <2>4. QED
      BY <2>1, <2>2, <2>3 DEF RestoreHolds
  <1>6. CASE UNCHANGED restorevars
    BY <1>6 DEF restorevars, RestoreHolds
  <1>7. QED
    BY <1>1, <1>2, <1>3, <1>4, <1>5, <1>6 DEF RestoreNext

LEMMA HoldsFirst == RestoreInit => RestoreHolds
  <1> SUFFICES ASSUME RestoreInit PROVE RestoreHolds
    OBVIOUS
  <1>1. DOMAIN visible = {} /\ DOMAIN hidden = {} /\ DOMAIN guests = {} /\ relaying = {}
    BY DEF RestoreInit
  <1>2. hosts \in [Places -> Nat] /\ \A p \in Places : hosts[p] = 0
    BY DEF RestoreInit
  <1>3. SumOf(hosts) = 0
    BY <1>2, NoneEntered
  <1>4. Cardinality(DOMAIN guests) = 0
    BY <1>1, FS_EmptySet
  <1>5. Entered(guests, hosts) = Cardinality(DOMAIN guests) + SumOf(hosts)
    BY <1>1, <1>2, EnteredIs
  <1>6. Entered(guests, hosts) <= listMax
    BY <1>3, <1>4, <1>5, RestoreAssumption
  <1>7. QED
    BY <1>1, <1>6 DEF RestoreHolds, Capped

LEMMA RestoreTyped == RestoreIInv /\ RestoreHolds => RestoreTypeOK
  <1> SUFFICES ASSUME RestoreIInv, RestoreHolds PROVE RestoreTypeOK
    OBVIOUS
  <1>1. /\ DOMAIN visible \subseteq Places /\ DOMAIN hidden \subseteq Guests
        /\ DOMAIN guests \subseteq Guests
    BY DEF RestoreIInv, TableOver
  <1>2. /\ Range(visible) \subseteq Content /\ Range(hidden) \subseteq Retained
        /\ Range(guests) \subseteq Places \cup {NoPath}
    BY DEF RestoreHolds, Range
  <1>3. hosts \in [Places -> 0 .. listMax] /\ relaying \subseteq Guests
    BY EachWithin DEF RestoreIInv, RestoreHolds
  <1>4. QED
    BY <1>1, <1>2, <1>3 DEF RestoreTypeOK, Retained

(* Whatever starts, relays and owners do, the registry never holds more    *)
(* entries than shareMax: a start lists a file only while there is room.   *)
THEOREM RestoreCapped ==
  RestoreInit /\ [][RestoreNext]_restorevars => [](Entered(guests, hosts) <= listMax)
  <1>1. RestoreHolds => Entered(guests, hosts) <= listMax
    BY DEF RestoreHolds, Capped
  <1>2. QED
    BY <1>1, RestoreFirst, RestoreKept, HoldsFirst, HoldsKept, PTL

-----------------------------------------------------------------------------
(* Side by side: a step of the composition is a step of each part, or      *)
(* leaves it as it is.                                                     *)
LEMMA PartFirst ==
  MCInit => /\ Init /\ HashInit /\ ListInit /\ RestoreInit
            /\ request = Blank /\ folder = NoFolder /\ archive = NoArchive /\ upload = NoUpload
  BY DEF MCInit

LEMMA PartSteps ==
  [MCNext]_vars => /\ [Next]_meta /\ [HashNext]_hashvars /\ [ListNext]_listvars
                   /\ [RestoreNext]_restorevars
                   /\ [request' \in Requests]_request /\ [folder' \in Folders]_folder
                   /\ [archive' \in Archives]_archive /\ [upload' \in Uploads]_upload
  <1> SUFFICES ASSUME [MCNext]_vars
               PROVE  /\ [Next]_meta /\ [HashNext]_hashvars /\ [ListNext]_listvars
                      /\ [RestoreNext]_restorevars
                      /\ [request' \in Requests]_request /\ [folder' \in Folders]_folder
                      /\ [archive' \in Archives]_archive /\ [upload' \in Uploads]_upload
    OBVIOUS
  <1>1. CASE RangesStep
    BY <1>1 DEF RangesStep, inputs
  <1>2. CASE HashStep
    BY <1>2 DEF HashStep, inputs
  <1>3. CASE ListStep
    BY <1>3 DEF ListStep, inputs
  <1>4. CASE RestoreStep
    BY <1>4 DEF RestoreStep, inputs
  <1>5. CASE InputStep
    BY <1>5 DEF InputStep, RequestStep, FolderStep, ArchiveStep, UploadStep
  <1>6. CASE UNCHANGED vars
    BY <1>6 DEF vars, inputs
  <1>7. QED
    BY <1>1, <1>2, <1>3, <1>4, <1>5, <1>6 DEF MCNext

PartsSafe ==
  /\ TypeOK /\ HashInv /\ OwnChangesSeen /\ RangesInv /\ AnswersInv
  /\ ListsInv /\ ArchiveIsWhole /\ LengthIsExact /\ ExtractInv

(* The parts together: in every behaviour of their composition what the    *)
(* caches and a start keep is of its type, with the numbers of entries     *)
(* within shareMax and of hashes within the size of their cache.           *)
THEOREM PartsTyped == MCSpec => []TypeOK
  <1>1. ListIInv => ListTypeOK
    BY DEF ListIInv
  <1>2. HashIInv => HashTypeOK
    BY DEF HashIInv
  <1>3. HashTypeOK /\ ListTypeOK /\ RestoreTypeOK => TypeOK
    BY DEF TypeOK
  <1>4. QED
    BY <1>1, <1>2, <1>3, PartFirst, PartSteps, HashFirst, HashKept, ListFirst, ListKept,
       RestoreFirst, RestoreKept, HoldsFirst, HoldsKept, RestoreTyped, PTL DEF MCSpec

(* What is proved of the parts one by one holds of them side by side: every *)
(* safety property that MCParts is checked for.                            *)
THEOREM PartsCorrect ==
  MCSpec => []PartsSafe /\ StartKeepsBytes /\ StartListsAll
  <1>1. Spec <=> Init /\ [][Next]_meta
    BY DEF Spec
  <1>2. /\ TypeOK /\ HashInv /\ OwnChangesSeen /\ RangesInv /\ AnswersInv
        /\ ListsInv /\ ArchiveIsWhole /\ LengthIsExact /\ ExtractInv
        => PartsSafe
    BY DEF PartsSafe
  <1>3. QED
    BY <1>1, <1>2, PartFirst, PartSteps, PartsTyped, HashesCorrect, ListsCorrect, RangesCorrect,
       AnswersCorrect, WalksCorrect, ArchivesCorrect, LengthsCorrect, ExtractCorrect,
       StartKeepsCorrect, StartListsCorrect, PTL DEF MCSpec
=============================================================================
