------------------------------ MODULE Ranges -------------------------------
(***************************************************************************)
(* The byte accounting of pieces.go: meta.json keeps what has arrived as a *)
(* sorted list of half-open intervals and a bitmap of the pieces that are  *)
(* done.  writeV2 adds the interval of each body and verifySpan marks the  *)
(* pieces it completes or takes their bytes out again; loadMeta, through   *)
(* which every request reads the session, rejects what looks absurd.       *)
(***************************************************************************)
EXTENDS Integers, Sequences, FiniteSets, Folds, SequencesExt

CONSTANTS Size,       \* the size of the file, which /upload_init accepts
          PieceLen,   \* the piece length
          MaxSize,    \* validMeta: the largest size (maxZipBytes * 16)
          MaxRanges,  \* validMeta: the longest list of ranges (10000)
          NoMeta      \* no session

ASSUME RangesAssumption ==
  /\ Size \in Nat \ {0}
  /\ PieceLen \in Nat \ {0}
  /\ MaxSize \in Nat
  /\ MaxRanges \in Nat

VARIABLE meta   \* meta.json: [nov, size, ranges, bits], or NoMeta

-----------------------------------------------------------------------------
pieceCount(m) == (m.size + PieceLen - 1) \div PieceLen
Indexes(m) == 0 .. pieceCount(m) - 1

pieceRange(m, i) ==
  LET e == i * PieceLen + PieceLen
  IN <<i * PieceLen, IF e > m.size THEN m.size ELSE e>>

missingPieces(m) == Indexes(m) \ m.bits

(* The end of the last piece before the first missing one.                 *)
contiguousOffset(m) ==
  LET done == {i \in Indexes(m) : \A j \in 0 .. i : j \in m.bits}
  IN IF done = {} THEN 0 ELSE pieceRange(m, Cardinality(done) - 1)[2]

-----------------------------------------------------------------------------
(* rangeAdd: append the interval, sort, and merge from the left what       *)
(* overlaps or touches.                                                    *)
Before(r, q) == r[1] < q[1] \/ (r[1] = q[1] /\ r[2] < q[2])

(* sort.Slice: the i-th interval is the one that i intervals come up to.   *)
NotAfter(rs, k) == {j \in DOMAIN rs : Before(rs[j], rs[k]) \/ (rs[j] = rs[k] /\ j <= k)}
MutUnsorted(rs) == rs
Sorted(rs) == [i \in DOMAIN rs |-> rs[CHOOSE k \in DOMAIN rs : Cardinality(NotAfter(rs, k)) = i]]

MutAppend(merged, r) == Append(merged, r)
Merge(merged, r) ==
  IF merged # <<>> /\ r[1] <= Last(merged)[2]
  THEN IF r[2] > Last(merged)[2]
       THEN Append(Front(merged), <<Last(merged)[1], r[2]>>)
       ELSE merged
  ELSE Append(merged, r)

rangeAdd(m, s, e) ==
  LET end == IF e > m.size THEN m.size ELSE e
  IN IF e <= s \/ s > m.size
     THEN m.ranges
     ELSE FoldLeft(Merge, <<>>, Sorted(Append(m.ranges, <<s, end>>)))

rangeCover(rs, s, e) == \E k \in DOMAIN rs : rs[k][1] <= s /\ e <= rs[k][2]

(* rangeRemove: what is left of every interval on either side.             *)
Span(s, e) == IF s < e THEN <<<<s, e>>>> ELSE <<>>
MutLeftOnly(r, s, e) == Span(r[1], s)
Remainder(r, s, e) ==
  IF r[2] <= s \/ e <= r[1]
  THEN <<r>>
  ELSE Span(r[1], s) \o Span(e, r[2])

rangeRemove(rs, s, e) == FlattenSeq([k \in DOMAIN rs |-> Remainder(rs[k], s, e)])

receivedRangesBytes(m) == FoldLeft(LAMBDA n, r : n + (r[2] - r[1]), 0, m.ranges)

-----------------------------------------------------------------------------
(* verifySpan walks over the pieces from the one with the first byte of    *)
(* the body to the one with the last; "good" are those that pass.  One     *)
(* round of its loop marks a whole piece or takes its bytes out.           *)
SettlePiece(m, i, good) ==
  LET r == pieceRange(m, i)
  IN IF i \in m.bits \/ i \notin Indexes(m) \/ ~rangeCover(m.ranges, r[1], r[2])
     THEN m
     ELSE IF i \in good
          THEN [m EXCEPT !.bits = @ \cup {i}]
          ELSE [m EXCEPT !.ranges = rangeRemove(@, r[1], r[2])]

verifySpan(m, s, e, good) ==
  LET first == s \div PieceLen
      last == (e - 1) \div PieceLen
  IN FoldLeft(LAMBDA n, i : SettlePiece(n, i, good), m,
              [k \in 1 .. last - first + 1 |-> first + k - 1])

-----------------------------------------------------------------------------
(* loadMeta with validMeta: a session that does not pass is gone.          *)
validMeta(m) ==
  /\ m.size <= MaxSize
  /\ Len(m.ranges) <= MaxRanges
  /\ \A k \in DOMAIN m.ranges : /\ 0 <= m.ranges[k][1]
                                /\ m.ranges[k][1] <= m.ranges[k][2]
                                /\ m.ranges[k][2] <= m.size + 1

Init == meta = NoMeta

newSessionMeta ==
  /\ meta = NoMeta
  /\ \E nov \in BOOLEAN :
        meta' = [nov |-> nov, size |-> Size, ranges |-> <<>>, bits |-> {}]

(* The accounting of writeV2, for a body whose bytes have all arrived.     *)
Account(m, s, e, good) == verifySpan([m EXCEPT !.ranges = rangeAdd(m, s, e)], s, e, good)

(* What may arrive: one piece, good or not, or any span of a noverify      *)
(* session, whose pieces pass unread.                                      *)
Pieces(m) ==
  LET Whole(i, good) == <<pieceRange(m, i)[1], pieceRange(m, i)[2], good>>
  IN {Whole(i, {i}) : i \in Indexes(m)}
     \cup IF m.nov THEN {} ELSE {Whole(i, {}) : i \in Indexes(m)}
Spans(m) ==
  IF m.nov
  THEN {<<s, e, Indexes(m)>> : s \in 0 .. m.size - 1, e \in 1 .. m.size}
  ELSE {}
Bodies(m) == {b \in Pieces(m) \cup Spans(m) : b[1] < b[2]}

writeV2 ==
  /\ meta # NoMeta
  /\ validMeta(meta)
  /\ \E b \in Bodies(meta) : meta' = Account(meta, b[1], b[2], b[3])

Next == newSessionMeta \/ writeV2

Spec == Init /\ [][Next]_meta

-----------------------------------------------------------------------------
Bytes(m) == 0 .. m.size - 1
Covered(m) ==
  {b \in Bytes(m) : \E k \in DOMAIN m.ranges : m.ranges[k][1] <= b /\ b < m.ranges[k][2]}
PieceBytes(m, i) == {b \in Bytes(m) : b \div PieceLen = i}

(* The lists account for bytes as the sets of UploadSession do, whatever   *)
(* arrived before and whatever comes next: a body credits its bytes and no *)
(* others, and each unmarked piece under it that is whole is marked or     *)
(* loses its bytes again, and no others.                                   *)
AccountsAsSets ==
  meta # NoMeta =>
    \A b \in Bodies(meta) :
      LET body == b[1] .. b[2] - 1
          sum  == Covered(meta) \cup body
          due  == {i \in missingPieces(meta) : /\ PieceBytes(meta, i) \cap body # {}
                                              /\ PieceBytes(meta, i) \subseteq sum}
          m    == Account(meta, b[1], b[2], b[3])
      IN /\ m.bits = meta.bits \cup (due \cap b[3])
         /\ Covered(m) = sum \ UNION {PieceBytes(meta, i) : i \in due \ b[3]}

(* The intervals stay sorted and apart, so that what rangeCover says of a  *)
(* span, looking for one interval around it, is what the bytes say.        *)
CoverIsExact ==
  meta # NoMeta =>
    \A s \in Bytes(meta), e \in 1 .. meta.size :
       s < e => (rangeCover(meta.ranges, s, e) <=> s .. e - 1 \subseteq Covered(meta))

(* The progress that clients see: no byte is counted twice by "received",  *)
(* and everything below "offset" is there while the piece at it is not.    *)
ProgressIsExact ==
  meta # NoMeta =>
    /\ receivedRangesBytes(meta) = Cardinality(Covered(meta))
    /\ 0 .. contiguousOffset(meta) - 1 \subseteq Covered(meta)
    /\ \A i \in missingPieces(meta) : contiguousOffset(meta) <= i * PieceLen

(* The lists account like sets of bytes: what a request adds or takes out, *)
(* what it asks about, and the progress that it is told.                   *)
RangesInv == AccountsAsSets /\ CoverIsExact /\ ProgressIsExact
=============================================================================
