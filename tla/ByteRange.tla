----------------------------- MODULE ByteRange -----------------------------
(***************************************************************************)
(* What a download answers: parseRange on the Range header, the            *)
(* validators of the conditional headers, and the order in which           *)
(* handleDownload, serveHostFile and the managed guest file look at them.  *)
(*                                                                         *)
(* A header is what the parser finds in it.  Numbers are integers of any   *)
(* sign, as ParseInt reads them.  A validator is compared with the one     *)
(* that the file has now.                                                  *)
(***************************************************************************)
EXTENDS Integers, FiniteSets

CONSTANTS MaxLength,  \* bound: the largest file
          Blank       \* a number that is left out, and no request

ASSUME ByteRangeAssumption == MaxLength \in Nat

VARIABLE request

Sizes == 0 .. MaxLength
Numbers == -1 .. MaxLength + 1

(* "bytes=-n", "bytes=s-e", "bytes=s-" or "bytes=s", "bytes=", and what    *)
(* does not parse.                                                         *)
SuffixRanges == [kind : {"suffix"}, n : Numbers]
Spans206 ==
  [kind : {"span"}, s : Numbers \cap Nat, e : Numbers \cup {Blank}]
    \cup {[kind |-> "span", s |-> Blank, e |-> Blank]}
OtherRanges == {[kind |-> "none"], [kind |-> "bad"]}

Requests ==
  [size    : Sizes,
   method  : {"GET", "HEAD"},
   range   : SuffixRanges \cup Spans206 \cup OtherRanges,
   ifNone  : {"", "same", "other"},        \* If-None-Match
   ifSince : {"", "current", "older"},     \* If-Modified-Since
   ifRange : {"", "same", "other"}]        \* If-Range

-----------------------------------------------------------------------------
WholeFile(size) == [start |-> 0, end |-> size - 1, partial |-> FALSE]

MutPastEnd(size, e) == IF e > size THEN size ELSE e
Clamp(size, e) == IF e > size - 1 THEN size - 1 ELSE e

FirstByte(size, r) ==
  CASE r.kind = "suffix" -> IF size - r.n < 0 THEN 0 ELSE size - r.n
    [] r.kind = "span"   -> IF r.s = Blank THEN 0 ELSE r.s

LastByte(size, r) == IF r.kind = "suffix" \/ r.e = Blank THEN size - 1 ELSE Clamp(size, r.e)

parseRange(r, size) ==
  IF size <= 0 \/ r.kind \in {"none", "bad"}
       \/ ~(0 <= FirstByte(size, r) /\ FirstByte(size, r) <= LastByte(size, r) /\ LastByte(size, r) < size)
  THEN WholeFile(size)
  ELSE [start |-> FirstByte(size, r), end |-> LastByte(size, r), partial |-> TRUE]

(* If-None-Match wins over If-Modified-Since.                              *)
etagMatches(q) == q.ifNone = "same"
MutSinceAlone(q) == q.ifSince = "current"
modifiedSinceAllowsNotModified(q) == q.ifNone = "" /\ q.ifSince = "current"

ifRangeAllowsPartial(q) == q.ifRange \in {"", "same"}

(* The answer: its status, the bytes that it carries and its               *)
(* Content-Length.  HEAD is answered before the range is looked at.        *)
Carries(status, body) == [status |-> status, body |-> body, length |-> Cardinality(body)]

handleDownload(q) ==
  LET p == parseRange(q.range, q.size)
      partial == p.partial /\ ifRangeAllowsPartial(q)
      cached == etagMatches(q) \/ modifiedSinceAllowsNotModified(q)
      refused == q.range.kind # "none" /\ ~partial /\ q.ifRange = ""
  IN CASE cached -> Carries(304, {})
       [] ~cached /\ q.method = "HEAD" -> [status |-> 200, body |-> {}, length |-> q.size]
       [] ~cached /\ q.method = "GET" /\ refused -> Carries(416, {})
       [] ~cached /\ q.method = "GET" /\ partial -> Carries(206, p.start .. p.end)
       [] OTHER -> Carries(200, 0 .. q.size - 1)

(* The download of a shared host file looks at the same headers in the     *)
(* same order.                                                             *)
serveHostFile(q) == handleDownload(q)

-----------------------------------------------------------------------------
FileBytes(q) == 0 .. q.size - 1

(* The bytes of the file that a header asks for, as RFC 9110 reads it; a   *)
(* negative number is no number there, and an empty set is unsatisfiable.  *)
AskedBytes(q) ==
  CASE q.range.kind = "none" -> FileBytes(q)
    [] q.range.kind = "bad" -> {}
    [] q.range.kind = "suffix" -> {b \in FileBytes(q) : b >= q.size - q.range.n}
    [] q.range.kind = "span" ->
         {b \in FileBytes(q) : /\ (q.range.s = Blank \/ q.range.s <= b)
                               /\ (q.range.e = Blank \/ b <= q.range.e)}

(* A download answers the bytes that were asked for: all of them and no    *)
(* others with 206, and 416 only when there are none.  The whole file      *)
(* comes unasked only when If-Range allows it, because the validator is    *)
(* outdated or the range is not satisfiable.  HEAD announces the length    *)
(* that GET without a range sends.                                         *)
RangeIsExact ==
  request # Blank =>
    \A a \in {handleDownload(request), serveHostFile(request)} :
      LET asked == AskedBytes(request) IN
        /\ a.status = 206 => a.body = asked /\ a.body # {}
        /\ a.status = 416 => asked = {}
        /\ a.status = 200 /\ request.method = "GET" =>
             /\ a.body = FileBytes(request)
             /\ \/ request.range.kind = "none"
                \/ request.ifRange = "other"
                \/ request.ifRange = "same" /\ asked = {}
        /\ a.status = 200 => a.length = Cardinality(FileBytes(request))

(* A resumed download never mixes two versions: whoever names an outdated  *)
(* validator gets the whole file again, and nobody is told that nothing    *)
(* changed when the tag that he names is another.                          *)
ResumeIsSafe ==
  request # Blank =>
    \A a \in {handleDownload(request), serveHostFile(request)} :
      /\ a.status = 206 => request.ifRange # "other"
      /\ a.status = 304 => request.ifNone # "other"

(* The bytes that were asked for, of the version that was asked for.       *)
AnswersInv == RangeIsExact /\ ResumeIsSafe
=============================================================================
