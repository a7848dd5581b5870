------------------------------- MODULE Relay -------------------------------
(***************************************************************************)
(* Downloads of one guest share while its upload is still incomplete.      *)
(*                                                                         *)
(* GET /r/<id> answers from the bytes that are retained on the server, and *)
(* asks the owner for the rest: it queues a job, the owner's page learns   *)
(* of it by a long poll of /api/relay/need, and posts the missing bytes to *)
(* /api/relay/piece, which hands them over a pipe to the waiting download. *)
(* Every download body, relayed or from disk, holds one of Slots slots.    *)
(*                                                                         *)
(* A download is called by its request, and a job by its download: each    *)
(* download makes at most one.  A unit stands for one buffer of a copy.    *)
(***************************************************************************)
EXTENDS Integers, Sequences, FiniteSets, SequencesExt

CONSTANTS
  Downloads,   \* the requests that download something
  Polls,       \* the long polls that the owner's page can have open
  Pieces,      \* the posts of bytes that it can have open
  Size,        \* the units of the share
  Slots        \* downloadMaxConc

ASSUME RelayAssumption ==
  /\ Size \in Nat \ {0}
  /\ Slots \in Nat \ {0}

(* The owner's file; units are told apart by their place in it.            *)
File == [i \in 1 .. Size |-> i - 1]
Unit == 0 .. Size - 1
Span(first, last) == SubSeq(File, first + 1, last + 1)

Least(a, b) == IF a < b THEN a ELSE b
Most(a, b) == IF a < b THEN b ELSE a

VARIABLES
  (* the share *)
  managed,     \* its complete file: "none", "placed" or "listed" as complete
  sharesDir,   \* is there a .shares directory from an older version?
  retained,    \* the units in .shares/<id>
  (* the downloads *)
  pc,          \* where each handler is
  plan,        \* what it has decided to send
  got,         \* the units that its client received
  left,        \* how many more it takes from its pipe
  appending,   \* the downloads that copy what they relay to .shares/<id>
  slots,       \* the tokens in downloadSem
  (* relayMu: jobs, pending and waiters, and the channels of the jobs *)
  jobs,        \* relayJobs
  pending,     \* relayPending of the owner
  waiters,     \* relayWaiters of the owner
  claimed,     \* the jobs whose claimed channel is closed
  ended,       \* the jobs whose pipe is closed
  (* the owner's page *)
  poll,        \* "idle" or "wait"
  signal,      \* the polls whose channel holds a notification
  offers,      \* the jobs that each poll returned and the page has not served
  piece,       \* the posts
  (* history *)
  doubled,     \* the jobs that a second post was accepted for
  bereft,      \* the relays that lost their retained bytes before the send
  mixed        \* did an append begin anywhere but at a quiet end of the file?

share == <<managed, sharesDir>>
downloads == <<pc, plan, got, left, appending, slots>>
tables == <<jobs, pending, waiters, claimed, ended>>
page == <<poll, signal, offers, piece>>
history == <<doubled, bereft, mixed>>
vars == <<share, retained, downloads, tables, page, history>>

NoPlan == [relay |-> FALSE, first |-> 0, last |-> 0, received |-> 0,
           offset |-> 0, bytes |-> <<>>]

Plan == [relay    : BOOLEAN,        \* is there a job?
         first    : Unit,           \* the range
         last     : Nat,            \* that was asked for
         received : Nat,            \* the retained size when it came in
         offset   : Nat,            \* jobOffset
         bytes    : Seq(Unit)]      \* what the open file holds of the range

NoPiece == [pc |-> "idle", at |-> 0]
Stream(d) == [pc |-> "read", job |-> d, at |-> plan[d].offset]

Piece == [pc : {"idle"}, at : {0}]
           \cup [pc : {"read", "write"}, job : Downloads, at : Nat]

Holding == {d \in Downloads : pc[d] \in {"send", "tail"}}
Streams(x, d) == piece[x].pc # "idle" /\ piece[x].job = d

TypeOK ==
  /\ managed \in {"none", "placed", "listed"}
  /\ sharesDir \in BOOLEAN
  /\ retained \in Seq(Unit)
  /\ pc \in [Downloads -> {"idle", "wait", "slot", "send", "tail", "done"}]
  /\ plan \in [Downloads -> Plan]
  /\ got \in [Downloads -> Seq(Unit)]
  /\ left \in [Downloads -> 0 .. Size]
  /\ appending \subseteq Downloads
  /\ slots \in 0 .. Slots
  /\ jobs \subseteq Downloads
  /\ pending \subseteq jobs
  /\ waiters \subseteq Polls
  /\ claimed \subseteq Downloads
  /\ ended \subseteq Downloads
  /\ poll \in [Polls -> {"idle", "wait"}]
  /\ signal \subseteq Polls
  /\ offers \in [Polls -> SUBSET Downloads]
  /\ piece \in [Pieces -> Piece]
  /\ doubled \subseteq Downloads
  /\ bereft \subseteq Downloads
  /\ mixed \in BOOLEAN

Init ==
  /\ managed = "none"
  /\ sharesDir \in BOOLEAN
  /\ retained \in {SubSeq(File, 1, n) : n \in IF sharesDir THEN 0 .. Size - 1 ELSE {0}}
  /\ pc = [d \in Downloads |-> "idle"]
  /\ plan = [d \in Downloads |-> NoPlan]
  /\ got = [d \in Downloads |-> <<>>]
  /\ left = [d \in Downloads |-> 0]
  /\ appending = {}
  /\ slots = 0
  /\ jobs = {}
  /\ pending = {}
  /\ waiters = {}
  /\ claimed = {}
  /\ ended = {}
  /\ poll = [q \in Polls |-> "idle"]
  /\ signal = {}
  /\ offers = [q \in Polls |-> {}]
  /\ piece = [x \in Pieces |-> NoPiece]
  /\ doubled = {}
  /\ bereft = {}
  /\ mixed = FALSE

-----------------------------------------------------------------------------
(* A request comes in.  It ends at once with a status, or goes on with a   *)
(* plan.                                                                   *)
Answered(d) ==
  /\ pc' = [pc EXCEPT ![d] = "done"]
  /\ UNCHANGED <<plan, left, tables, signal>>

Disk(d, first, last, file) ==
  /\ pc' = [pc EXCEPT ![d] = "slot"]
  /\ plan' = [plan EXCEPT ![d] = [NoPlan EXCEPT !.first = first, !.last = last,
                                    !.bytes = SubSeq(file, first + 1, last + 1)]]
  /\ UNCHANGED <<left, tables, signal>>

(* relayEnqueue: the job is listed and every waiting poll is woken.        *)
relayEnqueue(d) ==
  /\ jobs' = jobs \cup {d}
  /\ pending' = pending \cup {d}
  /\ signal' = signal \cup waiters
  /\ waiters' = {}
  /\ UNCHANGED <<claimed, ended>>

MutFromReceived(received, first) == received
JobOffset(received, first) == Most(received, first)

serveGuestRelay(d, first, last, received) ==
  LET offset == JobOffset(received, first) IN
    IF offset > last
    THEN Disk(d, first, last, retained)
    ELSE /\ pc' = [pc EXCEPT ![d] = "wait"]
         /\ plan' = [plan EXCEPT ![d] =
                       [relay |-> TRUE, first |-> first, last |-> last,
                        received |-> received, offset |-> offset, bytes |-> <<>>]]
         /\ left' = [left EXCEPT ![d] = last - offset + 1]
         /\ relayEnqueue(d)

(* The whole file or a range of it, of an owner that is thought present or *)
(* not.  A request that is answered by headers alone, or whose range       *)
(* cannot be satisfied, is Answered.                                       *)
serveGuestEntry(d) ==
  LET received == Len(retained) IN
  /\ pc[d] = "idle"
  /\ \/ Answered(d)
     \/ \E alive, ranged \in BOOLEAN, first, last \in Unit :
          /\ first <= last
          /\ ~ranged => first = 0 /\ last = Size - 1
          /\ CASE managed = "listed" -> Disk(d, first, last, File)
               [] managed # "listed" /\ ranged /\ last < received ->
                    Disk(d, first, last, retained)
               [] managed # "listed" /\ ~(ranged /\ last < received) /\ ~alive ->
                    IF received > 0 /\ ~ranged
                    THEN Disk(d, 0, received - 1, retained)
                    ELSE Answered(d)
               [] OTHER -> serveGuestRelay(d, first, last, received)
  /\ UNCHANGED <<share, retained, got, appending, slots, poll, offers, piece, history>>

(* handleDownload and serveHostFile: any other file, which is on disk.     *)
handleDownload(d) ==
  /\ pc[d] = "idle"
  /\ \E first, last \in Unit : first <= last /\ Disk(d, first, last, File)
  /\ UNCHANGED <<share, retained, got, appending, slots, poll, offers, piece, history>>

-----------------------------------------------------------------------------
(* relayRemove: the job is forgotten and both ends of its pipe are closed. *)
relayRemove(d) ==
  /\ jobs' = jobs \ {d}
  /\ pending' = pending \ {d}
  /\ ended' = IF d \in jobs THEN ended \cup {d} ELSE ended
  /\ UNCHANGED <<waiters, claimed>>

(* The wait for the owner: claimed, timed out or left by the client.       *)
Claimed(d) ==
  /\ pc[d] = "wait"
  /\ d \in claimed
  /\ pc' = [pc EXCEPT ![d] = "slot"]
  /\ UNCHANGED <<share, retained, plan, got, left, appending, slots, tables, page, history>>

WaitEnds(d) ==
  /\ pc[d] = "wait"
  /\ pc' = [pc EXCEPT ![d] = "done"]
  /\ relayRemove(d)
  /\ UNCHANGED <<share, retained, plan, got, left, appending, slots, page, history>>

(* acquireDownloadSlot, which queues until the client goes away.           *)
MutSlotTaken == TRUE
MutSlotSpared == slots < Slots - 1
SlotFree == slots < Slots

Acquire(d) ==
  /\ pc[d] = "slot"
  /\ SlotFree
  /\ slots' = slots + 1
  /\ pc' = [pc EXCEPT ![d] = "send"]
  /\ UNCHANGED <<share, retained, plan, got, left, appending, tables, page, history>>

MutReleased == Most(slots - 1, 0)
Unqueued == slots

QueueLeft(d) ==
  /\ pc[d] = "slot"
  /\ slots' = Unqueued
  /\ pc' = [pc EXCEPT ![d] = "done"]
  /\ relayRemove(d)
  /\ UNCHANGED <<share, retained, plan, got, left, appending, page, history>>

(* The deferred calls of a handler that had a slot.                        *)
Finish(d) ==
  /\ slots' = slots - 1
  /\ pc' = [pc EXCEPT ![d] = "done"]
  /\ appending' = appending \ {d}
  /\ relayRemove(d)

(* streamCopy from a file: all of it, or what its client took.             *)
SendFile(d) ==
  /\ pc[d] = "send"
  /\ ~plan[d].relay
  /\ \E n \in 0 .. Len(plan[d].bytes) :
        got' = [got EXCEPT ![d] = SubSeq(plan[d].bytes, 1, n)]
  /\ Finish(d)
  /\ UNCHANGED <<share, retained, plan, left, page, history>>

(* The retained units of the range, as the file has them now, and then the *)
(* file is opened to append what is relayed, if that would extend it.      *)
Prefix(d) ==
  IF plan[d].first < plan[d].received
  THEN SubSeq(retained, plan[d].first + 1,
              Least(Least(plan[d].received, plan[d].last + 1), Len(retained)))
  ELSE <<>>

MutAppendsAfter(d) == plan[d].offset >= plan[d].received
Extends(d) == plan[d].offset = plan[d].received
Appends(d) == Extends(d) /\ sharesDir

SendPrefix(d) ==
  /\ pc[d] = "send"
  /\ plan[d].relay
  /\ got' = [got EXCEPT ![d] = Prefix(d)]
  /\ IF Appends(d)
     THEN /\ appending' = appending \cup {d}
          /\ mixed' = (mixed \/ appending # {} \/ Len(retained) # plan[d].received)
     ELSE UNCHANGED <<appending, mixed>>
  /\ pc' = [pc EXCEPT ![d] = "tail"]
  /\ UNCHANGED <<share, retained, plan, left, slots, tables, page, doubled, bereft>>

(* io.Copy of the tail ends at its length, at the end of the pipe, or when *)
(* the client does not take a unit (Transfer).                             *)
TailEnd(d) ==
  /\ pc[d] = "tail"
  /\ left[d] = 0 \/ d \in ended
  /\ Finish(d)
  /\ UNCHANGED <<share, retained, plan, got, left, page, history>>

-----------------------------------------------------------------------------
(* handleAPIRelayNeed: the jobs there are, or a wait for one.              *)
MutUnchecked == FALSE
HasWork == pending # {}

RelayNeed(q) ==
  /\ poll[q] = "idle"
  /\ offers[q] = {}
  /\ IF HasWork
     THEN /\ offers' = [offers EXCEPT ![q] = pending]
          /\ UNCHANGED <<poll, waiters>>
     ELSE /\ poll' = [poll EXCEPT ![q] = "wait"]
          /\ waiters' = waiters \cup {q}
          /\ UNCHANGED offers
  /\ UNCHANGED <<share, retained, downloads, jobs, pending, claimed, ended, signal, piece, history>>

(* Woken, timed out after 25 seconds, or left by the page.                 *)
NeedEnds(q) ==
  /\ poll[q] = "wait"
  /\ poll' = [poll EXCEPT ![q] = "idle"]
  /\ signal' = signal \ {q}
  /\ waiters' = waiters \ {q}
  /\ \E answered \in BOOLEAN :
        offers' = [offers EXCEPT ![q] = IF answered THEN pending ELSE {}]
  /\ UNCHANGED <<share, retained, downloads, jobs, pending, claimed, ended, piece, history>>

(* handleAPIRelayPiece up to the stream: the page posts the bytes of a job *)
(* that one of its polls returned.  The job is claimed, and every post     *)
(* that finds it listed streams.                                           *)
RelayPiece(q, x) ==
  /\ piece[x].pc = "idle"
  /\ \E d \in offers[q] :
       /\ offers' = [offers EXCEPT ![q] = @ \ {d}]
       /\ IF d \in jobs
          THEN /\ claimed' = claimed \cup {d}
               /\ pending' = pending \ {d}
               /\ doubled' = IF d \in claimed THEN doubled \cup {d} ELSE doubled
               /\ piece' = [piece EXCEPT ![x] = Stream(d)]
          ELSE UNCHANGED <<claimed, pending, doubled, piece>>
  /\ UNCHANGED <<share, retained, downloads, jobs, waiters, ended, poll, signal, bereft, mixed>>

(* The page drops a job of a file that it no longer has.                   *)
Skip(q) ==
  /\ \E d \in offers[q] : offers' = [offers EXCEPT ![q] = @ \ {d}]
  /\ UNCHANGED <<share, retained, downloads, tables, poll, signal, piece, history>>

PieceDone(x) == piece[x].at = plan[piece[x].job].last + 1

(* The next unit of the body arrives, or the body ends or breaks off.      *)
PieceRead(x) ==
  /\ piece[x].pc = "read"
  /\ ~PieceDone(x)
  /\ piece' = [piece EXCEPT ![x].pc = "write"]
  /\ UNCHANGED <<share, retained, downloads, tables, poll, signal, offers, history>>

MutPipeOpen(d) == ended
PipeClosed(d) == ended \cup {d}

PieceEnds(x) ==
  /\ piece[x].pc = "read"
  /\ ended' = IF PieceDone(x) THEN ended \cup {piece[x].job} ELSE PipeClosed(piece[x].job)
  /\ piece' = [piece EXCEPT ![x] = NoPiece]
  /\ UNCHANGED <<share, retained, downloads, jobs, pending, waiters, claimed, poll, signal, offers, history>>

(* A write to a pipe that is closed.                                       *)
PieceRefused(x) ==
  /\ piece[x].pc = "write"
  /\ piece[x].job \in ended
  /\ piece' = [piece EXCEPT ![x] = NoPiece]
  /\ UNCHANGED <<share, retained, downloads, tables, poll, signal, offers, history>>

(* A unit goes through the pipe: into the retained file first, if that is  *)
(* open, and then to the client, who takes it or is gone.                  *)
Transfer(x) ==
  LET d == piece[x].job
      unit == piece[x].at
  IN
  /\ piece[x].pc = "write"
  /\ pc[d] = "tail"
  /\ d \notin ended
  /\ left[d] > 0
  /\ piece' = [piece EXCEPT ![x] = [@ EXCEPT !.pc = "read", !.at = unit + 1]]
  /\ retained' = IF d \in appending THEN Append(retained, unit) ELSE retained
  /\ \/ /\ got' = [got EXCEPT ![d] = Append(@, unit)]
        /\ left' = [left EXCEPT ![d] = @ - 1]
        /\ UNCHANGED <<pc, slots, appending, tables>>
     \/ /\ Finish(d)
        /\ UNCHANGED <<got, left>>
  /\ UNCHANGED <<share, plan, poll, signal, offers, history>>

-----------------------------------------------------------------------------
(* guestComplete: the uploaded file gets its name and the retained prefix  *)
(* is removed; then the share is marked complete.  Who has the prefix open *)
(* writes to a file without a name.                                        *)
Placed ==
  /\ managed = "none"
  /\ managed' = "placed"
  /\ retained' = <<>>
  /\ appending' = {}
  /\ bereft' = bereft \cup {d \in Downloads : pc[d] \in {"wait", "slot", "send"}}
  /\ UNCHANGED <<sharesDir, pc, plan, got, left, slots, tables, page, doubled, mixed>>

Listed ==
  /\ managed = "placed"
  /\ managed' = "listed"
  /\ UNCHANGED <<sharesDir, retained, downloads, tables, page, history>>

-----------------------------------------------------------------------------
Handler(d) ==
  \/ Claimed(d) \/ WaitEnds(d)
  \/ Acquire(d) \/ QueueLeft(d)
  \/ SendFile(d) \/ SendPrefix(d) \/ TailEnd(d)

Poster(x) == PieceRead(x) \/ PieceEnds(x) \/ PieceRefused(x) \/ Transfer(x)

Next ==
  \/ \E d \in Downloads : serveGuestEntry(d) \/ handleDownload(d) \/ Handler(d)
  \/ \E q \in Polls : RelayNeed(q) \/ NeedEnds(q) \/ Skip(q)
  \/ \E q \in Polls, x \in Pieces : RelayPiece(q, x)
  \/ \E x \in Pieces : Poster(x)
  \/ Placed
  \/ Listed

(* A handler takes the step that it can take, the timer of a wait fires,   *)
(* and the body of a post goes on or breaks off.  No client has to ask, no *)
(* page has to poll or to post, and no client has to leave.                *)
Fairness ==
  /\ \A d \in Downloads :
       /\ WF_vars(Claimed(d) \/ WaitEnds(d))
       /\ WF_vars(Acquire(d))
       /\ WF_vars(SendFile(d) \/ SendPrefix(d) \/ TailEnd(d))
  /\ \A q \in Polls : WF_vars(NeedEnds(q))
  /\ \A x \in Pieces :
       /\ WF_vars(PieceRead(x) \/ PieceEnds(x))
       /\ WF_vars(PieceRefused(x))
       /\ WF_vars(Transfer(x))

Spec == Init /\ [][Next]_vars
FairSpec == Spec /\ Fairness

-----------------------------------------------------------------------------
(* Nobody sleeps on a job: a poll that waits without a notification waits  *)
(* while nothing is pending (the check and the registration are one        *)
(* critical section, and an enqueue wakes all).                            *)
NoLostWakeup ==
  \A q \in Polls : poll[q] = "wait" /\ q \notin signal => q \in waiters /\ pending = {}

(* The semaphore counts the bodies that are being sent, neither more nor   *)
(* fewer, whichever way a handler leaves.                                  *)
SlotsCounted == slots = Cardinality(Holding)

(* A download that was claimed is never left to a pipe that nobody writes: *)
(* while its job is listed, a post streams for it or has closed the pipe.  *)
ClaimIsServed ==
  \A d \in jobs \cap claimed : d \in ended \/ \E x \in Pieces : Streams(x, d)

(* Appends that each begin at the end of the file and alone, of jobs that  *)
(* were posted once, leave a beginning of the owner's file: partial        *)
(* pieces, clients that leave and a completion included.                   *)
PrefixKept ==
  ~mixed /\ doubled = {} => IsPrefix(retained, File)

(* The body of an answer is a beginning of what was asked for, when its    *)
(* job was posted once and its prefix was not taken from under it.         *)
FaithfulBytes ==
  ~mixed /\ doubled = {} =>
    \A d \in Downloads \ bereft : IsPrefix(got[d], Span(plan[d].first, plan[d].last))

(* What registry.go:1971 says of a job, "claim exactly once": its bytes    *)
(* come from one post, so a download of a share of which nothing was       *)
(* retained receives them in order.                                        *)
InOrder ==
  \A d \in Downloads :
    plan[d].relay /\ plan[d].received = 0 =>
      IsPrefix(got[d], Span(plan[d].first, plan[d].last))

(* Every download ends: a silent owner costs a timeout, a body that breaks *)
(* off closes the pipe, a full queue moves on.                             *)
EveryRequestEnds == \A d \in Downloads : pc[d] # "idle" ~> pc[d] = "done"
=============================================================================
