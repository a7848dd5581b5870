---------------------------- MODULE UploadQueue -----------------------------
(***************************************************************************)
(* The upload queue of the web page: the uploads that wait, the UP_PAR at  *)
(* a time that run, the batch that they belong to, and for each upload the *)
(* chain of promises of uploadOne with the lanes that send its pieces.     *)
(*                                                                         *)
(* The page is one thread: an action is what runs from an answer, a timer  *)
(* or a click to the next.  The server answers what it likes, as often as  *)
(* Faults allows against the upload.  A published file belongs to a batch  *)
(* and adopts the session of its share; a session that is picked in the    *)
(* panel is alone, and may begin afresh.  Lanes of noverify sessions,      *)
(* which hash the file before they complete, are left out, as are speed,   *)
(* progress and rows.                                                      *)
(***************************************************************************)
EXTENDS Integers, Sequences, FiniteSets

CONSTANTS
  Batch,     \* the uploads that are published together, numbers
  Picked,    \* the uploads that are picked in the panel, numbers
  UP_PAR,    \* how many uploads run
  PARALLEL,  \* how many lanes send the pieces of one
  Pieces,    \* the pieces of a file
  Attempts,  \* how often a piece is sent, 5
  Faults     \* bound: the answers that do not help

ASSUME UploadQueueAssumption ==
  /\ Batch \subseteq Nat /\ Picked \subseteq Nat /\ Batch \cap Picked = {}
  /\ IsFiniteSet(Batch) /\ IsFiniteSet(Picked)
  /\ UP_PAR \in Nat \ {0} /\ PARALLEL \in Nat \ {0} /\ Attempts \in Nat \ {0}
  /\ Faults \in Nat

Items == Batch \cup Picked

VARIABLES
  upQueue,   \* the uploads that wait
  upActive,  \* how many lanes of the queue are taken
  pending,   \* sharePending: the shares that are announced and not done
  tally,     \* the counts of the batch, and its two flags
  at,        \* where each upload is
  todo,      \* the pieces in the queue of its lanes
  sent,      \* the pieces in flight, and how often they failed
  clicks,    \* paused, cancelled; stale: cancelled since the promise began
  outcome,   \* what it will be counted as
  faults,    \* how many answers did not help
  acked      \* history: the pieces that the server has or accepted

vars == <<upQueue, upActive, pending, tally, at, todo, sent, clicks, outcome, faults, acked>>

(* "adrift": the promises are over and done was not called.                *)
Running == {"adopt", "again", "init", "send", "complete", "awaiting", "resume", "adrift"}

TypeOK ==
  /\ upQueue \in Seq(Items)
  /\ upActive \in 0 .. UP_PAR
  /\ pending \in 0 .. Cardinality(Batch)
  /\ tally \in [total : 0 .. Cardinality(Batch), done : 0 .. Cardinality(Batch),
                failed : 0 .. Cardinality(Batch), cancelledN : 0 .. Cardinality(Batch),
                cancelled : BOOLEAN, finished : BOOLEAN]
  /\ at \in [Items -> Running \cup {"idle", "queued", "dropped", "done"}]
  /\ todo \in [Items -> SUBSET Pieces]
  /\ \A i \in Items : DOMAIN sent[i] \subseteq Pieces
  /\ clicks \in [Items -> [paused : BOOLEAN, cancelled : BOOLEAN, stale : BOOLEAN]]
  /\ outcome \in [Items -> {"done", "failed", "cancelled"}]
  /\ faults \in 0 .. Faults
  /\ acked \in [Items -> SUBSET Pieces]

Untouched == [paused |-> FALSE, cancelled |-> FALSE, stale |-> FALSE]

Init ==
  /\ upQueue = <<>> /\ upActive = 0 /\ pending = 0 /\ faults = 0
  /\ tally = [total |-> Cardinality(Batch), done |-> 0, failed |-> 0, cancelledN |-> 0,
              cancelled |-> FALSE, finished |-> FALSE]
  /\ at = [i \in Items |-> "idle"]
  /\ todo = [i \in Items |-> {}]
  /\ sent = [i \in Items |-> <<>>]
  /\ clicks = [i \in Items |-> Untouched]
  /\ outcome = [i \in Items |-> "done"]
  /\ acked = [i \in Items |-> {}]

-----------------------------------------------------------------------------
(* pumpQueue, with uploadOne up to its first request, for a queue and a    *)
(* number of lanes that are taken.                                         *)
Smaller(a, b) == IF a < b THEN a ELSE b
MutNoLimit(q, taken) == Len(q)
MutOneFewer(q, taken) == IF taken = UP_PAR THEN 0 ELSE Smaller(UP_PAR - 1 - taken, Len(q))
Starts(q, taken) == Smaller(UP_PAR - taken, Len(q))
pumpQueue(q, taken, where) ==
  LET k == Starts(q, taken)
      started == {q[j] : j \in 1 .. k}
  IN /\ upQueue' = SubSeq(q, k + 1, Len(q))
     /\ upActive' = taken + k
     /\ at' = [i \in Items |-> IF i \in started THEN "adopt" ELSE where[i]]

Numbered(S) == CHOOSE s \in [1 .. Cardinality(S) -> S] :
                 \A a, b \in DOMAIN s : a < b => s[a] < s[b]

Enqueue(S) ==
  pumpQueue(upQueue \o Numbered(S), upActive,
            [i \in Items |-> IF i \in S THEN "queued" ELSE at[i]])

(* sharePublishItems, once the shares are announced.                       *)
sharePublishItems ==
  /\ \A i \in Batch : at[i] = "idle"
  /\ Batch # {}
  /\ Enqueue(Batch)
  /\ pending' = pending + Cardinality(Batch)
  /\ UNCHANGED <<tally, todo, sent, clicks, outcome, faults, acked>>

PickSession(i) ==
  /\ i \in Picked
  /\ at[i] = "idle"
  /\ Enqueue({i})
  /\ UNCHANGED <<pending, tally, todo, sent, clicks, outcome, faults, acked>>

(* maybeFinishBatch, for what runs and what waits by then.                 *)
MutQueueAlone(where) == \A j \in Batch : where[j] # "queued"
NoneLeft(where) == \A j \in Batch : where[j] \notin Running \cup {"queued"}

(* done: the lane is given back and the queue pumped first, and then the   *)
(* upload is counted.  What is over is not told apart any more.            *)
AfterDone(q, taken, where) == pumpQueue(q, taken, where)

Count(i, how) ==
  LET t == CASE how = "done" -> [tally EXCEPT !.done = @ + 1]
             [] how = "failed" -> [tally EXCEPT !.failed = @ + 1]
             [] how = "cancelled" -> [tally EXCEPT !.cancelledN = @ + 1]
  IN tally' = IF i \notin Batch THEN tally
              ELSE [t EXCEPT !.finished = @ \/ NoneLeft(at')]

done(i, how) ==
  /\ AfterDone(upQueue, upActive - 1, [at EXCEPT ![i] = "done"])
  /\ pending' = IF i \in Batch THEN pending - 1 ELSE pending
  /\ Count(i, how)
  /\ outcome' = [outcome EXCEPT ![i] = "done"]
  /\ clicks' = [clicks EXCEPT ![i] = Untouched]
  /\ todo' = [todo EXCEPT ![i] = {}]
  /\ sent' = [sent EXCEPT ![i] = <<>>]
  /\ acked' = [acked EXCEPT ![i] = {}]

-----------------------------------------------------------------------------
Goes(i, where) ==
  /\ at' = [at EXCEPT ![i] = where]
  /\ UNCHANGED <<upQueue, upActive, pending, tally>>

Helps == UNCHANGED faults
Hurts == faults < Faults /\ faults' = faults + 1

(* A handler of a promise that began before the cancellation returns.      *)
Abandoned(i) ==
  /\ clicks[i].stale
  /\ Goes(i, "adrift")
  /\ UNCHANGED <<todo, sent, clicks, outcome, acked>>

Begins(i) == clicks' = [clicks EXCEPT ![i].stale = FALSE]

startUpload(i, missing) ==
  /\ Goes(i, "send")
  /\ Begins(i)
  /\ todo' = [todo EXCEPT ![i] = missing]
  /\ sent' = [sent EXCEPT ![i] = <<>>]
  /\ acked' = [acked EXCEPT ![i] = Pieces \ missing]
  /\ UNCHANGED outcome

beginInit(i) ==
  IF clicks[i].cancelled
  THEN done(i, outcome[i])
  ELSE /\ Goes(i, "init")
       /\ Begins(i)
       /\ UNCHANGED <<todo, sent, outcome, acked>>

(* failShareAdopt and startFresh: the session is not what was announced,   *)
(* or there is none.                                                       *)
Elsewhere(i) == IF i \in Batch THEN done(i, "failed") ELSE beginInit(i)

(* adoptSession: a share that misses nothing is sent whole.                *)
Adopted(i) ==
  /\ at[i] = "adopt"
  /\ \/ Helps /\ Abandoned(i)
     \/ /\ ~clicks[i].stale
        /\ \/ \E missing \in SUBSET Pieces :
                /\ Helps
                /\ startUpload(i, IF i \in Batch /\ missing = {} THEN Pieces ELSE missing)
           \/ Hurts /\ Elsewhere(i)
           \/ /\ i \in Batch
              /\ Hurts
              /\ Goes(i, "again")
              /\ UNCHANGED <<todo, sent, clicks, outcome, acked>>

(* The second look at a session of the old kind; it does not ask whether   *)
(* the upload was cancelled meanwhile, but its lanes do.                   *)
AdoptedAgain(i) ==
  /\ at[i] = "again"
  /\ \/ Helps /\ \E missing \in SUBSET Pieces : startUpload(i, missing)
     \/ Hurts /\ done(i, "failed")

InitAnswered(i) ==
  /\ at[i] = "init"
  /\ \/ Helps /\ Abandoned(i)
     \/ ~clicks[i].stale /\ Helps /\ startUpload(i, Pieces)
     \/ ~clicks[i].stale /\ Hurts /\ done(i, "failed")
     \/ clicks[i].cancelled /\ Hurts /\ done(i, outcome[i])

(* The catch of startUpload: the upload waits for the user.                *)
MutNotPaused(i) == clicks
BrokenOff(i) == [clicks EXCEPT ![i].paused = TRUE]

Breaks(i) ==
  IF clicks[i].cancelled
  THEN done(i, outcome[i])
  ELSE /\ Goes(i, "awaiting")
       /\ clicks' = BrokenOff(i)
       /\ outcome' = [outcome EXCEPT ![i] = "failed"]
       /\ todo' = [todo EXCEPT ![i] = {}]
       /\ sent' = [sent EXCEPT ![i] = <<>>]
       /\ UNCHANGED acked

-----------------------------------------------------------------------------
InFlight(i) == DOMAIN sent[i]
Without(f, p) == [q \in DOMAIN f \ {p} |-> f[q]]
With(f, p, n) == [q \in DOMAIN f \cup {p} |-> IF q = p THEN n ELSE f[q]]

(* launch: a lane takes a piece.                                           *)
launch(i, p) ==
  /\ at[i] = "send"
  /\ ~clicks[i].cancelled /\ ~clicks[i].paused
  /\ p \in todo[i]
  /\ Cardinality(InFlight(i)) < PARALLEL
  /\ todo' = [todo EXCEPT ![i] = @ \ {p}]
  /\ sent' = [sent EXCEPT ![i] = With(@, p, 0)]
  /\ UNCHANGED <<upQueue, upActive, pending, tally, at, clicks, outcome, faults, acked>>

(* sendPiece: the piece is accepted.  One that comes back while the upload *)
(* is paused goes to the queue again.                                      *)
PieceAccepted(i, p) ==
  /\ at[i] = "send"
  /\ p \in InFlight(i)
  /\ ~clicks[i].cancelled
  /\ acked' = [acked EXCEPT ![i] = @ \cup {p}]
  /\ sent' = [sent EXCEPT ![i] = Without(@, p)]
  /\ todo' = IF clicks[i].paused THEN [todo EXCEPT ![i] = @ \cup {p}] ELSE todo
  /\ UNCHANGED <<upQueue, upActive, pending, tally, at, clicks, outcome, faults>>

(* It is refused, or there is no answer: it is sent again, up to Attempts  *)
(* times unless the refusal is for good.                                   *)
PieceRetried(i, p) ==
  /\ at[i] = "send"
  /\ p \in InFlight(i)
  /\ ~clicks[i].cancelled
  /\ Hurts
  /\ sent[i][p] + 1 < Attempts
  /\ sent' = [sent EXCEPT ![i] = With(@, p, sent[i][p] + 1)]
  /\ UNCHANGED <<upQueue, upActive, pending, tally, at, todo, clicks, outcome, acked>>

PieceFailed(i, p) ==
  /\ at[i] = "send"
  /\ p \in InFlight(i)
  /\ ~clicks[i].cancelled
  /\ Hurts
  /\ Breaks(i)

(* An aborted piece, or a lane that looks up.                              *)
SendCancelled(i) ==
  /\ at[i] = "send"
  /\ clicks[i].cancelled
  /\ Helps
  /\ Breaks(i)

MutQueueEmpty(i) == todo[i] = {}
AllSent(i) == todo[i] = {} /\ InFlight(i) = {}

LanesDone(i) ==
  /\ at[i] = "send"
  /\ ~clicks[i].cancelled
  /\ AllSent(i)
  /\ Goes(i, "complete")
  /\ UNCHANGED <<todo, sent, clicks, outcome, faults, acked>>

(* The answer to /upload_complete.                                         *)
Completed(i) ==
  /\ at[i] = "complete"
  /\ \/ Helps /\ done(i, outcome[i])
     \/ Hurts /\ \E missing \in SUBSET Pieces \ {{}} : startUpload(i, missing)
     \/ Hurts /\ done(i, "failed")
     \/ Hurts /\ Breaks(i)

Resumed(i) ==
  /\ at[i] = "resume"
  /\ \/ Helps /\ Abandoned(i)
     \/ ~clicks[i].stale /\ clicks[i].cancelled /\ Helps /\ done(i, outcome[i])
     \/ /\ ~clicks[i].stale /\ ~clicks[i].cancelled
        /\ Helps
        /\ \E missing \in SUBSET Pieces : startUpload(i, missing)
     \/ ~clicks[i].stale /\ Hurts /\ Elsewhere(i)

-----------------------------------------------------------------------------
(* The buttons.  Pause is resumePump after an upload broke off.            *)
PauseClick(i) ==
  /\ at[i] \in Running
  /\ IF at[i] = "awaiting"
     THEN /\ Goes(i, "resume")
          /\ clicks' = [clicks EXCEPT ![i].paused = FALSE, ![i].stale = FALSE]
     ELSE /\ clicks' = [clicks EXCEPT ![i].paused = ~@]
          /\ UNCHANGED <<upQueue, upActive, pending, tally, at>>
  /\ UNCHANGED <<todo, sent, outcome, faults, acked>>

Cancelled(S) ==
  /\ clicks' = [i \in Items |-> IF i \in S THEN [clicks[i] EXCEPT !.cancelled = TRUE, !.stale = TRUE]
                                ELSE clicks[i]]
  /\ outcome' = [i \in Items |-> IF i \in S THEN "cancelled" ELSE outcome[i]]

CancelClick(i) ==
  /\ at[i] \in Running
  /\ Cancelled({i})
  /\ UNCHANGED <<upQueue, upActive, pending, tally, at, todo, sent, faults, acked>>

(* What waits is taken out of the queue, what runs is cancelled.           *)
Kept(q, gone) ==
  LET places == Numbered({j \in DOMAIN q : q[j] \notin gone})
  IN [k \in DOMAIN places |-> q[places[k]]]

cancelBatch ==
  LET waiting == {i \in Batch : at[i] = "queued"}
      where   == [i \in Items |-> IF i \in waiting THEN "dropped" ELSE at[i]]
  IN /\ ~tally.cancelled /\ ~tally.finished
     /\ \A i \in Batch : at[i] # "idle"
     /\ upQueue' = Kept(upQueue, waiting)
     /\ at' = where
     /\ tally' = [tally EXCEPT !.cancelled = TRUE, !.total = @ - Cardinality(waiting),
                               !.finished = NoneLeft(where)]
     /\ Cancelled({i \in Batch : at[i] \in Running})
     /\ UNCHANGED <<upActive, pending, todo, sent, faults, acked>>

Answer(i) ==
  \/ Adopted(i) \/ AdoptedAgain(i) \/ InitAnswered(i)
  \/ \E p \in Pieces : launch(i, p) \/ PieceAccepted(i, p) \/ PieceRetried(i, p) \/ PieceFailed(i, p)
  \/ SendCancelled(i) \/ LanesDone(i) \/ Completed(i) \/ Resumed(i)

Next ==
  \/ sharePublishItems
  \/ \E i \in Items : PickSession(i) \/ Answer(i) \/ PauseClick(i) \/ CancelClick(i)
  \/ cancelBatch

(* Every request is answered or fails, and timers fire; the user need not  *)
(* do anything.                                                            *)
Spec == Init /\ [][Next]_vars /\ \A i \in Items : WF_vars(Answer(i))

-----------------------------------------------------------------------------
(* No lane idles while an upload waits, however the others ended: in turn, *)
(* by failure, within the call that ended another, or with their batch.    *)
LanesFull ==
  /\ upActive = Cardinality({i \in Items : at[i] \in Running})
  /\ upQueue # <<>> => upActive = UP_PAR

(* The lanes of the queue are counted and used.                            *)
QueueInv == TypeOK /\ LanesFull

(* A file is completed only when the server has accepted every piece: none *)
(* is in flight, and none was dropped by a pause or a failed lane.         *)
WholeBeforeComplete == \A i \in Items : at[i] = "complete" => acked[i] = Pieces

(* A batch that says it is finished has no upload left that could still be *)
(* cancelled, and its counts add up.                                       *)
BatchIsOver ==
  tally.finished =>
    /\ \A i \in Batch : at[i] \in {"done", "dropped"}
    /\ tally.done + tally.failed + tally.cancelledN = tally.total

(* The page comes to rest: every upload ends unless the user holds one up, *)
(* paused, cancelled, or to be resumed after it broke off.                 *)
Busy == \E i \in Items : at[i] \in Running \cup {"queued"}
Held == \E i \in Items : clicks[i].paused \/ clicks[i].cancelled
UploadsEnd == Busy ~> (~Busy \/ Held)

(* upload.js says that counters do not leak: a cancelled upload ends, and  *)
(* gives its lane back.                                                    *)
CancelledEnds == \A i \in Items : clicks[i].cancelled ~> at[i] = "done"
=============================================================================
