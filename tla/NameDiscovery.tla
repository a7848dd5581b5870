--------------------------- MODULE NameDiscovery ---------------------------
(***************************************************************************)
(* The responders for beam.local (mDNS) and beam (LLMNR): one loop of each *)
(* kind per start, a flag that says that they run, a count of the loops    *)
(* that are alive and, per start, a channel that a stop closes.            *)
(*                                                                         *)
(* A loop binds its socket without the mutex, looks at the flag with it,   *)
(* and serves until its socket fails or it sees its channel closed, which  *)
(* it looks for at least every two seconds.  It then leaves in a critical  *)
(* section of its own: a loop of one start may leave during the next.      *)
(***************************************************************************)
EXTENDS Integers, FiniteSets

CONSTANTS
  Kinds,     \* the two protocols
  MaxStarts  \* bound: the starts that make new loops

ASSUME NameDiscoveryAssumption ==
  /\ Kinds # {}
  /\ IsFiniteSet(Kinds)
  /\ MaxStarts \in Nat

Epochs == 1 .. MaxStarts
Loops == Kinds \X Epochs

VARIABLES
  ndRunning,
  ndAlive,
  epoch,     \* the number of ndStop: each start makes the next
  closed,    \* the channels that are closed
  conn,      \* mdnsConn and llmnrConn: the loop that owns the socket, if any
  cut,       \* the loops whose socket a stop has closed
  loop,      \* where each loop is
  watch,     \* the channel that each loop looks at
  met        \* history: did a start find a loop that had not left yet?

ndvars == <<ndRunning, ndAlive, epoch, closed, conn, cut, loop, watch, met>>

Alive == {l \in Loops : loop[l] \notin {"none", "gone"}}

NDTypeOK ==
  /\ ndRunning \in BOOLEAN
  /\ ndAlive \in 0 .. Cardinality(Kinds)
  /\ epoch \in 0 .. MaxStarts
  /\ closed \subseteq 1 .. epoch
  /\ conn \in [Kinds -> {{}} \cup {{l} : l \in Loops}]
  /\ cut \subseteq Loops
  /\ loop \in [Loops -> {"none", "bind", "check", "serve", "exit", "gone"}]
  /\ watch \in [Loops -> 0 .. MaxStarts]
  /\ met \in BOOLEAN

NDInit ==
  /\ ndRunning = FALSE
  /\ ndAlive = 0
  /\ epoch = 0
  /\ closed = {}
  /\ conn = [k \in Kinds |-> {}]
  /\ cut = {}
  /\ loop = [l \in Loops |-> "none"]
  /\ watch = [l \in Loops |-> 0]
  /\ met = FALSE

-----------------------------------------------------------------------------
StartNameDiscovery ==
  IF ndRunning
  THEN UNCHANGED ndvars
  ELSE /\ epoch < MaxStarts
       /\ ndRunning' = TRUE
       /\ ndAlive' = Cardinality(Kinds)
       /\ epoch' = epoch + 1
       /\ loop' = [l \in Loops |-> IF l[2] = epoch + 1 THEN "bind" ELSE loop[l]]
       /\ met' = (met \/ Alive # {})
       /\ UNCHANGED <<closed, conn, cut, watch>>

StopNameDiscovery ==
  IF ~ndRunning
  THEN UNCHANGED ndvars
  ELSE /\ ndRunning' = FALSE
       /\ closed' = closed \cup {epoch}
       /\ cut' = cut \cup UNION {conn[k] : k \in Kinds}
       /\ conn' = [k \in Kinds |-> {}]
       /\ UNCHANGED <<ndAlive, epoch, loop, watch, met>>

-----------------------------------------------------------------------------
GoesTo(l, pc) == loop' = [loop EXCEPT ![l] = pc]

(* listenReusePacket, which may fail.                                      *)
LoopBinds(l) ==
  /\ loop[l] = "bind"
  /\ GoesTo(l, "check") \/ GoesTo(l, "exit")
  /\ UNCHANGED <<ndRunning, ndAlive, epoch, closed, conn, cut, watch, met>>

(* Under the mutex: stopped while binding, or publish the socket and take  *)
(* the channel that there is now.                                          *)
LoopChecks(l) ==
  /\ loop[l] = "check"
  /\ IF ndRunning
     THEN /\ conn' = [conn EXCEPT ![l[1]] = {l}]
          /\ watch' = [watch EXCEPT ![l] = epoch]
          /\ GoesTo(l, "serve")
     ELSE /\ GoesTo(l, "exit")
          /\ UNCHANGED <<conn, watch>>
  /\ UNCHANGED <<ndRunning, ndAlive, epoch, closed, cut, met>>

(* The socket was closed by a stop, or the channel is found closed.        *)
LoopStops(l) ==
  /\ loop[l] = "serve"
  /\ l \in cut \/ watch[l] \in closed
  /\ GoesTo(l, "exit")
  /\ UNCHANGED <<ndRunning, ndAlive, epoch, closed, conn, cut, watch, met>>

(* The multicast group cannot be joined, or a read fails.                  *)
LoopDies(l) ==
  /\ loop[l] = "serve"
  /\ GoesTo(l, "exit")
  /\ UNCHANGED <<ndRunning, ndAlive, epoch, closed, conn, cut, watch, met>>

(* All gone, and not by a stop: a later start may try again.               *)
MutFlagStays(alive) == ndRunning
MutFirstClears(alive) == IF epoch \notin closed THEN FALSE ELSE ndRunning
FlagAfter(alive) == IF alive = 0 /\ epoch \notin closed THEN FALSE ELSE ndRunning

MutBelowZero == ndAlive - 1
OneLess == IF ndAlive = 0 THEN 0 ELSE ndAlive - 1

loopExited(l) ==
  /\ loop[l] = "exit"
  /\ ndAlive' = OneLess
  /\ ndRunning' = FlagAfter(OneLess)
  /\ GoesTo(l, "gone")
  /\ UNCHANGED <<epoch, closed, conn, cut, watch, met>>

LoopStep(l) ==
  LoopBinds(l) \/ LoopChecks(l) \/ LoopStops(l) \/ LoopDies(l) \/ loopExited(l)

LoopFairness ==
  \A l \in Loops : WF_ndvars(LoopBinds(l) \/ LoopChecks(l) \/ LoopStops(l) \/ loopExited(l))

NDNext == StartNameDiscovery \/ StopNameDiscovery \/ \E l \in Loops : LoopStep(l)

NDSpec == NDInit /\ [][NDNext]_ndvars

-----------------------------------------------------------------------------
(* Never mute for ever: while the flag makes further starts do nothing,    *)
(* some loop has not left yet, whatever loops of earlier starts do.        *)
NeverMute == ndRunning => Alive # {}

(* A stop reaches what advertises: a loop that serves and was told nothing *)
(* is one that the flag stands for.  This needs that no start met a loop   *)
(* of an earlier one.                                                      *)
FlagTells ==
  ~met => \A l \in Loops :
            loop[l] = "serve" /\ l \notin cut /\ watch[l] \notin closed => ndRunning

(* The flag stands for the loops, in both directions.                      *)
NamesInv == NDTypeOK /\ NeverMute /\ FlagTells
=============================================================================
