----------------------------- MODULE ServerLife -----------------------------
(***************************************************************************)
(* The life of the server inside the phone app, which starts and stops it  *)
(* in one process: beamapp's Start and Stop, called by one background      *)
(* thread, Run, the idle monitor, the delayed stop of the web page, and    *)
(* the name discovery that goes with them.                                 *)
(*                                                                         *)
(* Each Run is a server of its own; the variable httpServer holds the last *)
(* one.  Shutdown, called from four places, closes whatever server that is *)
(* and then, after the connections have drained, the stop channel.  Start  *)
(* gives up on a Run only when it failed: five seconds are enough to bind. *)
(***************************************************************************)
EXTENDS NameDiscovery

CONSTANTS
  MaxRuns,  \* bound: the calls of Run
  MaxTasks  \* bound: the Shutdown goroutines at a time

ASSUME ServerLifeAssumption == MaxRuns \in Nat /\ MaxTasks \in Nat

Runs == 1 .. MaxRuns

VARIABLES
  caller,      \* where the background thread is
  running,     \* the flag of beamapp
  httpServer,  \* the run that the variable holds, or 0
  server,      \* the state of each run's server
  stopClosed,  \* is StopCh closed?
  monitor,     \* is there an idle monitor of the current generation?
  begun,       \* the Shutdown goroutines before they close the server
  draining,    \* and those that have yet to close StopCh
  quiet        \* has the idle timeout passed without a request?

lifevars == <<caller, running, httpServer, server, stopClosed,
              monitor, begun, draining, quiet>>
vars == <<lifevars, ndvars>>

TypeOK ==
  /\ caller \in {"idle", "reboot", "rebooting", "configure", "run", "wait",
                 "stop", "stopping"}
  /\ running \in BOOLEAN
  /\ httpServer \in 0 .. MaxRuns
  /\ server \in [Runs -> {"none", "reset", "made", "listening", "closed"}]
  /\ stopClosed \in BOOLEAN
  /\ monitor \in BOOLEAN
  /\ begun \in 0 .. MaxTasks
  /\ draining \in 0 .. MaxTasks
  /\ quiet \in BOOLEAN

Init ==
  /\ NDInit
  /\ caller = "idle"
  /\ running = FALSE
  /\ httpServer = 0
  /\ server = [g \in Runs |-> "none"]
  /\ stopClosed = FALSE
  /\ monitor = FALSE
  /\ begun = 0
  /\ draining = 0
  /\ quiet = FALSE

Listening == {g \in Runs : server[g] = "listening"}
IsPortOpen == Listening # {}
Started == {g \in Runs : server[g] # "none"}

-----------------------------------------------------------------------------
(* Shutdown closes the current server at once, also one that has yet to    *)
(* listen; when the connections have drained, or too late, it closes       *)
(* StopCh.                                                                 *)
CloseServer ==
  server' = [g \in Runs |-> IF g = httpServer THEN "closed" ELSE server[g]]

(* Start, while the flag is up: nothing to do if the server answers.  The  *)
(* probe may fail though it listens.                                       *)
MutNoReboot == "configure"
Reboot == "reboot"

Start ==
  /\ caller = "idle"
  /\ \/ /\ running /\ IsPortOpen
        /\ UNCHANGED <<caller, running>>
     \/ /\ running
        /\ running' = FALSE
        /\ caller' = Reboot
     \/ /\ ~running
        /\ caller' = "configure"
        /\ UNCHANGED running
  /\ UNCHANGED <<httpServer, server, stopClosed, monitor, begun, draining, quiet, ndvars>>

StartShutdown ==
  /\ caller = "reboot"
  /\ CloseServer
  /\ caller' = "rebooting"
  /\ UNCHANGED <<running, httpServer, stopClosed, monitor, begun, draining, quiet, ndvars>>

StartShutdownEnds ==
  /\ caller = "rebooting"
  /\ stopClosed' = TRUE
  /\ caller' = "configure"
  /\ UNCHANGED <<running, httpServer, server, monitor, begun, draining, quiet, ndvars>>

(* configure: the clock of the idle timeout is set back, the names are     *)
(* advertised and a monitor of a new generation starts.                    *)
(* The generation is what tells a monitor that it is superseded; one of an *)
(* older generation does nothing but leave, and is left out.               *)
MutOnlyOnce == epoch = 0
RestartIdleMonitor == TRUE
StopIdleMonitor == FALSE

configure ==
  /\ caller = "configure"
  /\ Cardinality(Started) < MaxRuns
  /\ quiet' = FALSE
  /\ StartNameDiscovery
  /\ monitor' = RestartIdleMonitor
  /\ caller' = "run"
  /\ UNCHANGED <<running, httpServer, server, stopClosed, begun, draining>>

(* Run in its goroutine, and the wait for the port.                        *)
Run ==
  /\ caller = "run"
  /\ LET g == Cardinality(Started) + 1 IN server' = [server EXCEPT ![g] = "reset"]
  /\ stopClosed' = FALSE
  /\ caller' = "wait"
  /\ UNCHANGED <<running, httpServer, monitor, begun, draining, quiet, ndvars>>

RunMakes(g) ==
  /\ server[g] = "reset"
  /\ httpServer' = g
  /\ server' = [server EXCEPT ![g] = "made"]
  /\ UNCHANGED <<caller, running, stopClosed, monitor, begun, draining, quiet, ndvars>>

RunListens(g) ==
  /\ server[g] = "made"
  /\ server' = [server EXCEPT ![g] = IF IsPortOpen THEN "closed" ELSE "listening"]
  /\ UNCHANGED <<caller, running, httpServer, stopClosed, monitor, begun, draining, quiet, ndvars>>

StartReturns ==
  /\ caller = "wait"
  /\ \/ IsPortOpen /\ running' = TRUE
     \/ server[Cardinality(Started)] = "closed" /\ UNCHANGED running
  /\ caller' = "idle"
  /\ UNCHANGED <<httpServer, server, stopClosed, monitor, begun, draining, quiet, ndvars>>

(* Stop: the monitor is superseded and the names withdrawn, the server is  *)
(* closed, the flag goes down.                                             *)
Stop ==
  /\ caller = "idle"
  /\ monitor' = StopIdleMonitor
  /\ StopNameDiscovery
  /\ caller' = "stop"
  /\ UNCHANGED <<running, httpServer, server, stopClosed, begun, draining, quiet>>

StopShutdown ==
  /\ caller = "stop"
  /\ CloseServer
  /\ caller' = "stopping"
  /\ UNCHANGED <<running, httpServer, stopClosed, monitor, begun, draining, quiet, ndvars>>

StopReturns ==
  /\ caller = "stopping"
  /\ stopClosed' = TRUE
  /\ running' = FALSE
  /\ caller' = "idle"
  /\ UNCHANGED <<httpServer, server, monitor, begun, draining, quiet, ndvars>>

-----------------------------------------------------------------------------
(* A tick of the monitor finds that the server was idle for too long; it   *)
(* starts a Shutdown goroutine and leaves.                                 *)
MutNeverDue == FALSE
Due == quiet

Tick ==
  /\ monitor
  /\ Due
  /\ begun < MaxTasks
  /\ begun' = begun + 1
  /\ monitor' = FALSE
  /\ UNCHANGED <<caller, running, httpServer, server, stopClosed, draining, quiet, ndvars>>

(* handleServerStop, a request, which answers and shuts down a moment      *)
(* later.                                                                  *)
handleServerStop ==
  /\ IsPortOpen
  /\ begun < MaxTasks
  /\ begun' = begun + 1
  /\ quiet' = FALSE
  /\ UNCHANGED <<caller, running, httpServer, server, stopClosed, monitor, draining, ndvars>>

ShutdownCloses ==
  /\ begun > 0
  /\ draining < MaxTasks
  /\ CloseServer
  /\ begun' = begun - 1
  /\ draining' = draining + 1
  /\ UNCHANGED <<caller, running, httpServer, stopClosed, monitor, quiet, ndvars>>

ShutdownEnds ==
  /\ draining > 0
  /\ draining' = draining - 1
  /\ stopClosed' = TRUE
  /\ UNCHANGED <<caller, running, httpServer, server, monitor, begun, quiet, ndvars>>

(* A request is served.                                                    *)
TouchActivity ==
  /\ IsPortOpen
  /\ quiet
  /\ quiet' = FALSE
  /\ UNCHANGED <<caller, running, httpServer, server, stopClosed, monitor, begun, draining, ndvars>>

(* The idle timeout, five hours, passes; no call of Start lasts as long.   *)
GoesQuiet ==
  /\ caller \in {"idle", "stop", "stopping"}
  /\ ~quiet
  /\ quiet' = TRUE
  /\ UNCHANGED <<caller, running, httpServer, server, stopClosed, monitor, begun, draining, ndvars>>

Names(l) == LoopStep(l) /\ UNCHANGED lifevars

-----------------------------------------------------------------------------
Background ==
  \/ StartShutdown \/ StartShutdownEnds \/ configure \/ Run \/ StartReturns
  \/ StopShutdown \/ StopReturns
  \/ \E g \in Runs : RunMakes(g) \/ RunListens(g)

Next ==
  \/ Start \/ Stop \/ Background
  \/ Tick
  \/ handleServerStop \/ ShutdownCloses \/ ShutdownEnds
  \/ TouchActivity \/ GoesQuiet
  \/ \E l \in Loops : Names(l)

(* Goroutines that can go on do; the ticker ticks.  Nobody has to call     *)
(* Start or Stop, and no request has to come.                              *)
Fairness ==
  /\ WF_vars(Background)
  /\ WF_vars(Tick)
  /\ WF_vars(ShutdownCloses)
  /\ WF_vars(ShutdownEnds)

Spec == Init /\ [][Next]_vars /\ Fairness

-----------------------------------------------------------------------------
(* What listens is what Shutdown would close: no server is orphaned.       *)
Reachable == Listening \subseteq {httpServer}

(* No server outlives its watch: while one listens there is a monitor of   *)
(* the current generation, or something that closes the server is on its   *)
(* way.                                                                    *)
Watched ==
  IsPortOpen =>
    \/ monitor
    \/ begun > 0
    \/ caller \in {"reboot", "stop"}

(* A server that listens can be closed, and will not be forgotten.         *)
ServerInv == TypeOK /\ Reachable /\ Watched

(* A server that is left alone shuts down by itself, once for every start. *)
IdleStops ==
  (IsPortOpen /\ quiet) ~> (~quiet \/ caller # "idle" \/ (~IsPortOpen /\ stopClosed))
=============================================================================
