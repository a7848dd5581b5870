---------------------------- MODULE LifeProofs -----------------------------
(***************************************************************************)
(* The life of the server and of its name discovery, for any number of     *)
(* starts, protocols and Shutdown goroutines: no server is orphaned or     *)
(* forgotten, and the flag of the discovery stands for its loops.          *)
(* NamesIInv and LifeIInv are the inductive invariants.                    *)
(***************************************************************************)
EXTENDS ServerLife, FiniteSetTheorems, TLAPS

-----------------------------------------------------------------------------
(* Name discovery.  The count never exceeds the loops that are alive, as   *)
(* each leaves once; it is their number as long as no start met a loop of  *)
(* an earlier one.  Then who serves looks at the newest channel, and when  *)
(* the flag is down that is closed or nobody is left.                      *)
NamesIInv ==
  /\ NDTypeOK
  /\ ndRunning => epoch \in Epochs \ closed /\ ndAlive > 0
  /\ ndAlive <= Cardinality(Alive)
  /\ ~met =>
       /\ ndAlive = Cardinality(Alive)
       /\ ndRunning \/ epoch \in closed \/ Alive = {}
       /\ \A l \in Loops : loop[l] = "serve" => watch[l] = epoch

LEMMA LoopsFinite == IsFiniteSet(Loops) /\ IsFiniteSet(Alive) /\ Cardinality(Alive) \in Nat
  <1>1. IsFiniteSet(Epochs)
    BY FS_Interval, NameDiscoveryAssumption DEF Epochs
  <1>2. IsFiniteSet(Loops)
    BY <1>1, FS_Product, NameDiscoveryAssumption DEF Loops
  <1>3. QED
    BY <1>2, FS_Subset, FS_CardinalityType DEF Alive

LEMMA KindsCount == Cardinality(Kinds) \in Nat \ {0}
  BY FS_CardinalityType, FS_EmptySet, NameDiscoveryAssumption

(* The loops of one start are as many as there are protocols.              *)
LEMMA LoopsOfStart ==
  ASSUME NEW e \in Epochs
  PROVE  Cardinality({l \in Loops : l[2] = e}) = Cardinality(Kinds)
  <1> DEFINE S == {l \in Loops : l[2] = e}
             f == [k \in Kinds |-> <<k, e>>]
  <1>1. f \in Bijection(Kinds, S)
    <2>1. f \in [Kinds -> S]
      BY DEF Loops
    <2>2. \A a, b \in Kinds : f[a] = f[b] => a = b
      OBVIOUS
    <2>3. \A l \in S : \E k \in Kinds : f[k] = l
      BY DEF Loops
    <2>4. QED
      BY <2>1, <2>2, <2>3 DEF Bijection, Injection, Surjection, IsInjective
  <1>2. ExistsBijection(Kinds, S)
    BY <1>1 DEF ExistsBijection
  <1>3. QED
    BY <1>2, FS_Bijection, NameDiscoveryAssumption

LEMMA NamesFirst == NDInit => NamesIInv
  <1> SUFFICES ASSUME NDInit PROVE NamesIInv
    OBVIOUS
  <1>1. Alive = {} /\ Cardinality(Alive) = 0
    BY FS_EmptySet DEF Alive, NDInit
  <1>2. NDTypeOK
    <2>1. 0 \in 0 .. Cardinality(Kinds) /\ 0 \in 0 .. MaxStarts
      BY KindsCount, NameDiscoveryAssumption
    <2>2. \A k \in Kinds : conn[k] = {}
      BY DEF NDInit
    <2>3. conn \in [Kinds -> {{}} \cup {{l} : l \in Loops}]
      BY <2>2 DEF NDInit
    <2>4. QED
      BY <2>1, <2>3 DEF NDInit, NDTypeOK
  <1>3. QED
    BY <1>1, <1>2 DEF NDInit, NamesIInv

LEMMA NamesStart == NamesIInv /\ StartNameDiscovery => NamesIInv'
  <1> SUFFICES ASSUME NamesIInv, StartNameDiscovery PROVE NamesIInv'
    OBVIOUS
  <1>1. CASE ndRunning
    BY <1>1 DEF StartNameDiscovery, ndvars, NamesIInv, NDTypeOK, Alive
  <1>2. CASE ~ndRunning
    <2> DEFINE new == {l \in Loops : l[2] = epoch + 1}
    <2>1. /\ epoch + 1 \in Epochs /\ epoch + 1 \notin closed
          /\ ndAlive' = Cardinality(Kinds) /\ epoch' = epoch + 1 /\ ndRunning'
          /\ loop' = [l \in Loops |-> IF l[2] = epoch + 1 THEN "bind" ELSE loop[l]]
          /\ met' = (met \/ Alive # {})
          /\ UNCHANGED <<closed, conn, cut, watch>>
      BY <1>2, NameDiscoveryAssumption DEF StartNameDiscovery, NamesIInv, NDTypeOK, Epochs
    <2>2. Alive' = Alive \cup new
      BY <2>1 DEF Alive
    <2>3. Cardinality(new) = Cardinality(Kinds) /\ new \subseteq Loops
      BY <2>1, LoopsOfStart
    <2>4. NDTypeOK'
      BY <2>1, KindsCount, NameDiscoveryAssumption DEF NamesIInv, NDTypeOK, Epochs
    <2> HIDE DEF new
    <2>5. Cardinality(new) <= Cardinality(Alive')
      BY <2>2, <2>3, LoopsFinite, FS_Union, FS_Subset
    <2>6. ~met' => Alive = {} /\ Alive' = new
      BY <2>1, <2>2
    <2>7. ~met' => \A l \in Loops : loop'[l] # "serve"
      BY <2>1, <2>6 DEF Alive
    <2>8. QED
      BY <2>1, <2>3, <2>4, <2>5, <2>6, <2>7, KindsCount DEF NamesIInv
  <1>3. QED
    BY <1>1, <1>2

LEMMA NamesStop == NamesIInv /\ StopNameDiscovery => NamesIInv'
  <1> SUFFICES ASSUME NamesIInv, StopNameDiscovery PROVE NamesIInv'
    OBVIOUS
  <1>1. CASE ~ndRunning
    BY <1>1 DEF StopNameDiscovery, ndvars, NamesIInv, NDTypeOK, Alive
  <1>2. CASE ndRunning
    <2>1. /\ ndRunning' = FALSE /\ closed' = closed \cup {epoch} /\ epoch \in 1 .. epoch
          /\ cut' = cut \cup UNION {conn[k] : k \in Kinds}
          /\ conn' = [k \in Kinds |-> {}]
          /\ UNCHANGED <<ndAlive, epoch, loop, watch, met>>
      BY <1>2 DEF StopNameDiscovery, NamesIInv, Epochs
    <2>2. \A k \in Kinds : conn[k] \subseteq Loops
      BY DEF NamesIInv, NDTypeOK
    <2>i. NDTypeOK
      BY DEF NamesIInv
    <2>c. /\ cut' \subseteq Loops
          /\ conn' \in [Kinds -> {{}} \cup {{l} : l \in Loops}]
          /\ closed' \subseteq 1 .. epoch
      BY <2>i, <2>1, <2>2 DEF NDTypeOK
    <2>d. /\ ndRunning' \in BOOLEAN /\ met' \in BOOLEAN
          /\ ndAlive' \in 0 .. Cardinality(Kinds) /\ epoch' \in 0 .. MaxStarts
          /\ loop' \in [Loops -> {"none", "bind", "check", "serve", "exit", "gone"}]
          /\ watch' \in [Loops -> 0 .. MaxStarts]
      <3>1. ndRunning' \in BOOLEAN
        BY <2>1
      <3>2. met' \in BOOLEAN
        BY <2>i, <2>1 DEF NDTypeOK
      <3>3. ndAlive' \in 0 .. Cardinality(Kinds) /\ epoch' \in 0 .. MaxStarts
        BY <2>i, <2>1 DEF NDTypeOK
      <3>4. /\ loop' \in [Loops -> {"none", "bind", "check", "serve", "exit", "gone"}]
            /\ watch' \in [Loops -> 0 .. MaxStarts]
        BY <2>i, <2>1 DEF NDTypeOK
      <3>5. QED
        BY <3>1, <3>2, <3>3, <3>4
    <2>e. closed' \subseteq 1 .. epoch'
      BY <2>1, <2>c
    <2>f. NDTypeOK'
      BY <2>c, <2>d, <2>e DEF NDTypeOK
    <2>g. Alive' = Alive
      BY <2>1 DEF Alive
    <2>3. NDTypeOK' /\ Alive' = Alive
      BY <2>f, <2>g
    <2>4. QED
      BY <2>1, <2>3 DEF NamesIInv
  <1>3. QED
    BY <1>1, <1>2

(* A loop goes on: it is alive before and after.                           *)
LEMMA NamesLoop ==
  ASSUME NamesIInv, NEW l \in Loops,
         LoopBinds(l) \/ LoopChecks(l) \/ LoopStops(l) \/ LoopDies(l)
  PROVE  NamesIInv'
  <1>1. PICK pc \in {"check", "serve", "exit"} : loop' = [loop EXCEPT ![l] = pc]
    BY DEF LoopBinds, LoopChecks, LoopStops, LoopDies, GoesTo
  <1>2. /\ UNCHANGED <<ndRunning, ndAlive, epoch, closed, cut, met>>
        /\ loop[l] \in {"bind", "check", "serve"}
    BY DEF LoopBinds, LoopChecks, LoopStops, LoopDies
  <1>3. /\ watch' \in [Loops -> 0 .. MaxStarts]
        /\ conn' \in [Kinds -> {{}} \cup {{m} : m \in Loops}]
    BY DEF NamesIInv, NDTypeOK, LoopBinds, LoopChecks, LoopStops, LoopDies
  <1>4. NDTypeOK'
    BY <1>1, <1>2, <1>3 DEF NamesIInv, NDTypeOK
  <1>5. Alive' = Alive
    BY <1>1, <1>2 DEF NamesIInv, NDTypeOK, Alive
  <1>6. ~met => \A m \in Loops : loop'[m] = "serve" => watch'[m] = epoch
    BY DEF NamesIInv, NDTypeOK, LoopBinds, LoopChecks, LoopStops, LoopDies, GoesTo
  <1>7. QED
    BY <1>2, <1>4, <1>5, <1>6 DEF NamesIInv

LEMMA NamesExit ==
  ASSUME NamesIInv, NEW l \in Loops, loopExited(l)
  PROVE  NamesIInv'
  <1>1. /\ l \in Alive /\ Alive' = Alive \ {l}
        /\ Cardinality(Alive') = Cardinality(Alive) - 1
    <2>1. l \in Alive /\ Alive' = Alive \ {l}
      BY DEF loopExited, GoesTo, NamesIInv, NDTypeOK, Alive
    <2>2. QED
      BY <2>1, LoopsFinite, FS_RemoveElement
  <1>2. Cardinality(Alive) \in Nat /\ Cardinality(Alive) > 0
    BY <1>1, LoopsFinite, FS_EmptySet
  <1>3. /\ ndAlive \in Nat /\ OneLess \in Nat
        /\ OneLess = (IF ndAlive = 0 THEN 0 ELSE ndAlive - 1)
        /\ OneLess \in 0 .. Cardinality(Kinds)
    BY KindsCount DEF NamesIInv, NDTypeOK, OneLess
  <1>4. /\ ndAlive' = OneLess /\ UNCHANGED <<epoch, closed, conn, cut, watch, met>>
        /\ ndRunning' = FlagAfter(OneLess)
        /\ loop' = [loop EXCEPT ![l] = "gone"]
    BY DEF loopExited, GoesTo
  <1>5. ndRunning' => ndRunning /\ (OneLess = 0 => epoch \in closed)
    BY <1>4 DEF FlagAfter
  <1>6. NDTypeOK'
    BY <1>3, <1>4 DEF FlagAfter, NamesIInv, NDTypeOK
  <1>7. \A m \in Loops : loop'[m] = "serve" => loop[m] = "serve"
    BY <1>4 DEF NamesIInv, NDTypeOK
  <1>8. ASSUME ~met
        PROVE  ndRunning' \/ epoch \in closed \/ Alive' = {}
    <2>1. CASE OneLess = 0
      <3>1. ndAlive = Cardinality(Alive) /\ ndAlive \in Nat
        BY <1>3, <1>8 DEF NamesIInv
      <3>2. Cardinality(Alive') = 0
        BY <1>1, <1>2, <1>3, <2>1, <3>1
      <3>3. IsFiniteSet(Alive')
        BY <1>1, LoopsFinite, FS_Subset
      <3>4. QED
        BY <3>2, <3>3, FS_EmptySet
    <2>2. CASE OneLess # 0
      BY <1>1, <1>4, <1>8, <2>2 DEF NamesIInv, FlagAfter
    <2>3. QED
      BY <2>1, <2>2
  <1>9. QED
    BY <1>1, <1>2, <1>3, <1>4, <1>5, <1>6, <1>7, <1>8 DEF NamesIInv

LEMMA NamesStep == NamesIInv /\ [NDNext]_ndvars => NamesIInv'
  <1> SUFFICES ASSUME NamesIInv, [NDNext]_ndvars PROVE NamesIInv'
    OBVIOUS
  <1>1. CASE StartNameDiscovery
    BY <1>1, NamesStart
  <1>2. CASE StopNameDiscovery
    BY <1>2, NamesStop
  <1>3. ASSUME NEW l \in Loops, LoopStep(l) PROVE NamesIInv'
    BY <1>3, NamesLoop, NamesExit DEF LoopStep
  <1>4. CASE UNCHANGED ndvars
    BY <1>4 DEF ndvars, NamesIInv, NDTypeOK, Alive
  <1>5. QED
    BY <1>1, <1>2, <1>3, <1>4 DEF NDNext

-----------------------------------------------------------------------------
(* The server.                                                             *)
Last == Cardinality(Started)

LifeIInv ==
  /\ TypeOK
  /\ Last \in 0 .. MaxRuns /\ Started = 1 .. Last
  /\ caller = "run" => Last < MaxRuns
  /\ httpServer \in Started \cup {0}
  /\ Reachable
  \* Only the last run has yet to listen, and Start waits for it.
  /\ \A g \in Runs :
       /\ server[g] \in {"reset", "made"} => caller = "wait" /\ g = Last
       /\ server[g] = "made" => httpServer = g
  /\ caller = "wait" => Last > 0 /\ Listening \subseteq {Last}
  \* A new server begins only when no other listens.
  /\ caller \in {"rebooting", "configure", "run", "stopping"} => ~IsPortOpen
  /\ caller = "idle" /\ ~running => ~IsPortOpen
  \* Its monitor is there before it listens, and not due yet.
  /\ caller \in {"run", "wait"} => monitor /\ ~quiet
  /\ Watched
-----------------------------------------------------------------------------
LEMMA NamesMean == NamesIInv => NamesInv
  <1> SUFFICES ASSUME NamesIInv PROVE NamesInv
    OBVIOUS
  <1>1. NeverMute
    BY LoopsFinite, FS_EmptySet DEF NamesIInv, NDTypeOK, NeverMute
  <1>2. FlagTells
    <2> SUFFICES ASSUME ~met, NEW l \in Loops, loop[l] = "serve", watch[l] \notin closed
                 PROVE  ndRunning
      BY DEF FlagTells
    <2>1. l \in Alive /\ watch[l] = epoch
      BY DEF NamesIInv, Alive
    <2>2. QED
      BY <2>1 DEF NamesIInv
  <1>3. QED
    BY <1>1, <1>2 DEF NamesIInv, NamesInv

(* The discovery by itself, whoever calls start and stop: it is never mute *)
(* for ever, and a stop reaches what advertises if no start met a loop of  *)
(* an earlier one.                                                         *)
THEOREM NamesCorrect == NDSpec => []NamesInv
  BY NamesFirst, NamesStep, NamesMean, PTL DEF NDSpec

(* Every step of the server is one of the discovery or leaves it alone.    *)
LEMMA LifeNames == Next => [NDNext]_ndvars
  BY DEF Next, Background, Start, StartShutdown, StartShutdownEnds, configure, Run, RunMakes, RunListens,
         StartReturns, Stop, StopShutdown, StopReturns, Tick, handleServerStop, ShutdownCloses,
         ShutdownEnds, TouchActivity, GoesQuiet, Names, NDNext

(* The same with the server that calls them.                               *)
THEOREM NamesOfServerCorrect == Spec => []NamesInv
  <1>1. Init => NamesIInv
    BY NamesFirst DEF Init
  <1>2. NamesIInv /\ [Next]_vars => NamesIInv'
    BY LifeNames, NamesStep DEF vars
  <1>3. QED
    BY <1>1, <1>2, NamesMean, PTL DEF Spec

-----------------------------------------------------------------------------
LEMMA ServerType == TypeOK => /\ server \in [Runs -> {"none", "reset", "made", "listening", "closed"}]
                              /\ MaxRuns \in Nat /\ MaxTasks \in Nat
                              /\ begun \in Nat /\ draining \in Nat
  BY ServerLifeAssumption DEF TypeOK

LEMMA LifeFirst == Init => LifeIInv
  <1> SUFFICES ASSUME Init PROVE LifeIInv
    OBVIOUS
  <1>1. Started = {} /\ Last = 0 /\ Listening = {}
    BY FS_EmptySet DEF Init, Started, Last, Listening
  <1>2. TypeOK
    <2>1. server \in [Runs -> {"none", "reset", "made", "listening", "closed"}]
      BY DEF Init
    <2>2. 0 \in 0 .. MaxRuns /\ 0 \in 0 .. MaxTasks
      BY ServerLifeAssumption
    <2>3. QED
      BY <2>1, <2>2 DEF Init, TypeOK
  <1>3. QED
    BY <1>1, <1>2, ServerLifeAssumption DEF Init, LifeIInv, IsPortOpen, Reachable, Watched, Runs

(* Shutdown: whatever listened is closed, and no run begins.               *)
LEMMA Closes ==
  ASSUME LifeIInv, CloseServer
  PROVE  /\ server' \in [Runs -> {"none", "reset", "made", "listening", "closed"}]
         /\ Listening' = {} /\ Started' = Started /\ Last' = Last
         /\ \A g \in Runs : server'[g] \in {"reset", "made"} => server'[g] = server[g]
  <1>1. server' \in [Runs -> {"none", "reset", "made", "listening", "closed"}]
    BY DEF CloseServer, LifeIInv, TypeOK
  <1>2. Listening' = {}
    BY DEF CloseServer, LifeIInv, Reachable, Listening
  <1>3. Started' = Started
    <2>1. httpServer = 0 \/ httpServer \in Started
      BY DEF LifeIInv
    <2>2. 0 \notin Runs
      BY DEF Runs
    <2>3. \A g \in Runs : server'[g] # "none" <=> server[g] # "none"
      BY <2>1, <2>2 DEF CloseServer, Started
    <2>4. QED
      BY <2>3 DEF Started
  <1>4. QED
    BY <1>1, <1>2, <1>3 DEF CloseServer, Last

(* The steps that leave the servers alone.                                 *)
LEMMA LifeCalls ==
  ASSUME LifeIInv,
         \/ Start \/ StartShutdownEnds \/ configure \/ StartReturns \/ Stop \/ StopReturns
         \/ Tick \/ handleServerStop \/ ShutdownEnds \/ TouchActivity \/ GoesQuiet
  PROVE  LifeIInv'
  <1>1. UNCHANGED <<httpServer, server>>
    BY DEF Start, StartShutdownEnds, configure, StartReturns, Stop, StopReturns,
           Tick, handleServerStop, ShutdownEnds, TouchActivity, GoesQuiet
  <1>2. Started' = Started /\ Last' = Last /\ Listening' = Listening /\ IsPortOpen' = IsPortOpen
    BY <1>1 DEF Started, Last, Listening, IsPortOpen
  <1> USE <1>1, <1>2, ServerType DEF LifeIInv, Reachable, Watched
  <1>3. CASE Start
    BY <1>3 DEF Start, Reboot, TypeOK
  <1>4. CASE StartShutdownEnds
    BY <1>4 DEF StartShutdownEnds, TypeOK
  <1>5. CASE configure
    BY <1>5 DEF configure, TypeOK, RestartIdleMonitor, Last
  <1>6. CASE StartReturns
    BY <1>6 DEF StartReturns, TypeOK, IsPortOpen, Listening, Last
  <1>7. CASE Stop
    BY <1>7 DEF Stop, TypeOK, StopIdleMonitor
  <1>8. CASE StopReturns
    BY <1>8 DEF StopReturns, TypeOK
  <1>9. CASE Tick
    <2>1. /\ begun' = begun + 1 /\ begun < MaxTasks /\ monitor' = FALSE /\ quiet
          /\ UNCHANGED <<caller, running, stopClosed, draining, quiet>>
      BY <1>9 DEF Tick, Due
    <2>2. begun' \in 0 .. MaxTasks
      BY <2>1
    <2>3. TypeOK'
      BY <2>1, <2>2 DEF TypeOK
    <2>4. QED
      BY <2>1, <2>3
  <1>10. CASE handleServerStop
    <2>1. /\ begun' = begun + 1 /\ begun < MaxTasks /\ quiet' = FALSE
          /\ UNCHANGED <<caller, running, stopClosed, monitor, draining>>
      BY <1>10 DEF handleServerStop
    <2>2. begun' \in 0 .. MaxTasks
      BY <2>1
    <2>3. TypeOK'
      BY <2>1, <2>2 DEF TypeOK
    <2>4. QED
      BY <2>1, <2>3
  <1>11. CASE ShutdownEnds
    BY <1>11 DEF ShutdownEnds, TypeOK
  <1>12. CASE TouchActivity \/ GoesQuiet
    BY <1>12 DEF TouchActivity, GoesQuiet, TypeOK
  <1>13. QED
    BY <1>3, <1>4, <1>5, <1>6, <1>7, <1>8, <1>9, <1>10, <1>11, <1>12

(* Shutdown, by whom ever: the server it closes may have yet to listen.    *)
LEMMA LifeShutdowns ==
  ASSUME LifeIInv, StartShutdown \/ StopShutdown \/ ShutdownCloses
  PROVE  LifeIInv'
  <1>1. CloseServer /\ UNCHANGED <<httpServer, running, monitor, quiet, stopClosed>>
    BY DEF StartShutdown, StopShutdown, ShutdownCloses
  <1>2. /\ server' \in [Runs -> {"none", "reset", "made", "listening", "closed"}]
        /\ Listening' = {} /\ Started' = Started /\ Last' = Last /\ ~IsPortOpen'
        /\ \A g \in Runs : server'[g] \in {"reset", "made"} => server'[g] = server[g]
    BY <1>1, Closes DEF IsPortOpen
  <1> USE <1>1, <1>2, ServerType DEF LifeIInv, Reachable, Watched
  <1>3. CASE StartShutdown
    BY <1>3 DEF StartShutdown, TypeOK
  <1>4. CASE StopShutdown
    BY <1>4 DEF StopShutdown, TypeOK
  <1>5. CASE ShutdownCloses
    BY <1>5 DEF ShutdownCloses, TypeOK
  <1>6. QED
    BY <1>3, <1>4, <1>5

LEMMA LifeRun == LifeIInv /\ Run => LifeIInv'
  <1> SUFFICES ASSUME LifeIInv, Run PROVE LifeIInv'
    OBVIOUS
  <1> DEFINE g == Last + 1
  <1>1. /\ g \in Runs /\ g \notin Started /\ server' = [server EXCEPT ![g] = "reset"]
        /\ caller = "run" /\ caller' = "wait" /\ stopClosed' = FALSE
        /\ UNCHANGED <<running, httpServer, monitor, begun, draining, quiet>>
    BY ServerLifeAssumption DEF Run, LifeIInv, Last, Runs
  <1>2. Started' = 1 .. g
    BY <1>1 DEF LifeIInv, TypeOK, Started
  <1>3. Last' = g
    BY <1>2, FS_Interval DEF LifeIInv, Last
  <1>4. Listening' = Listening /\ Listening = {}
    BY <1>1 DEF LifeIInv, TypeOK, Listening, IsPortOpen, Started
  <1>5. TypeOK'
    BY <1>1 DEF LifeIInv, TypeOK
  <1> HIDE DEF g
  <1>6. QED
    BY <1>1, <1>2, <1>3, <1>4, <1>5, ServerLifeAssumption
      DEF LifeIInv, TypeOK, IsPortOpen, Reachable, Watched, Runs

LEMMA LifeMakes == ASSUME LifeIInv, NEW g \in Runs, RunMakes(g) PROVE LifeIInv'
  <1>1. /\ server[g] = "reset" /\ g = Last /\ caller = "wait"
        /\ server' = [server EXCEPT ![g] = "made"] /\ httpServer' = g
        /\ UNCHANGED <<caller, running, stopClosed, monitor, begun, draining, quiet>>
    BY DEF LifeIInv, RunMakes
  <1>2. Started' = Started /\ Last' = Last /\ g \in Started
    BY <1>1 DEF LifeIInv, TypeOK, Started, Last
  <1>3. Listening' = {} /\ Listening = {}
    BY <1>1 DEF LifeIInv, TypeOK, Listening
  <1>4. TypeOK'
    BY <1>1 DEF LifeIInv, TypeOK, Runs
  <1>5. QED
    BY <1>1, <1>2, <1>3, <1>4 DEF LifeIInv, TypeOK, IsPortOpen, Reachable, Watched

LEMMA LifeListens == ASSUME LifeIInv, NEW g \in Runs, RunListens(g) PROVE LifeIInv'
  <1>1. /\ server[g] = "made" /\ g = Last /\ caller = "wait" /\ httpServer = g
        /\ UNCHANGED <<caller, running, httpServer, stopClosed, monitor, begun, draining, quiet>>
    BY DEF LifeIInv, RunListens
  <1>2. Listening = {}
    BY <1>1 DEF LifeIInv, TypeOK, Listening
  <1>3. server' = [server EXCEPT ![g] = "listening"]
    BY <1>2 DEF RunListens, IsPortOpen
  <1>4. Started' = Started /\ Last' = Last /\ Listening' = {g}
    BY <1>1, <1>2, <1>3 DEF LifeIInv, TypeOK, Started, Last, Listening
  <1>5. TypeOK'
    BY <1>1, <1>3 DEF LifeIInv, TypeOK
  <1>6. QED
    BY <1>1, <1>3, <1>4, <1>5 DEF LifeIInv, TypeOK, IsPortOpen, Reachable, Watched

LEMMA LifeStep == LifeIInv /\ [Next]_vars => LifeIInv'
  <1> SUFFICES ASSUME LifeIInv, [Next]_vars PROVE LifeIInv'
    OBVIOUS
  <1>1. CASE UNCHANGED lifevars
    BY <1>1 DEF lifevars, LifeIInv, TypeOK, Started, Last, Listening, IsPortOpen, Reachable, Watched
  <1>2. CASE Background
    BY <1>2, LifeCalls, LifeShutdowns, LifeRun, LifeMakes, LifeListens DEF Background
  <1>3. CASE Start \/ Stop \/ Tick \/ handleServerStop \/ ShutdownEnds \/ TouchActivity \/ GoesQuiet
    BY <1>3, LifeCalls
  <1>4. CASE ShutdownCloses
    BY <1>4, LifeShutdowns
  <1>5. QED
    BY <1>1, <1>2, <1>3, <1>4 DEF Next, Names, vars

(* What listens is what Shutdown would close, and while a server listens   *)
(* there is a monitor or something on its way that closes it.              *)
THEOREM ServerCorrect == Spec => []ServerInv
  <1>1. LifeIInv => ServerInv
    BY DEF LifeIInv, ServerInv
  <1>2. QED
    BY <1>1, LifeFirst, LifeStep, PTL DEF Spec
=============================================================================
