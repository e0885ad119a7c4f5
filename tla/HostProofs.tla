----------------------------- MODULE HostProofs -----------------------------
(***************************************************************************)
(* The hosts, for every number of them and of exits and failures: the      *)
(* circuit breaker and the end of HostSupervisorBase, the names under      *)
(* which the face host publishes (ModuleHost), and the removal of modules  *)
(* from the disk (ModuleSync).                                             *)
(***************************************************************************)
EXTENDS MCHosts, Sequences, FiniteSetTheorems, TLAPS

\* What makes BreakerHolds inductive: the counter is at the threshold exactly
\* while halted_ is set, so the monitor never counts beyond it.
BreakerInv ==
  /\ TypeOK
  /\ halted <=> fastExits = Threshold
  /\ halted => mon \in {"top", "done"}

USE HostsAssumption, ThresholdAssumption, BoundsAssumption

\* A closed breaker with a cleared counter is consistent.
LEMMA Closed == 0 # Threshold /\ 0 \in 0..Threshold
OBVIOUS

\* The initial states satisfy the inductive invariant.
LEMMA InitBreaker == Init => BreakerInv
<1> SUFFICES ASSUME Init PROVE BreakerInv
  OBVIOUS
<1>1. proc \in [Hosts -> ProcState] BY DEF Init, ProcState
<1>2. halted = FALSE /\ fastExits = 0 BY DEF Init
<1>3. backoff \in 0..BackoffCap BY DEF Init, BackoffCap
<1>4. TypeOK BY <1>1, <1>3, Closed DEF Init, TypeOK, ExitCode, MainPc, MonPc, RstPc
<1> QED BY <1>2, <1>4, Closed DEF BreakerInv

\* Kill() keeps the types and leaves the breaker alone.
LEMMA KillType ==
  ASSUME TypeOK, Kill
  PROVE  /\ proc' \in [Hosts -> ProcState] /\ code' \in [Hosts -> ExitCode]
         /\ aged' \in [Hosts -> BOOLEAN] /\ configured' \in [Hosts -> BOOLEAN]
         /\ handle' \in Hosts \cup {NoHandle}
         /\ attached' \in BOOLEAN /\ running' \in BOOLEAN
         /\ UNCHANGED <<halted, fastExits>>
BY DEF TypeOK, Kill, ProcState, osVars, lockVars

\* Every outcome of Spawn() keeps the types and leaves the breaker alone.
LEMMA SpawnType ==
  ASSUME TypeOK,
         \/ SpawnSkips \/ SpawnAttaches \/ SpawnFails
         \/ \E h \in Hosts : SpawnCreates(h)
  PROVE  /\ proc' \in [Hosts -> ProcState] /\ code' \in [Hosts -> ExitCode]
         /\ aged' \in [Hosts -> BOOLEAN] /\ configured' \in [Hosts -> BOOLEAN]
         /\ handle' \in Hosts \cup {NoHandle}
         /\ attached' \in BOOLEAN /\ running' \in BOOLEAN
         /\ spawnFails' \in Nat /\ flaps' \in Nat
         /\ UNCHANGED <<halted, fastExits>>
<1>1. CASE SpawnSkips
  BY <1>1 DEF TypeOK, SpawnSkips, osVars, lockVars
<1>2. CASE SpawnAttaches
  BY <1>2 DEF TypeOK, SpawnAttaches, ProbeHits, osVars
<1>3. CASE SpawnFails
  BY <1>3 DEF TypeOK, SpawnFails, ProbeMisses, osVars, lockVars
<1>4. CASE \E h \in Hosts : SpawnCreates(h)
  <2> PICK h \in Hosts : SpawnCreates(h) BY <1>4
  <2>1. /\ proc' \in [Hosts -> ProcState] /\ code' \in [Hosts -> ExitCode]
        /\ aged' \in [Hosts -> BOOLEAN] /\ configured' \in [Hosts -> BOOLEAN]
    BY DEF TypeOK, SpawnCreates, ProcState, ExitCode
  <2>2. flaps' \in Nat BY DEF TypeOK, SpawnCreates, ProbeMisses
  <2> QED BY <2>1, <2>2 DEF TypeOK, SpawnCreates
<1> QED BY <1>1, <1>2, <1>3, <1>4

\* OnHostReady keeps the types of the two variables it writes.
LEMMA ReadyType ==
  ASSUME TypeOK, OnHostReady
  PROVE  configured' \in [Hosts -> BOOLEAN] /\ sent' \in BOOLEAN
BY DEF TypeOK, OnHostReady

\* No step of the host process disturbs the breaker.
LEMMA HostBreaker == BreakerInv /\ HostNext => BreakerInv'
<1> SUFFICES ASSUME BreakerInv, NEW h \in Hosts,
                    HostLock(h) \/ HostServe(h) \/ HostAges(h) \/ HostCrash(h)
             PROVE  BreakerInv'
  BY DEF HostNext
<1> USE DEF BreakerInv, TypeOK, lockVars, monVars, boundVars, ProcState, ExitCode
<1>1. CASE HostLock(h) BY <1>1 DEF HostLock
<1>2. CASE HostServe(h) BY <1>2 DEF HostServe
<1>3. CASE HostAges(h) BY <1>3 DEF HostAges
<1>4. CASE HostCrash(h) BY <1>4 DEF HostCrash
<1> QED BY <1>1, <1>2, <1>3, <1>4

\* Nor does a step of the owning thread; Start() and Stop() close the breaker.
LEMMA MainBreaker == BreakerInv /\ MainNext => BreakerInv'
<1> SUFFICES ASSUME BreakerInv, MainNext PROVE BreakerInv'
  OBVIOUS
<1>0. TypeOK BY DEF BreakerInv
<1> USE DEF BreakerInv, TypeOK, lockVars, monVars, boundVars, osVars
<1>1. CASE CleanupStaleHostIfWedged
  BY <1>1 DEF CleanupStaleHostIfWedged, ProcState, MainPc
<1>2. CASE StartResets
  <2>1. halted' = FALSE /\ fastExits' = 0 BY <1>2 DEF StartResets
  <2>2. TypeOK' BY <1>2, Closed DEF StartResets, MainPc
  <2> QED BY <2>1, <2>2, Closed
<1>3. CASE StartSpawns
  <2>1. main' \in MainPc /\ mon' \in MonPc /\ mon' \in {mon, "top"}
    BY <1>3 DEF StartSpawns, MainPc, MonPc
  <2> QED BY <1>0, <1>3, <2>1, SpawnType DEF StartSpawns
<1>4. CASE StartStartsMonitor
  BY <1>0, <1>4, ReadyType DEF StartStartsMonitor, MainPc, MonPc
<1>5. CASE StopRequests BY <1>5 DEF StopRequests, MainPc
<1>6. CASE StopKills BY <1>0, <1>6, KillType DEF StopKills, MainPc
<1>7. CASE StopJoins
  <2>1. halted' = FALSE /\ fastExits' = 0 BY <1>7 DEF StopJoins
  <2>2. TypeOK' BY <1>7, Closed DEF StopJoins, MainPc
  <2> QED BY <2>1, <2>2, Closed
<1>8. CASE Destroy BY <1>0, <1>8, KillType DEF Destroy, MainPc
<1> QED BY <1>1, <1>2, <1>3, <1>4, <1>5, <1>6, <1>7, <1>8 DEF MainNext

\* Restart() closes the breaker in one step and does not reopen it.
LEMMA RestartBreaker ==
  BreakerInv /\ (\E r \in Restarters : RestartNext(r)) => BreakerInv'
<1> SUFFICES ASSUME BreakerInv, NEW r \in Restarters, RestartNext(r)
             PROVE  BreakerInv'
  OBVIOUS
<1>0. TypeOK BY DEF BreakerInv
<1> USE DEF BreakerInv, TypeOK, lockVars, monVars, boundVars, osVars, RstPc
<1>1. CASE RestartResets(r)
  <2>1. halted' = FALSE /\ fastExits' = 0 BY <1>1 DEF RestartResets
  <2>2. rst' \in [Restarters -> RstPc] /\ restarts' \in Nat
    BY <1>1 DEF RestartResets
  <2>3. TypeOK' BY <1>1, <2>1, <2>2, Closed DEF RestartResets
  <2> QED BY <2>1, <2>3, Closed
<1>2. CASE RestartHostExited(r) BY <1>2 DEF RestartHostExited, OnHostExited
<1>3. CASE RestartKills(r) BY <1>0, <1>3, KillType DEF RestartKills
<1>4. CASE RestartChecksStop(r) BY <1>4 DEF RestartChecksStop
<1>5. CASE RestartSpawns(r)
  <2>1. rst' \in [Restarters -> RstPc] BY <1>5 DEF RestartSpawns
  <2> QED BY <1>0, <1>5, <2>1, SpawnType DEF RestartSpawns
<1>6. CASE RestartHook(r) BY <1>0, <1>6, ReadyType DEF RestartHook
<1> QED BY <1>1, <1>2, <1>3, <1>4, <1>5, <1>6 DEF RestartNext

\* The monitor opens the breaker at the threshold and nowhere else.
LEMMA MonBreaker == BreakerInv /\ MonNext => BreakerInv'
<1> SUFFICES ASSUME BreakerInv, MonNext PROVE BreakerInv'
  OBVIOUS
<1>0. TypeOK BY DEF BreakerInv
<1> USE DEF BreakerInv, TypeOK, lockVars, boundVars, osVars, MonPc
<1>1. CASE MonTop BY <1>1 DEF MonTop
<1>2. CASE MonProbe
  <2>1. flaps' \in Nat BY <1>2 DEF MonProbe, ProbeHits, ProbeMisses
  <2>2. configured' \in [Hosts -> BOOLEAN] /\ sent' \in BOOLEAN
    BY <1>0, <1>2, ReadyType DEF MonProbe
  <2>3. mon = "probe" /\ mon' \in {"top", "detach"} /\ running' \in BOOLEAN
    BY <1>2 DEF MonProbe
  <2>4. UNCHANGED <<proc, code, aged, lockVars, stopReq, main, cur, exitSeen,
                    backoff, rst, crashes, restarts, spawnFails>>
    BY <1>2 DEF MonProbe
  <2> QED BY <2>1, <2>2, <2>3, <2>4
<1>3. CASE MonDetach BY <1>3 DEF MonDetach, OnHostExited
<1>4. CASE MonReady BY <1>0, <1>4, ReadyType DEF MonReady
<1>5. CASE MonWait BY <1>5 DEF MonWait
<1>6. CASE MonReap BY <1>6 DEF MonReap, ExitCode
<1>7. CASE MonExited BY <1>7 DEF MonExited, OnHostExited
<1>8. CASE MonCount
  <2>1. CASE IsCleanSingletonExit(exitSeen)
    BY <1>8, <2>1 DEF MonCount, ExitCode
  <2>2. CASE ~IsCleanSingletonExit(exitSeen)
    <3>1. ~halted /\ fastExits \in 0..Threshold /\ fastExits # Threshold
      BY <1>8 DEF MonCount
    <3>2. PICK fast \in UptimeVerdicts :
            /\ fastExits' = IF fast THEN fastExits + 1 ELSE 0
            /\ halted' = (halted \/ fastExits' >= Threshold)
            /\ mon' = IF fastExits' >= Threshold THEN "top" ELSE "delay"
      BY <1>8, <2>2 DEF MonCount
    <3>3. fastExits' \in 0..Threshold BY <3>1, <3>2
    <3>5. fastExits' >= Threshold <=> fastExits' = Threshold
      BY <3>3
    <3>6. (halted' <=> fastExits' = Threshold) /\ halted' \in BOOLEAN
      BY <3>1, <3>2, <3>5, Zenon
    <3>7. halted' => mon' = "top"
      BY <3>1, <3>2, <3>5, Zenon
    <3> QED BY <1>8, <3>2, <3>3, <3>6, <3>7 DEF MonCount, ExitCode
  <2> QED BY <2>1, <2>2
<1>9. CASE MonDelayEnds BY <1>9 DEF MonDelayEnds
<1>10. CASE MonSpawns
  <2>1. /\ mon = "spawn" /\ mon' \in {"top", "hook"} /\ backoff' \in 0..BackoffCap
        /\ \/ SpawnSkips \/ SpawnAttaches \/ SpawnFails
           \/ \E h \in Hosts : SpawnCreates(h)
        /\ UNCHANGED <<stopReq, sent, main, cur, exitSeen, rst,
                       crashes, restarts>>
    BY <1>10 DEF MonSpawns, BreakerInv, TypeOK, BackoffCap
  <2> QED BY <1>0, <2>1, SpawnType
<1>11. CASE MonHook BY <1>0, <1>11, ReadyType DEF MonHook
<1> QED BY <1>1, <1>2, <1>3, <1>4, <1>5, <1>6, <1>7, <1>8, <1>9, <1>10, <1>11
        DEF MonNext

\* Every step preserves the inductive invariant.
LEMMA NextBreaker == BreakerInv /\ [Next]_vars => BreakerInv'
<1> SUFFICES ASSUME BreakerInv, [Next]_vars PROVE BreakerInv'
  OBVIOUS
<1>1. CASE UNCHANGED vars
  BY <1>1 DEF BreakerInv, TypeOK, vars, osVars, lockVars, monVars, boundVars
<1>2. CASE Idle BY <1>1, <1>2 DEF Idle
<1> QED BY <1>1, <1>2, HostBreaker, MainBreaker, RestartBreaker, MonBreaker
        DEF Next

\* Every variable of the supervisor keeps its type; the counter never passes
\* kCircuitBreakerThreshold.
THEOREM TypeCorrect == Spec => []TypeOK
<1>1. BreakerInv => TypeOK BY DEF BreakerInv
<1> QED BY <1>1, InitBreaker, NextBreaker, PTL DEF Spec

\* The circuit breaker is consistent whatever the threads do.
THEOREM BreakerCorrect == Spec => []BreakerHolds
<1>1. BreakerInv => BreakerHolds BY DEF BreakerInv, BreakerHolds, TypeOK
<1> QED BY <1>1, InitBreaker, NextBreaker, PTL DEF Spec

\* No respawn by the monitor while the breaker is open.
THEOREM HaltedMeansNoRespawn == Spec => NoRespawnWhileHalted
<1>1. BreakerInv /\ [Next]_vars => [halted => ~MonSpawns]_vars
  BY DEF BreakerInv, MonSpawns
<1> QED BY <1>1, InitBreaker, NextBreaker, PTL DEF Spec, NoRespawnWhileHalted

\* What Stop() and the destructor rest on, as long as Restart() was never called:
\* every host this supervisor created is the one behind process_handle_, an
\* attached supervisor holds no live host, and the monitor's copy of the handle is
\* either still current or closed. The second Kill() of the destructor is needed
\* because the monitor may pass its check of the stop flag before Stop() sets it.
OwnedInv ==
  restarts = 0 =>
    /\ \A r \in Restarters : rst[r] = "idle"
    /\ \A h \in Hosts \ {Leftover} : Alive(h) => h = handle
    /\ attached /\ handle \in Hosts => ~Alive(handle)
    /\ mon \in {"ready", "wait", "reap"} => cur \in Hosts /\ handle \in {cur, NoHandle}
    /\ mon = "reap" => ~Alive(cur)
    /\ main \in {"cleanup", "start", "spawn", "hook"} => mon = "off"
    /\ main \in {"stopped", "destroyed"} => mon \in {"off", "done"}
    /\ main = "destroyed" => handle = NoHandle

\* The initial states: only a host of an earlier session may be alive.
LEMMA InitOwned == Init => OwnedInv
<1> SUFFICES ASSUME Init PROVE OwnedInv
  OBVIOUS
<1>1. \A h \in Hosts \ {Leftover} : proc[h] = "none" BY DEF Init
<1> QED BY <1>1 DEF Init, OwnedInv, Alive

\* Kill() leaves no host of the supervisor's own and drops the handle.
LEMMA KillOwned ==
  ASSUME TypeOK, OwnedInv, restarts = 0, Kill
  PROVE  /\ handle' = NoHandle
         /\ \A h \in Hosts \ {Leftover} : ~Alive(h)'
         /\ \A h \in Hosts : Alive(h)' => Alive(h)
<1>1. CASE handle = NoHandle
  BY <1>1 DEF Kill, OwnedInv, Alive, osVars, lockVars
<1>2. CASE handle \in Hosts /\ ~attached /\ Alive(handle)
  BY <1>2 DEF Kill, OwnedInv, Alive, TypeOK
<1>3. CASE handle \in Hosts /\ ~(~attached /\ Alive(handle))
  <2>1. proc' = proc /\ handle' = NoHandle BY <1>3 DEF Kill
  <2> QED BY <1>3, <2>1 DEF OwnedInv, Alive, TypeOK
<1> QED BY <1>1, <1>2, <1>3 DEF TypeOK

\* Spawn() creates a host only when it tracks none, and tracks the new one.
LEMMA SpawnOwned ==
  ASSUME TypeOK, OwnedInv, restarts = 0,
         \/ SpawnSkips \/ SpawnAttaches \/ SpawnFails
         \/ \E h \in Hosts : SpawnCreates(h)
  PROVE  /\ \A h \in Hosts \ {Leftover} : Alive(h)' => h = handle'
         /\ attached' /\ handle' \in Hosts => ~Alive(handle)'
<1>1. CASE SpawnSkips
  BY <1>1 DEF SpawnSkips, OwnedInv, Alive, osVars, lockVars
<1>2. CASE SpawnAttaches
  BY <1>2 DEF SpawnAttaches, OwnedInv, Alive, Tracked, osVars
<1>3. CASE SpawnFails
  BY <1>3 DEF SpawnFails, OwnedInv, Alive, osVars, lockVars
<1>4. CASE \E h \in Hosts : SpawnCreates(h)
  <2> PICK h \in Hosts : SpawnCreates(h) BY <1>4
  <2>1. handle' = h /\ attached' = FALSE
    BY DEF SpawnCreates
  <2>2. \A k \in Hosts \ {Leftover} : ~Alive(k)
    BY DEF SpawnCreates, Tracked, OwnedInv
  <2>3. \A k \in Hosts \ {h} : proc'[k] = proc[k]
    BY DEF SpawnCreates, TypeOK
  <2> QED BY <2>1, <2>2, <2>3 DEF Alive
<1> QED BY <1>1, <1>2, <1>3, <1>4

\* A host never revives by itself.
LEMMA HostOwned == TypeOK /\ OwnedInv /\ HostNext => OwnedInv'
<1> SUFFICES ASSUME TypeOK, OwnedInv, NEW h \in Hosts, restarts' = 0,
                    HostLock(h) \/ HostServe(h) \/ HostAges(h) \/ HostCrash(h)
             PROVE  OwnedInv'
  BY DEF HostNext, OwnedInv
<1>1. \A k \in Hosts : Alive(k)' => Alive(k)
  BY DEF HostLock, HostServe, HostAges, HostCrash, Alive, TypeOK
<1>2. UNCHANGED <<handle, attached, mon, cur, main, rst, restarts>>
  BY DEF HostLock, HostServe, HostAges, HostCrash, lockVars, monVars, boundVars
<1> QED BY <1>1, <1>2 DEF OwnedInv, TypeOK

\* The owning thread: Stop() kills what is tracked, and the destructor kills what
\* the monitor created meanwhile.
LEMMA MainOwned == TypeOK /\ OwnedInv /\ MainNext => OwnedInv'
<1> SUFFICES ASSUME TypeOK, OwnedInv, MainNext, restarts' = 0 PROVE OwnedInv'
  BY DEF OwnedInv
<1>0. restarts = 0
  BY DEF MainNext, CleanupStaleHostIfWedged, StartResets, StartSpawns,
         StartStartsMonitor, StopRequests, StopKills, StopJoins, Destroy, boundVars
<1> USE <1>0 DEF lockVars, monVars, boundVars, osVars
<1>1. CASE CleanupStaleHostIfWedged
  <2>1. \A k \in Hosts : Alive(k)' => Alive(k)
    BY <1>1 DEF CleanupStaleHostIfWedged, Alive
  <2> QED BY <1>1, <2>1 DEF CleanupStaleHostIfWedged, OwnedInv, TypeOK
<1>2. CASE StartResets BY <1>2 DEF StartResets, OwnedInv, Alive
<1>3. CASE StartSpawns
  <2>1. mon = "off" /\ mon' \in {"off", "top"} /\ main' \in {"up", "hook", "unmonitored"}
        /\ (main' = "hook" => mon' = "off") /\ rst' = rst
    BY <1>3 DEF StartSpawns, OwnedInv
  <2>2. \/ SpawnSkips \/ SpawnAttaches \/ SpawnFails
        \/ \E h \in Hosts : SpawnCreates(h)
    BY <1>3 DEF StartSpawns
  <2> QED BY <2>1, <2>2, SpawnOwned DEF OwnedInv
<1>4. CASE StartStartsMonitor
  BY <1>4 DEF StartStartsMonitor, OwnedInv, Alive
<1>5. CASE StopRequests BY <1>5 DEF StopRequests, OwnedInv, Alive
<1>6. CASE StopKills
  <2>1. Kill /\ main' = "join" /\ UNCHANGED <<mon, cur, rst>>
    BY <1>6 DEF StopKills
  <2> QED BY <2>1, KillOwned DEF OwnedInv
<1>7. CASE StopJoins BY <1>7 DEF StopJoins, OwnedInv, Alive
<1>8. CASE Destroy
  <2>1. Kill /\ main' = "destroyed" /\ main = "stopped" /\ UNCHANGED <<mon, cur, rst>>
    BY <1>8 DEF Destroy
  <2> QED BY <2>1, KillOwned DEF OwnedInv
<1> QED BY <1>1, <1>2, <1>3, <1>4, <1>5, <1>6, <1>7, <1>8 DEF MainNext

\* Without a first RestartResets no thread is inside Restart().
LEMMA RestartOwned ==
  TypeOK /\ OwnedInv /\ (\E r \in Restarters : RestartNext(r)) => OwnedInv'
<1> SUFFICES ASSUME TypeOK, OwnedInv, NEW r \in Restarters, RestartNext(r),
                    restarts' = 0
             PROVE  FALSE
  BY DEF OwnedInv
<1>1. CASE RestartResets(r) BY <1>1 DEF RestartResets, TypeOK
<1>2. CASE ~RestartResets(r)
  <2>1. restarts = 0 /\ rst[r] # "idle"
    BY <1>2 DEF RestartNext, RestartHostExited, RestartKills, RestartChecksStop,
                RestartSpawns, RestartHook, boundVars
  <2> QED BY <2>1 DEF OwnedInv
<1> QED BY <1>1, <1>2

\* The monitor closes the handle of a dead host only, and spawns through Spawn().
LEMMA MonOwned == TypeOK /\ OwnedInv /\ MonNext => OwnedInv'
<1> SUFFICES ASSUME TypeOK, OwnedInv, MonNext, restarts' = 0 PROVE OwnedInv'
  BY DEF OwnedInv
<1>0. restarts = 0
  BY DEF MonNext, MonTop, MonProbe, MonDetach, MonReady, MonWait, MonReap, MonExited,
         MonCount, MonDelayEnds, MonSpawns, MonHook, boundVars
<1> USE <1>0 DEF lockVars, boundVars, osVars
<1>1. CASE MonTop BY <1>1 DEF MonTop, OwnedInv, Alive, TypeOK
<1>2. CASE MonProbe BY <1>2 DEF MonProbe, OwnedInv, Alive
<1>3. CASE MonDetach BY <1>3 DEF MonDetach, OwnedInv, Alive
<1>4. CASE MonReady BY <1>4 DEF MonReady, OwnedInv, Alive
<1>5. CASE MonWait BY <1>5 DEF MonWait, OwnedInv, Alive
<1>6. CASE MonReap BY <1>6 DEF MonReap, OwnedInv, Alive, TypeOK
<1>7. CASE MonExited BY <1>7 DEF MonExited, OwnedInv, Alive
<1>8. CASE MonCount
  <2>1. mon = "count" /\ mon' \in {"delay", "top"}
        /\ UNCHANGED <<proc, handle, attached, main, rst>>
    BY <1>8 DEF MonCount
  <2> QED BY <2>1 DEF OwnedInv, Alive
<1>9. CASE MonDelayEnds BY <1>9 DEF MonDelayEnds, OwnedInv, Alive
<1>10. CASE MonSpawns
  <2>1. mon = "spawn" /\ mon' \in {"top", "hook"} /\ UNCHANGED <<main, rst, cur>>
    BY <1>10 DEF MonSpawns
  <2>2. \/ SpawnSkips \/ SpawnAttaches \/ SpawnFails
        \/ \E h \in Hosts : SpawnCreates(h)
    BY <1>10 DEF MonSpawns
  <2>3. main \notin {"cleanup", "start", "spawn", "hook", "stopped", "destroyed"}
    BY <2>1 DEF OwnedInv
  <2> QED BY <2>1, <2>2, <2>3, SpawnOwned DEF OwnedInv
<1>11. CASE MonHook BY <1>11 DEF MonHook, OwnedInv, Alive
<1> QED BY <1>1, <1>2, <1>3, <1>4, <1>5, <1>6, <1>7, <1>8, <1>9, <1>10, <1>11
        DEF MonNext

\* Every step keeps the ownership of hosts.
LEMMA NextOwned == TypeOK /\ OwnedInv /\ [Next]_vars => OwnedInv'
<1> SUFFICES ASSUME TypeOK, OwnedInv, [Next]_vars PROVE OwnedInv'
  OBVIOUS
<1>1. CASE UNCHANGED vars
  BY <1>1 DEF OwnedInv, Alive, vars, osVars, lockVars, monVars, boundVars
<1>2. CASE Idle BY <1>1, <1>2 DEF Idle
<1> QED BY <1>1, <1>2, HostOwned, MainOwned, RestartOwned, MonOwned DEF Next

\* Stop() and ~HostSupervisorBase() leave no host of their own behind, whatever the
\* monitor was doing when the stop flag was set, if Restart() is never called.
THEOREM StopLeavesNoHost == Spec => []LeavesNoHost
<1>1. OwnedInv => LeavesNoHost BY DEF OwnedInv, LeavesNoHost
<1> QED BY <1>1, InitOwned, NextOwned, TypeCorrect, PTL DEF Spec

-----------------------------------------------------------------------------
(* The face host and its module process.                                   *)

\* Between two runs the loop has no process.
Unmanned == pc \in {"loop", "chosen", "trip", "spawn", "ended"}

\* The modules whose packets may be on their way: those that were reaped too early, and,
\* while there is a process, the one that it runs.
Senders == leftover \cup (IF Unmanned THEN {} ELSE {mine})

FrameKinds == {"handshake", "supported", "init", "update", "teardown"}
Packets(S) == [kind : FrameKinds, mod : S]

FrameInv ==
  /\ net \in Seq(Packets(Senders))
  /\ Unmanned => child \notin {"boot", "on"}
  /\ ~Unmanned => update \in {None} \cup Senders
  /\ req \in {None} \cup FrameKinds

LEMMA PacketsWiden ==
  ASSUME NEW S, NEW T, S \subseteq T, NEW q \in Seq(Packets(S))
  PROVE  q \in Seq(Packets(T))
<1>1. \A p \in Packets(S) : p \in Packets(T) BY DEF Packets
<1> HIDE DEF Packets
<1> QED BY <1>1

LEMMA InitFrame == Face!Init => FrameInv
BY DEF Face!Init, FrameInv, Unmanned

\* A new host has no process and no packet.
LEMMA FrameForgets == ASSUME Face!Forgets PROVE FrameInv'
BY DEF Face!Forgets, FrameInv, Unmanned

\* Steps that send, take and keep no packet, and keep the run.
LEMMA FrameKeeps ==
  ASSUME FrameInv, UNCHANGED <<net, leftover, update, mine>>,
         Unmanned' <=> Unmanned, child' \in {child, "dead"}, req' \in {None, req} \cup FrameKinds
  PROVE  FrameInv'
<1>1. Senders' = Senders BY DEF Senders
<1> QED BY <1>1 DEF FrameInv

\* The user, the driver, and a host that ends.
LEMMA FrameOutside ==
  FrameInv /\ (Face!User \/ Face!Driver \/ Face!ParentWatchdog \/ Face!FindsNone) => FrameInv'
<1> SUFFICES ASSUME FrameInv,
                    Face!User \/ Face!Driver \/ Face!ParentWatchdog \/ Face!FindsNone
             PROVE  FrameInv'
  OBVIOUS
<1>1. CASE Face!HostKilled \/ Face!HostExits \/ Face!FindsNone
  BY <1>1, FrameForgets DEF Face!HostKilled, Face!HostExits, Face!FindsNone
<1>2. CASE Face!User \/ Face!HostStarts \/ Face!Shutdown \/ Face!ParentWatchdog
  <2>1. UNCHANGED <<net, leftover, update, mine, child, req, pc>>
    BY <1>2 DEF Face!User, Face!Disable, Face!SelectActive, Face!DiskChanges, Face!HostStarts,
       Face!Shutdown, Face!ParentWatchdog, Face!procVars, Face!loopVars
  <2>2. Unmanned' <=> Unmanned BY <2>1 DEF Unmanned
  <2> QED BY <2>1, <2>2, FrameKeeps
<1> QED BY <1>1, <1>2 DEF Face!Driver

\* The loop between two runs: every packet on its way is left over.
LEMMA FrameUnmanned ==
  FrameInv /\ (Face!LoopEnds \/ Face!SeesSelection \/ Face!TakesUp \/ Face!Trips
               \/ Face!SpawnFails \/ Face!Spawn)
    => FrameInv'
<1> SUFFICES ASSUME FrameInv,
                    \/ Face!LoopEnds \/ Face!SeesSelection \/ Face!TakesUp \/ Face!Trips
                    \/ Face!SpawnFails \/ Face!Spawn
             PROVE  FrameInv'
  OBVIOUS
<1>1. Unmanned /\ UNCHANGED <<net, leftover>>
  BY DEF Face!LoopEnds, Face!SeesSelection, Face!TakesUp, Face!Trips, Face!SpawnFails,
     Face!Spawn, Face!procVars, Unmanned
<1>2. net \in Seq(Packets(leftover)) BY <1>1 DEF FrameInv, Senders
<1>3. leftover \subseteq Senders' BY <1>1 DEF Senders
<1>4. net' \in Seq(Packets(Senders')) BY <1>1, <1>2, <1>3, PacketsWiden
<1>5. CASE Face!Spawn
  <2>1. pc' = "handshake" /\ update' = None /\ req' = None
    BY <1>5 DEF Face!Spawn, Face!ResetRun
  <2> QED BY <1>4, <2>1 DEF FrameInv, Unmanned
<1>6. CASE Face!LoopEnds \/ Face!SeesSelection \/ Face!TakesUp \/ Face!Trips \/ Face!SpawnFails
  <2>1. Unmanned' /\ UNCHANGED <<child, req>>
    BY <1>6 DEF Face!LoopEnds, Face!SeesSelection, Face!TakesUp, Face!Trips, Face!SpawnFails,
       Face!procVars, Unmanned
  <2> QED BY <1>1, <1>4, <2>1 DEF FrameInv
<1> QED BY <1>5, <1>6

\* The loop within a run.
LEMMA FrameRun ==
  FrameInv /\ (Face!Answered \/ Face!GivesUp \/ Face!PullEnds \/ Face!Uninstalled \/ Face!Pulls
               \/ Face!AsksToStop \/ Face!StopsWaiting \/ Face!Dies)
    => FrameInv'
<1> SUFFICES ASSUME FrameInv,
                    \/ Face!Answered \/ Face!GivesUp \/ Face!PullEnds \/ Face!Uninstalled
                    \/ Face!Pulls \/ Face!AsksToStop \/ Face!StopsWaiting \/ Face!Dies
             PROVE  FrameInv'
  OBVIOUS
<1>1. UNCHANGED <<net, leftover, update, mine>> /\ child' \in {child, "dead"}
  BY DEF Face!Answered, Face!GivesUp, Face!PullEnds, Face!Uninstalled, Face!Pulls,
     Face!AsksToStop, Face!StopsWaiting, Face!Dies, Face!procVars, Face!loopVars
<1>2. req' \in {None, req} \cup FrameKinds
  <2>1. CASE Face!Answered
    BY <2>1 DEF Face!Answered, Face!Waits, Face!Following, FrameKinds
  <2> QED BY <2>1 DEF Face!GivesUp, Face!PullEnds, Face!Uninstalled, Face!Pulls,
     Face!AsksToStop, Face!StopsWaiting, Face!Dies, Face!procVars, FrameKinds
<1>3. Unmanned' <=> Unmanned
  <2>1. CASE Face!Answered
    BY <2>1 DEF Face!Answered, Face!Waits, Face!Following, Unmanned
  <2> QED BY <2>1 DEF Face!GivesUp, Face!PullEnds, Face!Uninstalled, Face!Pulls,
     Face!AsksToStop, Face!StopsWaiting, Face!Dies, Face!loopVars, Face!Waits, Unmanned
<1> QED BY <1>1, <1>2, <1>3, FrameKeeps

\* What the process has on its way when it is reaped is left over.
LEMMA FrameReap == FrameInv /\ Face!Reap => FrameInv'
<1> SUFFICES ASSUME FrameInv, Face!Reap PROVE FrameInv'
  OBVIOUS
<1>1. /\ pc = "reap" /\ pc' = "loop" /\ child' = "none" /\ req' = None /\ UNCHANGED net
      /\ leftover' = IF net # <<>> THEN leftover \cup {mine} ELSE leftover
  BY DEF Face!Reap, Face!Dispose
<1>2. ~Unmanned /\ Unmanned' BY <1>1 DEF Unmanned
<1>3. Senders = leftover \cup {mine} /\ Senders' = leftover' BY <1>2 DEF Senders
<1>4. net \in Seq(Packets(Senders)) BY DEF FrameInv
<1>5. net' \in Seq(Packets(Senders'))
  <2>1. CASE net = <<>> BY <1>1, <2>1
  <2>2. CASE net # <<>> BY <1>1, <1>3, <1>4, <2>2
  <2> QED BY <2>1, <2>2
<1> QED BY <1>1, <1>2, <1>5 DEF FrameInv

\* The process of the run sends, and no other.
LEMMA FrameSends == FrameInv /\ (Face!Connects \/ Face!Replies) => FrameInv'
<1> SUFFICES ASSUME FrameInv, Face!Connects \/ Face!Replies PROVE FrameInv'
  OBVIOUS
<1>1. PICK k \in FrameKinds : net' = Append(net, [kind |-> k, mod |-> mine])
  BY DEF Face!Connects, Face!Replies, Face!Sends, FrameInv, FrameKinds
<1>2. /\ child \in {"boot", "on"} /\ UNCHANGED <<pc, mine, leftover, update>>
      /\ req' \in {None, req}
  BY DEF Face!Connects, Face!Replies, Face!loopVars
<1>3. ~Unmanned /\ ~Unmanned' BY <1>2 DEF FrameInv, Unmanned
<1>4. Senders' = Senders /\ mine \in Senders BY <1>2, <1>3 DEF Senders
<1> DEFINE p == [kind |-> k, mod |-> mine]
<1>5. p \in Packets(Senders) BY <1>1, <1>4 DEF Packets
<1> HIDE DEF p
<1>6. net \in Seq(Packets(Senders)) BY DEF FrameInv
<1>7. net' = Append(net, p) BY <1>1 DEF p
<1>8. net' \in Seq(Packets(Senders')) BY <1>4, <1>5, <1>6, <1>7
<1> QED BY <1>2, <1>3, <1>4, <1>8 DEF FrameInv

LEMMA FrameReceives == FrameInv /\ Face!OnServerPacket => FrameInv'
<1> SUFFICES ASSUME FrameInv, Face!OnServerPacket PROVE FrameInv'
  OBVIOUS
<1>1. /\ net # <<>> /\ net' = Tail(net) /\ UNCHANGED <<pc, mine, leftover, child, req>>
      /\ update' \in {update, Head(net).mod}
  BY DEF Face!OnServerPacket, Face!Received, Face!loopVars
<1>2. Senders' = Senders /\ (Unmanned' <=> Unmanned) BY <1>1 DEF Senders, Unmanned
<1>3. net \in Seq(Packets(Senders)) BY DEF FrameInv
<1>4. Head(net) \in Packets(Senders) /\ net' \in Seq(Packets(Senders)) BY <1>1, <1>3
<1>5. Head(net).mod \in Senders BY <1>4 DEF Packets
<1> QED BY <1>1, <1>2, <1>4, <1>5 DEF FrameInv

\* What the host publishes under a module's name was made by that module, for any number of
\* modules, packets on their way and crashes of either process, except for packets that
\* were still on their way when their process was reaped.
THEOREM FrameIsOwnCorrect == MCSpec => []FrameIsOwn
<1>1. FrameInv /\ UNCHANGED faceVars => FrameInv'
  <2>1. UNCHANGED faceVars
          => UNCHANGED <<net, leftover, update, mine, child, req>> /\ (Unmanned' <=> Unmanned)
    BY DEF faceVars, Unmanned
  <2> QED BY <2>1, FrameKeeps
<1>2. FrameInv /\ [MCNext]_allVars => FrameInv'
  <2>1. [MCNext]_allVars => Face!Next \/ UNCHANGED faceVars BY DEF MCNext, allVars
  <2> QED BY <1>1, <2>1, FrameOutside, FrameUnmanned, FrameRun, FrameReap, FrameSends,
            FrameReceives
          DEF Face!Next, Face!Loop, Face!Process
<1>3. MCInit => FrameInv BY InitFrame DEF MCInit
<1>4. FrameInv => FrameIsOwn BY DEF FrameInv, Senders, Unmanned, Face!FrameIsOwn, FrameIsOwn
<1> QED BY <1>2, <1>3, <1>4, PTL DEF MCSpec

-----------------------------------------------------------------------------
(* The sync of the face modules.                                           *)

LEMMA CatalogueOrder ==
  ASSUME NEW S, IsFiniteSet(S)
  PROVE  Sync!SetToSeq(S) \in Seq(S)
<1>1. Sync!Cardinality(S) = Cardinality(S) BY DEF Sync!Cardinality, Cardinality
<1>2. Cardinality(S) \in Nat /\ ExistsBijection(1..Cardinality(S), S)
  BY FS_CardinalityType
<1>3. PICK f \in [1..Cardinality(S) -> S] : Sync!IsInjective(f)
  BY <1>2 DEF ExistsBijection, Bijection, Injection, IsInjective, Sync!IsInjective
<1>4. Sync!SetToSeq(S) \in [1..Cardinality(S) -> S] BY <1>1, <1>3 DEF Sync!SetToSeq
<1> QED BY <1>2, <1>4

\* The removal of a source is in the queue, at place k or later.
Removal(q, k, s) == \E j \in 1..Len(q) : j >= k /\ q[j] = Sync!Op("remove", s)

\* A sync that waits belongs to a source that is kept or lost, or its removal waits
\* behind it.
SyncsCovered(q, kept) ==
  \A i \in 1..Len(q) :
    q[i].action = "sync" => q[i].src \in kept \/ Removal(q, i + 1, q[i].src)

\* What is on the disk belongs to a source that is kept, or its removal waits.
FilesCovered(q, kept) ==
  \A m \in Modules : installed[m].src # None =>
    installed[m].src \in kept \/ Removal(q, 1, installed[m].src)

CatalogueInv ==
  /\ catalogue \subseteq used /\ used \subseteq AllSources
  /\ IsFiniteSet(catalogue)

\* A runner without a script has room in its queue: the first operation was taken.
QueueInv ==
  /\ overlayRuns \in BOOLEAN
  /\ queue \in Seq(Ops) /\ Len(queue) <= MaxQueue
  /\ script = None => Len(queue) < MaxQueue
  /\ ~overlayRuns => queue = <<>> /\ script = None

\* The script at work: a sync of a source that is kept or will be removed, a removal that
\* has left nothing once it is done; one that failed is lost.
ScriptIs(o, st) ==
  /\ script \in Scripts /\ script.op = o /\ script.stage = st

WorkInv ==
  script # None => \E o, st :
    /\ ScriptIs(o, st)
    /\ o.action = "sync" => o.src \in catalogue \cup lost \/ Removal(queue, 1, o.src)
    /\ st = "copying" => o.action = "sync"
    /\ st = "failed" => o.src \in lost
    /\ o.action = "remove" /\ st = "done"
         => \A m \in Modules : installed[m].src # None => installed[m].src # o.src

Disks == [Modules -> [files : {"none", "part", "full"}, src : AllSources \cup {None}]]

\* What is on the disk, while a script is at work.
DiskInv ==
  /\ installed \in Disks
  /\ \A m \in Modules : installed[m].src # None =>
       \/ installed[m].src \in catalogue \cup lost
       \/ Removal(queue, 1, installed[m].src)
       \/ script # None /\ script.op = Sync!Op("remove", installed[m].src)

SyncInv ==
  /\ CatalogueInv /\ QueueInv /\ WorkInv /\ DiskInv
  /\ SyncsCovered(queue, catalogue \cup lost)

\* An idle runner.
LEMMA EmptyQueue ==
  ASSUME overlayRuns = FALSE, queue = <<>>, script = None
  PROVE  QueueInv
<1>1. overlayRuns \in BOOLEAN OBVIOUS
<1>2. queue \in Seq(Ops) OBVIOUS
<1>3. Len(queue) <= MaxQueue /\ Len(queue) < MaxQueue BY SyncAssumption
<1>4. ~overlayRuns => queue = <<>> /\ script = None OBVIOUS
<1> QED BY <1>1, <1>2, <1>3, <1>4 DEF QueueInv

LEMMA InitSync == ASSUME Sync!Init PROVE SyncInv
<1>1. CatalogueInv BY FS_Singleton DEF Sync!Init, CatalogueInv, AllSources
<1>2. QueueInv
  <2>1. overlayRuns = FALSE /\ queue = <<>> /\ script = None BY DEF Sync!Init
  <2> QED BY <2>1, EmptyQueue
<1>3. WorkInv BY DEF Sync!Init, WorkInv
<1>4. DiskInv BY DEF Sync!Init, DiskInv, Disks, Sync!Absent
<1>5. SyncsCovered(queue, catalogue \cup lost) BY DEF Sync!Init, SyncsCovered
<1> QED BY <1>1, <1>2, <1>3, <1>4, <1>5 DEF SyncInv

\* The runner takes the first operation: its script is started, or the operation is lost.
Launches(q, gone) ==
  \/ q = <<>> /\ queue' = q /\ script' = None /\ lost' = gone
  \/ /\ q # <<>> /\ queue' = Tail(q)
     /\ \/ script' = Sync!Script(Head(q)) /\ lost' = gone
        \/ script' = None /\ lost' = gone \cup {Head(q).src}

LEMMA TailKeepsRemoval ==
  ASSUME NEW q \in Seq(Ops), q # <<>>, NEW s, NEW k \in Nat, k >= 1, Removal(q, k + 1, s)
  PROVE  Removal(Tail(q), k, s)
<1>1. PICK j \in 1..Len(q) : j >= k + 1 /\ q[j] = Sync!Op("remove", s) BY DEF Removal
<1>2. j - 1 \in 1..Len(Tail(q)) /\ Tail(q)[j - 1] = q[j] BY <1>1
<1> QED BY <1>1, <1>2 DEF Removal

\* A launch keeps everything covered.
LEMMA LaunchCovers ==
  ASSUME NEW q \in Seq(Ops), Len(q) <= MaxQueue, NEW gone,
         SyncsCovered(q, catalogue' \cup gone), FilesCovered(q, catalogue' \cup gone),
         DiskInv, Launches(q, gone), UNCHANGED installed, CatalogueInv', overlayRuns' = TRUE
  PROVE  SyncInv'
<1>1. CASE q = <<>> /\ queue' = q /\ script' = None /\ lost' = gone
  <2>1. QueueInv' BY <1>1, SyncAssumption DEF QueueInv
  <2>2. WorkInv' BY <1>1 DEF WorkInv
  <2>3. DiskInv' BY <1>1 DEF DiskInv, FilesCovered, Removal
  <2>4. SyncsCovered(queue, catalogue \cup lost)' BY <1>1 DEF SyncsCovered
  <2> QED BY <2>1, <2>2, <2>3, <2>4 DEF SyncInv
<1>2. CASE /\ q # <<>> /\ queue' = Tail(q)
           /\ \/ script' = Sync!Script(Head(q)) /\ lost' = gone
              \/ script' = None /\ lost' = gone \cup {Head(q).src}
  <2> DEFINE h == Head(q)
  <2>1. h \in Ops /\ h = q[1] /\ Tail(q) \in Seq(Ops) /\ Len(Tail(q)) = Len(q) - 1
    BY <1>2
  <2> HIDE DEF h
  <2>2. \/ script' = [op |-> h, stage |-> "go", uuid |-> None] /\ lost' = gone
        \/ script' = None /\ lost' = gone \cup {h.src}
    BY <1>2 DEF Sync!Script, h
  <2>3. gone \subseteq lost' BY <2>2
  <2>4. QueueInv' BY <1>2, <2>1, SyncAssumption DEF QueueInv
  <2>5. SyncsCovered(queue, catalogue \cup lost)'
    <3>1. SUFFICES ASSUME NEW i \in 1..Len(Tail(q)), Tail(q)[i].action = "sync",
                          Tail(q)[i].src \notin catalogue' \cup lost'
                   PROVE  Removal(Tail(q), i + 1, Tail(q)[i].src)
      BY <1>2 DEF SyncsCovered, Removal
    <3>2. i + 1 \in 1..Len(q) /\ Tail(q)[i] = q[i + 1] BY <1>2, <2>1
    <3>3. Removal(q, i + 2, q[i + 1].src) BY <2>3, <3>1, <3>2 DEF SyncsCovered
    <3> QED BY <1>2, <3>2, <3>3, TailKeepsRemoval
  <2>6. ASSUME NEW s, Removal(q, 1, s)
        PROVE  Removal(Tail(q), 1, s) \/ h = Sync!Op("remove", s)
    <3>1. PICK j \in 1..Len(q) : q[j] = Sync!Op("remove", s) BY <2>6 DEF Removal
    <3>2. CASE j = 1 BY <2>1, <3>1, <3>2
    <3>3. CASE j > 1
      <4>1. Removal(q, 2, s) BY <3>1, <3>3 DEF Removal
      <4> QED BY <1>2, <4>1, TailKeepsRemoval
    <3> QED BY <3>2, <3>3
  <2>7. DiskInv'
    <3>1. SUFFICES ASSUME NEW m \in Modules, installed[m].src # None,
                          installed[m].src \notin catalogue' \cup lost',
                          ~Removal(Tail(q), 1, installed[m].src)
                   PROVE  script' # None /\ script'.op = Sync!Op("remove", installed[m].src)
      BY <1>2 DEF DiskInv, Removal
    <3>2. Removal(q, 1, installed[m].src) BY <2>3, <3>1 DEF FilesCovered
    <3>3. h = Sync!Op("remove", installed[m].src) BY <2>6, <3>1, <3>2
    <3>4. h.src = installed[m].src BY <3>3 DEF Sync!Op
    <3>5. [op |-> h, stage |-> "go", uuid |-> None] # None BY <2>1, SyncAssumption DEF Scripts
    <3> QED BY <2>2, <3>1, <3>3, <3>4, <3>5
  <2>8. WorkInv'
    <3>1. SUFFICES ASSUME script' = [op |-> h, stage |-> "go", uuid |-> None], lost' = gone
                   PROVE  WorkInv'
      BY <2>2 DEF WorkInv
    <3>2. ScriptIs(h, "go")' BY <2>1, <3>1 DEF ScriptIs, Scripts
    <3>3. h.action = "sync" => h.src \in catalogue' \cup lost' \/ Removal(queue', 1, h.src)
      <4>1. SUFFICES ASSUME h.action = "sync", h.src \notin catalogue' \cup lost'
                     PROVE  Removal(Tail(q), 1, h.src)
        BY <1>2
      <4>2. 1 \in 1..Len(q) BY <1>2
      <4>3. Removal(q, 2, h.src) BY <2>1, <3>1, <4>1, <4>2 DEF SyncsCovered
      <4> QED BY <1>2, <4>3, TailKeepsRemoval
    <3> QED BY <3>2, <3>3 DEF WorkInv, Removal
  <2> QED BY <2>4, <2>5, <2>7, <2>8 DEF SyncInv
<1> QED BY <1>1, <1>2 DEF Launches

\* The end of a script, one way or another.
LEMMA SyncPoll == ASSUME SyncInv, Sync!Poll PROVE SyncInv'
<1>0. CatalogueInv /\ QueueInv /\ WorkInv /\ DiskInv /\ SyncsCovered(queue, catalogue \cup lost)
  BY DEF SyncInv
<1>1. /\ overlayRuns' = overlayRuns /\ UNCHANGED <<catalogue, used, installed>>
  BY DEF Sync!Poll, Sync!Reaps, Sync!TimesOut, Sync!PollLaunches
<1>2. CatalogueInv' BY <1>0, <1>1 DEF CatalogueInv
<1>3. overlayRuns' = TRUE
  BY <1>0, <1>1 DEF QueueInv, Sync!Poll, Sync!Reaps, Sync!TimesOut, Sync!PollLaunches
<1>4. PICK gone : /\ Launches(queue, gone) /\ lost \subseteq gone
                  /\ \/ script = None
                     \/ script.stage \in {"done", "failed"}
                     \/ script # None /\ script.op.src \in gone
  <2>1. CASE Sync!Reaps
    BY <2>1 DEF Sync!Reaps, Sync!LaunchNext, Launches
  <2>2. CASE Sync!TimesOut
    <3>1. Launches(queue, lost \cup {script.op.src}) /\ script # None
      BY <2>2 DEF Sync!TimesOut, Sync!IsRunning, Launches
    <3> QED BY <3>1
  <2>3. CASE Sync!PollLaunches
    BY <2>3 DEF Sync!PollLaunches, Sync!IsRunning, Sync!LaunchNext, Launches
  <2> QED BY <2>1, <2>2, <2>3 DEF Sync!Poll
<1>5. SyncsCovered(queue, catalogue' \cup gone) BY <1>0, <1>1, <1>4 DEF SyncsCovered
<1>6. FilesCovered(queue, catalogue' \cup gone)
  <2>1. SUFFICES ASSUME NEW m \in Modules, installed[m].src # None,
                        script # None, script.op = Sync!Op("remove", installed[m].src)
                 PROVE  installed[m].src \in gone
    BY <1>0, <1>1, <1>4 DEF FilesCovered, DiskInv
  <2>2. PICK o, st :
          /\ ScriptIs(o, st)
          /\ st = "failed" => o.src \in lost
          /\ o.action = "remove" /\ st = "done"
               => \A n \in Modules : installed[n].src # None => installed[n].src # o.src
    BY <1>0, <2>1 DEF WorkInv
  <2>3. script.op = o /\ script.stage = st BY <2>2 DEF ScriptIs
  <2>4. o.action = "remove" /\ o.src = installed[m].src BY <2>1, <2>3 DEF Sync!Op
  <2> QED BY <1>4, <2>1, <2>2, <2>3, <2>4
<1>7. queue \in Seq(Ops) /\ Len(queue) <= MaxQueue BY <1>0 DEF QueueInv
<1> QED BY <1>0, <1>1, <1>2, <1>3, <1>4, <1>5, <1>6, <1>7, LaunchCovers

\* What a queue becomes when operations are added: itself, and as many as there is room for.
Added(ops) == SubSeq(queue \o ops, 1, IF Len(queue \o ops) < MaxQueue
                                     THEN Len(queue \o ops) ELSE MaxQueue)

LEMMA QueueGrows ==
  ASSUME QueueInv, NEW ops \in Seq(Ops)
  PROVE  LET q == Added(ops) IN
         /\ q \in Seq(Ops) /\ Len(q) <= MaxQueue
         /\ Len(queue) <= Len(q)
         /\ Len(q) = Len(queue) + Len(ops) \/ Len(q) = MaxQueue
         /\ \A i \in 1..Len(queue) : q[i] = queue[i]
         /\ \A i \in 1..Len(q) : i > Len(queue)
              => i - Len(queue) \in 1..Len(ops) /\ q[i] = ops[i - Len(queue)]
<1> DEFINE c == queue \o ops
           n == IF Len(c) < MaxQueue THEN Len(c) ELSE MaxQueue
<1>1. /\ c \in Seq(Ops) /\ Len(c) = Len(queue) + Len(ops)
      /\ Len(queue) \in Nat /\ Len(ops) \in Nat /\ Len(queue) <= MaxQueue /\ MaxQueue \in Nat
  BY SyncAssumption DEF QueueInv
<1>2. /\ \A i \in 1..Len(queue) : c[i] = queue[i]
      /\ \A i \in 1..Len(c) : i > Len(queue) => c[i] = ops[i - Len(queue)]
  BY DEF QueueInv
<1> HIDE DEF c
<1>3. n \in Nat /\ n <= Len(c) /\ n <= MaxQueue /\ Len(queue) <= n /\ n \in {Len(c), MaxQueue}
  BY <1>1
<1>4. Added(ops) = SubSeq(c, 1, n) BY DEF Added, c
<1> HIDE DEF n
<1>5. /\ Added(ops) \in Seq(Ops) /\ Len(Added(ops)) = n
      /\ \A i \in 1..n : Added(ops)[i] = c[i]
  BY <1>1, <1>3, <1>4
<1> QED BY <1>1, <1>2, <1>3, <1>5

\* Removals stay in a queue that grows.
LEMMA GrowsKeepsRemoval ==
  ASSUME QueueInv, NEW ops \in Seq(Ops), NEW k, NEW s, Removal(queue, k, s)
  PROVE  Removal(Added(ops), k, s)
<1>1. PICK j \in 1..Len(queue) : j >= k /\ queue[j] = Sync!Op("remove", s) BY DEF Removal
<1>2. Len(queue) \in Nat BY DEF QueueInv
<1>3. Len(queue) <= Len(Added(ops)) /\ Len(Added(ops)) \in Nat /\ Added(ops)[j] = queue[j]
  BY <1>1, QueueGrows
<1> QED BY <1>1, <1>2, <1>3 DEF Removal

\* What Start does without a script, and with one.
LEMMA StartEffect ==
  ASSUME NEW ops, Sync!Start(ops)
  PROVE  \E gone : /\ lost \subseteq gone
                   /\ \/ script = None /\ Launches(Added(ops), gone)
                      \/ /\ script # None /\ queue' = Added(ops) /\ lost' = gone
                         /\ UNCHANGED script
<1> DEFINE gone == lost \cup ({op.src : op \in Sync!ToSet(ops)}
                              \ {op.src : op \in Sync!ToSet(Added(ops))})
<1>1. IF script # None \/ Added(ops) = <<>>
      THEN queue' = Added(ops) /\ lost' = gone /\ UNCHANGED script
      ELSE /\ queue' = Tail(Added(ops))
           /\ \/ script' = Sync!Script(Head(Added(ops))) /\ lost' = gone
              \/ UNCHANGED script /\ lost' = gone \cup {Head(Added(ops)).src}
  BY DEF Sync!Start, Sync!IsRunning, Added
<1>2. lost \subseteq gone OBVIOUS
<1> HIDE DEF gone
<1> QED BY <1>1, <1>2 DEF Launches

\* Operations for sources of the catalogue, or the removal of one that leaves it.
LEMMA StartCovers ==
  ASSUME SyncInv, NEW ops \in Seq(Ops), Sync!Start(ops), script = None,
         CatalogueInv', UNCHANGED installed, overlayRuns' = TRUE,
         \A i \in 1..Len(ops) : ops[i].action = "sync" => ops[i].src \in catalogue',
         \A s \in catalogue \ catalogue' : Len(ops) = 1 /\ ops[1] = Sync!Op("remove", s)
  PROVE  SyncInv'
<1>0. CatalogueInv /\ QueueInv /\ WorkInv /\ DiskInv /\ SyncsCovered(queue, catalogue \cup lost)
  BY DEF SyncInv
<1> DEFINE q == Added(ops)
<1>1. PICK gone : lost \subseteq gone /\ Launches(q, gone) BY StartEffect
<1>2. /\ q \in Seq(Ops) /\ Len(q) <= MaxQueue /\ Len(queue) <= Len(q)
      /\ Len(q) = Len(queue) + Len(ops) \/ Len(q) = MaxQueue
      /\ \A i \in 1..Len(queue) : q[i] = queue[i]
      /\ \A i \in 1..Len(q) : i > Len(queue)
           => i - Len(queue) \in 1..Len(ops) /\ q[i] = ops[i - Len(queue)]
  BY <1>0, QueueGrows
<1>3. \A k, s : Removal(queue, k, s) => Removal(q, k, s) BY <1>0, GrowsKeepsRemoval
<1>4. Len(queue) \in Nat /\ Len(queue) < MaxQueue /\ MaxQueue \in Nat /\ Len(q) \in Nat
  BY <1>0, <1>2, SyncAssumption DEF QueueInv
<1> HIDE DEF q
<1>5. ASSUME NEW s \in catalogue \ catalogue', NEW k \in Nat, k <= Len(queue) + 1
      PROVE  Removal(q, k, s)
  <2>1. Len(ops) = 1 /\ ops[1] = Sync!Op("remove", s) BY <1>5
  <2>2. Len(q) = Len(queue) + 1 \/ Len(q) = MaxQueue BY <1>2, <2>1
  <2>3. Len(queue) + 1 \in 1..Len(q) BY <1>2, <1>4, <2>2
  <2>4. q[Len(queue) + 1] = ops[1] BY <1>2, <1>4, <2>3
  <2> QED BY <1>4, <1>5, <2>1, <2>3, <2>4 DEF Removal
<1>6. SyncsCovered(q, catalogue' \cup gone)
  <2>1. SUFFICES ASSUME NEW i \in 1..Len(q), q[i].action = "sync",
                        q[i].src \notin catalogue' \cup gone
                 PROVE  Removal(q, i + 1, q[i].src)
    BY DEF SyncsCovered
  <2>2. i \in 1..Len(queue) /\ q[i] = queue[i]
    <3>1. CASE i > Len(queue)
      <4>1. i - Len(queue) \in 1..Len(ops) /\ q[i] = ops[i - Len(queue)] BY <1>2, <3>1
      <4> QED BY <2>1, <4>1
    <3>2. CASE ~(i > Len(queue)) BY <1>2, <1>4, <3>2
    <3> QED BY <3>1, <3>2
  <2>3. CASE queue[i].src \in catalogue
    BY <1>4, <1>5, <2>1, <2>2, <2>3
  <2>4. CASE queue[i].src \notin catalogue
    <3>1. Removal(queue, i + 1, queue[i].src)
      BY <1>0, <1>1, <2>1, <2>2, <2>4 DEF SyncsCovered
    <3> QED BY <1>3, <2>2, <3>1
  <2> QED BY <2>3, <2>4
<1>7. FilesCovered(q, catalogue' \cup gone)
  <2>1. SUFFICES ASSUME NEW m \in Modules, installed[m].src # None,
                        installed[m].src \notin catalogue' \cup gone
                 PROVE  Removal(q, 1, installed[m].src)
    BY DEF FilesCovered
  <2>2. CASE installed[m].src \in catalogue BY <1>4, <1>5, <2>1, <2>2
  <2>3. CASE installed[m].src \notin catalogue
    BY <1>0, <1>1, <1>3, <2>1, <2>3 DEF DiskInv
  <2> QED BY <2>2, <2>3
<1> QED BY <1>0, <1>1, <1>2, <1>6, <1>7, LaunchCovers

\* The buttons of the Modules tab that start an operation.
LEMMA SyncUser ==
  ASSUME SyncInv, NEW s \in Sources,
         Sync!AddSource(s) \/ Sync!SyncSource(s) \/ Sync!RemoveSource(s)
  PROVE  SyncInv'
<1>0. CatalogueInv /\ QueueInv /\ WorkInv /\ DiskInv /\ SyncsCovered(queue, catalogue \cup lost)
  BY DEF SyncInv
<1>1. overlayRuns' = TRUE /\ UNCHANGED installed
  BY <1>0 DEF Sync!AddSource, Sync!SyncSource, Sync!RemoveSource, Sync!UserActs, QueueInv
<1>2. CatalogueInv'
  <2>1. IsFiniteSet(catalogue \cup {s}) /\ IsFiniteSet(catalogue \ {s})
    BY <1>0, FS_AddElement, FS_RemoveElement DEF CatalogueInv
  <2>2. \/ catalogue' = catalogue \cup {s} /\ used' = used \cup {s}
        \/ catalogue' \in {catalogue, catalogue \ {s}} /\ used' = used
    BY DEF Sync!AddSource, Sync!SyncSource, Sync!RemoveSource
  <2> QED BY <1>0, <2>1, <2>2 DEF CatalogueInv, AllSources
<1>3. Sync!Op("sync", s) \in Ops /\ Sync!Op("remove", s) \in Ops
  BY DEF Sync!Op, Ops, AllSources
<1>4. CASE Sync!RemoveSource(s)
  <2>1. /\ script = None /\ Sync!Start(<<Sync!Op("remove", s)>>) /\ catalogue' = catalogue \ {s}
    BY <1>4 DEF Sync!RemoveSource, Sync!IsRunning
  <2> DEFINE ops == <<Sync!Op("remove", s)>>
  <2>2. ops \in Seq(Ops) /\ Len(ops) = 1 /\ ops[1] = Sync!Op("remove", s) BY <1>3
  <2>3. ops[1].action = "remove" BY <2>2 DEF Sync!Op
  <2> HIDE DEF ops
  <2>4. \A i \in 1..Len(ops) : ops[i].action = "sync" => ops[i].src \in catalogue'
    BY <2>2, <2>3
  <2>5. \A x \in catalogue \ catalogue' : Len(ops) = 1 /\ ops[1] = Sync!Op("remove", x)
    BY <2>1, <2>2
  <2>6. Sync!Start(ops) BY <2>1 DEF ops
  <2> QED BY <1>1, <1>2, <2>1, <2>2, <2>4, <2>5, <2>6, StartCovers
<1>5. CASE Sync!AddSource(s) \/ Sync!SyncSource(s)
  <2> DEFINE ops == <<Sync!Op("sync", s)>>
  <2>1. /\ Sync!Start(ops) /\ s \in catalogue' /\ catalogue \subseteq catalogue'
    BY <1>5 DEF Sync!AddSource, Sync!SyncSource
  <2>2. ops \in Seq(Ops) /\ Len(ops) = 1 /\ ops[1] = Sync!Op("sync", s) BY <1>3
  <2>3. ops[1].src = s BY <2>2 DEF Sync!Op
  <2> HIDE DEF ops
  <2>4. \A i \in 1..Len(ops) : ops[i].src \in catalogue' BY <2>1, <2>2, <2>3
  <2>5. CASE script = None
    BY <1>1, <1>2, <2>1, <2>2, <2>4, <2>5, StartCovers
  <2>6. CASE script # None
    <3>1. queue' = Added(ops) /\ lost \subseteq lost' /\ UNCHANGED script
      BY <2>1, <2>6, StartEffect
    <3>2. /\ queue' \in Seq(Ops) /\ Len(queue') <= MaxQueue /\ Len(queue) <= Len(queue')
          /\ \A i \in 1..Len(queue) : queue'[i] = queue[i]
          /\ \A i \in 1..Len(queue') : i > Len(queue)
               => i - Len(queue) \in 1..Len(ops) /\ queue'[i] = ops[i - Len(queue)]
      BY <1>0, <2>2, <3>1, QueueGrows
    <3>3. \A k, x : Removal(queue, k, x) => Removal(queue', k, x)
      BY <1>0, <2>2, <3>1, GrowsKeepsRemoval
    <3>4. QueueInv' BY <1>1, <2>6, <3>1, <3>2 DEF QueueInv
    <3>5. WorkInv'
      <4>1. PICK o, st :
              /\ ScriptIs(o, st)
              /\ o.action = "sync" => o.src \in catalogue \cup lost \/ Removal(queue, 1, o.src)
              /\ st = "copying" => o.action = "sync"
              /\ st = "failed" => o.src \in lost
              /\ o.action = "remove" /\ st = "done"
                   => \A m \in Modules : installed[m].src # None => installed[m].src # o.src
        BY <1>0, <2>6 DEF WorkInv
      <4>2. ScriptIs(o, st)' BY <3>1, <4>1 DEF ScriptIs
      <4>3. o.action = "sync" => o.src \in catalogue' \cup lost' \/ Removal(queue', 1, o.src)
        BY <2>1, <3>1, <3>3, <4>1
      <4> QED BY <1>1, <3>1, <4>1, <4>2, <4>3 DEF WorkInv, Removal
    <3>6. DiskInv'
      <4>1. ASSUME NEW m \in Modules, installed'[m].src # None
            PROVE  \/ installed'[m].src \in catalogue' \cup lost'
                   \/ Removal(queue', 1, installed'[m].src)
                   \/ script'.op = Sync!Op("remove", installed'[m].src)
        <5>1. installed'[m].src = installed[m].src BY <1>1
        <5>2. CASE Removal(queue, 1, installed[m].src) BY <3>3, <5>1, <5>2
        <5>3. CASE ~Removal(queue, 1, installed[m].src)
          BY <1>0, <2>1, <3>1, <4>1, <5>1, <5>3 DEF DiskInv
        <5> QED BY <5>2, <5>3
      <4>2. installed' \in Disks BY <1>0, <1>1 DEF DiskInv, Disks
      <4>3. script' # None BY <2>6, <3>1
      <4> QED BY <4>1, <4>2, <4>3 DEF DiskInv, Removal, Disks
    <3>7. SyncsCovered(queue', catalogue' \cup lost')
      <4>1. SUFFICES ASSUME NEW i \in 1..Len(queue'), queue'[i].action = "sync",
                            queue'[i].src \notin catalogue' \cup lost'
                     PROVE  Removal(queue', i + 1, queue'[i].src)
        BY DEF SyncsCovered
      <4>2. Len(queue) \in Nat /\ Len(queue') \in Nat BY <1>0, <3>2 DEF QueueInv
      <4>3. CASE i > Len(queue)
        <5>1. i - Len(queue) \in 1..Len(ops) /\ queue'[i] = ops[i - Len(queue)] BY <3>2, <4>3
        <5> QED BY <2>4, <4>1, <5>1
      <4>4. CASE ~(i > Len(queue))
        <5>1. i \in 1..Len(queue) /\ queue'[i] = queue[i] BY <3>2, <4>2, <4>4
        <5>2. Removal(queue, i + 1, queue[i].src)
          BY <1>0, <2>1, <3>1, <4>1, <5>1 DEF SyncsCovered
        <5> QED BY <3>3, <5>1, <5>2
      <4> QED BY <4>3, <4>4
    <3>8. SyncsCovered(queue, catalogue \cup lost)' BY <3>7 DEF SyncsCovered, Removal
    <3> QED BY <1>2, <3>4, <3>5, <3>6, <3>8 DEF SyncInv
  <2> QED BY <2>5, <2>6
<1> QED BY <1>4, <1>5

\* A start finds an empty queue and fills it with updates of the catalogue.
LEMMA SyncStarts == ASSUME SyncInv, Sync!OverlayStarts PROVE SyncInv'
<1>0. CatalogueInv /\ QueueInv BY DEF SyncInv
<1> DEFINE S == catalogue \cap AutoUpdated
           updates == Sync!SetToSeq(S)
           ops == [i \in DOMAIN updates |-> Sync!Op("sync", updates[i])]
<1>1. /\ ~overlayRuns /\ overlayRuns' = TRUE /\ Sync!Start(ops)
      /\ UNCHANGED <<catalogue, used, installed>>
  BY DEF Sync!OverlayStarts
<1>2. script = None BY <1>0, <1>1 DEF QueueInv
<1>3. IsFiniteSet(S) BY <1>0, FS_Intersection DEF CatalogueInv
<1>4. updates \in Seq(S) BY <1>3, CatalogueOrder
<1>5. S \subseteq catalogue /\ S \subseteq AllSources BY <1>0 DEF CatalogueInv
<1> HIDE DEF S, updates
<1>6. \A x \in S : Sync!Op("sync", x) \in Ops /\ Sync!Op("sync", x).src = x
  BY <1>5 DEF Sync!Op, Ops
<1>7. ops \in Seq(Ops) /\ Len(ops) = Len(updates) BY <1>4, <1>6
<1>8. \A i \in 1..Len(ops) : ops[i].src \in catalogue BY <1>4, <1>5, <1>6, <1>7
<1> HIDE DEF ops
<1>9. CatalogueInv' BY <1>0, <1>1 DEF CatalogueInv
<1> QED BY <1>1, <1>2, <1>7, <1>8, <1>9, StartCovers

\* The end of the overlay loses what waits and what runs.
LEMMA SyncStops == ASSUME SyncInv, Sync!OverlayStops PROVE SyncInv'
<1>0. CatalogueInv /\ QueueInv /\ WorkInv /\ DiskInv BY DEF SyncInv
<1>1. /\ overlayRuns' = FALSE /\ queue' = <<>> /\ script' = None
      /\ UNCHANGED <<catalogue, used, installed>>
      /\ lost' = lost \cup {op.src : op \in Sync!ToSet(queue)}
                      \cup (IF script # None THEN {script.op.src} ELSE {})
  BY DEF Sync!OverlayStops, Sync!IsRunning
<1>2. \A s : Sync!Op("remove", s).src = s BY DEF Sync!Op
<1>3. \A s : Removal(queue, 1, s) => s \in lost'
  <2>1. SUFFICES ASSUME NEW s, Removal(queue, 1, s) PROVE s \in lost'
    OBVIOUS
  <2>2. PICK j \in 1..Len(queue) : queue[j] = Sync!Op("remove", s) BY <2>1 DEF Removal
  <2>3. queue[j] \in Sync!ToSet(queue) BY <1>0, <2>2 DEF Sync!ToSet, QueueInv
  <2> QED BY <1>1, <1>2, <2>2, <2>3
<1>4. CatalogueInv' BY <1>0, <1>1 DEF CatalogueInv
<1>5. QueueInv'
  <2>1. overlayRuns' \in BOOLEAN BY <1>1
  <2>2. queue' \in Seq(Ops) BY <1>1
  <2>3. Len(queue') <= MaxQueue /\ Len(queue') < MaxQueue BY <1>1, SyncAssumption
  <2>4. ~overlayRuns' => queue' = <<>> /\ script' = None BY <1>1
  <2> QED BY <2>1, <2>2, <2>3, <2>4 DEF QueueInv
<1>6. WorkInv' BY <1>1 DEF WorkInv
<1>7. DiskInv'
  <2>1. SUFFICES ASSUME NEW m \in Modules, installed[m].src # None
                 PROVE  installed[m].src \in catalogue \cup lost'
    BY <1>0, <1>1 DEF DiskInv
  <2> QED BY <1>0, <1>1, <1>2, <1>3, <2>1 DEF DiskInv
<1>8. SyncsCovered(queue, catalogue \cup lost)' BY <1>1 DEF SyncsCovered
<1> QED BY <1>4, <1>5, <1>6, <1>7, <1>8 DEF SyncInv

\* What a script's step makes of the script and of the disk.
ScriptBecomes(o, st, u) ==
  /\ script' = [op |-> o, stage |-> st, uuid |-> u]
  /\ u \in {None} \cup {Gives[s] : s \in Sources}
  /\ st \in {"copying", "done", "failed"}
  /\ st = "copying" => o.action = "sync"
  /\ st = "failed" => o.src \in lost'
  /\ o.action = "remove" /\ st = "done"
       => \A m \in Modules : installed'[m].src # None => installed'[m].src # o.src
  /\ \A m \in Modules : \/ installed'[m].src \in {None, installed[m].src}
                        \/ o.action = "sync" /\ installed'[m].src = o.src
  /\ installed' \in Disks

\* A script's step: the disk and the script change, the queue does not.
LEMMA SyncScript == ASSUME SyncInv, Sync!ScriptStep PROVE SyncInv'
<1>0. CatalogueInv /\ QueueInv /\ WorkInv /\ DiskInv /\ SyncsCovered(queue, catalogue \cup lost)
  BY DEF SyncInv
<1>1. /\ script # None /\ UNCHANGED <<overlayRuns, catalogue, used, queue>>
      /\ lost \subseteq lost'
  BY DEF Sync!ScriptStep, Sync!ScriptSkips, Sync!ScriptCopies, Sync!ScriptInstalls,
     Sync!ScriptRemoves, Sync!ScriptFails, Sync!IsRunning
<1>2. PICK o, st :
        /\ ScriptIs(o, st)
        /\ o.action = "sync" => o.src \in catalogue \cup lost \/ Removal(queue, 1, o.src)
        /\ st = "copying" => o.action = "sync"
        /\ st = "failed" => o.src \in lost
        /\ o.action = "remove" /\ st = "done"
             => \A m \in Modules : installed[m].src # None => installed[m].src # o.src
  BY <1>0, <1>1 DEF WorkInv
<1>3. PICK u \in {None} \cup {Gives[s] : s \in Sources} :
        script = [op |-> o, stage |-> st, uuid |-> u]
  BY <1>2 DEF ScriptIs, Scripts
<1>4. o \in Ops BY <1>2 DEF ScriptIs, Scripts
<1>5. script.op = o /\ script.stage = st BY <1>3
<1>6. PICK st2, u2 : ScriptBecomes(o, st2, u2)
  <2>0. installed \in Disks BY <1>0 DEF DiskInv
  <2>1. CASE Sync!ScriptSkips
    <3>1. script' = [script EXCEPT !.stage = "done"] /\ o.action = "sync" /\ UNCHANGED installed
      BY <1>5, <2>1 DEF Sync!ScriptSkips
    <3>2. script' = [op |-> o, stage |-> "done", uuid |-> u] BY <1>3, <3>1
    <3>3. ScriptBecomes(o, "done", u)
      <4>1. \A m \in Modules : installed'[m].src = installed[m].src BY <3>1
      <4>2. o.action # "remove" /\ installed' \in Disks BY <2>0, <3>1
      <4> QED BY <3>2, <4>1, <4>2 DEF ScriptBecomes
    <3> QED BY <3>3
  <2>2. CASE Sync!ScriptCopies
    <3> DEFINE n == Sync!Module
    <3>1. /\ script' = [script EXCEPT !.stage = "copying"] /\ o.action = "sync"
          /\ installed' = [installed EXCEPT ![n].files = "part"]
      BY <1>5, <2>2 DEF Sync!ScriptCopies
    <3> HIDE DEF n
    <3>2. script' = [op |-> o, stage |-> "copying", uuid |-> u] BY <1>3, <3>1
    <3>3. installed' \in Disks /\ \A m \in Modules : installed'[m].src = installed[m].src
      BY <2>0, <3>1 DEF Disks
    <3>4. ScriptBecomes(o, "copying", u)
      <4>1. o.action = "sync" BY <3>1
      <4> QED BY <3>2, <3>3, <4>1 DEF ScriptBecomes
    <3> QED BY <3>4
  <2>3. CASE Sync!ScriptInstalls
    <3> DEFINE n == Sync!Module
               v == IF o.src = Registry THEN None ELSE Sync!Module
    <3>1. /\ script' = [script EXCEPT !.stage = "done", !.uuid = v] /\ st = "copying"
          /\ installed' = [installed EXCEPT ![n] = [files |-> "full", src |-> o.src]]
      BY <1>5, <2>3 DEF Sync!ScriptInstalls
    <3>0. v \in {None} \cup {Gives[s] : s \in Sources}
      BY <1>4, <1>5 DEF Sync!Module, Ops, AllSources
    <3> HIDE DEF n, v
    <3>2. script' = [op |-> o, stage |-> "done", uuid |-> v] BY <1>3, <3>1
    <3>3. o.src \in AllSources BY <1>4 DEF Ops
    <3>4. /\ installed' \in Disks
          /\ \A m \in Modules : installed'[m].src \in {installed[m].src, o.src}
      BY <2>0, <3>1, <3>3 DEF Disks
    <3>5. o.action = "sync" BY <1>2, <3>1
    <3>6. ScriptBecomes(o, "done", v)
      <4>1. o.action # "remove" BY <3>5
      <4>2. \A m \in Modules : \/ installed'[m].src \in {None, installed[m].src}
                               \/ o.action = "sync" /\ installed'[m].src = o.src
        BY <3>4, <3>5
      <4> QED BY <3>0, <3>2, <3>4, <4>1, <4>2 DEF ScriptBecomes
    <3> QED BY <3>6
  <2>4. CASE Sync!ScriptRemoves
    <3>1. /\ script' = [script EXCEPT !.stage = "done"]
          /\ installed' = [m \in Modules |-> IF installed[m].src = o.src THEN Sync!Absent
                                             ELSE installed[m]]
      BY <1>5, <2>4 DEF Sync!ScriptRemoves
    <3>2. script' = [op |-> o, stage |-> "done", uuid |-> u] BY <1>3, <3>1
    <3>3. /\ Sync!Absent.src = None
          /\ Sync!Absent \in [files : {"none", "part", "full"}, src : AllSources \cup {None}]
      BY DEF Sync!Absent
    <3>4. /\ installed' \in Disks
          /\ \A m \in Modules : \/ installed'[m].src = None
                                \/ installed'[m] = installed[m] /\ installed[m].src # o.src
      BY <2>0, <3>1, <3>3 DEF Disks
    <3>5. ScriptBecomes(o, "done", u)
      <4>1. \A m \in Modules : installed'[m].src # None => installed'[m].src # o.src
        BY <3>4
      <4>2. \A m \in Modules : installed'[m].src \in {None, installed[m].src} BY <3>4
      <4> QED BY <3>2, <3>4, <4>1, <4>2 DEF ScriptBecomes
    <3> QED BY <3>5
  <2>5. CASE Sync!ScriptFails
    <3>1. /\ script' = [script EXCEPT !.stage = "failed"] /\ o.src \in lost'
          /\ UNCHANGED installed
      BY <1>5, <2>5 DEF Sync!ScriptFails
    <3>2. script' = [op |-> o, stage |-> "failed", uuid |-> u] BY <1>3, <3>1
    <3>3. ScriptBecomes(o, "failed", u)
      <4>1. \A m \in Modules : installed'[m].src = installed[m].src BY <3>1
      <4>2. o.src \in lost' /\ installed' \in Disks BY <2>0, <3>1
      <4> QED BY <3>2, <4>1, <4>2 DEF ScriptBecomes
    <3> QED BY <3>3
  <2> QED BY <2>1, <2>2, <2>3, <2>4, <2>5 DEF Sync!ScriptStep
<1>7. script' # None /\ script'.op = o BY <1>4, <1>6, SyncAssumption DEF ScriptBecomes, Scripts
<1>8. CatalogueInv' BY <1>0, <1>1 DEF CatalogueInv
<1>9. QueueInv' BY <1>0, <1>1, <1>7 DEF QueueInv
<1>10. \A k, s : Removal(queue', k, s) <=> Removal(queue, k, s) BY <1>1
<1>11. WorkInv'
  <2>1. ScriptIs(o, st2)' BY <1>4, <1>6 DEF ScriptIs, Scripts, ScriptBecomes
  <2>2. o.action = "sync" => o.src \in catalogue' \cup lost' \/ Removal(queue', 1, o.src)
    BY <1>1, <1>2, <1>10
  <2> QED BY <1>6, <2>1, <2>2 DEF WorkInv, Removal, ScriptBecomes
<1>12. ASSUME NEW m \in Modules, installed'[m].src # None
       PROVE  \/ installed'[m].src \in catalogue' \cup lost'
              \/ Removal(queue', 1, installed'[m].src)
              \/ script'.op = Sync!Op("remove", installed'[m].src)
  <2>1. CASE installed'[m].src = installed[m].src
    BY <1>0, <1>1, <1>5, <1>7, <1>10, <1>12, <2>1 DEF DiskInv
  <2>2. CASE o.action = "sync" /\ installed'[m].src = o.src
    BY <1>1, <1>2, <1>10, <2>2
  <2> QED BY <1>6, <1>12, <2>1, <2>2 DEF ScriptBecomes
<1>13. DiskInv' BY <1>6, <1>7, <1>12 DEF DiskInv, Removal, ScriptBecomes
<1>14. SyncsCovered(queue, catalogue \cup lost)'
  BY <1>0, <1>1, <1>10 DEF SyncsCovered, Removal
<1> QED BY <1>8, <1>9, <1>11, <1>13, <1>14 DEF SyncInv

LEMMA SyncKeeps ==
  ASSUME SyncInv, UNCHANGED <<overlayRuns, catalogue, used, installed, queue, script, lost>>
  PROVE  SyncInv'
BY DEF SyncInv, CatalogueInv, QueueInv, WorkInv, DiskInv, ScriptIs, SyncsCovered, Removal

LEMMA NextSync == ASSUME SyncInv, [MCNext]_allVars PROVE SyncInv'
<1>0. Sync!Next \/ UNCHANGED syncVars BY DEF MCNext, allVars
<1>1. CASE UNCHANGED syncVars BY <1>1, SyncKeeps DEF syncVars
<1>2. CASE Sync!Refresh BY <1>2, SyncKeeps DEF Sync!Refresh
<1>3. CASE \E m \in Modules : Sync!Toggle(m) BY <1>3, SyncKeeps DEF Sync!Toggle
<1> QED BY <1>0, <1>1, <1>2, <1>3, SyncPoll, SyncUser, SyncStarts, SyncStops, SyncScript
        DEF Sync!Next, Sync!User

\* What the user removed is gone from the disk once its removal has run, for any sources
\* and modules and any room in the queue, unless an operation of that source was killed,
\* failed or dropped.
THEOREM RemovedIsGoneCorrect == MCSpec => []RemovedIsGone
<1>1. MCInit => SyncInv BY InitSync DEF MCInit
<1>2. SyncInv /\ [MCNext]_allVars => SyncInv' BY NextSync
<1>3. SyncInv => RemovedIsGone
  <2> SUFFICES ASSUME SyncInv PROVE Sync!RemovedIsGone
    BY DEF RemovedIsGone
  <2>1. \A s : Removal(queue, 1, s) => Sync!Op("remove", s) \in Sync!ToSet(queue)
    BY DEF SyncInv, QueueInv, Removal, Sync!ToSet
  <2> QED BY <2>1 DEF SyncInv, DiskInv, Sync!RemovedIsGone, Sync!IsRunning
<1> QED BY <1>1, <1>2, <1>3, PTL DEF MCSpec

=============================================================================
