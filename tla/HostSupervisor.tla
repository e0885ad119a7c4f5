---------------------------- MODULE HostSupervisor ----------------------------
(***************************************************************************)
(* HostSupervisorBase: the driver-side supervisor of one sidecar host      *)
(* process (face-tracking module host, captions host).                     *)
(*                                                                         *)
(* Three kinds of thread share the supervisor: the driver thread that      *)
(* calls Start() and Stop(), the monitor thread, and the threads that call *)
(* Restart() (the feature pipe's thread, the wedge detector's worker).     *)
(* Every critical section of process_mutex_ is one step; what happens      *)
(* between two of them (a sleep, a wait, a hook) may interleave.           *)
(*                                                                         *)
(* Time is abstracted: `aged[h]' says that host h has been alive for at    *)
(* least kFastExitThresholdMs; a sleep is a point where others may run.    *)
(***************************************************************************)
EXTENDS Integers, FiniteSets

CONSTANTS
  Hosts,          \* process ids; an id is reused once nothing refers to it
  Leftover,       \* the id of a host of an earlier session, if there is one
  NoHandle,       \* INVALID_HANDLE_VALUE
  Restarters,     \* threads that may call Restart()
  Threshold,      \* kCircuitBreakerThreshold
  MaxCrashes,     \* bound: host exits nobody asked for
  MaxRestarts,    \* bound: calls of Restart()
  MaxSpawnFails,  \* bound: CreateProcessW failures
  MaxFlaps,       \* bound: probes that miss a pipe which is between two clients
  MayStop         \* whether the driver is unloaded at some point

ASSUME HostsAssumption == NoHandle \notin Hosts /\ Leftover \in Hosts
ASSUME ThresholdAssumption == Threshold \in Nat \ {0}
ASSUME BoundsAssumption ==
  /\ MaxCrashes \in Nat /\ MaxRestarts \in Nat
  /\ MaxSpawnFails \in Nat /\ MaxFlaps \in Nat
  /\ MayStop \in BOOLEAN

VARIABLES
  proc,        \* Hosts -> what the operating system knows of each process
  code,        \* Hosts -> exit code of a process that ended by itself
  aged,        \* Hosts -> alive for kFastExitThresholdMs or longer
  configured,  \* Hosts -> the process has received the pending command
  handle,      \* process_handle_
  attached,    \* attached_to_existing_
  running,     \* running_
  halted,      \* halted_
  fastExits,   \* consecutive_fast_exits_
  stopReq,     \* stop_requested_
  sent,        \* uuid_sent_ / command_sent_ of the subclass
  main,        \* pc of the thread that owns the supervisor
  mon,         \* pc of the monitor thread
  cur,         \* cur_handle of the monitor's iteration
  exitSeen,    \* the exit code the monitor read
  backoff,     \* backoff_ms, as an index into 1/2/4/8/16/30 s
  rst,         \* Restarters -> pc of a thread inside Restart()
  crashes, restarts, spawnFails, flaps

osVars    == <<proc, code, aged, configured>>
lockVars  == <<handle, attached, halted, fastExits>>
monVars   == <<mon, cur, exitSeen, backoff>>
boundVars == <<crashes, restarts, spawnFails, flaps>>
vars == <<osVars, lockVars, running, stopReq, sent, main, monVars, rst, boundVars>>

ProcState == {"none", "starting", "locked", "serving"}
ExitCode  == {"none", "crash", "singleton", "still_active"}
MainPc    == {"cleanup", "start", "spawn", "hook", "up", "unmonitored",
              "kill", "join", "stopped", "destroyed"}
MonPc     == {"off", "top", "probe", "detach", "gone", "ready", "wait", "reap",
              "exited", "count", "delay", "spawn", "hook", "done"}
BackoffCap == 5                   \* kBackoffMaxMs
RstPc     == {"idle", "exited", "kill", "check", "spawn", "hook"}

Alive(h)  == proc[h] \in {"starting", "locked", "serving"}
MutexHeld == \E h \in Hosts : proc[h] \in {"locked", "serving"}
PipeUp    == \E h \in Hosts : proc[h] = "serving"

\* An id the operating system may hand out: no process, and no handle keeps it.
Free(h)   ==
  /\ ~Alive(h) /\ h \notin {Leftover, handle}
  /\ cur = h => mon \notin {"ready", "wait", "reap", "exited", "count"}

TypeOK ==
  /\ proc \in [Hosts -> ProcState]
  /\ code \in [Hosts -> ExitCode]
  /\ aged \in [Hosts -> BOOLEAN]
  /\ configured \in [Hosts -> BOOLEAN]
  /\ handle \in Hosts \cup {NoHandle}
  /\ cur \in Hosts \cup {NoHandle}
  /\ attached \in BOOLEAN /\ running \in BOOLEAN /\ halted \in BOOLEAN
  /\ stopReq \in BOOLEAN /\ sent \in BOOLEAN
  /\ backoff \in 0..BackoffCap
  /\ fastExits \in 0..Threshold
  /\ exitSeen \in ExitCode
  /\ main \in MainPc /\ mon \in MonPc /\ rst \in [Restarters -> RstPc]
  /\ crashes \in Nat /\ restarts \in Nat /\ spawnFails \in Nat /\ flaps \in Nat

(***************************************************************************)
(* Init: the supervisor as constructed. A host of an earlier SteamVR       *)
(* session may still be there, serving its pipe or wedged before it.       *)
(***************************************************************************)
Init ==
  /\ \/ proc = [h \in Hosts |-> "none"]
     \/ \E s \in {"locked", "serving"} :
          proc = [h \in Hosts |-> IF h = Leftover THEN s ELSE "none"]
  /\ code = [h \in Hosts |-> "none"]
  /\ aged = [h \in Hosts |-> FALSE]
  /\ configured = [h \in Hosts |-> FALSE]
  /\ handle = NoHandle /\ cur = NoHandle
  /\ attached = FALSE /\ running = FALSE /\ halted = FALSE
  /\ stopReq = FALSE /\ sent = FALSE /\ backoff = 0
  /\ fastExits = 0
  /\ exitSeen = "none"
  /\ main = "cleanup" /\ mon = "off" /\ rst = [r \in Restarters |-> "idle"]
  /\ crashes = 0 /\ restarts = 0 /\ spawnFails = 0 /\ flaps = 0

(***************************************************************************)
(* The host process (Program.cs, HostControlPipeServer.cs).                *)
(***************************************************************************)

\* Startup takes the per-user singleton mutex or exits with code 3.
HostLock(h) ==
  /\ proc[h] = "starting"
  /\ IF MutexHeld
       THEN /\ proc' = [proc EXCEPT ![h] = "none"]
            /\ code' = [code EXCEPT ![h] = "singleton"]
       ELSE /\ proc' = [proc EXCEPT ![h] = "locked"]
            /\ UNCHANGED code
  /\ UNCHANGED <<aged, configured, lockVars, running, stopReq, sent, main,
                 monVars, rst, boundVars>>

\* The control pipe is bound: WaitNamedPipe and CreateFile now succeed.
HostServe(h) ==
  /\ proc[h] = "locked"
  /\ proc' = [proc EXCEPT ![h] = "serving"]
  /\ UNCHANGED <<code, aged, configured, lockVars, running, stopReq, sent,
                 main, monVars, rst, boundVars>>

\* The host has now been up for kFastExitThresholdMs.
HostAges(h) ==
  /\ Alive(h) /\ ~aged[h]
  /\ aged' = [aged EXCEPT ![h] = TRUE]
  /\ UNCHANGED <<proc, code, configured, lockVars, running, stopReq, sent,
                 main, monVars, rst, boundVars>>

\* The host exits by itself: a fault, or a wedged process that is ended.
HostCrash(h) ==
  /\ Alive(h) /\ crashes < MaxCrashes
  /\ proc' = [proc EXCEPT ![h] = "none"]
  /\ code' = [code EXCEPT ![h] = "crash"]
  /\ configured' = [configured EXCEPT ![h] = FALSE]
  /\ crashes' = crashes + 1
  /\ UNCHANGED <<aged, lockVars, running, stopReq, sent, main,
                 monVars, rst, restarts, spawnFails, flaps>>

(***************************************************************************)
(* Helpers shared by the threads.                                          *)
(***************************************************************************)

\* OnHostReady: an unsent command is written to whoever serves the pipe.
OnHostReady ==
  IF ~sent /\ PipeUp
    THEN /\ configured' = [h \in Hosts |->
                             IF proc[h] = "serving" THEN TRUE ELSE configured[h]]
         /\ sent' = TRUE
    ELSE UNCHANGED <<configured, sent>>

\* OnHostExited: the command is to be sent again.
OnHostExited == sent' = FALSE

\* CanConnectToHost: the pipe answers, or it does not. A host that is between
\* two clients has no free pipe instance, so a probe may miss it.
ProbeHits   == PipeUp /\ UNCHANGED flaps
ProbeMisses == \/ ~PipeUp /\ UNCHANGED flaps
               \/ PipeUp /\ flaps < MaxFlaps /\ flaps' = flaps + 1

Tracked == handle # NoHandle /\ Alive(handle)

\* The three ways Spawn()'s critical section ends well, and the one it fails.
SpawnSkips ==
  /\ Tracked
  /\ UNCHANGED <<osVars, lockVars, running, spawnFails, flaps>>

SpawnAttaches ==
  /\ ~Tracked /\ ProbeHits
  /\ attached' = TRUE /\ running' = TRUE
  /\ UNCHANGED <<osVars, handle, halted, fastExits, spawnFails>>

SpawnCreates(h) ==
  /\ ~Tracked /\ ProbeMisses /\ Free(h)
  /\ proc' = [proc EXCEPT ![h] = "starting"]
  /\ code' = [code EXCEPT ![h] = "none"]
  /\ aged' = [aged EXCEPT ![h] = FALSE]
  /\ configured' = [configured EXCEPT ![h] = FALSE]
  /\ handle' = h
  /\ attached' = FALSE /\ running' = TRUE
  /\ UNCHANGED <<halted, fastExits, spawnFails>>

SpawnFails ==
  /\ ~Tracked /\ ProbeMisses /\ spawnFails < MaxSpawnFails
  /\ spawnFails' = spawnFails + 1
  /\ UNCHANGED <<osVars, lockVars, running>>

\* Kill(): ends a host this supervisor created. An attached host without a
\* handle is left alone, and so are attached_to_existing_ and running_. The
\* exit code of a killed host is never read: its handle is closed here.
Kill ==
  IF handle = NoHandle
    THEN UNCHANGED <<osVars, lockVars, running>>
    ELSE /\ IF ~attached /\ Alive(handle)
              THEN /\ proc' = [proc EXCEPT ![handle] = "none"]
                   /\ configured' = [configured EXCEPT ![handle] = FALSE]
              ELSE UNCHANGED <<proc, configured>>
         /\ handle' = NoHandle
         /\ attached' = FALSE /\ running' = FALSE
         /\ UNCHANGED <<code, aged, halted, fastExits>>

(***************************************************************************)
(* The owning thread: CleanupStaleHostIfWedged, Start, Stop.               *)
(***************************************************************************)

\* The mutex is held and the pipe is silent: every host image is terminated.
CleanupStaleHostIfWedged ==
  /\ main = "cleanup"
  /\ main' = "start"
  /\ IF MutexHeld /\ ~PipeUp
       THEN proc' = [h \in Hosts |-> "none"]
       ELSE UNCHANGED proc
  /\ UNCHANGED <<code, aged, configured, lockVars, running, stopReq, sent, monVars,
                 rst, boundVars>>

StartResets ==
  /\ main = "start"
  /\ main' = "spawn"
  /\ stopReq' = FALSE
  /\ halted' = FALSE /\ fastExits' = 0 /\ attached' = FALSE
  /\ UNCHANGED <<osVars, handle, running, sent, monVars, rst,
                 boundVars>>

\* Start() returns false without a monitor thread when its Spawn() fails.
StartSpawns ==
  /\ main = "spawn"
  /\ \/ SpawnSkips /\ main' = "up" /\ mon' = "top"
     \/ SpawnAttaches /\ main' = "hook" /\ UNCHANGED mon
     \/ \E h \in Hosts : SpawnCreates(h) /\ main' = "hook" /\ UNCHANGED mon
     \/ SpawnFails /\ main' = "unmonitored" /\ UNCHANGED mon
  /\ UNCHANGED <<stopReq, sent, cur, exitSeen, backoff, rst,
                 crashes, restarts>>

StartStartsMonitor ==
  /\ main = "hook"
  /\ OnHostReady
  /\ main' = "up" /\ mon' = "top"
  /\ UNCHANGED <<proc, code, aged, lockVars, running, stopReq, cur, exitSeen,
                 backoff, rst, boundVars>>

StopRequests ==
  /\ MayStop /\ main \in {"up", "unmonitored"}
  /\ main' = "kill"
  /\ stopReq' = TRUE
  /\ UNCHANGED <<osVars, lockVars, running, sent, monVars, rst,
                 boundVars>>

StopKills ==
  /\ main = "kill"
  /\ Kill
  /\ main' = "join"
  /\ UNCHANGED <<stopReq, sent, monVars, rst, boundVars>>

StopJoins ==
  /\ main = "join" /\ mon \in {"off", "done"}
  /\ main' = "stopped"
  /\ halted' = FALSE /\ fastExits' = 0
  /\ UNCHANGED <<osVars, handle, attached, running, stopReq, sent, monVars,
                 rst, boundVars>>

\* ~HostSupervisorBase(): Stop() once more, with the monitor already joined. The
\* job object is not modelled: the constructor goes on without one when Windows
\* refuses it, and the supervisor is then on its own.
Destroy_NoSecondStop ==           \* wrong on purpose: the destructor skips Stop()
  /\ main = "stopped"
  /\ main' = "destroyed"
  /\ UNCHANGED <<osVars, lockVars, running, stopReq, sent, monVars, rst, boundVars>>

Destroy ==
  /\ main = "stopped"
  /\ Kill
  /\ main' = "destroyed"
  /\ UNCHANGED <<stopReq, sent, monVars, rst, boundVars>>

(***************************************************************************)
(* Restart(), by any of its callers, while the supervisor exists.          *)
(***************************************************************************)
RestartResets_KeepsHalted(r) ==   \* wrong on purpose: halted_ is not cleared
  /\ rst[r] = "idle" /\ main \in {"up", "unmonitored", "kill", "join"}
  /\ restarts < MaxRestarts /\ restarts' = restarts + 1
  /\ rst' = [rst EXCEPT ![r] = "exited"]
  /\ fastExits' = 0
  /\ UNCHANGED <<osVars, handle, attached, halted, running, stopReq, sent, main,
                 monVars, crashes, spawnFails, flaps>>

RestartResets(r) ==
  /\ rst[r] = "idle" /\ main \in {"up", "unmonitored", "kill", "join"}
  /\ restarts < MaxRestarts /\ restarts' = restarts + 1
  /\ rst' = [rst EXCEPT ![r] = "exited"]
  /\ halted' = FALSE /\ fastExits' = 0
  /\ UNCHANGED <<osVars, handle, attached, running, stopReq, sent, main,
                 monVars, crashes, spawnFails, flaps>>

RestartHostExited(r) ==
  /\ rst[r] = "exited"
  /\ rst' = [rst EXCEPT ![r] = "kill"]
  /\ OnHostExited
  /\ UNCHANGED <<osVars, lockVars, running, stopReq, main, monVars, boundVars>>

RestartKills(r) ==
  /\ rst[r] = "kill"
  /\ rst' = [rst EXCEPT ![r] = "check"]
  /\ Kill
  /\ UNCHANGED <<stopReq, sent, main, monVars, boundVars>>

RestartChecksStop(r) ==
  /\ rst[r] = "check"
  /\ rst' = [rst EXCEPT ![r] = IF stopReq THEN "idle" ELSE "spawn"]
  /\ UNCHANGED <<osVars, lockVars, running, stopReq, sent, main, monVars, boundVars>>

RestartSpawns(r) ==
  /\ rst[r] = "spawn"
  /\ \/ SpawnSkips /\ rst' = [rst EXCEPT ![r] = "idle"]
     \/ SpawnAttaches /\ rst' = [rst EXCEPT ![r] = "hook"]
     \/ \E h \in Hosts : SpawnCreates(h) /\ rst' = [rst EXCEPT ![r] = "hook"]
     \/ SpawnFails /\ rst' = [rst EXCEPT ![r] = "idle"]
  /\ UNCHANGED <<stopReq, sent, main, monVars, crashes, restarts>>

RestartHook(r) ==
  /\ rst[r] = "hook"
  /\ rst' = [rst EXCEPT ![r] = "idle"]
  /\ OnHostReady
  /\ UNCHANGED <<proc, code, aged, lockVars, running, stopReq, main, monVars, boundVars>>

(***************************************************************************)
(* MonitorLoop().                                                          *)
(***************************************************************************)
MonTop ==
  /\ mon = "top"
  /\ \/ stopReq /\ mon' = "done" /\ UNCHANGED cur
     \/ ~stopReq /\ halted /\ UNCHANGED <<mon, cur>>    \* sleep, look again
     \/ /\ ~stopReq /\ ~halted
        /\ cur' = handle
        /\ mon' = IF handle = NoHandle THEN "probe" ELSE "ready"
  /\ UNCHANGED <<osVars, lockVars, running, stopReq, sent, main, exitSeen,
                 backoff, rst, boundVars>>

\* No handle: an attached host is probed; otherwise there is nothing to watch.
MonProbe ==
  /\ mon = "probe"
  /\ \/ ~attached /\ mon' = "top" /\ UNCHANGED <<running, sent, configured, flaps>>
     \/ attached /\ ProbeHits /\ OnHostReady /\ mon' = "top" /\ UNCHANGED running
     \/ /\ attached /\ ProbeMisses
        /\ running' = FALSE /\ mon' = "detach"
        /\ UNCHANGED <<sent, configured>>
  /\ UNCHANGED <<proc, code, aged, lockVars, stopReq, main, cur, exitSeen,
                 backoff, rst, crashes, restarts, spawnFails>>

MonDetach_NoRespawn ==            \* wrong on purpose: back to the loop head
  /\ mon = "detach"
  /\ attached' = FALSE
  /\ OnHostExited
  /\ mon' = "top"
  /\ UNCHANGED <<osVars, handle, halted, fastExits, running, stopReq, main, cur,
                 exitSeen, backoff, rst, boundVars>>

MonDetach ==
  /\ mon = "detach"
  /\ attached' = FALSE
  /\ OnHostExited
  /\ mon' = "gone"
  /\ UNCHANGED <<osVars, handle, halted, fastExits, running, stopReq, main, cur,
                 exitSeen, backoff, rst, boundVars>>

MonReady ==
  /\ mon = "ready"
  /\ OnHostReady
  /\ mon' = "wait"
  /\ UNCHANGED <<proc, code, aged, lockVars, running, stopReq, main, cur,
                 exitSeen, backoff, rst, boundVars>>

\* WaitForSingleObject on the copied handle. It is signalled once the process
\* is dead; it times out while the process lives, and fails at once when
\* another thread has closed the handle.
MonWait ==
  /\ mon = "wait"
  /\ \/ /\ Alive(cur) \/ handle # cur
        /\ mon' = IF stopReq THEN "done" ELSE "top"
        /\ cur' = NoHandle
     \/ ~Alive(cur) /\ stopReq /\ mon' = "done" /\ cur' = NoHandle
     \/ ~Alive(cur) /\ ~stopReq /\ mon' = "reap" /\ UNCHANGED cur
  /\ UNCHANGED <<osVars, lockVars, running, stopReq, sent, main, exitSeen,
                 backoff, rst, boundVars>>

\* The monitor closes whatever process_handle_ is by now.
MonReap ==
  /\ mon = "reap"
  /\ IF handle = NoHandle
       THEN /\ running' = FALSE         \* "Kill() beat us to it"
            /\ mon' = "top" /\ cur' = NoHandle
            /\ UNCHANGED <<handle, exitSeen>>
       ELSE /\ exitSeen' = IF Alive(handle) THEN "still_active" ELSE code[handle]
            /\ handle' = NoHandle
            /\ mon' = "exited"
            /\ UNCHANGED <<running, cur>>
  /\ UNCHANGED <<osVars, attached, halted, fastExits, stopReq, sent, main,
                 backoff, rst, boundVars>>

MonExited ==
  /\ mon = "exited"
  /\ running' = FALSE
  /\ OnHostExited
  /\ mon' = "count"
  /\ UNCHANGED <<osVars, lockVars, stopReq, main, cur, exitSeen, backoff, rst, boundVars>>

IsCleanSingletonExit(c) == c = "singleton"

\* Uptime is measured from the top of this iteration, whose wait is at most
\* max(backoff_ms, 1000): it reaches kFastExitThresholdMs only if backoff_ms does,
\* that is from the second backoff step on.
UptimeVerdicts == {TRUE} \cup {~(backoff > 0 /\ aged[cur])}

MonCount ==
  /\ mon = "count"
  /\ IF IsCleanSingletonExit(exitSeen)
       THEN mon' = "delay" /\ UNCHANGED <<fastExits, halted>>
       ELSE \E fast \in UptimeVerdicts :
              /\ fastExits' = IF fast THEN fastExits + 1 ELSE 0
              /\ halted' = (halted \/ fastExits' >= Threshold)
              /\ mon' = IF fastExits' >= Threshold THEN "top" ELSE "delay"
  /\ cur' = NoHandle /\ exitSeen' = "none"       \* the iteration's locals
  /\ UNCHANGED <<osVars, handle, attached, running, stopReq, sent, main,
                 backoff, rst, boundVars>>

\* After the delay the stop flag is read, and only then Spawn() is entered.
MonDelayEnds ==
  /\ mon \in {"delay", "gone"}
  /\ mon' = IF ~stopReq THEN "spawn" ELSE IF mon = "gone" THEN "top" ELSE "done"
  /\ UNCHANGED <<osVars, lockVars, running, stopReq, sent, main, cur, exitSeen,
                 backoff, rst, boundVars>>

\* The respawn. A failure only lengthens backoff_ms: the next iteration finds
\* no handle and no attached host, and sleeps.
MonSpawns ==
  /\ mon = "spawn"
  /\ \/ SpawnSkips /\ mon' = "top" /\ backoff' = 0
     \/ SpawnAttaches /\ mon' = "hook" /\ backoff' = 0
     \/ \E h \in Hosts : SpawnCreates(h) /\ mon' = "hook" /\ backoff' = 0
     \/ SpawnFails /\ mon' = "top"
        /\ backoff' = IF backoff < BackoffCap THEN backoff + 1 ELSE BackoffCap
  /\ UNCHANGED <<stopReq, sent, main, cur, exitSeen, rst, crashes,
                 restarts>>

MonHook ==
  /\ mon = "hook"
  /\ OnHostReady
  /\ mon' = "top"
  /\ UNCHANGED <<proc, code, aged, lockVars, running, stopReq, main, cur,
                 exitSeen, backoff, rst, boundVars>>

\* The driver thread has nothing to do: it serves SteamVR, or it is gone.
Idle == main \in {"up", "unmonitored", "destroyed"} /\ UNCHANGED vars

HostNext == \E h \in Hosts : HostLock(h) \/ HostServe(h) \/ HostAges(h) \/ HostCrash(h)
MainNext == \/ CleanupStaleHostIfWedged \/ StartResets \/ StartSpawns
            \/ StartStartsMonitor \/ StopRequests \/ StopKills \/ StopJoins
            \/ Destroy
RestartNext(r) == \/ RestartResets(r) \/ RestartHostExited(r) \/ RestartKills(r)
                  \/ RestartChecksStop(r) \/ RestartSpawns(r) \/ RestartHook(r)
MonNext == \/ MonTop \/ MonProbe \/ MonDetach \/ MonReady \/ MonWait \/ MonReap
           \/ MonExited \/ MonCount \/ MonDelayEnds \/ MonSpawns \/ MonHook

Next == \/ HostNext \/ MainNext \/ (\E r \in Restarters : RestartNext(r))
        \/ MonNext \/ Idle

Spec == Init /\ [][Next]_vars

\* Threads are scheduled, and a started host reaches its pipe unless it dies.
\* Nobody is obliged to call Stop() or Restart(), and no host is obliged to exit.
Fairness ==
  /\ WF_vars(MonNext)
  /\ WF_vars(MainNext /\ ~StopRequests)
  /\ \A r \in Restarters : WF_vars(RestartNext(r) /\ ~RestartResets(r))
  /\ \A h \in Hosts : WF_vars(HostLock(h) \/ HostServe(h))

FairSpec == Spec /\ Fairness

(***************************************************************************)
(* Properties.                                                             *)
(***************************************************************************)

\* The circuit breaker is consistent: while halted_ is set the counter has
\* reached the threshold and the monitor is at its loop head or gone, so no
\* respawn is in progress, whatever Restart() and Stop() do meanwhile.
BreakerHolds == halted => fastExits >= Threshold /\ mon \in {"top", "done"}

\* No step of the monitor creates or attaches a host while the breaker is open.
NoRespawnWhileHalted == [][halted => ~MonSpawns]_vars

\* Stop() and the destructor leave no host running that this supervisor created,
\* as long as nobody calls Restart(): its check of the stop flag and its Spawn()
\* are two steps.
LeavesNoHost ==
  main = "destroyed" /\ restarts = 0 => \A h \in Hosts \ {Leftover} : ~Alive(h)

\* A host that dies is replaced: in the end a host serves the control pipe,
\* unless the breaker is open, the driver stops the supervisor, or a process could
\* not be created.
Recovers == <>[](halted \/ stopReq \/ spawnFails > 0 \/ PipeUp)

=============================================================================
