----------------------------- MODULE ModuleHost -----------------------------
(***************************************************************************)
(* The face-tracking host (OpenVRPair.FaceModuleHost): it runs the tracking*)
(* module that the user has selected in a process of its own, asks that    *)
(* process for frames over UDP and publishes them under the module's name. *)
(* The host's main loop, the thread of its control pipe, the socket and    *)
(* the module process interleave; the driver may kill the host at any time *)
(* (HostSupervisor), the user installs and removes modules (ModuleSync).   *)
(*                                                                         *)
(* The code compares references to selections, so that selecting a module  *)
(* again is a change: `changed` says that the selection is not the object  *)
(* the loop works on.  Packets on the loopback are delivered in order and  *)
(* sooner than any timeout of the host; a request may get no answer.  What *)
(* a frame shows is reduced to the module that made it.                    *)
(***************************************************************************)
EXTENDS Naturals, Sequences, FiniteSets

CONSTANTS
    Modules,
    None,
    CrashHaltThreshold,  \* fast exits in a row before a module is given up
    MaxActs,             \* bound: what the user selects, installs and removes
    MaxNet,              \* bound: packets on their way to the host
    MaxKills             \* bound: kills of the host

VARIABLES
    disk,      \* modules installed
    host,      \* "off", "up", "stopping" (cancelled), "gone"
    pc,        \* where RunActiveAsync is
    active,    \* _activeModule
    changed,   \* _activeModule is not the object that the loop works on
    acts,
    mine,      \* the module that the loop works on
    breaker,   \* _breakerUuid and _breakerCount
    slow,      \* this run has outlived FastExitThreshold in a timeout
    proc,      \* the module process
    req,       \* the request on its way to the process, or None
    net,       \* packets on their way to the host
    replies,   \* completed TaskCompletionSources that were not awaited yet
    update,    \* _latestUpdate: the module it comes from, or None
    orphans,   \* live processes whose host was killed
    kills,
    leftover   \* history: modules reaped with packets on their way

loopVars == <<pc, mine, changed, breaker, slow>>
procVars == <<proc, req, net, replies, update>>
vars == <<disk, host, active, acts, loopVars, procVars, orphans, kills, leftover>>

NoBreaker == [mod |-> None, n |-> 0]
Alive == proc \in {"boot", "on"}

TypeOK ==
    /\ disk \subseteq Modules /\ orphans \subseteq Modules /\ leftover \subseteq Modules
    /\ host \in {"off", "up", "stopping", "gone"}
    /\ pc \in {"loop", "chosen", "trip", "spawn", "handshake", "supported", "init", "pull",
               "teardown", "acking", "reap", "ended"}
    /\ {active, mine, update} \subseteq Modules \union {None}
    /\ {changed, slow} \subseteq BOOLEAN
    /\ breaker \in [mod : Modules \union {None}, n : 0..CrashHaltThreshold]
    /\ proc \in {"none", "boot", "on", "dead"}
    /\ req \in {None, "supported", "init", "update", "teardown"}
    /\ \A i \in 1..Len(net) : net[i].mod \in Modules
    /\ replies \subseteq {"handshake", "supported", "init", "teardown"}
    /\ acts \in 0..MaxActs /\ kills \in 0..MaxKills

Init ==
    /\ disk = Modules /\ host = "off"
    /\ acts = 0 /\ orphans = {} /\ kills = 0
    /\ pc = "loop" /\ active = None /\ changed = FALSE /\ mine = None
    /\ breaker = NoBreaker /\ slow = FALSE
    /\ proc = "none" /\ req = None /\ net = <<>> /\ replies = {} /\ update = None
    /\ leftover = {}

(***************************************************************************)
(* The host process.                                                       *)
(***************************************************************************)

Forgets ==
    /\ pc' = "loop" /\ active' = None /\ changed' = FALSE /\ mine' = None
    /\ breaker' = NoBreaker /\ slow' = FALSE
    /\ proc' = "none" /\ req' = None /\ net' = <<>> /\ replies' = {} /\ update' = None
    /\ leftover' = {}

HostStarts ==
    /\ host = "off"
    /\ host' = "up"
    /\ UNCHANGED <<disk, active, acts, loopVars, procVars, orphans, kills, leftover>>

\* The supervisor terminates it, or it crashes: the next one knows nothing but
\* what is on the disk.
HostKilled ==
    /\ host \in {"up", "stopping"} /\ kills < MaxKills
    /\ host' = "off" /\ kills' = kills + 1
    /\ orphans' = orphans \union (IF Alive THEN {mine} ELSE {})
    /\ Forgets
    /\ UNCHANGED <<disk, acts>>

\* MsgShutdown cancels every worker.
Shutdown ==
    /\ host = "up"
    /\ host' = "stopping"
    /\ UNCHANGED <<disk, active, acts, loopVars, procVars, orphans, kills, leftover>>

\* All workers have ended; UnloadAllAsync finds nothing left to tear down.
HostExits ==
    /\ host = "stopping" /\ pc = "ended"
    /\ host' = "gone"
    /\ Forgets
    /\ UNCHANGED <<disk, acts, orphans, kills>>

(***************************************************************************)
(* The control pipe: SelectActive.                                         *)
(***************************************************************************)

Disable ==
    /\ host = "up" /\ active # None
    /\ active' = None /\ changed' = TRUE
    /\ breaker' = NoBreaker
    /\ UNCHANGED <<disk, host, acts, pc, mine, slow, procVars, orphans, kills,
                   leftover>>

\* TryDiscoverModuleAsync: a module with a readable manifest and its files.
Discovered(m) == m \in disk

\* A module is looked up on the disk.  Selecting one gives it a new chance.
SelectActive(m) ==
    /\ host = "up" /\ acts < MaxActs
    /\ acts' = acts + 1
    /\ IF Discovered(m)
       THEN /\ active' = m /\ changed' = TRUE
            /\ breaker' = IF breaker.mod = m THEN NoBreaker ELSE breaker
       ELSE /\ active' = IF active = m THEN None ELSE active
            /\ changed' = (changed \/ active = m)
            /\ UNCHANGED breaker
    /\ UNCHANGED <<disk, host, pc, mine, slow, procVars, orphans, kills, leftover>>

\* The user, through the overlay's sync script.
DiskChanges(m) ==
    /\ acts < MaxActs
    /\ acts' = acts + 1
    /\ disk' = IF m \in disk THEN disk \ {m} ELSE disk \union {m}
    /\ UNCHANGED <<host, active, loopVars, procVars, orphans, kills, leftover>>

(***************************************************************************)
(* The main loop: RunActiveAsync, SpawnAndRunCoreAsync.                    *)
(***************************************************************************)

Running == host \in {"up", "stopping"}
Cancelled == host = "stopping"

LoopEnds ==
    /\ Cancelled /\ pc = "loop"
    /\ pc' = "ended"
    /\ UNCHANGED <<disk, host, active, acts, mine, changed, breaker, slow, procVars,
                   orphans, kills, leftover>>

\* _activeModule is looked at without a lock, and then read again.
SeesSelection ==
    /\ host = "up" /\ pc = "loop" /\ active # None
    /\ pc' = "chosen"
    /\ UNCHANGED <<disk, host, active, acts, mine, changed, breaker, slow, procVars,
                   orphans, kills, leftover>>

\* A selection is taken up, unless its breaker has tripped.
TakesUp ==
    /\ Running /\ pc = "chosen" /\ active # None
    /\ mine' = active /\ changed' = FALSE
    /\ pc' = IF breaker.mod = active /\ breaker.n >= CrashHaltThreshold
             THEN "trip" ELSE "spawn"
    /\ UNCHANGED <<disk, host, active, acts, breaker, slow, procVars, orphans,
                   kills, leftover>>

\* The selection was dropped in between: the null reference ends this worker,
\* the worker that ended ends the host, and the supervisor starts another.
FindsNone ==
    /\ Running /\ pc = "chosen" /\ active = None
    /\ host' = IF Cancelled THEN "gone" ELSE "off"
    /\ Forgets
    /\ UNCHANGED <<disk, acts, orphans, kills>>

\* Whatever is selected by now is dropped.
Trips ==
    /\ Running /\ pc = "trip"
    /\ active' = None
    /\ pc' = "loop" /\ mine' = None /\ changed' = FALSE
    /\ UNCHANGED <<disk, host, acts, breaker, slow, procVars, orphans, kills,
                   leftover>>

\* A new run that keeps the update of the last one.
ResetRun_KeepsUpdate == replies' = {} /\ UNCHANGED update

ResetRun == replies' = {} /\ update' = None

\* Process.Start fails, or the executable is missing: again at once.
SpawnFails ==
    /\ Running /\ pc = "spawn"
    /\ ResetRun
    /\ pc' = "loop" /\ mine' = None /\ changed' = FALSE
    /\ UNCHANGED <<disk, host, active, acts, breaker, slow, proc, req, net,
                   orphans, kills, leftover>>

Spawn ==
    /\ Running /\ pc = "spawn"
    /\ ResetRun
    /\ proc' = "boot"
    /\ req' = None /\ slow' = FALSE
    /\ pc' = "handshake"
    /\ UNCHANGED <<disk, host, active, acts, mine, changed, breaker, net, orphans, kills,
                   leftover>>

\* The three questions before frames flow, and what is asked after each.
Waits == {"handshake", "supported", "init"}
Following == [handshake |-> "supported", supported |-> "init", init |-> "pull"]

Answered ==
    /\ Running /\ pc \in Waits /\ pc \in replies
    /\ replies' = replies \ {pc}
    /\ pc' = Following[pc]
    /\ req' = IF pc = "init" THEN req ELSE Following[pc]
    /\ UNCHANGED <<disk, host, active, acts, mine, changed, breaker, slow, proc, net,
                   update, orphans, kills, leftover>>

\* Thirty seconds without an answer, whether the process lives or not; or the
\* host is stopping.
GivesUp ==
    /\ Running /\ pc \in Waits /\ pc \notin replies
    /\ \/ Cancelled /\ UNCHANGED slow
       \/ ~Cancelled /\ net = <<>> /\ slow' = TRUE
    /\ pc' = "teardown"
    /\ UNCHANGED <<disk, host, active, acts, mine, changed, breaker, procVars,
                   orphans, kills, leftover>>

\* A pull loop that does not look at the selection.
PullEnds_Sticky ==
    /\ Running /\ pc = "pull"
    /\ Cancelled \/ proc = "dead"
    /\ pc' = "teardown"
    /\ UNCHANGED <<disk, host, active, acts, mine, changed, breaker, slow, procVars,
                   orphans, kills, leftover>>

\* The process has exited, or the selection is another one.
PullEnds ==
    /\ Running /\ pc = "pull"
    /\ Cancelled \/ proc = "dead" \/ changed
    /\ pc' = "teardown"
    /\ UNCHANGED <<disk, host, active, acts, mine, changed, breaker, slow, procVars,
                   orphans, kills, leftover>>

\* The module has disappeared from the disk (looked at once a second).
Uninstalled ==
    /\ host = "up" /\ pc = "pull" /\ ~changed /\ mine \notin disk
    /\ active' = None /\ changed' = TRUE
    /\ pc' = "teardown"
    /\ UNCHANGED <<disk, host, acts, mine, breaker, slow, procVars, orphans,
                   kills, leftover>>

\* A frame is asked for, and the latest one published under mine's name.
Pulls ==
    /\ host = "up" /\ pc = "pull" /\ ~changed
    /\ req' = IF req = None THEN "update" ELSE req
    /\ UNCHANGED <<disk, host, active, acts, loopVars, proc, net, replies, update,
                   orphans, kills, leftover>>

(***************************************************************************)
(* TeardownActiveAsync.                                                    *)
(***************************************************************************)

AsksToStop ==
    /\ Running /\ pc = "teardown"
    /\ pc' = IF proc = "dead" THEN "reap" ELSE "acking"
    /\ req' = IF proc = "dead" THEN req ELSE "teardown"
    /\ UNCHANGED <<disk, host, active, acts, mine, changed, breaker, slow, proc, net,
                   replies, update, orphans, kills, leftover>>

\* The reply, or five seconds.
StopsWaiting ==
    /\ Running /\ pc = "acking"
    /\ \/ "teardown" \in replies /\ UNCHANGED slow
       \/ "teardown" \notin replies /\ net = <<>> /\ slow' = TRUE
    /\ pc' = "reap"
    /\ UNCHANGED <<disk, host, active, acts, mine, changed, breaker, procVars,
                   orphans, kills, leftover>>

\* ActiveSubprocess.Dispose: a process that has not exited by now is killed.
Dispose == "none"

\* Then the run is counted: one fast exit more, or a fresh start.
Reap ==
    /\ Running /\ pc = "reap"
    /\ proc' = Dispose /\ req' = None
    /\ \/ /\ ~slow
          /\ breaker' = [mod |-> mine, n |-> IF breaker.mod = mine THEN breaker.n + 1 ELSE 1]
       \/ /\ breaker' = IF breaker.mod = mine THEN NoBreaker ELSE breaker
    /\ leftover' = IF net # <<>> THEN leftover \union {mine} ELSE leftover
    /\ pc' = "loop" /\ mine' = None /\ changed' = FALSE /\ slow' = FALSE
    /\ UNCHANGED <<disk, host, active, acts, net, replies, update, orphans, kills>>

\* ListenAsync: datagrams are taken from the socket one at a time.
Received == Head(net)

\* OnServerPacket: the packet completes its reply, whoever sent it.
OnServerPacket ==
    /\ Running /\ net # <<>>
    /\ LET p == Received IN
       /\ replies' = IF p.kind = "update" THEN replies ELSE replies \union {p.kind}
       /\ update' = IF p.kind = "update" THEN p.mod ELSE update
    /\ net' = Tail(net)
    /\ UNCHANGED <<disk, host, active, acts, loopVars, proc, req, orphans, kills,
                   leftover>>

(***************************************************************************)
(* The module process: ModuleProcessMain.                                  *)
(***************************************************************************)

Sends(kind) == net' = Append(net, [kind |-> kind, mod |-> mine])

Connects ==
    /\ Running /\ proc = "boot" /\ mine # None
    /\ proc' = "on"
    /\ Sends("handshake")
    /\ UNCHANGED <<disk, host, active, acts, loopVars, req, replies, update,
                   orphans, kills, leftover>>

\* The module's code answers in its own time, or never: a module that hangs is
\* one that takes no step any more.  A teardown is acknowledged and ends the
\* process.
Replies ==
    /\ Running /\ proc = "on" /\ req # None /\ Len(net) < MaxNet
    /\ Sends(req)
    /\ req' = None
    /\ proc' = IF req = "teardown" THEN "dead" ELSE "on"
    /\ UNCHANGED <<disk, host, active, acts, loopVars, replies, update, orphans,
                   kills, leftover>>

\* It fails to load the module, or crashes.
Dies ==
    /\ Running /\ Alive
    /\ proc' = "dead" /\ req' = None
    /\ UNCHANGED <<disk, host, active, acts, loopVars, net, replies, update,
                   orphans, kills, leftover>>

\* The watchdog sees the host gone: ten seconds to tear down, then it kills
\* its own process.
ParentWatchdog ==
    /\ orphans # {}
    /\ orphans' = {}
    /\ UNCHANGED <<disk, host, active, acts, loopVars, procVars, kills, leftover>>

Loop == LoopEnds \/ SeesSelection \/ TakesUp \/ FindsNone \/ Trips \/ SpawnFails
        \/ Spawn \/ Answered \/ GivesUp \/ PullEnds \/ Uninstalled \/ Pulls
        \/ AsksToStop \/ StopsWaiting \/ Reap
Process == Connects \/ Replies \/ Dies \/ ParentWatchdog
User == Disable \/ \E m \in Modules : SelectActive(m) \/ DiskChanges(m)
Driver == HostStarts \/ HostKilled \/ Shutdown \/ HostExits

Next == Loop \/ Process \/ OnServerPacket \/ User \/ Driver

\* The loop and the socket's thread run, timeouts elapse, and starting a
\* process succeeds now and then.
Fairness ==
    /\ WF_vars(LoopEnds) /\ WF_vars(SeesSelection) /\ WF_vars(TakesUp)
    /\ WF_vars(Trips) /\ SF_vars(Spawn)
    /\ WF_vars(Answered \/ GivesUp) /\ WF_vars(PullEnds) /\ WF_vars(AsksToStop)
    /\ WF_vars(StopsWaiting) /\ WF_vars(Reap) /\ WF_vars(OnServerPacket)

Spec == Init /\ [][Next]_vars /\ Fairness

(***************************************************************************)
(* Properties.                                                             *)
(***************************************************************************)

\* What Pulls publishes under a module's name was made by that module, across
\* switches, crashes, hung processes and timeouts; only what was still on its
\* way when the process was reaped may slip through.
FrameIsOwn ==
    host = "up" /\ pc = "pull" /\ ~changed => update \in {None, mine} \union leftover

\* A selection takes effect: the host gets to run the selected module, though
\* the one before hangs in any of its steps, unless it is changed or dropped.
SelectionApplies ==
    \A m \in Modules :
       (host = "up" /\ active = m)
          ~> (active # m \/ host # "up" \/ (mine = m /\ Alive))
=============================================================================
