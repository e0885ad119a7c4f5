----------------------------- MODULE WedgeDetector -----------------------------
(***************************************************************************)
(* The face-tracking driver's wedge detector on top of its HostSupervisor. *)
(*                                                                         *)
(* The host reports itself in two words of the frame segment's header:     *)
(* host_state and host_heartbeat_qpc. The driver's worker thread reads     *)
(* both, and when an active host's heartbeat is too old it calls           *)
(* Restart() and clears both words. Restart() is the supervisor's own,     *)
(* step by step; the worker is its only caller here.                       *)
(*                                                                         *)
(* Time is abstracted: a heartbeat is "stale" once it is older than the    *)
(* threshold of the state it came with (2 s publishing, 5 s idle).         *)
(***************************************************************************)
EXTENDS HostSupervisor

CONSTANTS
  Worker,       \* the worker thread, the one member of Restarters
  MaxWedges     \* bound: hosts that hang

ASSUME WorkerAssumption == Restarters = {Worker} /\ MaxWedges \in Nat

VARIABLES
  hostState,    \* host_state
  heartbeat,    \* host_heartbeat_qpc, by its age
  beatOf,       \* history: the host that wrote the heartbeat
  wedged,       \* hosts that hang: they hold mutex and pipe and write no more
  det,          \* pc of the worker
  detState,     \* host_state as read in this round
  pending,      \* wedge_restart_pending
  recent,       \* the last wedge restart is less than 10 s ago
  wedges

headerVars == <<hostState, heartbeat, beatOf>>
workerVars == <<det, detState, pending, recent>>
watchVars  == <<headerVars, wedged, workerVars, wedges>>
wvars      == <<vars, watchVars>>

\* "active" is Publishing or Idle: they differ in their threshold only.
HostStates == {"legacy", "active", "draining"}

WTypeOK ==
  /\ TypeOK
  /\ hostState \in HostStates /\ detState \in HostStates
  /\ heartbeat \in {"zero", "fresh", "stale"}
  /\ beatOf \in Hosts \cup {NoHandle}
  /\ wedged \subseteq Hosts
  /\ det \in {"poll", "age", "restart", "reset"}
  /\ pending \in BOOLEAN /\ recent \in BOOLEAN
  /\ wedges \in Nat
  /\ rst[Worker] # "idle" => det = "restart"   \* the worker is one thread

WInit ==
  /\ Init
  /\ hostState = "legacy" /\ heartbeat = "zero" /\ beatOf = NoHandle
  /\ wedged = {} /\ wedges = 0
  /\ det = "poll" /\ detState = "legacy"
  /\ pending = FALSE /\ recent = FALSE

(***************************************************************************)
(* The host: RunHostHeartbeatAsync and the end of Program.cs.              *)
(***************************************************************************)
Ticking(h) == proc[h] = "serving" /\ h \notin wedged

WriteHostState(h) ==
  /\ Ticking(h) /\ hostState # "active"
  /\ hostState' = "active"
  /\ UNCHANGED <<vars, heartbeat, beatOf, wedged, workerVars, wedges>>

WriteHeartbeatTick(h) ==
  /\ Ticking(h)
  /\ heartbeat' = "fresh" /\ beatOf' = h
  /\ UNCHANGED <<vars, hostState, wedged, det, detState, pending, recent, wedges>>

\* A shutdown the host itself decided on: the state says so, then it exits.
HostDrains(h) ==
  /\ Ticking(h) /\ crashes < MaxCrashes
  /\ hostState' = "draining"
  /\ proc' = [proc EXCEPT ![h] = "none"]
  /\ code' = [code EXCEPT ![h] = "crash"]
  /\ configured' = [configured EXCEPT ![h] = FALSE]
  /\ crashes' = crashes + 1
  /\ UNCHANGED <<aged, lockVars, running, stopReq, sent, main, monVars, rst, restarts,
                 spawnFails, flaps, heartbeat, beatOf, wedged, workerVars, wedges>>

\* The runtime hangs in a host that has reported itself active.
HostWedges(h) ==
  /\ Ticking(h) /\ wedges < MaxWedges
  /\ hostState = "active" /\ beatOf = h
  /\ wedged' = wedged \cup {h}
  /\ wedges' = wedges + 1
  /\ UNCHANGED <<vars, headerVars, workerVars>>

\* Nobody has written the heartbeat for longer than the threshold.
HeartbeatAges ==
  /\ heartbeat = "fresh" /\ ~\E h \in Hosts : Ticking(h)
  /\ heartbeat' = "stale"
  /\ UNCHANGED <<vars, hostState, beatOf, wedged, workerVars, wedges>>

(***************************************************************************)
(* The worker: the head of WorkerLoop.                                     *)
(***************************************************************************)
ReadHostState ==
  /\ det = "poll"
  /\ detState' = hostState
  /\ det' = "age"
  /\ UNCHANGED <<vars, headerVars, wedged, pending, recent, wedges>>

IsWedged_DrainingOnly == detState = "draining" /\ heartbeat = "stale" \* wrong on purpose

IsWedged == detState = "active" /\ heartbeat = "stale"

\* The age is read, and either the host is fine, or the rate limit holds the
\* restart back, or Restart() is entered.
HeartbeatIsFine ==
  /\ det = "age" /\ ~IsWedged
  /\ det' = "poll"
  /\ pending' = (pending /\ heartbeat = "zero")
  /\ UNCHANGED <<vars, headerVars, wedged, detState, recent, wedges>>

RestartHeldBack ==
  /\ det = "age" /\ IsWedged /\ pending /\ recent
  /\ det' = "poll"
  /\ UNCHANGED <<vars, headerVars, wedged, detState, pending, recent, wedges>>

RestartBegins ==
  /\ det = "age" /\ IsWedged /\ (~pending \/ ~recent)
  /\ RestartResets(Worker)
  /\ det' = "restart"
  /\ UNCHANGED <<headerVars, wedged, detState, pending, recent, wedges>>

\* Restart() has returned. ResetHostLiveness: first the state, then the heartbeat.
ResetState ==
  /\ det = "restart" /\ rst[Worker] = "idle"
  /\ hostState' = "legacy"
  /\ det' = "reset"
  /\ UNCHANGED <<vars, heartbeat, beatOf, wedged, detState, pending, recent,
                 wedges>>

ResetHeartbeat ==
  /\ det = "reset"
  /\ heartbeat' = "zero" /\ beatOf' = NoHandle
  /\ det' = "poll" /\ pending' = TRUE /\ recent' = TRUE
  /\ UNCHANGED <<vars, hostState, wedged, detState, wedges>>

TenSecondsPass ==
  /\ recent /\ recent' = FALSE
  /\ UNCHANGED <<vars, headerVars, wedged, det, detState, pending, wedges>>

(***************************************************************************)
(* The composition: the supervisor's steps, with its free Restart() call   *)
(* replaced by the detector's. A dead process hangs no longer.             *)
(***************************************************************************)
RestartGoesOn ==
  \/ RestartHostExited(Worker) \/ RestartKills(Worker)
  \/ RestartChecksStop(Worker) \/ RestartSpawns(Worker) \/ RestartHook(Worker)

Supervise(A) ==
  /\ A
  /\ wedged' = {h \in wedged : proc'[h] # "none"}
  /\ UNCHANGED <<headerVars, workerVars, wedges>>

HostWrites(h) == WriteHostState(h) \/ WriteHeartbeatTick(h)
WorkerStep == \/ ReadHostState \/ HeartbeatIsFine \/ RestartHeldBack
              \/ RestartBegins \/ ResetState \/ ResetHeartbeat

WNext == \/ Supervise(HostNext \/ MainNext \/ MonNext \/ RestartGoesOn)
         \/ \E h \in Hosts : HostWrites(h) \/ HostDrains(h) \/ HostWedges(h)
         \/ WorkerStep \/ HeartbeatAges \/ TenSecondsPass

WSpec == WInit /\ [][WNext]_wvars

\* Threads are scheduled; a host that does not hang writes its header words.
\* Nothing makes a host hang or exit.
WFairness ==
  /\ WF_wvars(Supervise(MonNext)) /\ WF_wvars(Supervise(RestartGoesOn))
  /\ WF_wvars(Supervise(MainNext /\ ~StopRequests))
  /\ \A h \in Hosts : /\ WF_wvars(Supervise(HostLock(h) \/ HostServe(h)))
                      /\ WF_wvars(WriteHostState(h))
                      /\ WF_wvars(WriteHeartbeatTick(h))
  /\ WF_wvars(WorkerStep) /\ WF_wvars(HeartbeatAges) /\ WF_wvars(TenSecondsPass)

WFairSpec == WSpec /\ WFairness

(***************************************************************************)
(* Properties.                                                             *)
(***************************************************************************)

\* A host that hangs after it reported itself active does not stay: in the end the
\* process that serves the control pipe is one that writes heartbeats. (A host
\* that exits as well may bring a restart whose reset wipes out the next host's
\* first heartbeat; a hang right after it is not seen.)
WedgedIsReplaced == <>[](crashes > 0 \/ \E h \in Hosts : Ticking(h))

=============================================================================
