--------------------------- MODULE DriverLifecycle ---------------------------
(***************************************************************************)
(* Loading and unloading of the driver DLL: the modules the provider        *)
(* activates, the MinHook detours SteamVR's threads run, and one IPC server *)
(* thread per feature.  Three kinds of threads:                             *)
(*   - the thread in ServerTrackedDeviceProvider::Init and ::Cleanup        *)
(*     (phase, at: the line it has reached);                                *)
(*   - IPCServer::RunThread of each feature (srv[f]);                       *)
(*   - SteamVR's threads, which enter a detour through a patched function   *)
(*     (det[t]).                                                            *)
(* Sources: ServerTrackedDeviceProvider.cpp, InterfaceHookInjector.cpp,     *)
(* Hooking.h/.cpp, FeatureFlags.cpp, IPCServer.cpp.                         *)
(***************************************************************************)
EXTENDS Naturals, Sequences, FiniteSets

CONSTANTS
    Features,     \* features whose flag file may be present
    Threads,      \* SteamVR threads that call hooked functions
    MaxClients    \* bound: pipe instances of one server

AllFeatures == {"oscrouter", "calibration", "smoothing", "inputhealth",
                "facetracking", "captions"}
Known(f) == f \in Features
\* The order in which Init activates the modules, and that of the servers.
Modules == SelectSeq(<<"oscrouter", "calibration", "smoothing", "inputhealth",
                       "facetracking", "captions">>, Known)
Servers == SelectSeq(<<"calibration", "smoothing", "inputhealth", "facetracking",
                       "oscrouter", "captions">>, Known)
Hooks == {"ggi", "pose", "skeletal", "input"}

VARIABLES
    phase,      \* where Init or Cleanup is
    at,         \* index into the list the phase walks
    flags,      \* featureFlags
    active,     \* activeModules
    mod,        \* each module: "off", "up" (Init done), "down" (Shutdown done)
    srv,        \* each IPCServer
    mh,         \* MinHook is initialised
    hooks,      \* IHook::hooks, the registry
    patched,    \* functions whose first instructions are ours
    doomed,     \* hooks DestroyAll has still to visit
    timedOut,   \* DrainInFlightDetours gave up
    inFlight,   \* g_inFlightDetours
    det,        \* each SteamVR thread
    late        \* threads that were counted only after the drain had ended

provider == <<phase, at, flags, active, mod>>
minhook  == <<mh, hooks, patched, doomed, timedOut>>
detours  == <<inFlight, det, late>>
vars     == <<provider, srv, minhook, detours>>

-----------------------------------------------------------------------------
(* Init *)

Loading == {"modules", "servers", "inject", "running"}
Failing == {"failing", "failed"}
\* Cleanup after DisableHooks has returned.
Torn    == {"shutdown", "stop", "closed"}
Ended   == {"failed", "closed"}
Phases  == Loading \cup Failing \cup Torn \cup {"destroy", "drain"}

NoServer == [pc |-> "none", stop |-> FALSE, ev |-> "null", conn |-> "none",
             pipes |-> 0, wake |-> "no"]

Outside == [pc |-> "out", hook |-> "ggi"]

IsActive(f) == \E i \in DOMAIN active : active[i] = f

\* Flag files present when the DLL is loaded; an unresolved directory counts as none.
DetectFeatureFlags == SUBSET Features

Init ==
    /\ phase = "modules" /\ at = 1
    /\ flags \in DetectFeatureFlags
    /\ active = <<>>
    /\ mod = [f \in Features |-> "off"]
    /\ srv = [f \in Features |-> NoServer]
    /\ mh = FALSE /\ hooks = {} /\ patched = {} /\ doomed = {} /\ timedOut = FALSE
    /\ inFlight = 0
    /\ det = [t \in Threads |-> Outside]
    /\ late = {}

\* activateModule, in Init's order.  Only the face module's Init can fail.
ActivateModule ==
    /\ phase = "modules" /\ at <= Len(Modules)
    /\ LET f == Modules[at]
       IN  \/ /\ f \in flags
              /\ mod' = [mod EXCEPT ![f] = "up"]
              /\ active' = Append(active, f)
           \/ /\ f \notin flags \/ f = "facetracking"
              /\ UNCHANGED <<mod, active>>
    /\ at' = at + 1
    /\ UNCHANGED <<phase, flags, srv, minhook, detours>>

ModulesDone ==
    /\ phase = "modules" /\ at > Len(Modules)
    /\ phase' = "servers" /\ at' = 1
    /\ UNCHANGED <<flags, active, mod, srv, minhook, detours>>

\* IPCServer::Run of every enabled feature.
RunServer ==
    /\ phase = "servers" /\ at <= Len(Servers)
    /\ LET f == Servers[at]
       IN  srv' = IF f \in flags THEN [srv EXCEPT ![f].pc = "start"] ELSE srv
    /\ at' = at + 1
    /\ UNCHANGED <<phase, flags, active, mod, minhook, detours>>

ServersDone ==
    /\ phase = "servers" /\ at > Len(Servers)
    /\ phase' = "inject" /\ at' = 1
    /\ UNCHANGED <<flags, active, mod, srv, minhook, detours>>

\* InjectHooks: nothing to do, MH_Initialize fails, or the first hook is set.
InjectHooks ==
    /\ phase = "inject"
    /\ \/ /\ flags = {} /\ phase' = "running"
          /\ UNCHANGED minhook
       \/ /\ flags # {} /\ phase' = "failing"
          /\ UNCHANGED minhook
       \/ /\ flags # {} /\ phase' = "running"
          /\ mh' = TRUE /\ hooks' = {"ggi"}
          /\ patched' \in {{}, {"ggi"}}
          /\ UNCHANGED <<doomed, timedOut>>
    /\ at' = 1
    /\ UNCHANGED <<flags, active, mod, srv, detours>>

-----------------------------------------------------------------------------
(* Cleanup *)

\* SteamVR calls Cleanup; DisableHooks does nothing unless MinHook is up.
Unload ==
    /\ phase = "running"
    /\ phase' = IF mh THEN "destroy" ELSE "shutdown"
    /\ doomed' = hooks
    /\ at' = Len(active)
    /\ UNCHANGED <<flags, active, mod, srv, mh, hooks, patched, timedOut, detours>>

\* DestroyAll's loop; a hook another thread registers meanwhile may be visited
\* or missed, as the unlocked std::map happens to place it.
DestroyHook ==
    /\ phase = "destroy"
    /\ \E h \in doomed :
          /\ patched' = patched \ {h}
          /\ doomed' = doomed \ {h}
    /\ UNCHANGED <<provider, srv, mh, hooks, timedOut, detours>>

DestroyAll ==
    /\ phase = "destroy" /\ doomed = {}
    /\ hooks' = {}
    /\ phase' = "drain"
    /\ UNCHANGED <<at, flags, active, mod, srv, mh, patched, doomed, timedOut, detours>>

\* DrainInFlightDetours followed by MH_Uninitialize, which unpatches whatever
\* is still patched.
Uninitialize ==
    /\ mh' = FALSE /\ patched' = {}
    /\ phase' = "shutdown"
    /\ UNCHANGED <<at, flags, active, mod, srv, hooks, doomed, detours>>

DrainDone_NoWait ==
    /\ phase = "drain"
    /\ UNCHANGED timedOut
    /\ Uninitialize

DrainDone ==
    /\ phase = "drain" /\ inFlight = 0
    /\ UNCHANGED timedOut
    /\ Uninitialize

\* The 500 ms watchdog.
DrainTimeout ==
    /\ phase = "drain" /\ inFlight > 0
    /\ timedOut' = TRUE
    /\ Uninitialize

\* Modules are shut down in reverse, then the list is cleared.
ShutdownModule ==
    /\ phase = "shutdown" /\ at > 0
    /\ mod' = [mod EXCEPT ![active[at]] = "down"]
    /\ at' = at - 1
    /\ UNCHANGED <<phase, flags, active, srv, minhook, detours>>

ClearModules ==
    /\ phase = "shutdown" /\ at = 0
    /\ active' = <<>>
    /\ phase' = "stop" /\ at' = Len(Servers)
    /\ UNCHANGED <<flags, mod, srv, minhook, detours>>

-----------------------------------------------------------------------------
(* IPCServer::Stop, by the thread in Init or Cleanup *)

\* Init stops the servers forwards when MinHook fails, Cleanup backwards.
Stopping(f) ==
    /\ phase \in {"failing", "stop"} /\ at \in DOMAIN Servers
    /\ f = Servers[at] /\ srv[f].pc # "none"

StopFlag_NoWake(f) ==
    /\ Stopping(f) /\ srv[f].wake = "no"
    /\ srv' = [srv EXCEPT ![f].stop = TRUE, ![f].wake = "join"]
    /\ UNCHANGED <<provider, minhook, detours>>

StopFlag(f) ==
    /\ Stopping(f) /\ srv[f].wake = "no"
    /\ srv' = [srv EXCEPT ![f].stop = TRUE,
                          ![f].wake = IF srv[f].ev \in {"null", "closed"}
                                      THEN "join" ELSE "set"]
    /\ UNCHANGED <<provider, minhook, detours>>

\* SetEvent; on a handle the thread has closed meanwhile it fails.
StopWake(f) ==
    /\ Stopping(f) /\ srv[f].wake = "set"
    /\ srv' = [srv EXCEPT ![f].ev = IF @ = "closed" THEN @ ELSE "set",
                          ![f].wake = "join"]
    /\ UNCHANGED <<provider, minhook, detours>>

NextServer ==
    /\ phase \in {"failing", "stop"} /\ at \in DOMAIN Servers
    /\ LET f == Servers[at]
       IN  srv[f].pc = "none" \/ (srv[f].wake = "join" /\ srv[f].pc = "exited")
    /\ at' = IF phase = "failing" THEN at + 1 ELSE at - 1
    /\ UNCHANGED <<phase, flags, active, mod, srv, minhook, detours>>

\* shmem.Close and the end of Cleanup, or of a failed Init.
Finish ==
    /\ phase \in {"failing", "stop"} /\ at \notin DOMAIN Servers
    /\ phase' = IF phase = "failing" THEN "failed" ELSE "closed"
    /\ UNCHANGED <<at, flags, active, mod, srv, minhook, detours>>

-----------------------------------------------------------------------------
(* IPCServer::RunThread *)

\* ThreadGuard: every open instance and the event are closed.
Exit(f) ==
    srv' = [srv EXCEPT ![f].pc = "exited", ![f].pipes = 0, ![f].ev = "closed",
                          ![f].conn = "none"]

\* CreateEvent, manual reset and initially signalled.
ThreadStart(f) ==
    /\ srv[f].pc = "start"
    /\ \/ srv' = [srv EXCEPT ![f].pc = "connect", ![f].ev = "set"]
       \/ srv' = [srv EXCEPT ![f].pc = "exited"]
    /\ UNCHANGED <<provider, minhook, detours>>

\* CreateAndConnectInstance.  ConnectNamedPipe resets the event; when no pipe
\* could be created it is left as it was, and when the connect fails otherwise
\* nothing will ever signal it again but Stop.
CreateAndConnectInstance(f) ==
    /\ srv[f].pc = "connect"
    /\ \/ srv' = [srv EXCEPT ![f].pc = "test", ![f].ev = "reset", ![f].conn = "pending"]
       \/ srv' = [srv EXCEPT ![f].pc = "test", ![f].ev = "set", ![f].conn = "ready"]
       \/ srv' = [srv EXCEPT ![f].pc = "test", ![f].conn = "none"]
       \/ srv' = [srv EXCEPT ![f].pc = "test", ![f].ev = "reset", ![f].conn = "none"]
    /\ UNCHANGED <<provider, minhook, detours>>

\* A client opens the pipe whose connect is pending.
ClientConnects(f) ==
    /\ srv[f].conn = "pending" /\ srv[f].ev = "reset"
    /\ srv' = [srv EXCEPT ![f].ev = "set"]
    /\ UNCHANGED <<provider, minhook, detours>>

LoopTest(f) ==
    /\ srv[f].pc = "test"
    /\ IF srv[f].stop THEN Exit(f) ELSE srv' = [srv EXCEPT ![f].pc = "wait"]
    /\ UNCHANGED <<provider, minhook, detours>>

\* The event is signalled: a client, or Stop.  A pending connect whose result
\* cannot be read ends the thread; the new instance's first read may fail.
Wakes(f) ==
    /\ srv[f].pc = "wait" /\ srv[f].ev = "set"
    /\ IF srv[f].stop
       THEN Exit(f)
       ELSE \/ /\ srv[f].conn # "none" /\ srv[f].pipes < MaxClients
               /\ srv' = [srv EXCEPT ![f].pc = "connect", ![f].conn = "none",
                                     ![f].pipes = @ + 1]
            \/ srv' = [srv EXCEPT ![f].pc = "connect", ![f].conn = "none"]
            \/ srv[f].conn = "pending" /\ Exit(f)
    /\ UNCHANGED <<provider, minhook, detours>>

WaitFails(f) ==
    /\ srv[f].pc = "wait"
    /\ Exit(f)
    /\ UNCHANGED <<provider, minhook, detours>>

\* A completion routine runs in the alertable wait: a whole request is handed
\* to HandleRequest (a handshake is answered without the modules), anything
\* else closes the instance.
CompletedRead(f) ==
    /\ srv[f].pc = "wait" /\ srv[f].pipes > 0
    /\ \/ srv' = [srv EXCEPT ![f].pc = "walk"]
       \/ srv' = [srv EXCEPT ![f].pc = "test"]
       \/ srv' = [srv EXCEPT ![f].pc = "test", ![f].pipes = @ - 1]
    /\ UNCHANGED <<provider, minhook, detours>>

\* HandleIpcRequest has walked activeModules, unlocked, to the feature's module
\* (one that is shut down, or missing, refuses the request: ResponseInvalid);
\* the answer is written, or the instance closed.
HandleIpcRequest(f) ==
    /\ srv[f].pc = "walk"
    /\ \/ srv' = [srv EXCEPT ![f].pc = "test"]
       \/ srv' = [srv EXCEPT ![f].pc = "test", ![f].pipes = @ - 1]
    /\ UNCHANGED <<provider, minhook, detours>>

-----------------------------------------------------------------------------
(* Detours *)

\* A SteamVR thread jumps from a patched function into ours; it is not counted
\* before EnterDetour has run.
CallHooked(t) ==
    /\ det[t].pc = "out"
    /\ \E h \in patched : det' = [det EXCEPT ![t] = [pc |-> "entered", hook |-> h]]
    /\ UNCHANGED <<provider, srv, minhook, inFlight, late>>

EnterDetour(t) ==
    /\ det[t].pc = "entered"
    /\ det' = [det EXCEPT ![t].pc = "body"]
    /\ inFlight' = inFlight + 1
    /\ late' = IF phase \in Torn THEN late \cup {t} ELSE late
    /\ UNCHANGED <<provider, srv, minhook>>

\* CreateHookInObjectVTable patches the function if it can; the hook is then
\* registered, or not.  A DestroyAll that is under way may see it or miss it.
CreateHook(h, ok, registers) ==
    /\ ok => mh
    /\ patched' = IF ok THEN patched \cup {h} ELSE patched
    /\ hooks' = IF registers THEN hooks \cup {h} ELSE hooks
    /\ doomed' \in IF phase = "destroy" /\ registers THEN {doomed, doomed \cup {h}}
                   ELSE {doomed}

InstallPoseHook ==
    /\ "calibration" \in flags /\ "pose" \notin hooks
    /\ \E ok \in BOOLEAN : CreateHook("pose", ok, TRUE)

\* Registered even when it could not be created.
TryInstallPublicHooks ==
    /\ IsActive("smoothing") /\ "skeletal" \notin hooks
    /\ \E ok \in BOOLEAN : CreateHook("skeletal", ok, TRUE)

\* Registered when created, so that the next query tries again.
TryInstallScalarBooleanHooks ==
    /\ IsActive("inputhealth") /\ "input" \notin hooks
    /\ mod["inputhealth"] = "up"
    /\ \E ok \in BOOLEAN : CreateHook("input", ok, ok)

\* The interface asked for is the server host's, the input's, or another.  The
\* input's leads to the hooks of two modules, one after the other.
DetourGetGenericInterface(t) ==
    /\ det[t].pc = "body" /\ det[t].hook = "ggi"
    /\ \/ TryInstallPublicHooks /\ UNCHANGED det
       \/ /\ \/ InstallPoseHook \/ TryInstallScalarBooleanHooks
             \/ UNCHANGED <<patched, hooks, doomed>>
          /\ det' = [det EXCEPT ![t].pc = "leave"]
    /\ UNCHANGED <<provider, srv, mh, timedOut, inFlight, late>>

\* The body of any other detour.
DetourBody(t) ==
    /\ det[t].pc = "body" /\ det[t].hook # "ggi"
    /\ det' = [det EXCEPT ![t].pc = "leave"]
    /\ UNCHANGED <<provider, srv, minhook, inFlight, late>>

ExitDetour(t) ==
    /\ det[t].pc = "leave"
    /\ det' = [det EXCEPT ![t] = Outside]
    /\ inFlight' = inFlight - 1
    /\ late' = late \ {t}
    /\ UNCHANGED <<provider, srv, minhook>>

-----------------------------------------------------------------------------

InitStep == ActivateModule \/ ModulesDone \/ RunServer \/ ServersDone \/ InjectHooks

CleanupStep ==
    \/ DestroyHook \/ DestroyAll \/ DrainDone \/ DrainTimeout
    \/ ShutdownModule \/ ClearModules \/ NextServer \/ Finish
    \/ \E f \in Features : StopFlag(f) \/ StopWake(f)

\* What the server thread does by itself, as opposed to what a client causes.
ThreadStep(f) ==
    \/ ThreadStart(f) \/ CreateAndConnectInstance(f) \/ LoopTest(f) \/ Wakes(f)
    \/ HandleIpcRequest(f)

ServerStep(f) == ThreadStep(f) \/ ClientConnects(f) \/ WaitFails(f) \/ CompletedRead(f)

DetourStep(t) ==
    \/ CallHooked(t) \/ EnterDetour(t) \/ DetourGetGenericInterface(t)
    \/ DetourBody(t) \/ ExitDetour(t)

Next ==
    \/ InitStep \/ Unload \/ CleanupStep
    \/ \E f \in Features : ServerStep(f)
    \/ \E t \in Threads : DetourStep(t)

\* Threads that can run do run.  A detour may be stuck for ever in a SteamVR
\* lock, so detours are given no fairness.
Fairness == /\ WF_vars(CleanupStep)
            /\ \A f \in Features : WF_vars(ThreadStep(f))

Spec == Init /\ [][Next]_vars /\ Fairness

-----------------------------------------------------------------------------
(* Properties *)

ServerState ==
    [pc : {"none", "start", "connect", "test", "wait", "walk", "exited"},
     stop : BOOLEAN, ev : {"null", "set", "reset", "closed"},
     conn : {"none", "pending", "ready"}, pipes : 0..MaxClients,
     wake : {"no", "set", "join"}]

TypeOK ==
    /\ phase \in Phases /\ at \in Nat
    /\ flags \in SUBSET Features /\ active \in Seq(Features)
    /\ mod \in [Features -> {"off", "up", "down"}]
    /\ srv \in [Features -> ServerState]
    /\ mh \in BOOLEAN /\ timedOut \in BOOLEAN
    /\ hooks \in SUBSET Hooks /\ patched \in SUBSET Hooks /\ doomed \in SUBSET Hooks
    /\ inFlight \in Nat /\ late \in SUBSET Threads
    /\ det \in [Threads -> [pc : {"out", "entered", "body", "leave"}, hook : Hooks]]

Counted(t) == det[t].pc \in {"body", "leave"}

(* A detour that was counted while DisableHooks was still draining has left  *)
(* before the first module is shut down, unless the 500 ms watchdog gave up: *)
(* only a thread caught between the patched jump and EnterDetour can run our *)
(* code next to the tear-down.                                               *)
DrainProtects ==
    phase \in Torn /\ ~timedOut => \A t \in Threads : Counted(t) => t \in late

(* A failed Init and Cleanup come to an end whatever the clients, the server *)
(* threads and a stuck detour do: no stop request is lost between a server's *)
(* test of the flag and its wait.                                            *)
UnloadEnds == (phase \notin Loading) ~> (phase \in Ended)

=============================================================================
