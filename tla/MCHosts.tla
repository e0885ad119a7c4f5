------------------------------ MODULE MCHosts ------------------------------
(***************************************************************************)
(* The hosts: the driver's supervisor of them (HostSupervisor), the face   *)
(* host and the module process it runs (ModuleHost), and the sync of the   *)
(* face modules on disk (ModuleSync).  The parts share no variable: a      *)
(* behaviour is one of one part, and the others stay as they began.        *)
(***************************************************************************)
EXTENDS HostSupervisor

CONSTANTS
    Modules, None, CrashHaltThreshold, MaxActs, MaxNet, MaxKills,  \* ModuleHost
    Sources, Registry, AutoUpdated, Gives, MaxQueue, MaxSyncs,     \* ModuleSync
    A, B, folder, repo,
    Parts                                                          \* what a run is about

ASSUME HostPartsAssumption == Parts \subseteq {"supervisor", "face", "sync"}

VARIABLES
    part,
    disk, host, pc, active, changed, acts, mine, breaker, slow, child, req, net, replies,
    update, orphans, kills, leftover,
    overlayRuns, catalogue, used, installed, queue, script, listed, enabled, lost, syncActs

\* A folder and a repository give the same module.
GivenBy == [s \in Sources |-> IF s \in {folder, repo} THEN B ELSE A]

Face == INSTANCE ModuleHost WITH proc <- child
Sync == INSTANCE ModuleSync
          WITH MaxActs <- MaxSyncs, running <- overlayRuns, disk <- installed, proc <- script,
               acts <- syncActs

\* The operations of the sync runner and the scripts at work on them: None is no script.
AllSources == Sources \union {Registry}
Ops == [action : {"sync", "remove"}, src : AllSources]
Scripts == [op : Ops, stage : {"go", "copying", "done", "failed"},
            uuid : {None} \union {Gives[s] : s \in Sources}]

ASSUME SyncAssumption == MaxQueue \in Nat \ {0} /\ None \notin Scripts

supervisorVars == vars
faceVars == <<disk, host, pc, active, changed, acts, mine, breaker, slow, child, req, net,
              replies, update, orphans, kills, leftover>>
syncVars == <<overlayRuns, catalogue, used, installed, queue, script, listed, enabled, lost,
              syncActs>>
allVars == <<part, supervisorVars, faceVars, syncVars>>

\* Whether a host of an earlier session runs is a choice, of the supervisor's part.
AtRest == part # "supervisor" => proc = [h \in Hosts |-> "none"]

MCInit == part \in Parts /\ Init /\ Face!Init /\ Sync!Init /\ AtRest

MCNext ==
    /\ UNCHANGED part
    /\ \/ part = "supervisor" /\ Next /\ UNCHANGED <<faceVars, syncVars>>
       \/ part = "face" /\ Face!Next /\ UNCHANGED <<supervisorVars, syncVars>>
       \/ part = "sync" /\ Sync!Next /\ UNCHANGED <<supervisorVars, faceVars>>

\* The fairness of each part while it runs.
MCFairness ==
    /\ WF_supervisorVars(part = "supervisor" /\ MonNext)
    /\ WF_supervisorVars(part = "supervisor" /\ MainNext /\ ~StopRequests)
    /\ \A r \in Restarters :
          WF_supervisorVars(part = "supervisor" /\ RestartNext(r) /\ ~RestartResets(r))
    /\ \A h \in Hosts : WF_supervisorVars(part = "supervisor" /\ (HostLock(h) \/ HostServe(h)))
    /\ WF_faceVars(part = "face" /\ Face!LoopEnds)
    /\ WF_faceVars(part = "face" /\ Face!SeesSelection)
    /\ WF_faceVars(part = "face" /\ Face!TakesUp)
    /\ WF_faceVars(part = "face" /\ Face!Trips) /\ SF_faceVars(part = "face" /\ Face!Spawn)
    /\ WF_faceVars(part = "face" /\ (Face!Answered \/ Face!GivesUp))
    /\ WF_faceVars(part = "face" /\ Face!PullEnds) /\ WF_faceVars(part = "face" /\ Face!AsksToStop)
    /\ WF_faceVars(part = "face" /\ Face!StopsWaiting) /\ WF_faceVars(part = "face" /\ Face!Reap)
    /\ WF_faceVars(part = "face" /\ Face!OnServerPacket)

MCSpec == MCInit /\ [][MCNext]_allVars /\ MCFairness

\* What is published under a module's name was made by that module: ModuleHost, for
\* the loop's runs, its timeouts and the socket between them.
FrameIsOwn == Face!FrameIsOwn

\* The module that was selected comes to run: ModuleHost, for SelectActive
\* and the supervisor's loop.
SelectedRuns == part = "face" => Face!SelectionApplies

\* A source that was removed leaves no module behind: ModuleSync, for the queue
\* of the sync runner and its scripts.
RemovedIsGone == Sync!RemovedIsGone
=============================================================================
