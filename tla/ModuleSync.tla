----------------------------- MODULE ModuleSync -----------------------------
(***************************************************************************)
(* Face-tracking modules as the overlay manages them: the catalogue of     *)
(* sources, the sync runner that runs one script at a time from a queue,   *)
(* the script's steps on the disk, and the list of enabled modules, whose  *)
(* first entry the driver is told to run.  A script may fail at any step,  *)
(* hang until the runner kills it, or not start; the overlay may be closed *)
(* at any time, which kills the script and loses the queue.                *)
(*                                                                         *)
(* A source gives one module; its versions, hashes and archives are left   *)
(* out.  A source that is added again is another source.                   *)
(***************************************************************************)
EXTENDS Naturals, Sequences, SequencesExt

CONSTANTS
    Sources, Modules, None,
    Registry,     \* the built-in source: never removed, skips what is on disk
    AutoUpdated,  \* GitHub sources: updated at every start
    Gives,        \* Sources -> Modules
    MaxQueue,     \* 8 in the code
    MaxActs       \* bound: what the user does, and restarts of the overlay

VARIABLES
    running,    \* the overlay runs
    catalogue,  \* sources.json
    used,       \* sources that were ever added
    disk,       \* Modules -> [files, src]: the folder, and what source.json says
    queue,      \* queue_
    proc,       \* the script: its operation and its progress, or None
    listed,     \* g_state.installed: the last scan
    enabled,    \* enabled_module_uuids, in order
    lost,       \* history: sources of operations that did not run to their end
    acts

vars == <<running, catalogue, used, disk, queue, proc, listed, enabled, lost, acts>>

Absent == [files |-> "none", src |-> None]
Op(action, s) == [action |-> action, src |-> s]

TypeOK ==
    /\ running \in BOOLEAN /\ acts \in 0..MaxActs
    /\ catalogue \subseteq used /\ used \subseteq Sources /\ lost \subseteq Sources
    /\ disk \in [Modules -> [files : {"none", "part", "full"}, src : Sources \union {None}]]
    /\ Len(queue) <= MaxQueue
    /\ proc # None => proc.stage \in {"go", "copying", "done", "failed"}
    /\ listed \subseteq Modules /\ enabled \in Seq(Modules)

Init ==
    /\ running = FALSE
    /\ catalogue = {Registry} /\ used = {Registry}
    /\ disk = [m \in Modules |-> Absent]
    /\ queue = <<>> /\ proc = None /\ listed = {}
    /\ enabled = <<>> /\ lost = {} /\ acts = 0

\* A folder counts as a module once it has a manifest, complete or not.
Installed == {m \in Modules : disk[m].files # "none"}

(***************************************************************************)
(* ModuleSyncRunner.                                                       *)
(***************************************************************************)

IsRunning == proc # None

\* The script that is started for an operation.
Script(op) == [op |-> op, stage |-> "go", uuid |-> None]

\* StartAdd, StartUpdate, StartRemove and LaunchNext: the operation is queued,
\* and if no script runs the first in the queue is started.  An operation that
\* finds the queue full, or whose process cannot be created, is dropped.
Start(ops) ==
    LET q == SubSeq(queue \o ops, 1, IF Len(queue \o ops) < MaxQueue
                                    THEN Len(queue \o ops) ELSE MaxQueue)
        refused == {op.src : op \in ToSet(ops)} \ {op.src : op \in ToSet(q)}
    IN IF IsRunning \/ q = <<>>
       THEN queue' = q /\ lost' = lost \union refused /\ UNCHANGED proc
       ELSE /\ queue' = Tail(q)
            /\ \/ proc' = Script(Head(q)) /\ lost' = lost \union refused
               \/ UNCHANGED proc /\ lost' = lost \union refused \union {Head(q).src}

\* LaunchNext at the end of Poll, when proc_ is closed.
LaunchNext ==
    IF queue = <<>> THEN proc' = None /\ UNCHANGED <<queue, lost>>
    ELSE /\ queue' = Tail(queue)
         /\ \/ proc' = Script(Head(queue)) /\ UNCHANGED lost
            \/ proc' = None /\ lost' = lost \union {Head(queue).src}

\* SendEnabledModules: the list is saved and its first entry sent to the driver.
SendEnabledModules(list) == enabled' = list

\* ReconcileEnabledModulesWithInstalled: what is gone from the disk is pruned,
\* what was just installed is put first.
Reconcile(uuid) ==
    LET kept == SelectSeq(enabled, LAMBDA m : m \in Installed)
    IN SendEnabledModules(IF uuid = None \/ uuid \notin Installed \/ Contains(kept, uuid)
                          THEN kept ELSE <<uuid>> \o kept)

\* Poll finds the script ended.  A successful one is followed by a reconcile.
Reaps ==
    /\ running /\ IsRunning /\ proc.stage \in {"done", "failed"}
    /\ IF proc.stage = "done" THEN Reconcile(proc.uuid) ELSE UNCHANGED enabled
    /\ LaunchNext
    /\ UNCHANGED <<running, catalogue, used, disk, listed, acts>>

\* Poll kills a script after 90 seconds.
TimesOut ==
    /\ running /\ IsRunning /\ proc.stage \notin {"done", "failed"}
    /\ LET gone == proc.op.src IN
       IF queue = <<>> THEN proc' = None /\ lost' = lost \union {gone} /\ UNCHANGED queue
       ELSE /\ queue' = Tail(queue)
            /\ \/ proc' = Script(Head(queue)) /\ lost' = lost \union {gone}
               \/ proc' = None /\ lost' = lost \union {gone, Head(queue).src}
    /\ UNCHANGED <<running, catalogue, used, disk, listed, enabled, acts>>

\* Poll without a script: what a failed launch left in the queue.
PollLaunches ==
    /\ running /\ ~IsRunning /\ queue # <<>>
    /\ LaunchNext
    /\ UNCHANGED <<running, catalogue, used, disk, listed, enabled, acts>>

(***************************************************************************)
(* face-module-sync.ps1.                                                   *)
(***************************************************************************)

Module == Gives[proc.op.src]

\* Nothing to do: the registry's module is on the disk.  (A GitHub source is
\* skipped when its release tag is the recorded one, but nothing records it.)
ScriptSkips ==
    /\ IsRunning /\ proc.op.action = "sync" /\ proc.stage = "go"
    /\ proc.op.src = Registry /\ Module \in Installed
    /\ proc' = [proc EXCEPT !.stage = "done"]
    /\ UNCHANGED <<running, catalogue, used, disk, queue, listed, enabled, lost, acts>>

\* The files are copied one by one, over what is there.
ScriptCopies ==
    /\ IsRunning /\ proc.op.action = "sync" /\ proc.stage = "go"
    /\ ~(proc.op.src = Registry /\ Module \in Installed)
    /\ disk' = [disk EXCEPT ![Module].files = "part"]
    /\ proc' = [proc EXCEPT !.stage = "copying"]
    /\ UNCHANGED <<running, catalogue, used, queue, listed, enabled, lost, acts>>

\* source.json is written last, then the result; the registry's names no module.
ScriptInstalls ==
    /\ IsRunning /\ proc.stage = "copying"
    /\ disk' = [disk EXCEPT ![Module] = [files |-> "full", src |-> proc.op.src]]
    /\ proc' = [proc EXCEPT !.stage = "done", 
                                !.uuid = IF proc.op.src = Registry THEN None ELSE Module]
    /\ UNCHANGED <<running, catalogue, used, queue, listed, enabled, lost, acts>>

\* Remove-SourceModules: every folder whose source.json names the source.
ScriptRemoves ==
    /\ IsRunning /\ proc.op.action = "remove" /\ proc.stage = "go"
    /\ disk' = [m \in Modules |-> IF disk[m].src = proc.op.src THEN Absent ELSE disk[m]]
    /\ proc' = [proc EXCEPT !.stage = "done"]
    /\ UNCHANGED <<running, catalogue, used, queue, listed, enabled, lost, acts>>

\* No network, a bad archive, a file in use.
ScriptFails ==
    /\ IsRunning /\ proc.stage \in {"go", "copying"}
    /\ proc' = [proc EXCEPT !.stage = "failed"]
    /\ lost' = lost \union {proc.op.src}
    /\ UNCHANGED <<running, catalogue, used, disk, queue, listed, enabled, acts>>

(***************************************************************************)
(* The Modules tab and the plugin.                                         *)
(***************************************************************************)

\* OnStart: the catalogue is seeded and GitHub sources are queued for an update.
OverlayStarts ==
    /\ ~running /\ running' = TRUE
    /\ listed' = {}
    /\ LET updates == SetToSeq(catalogue \intersect AutoUpdated) IN
       Start([i \in DOMAIN updates |-> Op("sync", updates[i])])
    /\ UNCHANGED <<catalogue, used, disk, enabled, acts>>

\* ~ModuleSyncRunner: the script is terminated, the queue goes with the process.
OverlayStops ==
    /\ running /\ acts < MaxActs
    /\ running' = FALSE /\ acts' = acts + 1
    /\ lost' = lost \union {op.src : op \in ToSet(queue)}
                    \union (IF IsRunning THEN {proc.op.src} ELSE {})
    /\ queue' = <<>> /\ proc' = None
    /\ UNCHANGED <<catalogue, used, disk, listed, enabled>>

\* RefreshIfStale: at most once a second.
Refresh ==
    /\ running /\ listed # Installed
    /\ listed' = Installed
    /\ UNCHANGED <<running, catalogue, used, disk, queue, proc, enabled, lost, acts>>

UserActs == running /\ acts < MaxActs /\ acts' = acts + 1

\* A checkbox of the installed modules: a newly enabled one goes last.
Toggle(m) ==
    /\ UserActs /\ m \in listed
    /\ SendEnabledModules(IF Contains(enabled, m) THEN SelectSeq(enabled, LAMBDA x : x # m)
                          ELSE Append(enabled, m))
    /\ UNCHANGED <<running, catalogue, used, disk, queue, proc, listed, lost>>

\* The dialog for a repository may be open while a script is started.
AddSource(s) ==
    /\ UserActs /\ s \notin used /\ (IsRunning => s \in AutoUpdated)
    /\ catalogue' = catalogue \union {s} /\ used' = used \union {s}
    /\ Start(<<Op("sync", s)>>)
    /\ UNCHANGED <<running, disk, listed, enabled>>

SyncSource(s) ==
    /\ UserActs /\ s \in catalogue /\ ~IsRunning
    /\ Start(<<Op("sync", s)>>)
    /\ UNCHANGED <<running, catalogue, used, disk, listed, enabled>>

\* The source goes from the catalogue, its modules stay.
RemoveSource_Forgets(s) ==
    /\ UserActs /\ s \in catalogue \ {Registry} /\ ~IsRunning
    /\ catalogue' = catalogue \ {s}
    /\ UNCHANGED <<running, used, disk, queue, proc, listed, enabled, lost>>

\* Its modules, as far as the last scan shows them, are disabled, their removal
\* is queued, and the source goes from the catalogue.
RemoveSource(s) ==
    /\ UserActs /\ s \in catalogue \ {Registry} /\ ~IsRunning
    /\ LET next == SelectSeq(enabled, LAMBDA m : ~(m \in listed /\ disk[m].src = s)) IN
       IF next # enabled THEN SendEnabledModules(next) ELSE UNCHANGED enabled
    /\ Start(<<Op("remove", s)>>)
    /\ catalogue' = catalogue \ {s}
    /\ UNCHANGED <<running, used, disk, listed>>

Poll == Reaps \/ TimesOut \/ PollLaunches
ScriptStep == ScriptSkips \/ ScriptCopies \/ ScriptInstalls \/ ScriptRemoves \/ ScriptFails
User == \/ \E m \in Modules : Toggle(m)
        \/ \E s \in Sources : AddSource(s) \/ SyncSource(s) \/ RemoveSource(s)

Next == OverlayStarts \/ OverlayStops \/ Refresh \/ Poll \/ ScriptStep \/ User

\* The overlay polls in every frame.
Fairness == WF_vars(Poll)

Spec == Init /\ [][Next]_vars /\ Fairness

(***************************************************************************)
(* Properties.                                                             *)
(***************************************************************************)

\* What the user removed is gone: a module whose source left the catalogue is on
\* the disk only while its removal is under way, unless an operation of that
\* source was killed, failed or dropped.
RemovedIsGone ==
    \A m \in Modules :
       LET s == disk[m].src IN
       s # None /\ s \notin catalogue =>
          \/ s \in lost
          \/ Op("remove", s) \in ToSet(queue)
          \/ IsRunning /\ proc.op = Op("remove", s)

=============================================================================
