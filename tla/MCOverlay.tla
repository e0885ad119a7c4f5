----------------------------- MODULE MCOverlay -----------------------------
(***************************************************************************)
(* The overlay: the pipe over which its plugins talk to the driver         *)
(* (OverlayIpc), the switches that decide which modules the driver loads   *)
(* (OverlayShell), what a first launch finds of the programs before it     *)
(* (FirstLaunch), the caption packs it installs (CaptionPacks), and the    *)
(* calibration profile and wizard (CalibrationSession).  The parts share   *)
(* no variable: a behaviour is one of one part, and the others stay as     *)
(* they began.                                                             *)
(***************************************************************************)
EXTENDS OverlayIpc

CONSTANTS
    Modules, Router, Dependents, OldNames, MaxClicks, MaxCloses,   \* OverlayShell
    OldPort, UserPort, MaxLaunches, MaxPortEdits, MayFail,         \* FirstLaunch
    Packs, Runtime, Scripts, MaxScripts, MaxRestarts,              \* CaptionPacks
    Others, NoSystem, MaxSessions, MaxEvents                       \* CalibrationSession

\* 0 stands for a profile that is not there; the runtime is not one of the packs that need it.
ASSUME LaunchAssumption == OldPort \in Nat \ {0}
ASSUME PacksAssumption == Runtime \notin Packs

VARIABLES
    part,
    flags, toggles, helpers, wanted, shown, loaded, up, vr, link, quit, clicks, closes, asked,
    failed, raced,
    pc, newDir, tree, key, ft, router, packs, captionsDir, launches, portEdits, failedSteps,
    files, stamps, script, handle, inUse, scripts, restarts, torn, overlap,
    registry, inSession, ctx, mode, step, pending, first, offered, sessions, events, owed, zeros

Shell == INSTANCE OverlayShell
Launch == INSTANCE FirstLaunch
            WITH MaxStarts <- MaxLaunches, MaxEdits <- MaxPortEdits, starts <- launches,
                 edits <- portEdits, failed <- failedSteps
Captions == INSTANCE CaptionPacks
              WITH MaxStarts <- MaxScripts, starts <- scripts, loaded <- inUse
Session == INSTANCE CalibrationSession
             WITH None <- NoSystem, MaxStarts <- MaxSessions, up <- inSession, asked <- offered,
                  starts <- sessions

ipcVars == vars
shellVars == <<flags, toggles, helpers, wanted, shown, loaded, up, vr, link, quit, clicks,
               closes, asked, failed, raced>>
launchVars == <<pc, newDir, tree, key, ft, router, packs, captionsDir, launches, portEdits, failedSteps>>
packVars == <<files, stamps, script, handle, inUse, scripts, restarts, torn, overlap>>
sessionVars == <<registry, inSession, ctx, mode, step, pending, first, offered, sessions, events, owed,
                 zeros>>
allVars == <<part, ipcVars, shellVars, launchVars, packVars, sessionVars>>

\* Choices of a part that does not run are made for it.
AtRest ==
    /\ part # "ipc" => plugin = "captions" /\ drv.st = "down" /\ drv.match
    /\ part # "shell" => flags = {}
    /\ part # "session" => registry = Session!Value("absent")

MCInit ==
    /\ part \in {"ipc", "shell", "launch", "packs", "session"}
    /\ Init /\ Shell!Init /\ Launch!Init /\ Captions!Init /\ Session!Init /\ AtRest

MCNext ==
    /\ UNCHANGED part
    /\ \/ part = "ipc" /\ Next /\ UNCHANGED <<shellVars, launchVars, packVars, sessionVars>>
       \/ part = "shell" /\ Shell!Next /\ UNCHANGED <<ipcVars, launchVars, packVars, sessionVars>>
       \/ part = "launch" /\ Launch!Next /\ UNCHANGED <<ipcVars, shellVars, packVars, sessionVars>>
       \/ part = "packs" /\ Captions!Next /\ UNCHANGED <<ipcVars, shellVars, launchVars, sessionVars>>
       \/ part = "session" /\ Session!Next /\ UNCHANGED <<ipcVars, shellVars, launchVars, packVars>>

\* The fairness of each part while it runs.
MCFairness ==
    /\ WF_ipcVars(part = "ipc" /\ ClientStep)
    /\ WF_ipcVars(part = "ipc" /\ PluginStep)
    /\ WF_ipcVars(part = "ipc" /\ Serve)
    /\ WF_shellVars(part = "shell" /\ \E h \in helpers : Shell!HelperSteps(h))
    /\ WF_shellVars(part = "shell" /\ Shell!TickToggles)
    /\ WF_shellVars(part = "shell" /\ Shell!DrawModules)
    /\ WF_shellVars(part = "shell" /\ Shell!TryInitVrStack)
    /\ WF_shellVars(part = "shell" /\ Shell!TryCreateOverlay)
    /\ WF_shellVars(part = "shell" /\ Shell!Closes /\ quit)

MCSpec == MCInit /\ [][MCNext]_allVars /\ MCFairness

\* A driver that stays up gets the settings of the plugins: see OverlayIpc, for
\* the plugins' reconnects and heartbeats.
DriverIsSet == part = "ipc" => SettingsReach

\* The last click on a module's switch decides: OverlayShell, for
\* SetFlagPresent and TickToggles.
ClickDecides == Shell!ClickDecides

\* The old OSC port is carried over before it is marked as done: FirstLaunch,
\* for MigrateOscPort and its sentinel.
PortIsCarried == Launch!PortIsCarried

\* The runtime of a pack that is installed stays on disk: CaptionPacks, for the
\* installer scripts.
RuntimeIsKept == Captions!RuntimeIsKept

\* An accepted calibration is found by the next session: CalibrationSession,
\* for SaveProfile and LoadProfile.
SolveSurvives == Session!SolveSurvives

=============================================================================
