---------------------------- MODULE OverlayShell ----------------------------
(***************************************************************************)
(* The overlay's shell: the Modules tab, whose checkboxes create and       *)
(* delete the flag files through elevated helper processes                 *)
(* (ShellContext.cpp, DrawModules of main.cpp), the driver that reads the  *)
(* flags when SteamVR loads it (FeatureFlags.cpp), and the overlay's own   *)
(* session with SteamVR (VrOverlayHost.cpp), whose quit event closes the   *)
(* overlay while helpers may be running.                                   *)
(***************************************************************************)
EXTENDS Naturals

CONSTANTS
    Modules,      \* the features with a row in the Modules tab
    Router,       \* the OSC router's row
    Dependents,   \* the features that publish through the router
    OldNames,     \* the modules with a flag file of an old name, which only
                  \* the driver reads
    MaxClicks,    \* bound on clicks on a checkbox
    MaxCloses     \* bound on the overlay being closed

VARIABLES
    flags,        \* the modules whose flag file exists
    toggles,      \* g_pendingToggles: the ids of the helpers waited for
    helpers,      \* the helper processes: [mod, want, at, own]
    wanted,       \* the static map of DrawModules: [Modules -> {"unset", "on", "off"}]
    shown,        \* the state of each checkbox as it was drawn last
    loaded,       \* the features of the driver that SteamVR has loaded
    up,           \* the overlay runs
    vr,           \* SteamVR runs
    link,         \* vrReady_ and overlayCreated_: "none", "ready", "created",
                  \* or "dead": ready, with a SteamVR that is gone
    quit,         \* quitRequested_, or the event that will set it
    clicks, closes,
    asked,        \* ghost: what the last click on each row asked for
    failed,       \* ghost: the modules whose last helper did not do its work
    raced         \* ghost: the modules clicked while a helper of an earlier
                  \* overlay was running

disk == <<flags, helpers>>
tab == <<toggles, wanted, shown>>
session == <<vr, link, quit, loaded>>
ghosts == <<asked, failed, raced>>
vars == <<disk, tab, session, up, clicks, closes, ghosts>>

Word(b) == IF b THEN "on" ELSE "off"

TypeOK ==
    /\ flags \subseteq Modules /\ loaded \subseteq Modules
    /\ helpers \subseteq [id : 1..MaxClicks, mod : Modules, want : BOOLEAN,
                          at : {"started", "wrote", "exited"}, own : BOOLEAN]
    /\ toggles \subseteq 1..MaxClicks
    /\ wanted \in [Modules -> {"unset", "on", "off"}]
    /\ shown \in [Modules -> BOOLEAN]
    /\ {up, vr, quit} \subseteq BOOLEAN
    /\ link \in {"none", "ready", "created", "dead"}
    /\ clicks \in 0..MaxClicks /\ closes \in 0..MaxCloses
    /\ asked \in [Modules -> {"unset", "on", "off"}]
    /\ failed \subseteq Modules /\ raced \subseteq Modules

Unset == [m \in Modules |-> "unset"]

Init ==
    /\ flags \in {{}, Modules} /\ helpers = {}
    /\ toggles = {} /\ wanted = Unset /\ shown = [m \in Modules |-> m \in flags]
    /\ loaded = {}
    /\ up = TRUE /\ vr = FALSE /\ link = "none" /\ quit = FALSE
    /\ clicks = 0 /\ closes = 0
    /\ asked = Unset /\ failed = {} /\ raced = {}

-----------------------------------------------------------------------------
(* The helper: an elevated powershell that writes or deletes the flag file, *)
(* then the Start Menu shortcut.  It may fail at either step.               *)

Helper(id) == CHOOSE h \in helpers : h.id = id

\* Nobody waits for a helper of an earlier overlay.
Becomes(h, at) ==
    helpers' = (helpers \ {h}) \cup
                  {g \in {[h EXCEPT !.at = at]} : g.own \/ g.at # "exited"}

HelperWrites(h) ==
    /\ h.at = "started"
    /\ flags' = IF h.want THEN flags \cup {h.mod} ELSE flags \ {h.mod}
    /\ Becomes(h, "wrote")
    /\ UNCHANGED <<tab, session, up, clicks, closes, ghosts>>

HelperExits(h) ==
    /\ h.at = "wrote"
    /\ Becomes(h, "exited")
    /\ UNCHANGED <<flags, tab, session, up, clicks, closes, ghosts>>

\* Killed, or without access to the driver's folder.
HelperFails(h) ==
    /\ h.at = "started"
    /\ Becomes(h, "exited")
    /\ failed' = failed \cup {h.mod}
    /\ UNCHANGED <<flags, tab, session, up, clicks, closes, asked, raced>>

HelperSteps(h) == HelperWrites(h) \/ HelperExits(h) \/ HelperFails(h)

-----------------------------------------------------------------------------
(* A frame of the overlay *)

IsFlagPresent(m) == m \in flags

IsTogglePending(m) == \E id \in toggles : Helper(id).mod = m

\* The toggles whose helper has exited are reported and dropped.
TickToggles ==
    /\ up
    /\ \E id \in toggles : Helper(id).at = "exited"
    /\ toggles' = {id \in toggles : Helper(id).at # "exited"}
    /\ helpers' = helpers \ {h \in helpers : h.own /\ h.at = "exited"}
    /\ UNCHANGED <<flags, wanted, shown, session, up, clicks, closes, ghosts>>

\* The intent is forgotten when no toggle is pending.
RowWanted(m) == IF IsTogglePending(m) THEN wanted[m] ELSE "unset"

DisplayState(m) == IF RowWanted(m) = "unset" THEN IsFlagPresent(m) ELSE RowWanted(m) = "on"

DrawModules ==
    /\ up
    /\ wanted' = [m \in Modules |-> RowWanted(m)]
    /\ shown' = [m \in Modules |-> DisplayState(m)]
    /\ <<wanted, shown>>' # <<wanted, shown>>
    /\ UNCHANGED <<disk, toggles, session, up, clicks, closes, ghosts>>

\* Only the router's dependents block a row.
Blocked_NotPending(m) ==
    m = Router /\ DisplayState(m) /\ \E d \in Dependents : IsFlagPresent(d)

Blocked(m) ==
    \/ IsTogglePending(m)
    \/ m = Router /\ DisplayState(m) /\ \E d \in Dependents : IsFlagPresent(d)

\* A click: the intent is stored, then SetFlagPresent asks for elevation.
Click(m) ==
    /\ up /\ clicks < MaxClicks /\ ~Blocked(m)
    /\ clicks' = clicks + 1
    /\ wanted' = [n \in Modules |->
                    IF n = m THEN Word(~DisplayState(m)) ELSE RowWanted(n)]
    /\ shown' = [n \in Modules |-> DisplayState(n)]

SetFlagPresent(m) ==
    /\ Click(m)
    /\ toggles' = toggles \cup {clicks'}
    /\ helpers' = helpers \cup {[id |-> clicks', mod |-> m, want |-> ~DisplayState(m),
                                 at |-> "started", own |-> TRUE]}
    /\ asked' = [asked EXCEPT ![m] = Word(~DisplayState(m))]
    /\ failed' = failed \ {m}
    /\ raced' = IF \E h \in helpers : h.mod = m /\ ~h.own THEN raced \cup {m}
                                                          ELSE raced
    /\ UNCHANGED <<flags, session, up, closes>>

\* The prompt is dismissed, or the helper does not start.
Refused(m) ==
    /\ Click(m)
    /\ UNCHANGED <<disk, toggles, session, up, closes, ghosts>>

-----------------------------------------------------------------------------
(* The session with SteamVR *)

\* SteamVR loads the driver, which reads the flag files once.
DetectFeatureFlags ==
    /\ ~vr
    /\ vr' = TRUE /\ loaded' = flags \cup OldNames
    /\ UNCHANGED <<disk, tab, link, quit, up, clicks, closes, ghosts>>

\* SteamVR tells its clients that it quits; the event is polled only once
\* the dashboard overlay exists.
SteamVrQuits ==
    /\ vr
    /\ vr' = FALSE /\ loaded' = {}
    /\ quit' = (quit \/ link = "created")
    /\ link' = IF link = "ready" THEN "dead" ELSE link
    /\ UNCHANGED <<disk, tab, up, clicks, closes, ghosts>>

\* The probe as a background application fails while SteamVR is down.
TryInitVrStack ==
    /\ up /\ link = "none" /\ vr
    /\ link' = "ready"
    /\ UNCHANGED <<disk, tab, vr, quit, loaded, up, clicks, closes, ghosts>>

TryCreateOverlay ==
    /\ up /\ link = "ready"
    /\ link' = "created"
    /\ UNCHANGED <<disk, tab, vr, quit, loaded, up, clicks, closes, ghosts>>

\* The window is closed, or the quit event is drained: the process ends, and
\* the helpers it started go on without it.
Closes ==
    /\ up /\ (closes < MaxCloses \/ quit)
    /\ up' = FALSE
    /\ closes' = IF quit THEN closes ELSE closes + 1
    /\ helpers' = {[h EXCEPT !.own = FALSE] : h \in {g \in helpers : g.at # "exited"}}
    /\ toggles' = {} /\ wanted' = Unset
    /\ link' = "none" /\ quit' = FALSE
    /\ UNCHANGED <<flags, shown, vr, loaded, clicks, ghosts>>

Opens ==
    /\ ~up
    /\ up' = TRUE
    /\ shown' = [m \in Modules |-> IsFlagPresent(m)]
    /\ UNCHANGED <<disk, toggles, wanted, session, clicks, closes, ghosts>>

Next ==
    \/ \E h \in helpers : HelperSteps(h)
    \/ TickToggles \/ DrawModules
    \/ \E m \in Modules : SetFlagPresent(m) \/ Refused(m)
    \/ DetectFeatureFlags \/ SteamVrQuits \/ TryInitVrStack \/ TryCreateOverlay
    \/ Closes \/ Opens

\* Helpers end, the overlay's frames go on with the Modules tab in view, and
\* a quit event is drained.
Fairness ==
    /\ WF_vars(\E h \in helpers : HelperSteps(h))
    /\ WF_vars(TickToggles) /\ WF_vars(DrawModules)
    /\ WF_vars(TryInitVrStack) /\ WF_vars(TryCreateOverlay)
    /\ WF_vars(Closes /\ quit)

Spec == Init /\ [][Next]_vars /\ Fairness

-----------------------------------------------------------------------------

(***************************************************************************)
(* The last click decides: once no helper of a module is at work and the   *)
(* last one did its work, the module's flag is what the last click asked   *)
(* for, in whatever order helpers, frames and clicks fall.  A click while  *)
(* a helper of an earlier overlay runs is the exception: the new overlay   *)
(* does not know of it (SetFlagPresent, DrawModules).                      *)
(***************************************************************************)
ClickDecides ==
    \A m \in Modules :
        (/\ asked[m] # "unset" /\ m \notin failed \cup raced
         /\ \A h \in helpers : h.mod = m => h.at # "started")
        => Word(IsFlagPresent(m)) = asked[m]

=============================================================================
