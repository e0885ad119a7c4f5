------------------------- MODULE CalibrationSession -------------------------
(***************************************************************************)
(* The calibration overlay from one start to the next: the profile it      *)
(* loads from the registry and saves to it (Configuration.cpp), the setup  *)
(* wizard (Wizard.cpp), the buttons of the main window that change the     *)
(* profile, and the solver's results.  All of it runs on the UI thread;    *)
(* what makes it hard is what a save leaves behind when the process is     *)
(* gone and the next one loads.                                            *)
(*                                                                         *)
(* A calibration is the number of the solve or edit that made it, 0 none.  *)
(* Of the settings the calibration speed is kept: it is the one that a     *)
(* migration rewrites.  The chaperone and the poses are left out.          *)
(***************************************************************************)
EXTENDS Naturals, Sequences, FiniteSets

CONSTANTS
    Others,      \* tracking systems besides the HMD's
    None,        \* no system
    MaxStarts,   \* bound: starts of the overlay
    MaxEvents    \* bound: solves, edits, recoveries, changed settings, wizards opened

VARIABLES
    registry,    \* the "Config" value
    up,          \* the overlay runs
    ctx,         \* CalCtx: the fields that a profile holds, and validProfile
    mode,        \* CalCtx.state
    step,        \* the wizard's step
    pending,     \* pendingSystems
    first,       \* firstSystem
    asked,       \* s_firstRunChecked
    starts,
    events,
    owed,        \* history: the calibration the user has seen saved
    zeros        \* history: where the zeros of an automatic recovery are

wizard == <<step, pending, first>>
bounded == <<starts, events>>
vars == <<registry, up, ctx, mode, wizard, asked, bounded, owed, zeros>>

kProfileSchemaVersion == 3
Unset == "unset"

\* A CalibrationContext as it is constructed.
Fresh == [valid |-> FALSE, cal |-> 0, system |-> None, extras |-> <<>>,
          wizard |-> FALSE, speed |-> "auto"]

\* A value of the registry; its keys matter only for a profile.
Value(kind) == [kind |-> kind, version |-> kProfileSchemaVersion, cal |-> 0,
                system |-> None, extras |-> <<>>, wizard |-> FALSE, speed |-> Unset,
                autostart |-> FALSE]

\* A profile of the schema before AUTO was a speed and SLOW the default.
Legacy == [Value("profile") EXCEPT !.version = 1, !.cal = 1, !.speed = "slow",
                                   !.system = CHOOSE s \in Others : TRUE]

TypeOK ==
    /\ registry.kind \in {"absent", "empty", "newer", "corrupt", "profile"}
    /\ ctx.system \in Others \union {None} /\ ctx.cal \in 0..MaxEvents
    /\ {up, ctx.valid, ctx.wizard, first, asked} \subseteq BOOLEAN
    /\ mode \in {"none", "standby", "editing", "oneshot", "continuous"}
    /\ step \in {"Inactive", "Welcome", "NoCalibrationNeeded", "PickTarget",
                 "Calibrating", "SystemDone", "AllDone"}
    /\ pending \in Seq(Others)
    /\ starts \in 0..MaxStarts /\ events \in 0..MaxEvents /\ owed \in 0..MaxEvents
    /\ zeros \in {"nowhere", "memory", "registry"}

Init ==
    /\ registry \in {Value("absent"), Value("newer"), Value("corrupt"), Legacy}
    /\ up = FALSE /\ ctx = Fresh /\ mode = "none"
    /\ step = "Inactive" /\ pending = <<>> /\ first = TRUE
    /\ asked = FALSE
    /\ starts = 0 /\ events = 1
    /\ owed = registry.cal /\ zeros = "nowhere"

(***************************************************************************)
(* Configuration.cpp.                                                      *)
(***************************************************************************)

\* A setting that has its default is not written.
WriteSettings(c) == IF c.speed = Fresh.speed THEN Unset ELSE c.speed

\* Without a key the setting keeps its default.
ReadSettings(p) == IF p.speed = Unset THEN Fresh.speed ELSE p.speed

WriteProfile(c, m) ==
    [Value("profile") EXCEPT
       !.cal = c.cal, !.system = c.system,
       !.extras = c.extras, !.wizard = c.wizard, !.speed = WriteSettings(c),
       !.autostart = m \in {"continuous", "standby"}]

\* Without a valid profile the text is empty, and is written all the same.
Serialized(c, m) == IF c.valid THEN WriteProfile(c, m) ELSE Value("empty")

\* SaveProfile.  The registry may refuse; then the value stays as it was.
SaveProfile(c, m) ==
    \/ registry' = Serialized(c, m)
    \/ UNCHANGED registry

\* Whether the save in this step has reached the registry.
Reached(c, m) == registry' = Serialized(c, m)

\* The save of a context that a recovery has zeroed takes the zeros with it.
SaveContext(c, m) ==
    /\ SaveProfile(c, m)
    /\ zeros' = IF zeros = "memory" /\ Reached(c, m) THEN "registry" ELSE zeros

\* The zeros once the memory holds none: after a new calibration, or no process.
ZerosLeft == IF zeros = "memory" THEN "nowhere" ELSE zeros

MigrateProfile(p) ==
    IF p.version < 2 /\ p.speed = "slow" THEN [p EXCEPT !.speed = "auto"] ELSE p

\* The calibration, the extras and the wizard's flag of a profile.
ReadProfile(p) ==
    [valid |-> TRUE, cal |-> p.cal, system |-> p.system, extras |-> p.extras,
     wizard |-> p.wizard, speed |-> ReadSettings(p)]

\* ParseProfile refuses a newer version; reading a corrupt one ends with an
\* exception, by which time the autostart flag may have been read.
ParseProfile ==
    IF registry.kind = "profile"
    THEN /\ ctx' = ReadProfile(MigrateProfile(registry))
         /\ mode' = IF registry.autostart THEN "standby" ELSE "none"
    ELSE /\ ctx' = Fresh
         /\ mode' \in IF registry.kind = "corrupt" THEN {"none", "standby"} ELSE {"none"}

\* The wizard's State{}: the rest of it is dead while it is inactive.
Inactive == step' = "Inactive" /\ pending' = <<>> /\ first' = TRUE

\* CCal_UmbrellaStart, in a new process.
LoadProfile ==
    /\ ~up /\ starts < MaxStarts /\ starts' = starts + 1
    /\ up' = TRUE
    /\ \/ ParseProfile /\ UNCHANGED <<owed>>
       \/ /\ registry.kind # "absent"       \* ReadFailed
          /\ ctx' = Fresh /\ mode' = "none"
          /\ owed' = 0
    /\ UNCHANGED <<registry, wizard, asked, events, zeros>>

\* The overlay is closed, or dies.
Exit ==
    /\ up
    /\ up' = FALSE
    /\ ctx' = Fresh /\ mode' = "none" /\ asked' = FALSE
    /\ Inactive
    /\ zeros' = ZerosLeft
    /\ UNCHANGED <<registry, bounded, owed>>

(***************************************************************************)
(* The main window, unless the wizard's modal covers it.                   *)
(***************************************************************************)

Main == up /\ step = "Inactive"

\* BuildSystemSelection, drawn in every frame outside continuous mode: with no
\* other system present the target is erased, and an erased one is replaced.
BuildSystemSelection(present) ==
    /\ Main /\ mode \in {"none", "editing"}
    /\ \E s \in present \union {None} :
          /\ s = None <=> present = {}
          /\ ctx' = [ctx EXCEPT !.system = s]
    /\ UNCHANGED <<registry, up, mode, wizard, asked, bounded, owed, zeros>>

\* A setting is changed and the profile saved.
ChangeSetting(speed) ==
    /\ Main /\ mode \in {"none", "continuous", "standby"}
    /\ events < MaxEvents /\ events' = events + 1
    /\ ctx' = [ctx EXCEPT !.speed = speed]
    /\ SaveContext(ctx', mode)
    /\ UNCHANGED <<up, mode, wizard, asked, starts, owed>>

\* Clear does not touch the extras, the speed and the wizard's flag.
Clear(c) == [c EXCEPT !.valid = FALSE, !.cal = 0, !.system = None]

\* "Clear Calibration" and "Clear profile".
ClearProfile ==
    /\ Main /\ mode = "none" /\ ctx.valid
    /\ ctx' = Clear(ctx)
    /\ SaveProfile(ctx', mode)
    /\ owed' = 0 /\ zeros' = "nowhere"
    /\ UNCHANGED <<up, mode, wizard, asked, bounded>>

EditCalibration ==
    /\ Main /\ mode = "none" /\ ctx.valid
    /\ mode' = "editing"
    /\ UNCHANGED <<registry, up, ctx, wizard, asked, bounded, owed, zeros>>

\* BuildProfileEditor works on CalCtx itself.
Edit ==
    /\ Main /\ mode = "editing"
    /\ events < MaxEvents /\ events' = events + 1
    /\ ctx' = [ctx EXCEPT !.cal = events']
    /\ zeros' = ZerosLeft
    /\ UNCHANGED <<registry, up, mode, wizard, asked, starts, owed>>

\* The editor's "Save Profile".
SaveEdit ==
    /\ Main /\ mode = "editing"
    /\ mode' = "none"
    /\ SaveProfile(ctx, mode)
    /\ owed' = IF Reached(ctx, mode) THEN ctx.cal ELSE owed
    /\ zeros' = IF Reached(ctx, mode) THEN "nowhere" ELSE zeros
    /\ UNCHANGED <<up, ctx, wizard, asked, bounded>>

StartCalibration ==
    /\ Main /\ mode = "none"
    /\ mode' = "oneshot"
    /\ UNCHANGED <<registry, up, ctx, wizard, asked, bounded, owed, zeros>>

\* The button, or the tick in standby once the devices are there.
StartContinuousCalibration ==
    /\ up
    /\ \/ Main /\ mode = "none"
       \/ mode = "standby"
    /\ mode' = "continuous"
    /\ UNCHANGED <<registry, up, ctx, wizard, asked, bounded, owed, zeros>>

EndContinuousCalibration ==
    /\ Main /\ mode \in {"continuous", "standby"}
    /\ mode' = "none"
    /\ SaveContext(ctx, mode')
    /\ UNCHANGED <<up, ctx, wizard, asked, bounded, owed>>

(***************************************************************************)
(* The end of CalibrationTick.                                             *)
(***************************************************************************)

\* The profile is saved before the flag that lets it be written is set.
Accepted_SavesFirst(c) == [c EXCEPT !.cal = events + 1]

Accepted(c) == [c EXCEPT !.cal = events + 1, !.valid = TRUE]

\* An accepted solve: CalCtx is set and the profile saved.
AcceptSolve ==
    /\ up /\ mode \in {"oneshot", "continuous"}
    /\ events < MaxEvents /\ events' = events + 1
    /\ ctx' = [Accepted(ctx) EXCEPT !.valid = TRUE]
    /\ SaveProfile(Accepted(ctx), mode)
    /\ owed' = IF Reached(Accepted(ctx), mode) THEN events' ELSE owed
    /\ zeros' = IF Reached(Accepted(ctx), mode) THEN "nowhere" ELSE ZerosLeft
    /\ mode' = IF mode = "oneshot" THEN "none" ELSE mode
    /\ UNCHANGED <<up, wizard, asked, starts>>

\* A one-shot solve that fails or is rejected as degenerate.
FailSolve ==
    /\ up /\ mode = "oneshot"
    /\ mode' = "none"
    /\ UNCHANGED <<registry, up, ctx, wizard, asked, bounded, owed, zeros>>

\* The relocalization detector fires, at a tick of continuous mode: the
\* calibration of CalCtx is zeroed with validProfile left as it was, and
\* nothing is saved.  (Undo restores other fields of CalCtx than these.)
RecoverFromWedgedCalibration ==
    /\ up /\ mode \in {"continuous", "standby"}
    /\ events < MaxEvents /\ events' = events + 1
    /\ ctx' = [ctx EXCEPT !.cal = 0]
    /\ mode' = "continuous"
    /\ zeros' = IF zeros = "nowhere" THEN "memory" ELSE zeros
    /\ UNCHANGED <<registry, up, wizard, asked, starts, owed>>

\* An extra is solved on its own, and saved with the primary's next solve.
SolveExtra(i) ==
    /\ up /\ mode = "continuous"
    /\ events < MaxEvents /\ events' = events + 1
    /\ ctx' = [ctx EXCEPT !.extras[i].cal = events']
    /\ UNCHANGED <<registry, up, mode, wizard, asked, starts, owed, zeros>>

(***************************************************************************)
(* The wizard.                                                             *)
(***************************************************************************)

Welcome == step' = "Welcome" /\ pending' = <<>> /\ first' = TRUE

\* Open, from the button ...
Open ==
    /\ Main /\ mode \in {"none", "continuous", "standby"}
    /\ events < MaxEvents /\ events' = events + 1
    /\ Welcome
    /\ UNCHANGED <<registry, up, ctx, mode, asked, starts, owed, zeros>>

\* ... or once in the process's life, when VR is there.
FirstRun ==
    /\ up /\ ~asked
    /\ asked' = TRUE
    /\ IF ~ctx.wizard /\ step = "Inactive" THEN Welcome ELSE UNCHANGED wizard
    /\ UNCHANGED <<registry, up, ctx, mode, bounded, owed, zeros>>

\* The systems that are present, in the order of their devices.
Orders == UNION {{s \in [1 .. n -> Others] : \A i, j \in 1 .. n : s[i] = s[j] => i = j} :
                   n \in 0 .. Cardinality(Others)}

Continue(order) ==
    /\ up /\ step = "Welcome"
    /\ pending' = order /\ first' = TRUE
    /\ step' = IF order = <<>> THEN "NoCalibrationNeeded" ELSE "PickTarget"
    /\ UNCHANGED <<registry, up, ctx, mode, asked, bounded, owed, zeros>>

\* The wizard is over or dismissed: what its flag says is saved.
Completed ==
    /\ ctx' = [ctx EXCEPT !.wizard = TRUE]
    /\ SaveContext(ctx', mode)

\* "Skip wizard", "Got it", "Cancel", and Escape in any step.
Dismiss ==
    /\ up /\ step # "Inactive"
    /\ Inactive
    /\ Completed
    /\ UNCHANGED <<up, mode, asked, bounded, owed>>

\* DrawPickTarget, "Start calibration": the first system becomes the primary.
PickTarget ==
    /\ up /\ step = "PickTarget"
    /\ step' = "Calibrating"
    /\ IF first
       THEN /\ ctx' = [ctx EXCEPT !.system = Head(pending)]
            /\ mode' = "continuous"
       ELSE /\ ctx' = [ctx EXCEPT !.extras =
                         Append(@, [system |-> Head(pending), cal |-> 0])]
            /\ UNCHANGED mode
    /\ UNCHANGED <<registry, up, pending, first, asked, bounded, owed, zeros>>

NextSystem == pending' = Tail(pending) /\ first' = FALSE

SkipSystem ==
    /\ up /\ step = "PickTarget"
    /\ NextSystem
    /\ IF pending' = <<>>
       THEN step' = "AllDone" /\ Completed
       ELSE step' = "PickTarget" /\ UNCHANGED <<ctx, registry, zeros>>
    /\ UNCHANGED <<up, mode, asked, bounded, owed>>

\* "This system is done".
SystemDone ==
    /\ up /\ step = "Calibrating"
    /\ NextSystem
    /\ step' = "SystemDone"
    /\ UNCHANGED <<registry, up, ctx, mode, asked, bounded, owed, zeros>>

\* "Yes, calibrate next".
CalibrateNext ==
    /\ up /\ step = "SystemDone" /\ pending # <<>>
    /\ step' = "PickTarget"
    /\ UNCHANGED <<registry, up, ctx, mode, pending, first, asked, bounded, owed, zeros>>

\* "No, finish wizard", or nothing is left.
EnterAllDone ==
    /\ up /\ step = "SystemDone"
    /\ step' = "AllDone"
    /\ Completed
    /\ UNCHANGED <<up, mode, pending, first, asked, bounded, owed>>

Close ==
    /\ up /\ step = "AllDone"
    /\ Inactive
    /\ UNCHANGED <<registry, up, ctx, mode, asked, bounded, owed, zeros>>

Next ==
    \/ LoadProfile \/ Exit
    \/ \E present \in SUBSET Others : BuildSystemSelection(present)
    \/ \E speed \in {"slow", "auto"} : ChangeSetting(speed)
    \/ ClearProfile \/ EditCalibration \/ Edit \/ SaveEdit
    \/ StartCalibration \/ StartContinuousCalibration \/ EndContinuousCalibration
    \/ AcceptSolve \/ FailSolve \/ RecoverFromWedgedCalibration
    \/ \E i \in DOMAIN ctx.extras : SolveExtra(i)
    \/ Open \/ FirstRun \/ \E order \in Orders : Continue(order)
    \/ Dismiss \/ PickTarget \/ SkipSystem \/ SystemDone \/ CalibrateNext
    \/ EnterAllDone \/ Close

Spec == Init /\ [][Next]_vars

(***************************************************************************)
(* Properties.                                                             *)
(***************************************************************************)

\* A calibration that was solved or edited and has reached the registry is
\* still there, or one that was made after it, whatever is saved later and
\* however often the overlay is restarted, until the user clears it.  One thing
\* takes its place: the zeros of an automatic recovery, when any button saves
\* the profile before the next accepted solve.  (A start that cannot read the
\* registry ends this: the next save overwrites it.)
SolveSurvives ==
    owed > 0 =>
        /\ registry.kind = "profile"
        /\ registry.cal >= owed \/ (zeros = "registry" /\ registry.cal = 0)

=============================================================================
