------------------------- MODULE PredictionSmoothing -------------------------
(***************************************************************************)
(* The Smoothing plugin's prediction half: the per-tracker values the       *)
(* overlay saves by serial, the driver slots they are pushed into by device *)
(* id, and the locks by which continuous calibration takes a device out of  *)
(* smoothing.  The shell calls, every frame and on one thread, the          *)
(* plugin's Tick, then the calibration plugin's Tick, which publishes the   *)
(* locks, then draws a tab.                                                 *)
(*                                                                          *)
(* SteamVR gives a device an id when it first appears and keeps it until    *)
(* it exits, and the driver lives in SteamVR: a device is its id here.  A   *)
(* value is saved (1) or absent (0).                                        *)
(***************************************************************************)
EXTENDS Naturals, FiniteSets

CONSTANTS
    Class,          \* Class[d]: "tracker", "hmd" or "hidden" of device d
    MaxFaults,      \* bound: sends that fail
    MaxStarts,      \* bound: starts of SteamVR and of the overlay
    MaxEdits        \* bound: values the user changes, locks that change

Tracked == DOMAIN Class

VARIABLES
    server,         \* SteamVR, and the driver in it, is running
    present,        \* the devices SteamVR knows
    pushed,         \* transforms[d].predictionSmoothness in the driver
    phase,          \* what the overlay's frame does next, or "off"
    vr,             \* vr::VRSystem() is not null
    conn,           \* ipc_.IsConnected()
    saved,          \* cfg_.trackerSmoothness, on disk too
    locked,         \* g_locks of CalibrationAnchor
    known,          \* lastKnownCalibrationLocks_
    sig,            \* lastPredictionDeviceSignature_
    faults, starts, edits

overlay == <<phase, vr, conn, saved, locked, known, sig>>
vars    == <<server, present, pushed, overlay, faults, starts, edits>>

-----------------------------------------------------------------------------
(* A run of sends, in the order of the ids: the slots, whether the pipe is   *)
(* open, and how many sends go through before one fails and closes it.  A    *)
(* pipe that merely broke is reopened by the send itself while the driver    *)
(* is there to accept it.                                                    *)
Wire(cut) == [pushed |-> pushed, conn |-> conn, left |-> cut]

\* In the driver: a request replaces the value in the device's slot.
SetDevicePrediction(slots, sent, value) ==
    [d \in Tracked |-> IF d \in sent THEN value[d] ELSE slots[d]]

SendDevicePrediction(w, ds, value) ==
    LET sent == {d \in ds : /\ w.conn /\ server
                            /\ Cardinality({e \in ds : e < d}) < w.left}
    IN [pushed |-> SetDevicePrediction(w.pushed, sent, value),
        conn   |-> w.conn /\ sent = ds,
        left   |-> w.left - Cardinality(sent)]

Zero == [d \in Tracked |-> 0]
ShouldShow(d) == Class[d] # "hidden"

\* a replay forgets the locks.
Replayed_Unlocked == [d \in Tracked |->
    IF ShouldShow(d) /\ Class[d] # "hmd" THEN saved[d] ELSE 0]

\* The value a replay sends for a device: zero for one that is hidden, the
\* headset, or locked.
Replayed == [d \in Tracked |->
    IF ShouldShow(d) /\ Class[d] # "hmd" /\ d \notin locked THEN saved[d] ELSE 0]

\* a device without a saved value ends the walk.
ReplayDevicePredictions_Returns(w) ==
    SendDevicePrediction(w, IF vr THEN {d \in present : \A e \in present : e <= d => saved[e] = 1}
                                  ELSE {}, Replayed)

ReplayDevicePredictions(w) ==
    SendDevicePrediction(w, IF vr THEN {d \in present : saved[d] = 1} ELSE {}, Replayed)

\* HandleDevicePoseUpdated scales the velocities of the device's poses.  The
\* value of a tracking system, its second choice, is never set any more.
Smoothed(d) == pushed[d] > 0

BuildPredictionDeviceSignature == IF vr THEN present ELSE {}

SavedLocks == {d \in locked : saved[d] = 1}

NextLocks == IF vr /\ conn THEN SavedLocks ELSE known

Settle(w) == /\ pushed' = w.pushed
             /\ conn' = w.conn
             /\ faults' = IF server /\ ~w.conn /\ w.left = 0 THEN faults + 1 ELSE faults

\* Where a run of sends may be cut: never, or after a few.
Never == 2 * Cardinality(Tracked)
Cuts == {Never} \cup (IF faults < MaxFaults THEN 0..1 ELSE {})

-----------------------------------------------------------------------------
Init ==
    /\ server = FALSE /\ present = {} /\ pushed = [d \in Tracked |-> 0]
    /\ phase = "off" /\ vr = FALSE /\ conn = FALSE
    /\ saved \in [Tracked -> {0, 1}]
    /\ locked = {} /\ known = {} /\ sig = {}
    /\ faults = 0 /\ starts = 0 /\ edits = 0

(* SteamVR (external).  When it quits, an overlay that is connected to it    *)
(* is told to quit; one still waiting for it goes on.                        *)
ServerStart ==
    /\ ~server /\ starts < MaxStarts
    /\ server' = TRUE /\ starts' = starts + 1
    /\ pushed' = [d \in Tracked |-> 0]
    /\ UNCHANGED <<present, overlay, faults, edits>>

Appear(d) ==
    /\ server /\ d \notin present
    /\ present' = present \cup {d}
    /\ UNCHANGED <<server, pushed, overlay, faults, starts, edits>>

ServerQuit ==
    /\ server
    /\ server' = FALSE /\ present' = {}
    /\ pushed' = [d \in Tracked |-> 0]
    /\ IF vr THEN phase' = "off" /\ vr' = FALSE /\ conn' = FALSE
             ELSE UNCHANGED <<phase, vr, conn>>
    /\ UNCHANGED <<saved, locked, known, sig, faults, starts, edits>>

(* The plugin starts before anything of the shell has opened a VR session:   *)
(* the replay it asks for finds no VRSystem.                                 *)
OnStart ==
    /\ phase = "off" /\ starts < MaxStarts
    /\ starts' = starts + 1
    /\ phase' = "tick" /\ vr' = FALSE /\ conn' = server
    /\ locked' = {} /\ known' = {} /\ sig' = {}
    /\ UNCHANGED <<server, present, pushed, saved, faults, edits>>

OverlayQuit ==
    /\ phase # "off"
    /\ phase' = "off" /\ vr' = FALSE /\ conn' = FALSE
    /\ UNCHANGED <<server, present, pushed, saved, locked, known, sig,
                   faults, starts, edits>>

(* The plugin's Tick is three calls: connect and replay, look for devices    *)
(* that came or went, look for locks that are new.                           *)
TickConnect(cut) ==
    /\ phase = "tick"
    /\ phase' = "restore"
    /\ IF ~conn /\ server
       THEN Settle(ReplayDevicePredictions([Wire(cut) EXCEPT !.conn = TRUE]))
       ELSE UNCHANGED <<pushed, conn, faults>>
    /\ UNCHANGED <<server, present, vr, saved, locked, known, sig, starts, edits>>

(* The first list of devices is only remembered; a later one that differs is *)
(* replayed.  "due": two seconds have passed since the last scan.            *)
TickPredictionRestore(cut, due) ==
    LET now == BuildPredictionDeviceSignature IN
    /\ phase = "restore"
    /\ phase' = "clear"
    /\ sig' = IF conn /\ due /\ now # {} THEN now ELSE sig
    /\ IF conn /\ sig # {} /\ sig' # sig
       THEN Settle(ReplayDevicePredictions(Wire(cut)))
       ELSE UNCHANGED <<pushed, conn, faults>>
    /\ UNCHANGED <<server, present, vr, saved, locked, known, starts, edits>>

TickCalibrationLockClear(cut) ==
    /\ phase = "clear"
    /\ phase' = "locks"
    /\ known' = NextLocks
    /\ IF vr
       THEN Settle(SendDevicePrediction(Wire(cut), (SavedLocks \ known) \cap present, Zero))
       ELSE UNCHANGED <<pushed, conn, faults>>
    /\ UNCHANGED <<server, present, vr, saved, locked, sig, starts, edits>>

(* The calibration plugin's Tick: it opens the VR session when SteamVR is    *)
(* there, and publishes which devices continuous calibration uses.           *)
CalibrationTick(locks) ==
    /\ phase = "locks"
    /\ phase' = "draw"
    /\ vr' = (vr \/ server)
    /\ locked' = IF vr' THEN locks ELSE {}
    /\ locked' # locked => edits < MaxEdits
    /\ edits' = IF locked' # locked THEN edits + 1 ELSE edits
    /\ UNCHANGED <<server, present, pushed, conn, saved, known, sig, faults, starts>>

(* Drawing: nothing, the smart toggle, or one slider, after the entries of   *)
(* hidden devices were dropped.                                              *)
DrawNothing ==
    /\ phase = "draw"
    /\ phase' = "tick"
    /\ UNCHANGED <<server, present, pushed, vr, conn, saved, locked, known, sig,
                   faults, starts, edits>>

SmartToggle(cut) ==
    /\ phase = "draw" /\ edits < MaxEdits
    /\ phase' = "tick" /\ edits' = edits + 1
    /\ Settle(ReplayDevicePredictions(Wire(cut)))
    /\ UNCHANGED <<server, present, vr, saved, locked, known, sig, starts>>

Swept(d) == d \in present /\ ~ShouldShow(d) /\ saved[d] = 1

DrawPredictionTab(cut, d, v) ==
    LET w0 == SendDevicePrediction(Wire(cut), {e \in Tracked : Swept(e)}, Zero)
        slid == ShouldShow(d) /\ Class[d] # "hmd" /\ d \notin locked /\ d \in present
    IN /\ phase = "draw" /\ vr /\ edits < MaxEdits
       /\ slid \/ \E e \in Tracked : Swept(e)
       /\ phase' = "tick" /\ edits' = edits + 1
       /\ saved' = [e \in Tracked |-> IF e = d /\ slid THEN v
                                      ELSE IF Swept(e) THEN 0 ELSE saved[e]]
       /\ Settle(IF slid THEN SendDevicePrediction(w0, {d}, saved') ELSE w0)
       /\ UNCHANGED <<server, present, vr, locked, known, sig, starts>>

(* The file is rewritten in place: an overlay that dies meanwhile leaves its *)
(* first lines.                                                              *)
Truncated(n) == [d \in Tracked |-> IF d < n THEN saved[d] ELSE 0]
CrashInSave(n) ==
    /\ phase = "draw" /\ vr /\ edits < MaxEdits
    /\ phase' = "off" /\ vr' = FALSE /\ conn' = FALSE
    /\ saved' = Truncated(n) /\ edits' = edits + 1
    /\ UNCHANGED <<server, present, pushed, locked, known, sig, faults, starts>>

\* The sets of devices continuous calibration may use.
Lockable == SUBSET {d \in Tracked : ShouldShow(d)}

Next ==
    \/ ServerStart \/ ServerQuit \/ OnStart \/ OverlayQuit
    \/ \E d \in Tracked : Appear(d)
    \/ \E cut \in Cuts : TickConnect(cut) \/ TickCalibrationLockClear(cut)
    \/ \E cut \in Cuts, due \in BOOLEAN : TickPredictionRestore(cut, due)
    \/ \E locks \in Lockable : CalibrationTick(locks)
    \/ DrawNothing
    \/ \E n \in Tracked : CrashInSave(n)
    \/ \E cut \in Cuts : SmartToggle(cut)
    \/ \E cut \in Cuts, d \in Tracked, v \in {0, 1} : DrawPredictionTab(cut, d, v)

\* The shell's loop runs while the overlay does, and a scan falls due every
\* two seconds.
Frame == \/ TickConnect(Never) \/ TickPredictionRestore(Never, FALSE)
         \/ TickCalibrationLockClear(Never) \/ CalibrationTick(locked) \/ DrawNothing
ScanFallsDue == TickPredictionRestore(Never, TRUE)
Fairness == WF_vars(Frame) /\ SF_vars(ScanFallsDue)

Spec == Init /\ [][Next]_vars /\ Fairness

-----------------------------------------------------------------------------
TypeOK ==
    /\ server \in BOOLEAN /\ vr \in BOOLEAN /\ conn \in BOOLEAN
    /\ present \in SUBSET Tracked /\ sig \in SUBSET Tracked
    /\ locked \in SUBSET Tracked /\ known \in SUBSET Tracked
    /\ pushed \in [Tracked -> {0, 1}] /\ saved \in [Tracked -> {0, 1}]
    /\ phase \in {"off", "tick", "restore", "clear", "locks", "draw"}

(* A device that continuous calibration uses is not smoothed: once a Tick    *)
(* has run on an open pipe, the driver's value is zero for every locked      *)
(* device with a saved value, and for the headset, whatever was sent, lost   *)
(* or replayed before, by this run of the overlay or an earlier one.         *)
LockedIsRaw ==
    phase = "locks" /\ vr /\ conn
        => \A d \in present : (d \in locked /\ saved[d] = 1) \/ Class[d] = "hmd"
                                  => ~Smoothed(d)

(* A device that appears after the first scan gets its saved value: the      *)
(* driver has it in the end, unless the device is locked meanwhile, its      *)
(* value is taken back, or the overlay or SteamVR stops.                     *)
LateDeviceRestored ==
    \A d \in Tracked :
        (sig # {} /\ d \in present \ sig /\ Replayed[d] = 1 /\ phase # "off")
            ~> (pushed[d] = saved[d] \/ d \in locked \/ phase = "off" \/ ~server)

=============================================================================
