---------------------------- MODULE InputHealth ----------------------------
(***************************************************************************)
(* Input health: the driver observes and corrects the buttons and axes of  *)
(* a controller (modules/inputhealth/src/driver); a plugin of the overlay  *)
(* reads the statistics from shared memory, learns a correction per input  *)
(* path and pushes it to the driver (LearningEngine.cpp).  Either side may *)
(* be restarted at any time, and the pipe between them may drop.           *)
(*                                                                         *)
(* One controller with a button and an axis.  A learned correction is      *)
(* "ready" or not; its value is arithmetic.  Whether the axis rests        *)
(* steadily, and whether it has drifted for ten seconds, are choices; what *)
(* the games see of an input is left out.  The feature is switched on and  *)
(* corrects (master_enabled, not diagnostics_only), so the driver answers  *)
(* every push with success.                                                *)
(*                                                                         *)
(* The overlay's calls save the profile and push its entries one by one;   *)
(* the overlay may be killed in between, and a push may fail, with the     *)
(* driver gone or not.  Saves succeed, so the profile in memory, the one   *)
(* on disk and the engine's states agree on what is ready: ready and       *)
(* enabled stand for all of them.  A controller that comes back after a    *)
(* restart of the driver takes the same handles and slots.                 *)
(***************************************************************************)
EXTENDS Naturals, FiniteSets

CONSTANTS
    MaxPresses,     \* bound: presses per session of the driver
    MaxFaults,      \* bound: requests that fail though the driver runs
    ReadyThreshold  \* presses a button is learned from

ASSUME InputHealthAssumption == MaxPresses \in Nat /\ MaxFaults \in Nat /\ ReadyThreshold \in Nat \ {0}

Paths == {"button", "axis"}

VARIABLES
    up,        \* the driver is loaded
    serial,    \* g_componentStats: paths whose device_serial_hash is resolved
    table,     \* inputHealthComp: paths with an enabled entry
    presses,   \* press_count of the button
    shm,       \* the snapshots last published: [paths, presses]
    running,   \* the overlay runs
    conn,      \* its pipe: "none", "live", or "broken" by the driver's end
    fresh,     \* ConnectionGeneration() # observed_ipc_generation_
    seen,      \* last_press_count of the button's state
    call, due, \* what its thread is about, and the paths it has still to push
    ready,     \* paths whose record in learned_paths is ready
    enabled,   \* corrections_enabled of the profile
    nuked,     \* history: the user has cleared the driver's table by hand
    missed,    \* history: entries whose removal the driver did not get
    faults

driverVars == <<up, serial, table, presses>>
profileVars == <<ready, enabled>>
callVars == <<call, due>>
overlayVars == <<running, conn, fresh, seen, callVars, profileVars>>
histVars == <<nuked, missed, faults>>
vars == <<driverVars, shm, overlayVars, histVars>>

\* SnapshotPublisherInit: a new segment, with no slot in use.
NoShm == [paths |-> {}, presses |-> 0]
Snapshots == [paths : SUBSET Paths, presses : 0..MaxPresses]

TypeOK ==
    /\ {up, running, fresh, enabled, nuked} \subseteq BOOLEAN
    /\ serial \subseteq Paths /\ table \subseteq Paths
    /\ presses \in 0..MaxPresses /\ seen \in 0..MaxPresses
    /\ shm \in Snapshots
    /\ conn \in {"none", "live", "broken"}
    /\ call \in {"none", "add", "remove", "unlearn"} /\ due \subseteq Paths
    /\ ready \subseteq Paths /\ missed \subseteq Paths
    /\ faults \in 0..MaxFaults

Init ==
    /\ up = FALSE /\ serial = {} /\ table = {} /\ presses = 0
    /\ shm = NoShm
    /\ running = FALSE /\ conn = "none" /\ fresh = FALSE
    /\ seen = 0 /\ call = "none" /\ due = {}
    /\ ready = {} /\ enabled = TRUE
    /\ nuked = FALSE /\ missed = {} /\ faults = 0

(***************************************************************************)
(* The driver.                                                             *)
(***************************************************************************)

\* inputhealth::Init, which starts the publisher.  A segment that the overlay
\* still has mapped is found as the last driver left it.
DriverStarts ==
    /\ ~up
    /\ up' = TRUE
    /\ shm' = IF running THEN shm ELSE NoShm
    /\ UNCHANGED <<serial, table, presses, overlayVars, histVars>>

\* Shutdown, or the server of all drivers has died: what the process held is
\* gone.  The overlay keeps the shared memory mapped.
DriverStops ==
    /\ up
    /\ up' = FALSE
    /\ serial' = {} /\ table' = {} /\ presses' = 0
    /\ nuked' = FALSE /\ missed' = {}
    /\ conn' = IF conn = "live" THEN "broken" ELSE conn
    /\ UNCHANGED <<shm, running, fresh, seen, callVars, profileVars, faults>>

\* The driver's end closes the pipe.
PipeDrops ==
    /\ up /\ conn = "live"
    /\ conn' = "broken"
    /\ UNCHANGED <<driverVars, shm, running, fresh, seen, callVars, profileVars, histVars>>

\* RegisterBooleanComponent, RegisterScalarComponent: the path is known with its
\* device once ResolveSerialHash finds the serial number; what the button counted
\* until then counts.
Registered(p) ==
    /\ serial' = serial \union {p}
    /\ presses' \in IF p = "button" THEN 0..MaxPresses ELSE {presses}

\* DetourCreateBooleanComponent and DetourCreateScalarComponent register a path; the
\* serial number of its device is found then or by a later update, at most once a
\* second.  Until then a path counts its presses and is not published.
ResolveSerialHash(p) ==
    /\ up /\ p \notin serial
    /\ Registered(p)
    /\ UNCHANGED <<up, table, shm, overlayVars, histVars>>

\* DetourUpdateBooleanComponent, ObserveBooleanSample: the report of a press.
UpdateBoolean ==
    /\ up /\ "button" \in serial /\ presses < MaxPresses
    /\ presses' = presses + 1
    /\ UNCHANGED <<up, serial, table, shm, overlayVars, histVars>>

\* StageSnapshots, PublishOneTick: slots that this driver has not used yet
\* stay as the last one left them.
PublishOneTick ==
    /\ up
    /\ shm' = [paths |-> shm.paths \union serial,
               presses |-> IF "button" \in serial THEN presses ELSE shm.presses]
    /\ UNCHANGED <<driverVars, overlayVars, histVars>>

(***************************************************************************)
(* The overlay's thread.  A call that pushes begins with what it does      *)
(* before its first push; PushCompensation follows for each path.          *)
(***************************************************************************)

Idle == running /\ call = "none"

Calls(kind, ps) ==
    /\ call' = IF ps = {} /\ kind # "unlearn" THEN "none" ELSE kind
    /\ due' = ps

\* Corrections that are switched off for the device are pushed as removals.
Adds == call = "add" /\ enabled

\* SetInputHealthCompensation in the driver.
SetCompensation(p) == IF Adds THEN table \union {p} ELSE table \ {p}

\* Nothing without a pipe.
PushSkipped == conn = "none" /\ UNCHANGED <<table, conn, fresh, faults>>

\* A client that reconnects without counting a new connection.
PushReaches_Unnoticed(p) ==
    /\ conn # "none" /\ up
    /\ table' = SetCompensation(p) /\ conn' = "live"
    /\ UNCHANGED <<fresh, faults>>

\* Over a broken pipe the client reconnects, which counts as a new connection, and
\* resends.
PushReaches(p) ==
    /\ conn # "none" /\ up
    /\ table' = SetCompensation(p) /\ conn' = "live"
    /\ fresh' = (fresh \/ conn = "broken")
    /\ UNCHANGED faults

\* SendBlocking throws: the driver is gone, or it is there and the reconnect or the
\* request fails, which may have been carried out.  The client closes its pipe.
PushFails(p) ==
    /\ conn # "none"
    /\ \/ ~up /\ UNCHANGED <<table, faults>>
       \/ /\ up /\ faults < MaxFaults
          /\ faults' = faults + 1
          /\ table' \in {table, SetCompensation(p)}
    /\ conn' = "none"
    /\ UNCHANGED fresh

PushCompensation(p) ==
    /\ running /\ p \in due
    /\ PushSkipped \/ PushReaches(p) \/ PushFails(p)
    /\ missed' = IF Adds \/ p \notin table' THEN missed \ {p} ELSE missed \union {p}
    /\ Calls(call, due \ {p})
    /\ UNCHANGED <<up, serial, presses, shm, running, seen, profileVars, nuked>>

\* ProfileStore::Save: a temporary file renamed over the old one, so that a
\* kill of the overlay leaves the old profile or the new one.
Save(records) == ready' = records

\* ProfileStore::LoadAll, into a new engine: every record that was saved.
LoadAll == ready' = ready /\ enabled' = enabled

\* SyncProfile, immediate: the record of a path, ready or still learning.
SyncProfile(p, isReady) ==
    Save(IF isReady THEN ready \union {p} ELSE ready \ {p})

\* PushReadyCompensations
PushReady == Calls("add", IF enabled THEN ready ELSE {})

\* Connect and the handshake: they may fail though the driver is there.
Reconnects == up /\ conn' = "live" /\ UNCHANGED faults
NoConnection ==
    /\ \/ ~up /\ UNCHANGED faults
       \/ up /\ faults < MaxFaults /\ faults' = faults + 1
    /\ conn' = "none"

\* OnStart: load the profiles; connect and push what is ready.
OverlayStarts ==
    /\ ~running
    /\ running' = TRUE
    /\ LoadAll
    /\ \/ Reconnects /\ fresh' = TRUE /\ PushReady
       \/ NoConnection /\ UNCHANGED <<fresh, callVars>>
    /\ UNCHANGED <<driverVars, shm, seen, nuked, missed>>

\* The overlay ends or is killed, in the middle of a call too.  OnShutdown flushes
\* what every save has already written.
OverlayStops ==
    /\ running
    /\ running' = FALSE /\ conn' = "none" /\ fresh' = FALSE
    /\ seen' = 0 /\ call' = "none" /\ due' = {}
    /\ missed' = IF call = "remove" THEN missed \union (due \intersect table) ELSE missed
    /\ UNCHANGED <<driverVars, shm, profileVars, nuked, faults>>

\* MaintainDriverConnection, once a second: a new connection gets what is ready.
Heartbeat ==
    /\ Idle
    /\ \/ /\ Reconnects
          /\ fresh' = FALSE
          /\ IF fresh \/ conn # "live" THEN PushReady ELSE UNCHANGED callVars
       \/ NoConnection /\ UNCHANGED <<fresh, callVars>>
    /\ UNCHANGED <<driverVars, shm, running, seen, profileVars, nuked, missed>>

\* SnapshotReader::Refresh: a mapping that is stale for two seconds is closed.
ReaderCloses ==
    /\ Idle /\ ~up /\ shm # NoShm
    /\ shm' = NoShm
    /\ UNCHANGED <<driverVars, overlayVars, histVars>>

\* Tick, the button: a press since the last look.  It is learned from the time
\* between two presses, so not by the first look (inter_press_us is empty).
LearnsButton ==
    /\ Idle /\ "button" \in shm.paths /\ shm.presses > seen
    /\ seen' = shm.presses
    /\ IF "button" \notin ready /\ shm.presses >= ReadyThreshold /\ seen # 0
       THEN SyncProfile("button", TRUE) /\ Calls("add", {"button"})
       ELSE UNCHANGED <<ready, callVars>>
    /\ UNCHANGED <<driverVars, shm, running, conn, fresh, enabled, histVars>>

\* Tick, the axis: enough samples at rest with a small spread.
LearnsAxis ==
    /\ Idle /\ "axis" \in shm.paths /\ "axis" \notin ready
    /\ SyncProfile("axis", TRUE)
    /\ Calls("add", {"axis"})
    /\ UNCHANGED <<driverVars, shm, running, conn, fresh, seen, enabled, histVars>>

\* A drift that only forgets the record.
AxisDrifts_Quietly ==
    /\ Idle /\ "axis" \in shm.paths /\ "axis" \in ready
    /\ SyncProfile("axis", FALSE)
    /\ UNCHANGED callVars
    /\ UNCHANGED <<driverVars, shm, running, conn, fresh, seen, enabled, histVars>>

\* The axis has drifted from what was learned: relearn, correction off.
AxisDrifts ==
    /\ Idle /\ "axis" \in shm.paths /\ "axis" \in ready
    /\ SyncProfile("axis", FALSE)
    /\ Calls("remove", {"axis"})
    /\ UNCHANGED <<driverVars, shm, running, conn, fresh, seen, enabled, histVars>>

\* The paths with a record: the ready ones, and some that are still learning.
Records == {ps \in SUBSET Paths : ready \subseteq ps}

\* Saved first; then off is pushed for every record, on for the ready ones.
SetDeviceCorrectionsEnabled ==
    /\ Idle
    /\ enabled' = ~enabled
    /\ \/ enabled /\ \E ps \in Records : Calls("remove", ps)
       \/ ~enabled /\ Calls("add", ready)
    /\ UNCHANGED <<driverVars, shm, running, conn, fresh, seen, ready, histVars>>

\* UnlearnPath saves the profile without the record, then pushes the removal.
UnlearnPath(p) ==
    /\ Idle
    /\ Save(ready \ {p})
    /\ seen' = IF p = "button" THEN 0 ELSE seen
    /\ Calls("remove", {p})
    /\ UNCHANGED <<driverVars, shm, running, conn, fresh, enabled, histVars>>

\* UnlearnDevice pushes the removals first and saves at the end.
UnlearnDevice ==
    /\ Idle
    /\ \E ps \in Records : Calls("unlearn", ps)
    /\ UNCHANGED <<driverVars, shm, running, conn, fresh, seen, profileVars, histVars>>

UnlearnDeviceSaves ==
    /\ running /\ call = "unlearn" /\ due = {}
    /\ Save({})
    /\ seen' = 0 /\ call' = "none"
    /\ UNCHANGED <<driverVars, shm, running, conn, fresh, due, enabled, histVars>>

\* ClearInputHealthCompensation, for the device.
ClearCompensation == table' = {} /\ missed' = {}

\* "Reset stats AND learned compensation": ApplyResetRequest in the driver.
SendReset ==
    /\ Idle /\ conn = "live"
    /\ presses' = 0
    /\ \/ ClearCompensation /\ nuked' = TRUE
       \/ UNCHANGED <<table, nuked, missed>>
    /\ UNCHANGED <<up, serial, shm, overlayVars, faults>>

Driver == DriverStarts \/ DriverStops \/ PipeDrops
          \/ \E p \in Paths : ResolveSerialHash(p)
          \/ UpdateBoolean \/ PublishOneTick
Overlay == OverlayStarts \/ OverlayStops \/ Heartbeat \/ ReaderCloses
CallStep == UnlearnDeviceSaves \/ \E p \in Paths : PushCompensation(p)
Engine == LearnsButton \/ LearnsAxis \/ AxisDrifts
User == SetDeviceCorrectionsEnabled \/ SendReset \/ UnlearnDevice
        \/ \E p \in Paths : UnlearnPath(p)

Next == Driver \/ Overlay \/ CallStep \/ Engine \/ User

\* A call of the overlay goes on, and its heartbeat falls due every second, between
\* whatever other calls there are.
Fairness == WF_vars(CallStep) /\ SF_vars(Heartbeat)

Spec == Init /\ [][Next]_vars /\ Fairness

(***************************************************************************)
(* Properties.                                                             *)
(***************************************************************************)

\* What the driver should correct, and what a call is about to take back.
Wanted == IF enabled THEN ready ELSE {}
Leaving == IF call = "remove" THEN due ELSE {}

\* The driver never applies a correction that the overlay has dropped: an entry of
\* the driver's table is a ready record of an enabled profile or its removal is on
\* the way, through drifts, unlearning, switches, dropped pipes and restarts of
\* either side.  Only a removal that this driver did not get is excepted: its push
\* failed or met no pipe, or the overlay was killed between the save and the push.
AppliesOnlyLearned == up => table \subseteq Wanted \union Leaving \union missed

\* What is learned reaches the driver, also one that was restarted: it is in
\* the table before long, unless it is dropped or the user clears the table.
LearnedReaches ==
    \A p \in Paths :
       (up /\ running /\ enabled /\ p \in ready)
          ~> (p \in table \/ nuked
              \/ ~(up /\ running /\ enabled /\ p \in ready))
=============================================================================
