# TLA+ model of the OpenVR pair driver

This directory specifies the repository's own logic in TLA+: the SteamVR driver
with its feature modules (calibration, smoothing, input health, face tracking,
captions, OSC router), the overlay application that configures it, and the host
processes it supervises. TLC checks the modules on small instances; TLAPS proves
the theorems of the `*Proofs` modules for every value of the constants.
`PROJECT.json` holds the line-by-line correspondence with the source (`map`), the
runs, a mutant of the code for every property, the finding and the hazards.

    tlc -workers 2 -config MCHosts_supervisor.cfg MCHosts         # one run
    tlapm HostProofs.tla                                          # one proof module

Contents: 1 inventory, 2 modules and the code, 3 runs and bounds, 4 fairness,
5 refinement, 6 proofs, 7 what the model shows of the code, 8 not modelled, 9 plan.
Paths are relative to `src/`; line numbers stand in parentheses.

## 1. Inventory

Four kinds of process run together. `vrserver` loads the driver DLL and calls it
on threads of its own. The overlay talks to the driver over one named pipe per
feature and over shared memory. The driver starts one host process for face
tracking (C#), which starts a process per tracking module, and one for captions
(C++). All of them can be killed or restarted apart from each other, and most of
what is hard in this code comes from that.

| Component | State | Operations | Talks to | What is hard | What makes it correct |
|---|---|---|---|---|---|
| Host supervisor (`core/src/common/HostSupervisorBase.*`) | process handle, attached/running/halted flags, fast-exit counter, stop flag | Start, Stop, Restart, monitor thread, destructor | host process, singleton mutex, control pipe | three threads; the mutex is dropped around waits; leftover hosts; spawn failures | a dead host is replaced; the breaker is consistent; nothing is left behind |
| Pending host command (captions/face `HostSupervisor.cpp`) | pending command, sent flag | SetHostConfigCommand, SetActiveModuleUuid, OnHostReady | supervisor hooks, the host's pipe | mutex dropped around the pipe write; the sent flag raised after it | the last command set reaches a host, unless an overtaken write's flag hides it |
| Face frame ring (`Protocol.h`, `FrameWriter.cs`, `FaceFrameReader.cpp`) | 32 slots with generations, publish index | publish, poll, read | host writes, driver reads | no lock; the writer can be killed | no torn frame |
| Pose ring (`Protocol.h`, DriverPoseShmem) | ring, index; reader's cursor | SetPose, ReadNewPoses, ReopenShmem | driver to overlay | lapping; restarts of either side | poses whole and in order |
| Slot tables (`Protocol.h`) | a generation and a body per slot | WriteSlot, TryReadSlot | driver to overlay | kills during a write; stale segments | no torn slot |
| Status files (`HostStatusWriter`, `HostStatusPoller`, `DriverTelemetryPoller`) | temporary and renamed file, last mtime | write, rename, poll | hosts and driver to overlay | rename against open readers; stale files of the dead | the overlay shows who runs, and that nobody does |
| Face wedge detector (`FacetrackingDriverModule.cpp`) | heartbeat and state words, last restart | worker round, Restart | supervisor, frame segment | a stale heartbeat outlives its host | a hung host is replaced |
| Device transforms (`ServerTrackedDeviceProvider.cpp`) | per-ID slots, fallback table, device systems | SetDeviceTransform, SetTrackingSystemFallback, pose hook | IPC threads, pose threads | the mutex is dropped for a query | no device keeps a withdrawn offset or mixes two owners' |
| Profile application (`Calibration.cpp`) | profile, per-ID and fallback dedupe caches, adoption, snap flags | ScanAndApplyProfile and the edits it reacts to | driver tables over IPC | caches go stale: id reuse, driver restart, withdrawn fallbacks | the driver ends up with what the profile says |
| Calibration state machine (`Calibration.cpp`, `CalibrationCalc.cpp`, `TrackerLiveness.h`, `WatchdogDecisions.h`, `StallDecisions.h`) | state, sample buffers, liveness, watchdog counters | CalibrationTick, the buttons | profile application | outages, watchdogs and buttons in any order | solves only on samples of now; standby ends |
| Drift correction (`Calibration.cpp`, detectors) | locks, caches and cooldowns per detector | the detectors of a tick | state machine | each detector skips others' steps | no recovery from something that was none |
| Calibration profile and wizard (`Configuration.cpp`, `Wizard.cpp`, `UserInterface*.cpp`) | profile in memory and registry, wizard step | load, migrate, save, every button | state machine | what a save leaves for the next start; recoveries that zero the memory | a calibration is not lost but to a recovery's zeros |
| Smoothing: predictions (`SmoothingPlugin.cpp`) | saved values by serial, slots by id, locks | Tick, restore, sliders, lock sweep | driver, calibration | id/serial, connects, late devices | a locked device is raw; a late one is restored |
| Smoothing: skeletal hooks (`SkeletalHookInjector.cpp`) | handle map, hand state, two config words | two detours, Init, Shutdown | SteamVR threads | in-flight updates against Create | no frame of an earlier skeleton is blended |
| Input health (`modules/inputhealth`) | components, snapshots, learned profiles, driver table | detours, publisher, learning engine, heartbeat | overlay by shared memory and pipe | restarts of either; failing pushes; kills between save and push | what is learned is applied; nothing else is, but removals that were missed |
| OSC router (`oscrouter`, `RouterPublisher`, face OSC publisher) | send ring, worker states, pipe connection | EnqueueSend, SendWorker, PubPipeWorker, PublishOsc, Shutdown | three publishers, UDP socket | full ring, pipe framing, unload during use | first-in first-out; Shutdown returns unless an attached host holds the pipe |
| Driver load and unload (`ServerTrackedDeviceProvider.cpp`, `Hooking.*`, `InterfaceHookInjector.cpp`, `IPCServer.cpp`) | hook table, in-flight count, modules, servers | Init, InjectHooks, Cleanup, drain | SteamVR threads, pipe clients | threads inside a detour while it is removed | none is inside afterwards; unloading ends |
| Overlay's pipe clients (`IpcClientBase.cpp`, the plugins' ticks) | pipe, generation, what was pushed | SendBlocking with one reconnect, per-plugin replay | driver's servers | nested calls, lost replies, resends | replies belong to their requests |
| Face module processes (`FaceModuleHost`) | child process, breaker, selection | main loop, control pipe, socket | driver, module process | selections racing the loop; hung and crashing modules | frames carry their own module's name; the selected one runs |
| Face data pipeline (`CalibrationEngine`, `EyelidSync`) | learned ranges, warm flags, wink timer | worker steps, resets | ring, OSC | resets fall between memory accesses | warm means learned |
| Module sync (`ModuleSyncRunner`, `face-module-sync.ps1`) | catalogue, queue, disk, enabled list | add, sync, remove, toggle | script process | kills, failures, timeouts at each step | what is removed is gone |
| Captions host (`CaptionsHost`) | audio queue, recording, models, pacer | main loop, capture, control pipe | router, packs on disk | blocking transcription, model switches | a recording ends |
| Captions packs (`CaptionsPlugin.cpp`, `install-captions-pack.ps1`) | files, stamps, one script handle | install, uninstall | disk, captions host | shared runtime; kills; files in use | the runtime stays while a pack needs it |
| First-launch migration (`Migration.cpp`, `Profiles.cpp`) | folders, registry key, sentinels | every start | disk | kills, failing reads and writes between two accesses | the OSC port is carried over |
| Overlay shell (`ShellContext.cpp`, `main.cpp`, `VrOverlayHost.cpp`, `FeatureFlags.cpp`) | flag files, toggles, elevated helpers, SteamVR session | clicks, ticks, quit | helpers, driver | helpers outlive the overlay | the last click decides; the driver's set follows |

Not in the table, and not modelled: recordings, graphs and debug pages; update
notice and Discord presence; the upstream face-tracking runtime; build files;
vendored libraries (section 8). The `hazards` of `PROJECT.json` say, line by line,
what can go wrong in each component and which property would notice.

## 2. Modules and the code

A critical section is one action; a point where the code drops a mutex, sleeps,
waits, calls out or is preempted with effect is a point where others may run.
Names follow the code. Every `*_Xxx`-suffixed or otherwise unused operator just
before a definition is its mutant, listed in `PROJECT.json`.

### Hosts and their supervision

**HostSupervisor.** `proc`, `code`, `aged` are the operating system's view of
host processes; `handle`, `attached`, `running`, `halted`, `fastExits`, `stopReq`
the fields of `HostSupervisorBase`. `Start...`, `Stop...`, `Destroy` are the
owner's calls, `Restart...` any other thread's, `Mon...` one iteration of
`MonitorLoop`. `Spawn` is split by outcome. `aged[h]` says that the host has lived
for `kFastExitThresholdMs`; the job object is left out because the code goes on
without one.

**WedgeDetector** extends it with the two words of the frame header, the worker's
round and the ten-second guard. **CommandDelivery** is the pending command and
its flag, `OnHostReady` and `SetCommand` writing with the mutex free, and the
restart request, which replaces the host and, for captions, sets the config
again. Both supervisors are behaviours of it: `guarded` (chosen once) is the captions
supervisor's comparison before it raises the flag, which the face supervisor does
not make. `masked` is history: the flag was raised by a write that had been overtaken
by a newer command, by the end of the host, or by Restart between its OnHostExited
and its Kill.

**ModuleHost** is the face host's main loop from selection over spawn, handshake,
pull and stop to reap (`SeesSelection` ... `Reap`), the control pipe's thread
(`SelectActive`, `Disable`, `Shutdown`), the socket, the module process with its
parent watchdog, and the driver that may kill the host. The loop
tests `_activeModule` and reads it again to start its process; `FindsNone` is the
selection that was dropped in between. The code compares
references, so selecting a module again is a change: `changed` says so.
**CaptionsHost** is the captions host's loop (`Drain`, `Configure`, `Frame`,
`Transcribe`, `Publish`) beside the capture thread and the control pipe.
**ModuleSync** is the overlay's catalogue, the runner's queue and timeout, and the
script's steps on the disk.

### What processes hand each other

**FrameRing / FrameRegister.** Each store of `FrameWriter.cs` and each load of
the driver's reader is an action; a frame is one stamp per word. `KillHost` may
strike between any two stores. **PoseRing** writes in two steps (body, index) and
reads in passes with the half-ring skip; the segment lives as long as either side
maps it. **SlotTable** is the generation protocol shared by the input statistics
and the routes, one action per store or load. **StatusFile** writes, renames,
stats, opens and reads; a rename fails while a reader holds the file.

### What the driver does with poses, bones and faces

**DeviceTransforms.** `Adopt`/`Disown` are SetDeviceTransform on and off,
`FallbackOn`/`FallbackOff` SetTrackingSystemFallback, `Pose...` the paths of the
pose hook, `PoseAsks` and `QueryReturns` the two sides of the unlocked query.
Blending yields the set of what was blended. **PredictionSmoothing** is the
plugin's Tick (connect, restore, lock clear), the calibration plugin's Tick that
publishes locks, and the tab's draw, called in the shell's order on one thread.
**SkeletalHooks** splits an update into lookup, begin and blend; a frame is the
epoch of its hand's skeleton, a bone array the set of epochs blended into it.
**FacePipeline** splits the worker at each access a reset can fall before.

### Calibration

**CalibrationMachine** walks one CalibrationTick through its phases (`pc`):
`TickBegins`, `TickRecovers`, `Watchdog`, `HmdStalled`, `Moving`, `Gate`, `Collect`,
`Solve`, `Publish`; the buttons act between two ticks. A sample is `own` or, once
an anchor was declared offline after it was taken, `old`. **CalibrationDrift** are
the detectors of a tick outside a solve, on a line: the jump detector with its
recovery (`Reloc...`), the chi-square freeze (`Chi...`), which skips the two that
follow, the rest lock (`Rest...`), the predictive recovery (`Predict...`), and the
base station drift. **ProfileSync** is
ScanAndApplyProfile, one action per step, with the driver's tables; `stale` and
`staleFb` are history variables that name the exceptions of the properties.
**CalibrationSession** is the profile from one start to the next: load with
migrations, save, the wizard, the buttons of the main window, and the automatic
recovery (`RecoverFromWedgedCalibration`), which zeroes the calibration in memory,
leaves the profile valid and saves nothing; `zeros` is history and says whether
these zeros are in memory or were saved.

### Driver and overlay

**DriverLifecycle** has the thread in Init and Cleanup (`phase`, `at`), an IPC
server thread per feature, and SteamVR's threads in detours (`det`), which are
counted by EnterDetour/ExitDetour and drained with a timeout. **OscRouter /
SendQueue**: the ring with its three indices, both workers, three publishers and
Cleanup's calls; the publish pipe carries 4-byte words, each valued by the frame
length it would mean if read as one. The captions host is the driver's own child or
one it attached to (`attached`), which the supervisor's Stop leaves alive.
**OverlayIpc** keeps the client's call
stack, because a connect inside a send pushes settings by nested sends; what
each of the four plugins does on a new generation is a `...Tick` of its own.
**InputHealth** spans both sides: detours, snapshots and the table in the driver,
learning, saving and pushing in the overlay. A call of the overlay saves the profile
in its first step and pushes one entry per further step (UnlearnDevice the other way
round); it may be killed in between, and a push may fail while the driver lives, with
or without effect. `missed` is history: entries whose removal this driver did not get.
**OverlayShell** are the switches and their elevated helpers; **FirstLaunch** the
migration, one disk access per step, each of which may fail; **CaptionPacks** the
install script, one step per file or stamp. Stamps are written in place, so a kill can
leave one cut off, which the script then ignores: `stamps` are the readable ones.

### Compositions

`WedgeDetector` composes the detector with the supervisor, `ProfileSync` the
overlay's caches with the driver's tables, `OscRouter` the router with its
publishers and Cleanup, `InputHealth` both ends of input health. The modules
`MCExchange`, `MCPoses`, `MCCalibration`, `MCDriver`, `MCHosts` and `MCOverlay`
only put several components side by side: their parts share no variable, a behaviour
is one of one part (variable `part`), and the others stay at their initial state.
They restate the parts' fairness with `part` as a guard and their properties by name.
The constant `Parts` of `MCDriver` and `MCHosts` says which parts a run is about:
`driver` and `inputs` are runs of the one, `supervisor` and `hosts` of the other.

## 3. Runs and bounds

| Run | Checks | Shows | States |
|---|---|---|---|
| `supervisor` | BreakerHolds, LeavesNoHost, Recovers | Crashes, a failing spawn, a leftover host, a missed probe, Stop at any point, one Restart racing the monitor. A dead host is replaced unless a process could not be created. | 640 k |
| `wedge` | WedgedIsReplaced | The detector with the supervisor: a hung host is replaced by one that ticks. | 190 k |
| `exchange` | NoTornFrame, ImplementsRegister (frames); PosesInOrder (poses); NoTornSlot (tables); PendingIsSent (command); StatusFollows (status file); ReleaseIsFlushed (captions host) | What the processes hand each other survives kills between any two stores, lapping, restarts of either side, failed writes and renames; a recording ends when its button is released, also while the loop transcribes. The last command of either supervisor arrives unless an overtaken write's flag hides it. | 420 k |
| `poses` | FallbackIsPure (transforms); LockedIsRaw, LateDeviceRestored (predictions); NoStaleBlend (bones); WarmIsLearned (faces) | Requests against the threads that transform data. | 830 k |
| `profile` | CacheCoherent, BlendsOnlyWhatMoves, ProfileReaches | Once events stop, driver and profile agree for good; blends reach only units moved already. | 1.4 M |
| `calibration` | SolveIsFresh, StandbyResumes (state machine); RestLockIsCurrent, RecoversFromJumps (drift) | Outages, watchdogs and buttons in any order; jumps and what only looks like one, detectors switched at any time. | 830 k |
| `driver` | DrainProtects, UnloadEnds | Unloading with detours in flight, hooks installed from inside a detour, MinHook failing, server threads at any point of their loop. | 640 k |
| `router` | PublisherSafe, ImplementsFifo, CleanupEnds | The ring is a bounded queue; publishers are out before the router closes; Cleanup ends, unless an attached captions host stays connected and silent. | 830 k |
| `router_wire` | WireAgreed | **Violated**: the host writes its identifier once per connection, the router reads one before every frame (section 7). | - |
| `inputs` | AppliesOnlyLearned, LearnedReaches | Learning, drifts, switches, failing pushes, dropped pipes, kills between save and push, and restarts of both sides. | 790 k |
| `hosts` | FrameIsOwn, SelectedRuns (face host); RemovedIsGone (sync) | Module processes that hang, crash and are switched; scripts that die, fail or time out. | 590 k |
| `overlay` | RepliesMatch (pipe); ClickDecides, DriverIsSet (shell); PortIsCarried (first launch); RuntimeIsKept (packs); SolveSurvives (profile) | The overlay's five sequential parts against restarts, failures, kills and recoveries. | 1.8 M |

A run takes between half a minute and three minutes with two workers. Each
property has a mutant (`PROJECT.json`): the code with a plausible slip in it, under
which TLC finds that property violated by the same configuration.

Bounds, and why they let the interesting cases happen:

- `supervisor`: 3 process ids (the old, the new and the leftover host together),
  threshold 2, 2 crashes (they open the breaker), 1 restart before, between or
  after them, 1 spawn failure, 1 missed probe. `wedge`: threshold 1, 1 crash, 2
  restarts, 1 hang: enough for a second restart on the same heartbeat.
- `exchange`: a ring of 2 slots, 2 words, 4 publishes, 2 kills: the writer laps
  twice, and a third host inherits what the second left. A pose ring of 6 with 12
  poses and 2 stops: the reader is lapped, skips, and both sides restart. 2 slots
  in 2 passes with kills. 2 commands in 3 sets (a command overtaken and set again), 2
  deaths, 2 busy pipes, for both supervisors. 2 hosts in turn
  write a status file that is stale after 2 ticks. Captions: frames of 480 samples
  against a detector of 512, as in the code, 2 configs, 1 act of the user.
- `poses`: 2 devices on 2 systems with one fallback place, so that the table is
  full; 3 messages give on, off, on. Two skeletons on one hand and one on the
  other, 2 creations. 3 devices (one not shown), 1 lost send, 3 starts, 2 edits.
  A warm threshold of 2 and 2 requests.
- `profile`: 2 ids, 2 systems, 2 units of each, 3 events: a device leaves,
  another takes its id and the profile changes in one scan. The profile fits the
  HMD (see finding F4 for the other case).
- `calibration`: 2 anchors, 2 samples per buffer, watchdogs of 2 rejections and 2
  spikes, liveness limits of 1 and 2 ticks; 2 base stations, shifts of 2, five
  combinations of the detectors' switches.
- `driver`: 2 features, 1 SteamVR thread, 1 client per server. A second thread
  multiplies the states without a new order: detours share only the counter.
- `router`: a ring of 2, 2 captions of 1 or 2 words, 1 message from each
  publisher inside the driver: four entries for two places; a captions host of its own
  or an attached one. `router_wire` uses
  last words that read as 0, as a legal length and as an illegal one.
- `inputs`: a button and an axis, 2 presses, ready after 2, one request that fails
  while the driver runs; stops of either side are not bounded.
- `hosts`: 2 modules, a breaker of 2, 2 selections, 1 packet lost, 1 kill; 4 acts
  on 4 sources, a queue of 2. The socket holds two packets, so that a process that
  answers its teardown late (after the loop has
  stopped waiting) leaves the answer to the next one.
- `overlay`: 2 faults and 1 edit on the pipe, for each of the four plugins; a
  module and the router it depends on, 2 clicks, 1 close; 3 launches, 2 port
  edits, five kinds of failing access; 3 packs, 2 scripts at a time, 3 scripts; 2
  sessions of 2 events (solves, changed settings, recoveries).

Deadlock is not checked where a system really stops: a driver that is unloaded, a
router after Cleanup, hosts and overlays whose bounded starts are used up.

## 4. Fairness

Fairness is assumed of threads the operating system schedules and of loops
that a timer or the frame loop drives, never of faults, users or messages.

- Supervisor: weak for the monitor, the owner's steps except the decision to
  stop, a Restart once begun, a host's startup. `wedge` adds the worker, the
  heartbeat of a host that does not hang, and the passing of time.
- Command: weak for the monitor, a write in progress and a restart once begun; strong
  for the exit
  hook, because every round of the monitor ends in a wait that a dead host ends
  at once.
- Status file: weak for the poller's tick and the writer; strong for its open
  and read succeeding and for a rename with no reader: both sides retry every
  half second or second, in windows of milliseconds, so one that never meets a
  free moment is not a run of this program.
- Predictions: weak for the frame; strong for the two-second device scan, which
  the frame loop reaches again and again.
- Calibration: weak for the tick; strong for `Moving` (a valid pose is seen
  infinitely often) and for `StandbyStarts` (the devices are found): StandbyResumes
  says what the tick does when they are there, not that they will be.
- Profile: weak for the scan. Router: weak for both workers, the face worker and
  the steps of a begun Cleanup; none for the captions host or the IPC thread.
  Driver: weak for Cleanup's steps and for the server threads.
- Input health: weak for the steps of a call of the overlay once begun, strong for its
  heartbeat, which falls due every second between whatever else it does; none for
  controllers, the publisher or the user.
- Module host: weak for each step of the loop (the test of the selection and its
  second read among them) and of the socket; strong for the
  spawn, which other choices of the loop (an uninstalled module, a failing
  CreateProcess) can disable for a while. Captions: weak for loop and capture.
- Overlay: weak for the client's and plugins' steps, a running driver's replies,
  helpers, the frame's polls of them and the close after SteamVR's quit.

## 5. Refinement

`FrameRegister` is what a reader of the frame ring may rely on: a read returns a
frame that was published, and none older than the newest one announced when the
read began. `FrameRing!ImplementsRegister` is `Register!Spec` under a mapping by which
a frame is published once its generation is even again (once it is begun, after a
write was cut) and announced by the store of the index. TLC checks it in `exchange`,
`ExchangeProofs` proves it for every size. `SendQueue` is a bounded first-in
first-out queue that drops what does not fit; `OscRouter!ImplementsFifo` maps the
circular buffer to the sequence read from head over count entries; TLC checks it
in `router` and `OscRouterProofs` proves it for every capacity.

## 6. Proofs

Every invariant, action property and refinement that a passing run checks is also a
theorem, for all constants that meet the named assumptions, which are as weak as the
code allows; the bounds of the runs are arbitrary there. Each rests on an inductive
strengthening: its initial states, one step per action, PTL. A proof module is about
the components of one area and extends the module of their runs, so that the formula
proved is the formula TLC checked; where that is a composition, the theorem is about
its `MCSpec` or, for the supervisor, about the component's own `Spec`.

**HostProofs.**
- TypeCorrect, BreakerCorrect, HaltedMeansNoRespawn. An open breaker implies that
  the counter is at the threshold and the monitor at its loop head or gone; this
  needs the counter's upper bound from the type invariant, since a Restart clears
  both words in one critical section and the monitor counts and halts in one.
- StopLeavesNoHost, from OwnedInv: while Restart was never called every host the
  supervisor created is the one behind the handle, and the monitor's copy of the
  handle is current or closed. The destructor's second Kill is needed because the
  monitor may pass its test of the stop flag before Stop sets it.
- FrameIsOwnCorrect, from FrameInv: what is in the socket, in the loop's hands or
  published comes from the process at work, or from one that left packets behind
  when it was reaped.
- RemovedIsGoneCorrect, from SyncInv: a sync that waits or runs belongs to a source
  that is in the catalogue or lost, or its removal waits *behind* it; what is on the
  disk is covered by the catalogue, by a loss, or by a removal that waits or runs; a
  removal that is done has left nothing. The order in the queue is what matters: a
  removal in front of a sync of the same source would not cover it. The queue has
  room for an operation and None is no script (`SyncAssumption`).

**ExchangeProofs.**
- RingTypeCorrect, NoTornFrameCorrect, from SeqlockInv: as long as no host died
  inside a write, a slot whose generation is even holds one frame, and words copied
  under a generation that still stands are words of that frame.
- RingImplementsRegister, from RegisterInv: no word of the ring is of a frame not
  yet begun, the announced slot is never rewritten with an older frame, not even by
  a host that starts counting anew, and so a copy is no older than what was
  announced when the read began.
- NoTornSlotCorrect, from SlotInv, the same argument for a table that outlives its
  writers: a slot that no kill has hurt is whole while its generation is even, and a
  new segment is only made when the overlay shows nothing of the old one.
- PosesInOrderCorrect, an action property, from PoseInv: only the oldest slot of
  the ring may be torn, a pass stays within half a ring of the index and is not
  lapped, and what was delivered lies before the cursor or is older than the
  segment. It needs a ring of four or more (`PosesAssumption`).

**PosesProofs.**
- TransformsTypeCorrect, FollowsEnabledCorrect, FallbackIsPureCorrect,
  PerIdIsPureCorrect, from Ownership: every offset in a slot belongs to who owns the
  slot. Without it the first blend after a change of owner cannot be bounded.
- WarmIsLearnedCorrect, from LearnedInv: no count, stored or in the worker's hands,
  is ahead of what was learned since the reset, unless the reset hit the group in
  work.
- NoStaleBlendCorrect, from BoneInv: an update in flight carries the epoch in which
  it began, and one that is older than the skeleton is among the stragglers.
- LockedIsRawCorrect, from PredictionInv: on an open pipe a lock that the plugin
  knows was cleared in the driver, and the locks it knows are those of the session.

**ProfileSyncProofs.** ProfileTypeCorrect, CacheCoherentCorrect,
FallbackCoherentCorrect, BlendsOnlyWhatMovesCorrect, from TypeOK, both cache
invariants and Adoption (a cached enabled payload belongs to the unit last seen at
that id, unless the driver restarted).

**CalibrationProofs.**
- SolveIsFreshCorrect, from FreshInv: old samples are in the buffer only while an
  anchor is remembered as offline, and never in a one-shot run or in the part of a
  tick behind the liveness gate; the frozen buffer and the filter know none.
- RecoversFromJumpsCorrect, an action property, from JumpInv: the detector has an
  earlier pose only when what moved the headset since is a jump or a freeze.
- RestLockIsCurrentCorrect, from LockInv: in a run no lock gets past the rest
  detector, unless a freeze skips it.

**OscRouterProofs.** RouterTypeCorrect, PublisherSafeCorrect,
ImplementsFifoCorrect. RingIndices says that the tail is the head plus the count,
modulo the capacity; FaceWorkerJoined that the face worker has ended before the
router's turn in Cleanup. `x % Capacity` never meets an argument of twice the
capacity or more, so a lemma replaces it by one conditional subtraction.

**DriverProofs.**
- DrainProtectsCorrect, from CounterInv and QuietInv: the in-flight counter is the
  number of threads between EnterDetour and ExitDetour, so that the drain's zero
  means that none is inside, and nothing is patched before MinHook is up.
- AppliesOnlyLearnedCorrect, from TableInv: the bound on the table holds also while
  the overlay is down, when no call is under way; what a call adds is ready, and while a
  device is unlearned, which pushes before it saves, whatever is in the table is still
  to be pushed or was missed.

**OverlayProofs.**
- RepliesMatchCorrect, from PipeInv: what is in the pipe belongs to the request at
  the top of the stack, and the pipe is empty while no answer is awaited.
- PortIsCarriedCorrect, from PortInv: when the sentinel is due the router has the
  port, unless its write or the reading of the old profile failed.
- RuntimeIsKeptCorrect, from PackInv: what each script knows of the runtime at its
  step, with a single script at work.
- SolveSurvivesCorrect, from SessionInv: calibrations are numbered by events, and
  the running overlay holds what it owes, or something newer, as a valid profile, or
  the zeros of a recovery. So no save of it loses the calibration but to these zeros,
  and it never leaves the registry without a profile.
- ClickDecidesCorrect, from ShellInv: a helper is named by its click, the overlay
  waits for each of its own, and a module has one helper at most, which does what the
  last click asked for.

Assumptions about constants stand where the constants are declared: sizes and
bounds are numbers (`BoundsAssumption`, `CalibrationAssumption`, `DriftAssumption`,
`InputHealthAssumption`, `IpcAssumption`, `WarmAssumption`, `TableAssumption`), sets
that are counted are finite, None, NoSystem and the like are not members of the sets
they extend, the shared runtime is no pack (`PacksAssumption`), the former program's
port is not 0 (`LaunchAssumption`). TLC evaluates them in the runs.

A proof attempt changed the model once. FrameIsOwn did not follow for a process
that answers its teardown after the loop has stopped waiting for it: with room for two
packets TLC shows the answer in the socket, taken for the next process's answer. The
history variable `leftover` now counts whatever is in the socket when a process is
reaped, and the run's socket holds two packets.

Only model-checked: the liveness properties (Recovers, WedgedIsReplaced,
PendingIsSent, StatusFollows, LateDeviceRestored, ProfileReaches, CleanupEnds,
UnloadEnds, StandbyResumes, LearnedReaches, SelectedRuns,
ReleaseIsFlushed, DriverIsSet), because the proof system does not handle ENABLED
and fairness. Type invariants are proved as theorems of their own for the
supervisor, the frame ring, the transforms, the profile and the router; elsewhere
the strengthenings contain what they need of them. No module uses RECURSIVE
operators, and nothing rests on an induction over data.

## 7. What the model shows of the code

Checked as a violation:

- F1. The captions host and the router disagree on how often the source
  identifier is sent (`OscRouter.cpp` 365, `RouterPublisher.h` 15): from the second
  caption on a connection the stream is out of step (`router_wire`).

Seen while modelling. Where one of these would refute a property, the property
names it as its exception; the others are behaviour the models have and no
property forbids.

*Supervisor and wedge detector.* F2: a failed respawn doubles the backoff and is
never repeated (531), although the header promises respawning with exponential
backoff; Recovers excepts it. A Restart between the monitor's wait and its reap
makes the monitor close the handle of the new, live host (446), and Restart tests
the stop flag and then spawns, which can outlive Stop (120): LeavesNoHost is
stated without Restart. Uptime is measured from the top of the iteration (433);
the backoff is reset by every CreateProcess (529). Two threads may write commands
in the opposite order of setting them (captions 101). A captions restart before the
overlay's first config sends the config the module was built with; a monitor that
marks its write to the old host after the restart's own set leaves the new host
without one if that write fails. The face supervisor raises `uuid_sent_` after any
write (facetracking `HostSupervisor.cpp` 205): a thread that wrote an older uuid, or
wrote to a host that has died since, hides the pending one for good if the newer
write failed, although the header (`HostSupervisor.h` 23) says that the uuid is then
queued for the next reconnect. Captions compares first (128) and has this only for an
equal command. PendingIsSent excepts both as `masked`. An attached host cannot be
killed, so a hung one is never replaced, and an attached captions host that stays
connected to the publish pipe and silent keeps the worker in ReadFile
(`OscRouter.cpp` 365) and the unload in its join (96), because Stop does not
terminate it (`HostSupervisorBase.cpp` 365): CleanupEnds names it as the only
exception.

*Shared memory and files.* F3: after a host died inside a write, its successor
writes under even generations and the reader can accept a torn frame
(`FrameWriter.cs` 278 against `wiki/Protocol.md` 38-39); the same holds for the
slot tables. NoTornFrame and NoTornSlot except it. The newest pose of a ring is
not read until another is written; the first pass over a fresh segment delivers
its never-written slot; a stale cursor drops poses of a fresh segment; the pose
mapping outlives vrserver while the overlay holds it (`Calibration.cpp` 838 says
otherwise). A status file whose read fails is not read again before the next
write, though the comment (`HostStatusPoller.cpp` 139-141) says that the next tick
retries; a dead host's old file is shown fresh for the first ten seconds.

*Transforms and profile.* A per-ID transform that arrives during the pose
thread's unlocked query is overwritten by the fallback
(`ServerTrackedDeviceProvider.cpp` 898 against its comment). F4: with an HMD that
does not fit the profile, the target system's fallback is enabled and stays so
(`Calibration.cpp` 2409). A target that goes from A to B and back leaves A's
fallback withdrawn in the driver and cached in the overlay; a driver restart does
not invalidate the caches (`IPCClient.cpp` 70); InvalidateAllTransformCaches keeps
the fallback cache (997); the recovery snap is spent on the zeroed calibration
(3753).

*Calibration.* The geometry-shift watchdog (2855-2860) is not gated on the state
and consumes the error of the last continuous tick, so "Cancel" clicked while
spikes accumulate is undone, and with Edit clicked before the next tick the state
goes from Editing to ContinuousStandby, which `StateTransitions.h` does not list.
A freeze skips the rest detector with the step that drops its lock, so the lock
survives a wave (RestLockIsCurrent excepts it); the residual variance is not
updated while the test fires, so that freezing lasts as long as the motion does
(`ReanchorChiSquareDetector.h` 24-26 says a few seconds). "Undo" of an automatic
recovery restores only `refToTargetPose` and its flags (3671); the comment
(3666-3670) says that the next tick applies it, but setRelativeTransformation is
called only by StartContinuousCalibration (2674), the next accepted solve
overwrites it (3485), and the zeroed calibration is not restored, though the log
says so. An automatic recovery zeroes `calibratedTranslation` and
`calibratedRotation` (3744-3745) with `validProfile` still true. The comments
(1865-1868, 3708-3712) leave it to the next valid solve to persist; but any save
before that solve, by Cancel (2696), a changed setting or the wizard's dismissal,
writes the zeros over the stored calibration, and the next start loads them.
SolveSurvives excepts exactly these zeros. The list of steps at 1785 has a SaveProfile
that the code does not make. SaveProfile without a valid profile writes an
empty string, so a profile that was newer, corrupt or unreadable is destroyed by
the next save, the wizard's dismissal is not persisted, and settings changed
before the first calibration are lost. Skipping the first system in the wizard
leaves later picks as extras with continuous calibration never started;
re-running it duplicates extras, which no button removes.
BuildSystemSelection erases the target system when only one system is present.

*Smoothing.* Both motion ranges and two devices with "/left" share one previous
frame; the pass-through path does not update it, although the comment (33-35) says
so; an update in flight over a Create re-seeds it with an old frame
(NoStaleBlend excepts it); a configuration in two words can be seen half-changed.
A slider set to 0 whose send fails is not sent again; the end of a lock does not
send the saved value; a request that absorbs the reconnect hides it from the
replay (`SmoothingPlugin.cpp` 51).

*Input health.* Reset leaves the overlay showing ready corrections. An overlay that
dies between save and push (`LearningEngine.cpp` 326-327, 435-452, 539-541), or whose
push of a removal is skipped or fails (395, 422), leaves an entry in the driver that
nothing learned backs; a new connection does not take it out, because only ready
records are pushed again. AppliesOnlyLearned excepts it as `missed`. A swallowed button
report
is not replayed (`InputHealthHookInjector.cpp` 195): if it was the last one, the games
keep the other value until the controller's driver reports again. After a driver
restart within two seconds old slots and handles stay visible as live.

*Face tracking.* The breaker never trips for a process that dies before its
handshake; a hung module's last update is published forever; selecting an unknown
module while publishing sets the phase to Idle, which disables the wedge
detector; a failing spawn loops without delay; packets left in the socket by a
process, its late answer to a teardown among them, may be taken for the next one's
and published under the next module's name (FrameIsOwn excepts them). The loop reads
`_activeModule` several times without a lock (`SubprocessManager.cs` 252, 259, 262); a
selection dropped in between is a null reference, which ends the host and leaves it
to the supervisor.
CalibrationEngine's Load is never called, so that what was learned is neither
kept nor tied to a module; a reset in the middle of an update leaves a warm flag
(WarmIsLearned excepts it). Removal of a source whose script is killed, times
out or fails leaves its module (RemovedIsGone excepts it); a killed install
without its source.json can never be removed.

*Captions.* Frames of 480 samples never fill the detector's window of 512
(`SileroVad.cpp` 120), so "always on" hears nothing. Audio queued while the loop
transcribes is judged by the button's later state; a press and release during
transcription is lost; a caption taken from the pacer while the router is away is
lost; a push-to-talk flush needs a later frame. Installing a second translation
pack extracts the runtime again and so fails while the host has it loaded; a
killed extraction leaves a truncated library, a killed write of a stamp one that the
dependency check ignores (`install-captions-pack.ps1` 237-239), so that removing another
pack takes the runtime of the pack whose stamp it was; an overlay restart allows two
scripts at once, which can remove the shared runtime (RuntimeIsKept excepts it).

*Shell and first launch.* The migrations are not resumed after a kill or a
failure, nor when another process made the folder first. A failed write of
`oscrouter.json` followed by the sentinel loses the port, and so does a
`facetracking.json` that cannot be read or parsed at that start (`Migration.cpp` 154,
158) once the plugin has saved over it (PortIsCarried excepts both).
A click while a helper of an earlier overlay runs races with it (ClickDecides
excepts it); the old `enable_translator.flag` keeps captions enabled whatever the
Modules tab says; the router can be disabled while a dependent's enabling is
pending (`main.cpp` 256). Quitting SteamVR between VR_Init and the creation of the
dashboard overlay leaves a dead session in use.

*Driver.* Cleanup destroys the modules before it stops the IPC servers
(`ServerTrackedDeviceProvider.cpp` 270); a detour is not counted between its entry
and EnterDetour, and a drain that times out proceeds: DrainProtects names both.

## 8. Not modelled

- Floating-point arithmetic: least squares, latency estimation, quaternion
  blending, percentiles, smoothing curves, vergence. Out of reach of both tools;
  the models take its outcome as an input. The map names the solver's lines all the
  same: of each fit the calibration module keeps which samples it reads, how many it
  needs and whether it can fail, on which SolveIsFresh and the watchdogs depend.
- The debounce of buttons: what it owes the games depends on what a controller's
  driver reports next, which is not part of this code.
- Drawing, plots, debug pages, recordings, themes, logging: they show state and
  feed nothing back. Of the user interface every button that changes state is an
  action of the module whose state it changes.
- Update notice and Discord presence: one request and one status line.
- The route table and address patterns of the router, the chaperone bounds, the
  detection of external smoothing tools: no state in common with the rest.
- The upstream face-tracking runtime and vendored libraries (third-party code),
  build, release and install scripts other than the two install scripts the
  overlay runs.

Assumptions on the environment: Windows delivers loopback packets in order and
keeps a mapping while a process holds it; modification times do not repeat;
memory accesses of the shared-memory protocols are not reordered beyond what
their fences allow; saves of input health succeed.

## 9. Plan

Done: supervision, commands, rings, tables, status files, transforms, profile,
calibration, drift, profile store, smoothing, skeletal hooks, input health, router,
driver life cycle, IPC clients, module host, sync, face pipeline, captions host and
packs, first launch, shell.

All safety properties of the runs are proved. Next:

1. Type invariants of the modules that have none proved (`CommandDelivery`,
   `CaptionsHost`, `StatusFile`, `WedgeDetector`), as far as they say something about
   queues and counters at their limits.
2. Safety facts that the liveness properties rest on: a pending command is sent or
   marked as pending or masked, no stop request of a server thread is lost.
