------------------------- MODULE CalibrationMachine -------------------------
(***************************************************************************)
(* The calibration state machine of the overlay (Calibration.cpp,          *)
(* CalibrationCalc.cpp, TrackerLiveness.h): one CalibrationTick is walked  *)
(* through its phases (variable pc), and the buttons of the user interface *)
(* act between two ticks, on the same thread.                              *)
(*                                                                         *)
(* Abstractions.  A pose sample is its kind: "own" when it was taken while *)
(* both anchors were believed online, "old" once an anchor has been        *)
(* declared offline after it was taken.  A solve                           *)
(* is the set of kinds it was fitted on.  Poses, jitter, diversity and the *)
(* outcome of the fit are inputs.  Times of the liveness detector are      *)
(* counted in ticks.  Sending the profile to the driver is ProfileSync,    *)
(* drift corrections of a finished calibration are CalibrationDrift.       *)
(***************************************************************************)
EXTENDS Naturals, Sequences, SequencesExt, FiniteSets

CONSTANTS
    Anchors,          \* the reference and the target device
    SampleCount,      \* CalCtx.SampleCount(): samples of a full buffer
    MaxRejections,    \* kMaxConsecutiveRejections
    HealthyBackoff,   \* how far a healthy estimate sets the count back
    MinSpikes,        \* kMinSustainedSpikes
    FrozenTicks,      \* kFrozenPoseThresholdSec, in ticks
    DebounceTicks     \* kReconnectDebounceSec, in ticks

ASSUME CalibrationAssumption ==
    /\ SampleCount \in Nat \ {0}
    /\ MaxRejections \in Nat \ {0}
    /\ HealthyBackoff \in 1..MaxRejections
    /\ MinSpikes \in Nat \ {0}
    /\ FrozenTicks \in Nat /\ DebounceTicks \in Nat
    /\ FrozenTicks > DebounceTicks /\ DebounceTicks > 0

VARIABLES
    pc,        \* phase of CalibrationTick, "idle" between two ticks
    state,     \* CalCtx.state
    hasIds,    \* referenceID and targetID are both assigned
    samples,   \* calibration.m_samples
    frozen,    \* calibration.m_rotationFrozen
    calc,      \* m_isValid, m_consecutiveRejections, and what the estimate and
               \* m_blendFilter were fitted on
    error,     \* newest error_currentCal the watchdog has not seen yet
    spikes,    \* s_consecutiveBadTicks
    applied,   \* CalCtx.hasAppliedCalibrationResult
    profile,   \* CalCtx.validProfile and the calibrated values
    disk,      \* what the registry holds
    live,      \* g_refLiveness, g_tgtLiveness
    wasOffline \* g_refWasOffline, g_tgtWasOffline

calcVars == <<samples, frozen, calc>>
liveVars == <<live, wasOffline>>
profileVars == <<applied, profile, disk>>
watchVars == <<error, spikes>>
vars == <<pc, state, hasIds, calcVars, watchVars, profileVars, liveVars>>

CalibrationState == {"None", "Begin", "Rotation", "Translation", "Editing",
                     "Continuous", "ContinuousStandby"}
Kind == {"own", "old"}

Cleared == [valid |-> FALSE, rejections |-> 0, src |-> {}, filter |-> {}]
Online  == [since |-> 0, moved |-> FALSE, offline |-> FALSE, debounce |-> 0]
NoProfile == [valid |-> FALSE, cal |-> "zero"]

TypeOK ==
    /\ pc \in {"idle", "watchdog", "tracking", "gate", "collect", "solve",
               "publish"}
    /\ state \in CalibrationState
    /\ hasIds \in BOOLEAN
    /\ samples \in BoundedSeq(Kind, SampleCount)
    /\ frozen \in BoundedSeq(Kind, SampleCount)
    /\ calc \in [valid : BOOLEAN, rejections : 0..MaxRejections,
                 src : SUBSET Kind, filter : SUBSET Kind]
    /\ error \in {"none", "ok", "spike"}
    /\ spikes \in 0..MinSpikes
    /\ applied \in BOOLEAN
    /\ profile \in [valid : BOOLEAN, cal : {"zero", "solved"}]
    /\ disk \in [valid : BOOLEAN, cal : {"zero", "solved"}, auto : BOOLEAN]
    /\ live \in [Anchors -> [since : 0..FrozenTicks, moved : BOOLEAN,
                             offline : BOOLEAN, debounce : 0..DebounceTicks]]
    /\ wasOffline \in [Anchors -> BOOLEAN]

(***************************************************************************)
(* The calculation object.                                                 *)
(***************************************************************************)

\* Samples that outlive an outage.
Aged(seq) == [i \in DOMAIN seq |-> "old"]

\* calibration.Clear()
Clear ==
    /\ calc' = Cleared
    /\ samples' = << >>
    /\ frozen' = << >>

\* SaveProfile: nothing but the empty string is written for an invalid profile;
\* the autostart flag is written while a continuous calibration is on.
SaveProfile(p, st) ==
    disk' = IF p.valid
            THEN [valid |-> TRUE, cal |-> p.cal,
                  auto |-> st \in {"Continuous", "ContinuousStandby"}]
            ELSE [valid |-> FALSE, cal |-> "zero", auto |-> FALSE]

\* A lookup whose result is lost.
AssignTargets_Forgets(found) == hasIds' = (hasIds /\ found)

\* AssignTargets: looks the devices up by serial when they have no ID yet.
AssignTargets(found) == hasIds' = (hasIds \/ found)

\* StartContinuousCalibration, with the StartCalibration it calls.
StartContinuousCalibration ==
    /\ applied' = FALSE
    /\ state' = "Continuous"
    /\ Clear
    /\ live' = [a \in Anchors |-> Online]
    /\ wasOffline' = [a \in Anchors |-> FALSE]

Init ==
    /\ pc = "idle"
    /\ state \in {"None", "ContinuousStandby"}
    /\ hasIds = FALSE
    /\ samples = << >> /\ frozen = << >>
    /\ calc = Cleared
    /\ error = "none" /\ spikes = 0
    /\ applied = FALSE
    /\ profile \in {NoProfile, [valid |-> TRUE, cal |-> "solved"]}
    /\ state = "ContinuousStandby" => profile.valid
    /\ disk = [valid |-> profile.valid, cal |-> profile.cal,
               auto |-> state = "ContinuousStandby"]
    /\ live = [a \in Anchors |-> Online]
    /\ wasOffline = [a \in Anchors |-> FALSE]

(***************************************************************************)
(* The user interface, between two ticks.                                  *)
(***************************************************************************)

\* "Start Calibration", and "Recalibrate" of the HMD-mismatch banner.
StartCalibration ==
    /\ pc = "idle"
    /\ state \in {"None", "Continuous", "ContinuousStandby"}
    /\ applied' = FALSE
    /\ \E found \in BOOLEAN : AssignTargets(found)
    /\ state' = "Begin"
    /\ Clear
    /\ UNCHANGED <<pc, watchVars, profile, disk, liveVars>>

\* "Start Continuous Calibration", and the setup wizard's start.
StartContinuous ==
    /\ pc = "idle"
    /\ state \in {"None", "Continuous", "ContinuousStandby"}
    /\ \E found \in BOOLEAN : AssignTargets(found)
    /\ StartContinuousCalibration
    /\ UNCHANGED <<pc, watchVars, profile, disk>>

\* "Cancel Continuous Calibration".  The estimate is not cleared.
EndContinuousCalibration ==
    /\ pc = "idle"
    /\ state \in {"Continuous", "ContinuousStandby"}
    /\ state' = "None"
    /\ SaveProfile(profile, "None")
    /\ UNCHANGED <<pc, hasIds, calcVars, watchVars, applied, profile, liveVars>>

\* "Edit Calibration", "Save Profile" and "Clear Calibration".
EditCalibration ==
    /\ pc = "idle" /\ state = "None" /\ profile.valid
    /\ state' = "Editing"
    /\ UNCHANGED <<pc, hasIds, calcVars, watchVars, profileVars, liveVars>>

SaveEdit ==
    /\ pc = "idle" /\ state = "Editing"
    /\ SaveProfile(profile, "Editing")
    /\ state' = "None"
    /\ UNCHANGED <<pc, hasIds, calcVars, watchVars, applied, profile, liveVars>>

ClearCalibration ==
    /\ pc = "idle"
    /\ state \in {"None", "Continuous", "ContinuousStandby"}
    /\ profile' = NoProfile
    /\ SaveProfile(NoProfile, state)
    /\ UNCHANGED <<pc, state, hasIds, calcVars, watchVars, applied, liveVars>>

\* The device lists: a click picks a device, or none when it is unavailable.
SelectDevices ==
    /\ pc = "idle" /\ state = "None"
    /\ hasIds' \in BOOLEAN
    /\ UNCHANGED <<pc, state, calcVars, watchVars, profileVars, liveVars>>

(***************************************************************************)
(* One CalibrationTick.                                                    *)
(***************************************************************************)

\* The tick passes its throttle and its range check of the device IDs; with
\* the trigger setting on, a continuous calibration looks for devices again.
TickBegins ==
    /\ pc = "idle"
    /\ pc' = "watchdog"
    /\ \/ /\ state \in {"Continuous", "ContinuousStandby"}
          /\ AssignTargets(TRUE)
       \/ UNCHANGED hasIds
    /\ UNCHANGED <<state, calcVars, watchVars, profileVars, liveVars>>

\* The relocalization detector fires: RecoverFromWedgedCalibration zeroes the
\* calibration in memory and restarts cold; nothing is saved.
TickRecovers ==
    /\ pc = "idle"
    /\ state \in {"Continuous", "ContinuousStandby"}
    /\ pc' = "watchdog"
    /\ profile' = [profile EXCEPT !.cal = "zero"]
    /\ \E found \in BOOLEAN : AssignTargets(found)
    /\ StartContinuousCalibration
    /\ UNCHANGED <<watchVars, disk>>

\* The geometry-shift watchdog looks at the newest error sample, whatever the
\* state is: MinSpikes spikes in a row, or a CUSUM that crosses its threshold
\* on a spike, clear the calculation and demote to standby.
GeometryShiftQuiet ==
    /\ pc = "watchdog"
    /\ ~ (calc.valid /\ error # "none")
    /\ pc' = "tracking"
    /\ spikes' = IF calc.valid THEN spikes ELSE 0
    /\ UNCHANGED <<state, hasIds, calcVars, error, profileVars, liveVars>>

GeometryShiftCounts ==
    /\ pc = "watchdog"
    /\ calc.valid /\ error # "none"
    /\ \/ error = "spike" /\ spikes + 1 < MinSpikes /\ spikes' = spikes + 1
       \/ error = "ok" /\ spikes' = 0
       \/ spikes' = 0      \* the CUSUM setting is on and the sum stays low
    /\ error' = "none"
    /\ pc' = "tracking"
    /\ UNCHANGED <<state, hasIds, calcVars, profileVars, liveVars>>

GeometryShiftFires ==
    /\ pc = "watchdog"
    /\ calc.valid /\ error = "spike"
    /\ error' = "none" /\ spikes' = 0
    /\ Clear
    /\ state' = "ContinuousStandby"
    /\ pc' = "tracking"
    /\ UNCHANGED <<hasIds, profileVars, liveVars>>

\* The headset's position is zero or has not changed: the tick is over.
HmdStalled ==
    /\ pc = "tracking"
    /\ pc' = "idle"
    /\ UNCHANGED <<state, hasIds, calcVars, watchVars, profileVars, liveVars>>

\* Nothing to calibrate: the profile scan and the drift correction of a
\* finished calibration are modelled in ProfileSync and CalibrationDrift.
TickRests ==
    /\ pc = "tracking"
    /\ state \in {"None", "Editing"}
    /\ pc' = "idle"
    /\ UNCHANGED <<state, hasIds, calcVars, watchVars, profileVars, liveVars>>

StandbyWaits ==
    /\ pc = "tracking" /\ state = "ContinuousStandby"
    /\ ~hasIds
    /\ pc' = "idle"
    /\ UNCHANGED <<state, hasIds, calcVars, watchVars, profileVars, liveVars>>

StandbyStarts ==
    /\ pc = "tracking" /\ state = "ContinuousStandby"
    /\ AssignTargets(TRUE)
    /\ hasIds'
    /\ StartContinuousCalibration
    /\ pc' = "gate"
    /\ UNCHANGED <<watchVars, profile, disk>>

\* Begin: devices assigned, poses valid and jitter low, or back to None.
BeginStep ==
    /\ pc = "tracking" /\ state = "Begin"
    /\ state' \in (IF hasIds THEN {"Rotation", "None"} ELSE {"None"})
    /\ pc' = "idle"
    /\ UNCHANGED <<hasIds, calcVars, watchVars, profileVars, liveVars>>

\* A missing device aborts a one-shot run; a continuous one waits.
MissingDevice ==
    /\ pc = "tracking"
    /\ state \in {"Rotation", "Translation", "Continuous"}
    /\ ~hasIds
    /\ state' = IF state = "Continuous" THEN state ELSE "None"
    /\ pc' = "idle"
    /\ UNCHANGED <<hasIds, calcVars, watchVars, profileVars, liveVars>>

DevicesAssigned ==
    /\ pc = "tracking"
    /\ state \in {"Rotation", "Translation", "Continuous"}
    /\ hasIds
    /\ pc' = IF state = "Continuous" THEN "gate" ELSE "collect"
    /\ UNCHANGED <<state, hasIds, calcVars, watchVars, profileVars, liveVars>>

\* TickTrackerLiveness for one anchor: its pose changed, is the same as before,
\* or the runtime says the device is gone.
TickTrackerLiveness(s, pose, hmdMoves) ==
    CASE pose = "gone" ->
            [s EXCEPT !.offline = TRUE,
                      !.debounce = IF s.offline /\ @ \in 1..(DebounceTicks - 1)
                                   THEN @ + 1 ELSE IF s.offline THEN @ ELSE 0]
      [] pose = "change" /\ ~s.offline ->
            [s EXCEPT !.since = 0, !.moved = FALSE]
      [] pose = "change" /\ s.offline ->
            IF s.debounce >= DebounceTicks THEN Online
            ELSE [s EXCEPT !.since = 0, !.moved = FALSE, !.debounce = @ + 1]
      [] pose = "same" ->
            LET since == IF s.since < FrozenTicks THEN s.since + 1 ELSE s.since
                moved == s.moved \/ hmdMoves
            IN IF s.offline
               THEN [s EXCEPT !.debounce = 0, !.moved = moved]
               ELSE [s EXCEPT !.since = since, !.moved = moved,
                              !.offline = since >= FrozenTicks /\ moved]

SkipsTick(next) == \E a \in Anchors : next[a].offline

\* A restart that waits until both anchors come back in the same tick.
AnchorReturned_Both(next) ==
    \A a \in Anchors : wasOffline[a] /\ ~next[a].offline
AnchorReturned(next) == \E a \in Anchors : wasOffline[a] /\ ~next[a].offline

\* What is in the buffer is old from the moment an anchor is declared offline.
Labelled(next) ==
    IF \E a \in Anchors : next[a].offline THEN Aged(samples) ELSE samples

Observed == [Anchors -> {"gone", "change", "same"}]
Liveness(poses, hmdMoves) ==
    [a \in Anchors |-> TickTrackerLiveness(live[a], poses[a], hmdMoves)]

AnchorOffline ==
    /\ pc = "gate"
    /\ \E poses \in Observed, hmdMoves \in BOOLEAN :
          LET next == Liveness(poses, hmdMoves) IN
          /\ SkipsTick(next)
          /\ live' = next
          /\ wasOffline' = [a \in Anchors |-> next[a].offline]
          /\ samples' = Labelled(next)
    /\ pc' = "idle"
    /\ UNCHANGED <<state, hasIds, frozen, calc, watchVars, profileVars>>

AnchorReturns ==
    /\ pc = "gate"
    /\ \E poses \in Observed, hmdMoves \in BOOLEAN :
          LET next == Liveness(poses, hmdMoves) IN
          ~SkipsTick(next) /\ AnchorReturned(next)
    /\ \E found \in BOOLEAN : AssignTargets(found)
    /\ StartContinuousCalibration
    /\ pc' = "idle"
    /\ UNCHANGED <<watchVars, profile, disk>>

AnchorsOnline ==
    /\ pc = "gate"
    /\ \E poses \in Observed, hmdMoves \in BOOLEAN :
          LET next == Liveness(poses, hmdMoves) IN
          /\ ~SkipsTick(next) /\ ~AnchorReturned(next)
          /\ live' = next
          /\ wasOffline' = [a \in Anchors |-> next[a].offline]
          /\ samples' = Labelled(next)
    /\ pc' = "collect"
    /\ UNCHANGED <<state, hasIds, frozen, calc, watchVars, profileVars>>

\* CollectSample: an invalid pose aborts a one-shot run.
CollectAborts ==
    /\ pc = "collect"
    /\ state' = IF state = "Continuous" THEN state ELSE "None"
    /\ pc' = "idle"
    /\ UNCHANGED <<hasIds, calcVars, watchVars, profileVars, liveVars>>

\* PushSample keeps the sample or drops it as oversized.
Pushed == {Append(samples, "own"), samples}
Trimmed(seq) == IF Len(seq) > SampleCount THEN Tail(seq) ELSE seq

CollectFills ==
    /\ pc = "collect"
    /\ \E s \in Pushed : Len(s) < SampleCount /\ samples' = s
    /\ pc' = "idle"
    /\ UNCHANGED <<state, hasIds, frozen, calc, watchVars, profileVars, liveVars>>

\* A full buffer of a one-shot run without enough motion rolls on.
CollectRolls ==
    /\ pc = "collect" /\ state \in {"Rotation", "Translation"}
    /\ \E s \in Pushed : Len(s) >= SampleCount /\ samples' = Tail(Trimmed(s))
    /\ pc' = "idle"
    /\ UNCHANGED <<state, hasIds, frozen, calc, watchVars, profileVars, liveVars>>

\* With the trigger setting, a calibration that has been applied waits for the
\* user's triggers before it is solved again.
WaitsForTriggers ==
    /\ pc = "collect" /\ state = "Continuous" /\ applied
    /\ \E s \in Pushed : Len(s) >= SampleCount /\ samples' = Trimmed(s)
    /\ pc' = "idle"
    /\ UNCHANGED <<state, hasIds, frozen, calc, watchVars, profileVars, liveVars>>

\* FreezeRotationPhaseSamples
RotationDone ==
    /\ pc = "collect" /\ state = "Rotation"
    /\ \E s \in Pushed : Len(s) >= SampleCount /\ frozen' = Trimmed(s)
    /\ samples' = << >>
    /\ state' = "Translation"
    /\ pc' = "idle"
    /\ UNCHANGED <<hasIds, calc, watchVars, profileVars, liveVars>>

CollectReady ==
    /\ pc = "collect" /\ state \in {"Translation", "Continuous"}
    /\ \E s \in Pushed : Len(s) >= SampleCount /\ samples' = Trimmed(s)
    /\ pc' = "solve"
    /\ UNCHANGED <<state, hasIds, frozen, calc, watchVars, profileVars, liveVars>>

(***************************************************************************)
(* What a fit is made of: the kinds of sample it uses, and whether its     *)
(* conditioning passes the gates.                                          *)
(***************************************************************************)

\* DetectOutliers leaves some of the samples to the rotation.
Inliers(seq) == SUBSET ToSet(seq)

\* CalibrateRotation fits the turns between samples; without one there is no
\* rotation and nothing of the buffer is used.
CalibrateRotation(seq) ==
    {[ok |-> FALSE, src |-> {}]}
    \cup [ok : BOOLEAN, src : Inliers(seq) \ {{}}]

\* The translation takes every sample, outliers too, by one of three solvers
\* that the settings choose.  Two samples are the least they work on.
NoTranslation == [ok |-> FALSE, src |-> {}]

SolveDirect(seq) ==
    IF Len(seq) < 2 THEN {NoTranslation} ELSE [ok : BOOLEAN, src : {ToSet(seq)}]

\* Its conditioning is reported as perfect whatever it is.
CalibrateTranslationUpstream(seq) ==
    {IF Len(seq) < 2 THEN NoTranslation ELSE [ok |-> TRUE, src |-> ToSet(seq)]}

CalibrateTranslationLegacyPairwise(seq) ==
    IF Len(seq) < 2 THEN {NoTranslation} ELSE [ok : BOOLEAN, src : {ToSet(seq)}]

CalibrateTranslation(seq) ==
    SolveDirect(seq) \cup CalibrateTranslationUpstream(seq)
    \cup CalibrateTranslationLegacyPairwise(seq)

\* The rotation, then the translation under it.
ComputeCalibration(seq) ==
    {[turns |-> r.src # {}, ok |-> r.ok /\ t.ok, src |-> r.src \cup t.src] :
        r \in CalibrateRotation(seq), t \in CalibrateTranslation(seq)}

\* The error a calibration leaves over the buffer: above what the noise of the
\* samples explains, below it, or below the noise floor.
RetargetingErrorRMS(seq) ==
    IF seq = << >> THEN {"high"} ELSE {"high", "rough", "fine"}
ValidateCalibration(seq) ==
    {[ok |-> e # "high", error |-> e] : e \in RetargetingErrorRMS(seq)}

\* Whether the buffer turned about more than one axis.
ComputeAxisVariance(seq) == IF seq = << >> THEN {FALSE} ELSE BOOLEAN

\* CalibrateByRelPose averages over the whole buffer what the relative pose of
\* the two devices says of each sample.
AverageFor(seq) == ToSet(seq)

\* An accepted fit against the estimate in use: with the blend filter off, on,
\* or thrown back by a jump.
Blended(fit) ==
    {[src |-> calc.src \cup fit, filter |-> calc.filter],
     [src |-> calc.filter \cup fit, filter |-> calc.filter \cup fit],
     [src |-> calc.src \cup fit, filter |-> {}]}

\* The first fit is taken as it is; the filter starts from it when it is on.
Seeded(fit) == [src : {fit}, filter : {calc.filter, fit}]

\* ComputeOneshot: the frozen rotation phase is spliced in front of the buffer;
\* only a buffer without a turn is refused, a poor fit is applied with a warning.
ComputeOneshot ==
    /\ pc = "solve" /\ state = "Translation"
    /\ \E c \in ComputeCalibration(frozen \o samples) :
          calc' = IF c.turns THEN [calc EXCEPT !.valid = TRUE, !.src = c.src]
                  ELSE calc
    /\ pc' = "publish"
    /\ UNCHANGED <<state, hasIds, samples, frozen, watchVars, profileVars,
                   liveVars>>

\* ComputeIncremental, first part: the error of the estimate in use is recorded
\* when it passes the gate, unless the locked path returned before.
RecordError(prior) ==
    error' \in (IF calc.valid /\ prior.ok THEN {"ok", "spike"}
                ELSE {error})

\* With the relative position locked, CalibrateByRelPose replaces the estimate
\* before anything else is looked at.
LockedAccepts ==
    /\ pc = "solve" /\ state = "Continuous"
    /\ \E fit \in ValidateCalibration(samples) : fit.ok
    /\ calc' = [calc EXCEPT !.valid = TRUE, !.src = AverageFor(samples)]
    /\ pc' = "publish"
    /\ UNCHANGED <<state, hasIds, samples, frozen, watchVars, profileVars,
                   liveVars>>

\* A candidate that passes the gates is blended with the estimate in use.
IncrementalAccepts ==
    /\ pc = "solve" /\ state = "Continuous"
    /\ \E prior \in ValidateCalibration(samples) : RecordError(prior)
    /\ TRUE \in ComputeAxisVariance(samples)
    /\ \E c \in ComputeCalibration(samples) :
          /\ c.ok
          /\ \E e \in (IF calc.valid THEN Blended(c.src) ELSE Seeded(c.src)) :
                calc' = [valid |-> TRUE, rejections |-> 0, src |-> e.src,
                         filter |-> e.filter]
    /\ pc' = "publish"
    /\ UNCHANGED <<state, hasIds, samples, frozen, spikes, profileVars, liveVars>>

\* A relative pose that explains the buffer better is snapped to; the filter is
\* left where it was.
RapidCorrects ==
    /\ pc = "solve" /\ state = "Continuous"
    /\ \E prior \in ValidateCalibration(samples) : RecordError(prior)
    /\ \E fit \in ValidateCalibration(samples) : fit.ok
    /\ calc' = [calc EXCEPT !.valid = TRUE, !.rejections = 0,
                            !.src = AverageFor(samples)]
    /\ pc' = "publish"
    /\ UNCHANGED <<state, hasIds, samples, frozen, spikes, profileVars, liveVars>>

\* The stuck-loop watchdog: enough rejections in a row, of an estimate that is
\* not healthy.
IsCalibrationHealthy(prior) == calc.valid /\ prior.error = "fine"
ShouldClearViaWatchdog(prior) ==
    /\ calc.valid
    /\ calc.rejections + 1 >= MaxRejections
    /\ ~IsCalibrationHealthy(prior)

\* A rejected candidate counts; a healthy estimate sets the count back.
IncrementalRejects ==
    /\ pc = "solve" /\ state = "Continuous"
    /\ \E prior \in ValidateCalibration(samples) :
          /\ RecordError(prior)
          /\ ~ShouldClearViaWatchdog(prior)
          /\ calc' = [calc EXCEPT !.rejections =
                        IF @ + 1 < MaxRejections THEN @ + 1
                        ELSE IF calc.valid THEN MaxRejections - HealthyBackoff
                        ELSE MaxRejections]
    /\ pc' = "publish"
    /\ UNCHANGED <<state, hasIds, samples, frozen, spikes, profileVars, liveVars>>

StuckLoopClears ==
    /\ pc = "solve" /\ state = "Continuous"
    /\ \E prior \in ValidateCalibration(samples) :
          RecordError(prior) /\ ShouldClearViaWatchdog(prior)
    /\ Clear
    /\ pc' = "publish"
    /\ UNCHANGED <<state, hasIds, spikes, profileVars, liveVars>>

\* "Pause updates", or the relative-pose path returned without a verdict.
SolveSkipped ==
    /\ pc = "solve" /\ state = "Continuous"
    /\ \E prior \in ValidateCalibration(samples) : RecordError(prior)
    /\ pc' = "publish"
    /\ UNCHANGED <<state, hasIds, calcVars, spikes, profileVars, liveVars>>

\* The end of the tick: a valid estimate that is not degenerate becomes the
\* profile and is saved; a one-shot run ends, a continuous one drops samples.
Publish ==
    /\ pc = "publish"
    /\ \/ /\ calc.valid
          /\ profile' = [valid |-> TRUE, cal |-> "solved"]
          /\ SaveProfile([valid |-> TRUE, cal |-> "solved"], state)
          /\ applied' = TRUE
       \/ UNCHANGED profileVars
    /\ IF state = "Continuous"
       THEN /\ samples' = IF samples = << >> THEN samples ELSE Tail(samples)
            /\ UNCHANGED <<state, frozen, calc>>
       ELSE state' = "None" /\ Clear
    /\ pc' = "idle"
    /\ UNCHANGED <<hasIds, watchVars, liveVars>>

UserInterface ==
    \/ StartCalibration \/ StartContinuous \/ EndContinuousCalibration
    \/ EditCalibration \/ SaveEdit \/ ClearCalibration \/ SelectDevices

Watchdog == GeometryShiftQuiet \/ GeometryShiftCounts \/ GeometryShiftFires
Gate == AnchorOffline \/ AnchorReturns \/ AnchorsOnline
Collect == CollectAborts \/ CollectFills \/ CollectRolls \/ WaitsForTriggers
           \/ RotationDone \/ CollectReady
Solve == ComputeOneshot \/ LockedAccepts \/ IncrementalAccepts
         \/ RapidCorrects \/ IncrementalRejects \/ StuckLoopClears \/ SolveSkipped
\* The part of a tick in which the headset is seen to move.
Moving == TickRests \/ StandbyWaits \/ StandbyStarts \/ BeginStep
          \/ MissingDevice \/ DevicesAssigned

Tick == TickBegins \/ TickRecovers \/ Watchdog \/ HmdStalled \/ Moving \/ Gate
        \/ Collect \/ Solve \/ Publish

Next == UserInterface \/ Tick

\* The overlay's loop keeps calling CalibrationTick.  The headset moves, and
\* the saved devices are found, at infinitely many of the ticks that look.
Fairness == /\ WF_vars(Tick)
            /\ SF_vars(Moving)
            /\ SF_vars(StandbyStarts)

Spec == Init /\ [][Next]_vars /\ Fairness

(***************************************************************************)
(* Properties.                                                             *)
(***************************************************************************)

\* No solve is fitted on a sample taken before an anchor was declared offline:
\* however an outage ends (one anchor back before the other, a demotion, a user
\* who restarts in between), the buffer is purged before the next solve.
SolveIsFresh == "old" \notin calc.src

\* A demoted or autostarted continuous calibration does not stay in standby:
\* the tick finds the devices and restarts it, or the user ends it.
StandbyResumes == state = "ContinuousStandby" ~> state # "ContinuousStandby"
=============================================================================
