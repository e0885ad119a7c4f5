-------------------------- MODULE CalibrationDrift --------------------------
(***************************************************************************)
(* The detectors that correct a calibration between two solves             *)
(* (Calibration.cpp): in every tick first the headset-relocalization       *)
(* detector with its automatic recovery, then the chi-square freeze, the   *)
(* rest-locked yaw and the predictive recovery, and, in state None, the    *)
(* base station drift correction.  The solver itself is CalibrationMachine.*)
(*                                                                         *)
(* Abstractions.  Poses lie on a line.  What the detectors compare with is *)
(* kept as the difference made since: of the universe and of one station   *)
(* since the station cache was taken, of the headset since prevHmd (as the *)
(* cause of a jump above the recovery threshold), of the tracker since its *)
(* rest lock; one tracker stands for all, which rest and lock apart.       *)
(* Throttles, the smaller thresholds and what the chi-square test finds    *)
(* improbable are choices.  Nudges are recorded as events: their size is   *)
(* arithmetic.                                                             *)
(***************************************************************************)
EXTENDS Integers, FiniteSets

CONSTANTS
    Stations,      \* base stations of the calibrated system
    MaxShift,      \* how far the universe moves between two looks
    SingleMin,     \* the shift a lone station must show to be believed
    MinEvents,     \* kMinEvents of the recovery buffer
    Toggles        \* the combinations of opt-in detectors that are explored

VARIABLES
    pc,          \* phase of the tick
    on,          \* the detectors that the settings turn on
    mode,        \* CalCtx.state; the one-shot states are "OneShot"
    valid,       \* CalCtx.validProfile
    cached,      \* serials in baseStationCache
    shift,       \* universe now minus universe when the cache was taken
    refined,     \* stations whose own pose was refined since then
    throttled,   \* an accepted shift is less than 5 s old
    correction,  \* what this tick added to the calibration
    hmd,         \* the headset's pose: "ok", "invalid", "stalled"
    prev,        \* havePrevHmd
    jump,        \* what moved the headset far since prevHmd was taken
    grace,       \* lastHmdInvalidTime is less than 10 s ago
    banner,      \* LastAutoRecoveryActive: the banner with "Undo" is shown
    events,      \* events in g_recoveryDeltaBuffer
    lock,        \* the tracker's rest phase
    waved,       \* a run has had the tracker waved since the lock
    nudge,       \* what this tick nudged by
    warm,        \* the chi-square test has the samples it needs
    freeze,      \* freezeUntil lies ahead
    skipped      \* history: the rest detector was skipped since the lock

stationVars == <<cached, shift, refined, throttled, correction>>
hmdVars == <<hmd, prev, jump, grace, banner, events>>
restVars == <<lock, waved, nudge, skipped>>
chiVars == <<warm, freeze>>
vars == <<pc, on, mode, valid, stationVars, hmdVars, restVars, chiVars>>

Modes == {"None", "Editing", "OneShot", "Continuous", "ContinuousStandby"}

TypeOK ==
    /\ pc \in {"idle", "reloc", "chi", "rest", "predict", "drift"}
    /\ on \in Toggles
    /\ mode \in Modes
    /\ valid \in BOOLEAN
    /\ cached \subseteq Stations /\ refined \subseteq Stations
    /\ shift \in -MaxShift..MaxShift
    /\ correction \in -(MaxShift + 1)..(MaxShift + 1)
    /\ hmd \in {"ok", "invalid", "stalled"}
    /\ jump \in {"none", "reloc", "swing", "dropout", "stall"}
    /\ {throttled, prev, grace, banner, waved, warm, freeze, skipped} \subseteq BOOLEAN
    /\ events \in 0..MinEvents
    /\ lock \in {"none", "recent", "held"}
    /\ nudge \in {"none", "rest", "predict"}

Init ==
    /\ pc = "idle" /\ on \in Toggles
    /\ mode \in {"None", "ContinuousStandby"}
    /\ valid = (mode = "ContinuousStandby")
    /\ cached = {} /\ shift = 0 /\ refined = {} /\ throttled = FALSE
    /\ correction = 0
    /\ hmd = "ok" /\ prev = FALSE /\ jump = "none" /\ grace = FALSE
    /\ banner = FALSE /\ events = 0
    /\ lock = "none" /\ waved = FALSE /\ nudge = "none" /\ skipped = FALSE
    /\ warm = FALSE /\ freeze = FALSE

(***************************************************************************)
(* The world, between two ticks.                                           *)
(***************************************************************************)

\* The runtime moves its origin.
UniverseShifts ==
    /\ pc = "idle" /\ "drift" \in on
    /\ shift' \in (-MaxShift..MaxShift) \ {shift}
    /\ UNCHANGED <<pc, on, mode, valid, cached, refined, throttled, correction,
                   hmdVars, restVars, chiVars>>

\* The runtime refines the pose of one station.  A second one is not refined
\* before the detector has looked again.
StationRefined ==
    /\ pc = "idle" /\ "drift" \in on
    /\ refined = {}
    /\ \E s \in Stations : refined' = {s}
    /\ UNCHANGED <<pc, on, mode, valid, cached, shift, throttled, correction,
                   hmdVars, restVars, chiVars>>

\* Tracking is lost, or the pose freezes while it is still reported as valid.
HmdStops ==
    /\ pc = "idle" /\ hmd = "ok"
    /\ hmd' \in {"invalid", "stalled"}
    /\ UNCHANGED <<pc, on, mode, valid, stationVars, prev, jump, grace, banner,
                   events, restVars, chiVars>>

\* The headset is back; after a freeze it may be far from where it froze.
HmdResumes ==
    /\ pc = "idle" /\ hmd # "ok"
    /\ hmd' = "ok"
    /\ jump' \in (IF hmd = "stalled" /\ jump = "none" THEN {jump, "stall"}
                  ELSE {jump})
    /\ UNCHANGED <<pc, on, mode, valid, stationVars, prev, grace, banner,
                   events, restVars, chiVars>>

\* The headset's tracking re-localizes.
HmdRelocalizes ==
    /\ pc = "idle" /\ hmd = "ok" /\ jump = "none"
    /\ jump' = "reloc"
    /\ UNCHANGED <<pc, on, mode, valid, stationVars, hmd, prev, grace, banner,
                   events, restVars, chiVars>>

\* The window after the chi-square test fired, half a second.
FreezeEnds ==
    /\ pc = "idle" /\ freeze
    /\ freeze' = FALSE
    /\ UNCHANGED <<pc, on, mode, valid, stationVars, hmdVars, restVars, warm>>

TimePasses ==
    /\ pc = "idle" /\ (throttled \/ grace)
    /\ throttled' = FALSE /\ grace' = FALSE
    /\ UNCHANGED <<pc, on, mode, valid, cached, shift, refined, correction, hmd,
                   prev, jump, banner, events, restVars, chiVars>>

(***************************************************************************)
(* The user interface, between two ticks.                                  *)
(***************************************************************************)

ChangesMode ==
    /\ pc = "idle"
    /\ \/ mode = "None" /\ mode' \in {"OneShot", "Continuous"}
       \/ mode = "None" /\ valid /\ mode' = "Editing"
       \/ mode \in {"Editing", "Continuous", "ContinuousStandby"} /\ mode' = "None"
    /\ UNCHANGED <<pc, on, valid, stationVars, hmdVars, restVars, chiVars>>

ClearCalibration ==
    /\ pc = "idle" /\ valid
    /\ mode \in {"None", "Continuous", "ContinuousStandby"}
    /\ valid' = FALSE
    /\ UNCHANGED <<pc, on, mode, stationVars, hmdVars, restVars, chiVars>>

\* Experimental switches, at any time.
ToggleDetectors ==
    /\ pc = "idle"
    /\ on' \in {t \in Toggles \ {on} : "drift" \in t <=> "drift" \in on}
    /\ UNCHANGED <<pc, mode, valid, stationVars, hmdVars, restVars, chiVars>>

\* The banner's "Undo" restores the relative pose; the event stays in the
\* buffer of the predictive recovery, and the calibration stays zeroed.
UndoLastAutoRecovery ==
    /\ pc = "idle" /\ banner
    /\ banner' = FALSE
    /\ UNCHANGED <<pc, on, mode, valid, stationVars, hmd, prev, jump, grace,
                   events, restVars, chiVars>>

\* "Dismiss" hides the banner, and so does a minute.
DismissAutoRecoveryBanner ==
    /\ pc = "idle" /\ banner
    /\ banner' = FALSE
    /\ UNCHANGED <<pc, on, mode, valid, stationVars, hmd, prev, jump, grace, events,
                   restVars, chiVars>>

(***************************************************************************)
(* The tick.                                                               *)
(***************************************************************************)

TickBegins ==
    /\ pc = "idle"
    /\ pc' = "reloc"
    /\ correction' = 0 /\ nudge' = "none"
    /\ UNCHANGED <<on, mode, valid, cached, shift, refined, throttled, hmdVars,
                   lock, waved, skipped, chiVars>>

\* A detector that compares with the pose of before the gap.
DropPrev_Keeps(why) == prev' = prev /\ jump' = why

\* havePrevHmd = false; the user walks on or swings the headset meanwhile.
DropPrev(why) == prev' = FALSE /\ jump' = why

RelocSkipsOneShot ==
    /\ pc = "reloc" /\ mode = "OneShot"
    /\ DropPrev("swing")
    /\ pc' = "chi"
    /\ UNCHANGED <<on, mode, valid, stationVars, hmd, grace, banner, events,
                   restVars, chiVars>>

RelocSeesDropout ==
    /\ pc = "reloc" /\ mode # "OneShot" /\ hmd = "invalid"
    /\ DropPrev("dropout")
    /\ grace' = TRUE
    /\ pc' = "chi"
    /\ UNCHANGED <<on, mode, valid, stationVars, hmd, banner, events, restVars, chiVars>>

\* No jump, a jump that a threshold or a throttle holds back, or one without
\* the evidence of the trackers and the stations.
RelocQuiet ==
    /\ pc = "reloc" /\ mode # "OneShot" /\ hmd # "invalid"
    /\ prev' = TRUE /\ jump' = "none"
    /\ pc' = "chi"
    /\ UNCHANGED <<on, mode, valid, stationVars, hmd, grace, banner, events,
                   restVars, chiVars>>

\* Stations that the cache knows must not have moved since it was taken.
BasesStable == cached # {} => shift = 0 /\ cached \cap refined = {}

\* An event in the ring of the predictive recovery.
Push == events' = IF events < MinEvents THEN events + 1 ELSE events

\* RecoverFromWedgedCalibration: zero the calibration, restart cold.
RelocRecovers ==
    /\ pc = "reloc" /\ hmd # "invalid"
    /\ mode \in {"Continuous", "ContinuousStandby"}
    /\ prev /\ jump # "none" /\ ~grace
    /\ BasesStable
    /\ banner' = TRUE
    /\ Push
    /\ mode' = "Continuous"
    /\ prev' = TRUE /\ jump' = "none"
    /\ pc' = "chi"
    /\ UNCHANGED <<on, valid, stationVars, hmd, grace, restVars, chiVars>>

(* TickReanchorChiSquare: a headset pose that is improbable after the poses before
   freezes both nudges.  Turned off, the detector forgets all. *)
ChiOff ==
    /\ pc = "chi" /\ "chi" \notin on
    /\ warm' = FALSE /\ freeze' = FALSE
    /\ pc' = "rest"
    /\ UNCHANGED <<on, mode, valid, stationVars, hmdVars, restVars>>

\* A lost headset lifts the freeze for this tick.
ChiLost ==
    /\ pc = "chi" /\ "chi" \in on /\ hmd = "invalid"
    /\ pc' = "rest"
    /\ UNCHANGED <<on, mode, valid, stationVars, hmdVars, restVars, chiVars>>

\* IsFrozen: both nudges are skipped, the rest detector's clearing included.
SkipsNudges ==
    /\ pc' = "drift"
    /\ skipped' = (skipped \/ lock # "none")
    /\ UNCHANGED <<lock, waved, nudge>>

\* A probable pose is learned from; the test is warm after some of them.
ChiLearns ==
    /\ pc = "chi" /\ "chi" \in on /\ hmd # "invalid"
    /\ warm' \in {warm, TRUE}
    /\ IF freeze THEN SkipsNudges ELSE pc' = "rest" /\ UNCHANGED restVars
    /\ UNCHANGED <<on, mode, valid, stationVars, hmdVars, freeze>>

ChiFires ==
    /\ pc = "chi" /\ "chi" \in on /\ hmd # "invalid" /\ warm
    /\ freeze' = TRUE
    /\ SkipsNudges
    /\ UNCHANGED <<on, mode, valid, stationVars, hmdVars, warm>>

\* A rest detector that keeps its locks while another mode is on.
RestOff_KeepsLock ==
    /\ pc = "rest"
    /\ "rest" \notin on \/ mode \in {"Continuous", "OneShot"}
    /\ pc' = "predict"
    /\ UNCHANGED <<on, mode, valid, stationVars, hmdVars, restVars, chiVars>>

DropsLock == lock' = "none" /\ waved' = FALSE /\ skipped' = FALSE

\* Turned off, or in a mode in which the tracker is moved on purpose.
RestOff ==
    /\ pc = "rest"
    /\ "rest" \notin on \/ mode \in {"Continuous", "OneShot"}
    /\ DropsLock
    /\ pc' = "predict"
    /\ UNCHANGED <<on, mode, valid, stationVars, hmdVars, nudge, chiVars>>

RestLooks == "rest" \in on /\ mode \notin {"Continuous", "OneShot"}

\* Without a profile there is nothing to nudge; the locks stay.
RestNoProfile ==
    /\ pc = "rest" /\ RestLooks /\ ~valid
    /\ pc' = "predict"
    /\ UNCHANGED <<on, mode, valid, stationVars, hmdVars, restVars, chiVars>>

\* The tracker's pose is invalid, or it turns too fast: no lock.
RestMoves ==
    /\ pc = "rest" /\ RestLooks /\ valid
    /\ DropsLock
    /\ pc' = "predict"
    /\ UNCHANGED <<on, mode, valid, stationVars, hmdVars, nudge, chiVars>>

\* UpdatePhase: the tracker rests, and locks after a while.
RestRests ==
    /\ pc = "rest" /\ RestLooks /\ valid
    /\ \/ lock = "none" /\ lock' = "recent" /\ UNCHANGED <<waved, skipped>>
       \/ lock = "recent" /\ lock' \in {"recent", "held"}
          /\ waved' = FALSE /\ skipped' = FALSE
    /\ pc' = "predict"
    /\ UNCHANGED <<on, mode, valid, stationVars, hmdVars, nudge, chiVars>>

\* A tracker that rests on is compared with its lock.
RestNudges ==
    /\ pc = "rest" /\ RestLooks /\ valid /\ lock = "held"
    /\ nudge' = "rest"
    /\ pc' = "predict"
    /\ UNCHANGED <<on, mode, valid, stationVars, hmdVars, lock, waved, skipped, chiVars>>

\* TickPredictiveRecovery
PredictOff ==
    /\ pc = "predict" /\ "predict" \notin on
    /\ events' = 0
    /\ pc' = "drift"
    /\ UNCHANGED <<on, mode, valid, stationVars, hmd, prev, jump, grace, banner,
                   restVars, chiVars>>

PredictQuiet ==
    /\ pc = "predict" /\ "predict" \in on
    /\ pc' = "drift"
    /\ UNCHANGED <<on, mode, valid, stationVars, hmdVars, restVars, chiVars>>

PredictNudges ==
    /\ pc = "predict" /\ "predict" \in on
    /\ valid /\ mode # "OneShot" /\ events >= MinEvents
    /\ nudge' = "predict"
    /\ pc' = "drift"
    /\ UNCHANGED <<on, mode, valid, stationVars, hmdVars, lock, waved, skipped, chiVars>>

\* A run solves: the user has waved the tracker to feed it.
Solves == valid' = TRUE /\ waved' = (lock # "none")

\* The rest of a tick that does not end in the drift correction: a stalled
\* headset, a solve, a restart from standby, the end of a one-shot run.
TickEnds ==
    /\ pc = "drift"
    /\ \/ hmd = "stalled" /\ UNCHANGED <<mode, valid, waved>>
       \/ mode = "Editing" /\ UNCHANGED <<mode, valid, waved>>
       \/ mode = "Continuous" /\ mode' \in {mode, "ContinuousStandby"}
          /\ UNCHANGED <<valid, waved>>
       \/ mode = "Continuous" /\ Solves /\ UNCHANGED mode
       \/ mode = "ContinuousStandby" /\ mode' \in {mode, "Continuous"}
          /\ UNCHANGED <<valid, waved>>
       \/ mode = "OneShot" /\ mode' \in {mode, "None"} /\ UNCHANGED <<valid, waved>>
       \/ mode = "OneShot" /\ mode' = "None" /\ Solves
    /\ pc' = "idle"
    /\ UNCHANGED <<on, stationVars, hmdVars, lock, nudge, skipped, chiVars>>

\* The setting is off, there is no profile, or its headset is not this one.
DriftOff ==
    /\ pc = "drift" /\ mode = "None" /\ hmd # "stalled"
    /\ pc' = "idle"
    /\ UNCHANGED <<on, mode, valid, stationVars, hmdVars, restVars, chiVars>>

\* How far a station has moved since the cache was taken.
Delta(s) == shift + (IF s \in refined THEN 1 ELSE 0)

\* Several stations must agree; a lone one must move far.
Consensus(seen) ==
    /\ \A s, t \in seen : Delta(s) = Delta(t)
    /\ Cardinality(seen) = 1 =>
          \A s \in seen : Delta(s) >= SingleMin \/ -Delta(s) >= SingleMin

ApplyUniverseShift(seen) ==
    /\ \E s \in seen : correction' = Delta(s)
    /\ throttled' = TRUE

\* TickBaseStationDrift: compare with the cache, correct, refresh the cache.
TickBaseStationDrift ==
    /\ pc = "drift" /\ mode = "None" /\ hmd # "stalled"
    /\ "drift" \in on /\ valid
    /\ \E visible \in SUBSET Stations :
          LET seen == visible \cap cached IN
          /\ IF ~throttled /\ Consensus(seen)
                /\ \E s \in seen : Delta(s) # 0
             THEN ApplyUniverseShift(seen)
             ELSE UNCHANGED <<correction, throttled>>
          /\ cached' = visible
    /\ shift' = 0 /\ refined' = {}
    /\ pc' = "idle"
    /\ UNCHANGED <<on, mode, valid, hmdVars, restVars, chiVars>>

World == UniverseShifts \/ StationRefined \/ HmdStops \/ HmdResumes
         \/ HmdRelocalizes \/ FreezeEnds \/ TimePasses
UserInterface == ChangesMode \/ ClearCalibration \/ ToggleDetectors
                 \/ UndoLastAutoRecovery \/ DismissAutoRecoveryBanner
Reloc == RelocSkipsOneShot \/ RelocSeesDropout \/ RelocQuiet \/ RelocRecovers
Chi == ChiOff \/ ChiLost \/ ChiLearns \/ ChiFires
Rest == RestOff \/ RestNoProfile \/ RestMoves \/ RestRests \/ RestNudges
Predict == PredictOff \/ PredictQuiet \/ PredictNudges
Tick == TickBegins \/ Reloc \/ Chi \/ Rest \/ Predict \/ TickEnds \/ DriftOff
        \/ TickBaseStationDrift

Next == World \/ UserInterface \/ Tick

Spec == Init /\ [][Next]_vars

(***************************************************************************)
(* Properties.                                                             *)
(***************************************************************************)

\* The automatic recovery never throws a calibration away because the user
\* walked during a tracking dropout or swung the headset in a one-shot run:
\* only a re-localization, or a pose that froze while reported valid, looks
\* like one to the detector.
RecoversFromJumps == [][RelocRecovers => jump \in {"reloc", "stall"}]_vars

\* A yaw nudge compares the tracker with a lock taken in the same rest: a
\* tracker that was waved in a run, or whose pose was lost, has lost its lock
\* by the time it nudges again, whichever detectors are switched meanwhile.
\* Only a freeze of the chi-square test undoes this: it skips the detector,
\* and with it the step that drops the lock.
RestLockIsCurrent == nudge = "rest" /\ ~skipped => ~waved
=============================================================================
