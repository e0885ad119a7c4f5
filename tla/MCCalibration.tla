--------------------------- MODULE MCCalibration ---------------------------
(***************************************************************************)
(* The calibration tick: its state machine with the samples and solves     *)
(* (CalibrationMachine), and its detectors of drift, jumps and rest        *)
(* (CalibrationDrift).  The parts share no variable: a behaviour is one of *)
(* one part, and the other stays as it began.                              *)
(***************************************************************************)
EXTENDS CalibrationMachine

CONSTANTS Stations, MaxShift, SingleMin, MinEvents, Toggles

ASSUME DriftAssumption ==
    /\ IsFiniteSet(Stations)
    /\ MaxShift \in Nat /\ SingleMin \in Nat \ {0, 1} /\ MinEvents \in Nat
    /\ Toggles \subseteq SUBSET {"drift", "rest", "predict", "chi"}

VARIABLES
    part,
    at, on, mode, valid, cached, shift, refined, throttled, correction, hmd, prev, jump, grace,
    banner, events, lock, waved, nudge, warm, freeze, skipped

Drift == INSTANCE CalibrationDrift WITH pc <- at

machineVars == vars
driftVars == <<at, on, mode, valid, cached, shift, refined, throttled, correction, hmd, prev,
               jump, grace, banner, events, lock, waved, nudge, warm, freeze, skipped>>
allVars == <<part, machineVars, driftVars>>

\* Choices of a part that does not run are made for it.
AtRest ==
    /\ part # "machine" => state = "None" /\ ~profile.valid
    /\ part # "drift" => on = {} /\ mode = "None"

MCInit == part \in {"machine", "drift"} /\ Init /\ Drift!Init /\ AtRest

MCNext ==
    /\ UNCHANGED part
    /\ \/ part = "machine" /\ Next /\ UNCHANGED driftVars
       \/ part = "drift" /\ Drift!Next /\ UNCHANGED machineVars

\* The fairness of the machine while it runs.
MCFairness ==
    /\ WF_machineVars(part = "machine" /\ Tick)
    /\ SF_machineVars(part = "machine" /\ Moving)
    /\ SF_machineVars(part = "machine" /\ StandbyStarts)

MCSpec == MCInit /\ [][MCNext]_allVars /\ MCFairness

\* The automatic recovery throws a calibration away only after a re-localization
\* or a frozen pose, never for a walk in a dropout or a swing in a one-shot run:
\* CalibrationDrift, for TickHmdRelocalizationDetector.
RecoversFromJumps == Drift!RecoversFromJumps

\* A yaw nudge compares with a lock taken in the same rest: CalibrationDrift, for
\* TickRestLockedYaw.
RestLockIsCurrent == Drift!RestLockIsCurrent
=============================================================================
