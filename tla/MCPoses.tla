------------------------------ MODULE MCPoses ------------------------------
(***************************************************************************)
(* What the driver does to data on its way: it moves poses                 *)
(* (DeviceTransforms) and damps their prediction (PredictionSmoothing),    *)
(* smooths finger bones (SkeletalHooks), and normalises faces              *)
(* (FacePipeline).  The parts share no variable: a behaviour is one of one *)
(* part, and the others stay as they began.                                *)
(***************************************************************************)
EXTENDS DeviceTransforms

CONSTANTS
    Handles, Path, MaxCreates, MaxSets, \* SkeletalHooks
    Class, MaxFaults, MaxStarts, MaxEdits, \* PredictionSmoothing
    kWarmThreshold, MaxRequests         \* FacePipeline

ASSUME WarmAssumption == kWarmThreshold \in Nat

VARIABLES
    part,
    hooks, handedness, initialized, previous, header, low, setting, call, epoch, stragglers, sets,
    server, present, pushed, phase, vr, conn, saved, locked, known, sig, faults, starts, edits,
    config, requests, shapes, at, frame, cfg, todo, loaded, normal, dwell, stable, wink,
    learned, reset

\* What the configuration gives Path: two components of the left hand, one of the right.
HandPaths == [h \in Handles |-> IF h \in {1, 2} THEN "left" ELSE "right"]
\* What it gives Class: a device that is not shown between two trackers.
DeviceClasses == <<"tracker", "hidden", "tracker">>

Bones == INSTANCE SkeletalHooks
Prediction == INSTANCE PredictionSmoothing
Face == INSTANCE FacePipeline WITH raced <- reset

transformVars == vars
boneVars == <<hooks, handedness, initialized, previous, header, low, setting, call, epoch,
              stragglers, sets>>
predictionVars == <<server, present, pushed, phase, vr, conn, saved, locked, known, sig, faults,
                    starts, edits>>
faceVars == <<config, requests, shapes, at, frame, cfg, todo, loaded, normal, dwell, stable, wink,
              learned, reset>>
allVars == <<part, transformVars, boneVars, predictionVars, faceVars>>

\* The values saved earlier are a choice, of the prediction's part.
AtRest == part # "prediction" => saved = Prediction!Zero

MCInit ==
    /\ part \in {"transforms", "bones", "prediction", "face"}
    /\ Init /\ Bones!Init /\ Prediction!Init /\ Face!Init /\ AtRest

MCNext ==
    /\ UNCHANGED part
    /\ \/ part = "transforms" /\ Next /\ UNCHANGED <<boneVars, predictionVars, faceVars>>
       \/ part = "bones" /\ Bones!Next /\ UNCHANGED <<transformVars, predictionVars, faceVars>>
       \/ part = "prediction" /\ Prediction!Next /\ UNCHANGED <<transformVars, boneVars, faceVars>>
       \/ part = "face" /\ Face!Next /\ UNCHANGED <<transformVars, boneVars, predictionVars>>

\* The fairness of each part while it runs.
MCFairness ==
    /\ WF_predictionVars(part = "prediction" /\ Prediction!Frame)
    /\ SF_predictionVars(part = "prediction" /\ Prediction!ScanFallsDue)
    /\ WF_faceVars(part = "face" /\ Face!Worker)
    /\ WF_faceVars(part = "face" /\ Face!DwellElapses)

MCSpec == MCInit /\ [][MCNext]_allVars /\ MCFairness

\* No bone is blended with a pose of before the component was created again:
\* SkeletalHooks, for DetourCreateSkeletonComponent and the update detour.
NoStaleBlend == Bones!NoStaleBlend

\* A device that continuous calibration uses is not smoothed:
\* PredictionSmoothing, for the plugin's Tick.
LockedIsRaw == Prediction!LockedIsRaw

\* A device that appears late gets its saved value: PredictionSmoothing, for
\* TickPredictionRestore.
LateDeviceRestored == part = "prediction" => Prediction!LateDeviceRestored

\* A group of shapes counts as warm only after enough samples since its last
\* reset: FacePipeline, for CalibrationEngine.
WarmIsLearned == Face!WarmIsLearned

=============================================================================
