---------------------------- MODULE FacePipeline ----------------------------
(***************************************************************************)
(* The driver's face worker (FacetrackingDriverModule::WorkerLoop) and the *)
(* IPC thread beside it: the worker takes a frame from the ring, copies    *)
(* the config under the config mutex, lets CalibrationEngine learn from    *)
(* the frame and normalise it, evens out the eyelids (EyelidSync) and      *)
(* publishes it.  Requests change the config and reset what was learned.   *)
(* They hold the mutex, the worker does not while it learns, so that a     *)
(* reset falls between any two of its memory accesses.                     *)
(*                                                                         *)
(* The shapes are two groups, which requests reset apart: those of the     *)
(* eyes and the expressions.  A frame says which groups are valid, whether *)
(* it is younger than the age gate, and whether one eye is surely shut.    *)
(* Winks are preserved.  The percentile estimates and the gaze's vergence  *)
(* are arithmetic and left out.                                            *)
(***************************************************************************)
EXTENDS Naturals

CONSTANTS
    kWarmThreshold,  \* samples before a group is normalised (200)
    MaxRequests      \* bound: requests of the overlay

Groups == {"eye", "expr"}

VARIABLES
    config,    \* config_: continuous_calib_mode, eyelid_sync_enabled
    requests,
    shapes,    \* shapes_: per group, samples and warm
    at,        \* where WorkerLoop is
    frame,     \* the frame in work
    cfg,       \* the worker's copy of config_
    todo,      \* groups that UpdateShape has still to update
    loaded,    \* samples of the group in work, as loaded
    normal,    \* groups of the frame that were normalised
    dwell,     \* the wink timer: "none", "running", "over"
    stable,    \* wink_stable_
    wink,      \* the lids leave as they came
    learned,   \* history: samples of each group since its last reset
    raced      \* history: groups that were reset within an update

request == <<config, requests>>
lids == <<dwell, stable, wink>>
vars == <<request, shapes, at, frame, cfg, todo, loaded, normal, lids, learned, raced>>

Frames == [valid : SUBSET Groups, fresh : BOOLEAN, shut : BOOLEAN]
Configs == [calib : BOOLEAN, sync : BOOLEAN]
NoFrame == [valid |-> {}, fresh |-> FALSE, shut |-> FALSE]
ShapeCalib == [samples |-> 0, warm |-> FALSE]

TypeOK ==
    /\ {config, cfg} \subseteq Configs /\ requests \in 0..MaxRequests
    /\ shapes \in [Groups -> [samples : 0..kWarmThreshold, warm : BOOLEAN]]
    /\ at \in {"idle", "config", "learn", "store", "warm", "lids", "publish"}
    /\ frame \in Frames
    /\ todo \subseteq Groups /\ normal \subseteq Groups /\ raced \subseteq Groups
    /\ loaded \in 0..kWarmThreshold
    /\ dwell \in {"none", "running", "over"} /\ {stable, wink} \subseteq BOOLEAN
    /\ learned \in [Groups -> 0..kWarmThreshold]

Init ==
    /\ config = [calib |-> FALSE, sync |-> FALSE] /\ requests = 0
    /\ shapes = [g \in Groups |-> ShapeCalib]
    /\ at = "idle" /\ frame = NoFrame /\ cfg = config
    /\ todo = {} /\ loaded = 0 /\ normal = {}
    /\ dwell = "none" /\ stable = FALSE /\ wink = FALSE
    /\ learned = [g \in Groups |-> 0] /\ raced = {}

(***************************************************************************)
(* HandleRequest, on the IPC thread.                                       *)
(***************************************************************************)

\* The group in work: the eyes come first.
Working(g) == g = IF "eye" \in todo THEN "eye" ELSE "expr"

SetConfig(c) ==
    /\ requests < MaxRequests /\ requests' = requests + 1
    /\ config' = c
    /\ UNCHANGED <<shapes, at, frame, cfg, todo, loaded, normal, lids, learned, raced>>

\* Learning starts over, but what is warm stays warm.
Cleared_KeepsWarm(s) == [s EXCEPT !.samples = 0]

Cleared(s) == ShapeCalib

\* FaceCalibResetAll, ResetEye and ResetExpr.  Begin and End do nothing; Save does
\* nothing either, because no one calls Load, which sets the file's name.
Reset(groups) ==
    /\ requests < MaxRequests /\ requests' = requests + 1
    /\ shapes' = [g \in Groups |-> IF g \in groups THEN Cleared(shapes[g]) ELSE shapes[g]]
    /\ learned' = [g \in Groups |-> IF g \in groups THEN 0 ELSE learned[g]]
    /\ raced' = raced \union {g \in groups \intersect todo :
                                at \in {"store", "warm"} /\ Working(g)}
    /\ UNCHANGED <<config, at, frame, cfg, todo, loaded, normal, lids>>

(***************************************************************************)
(* WorkerLoop.                                                             *)
(***************************************************************************)

\* TryRead: a new frame is in the ring.
TryRead ==
    /\ at = "idle"
    /\ frame' \in Frames
    /\ at' = "config"
    /\ UNCHANGED <<request, shapes, cfg, todo, loaded, normal, lids, learned, raced>>

\* The config is copied under the mutex.  IngestFrame lets nothing old in.
Snapshot ==
    /\ at = "config"
    /\ cfg' = config
    /\ todo' = IF config.calib /\ frame.fresh THEN frame.valid ELSE {}
    /\ normal' = {} /\ wink' = FALSE
    /\ at' = "learn"
    /\ UNCHANGED <<request, shapes, frame, loaded, dwell, stable, learned, raced>>

\* UpdateShape: the velocity gate may reject the value.
UpdateShape ==
    /\ at = "learn" /\ todo # {}
    /\ \E g \in todo :
          /\ Working(g)
          /\ \/ todo' = todo \ {g} /\ UNCHANGED <<at, loaded>>
             \/ at' = "store" /\ loaded' = shapes[g].samples /\ UNCHANGED todo
    /\ UNCHANGED <<request, shapes, frame, cfg, normal, lids, learned, raced>>

Capped(n) == IF n > kWarmThreshold THEN kWarmThreshold ELSE n

\* The end of UpdateShape: samples is incremented ...
CountSample ==
    /\ at = "store"
    /\ \E g \in todo :
          /\ Working(g)
          /\ shapes' = [shapes EXCEPT ![g].samples = Capped(loaded + 1)]
          /\ learned' = [learned EXCEPT ![g] = Capped(@ + 1)]
    /\ at' = "warm"
    /\ UNCHANGED <<request, frame, cfg, todo, loaded, normal, lids, raced>>

\* ... and compared with the threshold, in memory or as it was stored.
SetWarm ==
    /\ at = "warm"
    /\ \E g \in todo :
          /\ Working(g)
          /\ \E n \in {Capped(loaded + 1), shapes[g].samples} :
                shapes' = [shapes EXCEPT ![g].warm = @ \/ n >= kWarmThreshold]
          /\ todo' = todo \ {g}
    /\ at' = "learn"
    /\ UNCHANGED <<request, frame, cfg, loaded, normal, lids, learned, raced>>

\* Normalize: what is warm, group by group.
Normalize ==
    /\ at = "learn" /\ todo = {}
    /\ normal' = IF cfg.calib THEN {g \in frame.valid : shapes[g].warm} ELSE {}
    /\ at' = "lids"
    /\ UNCHANGED <<request, shapes, frame, cfg, todo, loaded, lids, learned, raced>>

\* A wink passes once its dwell timer has run out, until an eye opens.
WinkStable == stable \/ dwell = "over"

\* EyelidSync::Apply: a wink that has lasted passes, anything else is evened out.
EyelidSync ==
    /\ at = "lids"
    /\ IF cfg.sync /\ "eye" \in frame.valid
       THEN IF frame.shut
            THEN /\ dwell' = IF dwell = "none" THEN "running" ELSE dwell
                 /\ stable' = WinkStable
                 /\ wink' = stable'
            ELSE dwell' = "none" /\ stable' = FALSE /\ wink' = FALSE
       ELSE wink' = TRUE /\ UNCHANGED <<dwell, stable>>
    /\ at' = "publish"
    /\ UNCHANGED <<request, shapes, frame, cfg, todo, loaded, normal, learned, raced>>

\* 120 milliseconds since the timer was started.
DwellElapses ==
    /\ dwell = "running"
    /\ dwell' = "over"
    /\ UNCHANGED <<request, shapes, at, frame, cfg, todo, loaded, normal, stable, wink,
                   learned, raced>>

Publish ==
    /\ at = "publish"
    /\ frame' = NoFrame
    /\ at' = "idle"
    /\ UNCHANGED <<request, shapes, cfg, todo, loaded, normal, lids, learned, raced>>

Worker == TryRead \/ Snapshot \/ UpdateShape \/ CountSample \/ SetWarm \/ Normalize
          \/ EyelidSync \/ Publish
Ipc == \/ \E c \in Configs : SetConfig(c)
       \/ \E groups \in {Groups, {"eye"}, {"expr"}} : Reset(groups)

Next == Worker \/ Ipc \/ DwellElapses

\* The worker runs, frames come, and time goes on.
Fairness == WF_vars(Worker) /\ WF_vars(DwellElapses)

Spec == Init /\ [][Next]_vars /\ Fairness

(***************************************************************************)
(* Properties.                                                             *)
(***************************************************************************)

\* A group of shapes counts as warm, and so is normalised and shown as ready,
\* only after as many samples as the threshold says since it was last reset,
\* unless the reset fell into the middle of an update of that group.
WarmIsLearned ==
    \A g \in Groups \ raced : shapes[g].warm => learned[g] >= kWarmThreshold

=============================================================================
