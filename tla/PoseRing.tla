------------------------------ MODULE PoseRing ------------------------------
(***************************************************************************)
(* The pose ring (DriverPoseShmem): the driver writes every pose update    *)
(* into a ring in shared memory, and the calibration overlay reads what is *)
(* new once per tick.  No lock: the driver publishes by advancing index,   *)
(* and a reader that has fallen behind by half the ring skips ahead.       *)
(*                                                                         *)
(* Either process may be restarted.  The segment lives as long as one of   *)
(* them has it mapped, so a new driver may find the old one, index         *)
(* included; the overlay closes and reopens it after its IPC client has    *)
(* reconnected (ReopenShmem), and keeps its cursor.  Poses are numbered in *)
(* the order in which they are written.                                    *)
(***************************************************************************)
EXTENDS Naturals

CONSTANTS
    BUFFERED_SAMPLES,  \* slots of the ring
    MaxPoses,          \* bound: poses written
    MaxStops           \* bound: deaths of either process

VARIABLES
    driver,    \* "down", "idle", or "writing" within SetPose
    index,     \* of the segment
    ring,      \* its slots: a pose, Zero, or Torn while it is written
    written,   \* poses written so far
    overlay,   \* "down", "closed", "idle", or "pass" within ReadNewPoses
    linked,    \* the overlay's IPC client has connected to this driver
    cursor,
    until,     \* cur_index of the pass
    during,    \* poses written since the pass began
    got,       \* the pose that was delivered last
    stops

segment == <<index, ring>>
reader == <<overlay, linked, cursor, until>>
vars == <<driver, segment, written, reader, during, got, stops>>

Half == BUFFERED_SAMPLES \div 2
Zero == 0
Torn == MaxPoses + 1
Slot(i) == i % BUFFERED_SAMPLES
Fresh == [s \in 0..BUFFERED_SAMPLES - 1 |-> Zero]
Mapped == overlay \in {"idle", "pass"}

TypeOK ==
    /\ driver \in {"down", "idle", "writing"} /\ overlay \in {"down", "closed", "idle", "pass"}
    /\ index \in 0..MaxPoses /\ ring \in [0..BUFFERED_SAMPLES - 1 -> 0..Torn]
    /\ written \in 0..MaxPoses /\ linked \in BOOLEAN
    /\ cursor \in 0..MaxPoses /\ until \in 0..MaxPoses
    /\ during \in 0..Half /\ got \in 0..Torn /\ stops \in 0..MaxStops

Init ==
    /\ driver = "down" /\ index = 0 /\ ring = Fresh /\ written = 0
    /\ overlay = "down" /\ linked = FALSE /\ cursor = 0 /\ until = 0
    /\ during = 0 /\ got = 0 /\ stops = 0

-----------------------------------------------------------------------------
(* The driver *)

\* Create: the segment that the overlay still maps, or a new one.
DriverStarts ==
    /\ driver = "down"
    /\ driver' = "idle"
    /\ index' = IF Mapped THEN index ELSE 0
    /\ ring' = IF Mapped THEN ring ELSE Fresh
    /\ UNCHANGED <<written, reader, during, got, stops>>

\* At any instruction.
DriverStops ==
    /\ driver # "down" /\ stops < MaxStops
    /\ driver' = "down" /\ stops' = stops + 1 /\ linked' = FALSE
    /\ UNCHANGED <<segment, written, overlay, cursor, until, during, got>>

\* SetPose copies the pose into the slot after index ...  A pass is far
\* shorter than the time in which half of the ring is written.
SetPoseBegins ==
    /\ driver = "idle" /\ written < MaxPoses
    /\ overlay = "pass" => during < Half - 1
    /\ driver' = "writing"
    /\ ring' = [ring EXCEPT ![Slot(index + 1)] = Torn]
    /\ UNCHANGED <<index, written, reader, during, got, stops>>

\* ... and then stores index.
SetPoseEnds ==
    /\ driver = "writing"
    /\ driver' = "idle"
    /\ ring' = [ring EXCEPT ![Slot(index + 1)] = written + 1]
    /\ index' = index + 1 /\ written' = written + 1
    /\ during' = IF overlay = "pass" THEN during + 1 ELSE 0
    /\ UNCHANGED <<reader, got, stops>>

-----------------------------------------------------------------------------
(* The overlay *)

\* InitCalibrator: a connection, then Open.
OverlayStarts ==
    /\ overlay = "down" /\ driver # "down"
    /\ overlay' = "idle" /\ linked' = TRUE
    /\ UNCHANGED <<driver, segment, written, cursor, until, during, got, stops>>

OverlayStops ==
    /\ overlay # "down" /\ stops < MaxStops
    /\ overlay' = "down" /\ linked' = FALSE /\ stops' = stops + 1
    /\ cursor' = 0 /\ until' = 0 /\ got' = 0 /\ during' = 0
    /\ UNCHANGED <<driver, segment, written>>

\* The IPC client reconnects to the new driver, and ReopenShmem closes ...
Reconnects ==
    /\ overlay \in {"idle", "closed"} /\ ~linked /\ driver # "down"
    /\ linked' = TRUE /\ overlay' = "closed"
    /\ UNCHANGED <<driver, segment, written, cursor, until, during, got, stops>>

\* ... and opens, unless the driver has gone again, and with it the segment.
Opens ==
    /\ overlay = "closed" /\ linked /\ driver # "down"
    /\ overlay' = "idle"
    /\ UNCHANGED <<driver, segment, written, linked, cursor, until, during, got, stops>>

\* However far behind.
CatchUp_Never(c, cur) == IF cur < c THEN cur ELSE c

\* Where a pass begins that finds index at cur.
CatchUp(c, cur) ==
    IF cur < c \/ cur - c > Half
    THEN IF cur < Half THEN cur ELSE cur - Half
    ELSE c

PassBegins ==
    /\ overlay = "idle" /\ CatchUp(cursor, index) # index
    /\ overlay' = "pass" /\ until' = index /\ during' = 0
    /\ cursor' = CatchUp(cursor, index)
    /\ UNCHANGED <<driver, segment, written, linked, got, stops>>

\* Nothing to deliver, but the cursor may move.
PassEmpty ==
    /\ overlay = "idle" /\ CatchUp(cursor, index) = index
    /\ cursor' = index
    /\ UNCHANGED <<driver, segment, written, overlay, linked, until, during, got, stops>>

\* The slot that index names is not taken.
PassEnd == until

\* The callback stores the pose of its device.  The slot of index 0 is
\* written only when the ring comes round: before that it delivers no pose.
Delivers ==
    /\ overlay = "pass" /\ cursor < PassEnd
    /\ LET pose == ring[Slot(cursor)] IN got' = IF pose = Zero THEN got ELSE pose
    /\ cursor' = cursor + 1
    /\ UNCHANGED <<driver, segment, written, overlay, linked, until, during, stops>>

PassEnds ==
    /\ overlay = "pass" /\ cursor >= PassEnd
    /\ overlay' = "idle" /\ during' = 0
    /\ UNCHANGED <<driver, segment, written, linked, cursor, until, got, stops>>

Next ==
    \/ DriverStarts \/ DriverStops \/ SetPoseBegins \/ SetPoseEnds
    \/ OverlayStarts \/ OverlayStops \/ Reconnects \/ Opens
    \/ PassBegins \/ PassEmpty \/ Delivers \/ PassEnds

Spec == Init /\ [][Next]_vars

-----------------------------------------------------------------------------

(***************************************************************************)
(* What the overlay gets of the ring are whole poses, in the order they    *)
(* were written and none of them twice, though nothing is locked, a reader *)
(* may be lapped, a driver may die within SetPose and the next one may go  *)
(* on in the same segment or start another (ReadNewPoses, ReopenShmem).    *)
(***************************************************************************)
PosesInOrder == [][overlay' # "down" /\ got' # got => got' # Torn /\ got' > got]_vars
=============================================================================
