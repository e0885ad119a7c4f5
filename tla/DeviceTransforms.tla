--------------------------- MODULE DeviceTransforms ---------------------------
(***************************************************************************)
(* The calibration state of the driver (ServerTrackedDeviceProvider): one  *)
(* transform slot per OpenVR id and one fallback slot per tracking system. *)
(* The IPC thread changes both; each device's pose thread reads them, and  *)
(* blends and applies a transform, on every pose update. All of it happens *)
(* under stateMutex, except that a pose thread drops the mutex while it    *)
(* asks the runtime for the tracking system of a device it does not know.  *)
(*                                                                         *)
(* An offset is a pair of its owner (per-ID, or the fallback of a system)  *)
(* and a number. A slot's transform is the set of offsets blended into it, *)
(* so a transform that is exactly one offset is a singleton.               *)
(***************************************************************************)
EXTENDS Naturals, FiniteSets

CONSTANTS
  Devices,     \* OpenVR ids
  Systems,     \* tracking-system names
  NoSystem,    \* the empty name
  PerId,       \* the owner of offsets sent by SetDeviceTransform
  Variants,    \* offset numbers; Identity is one of the per-ID offsets
  MaxSlots,    \* MaxFallbackSlots
  MaxCommands  \* bound: messages handled

ASSUME SystemsAssumption == NoSystem \notin Systems /\ PerId \notin Systems
ASSUME SlotsAssumption == MaxSlots \in Nat /\ MaxCommands \in Nat /\ IsFiniteSet(Systems)

VARIABLES
  enabled, quash,       \* Devices -> BOOLEAN
  active,               \* Devices -> fallbackActive
  tfm, target,          \* Devices -> transform, targetTransform
  sys,                  \* Devices -> deviceSystem
  lookup,               \* Devices -> lookupState
  asking,               \* devices whose pose thread waits for the runtime
  slots,                \* systems that occupy a fallback slot
  fbOn, fbOffset,       \* Systems -> the slot's enabled flag and transform
  applied,              \* Devices -> what the last pose update did
  raced,                \* history: enabled by a message while `asking'
  commands

slotVars     == <<enabled, quash, tfm, target>>
systemVars   == <<sys, lookup, asking>>
fallbackVars == <<slots, fbOn, fbOffset>>
vars == <<slotVars, active, systemVars, fallbackVars, applied, raced, commands>>

Identity  == <<PerId, 0>>
Owners    == Systems \cup {PerId}
IdOffsets == {Identity} \cup ({PerId} \X Variants)
Offsets   == {Identity} \cup (Owners \X Variants)
Raw       == [by |-> "none", mix |-> {}]
Applied   == [by : {"none", "quash", "id", "fallback"}, mix : SUBSET Offsets]

TypeOK ==
  /\ enabled \in [Devices -> BOOLEAN] /\ quash \in [Devices -> BOOLEAN]
  /\ active \in [Devices -> BOOLEAN]
  /\ tfm \in [Devices -> SUBSET Offsets] /\ target \in [Devices -> SUBSET Offsets]
  /\ sys \in [Devices -> Systems \cup {NoSystem}]
  /\ lookup \in [Devices -> {"NotTried", "Cached", "Failed"}]
  /\ asking \subseteq Devices /\ raced \subseteq Devices
  /\ slots \subseteq Systems
  /\ fbOn \in [Systems -> BOOLEAN]
  /\ fbOffset \in [Systems -> Offsets]
  /\ applied \in [Devices -> Applied]
  /\ commands \in Nat
  /\ \A d \in Devices : sys[d] # NoSystem <=> lookup[d] = "Cached"
  /\ \A s \in Systems : fbOn[s] => s \in slots

Init ==
  /\ enabled = [d \in Devices |-> FALSE] /\ quash = [d \in Devices |-> FALSE]
  /\ active = [d \in Devices |-> FALSE]
  /\ tfm = [d \in Devices |-> {Identity}] /\ target = [d \in Devices |-> {Identity}]
  /\ sys = [d \in Devices |-> NoSystem]
  /\ lookup = [d \in Devices |-> "NotTried"]
  /\ asking = {} /\ raced = {}
  /\ slots = {} /\ fbOn = [s \in Systems |-> FALSE]
  /\ fbOffset = [s \in Systems |-> Identity]
  /\ applied = [d \in Devices |-> Raw]
  /\ commands = 0

(***************************************************************************)
(* The IPC thread.                                                         *)
(***************************************************************************)

\* The transform snaps to the target when the slot is enabled or lerp is off;
\* on a disable the pending target is dropped.
SetTransform(d, on, o, lerp, q, s) ==
  LET moved == IF lerp THEN tfm[d] ELSE {o} IN
  /\ commands < MaxCommands /\ commands' = commands + 1
  /\ enabled' = [enabled EXCEPT ![d] = on]
  /\ quash' = [quash EXCEPT ![d] = q]
  /\ sys' = [sys EXCEPT ![d] = s]
  /\ lookup' = [lookup EXCEPT ![d] = IF s = NoSystem THEN "NotTried" ELSE "Cached"]
  /\ active' = [active EXCEPT ![d] = FALSE]
  /\ tfm' = [tfm EXCEPT ![d] = IF on /\ ~enabled[d] THEN {o} ELSE moved]
  /\ target' = [target EXCEPT ![d] = IF enabled[d] /\ ~on THEN moved ELSE {o}]
  /\ raced' = IF on /\ d \in asking THEN raced \cup {d} ELSE raced
  /\ UNCHANGED <<asking, fallbackVars, applied>>

\* The payloads the overlay builds: an adoption, and ResetAndDisableOffsets.
Adopt(d, o, lerp, q, s) == SetTransform(d, TRUE, o, lerp, q, s)
Disown(d, s) == SetTransform(d, FALSE, Identity, FALSE, FALSE, s)

\* SetTrackingSystemFallback: a new system needs a free slot, or is ignored.
FallbackOn(s, o) ==
  /\ commands < MaxCommands /\ commands' = commands + 1
  /\ IF s \in slots \/ Cardinality(slots) < MaxSlots
       THEN /\ slots' = slots \cup {s}
            /\ fbOn' = [fbOn EXCEPT ![s] = TRUE]
            /\ fbOffset' = [fbOffset EXCEPT ![s] = o]
       ELSE UNCHANGED fallbackVars
  /\ UNCHANGED <<slotVars, active, systemVars, applied, raced>>

\* A disabled fallback keeps its slot; the devices that follow it are let go.
FallbackOff(s) ==
  LET followers == {d \in Devices : active[d] /\ sys[d] = s} IN
  /\ commands < MaxCommands /\ commands' = commands + 1
  /\ fbOn' = [fbOn EXCEPT ![s] = FALSE]
  /\ active' = [d \in Devices |-> active[d] /\ d \notin followers]
  /\ target' = [d \in Devices |-> IF d \in followers THEN tfm[d] ELSE target[d]]
  /\ UNCHANGED <<enabled, quash, tfm, systemVars, slots, fbOffset, applied, raced>>

(***************************************************************************)
(* The pose threads: HandleDevicePoseUpdated.                              *)
(***************************************************************************)

\* BlendTransform: no progress, some, or all of it (the rate and the motion gate set
\* the pace, and lerp is clamped to 0..1).
Blends(from, to) == {from, from \cup to, to}

PoseReaches(d) == d \notin asking

PoseQuashed(d) ==
  /\ PoseReaches(d) /\ quash[d]
  /\ applied' = [applied EXCEPT ![d] = [by |-> "quash", mix |-> {}]]
  /\ UNCHANGED <<slotVars, active, systemVars, fallbackVars, raced, commands>>

PosePerId(d) ==
  /\ PoseReaches(d) /\ ~quash[d] /\ enabled[d]
  /\ \E t \in Blends(tfm[d], target[d]) :
       /\ tfm' = [tfm EXCEPT ![d] = t]
       /\ applied' = [applied EXCEPT ![d] = [by |-> "id", mix |-> t]]
  /\ UNCHANGED <<enabled, quash, target, active, systemVars, fallbackVars, raced,
                 commands>>

FollowFallback_NoSnap(d, s) ==     \* wrong on purpose: ramps in from what was there
  \/ /\ s # NoSystem /\ fbOn[s]
     /\ LET to == {fbOffset[s]} IN
        /\ \E t \in Blends(tfm[d], to) :
             /\ tfm' = [tfm EXCEPT ![d] = t]
             /\ applied' = [applied EXCEPT ![d] = [by |-> "fallback", mix |-> t]]
        /\ target' = [target EXCEPT ![d] = to]
        /\ active' = [active EXCEPT ![d] = TRUE]
  \/ /\ s # NoSystem /\ ~fbOn[s]
     /\ target' = [target EXCEPT ![d] = IF active[d] THEN tfm[d] ELSE @]
     /\ active' = [active EXCEPT ![d] = FALSE]
     /\ applied' = [applied EXCEPT ![d] = Raw]
     /\ UNCHANGED tfm
  \/ /\ s = NoSystem
     /\ applied' = [applied EXCEPT ![d] = Raw]
     /\ UNCHANGED <<tfm, target, active>>

\* The device follows its system's fallback: the first time it snaps, later it
\* blends. If there is none any more, it lets go. Without a system nothing happens.
FollowFallback(d, s) ==
  \/ /\ s # NoSystem /\ fbOn[s]
     /\ LET to == {fbOffset[s]} IN
        /\ \E t \in Blends(IF active[d] THEN tfm[d] ELSE to, to) :
             /\ tfm' = [tfm EXCEPT ![d] = t]
             /\ applied' = [applied EXCEPT ![d] = [by |-> "fallback", mix |-> t]]
        /\ target' = [target EXCEPT ![d] = to]
        /\ active' = [active EXCEPT ![d] = TRUE]
  \/ /\ s # NoSystem /\ ~fbOn[s]
     /\ target' = [target EXCEPT ![d] = IF active[d] THEN tfm[d] ELSE @]
     /\ active' = [active EXCEPT ![d] = FALSE]
     /\ applied' = [applied EXCEPT ![d] = Raw]
     /\ UNCHANGED tfm
  \/ /\ s = NoSystem
     /\ applied' = [applied EXCEPT ![d] = Raw]
     /\ UNCHANGED <<tfm, target, active>>

\* The system is known, or its last query failed less than a second ago.
PoseFallback(d) ==
  /\ PoseReaches(d) /\ ~quash[d] /\ ~enabled[d]
  /\ lookup[d] # "NotTried"
  /\ FollowFallback(d, sys[d])
  /\ UNCHANGED <<enabled, quash, systemVars, fallbackVars, raced, commands>>

\* The system is unknown: the mutex is dropped for the query.
PoseAsks(d) ==
  /\ PoseReaches(d) /\ ~quash[d] /\ ~enabled[d]
  /\ lookup[d] # "Cached"
  /\ asking' = asking \cup {d}
  /\ UNCHANGED <<slotVars, active, sys, lookup, fallbackVars, applied, raced, commands>>

\* The answer (a failure is NoSystem) counts unless a message has come first. The
\* update goes on with the fallback, whatever the slot has become meanwhile.
QueryReturns(d, s) ==
  LET known == lookup[d] = "Cached" IN
  /\ d \in asking
  /\ asking' = asking \ {d}
  /\ sys' = [sys EXCEPT ![d] = IF known THEN @ ELSE s]
  /\ lookup' = [lookup EXCEPT ![d] = IF known \/ s # NoSystem THEN "Cached" ELSE "Failed"]
  /\ FollowFallback(d, sys'[d])
  /\ UNCHANGED <<enabled, quash, fallbackVars, raced, commands>>

Ipc == \/ \E d \in Devices, n \in Variants, lerp, q \in BOOLEAN, s \in Systems :
            Adopt(d, <<PerId, n>>, lerp, q, s)
       \/ \E d \in Devices, s \in Systems \cup {NoSystem} : Disown(d, s)
       \/ \E s \in Systems, n \in Variants : FallbackOn(s, <<s, n>>)
       \/ \E s \in Systems : FallbackOff(s)
Pose(d) == \/ PoseQuashed(d) \/ PosePerId(d) \/ PoseFallback(d) \/ PoseAsks(d)
           \/ \E s \in Systems \cup {NoSystem} : QueryReturns(d, s)

Next == Ipc \/ \E d \in Devices : Pose(d)

Spec == Init /\ [][Next]_vars

(***************************************************************************)
(* Properties.                                                             *)
(***************************************************************************)

\* A slot that follows a fallback follows one that is in force: no order of
\* messages, lookups and pose updates leaves a device with a withdrawn fallback.
FollowsEnabled == \A d \in Devices : active[d] => sys[d] # NoSystem /\ fbOn[sys[d]]

\* A pose moved by a fallback is moved by that of the device's own system alone:
\* nothing of a per-ID offset or of another system is blended in.
FallbackIsPure ==
  \A d \in Devices : active[d] => \A o \in tfm[d] : o[1] = sys[d]

\* A pose moved per ID is moved by per-ID offsets alone, unless the device was
\* enabled while its pose thread was asking for its system.
PerIdIsPure ==
  \A d \in Devices :
    applied[d].by = "id" /\ d \notin raced => \A o \in applied[d].mix : o[1] = PerId

=============================================================================
