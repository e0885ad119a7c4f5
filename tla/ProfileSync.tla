----------------------------- MODULE ProfileSync -----------------------------
(***************************************************************************)
(* How the calibration overlay keeps the driver in step with its profile   *)
(* (ScanAndApplyProfile, once a second): every scan walks the OpenVR ids   *)
(* and sends each one its transform, unless the overlay's cache says that  *)
(* the driver has it already. Devices come, go and change ids during a     *)
(* scan; profile edits happen between scans, on the same thread. A failed  *)
(* send is an exception that nobody catches: the overlay exits, and its    *)
(* caches with it, while the driver keeps what it was told.                *)
(*                                                                         *)
(* A unit is a physical device, <<tracking system, number>>, and is its    *)
(* own serial. An offset stands for the whole calibrated transform.        *)
(***************************************************************************)
EXTENDS Naturals

CONSTANTS
  LastId,      \* the ids are 0 .. LastId, and 0 is the HMD
  Systems,     \* tracking-system names
  Ref,         \* the profile's reference tracking system
  Copies,      \* units of one system
  Offsets,     \* calibrations; Zero is the one a recovery restarts from
  Zero,
  None,        \* no system, no unit, no offset, nothing cached
  MaxEvents    \* bound: hot-plugs, profile edits, read errors, crashes

ASSUME ConstantsAssumption ==
  /\ LastId \in Nat /\ MaxEvents \in Nat
  /\ Ref \in Systems /\ Zero \in Offsets
  /\ None \notin Systems \cup Offsets \cup (Systems \X Copies)

VARIABLES
  dev,                              \* world: id -> the unit it names
  valid, tgt, offset, extras,       \* the profile in CalibrationContext
  continuous,                       \* CalCtx.state is Continuous
  enabled,                          \* ctx.enabled
  cache, seen,                      \* g_lastApplied, g_lastSeenSerial
  lastTarget, lastEnabled,          \* g_lastTargetSystem, g_lastEnabled
  fbCache, fbSent,                  \* g_lastFallbacksBySystem, g_lastFallbackSent
  snapNext, snapNow,                \* g_snapNextProfileApply, snapThisCycle
  pc, at, todo,                     \* where the scan is
  slot, fallback,                   \* the driver: last payload per id, per system
  owner,                            \* history: the unit a slot was enabled for
  stale, staleFb,                   \* history: caches the driver no longer matches
  events

world     == <<dev>>
profile   == <<valid, tgt, offset, extras, continuous>>
slotCache == <<cache, seen>>
scanMemo  == <<lastTarget, lastEnabled, fbCache, fbSent>>
snapVars  == <<snapNext, snapNow>>
scan      == <<pc, at, todo>>
driver    == <<slot, fallback, owner>>
history   == <<stale, staleFb>>
vars == <<world, profile, enabled, slotCache, scanMemo, snapVars, scan, driver,
          history, events>>

Ids   == 0 .. LastId
Hmd   == 0
Units == Systems \X Copies

SystemOf(u) == IF u = None THEN None ELSE u[1]

\* The two payloads a scan builds; the second one is ResetAndDisableOffsets.
On(o, lerp)  == [on |-> TRUE, offset |-> o, lerp |-> lerp, sys |-> tgt]
Off(s)       == [on |-> FALSE, offset |-> None, lerp |-> FALSE, sys |-> s]
Payloads     == [on : BOOLEAN, offset : Offsets \cup {None}, lerp : BOOLEAN,
                 sys : Systems \cup {None}]

TypeOK ==
  /\ dev \in [Ids -> Units \cup {None}]
  /\ valid \in BOOLEAN /\ tgt \in Systems \cup {None} /\ offset \in Offsets
  /\ extras \in [Systems -> Offsets \cup {None}] /\ continuous \in BOOLEAN
  /\ enabled \in BOOLEAN
  /\ cache \in [Ids -> Payloads \cup {None}] /\ seen \in [Ids -> Units \cup {None}]
  /\ lastTarget \in Systems \cup {None} /\ lastEnabled \in BOOLEAN
  /\ fbCache \in [Systems -> Offsets \cup {None}] /\ fbSent \in BOOLEAN
  /\ snapNext \in BOOLEAN /\ snapNow \in BOOLEAN
  /\ pc \in {"idle", "fallback", "extras", "serial", "classify", "end"}
  /\ at \in Ids /\ todo \subseteq Systems
  /\ slot \in [Ids -> Payloads] /\ fallback \in [Systems -> Offsets \cup {None}]
  /\ owner \in [Ids -> Units \cup {None}]
  /\ stale \subseteq Ids /\ staleFb \subseteq Systems
  /\ events \in 0 .. MaxEvents

ForgetAll ==
  /\ cache' = [i \in Ids |-> None]
  /\ seen' = [i \in Ids |-> None]

\* The overlay starts with whatever is plugged in and whatever profile it loads.
Init ==
  /\ dev \in [Ids -> Units \cup {None}]
  /\ \A i, j \in Ids : dev[i] = dev[j] => i = j \/ dev[i] = None
  /\ valid \in BOOLEAN /\ tgt \in Systems \cup {None} /\ offset \in Offsets
  /\ extras \in [Systems -> Offsets \cup {None}] /\ continuous \in BOOLEAN
  /\ enabled = FALSE
  /\ cache = [i \in Ids |-> None] /\ seen = [i \in Ids |-> None]
  /\ lastTarget = None /\ lastEnabled = FALSE
  /\ fbCache = [s \in Systems |-> None] /\ fbSent = FALSE
  /\ snapNext = FALSE /\ snapNow = FALSE
  /\ pc = "idle" /\ at = 0 /\ todo = {}
  /\ slot = [i \in Ids |-> Off(None)] /\ fallback = [s \in Systems |-> None]
  /\ owner = [i \in Ids |-> None]
  /\ stale = {} /\ staleFb = {}
  /\ events = 0

Happens == events < MaxEvents /\ events' = events + 1

(***************************************************************************)
(* The world, at any moment.                                               *)
(***************************************************************************)

\* SteamVR gives an id to a unit, or takes it back, or gives it to another one.
HotPlug(i, u) ==
  /\ Happens /\ u # dev[i]
  /\ u = None \/ \A j \in Ids : dev[j] # u
  /\ dev' = [dev EXCEPT ![i] = u]
  /\ UNCHANGED <<profile, enabled, slotCache, scanMemo, snapVars, scan, driver,
                 stale, staleFb>>

\* vrserver restarts under a live overlay; the client reconnects and resends what
\* it was sending, but nothing tells the calibration caches.
DriverRestarts ==
  /\ Happens
  /\ slot' = [i \in Ids |-> Off(None)]
  /\ fallback' = [s \in Systems |-> None]
  /\ owner' = [i \in Ids |-> None]
  /\ stale' = {i \in Ids : cache[i] # None}
  /\ staleFb' = {s \in Systems : fbCache[s] # None}
  /\ UNCHANGED <<world, profile, enabled, slotCache, scanMemo, snapVars, scan>>

\* The overlay exits (on a failed send, or by hand) and is started again: the
\* profile comes from disk, where a continuous one waits in standby.
OverlayRestarts ==
  /\ Happens
  /\ ForgetAll
  /\ lastTarget' = None /\ lastEnabled' = FALSE
  /\ fbCache' = [s \in Systems |-> None] /\ fbSent' = FALSE
  /\ snapNext' = FALSE /\ snapNow' = FALSE
  /\ enabled' = FALSE /\ continuous' = FALSE
  /\ pc' = "idle" /\ at' = 0 /\ todo' = {}
  /\ stale' = {} /\ staleFb' = {}
  /\ UNCHANGED <<world, valid, tgt, offset, extras, driver>>

(***************************************************************************)
(* Profile edits, between scans.                                           *)
(***************************************************************************)

Edit ==
  /\ pc = "idle" /\ Happens
  /\ UNCHANGED <<world, enabled, scanMemo, snapNow, scan, driver, stale, staleFb>>

\* A calibration ends, a profile is loaded, or it is cleared.
SetProfile(v, s, o) ==
  /\ Edit
  /\ valid' = v /\ tgt' = s /\ offset' = o
  /\ UNCHANGED <<extras, continuous, slotCache, snapNext>>

SetExtra(s, o) ==
  /\ Edit
  /\ extras' = [extras EXCEPT ![s] = o]
  /\ UNCHANGED <<valid, tgt, offset, continuous, slotCache, snapNext>>

SetContinuous(c) ==
  /\ Edit /\ continuous # c
  /\ continuous' = c
  /\ UNCHANGED <<valid, tgt, offset, extras, slotCache, snapNext>>

\* RecoverFromWedgedCalibration
Recover ==
  /\ Edit
  /\ offset' = Zero /\ continuous' = TRUE /\ snapNext' = TRUE
  /\ UNCHANGED <<valid, tgt, extras, slotCache>>

\* The universe of system s has shifted: the calibrations that involve s are
\* corrected and the caches dropped (those of the fallbacks are kept).
BaseStationShift(s, o) ==
  /\ pc = "idle" /\ Happens
  /\ ~continuous /\ valid /\ enabled
  /\ s \in {Ref, tgt} \/ extras[s] # None
  /\ offset' = IF s \in {Ref, tgt} THEN o ELSE offset
  /\ extras' = [x \in Systems |-> IF extras[x] # None /\ s \in {Ref, x} THEN o
                                  ELSE extras[x]]
  /\ ForgetAll /\ fbSent' = FALSE
  /\ stale' = {}
  /\ UNCHANGED <<world, valid, tgt, continuous, enabled, lastTarget, lastEnabled,
                 fbCache, snapVars, scan, driver, staleFb>>

(***************************************************************************)
(* ScanAndApplyProfile.                                                    *)
(***************************************************************************)

ScanBegin_NotContinuous ==     \* wrong on purpose: continuous calibration skips scans
  \/ /\ pc = "idle" /\ ~continuous
     /\ enabled' = valid
     /\ snapNow' = snapNext
     /\ pc' = "fallback" /\ at' = 0
     /\ UNCHANGED <<world, profile, slotCache, scanMemo, stale, staleFb, snapNext, todo,
                    driver, events>>
  \/ pc = "idle" /\ continuous /\ UNCHANGED vars

\* A change of target or of validity withdraws the old target's fallback, past
\* the per-system cache, and drops the caches of all ids.
ScanBegin ==
  LET changed  == tgt # lastTarget
      withdraw == changed /\ lastTarget # None /\ fbSent
  IN
  /\ pc = "idle"
  /\ enabled' = valid
  /\ snapNow' = snapNext
  /\ IF changed \/ valid # lastEnabled
       THEN /\ ForgetAll /\ fbSent' = FALSE /\ stale' = {}
            /\ lastTarget' = tgt /\ lastEnabled' = valid
            /\ fallback' = IF withdraw THEN [fallback EXCEPT ![lastTarget] = None]
                           ELSE fallback
            /\ staleFb' = IF withdraw /\ fbCache[lastTarget] # None
                          THEN staleFb \cup {lastTarget} ELSE staleFb
       ELSE UNCHANGED <<slotCache, fbSent, stale, lastTarget, lastEnabled, fallback,
                        staleFb>>
  /\ pc' = "fallback" /\ at' = 0
  /\ UNCHANGED <<world, profile, fbCache, snapNext, todo, slot, owner, events>>

\* SendFallbackIfChanged
SendFallbackIfChanged(s, o) ==
  \/ /\ fbCache[s] = o
     /\ UNCHANGED <<fbCache, fbSent, fallback, staleFb>>
  \/ /\ fbCache[s] # o
     /\ fallback' = [fallback EXCEPT ![s] = o]
     /\ fbCache' = [fbCache EXCEPT ![s] = o]
     /\ fbSent' = TRUE
     /\ staleFb' = staleFb \ {s}

ScanFallback ==
  /\ pc = "fallback"
  /\ IF enabled /\ tgt # None THEN SendFallbackIfChanged(tgt, offset)
     ELSE UNCHANGED <<fbCache, fbSent, fallback, staleFb>>
  /\ pc' = "extras"
  /\ todo' = {s \in Systems : extras[s] # None /\ s # tgt}
  /\ UNCHANGED <<world, profile, enabled, slotCache, lastTarget, lastEnabled, snapVars,
                 at, slot, owner, stale, events>>

\* The additional calibrations, in whatever order the profile lists them.
ScanExtra ==
  /\ pc = "extras"
  /\ \/ \E s \in todo :
          /\ SendFallbackIfChanged(s, extras[s])
          /\ todo' = todo \ {s} /\ pc' = pc
     \/ /\ todo = {} /\ todo' = todo /\ pc' = "serial"
        /\ UNCHANGED <<fbCache, fbSent, fallback, staleFb>>
  /\ UNCHANGED <<world, profile, enabled, slotCache, lastTarget, lastEnabled, snapVars,
                 at, slot, owner, stale, events>>

SendTransform_ByOffset(i, p) ==   \* wrong on purpose: payloads match by their offset
  IF cache[i] # None /\ slot[i].offset = p.offset
  THEN cache' = [cache EXCEPT ![i] = p] /\ UNCHANGED <<slot, owner, stale>>
  ELSE /\ slot' = [slot EXCEPT ![i] = p]
       /\ cache' = [cache EXCEPT ![i] = p]
       /\ owner' = [owner EXCEPT ![i] = IF p.on THEN seen[i] ELSE @]
       /\ stale' = stale \ {i}

\* SendDeviceTransformIfChanged
SendDeviceTransformIfChanged(i, p) ==
  \/ /\ cache[i] = p
     /\ UNCHANGED <<cache, slot, owner, stale>>
  \/ /\ cache[i] # p
     /\ slot' = [slot EXCEPT ![i] = p]
     /\ cache' = [cache EXCEPT ![i] = p]
     /\ owner' = [owner EXCEPT ![i] = IF p.on THEN seen[i] ELSE @]
     /\ stale' = stale \ {i}

Advance == IF at = LastId THEN pc' = "end" /\ at' = at ELSE pc' = "serial" /\ at' = at + 1

\* The id names nothing: forget what was sent for it.
ScanGone ==
  /\ pc = "serial" /\ dev[at] = None
  /\ cache' = [cache EXCEPT ![at] = None]
  /\ seen' = [seen EXCEPT ![at] = None]
  /\ stale' = stale \ {at}
  /\ Advance
  /\ UNCHANGED <<world, profile, enabled, scanMemo, snapVars, todo, driver, staleFb,
                 events>>

\* An id that changes hands is disabled first, whatever the cache says.
ScanSerial(u) ==
  /\ seen' = [seen EXCEPT ![at] = u]
  /\ IF seen[at] # u /\ seen[at] # None
       THEN /\ slot' = [slot EXCEPT ![at] = Off(None)]
            /\ cache' = [cache EXCEPT ![at] = Off(None)]
            /\ stale' = stale \ {at}
            /\ UNCHANGED owner
       ELSE UNCHANGED <<cache, slot, owner, stale>>

ReadsSerial ==
  /\ pc = "serial" /\ dev[at] # None
  /\ \/ ScanSerial(dev[at]) /\ UNCHANGED events
     \/ Happens /\ ScanSerial(None)
  /\ pc' = "classify"
  /\ UNCHANGED <<world, profile, enabled, scanMemo, snapVars, at, todo, fallback,
                 staleFb>>

ShouldBlend_Always(i) == continuous   \* wrong on purpose: nothing snaps

\* ShouldBlendCycle, with isFreshlyAdopted
ShouldBlend(i) == continuous /\ cache[i] # None /\ cache[i].on /\ ~snapNow

\* What the scan makes of the id at hand when the runtime says its system is s
\* (None is an error). The HMD is never moved, and decides for the ids after it.
Classify(s) ==
  /\ enabled' = (enabled /\ (at = Hmd /\ s # None => s = Ref))
  /\ SendDeviceTransformIfChanged(at,
       IF ~enabled \/ s = None THEN Off(None)
       ELSE IF at = Hmd \/ s # tgt THEN Off(s)
       ELSE On(offset, ShouldBlend(at)))

ScanDevice ==
  /\ pc = "classify"
  /\ UNCHANGED seen
  /\ \/ Classify(SystemOf(dev[at])) /\ UNCHANGED events
     \/ enabled /\ dev[at] # None /\ Happens /\ Classify(None)
  /\ Advance
  /\ UNCHANGED <<world, profile, scanMemo, snapVars, todo, fallback, staleFb>>

\* The recovery snap is spent once every id has been visited.
ScanEnd ==
  /\ pc = "end"
  /\ pc' = "idle" /\ at' = 0
  /\ snapNext' = (snapNext /\ ~snapNow) /\ snapNow' = FALSE
  /\ UNCHANGED <<world, profile, enabled, slotCache, scanMemo, todo, driver, history,
                 events>>

Scan == \/ ScanBegin \/ ScanFallback \/ ScanExtra
        \/ ScanGone \/ ReadsSerial \/ ScanDevice \/ ScanEnd

Edits == \/ \E v \in BOOLEAN, s \in Systems \cup {None}, o \in Offsets : SetProfile(v, s, o)
         \/ \E s \in Systems, o \in Offsets \cup {None} : SetExtra(s, o)
         \/ \E c \in BOOLEAN : SetContinuous(c)
         \/ Recover
         \/ \E s \in Systems, o \in Offsets : BaseStationShift(s, o)

Next == \/ Scan \/ Edits
        \/ \E i \in Ids, u \in Units \cup {None} : HotPlug(i, u)
        \/ DriverRestarts \/ OverlayRestarts

Spec == Init /\ [][Next]_vars

\* The overlay's main loop ticks for as long as the overlay runs.
FairSpec == Spec /\ WF_vars(Scan)

(***************************************************************************)
(* Properties.                                                             *)
(***************************************************************************)

\* What the dedupe relies on: a cached payload is what the driver last got for
\* that id, except where the driver itself was restarted.
CacheCoherent == \A i \in Ids : cache[i] # None /\ i \notin stale => slot[i] = cache[i]

\* The same for fallbacks, except where a withdrawal went past the cache.
FallbackCoherent ==
  \A s \in Systems : fbCache[s] # None /\ s \notin staleFb => fallback[s] = fbCache[s]

HmdMatches == SystemOf(dev[Hmd]) \in {None, Ref}
Calibrated(i) == i # Hmd /\ valid /\ HmdMatches /\ SystemOf(dev[i]) = tgt

\* The driver moves, per ID, the devices of the target system and no others, and
\* by the offset of the profile.
Applied ==
  \A i \in Ids : dev[i] # None =>
    /\ slot[i].on <=> Calibrated(i)
    /\ slot[i].on => slot[i].offset = offset

\* The driver is told to blend only towards a unit it was moving already: a slot
\* that is turned on, or that changes hands, snaps, and so does a recovery.
BlendsOnlyWhatMoves ==
  [][\A i \in Ids :
       slot'[i] # slot[i] /\ slot'[i].on /\ slot'[i].lerp =>
         /\ slot[i].on \/ i \in stale
         /\ owner[i] \notin {None, owner'[i]} => i \in stale
         /\ ~snapNext]_vars

\* Once the world, the profile and both processes settle, the driver agrees with
\* the profile for good, except for what a driver restart made the overlay skip.
ProfileReaches == <>[](stale = {} => Applied)

=============================================================================
