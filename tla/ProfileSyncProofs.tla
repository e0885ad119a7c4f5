-------------------------- MODULE ProfileSyncProofs --------------------------
(***************************************************************************)
(* The overlay's dedupe caches for any ids, systems, units and events: what *)
(* a cache holds is what the driver got, and the driver is told to blend   *)
(* only where a unit is being moved already.                               *)
(***************************************************************************)
EXTENDS ProfileSync, TLAPS

\* Why a blend is safe: a slot the cache believes to be on is on for the unit last
\* seen at its id, and neither the recovery snap nor the additional calibrations
\* change in the middle of a scan.
Adoption ==
  /\ \A i \in Ids : cache[i] # None /\ cache[i].on /\ i \notin stale =>
       owner[i] \in {None, seen[i]}
  /\ pc # "idle" => snapNow = snapNext
  /\ pc = "extras" => \A s \in todo : extras[s] # None

IndInv == TypeOK /\ CacheCoherent /\ FallbackCoherent /\ Adoption

LEMMA PayloadsAreTyped ==
  /\ \A s \in Systems \cup {None} : Off(s) \in Payloads /\ ~Off(s).on /\ ~Off(s).lerp
  /\ tgt \in Systems \cup {None} =>
       \A o \in Offsets, lerp \in BOOLEAN :
         On(o, lerp) \in Payloads /\ On(o, lerp).on /\ On(o, lerp).lerp = lerp
BY DEF Off, On, Payloads

LEMMA BoundsAreTyped ==
  /\ 0 \in Ids /\ LastId \in Nat /\ Zero \in Offsets
  /\ 0 \in 0 .. MaxEvents
  /\ \A n \in 0 .. MaxEvents : n < MaxEvents => n + 1 \in 0 .. MaxEvents
BY ConstantsAssumption DEF Ids

LEMMA InitIndInv == Init => IndInv
<1> SUFFICES ASSUME Init PROVE IndInv
  OBVIOUS
<1>1. TypeOK
  <2>1. slot \in [Ids -> Payloads]
    BY PayloadsAreTyped DEF Init
  <2> QED BY <2>1, BoundsAreTyped DEF Init, TypeOK
<1> QED BY <1>1 DEF Init, IndInv, CacheCoherent, FallbackCoherent, Adoption

\* A send leaves the cache and the driver's slot equal.
LEMMA SendTransformStep ==
  ASSUME IndInv, NEW i \in Ids, NEW p \in Payloads, seen' = seen,
         SendDeviceTransformIfChanged(i, p)
  PROVE  /\ cache' \in [Ids -> Payloads \cup {None}] /\ slot' \in [Ids -> Payloads]
         /\ owner' \in [Ids -> Units \cup {None}] /\ stale' \subseteq Ids
         /\ CacheCoherent'
         /\ \A j \in Ids : cache'[j] # None /\ cache'[j].on /\ j \notin stale' =>
              owner'[j] \in {None, seen'[j]}
<1>1. CASE cache[i] = p
  BY <1>1 DEF IndInv, TypeOK, CacheCoherent, Adoption, SendDeviceTransformIfChanged
<1>2. CASE cache[i] # p
  BY <1>2 DEF IndInv, TypeOK, CacheCoherent, Adoption, SendDeviceTransformIfChanged
<1> QED BY <1>1, <1>2

LEMMA SendFallbackStep ==
  ASSUME IndInv, NEW s \in Systems, NEW o \in Offsets, SendFallbackIfChanged(s, o)
  PROVE  /\ fbCache' \in [Systems -> Offsets \cup {None}] /\ fbSent' \in BOOLEAN
         /\ fallback' \in [Systems -> Offsets \cup {None}] /\ staleFb' \subseteq Systems
         /\ FallbackCoherent'
<1>1. CASE UNCHANGED <<fbCache, fbSent, fallback, staleFb>>
  BY <1>1 DEF IndInv, TypeOK, FallbackCoherent
<1>2. CASE /\ fallback' = [fallback EXCEPT ![s] = o]
           /\ fbCache' = [fbCache EXCEPT ![s] = o]
           /\ fbSent' = TRUE /\ staleFb' = staleFb \ {s}
  <2>1. /\ fbCache' \in [Systems -> Offsets \cup {None}] /\ fbSent' \in BOOLEAN
        /\ fallback' \in [Systems -> Offsets \cup {None}] /\ staleFb' \subseteq Systems
    BY <1>2 DEF IndInv, TypeOK
  <2>2. FallbackCoherent'
    BY <1>2 DEF IndInv, TypeOK, FallbackCoherent
  <2> QED BY <2>1, <2>2
<1> QED BY <1>1, <1>2 DEF SendFallbackIfChanged

\* The scan stays within the ids.
LEMMA AdvanceStep ==
  ASSUME at \in Ids, Advance
  PROVE  at' \in Ids /\ pc' \in {"serial", "end"}
BY BoundsAreTyped DEF Advance, Ids

\* The system of a unit is a tracking system.
LEMMA SystemOfUnit == \A u \in Units \cup {None} : SystemOf(u) \in Systems \cup {None}
BY DEF SystemOf, Units

\* An event stays within the bound.
LEMMA HappensTyped ==
  ASSUME TypeOK, Happens
  PROVE  events' \in 0 .. MaxEvents
BY BoundsAreTyped DEF TypeOK, Happens

(***************************************************************************)
(* Every step preserves the invariant.                                     *)
(***************************************************************************)

LEMMA WorldStep ==
  ASSUME IndInv,
         \/ \E i \in Ids, u \in Units \cup {None} : HotPlug(i, u)
         \/ DriverRestarts \/ OverlayRestarts
  PROVE  IndInv'
<1> USE DEF world, profile, slotCache, scanMemo, snapVars, scan, driver
<1>1. CASE \E i \in Ids, u \in Units \cup {None} : HotPlug(i, u)
  <2> PICK i \in Ids, u \in Units \cup {None} : HotPlug(i, u)
    BY <1>1
  <2>1. events' \in 0 .. MaxEvents
    BY HappensTyped DEF HotPlug, IndInv
  <2>2. dev' \in [Ids -> Units \cup {None}]
    BY DEF HotPlug, IndInv, TypeOK
  <2>3. /\ UNCHANGED <<profile, enabled, slotCache, scanMemo, snapVars, scan, driver>>
        /\ UNCHANGED <<stale, staleFb>>
    BY DEF HotPlug
  <2>4. TypeOK'
    BY <2>1, <2>2, <2>3 DEF IndInv, TypeOK
  <2> QED BY <2>3, <2>4 DEF IndInv, CacheCoherent, FallbackCoherent, Adoption
<1>2. CASE DriverRestarts
  <2>1. events' \in 0 .. MaxEvents
    BY <1>2, HappensTyped DEF DriverRestarts, IndInv
  <2>2. slot' \in [Ids -> Payloads] /\ owner' \in [Ids -> Units \cup {None}]
    BY <1>2, PayloadsAreTyped DEF DriverRestarts
  <2>3. fallback' \in [Systems -> Offsets \cup {None}] /\ stale' \subseteq Ids
        /\ staleFb' \subseteq Systems
    BY <1>2 DEF DriverRestarts
  <2>4. /\ UNCHANGED <<dev, profile, enabled, slotCache, scanMemo, snapVars, scan>>
       
    BY <1>2 DEF DriverRestarts
  <2>5. TypeOK'
    BY <2>1, <2>2, <2>3, <2>4 DEF IndInv, TypeOK
  <2> QED BY <1>2, <2>5 DEF DriverRestarts, IndInv, CacheCoherent, FallbackCoherent, Adoption
<1>3. CASE OverlayRestarts
  <2>1. events' \in 0 .. MaxEvents
    BY <1>3, HappensTyped DEF OverlayRestarts, IndInv
  <2>2. TypeOK'
    BY <1>3, <2>1, BoundsAreTyped DEF OverlayRestarts, ForgetAll, IndInv, TypeOK
  <2> QED BY <1>3, <2>2
      DEF OverlayRestarts, ForgetAll, IndInv, CacheCoherent, FallbackCoherent, Adoption
<1> QED BY <1>1, <1>2, <1>3

LEMMA EditStep ==
  ASSUME IndInv, Edits
  PROVE  IndInv'
<1>0. events' \in 0 .. MaxEvents
  BY HappensTyped DEF Edits, Edit, SetProfile, SetExtra, SetContinuous, Recover,
     BaseStationShift, IndInv
<1> USE <1>0
    DEF IndInv, CacheCoherent, FallbackCoherent, Adoption, Edit, TypeOK,
        world, slotCache, scanMemo, scan, driver, snapVars
<1>1. CASE \E v \in BOOLEAN, s \in Systems \cup {None}, o \in Offsets : SetProfile(v, s, o)
  BY <1>1 DEF SetProfile
<1>2. CASE \E s \in Systems, o \in Offsets \cup {None} : SetExtra(s, o)
  BY <1>2 DEF SetExtra
<1>3. CASE \E c \in BOOLEAN : SetContinuous(c)
  BY <1>3 DEF SetContinuous
<1>4. CASE Recover
  BY <1>4, BoundsAreTyped DEF Recover
<1>5. CASE \E s \in Systems, o \in Offsets : BaseStationShift(s, o)
  <2> PICK s \in Systems, o \in Offsets : BaseStationShift(s, o)
    BY <1>5
  <2>1. /\ offset' \in Offsets /\ extras' \in [Systems -> Offsets \cup {None}]
        /\ cache' \in [Ids -> Payloads \cup {None}] /\ seen' \in [Ids -> Units \cup {None}]
    BY DEF BaseStationShift, ForgetAll
  <2>2. \A i \in Ids : cache'[i] = None
    BY DEF BaseStationShift, ForgetAll
  <2> QED BY <2>1, <2>2 DEF BaseStationShift
<1> QED BY <1>1, <1>2, <1>3, <1>4, <1>5 DEF Edits

LEMMA ScanBeginStep ==
  ASSUME IndInv, ScanBegin
  PROVE  IndInv'
<1> USE BoundsAreTyped DEF ScanBegin, ForgetAll, IndInv, world, profile, slotCache
<1>1. TypeOK'
  BY DEF TypeOK
<1>2. CacheCoherent'
  BY DEF TypeOK, CacheCoherent
<1>3. FallbackCoherent'
  BY DEF TypeOK, FallbackCoherent
<1>4. Adoption'
  BY DEF TypeOK, Adoption
<1> QED BY <1>1, <1>2, <1>3, <1>4

LEMMA ScanFallbackStep ==
  ASSUME IndInv, ScanFallback
  PROVE  IndInv'
<1> USE DEF ScanFallback, world, profile, slotCache, snapVars
<1>1. /\ fbCache' \in [Systems -> Offsets \cup {None}] /\ fbSent' \in BOOLEAN
      /\ fallback' \in [Systems -> Offsets \cup {None}] /\ staleFb' \subseteq Systems
      /\ FallbackCoherent'
  <2>1. CASE enabled /\ tgt # None
    BY <2>1, SendFallbackStep DEF IndInv, TypeOK
  <2>2. CASE ~(enabled /\ tgt # None)
    BY <2>2 DEF IndInv, TypeOK, FallbackCoherent
  <2> QED BY <2>1, <2>2
<1> QED BY <1>1 DEF IndInv, TypeOK, CacheCoherent, Adoption

LEMMA ScanExtraStep ==
  ASSUME IndInv, ScanExtra
  PROVE  IndInv'
<1> USE DEF ScanExtra, world, profile, slotCache, snapVars
<1>1. /\ fbCache' \in [Systems -> Offsets \cup {None}] /\ fbSent' \in BOOLEAN
      /\ fallback' \in [Systems -> Offsets \cup {None}] /\ staleFb' \subseteq Systems
      /\ FallbackCoherent' /\ todo' \subseteq todo
      /\ pc' \in {"extras", "serial"}
  <2>1. CASE \E s \in todo : SendFallbackIfChanged(s, extras[s]) /\ todo' = todo \ {s}
                             /\ pc' = pc
    <3>1. PICK s \in todo : SendFallbackIfChanged(s, extras[s]) /\ todo' = todo \ {s} /\ pc' = pc
      BY <2>1
    <3>2. s \in Systems /\ extras[s] \in Offsets
      BY <3>1 DEF IndInv, TypeOK, Adoption
    <3> QED BY <3>1, <3>2, SendFallbackStep DEF IndInv, TypeOK
  <2>2. CASE UNCHANGED <<fbCache, fbSent, fallback, staleFb>> /\ todo' = todo /\ pc' = "serial"
    BY <2>2 DEF IndInv, TypeOK, FallbackCoherent
  <2> QED BY <2>1, <2>2
<1> QED BY <1>1 DEF IndInv, TypeOK, CacheCoherent, Adoption

LEMMA ScanGoneStep ==
  ASSUME IndInv, ScanGone
  PROVE  IndInv'
<1>1. at' \in Ids /\ pc' \in {"serial", "end"}
  BY AdvanceStep DEF ScanGone, IndInv, TypeOK
<1> USE <1>1 DEF ScanGone, IndInv, world, profile, scanMemo, snapVars, driver
<1>2. TypeOK'
  BY DEF TypeOK
<1>3. CacheCoherent' /\ FallbackCoherent'
  BY DEF TypeOK, CacheCoherent, FallbackCoherent
<1>4. Adoption'
  BY DEF TypeOK, Adoption
<1> QED BY <1>2, <1>3, <1>4

LEMMA ReadsSerialStep ==
  ASSUME IndInv, ReadsSerial
  PROVE  IndInv'
<1>1. PICK u \in Units \cup {None} : ScanSerial(u)
  BY DEF ReadsSerial, IndInv, TypeOK
<1>2. events' \in 0 .. MaxEvents
  BY HappensTyped DEF ReadsSerial, IndInv, TypeOK
<1>3. at \in Ids /\ pc' = "classify"
  BY DEF ReadsSerial, IndInv, TypeOK
<1>4. Off(None) \in Payloads /\ ~Off(None).on
  BY PayloadsAreTyped
<1> DEFINE off == Off(None)
<1>5. /\ seen' = [seen EXCEPT ![at] = u]
      /\ \/ /\ seen[at] # u /\ seen[at] # None
            /\ slot' = [slot EXCEPT ![at] = off] /\ cache' = [cache EXCEPT ![at] = off]
            /\ stale' = stale \ {at} /\ owner' = owner
         \/ seen[at] \in {u, None} /\ UNCHANGED <<cache, slot, owner, stale>>
  BY <1>1 DEF ScanSerial
<1>6. off \in Payloads /\ ~off.on
  BY <1>4
<1> HIDE DEF off
<1>7. TypeOK'
  BY <1>2, <1>3, <1>5, <1>6
  DEF ReadsSerial, IndInv, TypeOK, world, profile, scanMemo, snapVars
<1>8. CacheCoherent'
  BY <1>3, <1>5, <1>6 DEF IndInv, TypeOK, CacheCoherent
<1>9. FallbackCoherent'
  BY DEF ReadsSerial, IndInv, FallbackCoherent, scanMemo
<1>10. Adoption'
  BY <1>3, <1>5, <1>6 DEF ReadsSerial, IndInv, TypeOK, Adoption, snapVars
<1> QED BY <1>7, <1>8, <1>9, <1>10 DEF IndInv

\* What the scan sends for the id at hand, and when it may ask for a blend.
LEMMA ClassifySends ==
  ASSUME IndInv, NEW s \in Systems \cup {None}, Classify(s)
  PROVE  /\ enabled' \in BOOLEAN
         /\ \E p \in Payloads :
              /\ SendDeviceTransformIfChanged(at, p)
              /\ p.lerp => cache[at] # None /\ cache[at].on /\ ~snapNow
<1>1. enabled' \in BOOLEAN
  BY DEF Classify
<1>2. CASE ~enabled \/ s = None
  BY <1>1, <1>2, PayloadsAreTyped DEF Classify
<1>3. CASE ~(~enabled \/ s = None) /\ (at = Hmd \/ s # tgt)
  BY <1>1, <1>3, PayloadsAreTyped DEF Classify
<1>4. CASE ~(~enabled \/ s = None) /\ ~(at = Hmd \/ s # tgt)
  <2> DEFINE p == On(offset, ShouldBlend(at))
  <2>1. SendDeviceTransformIfChanged(at, p)
    BY <1>4 DEF Classify
  <2>2. ShouldBlend(at) \in BOOLEAN
    BY DEF ShouldBlend
  <2>3. p \in Payloads /\ p.lerp = ShouldBlend(at)
    BY <2>2, PayloadsAreTyped DEF IndInv, TypeOK
  <2> HIDE DEF p
  <2> QED BY <1>1, <2>1, <2>3 DEF ShouldBlend
<1> QED BY <1>2, <1>3, <1>4

LEMMA ScanDeviceSends ==
  ASSUME IndInv, ScanDevice
  PROVE  /\ enabled' \in BOOLEAN /\ events' \in 0 .. MaxEvents
         /\ \E p \in Payloads :
              /\ SendDeviceTransformIfChanged(at, p)
              /\ p.lerp => cache[at] # None /\ cache[at].on /\ ~snapNow
<1>1. CASE Classify(SystemOf(dev[at])) /\ UNCHANGED events
  <2>1. SystemOf(dev[at]) \in Systems \cup {None}
    BY SystemOfUnit DEF IndInv, TypeOK
  <2> QED BY <1>1, <2>1, ClassifySends DEF IndInv, TypeOK
<1>2. CASE Happens /\ Classify(None)
  BY <1>2, ClassifySends, HappensTyped DEF IndInv, TypeOK
<1> QED BY <1>1, <1>2 DEF ScanDevice

LEMMA ScanDeviceStep ==
  ASSUME IndInv, ScanDevice
  PROVE  IndInv'
<1>1. /\ at \in Ids /\ at' \in Ids /\ pc' \in {"serial", "end"} /\ seen' = seen
  BY AdvanceStep DEF ScanDevice, IndInv, TypeOK
<1>2. PICK p \in Payloads : SendDeviceTransformIfChanged(at, p)
  BY ScanDeviceSends
<1>3. /\ cache' \in [Ids -> Payloads \cup {None}] /\ slot' \in [Ids -> Payloads]
      /\ owner' \in [Ids -> Units \cup {None}] /\ stale' \subseteq Ids
      /\ CacheCoherent'
      /\ \A j \in Ids : cache'[j] # None /\ cache'[j].on /\ j \notin stale' =>
           owner'[j] \in {None, seen'[j]}
  BY <1>1, <1>2, SendTransformStep
<1>4. TypeOK'
  <2>1. UNCHANGED <<world, profile, scanMemo, snapVars, todo, fallback, staleFb>>
    BY DEF ScanDevice
  <2> QED BY <1>1, <1>3, <2>1, ScanDeviceSends DEF IndInv, TypeOK, world, profile, scanMemo, snapVars
<1>5. FallbackCoherent' /\ Adoption'
  BY <1>1, <1>3 DEF ScanDevice, IndInv, FallbackCoherent, Adoption, scanMemo, snapVars, profile
<1> QED BY <1>3, <1>4, <1>5 DEF IndInv

LEMMA ScanEndStep ==
  ASSUME IndInv, ScanEnd
  PROVE  IndInv'
<1> USE BoundsAreTyped DEF ScanEnd, IndInv, world, profile, slotCache, scanMemo, driver, history
<1>1. TypeOK'
  BY DEF TypeOK
<1> QED BY <1>1 DEF TypeOK, CacheCoherent, FallbackCoherent, Adoption

LEMMA NextIndInv == IndInv /\ [Next]_vars => IndInv'
<1> SUFFICES ASSUME IndInv, [Next]_vars PROVE IndInv'
  OBVIOUS
<1>1. CASE Scan
  BY <1>1, ScanBeginStep, ScanFallbackStep, ScanExtraStep, ScanGoneStep, ReadsSerialStep,
     ScanDeviceStep, ScanEndStep DEF Scan
<1>2. CASE Edits
  BY <1>2, EditStep
<1>3. CASE \/ \E i \in Ids, u \in Units \cup {None} : HotPlug(i, u)
           \/ DriverRestarts \/ OverlayRestarts
  BY <1>3, WorldStep
<1>4. CASE UNCHANGED vars
  BY <1>4 DEF IndInv, TypeOK, CacheCoherent, FallbackCoherent, Adoption, vars, world, profile,
     slotCache, scanMemo, snapVars, scan, driver, history
<1> QED BY <1>1, <1>2, <1>3, <1>4 DEF Next

\* The overlay's caches and the driver's tables are well typed, and the scan never
\* leaves the ids (ScanAndApplyProfile's loop).
THEOREM ProfileTypeCorrect == Spec => []TypeOK
BY InitIndInv, NextIndInv, PTL DEF Spec, IndInv

\* SendDeviceTransformIfChanged never skips a payload the driver does not have,
\* unless the driver was restarted under the overlay.
THEOREM CacheCoherentCorrect == Spec => []CacheCoherent
BY InitIndInv, NextIndInv, PTL DEF Spec, IndInv

\* SendFallbackIfChanged is as sound, except for a fallback that was withdrawn
\* past its cache or lost in a driver restart.
THEOREM FallbackCoherentCorrect == Spec => []FallbackCoherent
BY InitIndInv, NextIndInv, PTL DEF Spec, IndInv

\* A step that changes no slot asks for no blend, and a scan asks for one only
\* where the slot is on, for the same unit, and no recovery is pending.
LEMMA BlendStep ==
  ASSUME IndInv, [Next]_vars, NEW i \in Ids,
         slot'[i] # slot[i], slot'[i].on, slot'[i].lerp
  PROVE  /\ slot[i].on \/ i \in stale
         /\ owner[i] \notin {None, owner'[i]} => i \in stale
         /\ ~snapNext
<1>1. CASE ScanDevice
  <2>1. PICK p \in Payloads : /\ SendDeviceTransformIfChanged(at, p)
                              /\ p.lerp => cache[at] # None /\ cache[at].on /\ ~snapNow
    BY <1>1, ScanDeviceSends
  <2>2. /\ i = at /\ slot' = [slot EXCEPT ![at] = p]
        /\ owner' = [owner EXCEPT ![at] = IF p.on THEN seen[at] ELSE @]
    BY <2>1 DEF SendDeviceTransformIfChanged, IndInv, TypeOK
  <2>3. p.lerp /\ p.on
    BY <2>2 DEF IndInv, TypeOK
  <2>4. cache[at] # None /\ cache[at].on /\ ~snapNow /\ owner'[at] = seen[at]
    BY <2>1, <2>2, <2>3 DEF IndInv, TypeOK
  <2>5. snapNow = snapNext
    BY <1>1 DEF ScanDevice, IndInv, Adoption
  <2> QED BY <2>2, <2>4, <2>5 DEF IndInv, TypeOK, CacheCoherent, Adoption
<1>2. CASE ReadsSerial
  <2>1. slot'[i] = Off(None)
    BY <1>2 DEF ReadsSerial, ScanSerial, IndInv, TypeOK
  <2> QED BY <2>1, PayloadsAreTyped
<1>3. CASE DriverRestarts
  BY <1>3, PayloadsAreTyped DEF DriverRestarts
<1>4. ASSUME slot' = slot PROVE FALSE
  BY <1>4
<1>5. ASSUME ~ScanDevice, ~ReadsSerial, ~DriverRestarts PROVE slot' = slot
  BY <1>5 DEF Next, Scan, ScanBegin, ScanFallback, ScanExtra, ScanGone, ScanEnd, Edits, Edit,
     SetProfile, SetExtra, SetContinuous, Recover, BaseStationShift, HotPlug, OverlayRestarts,
     driver, vars
<1> QED BY <1>1, <1>2, <1>3, <1>4, <1>5

\* The driver blends only towards a unit it was moving already (ShouldBlendCycle
\* with isFreshlyAdopted): no id reuse, restart or recovery slips a blend in.
THEOREM BlendsOnlyWhatMovesCorrect == Spec => BlendsOnlyWhatMoves
<1>1. IndInv /\ [Next]_vars =>
        [\A i \in Ids :
           slot'[i] # slot[i] /\ slot'[i].on /\ slot'[i].lerp =>
             /\ slot[i].on \/ i \in stale
             /\ owner[i] \notin {None, owner'[i]} => i \in stale
             /\ ~snapNext]_vars
  BY BlendStep
<1> QED BY <1>1, InitIndInv, NextIndInv, PTL DEF Spec, BlendsOnlyWhatMoves
=============================================================================
