----------------------------- MODULE PosesProofs -----------------------------
(***************************************************************************)
(* What the driver does to data on its way.                                *)
(*                                                                         *)
(* The device transforms for any devices, systems, offsets and bounds: a   *)
(* device only follows a fallback that is in force, and neither a fallback *)
(* nor a per-ID transform ever takes up an offset of another owner, unless *)
(* a message overtakes a query for the device's system.  The skeletal      *)
(* hooks: no blend with a frame of before the latest creation.  The face   *)
(* pipeline: warm means learned.  The prediction locks: a device that      *)
(* continuous calibration uses is raw.                                     *)
(***************************************************************************)
EXTENDS MCPoses, TLAPS

OwnedBy(mix, w) == \A o \in mix : o[1] = w

\* What the purity of the transforms rests on: a slot's target belongs to the same
\* owner as its transform, a fallback's offset to its system, and a device that is
\* enabled while its pose thread is asking was enabled by an overtaking message.
Ownership ==
  /\ \A s \in Systems : fbOn[s] => fbOffset[s][1] = s
  /\ \A d \in Devices : active[d] => OwnedBy(tfm[d], sys[d]) /\ OwnedBy(target[d], sys[d])
  /\ \A d \in Devices : enabled[d] /\ d \notin raced =>
       ~active[d] /\ d \notin asking /\ OwnedBy(tfm[d], PerId) /\ OwnedBy(target[d], PerId)

IndInv == TypeOK /\ FollowsEnabled /\ Ownership /\ PerIdIsPure

LEMMA OffsetsAreTyped ==
  /\ Identity \in Offsets /\ Identity[1] = PerId /\ Raw \in Applied /\ Raw.by = "none"
  /\ \A n \in Variants : <<PerId, n>> \in Offsets /\ <<PerId, n>>[1] = PerId
  /\ \A s \in Systems, n \in Variants : <<s, n>> \in Offsets /\ <<s, n>>[1] = s
BY DEF Identity, Offsets, Owners, Raw, Applied

LEMMA InitIndInv == Init => IndInv
BY OffsetsAreTyped, SystemsAssumption
DEF Init, IndInv, TypeOK, FollowsEnabled, Ownership, OwnedBy, PerIdIsPure

\* Blending takes nothing from a third place.
LEMMA BlendsKeepOwner ==
  ASSUME NEW from \in SUBSET Offsets, NEW to \in SUBSET Offsets, NEW t \in Blends(from, to),
         NEW w, OwnedBy(from, w), OwnedBy(to, w)
  PROVE  t \in SUBSET Offsets /\ OwnedBy(t, w)
BY DEF Blends, OwnedBy

LEMMA BlendsTyped ==
  ASSUME NEW from \in SUBSET Offsets, NEW to \in SUBSET Offsets, NEW t \in Blends(from, to)
  PROVE  t \in SUBSET Offsets
BY DEF Blends

\* A message for a device leaves it pure: its offset is a per-ID one.
LEMMA SetTransformStep ==
  ASSUME IndInv, NEW d \in Devices, NEW on \in BOOLEAN, NEW o \in Offsets, o[1] = PerId,
         NEW lerp \in BOOLEAN, NEW q \in BOOLEAN, NEW s \in Systems \cup {NoSystem},
         SetTransform(d, on, o, lerp, q, s)
  PROVE  IndInv'
<1> USE DEF SetTransform, IndInv, fallbackVars
<1>1. TypeOK'
  BY SystemsAssumption DEF TypeOK
<1>2. FollowsEnabled'
  BY DEF TypeOK, FollowsEnabled
<1>3. Ownership'
  BY DEF TypeOK, Ownership, OwnedBy
<1>4. PerIdIsPure'
  BY DEF TypeOK, PerIdIsPure
<1> QED BY <1>1, <1>2, <1>3, <1>4

LEMMA FallbackOnStep ==
  ASSUME IndInv, NEW s \in Systems, NEW n \in Variants, FallbackOn(s, <<s, n>>)
  PROVE  IndInv'
<1> DEFINE o == <<s, n>>
<1>o. o \in Offsets /\ o[1] = s
  BY OffsetsAreTyped
<1> HIDE DEF o
<1>a. FallbackOn(s, o)
  BY DEF o
<1> USE DEF FallbackOn, IndInv, fallbackVars, slotVars, systemVars
<1>1. TypeOK'
  <2>1. CASE fallbackVars' = fallbackVars
    BY <2>1, <1>a DEF TypeOK
  <2>2. CASE /\ slots' = slots \cup {s}
             /\ fbOn' = [fbOn EXCEPT ![s] = TRUE]
             /\ fbOffset' = [fbOffset EXCEPT ![s] = o]
    BY <2>2, <1>o, <1>a DEF TypeOK
  <2> QED BY <2>1, <2>2, <1>a
<1>2. FollowsEnabled'
  BY <1>a DEF TypeOK, FollowsEnabled
<1>3. Ownership'
  BY <1>o, <1>a DEF TypeOK, Ownership, OwnedBy
<1>4. PerIdIsPure'
  BY <1>a DEF TypeOK, PerIdIsPure
<1> QED BY <1>1, <1>2, <1>3, <1>4

LEMMA FallbackOffStep ==
  ASSUME IndInv, NEW s \in Systems, FallbackOff(s)
  PROVE  IndInv'
<1> USE DEF FallbackOff, IndInv, systemVars
<1>1. TypeOK'
  BY DEF TypeOK
<1>2. FollowsEnabled'
  BY DEF TypeOK, FollowsEnabled
<1>3. Ownership'
  BY DEF TypeOK, Ownership, OwnedBy
<1>4. PerIdIsPure'
  BY DEF TypeOK, PerIdIsPure
<1> QED BY <1>1, <1>2, <1>3, <1>4

LEMMA PoseQuashedStep ==
  ASSUME IndInv, NEW d \in Devices, PoseQuashed(d)
  PROVE  IndInv'
BY DEF PoseQuashed, IndInv, slotVars, systemVars, fallbackVars, TypeOK, Applied,
       FollowsEnabled, Ownership, OwnedBy, PerIdIsPure

LEMMA PosePerIdStep ==
  ASSUME IndInv, NEW d \in Devices, PosePerId(d)
  PROVE  IndInv'
<1> PICK t \in Blends(tfm[d], target[d]) :
       /\ tfm' = [tfm EXCEPT ![d] = t]
       /\ applied' = [applied EXCEPT ![d] = [by |-> "id", mix |-> t]]
  BY DEF PosePerId
<1>t. t \in SUBSET Offsets
  BY BlendsTyped DEF IndInv, TypeOK
<1>w. \A w : OwnedBy(tfm[d], w) /\ OwnedBy(target[d], w) => OwnedBy(t, w)
  BY BlendsKeepOwner DEF IndInv, TypeOK
<1> USE DEF IndInv, PosePerId, systemVars, fallbackVars
<1>1. TypeOK'
  BY <1>t DEF TypeOK, Applied
<1>2. FollowsEnabled'
  BY DEF FollowsEnabled
<1>3. Ownership'
  <2>1. ASSUME NEW e \in Devices, active[e]
        PROVE  OwnedBy(tfm'[e], sys[e]) /\ OwnedBy(target[e], sys[e])
    BY <1>w, <2>1 DEF TypeOK, Ownership
  <2>2. ASSUME NEW e \in Devices, enabled[e], e \notin raced
        PROVE  OwnedBy(tfm'[e], PerId)
    BY <1>w, <2>2 DEF TypeOK, Ownership
  <2> QED BY <2>1, <2>2 DEF Ownership
<1>4. PerIdIsPure'
  <2>1. d \notin raced => OwnedBy(t, PerId)
    BY <1>w DEF Ownership
  <2> QED BY <2>1 DEF TypeOK, PerIdIsPure, OwnedBy
<1> QED BY <1>1, <1>2, <1>3, <1>4

\* Following the fallback, whatever the device's system has become: the device is
\* not enabled, or was enabled by an overtaking message.
LEMMA FollowStep ==
  ASSUME TypeOK, FollowsEnabled, Ownership, PerIdIsPure,
         NEW d \in Devices, FollowFallback(d, sys'[d]),
         enabled[d] => d \in raced,
         active[d] => sys'[d] = sys[d],
         sys' \in [Devices -> Systems \cup {NoSystem}],
         \A e \in Devices : e # d => sys'[e] = sys[e],
         lookup' \in [Devices -> {"NotTried", "Cached", "Failed"}],
         \A e \in Devices : sys'[e] # NoSystem <=> lookup'[e] = "Cached",
         asking' \subseteq asking,
         UNCHANGED <<enabled, quash, fallbackVars, raced, commands>>
  PROVE  IndInv'
<1> DEFINE s == sys'[d]
<1>s. s \in Systems \cup {NoSystem} /\ sys'[d] = s
  OBVIOUS
<1> USE DEF fallbackVars
<1>1. CASE s # NoSystem /\ fbOn[s]
  <2> DEFINE to == {fbOffset[s]}
             from == IF active[d] THEN tfm[d] ELSE to
  <2>1. to \in SUBSET Offsets /\ OwnedBy(to, s)
    BY <1>1, <1>s DEF TypeOK, Ownership, OwnedBy
  <2>2. from \in SUBSET Offsets /\ OwnedBy(from, s)
    BY <2>1 DEF TypeOK, Ownership
  <2>3. PICK t \in Blends(from, to) :
          /\ tfm' = [tfm EXCEPT ![d] = t]
          /\ applied' = [applied EXCEPT ![d] = [by |-> "fallback", mix |-> t]]
          /\ target' = [target EXCEPT ![d] = to]
          /\ active' = [active EXCEPT ![d] = TRUE]
    BY <1>1 DEF FollowFallback
  <2>4. t \in SUBSET Offsets /\ OwnedBy(t, s)
    BY <2>1, <2>2, BlendsKeepOwner
  <2> HIDE DEF to, from, s
  <2>5. TypeOK'
    BY <2>1, <2>3, <2>4 DEF TypeOK, Applied
  <2>6. FollowsEnabled'
    BY <1>1, <1>s, <2>3 DEF TypeOK, FollowsEnabled
  <2>7. Ownership'
    BY <1>s, <2>1, <2>3, <2>4 DEF TypeOK, Ownership
  <2>8. PerIdIsPure'
    BY <2>3 DEF TypeOK, PerIdIsPure
  <2> QED BY <2>5, <2>6, <2>7, <2>8 DEF IndInv
<1>2. CASE s # NoSystem /\ ~fbOn[s]
  <2>1. /\ target' = [target EXCEPT ![d] = IF active[d] THEN tfm[d] ELSE @]
        /\ active' = [active EXCEPT ![d] = FALSE]
        /\ applied' = [applied EXCEPT ![d] = Raw]
        /\ tfm' = tfm
    BY <1>2 DEF FollowFallback
  <2> HIDE DEF s
  <2>2. TypeOK'
    BY <2>1, OffsetsAreTyped DEF TypeOK
  <2>3. FollowsEnabled'
    BY <2>1 DEF TypeOK, FollowsEnabled
  <2>4. Ownership'
    BY <2>1 DEF TypeOK, Ownership
  <2>5. PerIdIsPure'
    BY <2>1, OffsetsAreTyped DEF TypeOK, PerIdIsPure
  <2> QED BY <2>2, <2>3, <2>4, <2>5 DEF IndInv
<1>3. CASE s = NoSystem
  <2>1. /\ applied' = [applied EXCEPT ![d] = Raw]
        /\ UNCHANGED <<tfm, target, active>>
    BY <1>3 DEF FollowFallback
  <2>a. ~active[d]
    BY <1>3 DEF FollowsEnabled
  <2> HIDE DEF s
  <2>2. TypeOK'
    BY <2>1, OffsetsAreTyped DEF TypeOK
  <2>3. FollowsEnabled'
    BY <2>1, <2>a DEF TypeOK, FollowsEnabled
  <2>4. Ownership'
    BY <2>1, <2>a DEF TypeOK, Ownership
  <2>5. PerIdIsPure'
    BY <2>1, OffsetsAreTyped DEF TypeOK, PerIdIsPure
  <2> QED BY <2>2, <2>3, <2>4, <2>5 DEF IndInv
<1> QED BY <1>1, <1>2, <1>3

LEMMA PoseFallbackStep ==
  ASSUME IndInv, NEW d \in Devices, PoseFallback(d)
  PROVE  IndInv'
<1>1. sys' = sys /\ lookup' = lookup /\ asking' = asking
  BY DEF PoseFallback, systemVars
<1>2. FollowFallback(d, sys'[d]) /\ ~enabled[d]
  BY <1>1 DEF PoseFallback
<1> QED BY <1>1, <1>2, FollowStep DEF IndInv, TypeOK, PoseFallback

LEMMA PoseAsksStep ==
  ASSUME IndInv, NEW d \in Devices, PoseAsks(d)
  PROVE  IndInv'
BY DEF PoseAsks, IndInv, slotVars, fallbackVars, TypeOK,
       FollowsEnabled, Ownership, OwnedBy, PerIdIsPure

\* The answer only replaces an unknown system, so a follower's never changes.
LEMMA QueryReturnsStep ==
  ASSUME IndInv, NEW d \in Devices, NEW s \in Systems \cup {NoSystem}, QueryReturns(d, s)
  PROVE  IndInv'
<1> USE DEF QueryReturns
<1>1. FollowFallback(d, sys'[d]) /\ asking' \subseteq asking
  OBVIOUS
<1>2. enabled[d] => d \in raced
  BY DEF IndInv, Ownership
<1>3. active[d] => sys'[d] = sys[d]
  BY DEF IndInv, TypeOK, FollowsEnabled
<1>4. /\ sys' \in [Devices -> Systems \cup {NoSystem}]
      /\ \A e \in Devices : e # d => sys'[e] = sys[e]
      /\ lookup' \in [Devices -> {"NotTried", "Cached", "Failed"}]
      /\ \A e \in Devices : sys'[e] # NoSystem <=> lookup'[e] = "Cached"
  BY SystemsAssumption DEF IndInv, TypeOK
<1> QED BY <1>1, <1>2, <1>3, <1>4, FollowStep DEF IndInv

LEMMA NextIndInv == IndInv /\ [Next]_vars => IndInv'
<1> SUFFICES ASSUME IndInv, [Next]_vars PROVE IndInv'
  OBVIOUS
<1>1. CASE Ipc
  <2>1. ASSUME NEW d \in Devices, NEW n \in Variants, NEW lerp \in BOOLEAN, NEW q \in BOOLEAN,
               NEW s \in Systems, Adopt(d, <<PerId, n>>, lerp, q, s)
        PROVE  IndInv'
    <3>1. <<PerId, n>> \in Offsets
      BY <2>1, OffsetsAreTyped
    <3> QED BY <2>1, <3>1, SetTransformStep DEF Adopt
  <2>2. ASSUME NEW d \in Devices, NEW s \in Systems \cup {NoSystem}, Disown(d, s)
        PROVE  IndInv'
    BY <2>2, OffsetsAreTyped, SetTransformStep DEF Disown
  <2> QED BY <1>1, <2>1, <2>2, FallbackOnStep, FallbackOffStep DEF Ipc
<1>2. CASE \E d \in Devices : Pose(d)
  BY <1>2, PoseQuashedStep, PosePerIdStep, PoseFallbackStep, PoseAsksStep, QueryReturnsStep
  DEF Pose
<1>3. CASE UNCHANGED vars
  BY <1>3 DEF vars, slotVars, systemVars, fallbackVars, IndInv, TypeOK, FollowsEnabled,
              Ownership, OwnedBy, PerIdIsPure
<1> QED BY <1>1, <1>2, <1>3 DEF Next

LEMMA IndInvHolds == Spec => []IndInv
BY InitIndInv, NextIndInv, PTL DEF Spec

\* The slots keep their types, and a device's system is known exactly when its
\* lookup is marked as done (the race check after the unlocked query).
THEOREM TransformsTypeCorrect == Spec => []TypeOK
<1>1. IndInv => TypeOK
  BY DEF IndInv
<1> QED BY <1>1, IndInvHolds, PTL

\* No order of messages, lookups and pose updates leaves a device following a
\* fallback that was withdrawn (SetTrackingSystemFallback lets the followers go).
THEOREM FollowsEnabledCorrect == Spec => []FollowsEnabled
<1>1. IndInv => FollowsEnabled
  BY DEF IndInv
<1> QED BY <1>1, IndInvHolds, PTL

\* A device that follows a fallback is moved by offsets of its own system only.
THEOREM FallbackIsPureCorrect == Spec => []FallbackIsPure
<1>1. IndInv => FallbackIsPure
  BY DEF IndInv, Ownership, OwnedBy, FallbackIsPure
<1> QED BY <1>1, IndInvHolds, PTL

\* A device enabled per ID is moved by per-ID offsets only, unless the message that
\* enabled it overtook its pose thread's query.
THEOREM PerIdIsPureCorrect == Spec => []PerIdIsPure
<1>1. IndInv => PerIdIsPure
  BY DEF IndInv
<1> QED BY <1>1, IndInvHolds, PTL

-----------------------------------------------------------------------------
(* The face pipeline.                                                      *)

\* The group the worker is updating.
InWork(g) == g \in todo /\ Face!Working(g)

FaceTypes ==
  /\ shapes \in [Face!Groups -> [samples : Nat, warm : BOOLEAN]]
  /\ learned \in [Face!Groups -> Nat] /\ loaded \in Nat
  /\ todo \subseteq Face!Groups /\ frame.valid \subseteq Face!Groups

\* No count of samples, stored or in the worker's hands, is ahead of what was
\* learned since the last reset; unless the reset hit the group in work.
LearnedInv ==
  \A g \in Face!Groups \ reset :
    /\ shapes[g].warm => learned[g] >= kWarmThreshold
    /\ shapes[g].samples <= learned[g]
    /\ at = "store" /\ InWork(g) => loaded <= learned[g]
    /\ at = "warm" /\ InWork(g) => Face!Capped(loaded + 1) <= learned[g]

FaceInv == FaceTypes /\ LearnedInv

LEMMA InitFace == Face!Init => FaceInv
BY DEF Face!Init, Face!ShapeCalib, Face!NoFrame, FaceInv, FaceTypes, LearnedInv

\* A reset of a group clears its samples, its warmth and what was learned together.
LEMMA FaceReset ==
  ASSUME FaceInv, NEW groups, groups \subseteq Face!Groups, Face!Reset(groups)
  PROVE  FaceInv'
<1>0. FaceTypes /\ LearnedInv BY DEF FaceInv
<1>1. /\ shapes' = [g \in Face!Groups |-> IF g \in groups THEN [samples |-> 0, warm |-> FALSE]
                                                          ELSE shapes[g]]
      /\ learned' = [g \in Face!Groups |-> IF g \in groups THEN 0 ELSE learned[g]]
      /\ reset \subseteq reset' /\ UNCHANGED <<at, frame, todo, loaded>>
      /\ \A g \in groups : at \in {"store", "warm"} /\ InWork(g) => g \in reset'
  BY DEF Face!Reset, Face!Cleared, Face!ShapeCalib, InWork
<1>2. FaceTypes' BY <1>0, <1>1 DEF FaceTypes
<1>3. \A g : InWork(g)' <=> InWork(g) BY <1>1 DEF InWork, Face!Working
<1>4. LearnedInv'
  <2> SUFFICES ASSUME NEW g \in Face!Groups \ reset'
               PROVE  /\ shapes'[g].warm => learned'[g] >= kWarmThreshold
                      /\ shapes'[g].samples <= learned'[g]
                      /\ at' = "store" /\ InWork(g)' => loaded' <= learned'[g]
                      /\ at' = "warm" /\ InWork(g)' => Face!Capped(loaded + 1)' <= learned'[g]
    BY DEF LearnedInv
  <2>1. Face!Capped(loaded + 1)' = Face!Capped(loaded + 1) BY <1>1 DEF Face!Capped
  <2>2. CASE g \in groups BY <1>1, <1>3, <2>2
  <2>3. CASE g \notin groups BY <1>0, <1>1, <1>3, <2>1, <2>3 DEF LearnedInv
  <2> QED BY <2>2, <2>3
<1> QED BY <1>2, <1>4 DEF FaceInv

\* UpdateShape loads the samples of the group in work.
LEMMA FaceUpdate == FaceInv /\ Face!UpdateShape => FaceInv'
<1> SUFFICES ASSUME FaceInv, Face!UpdateShape PROVE FaceInv'
  OBVIOUS
<1>0. FaceTypes /\ LearnedInv BY DEF FaceInv
<1>1. PICK g \in todo :
        /\ Face!Working(g)
        /\ \/ todo' = todo \ {g} /\ UNCHANGED <<at, loaded>>
           \/ at' = "store" /\ loaded' = shapes[g].samples /\ UNCHANGED todo
  BY DEF Face!UpdateShape
<1>2. at = "learn" /\ UNCHANGED <<frame, shapes, learned, reset>> BY DEF Face!UpdateShape
<1>3. FaceTypes' BY <1>0, <1>1, <1>2 DEF FaceTypes
<1>4. CASE todo' = todo \ {g} /\ UNCHANGED <<at, loaded>>
  BY <1>0, <1>2, <1>3, <1>4 DEF FaceInv, LearnedInv
<1>5. CASE at' = "store" /\ loaded' = shapes[g].samples /\ UNCHANGED todo
  <2>1. \A k \in Face!Groups : InWork(k)' => k = g
    BY <1>1, <1>5 DEF InWork, Face!Working
  <2> QED BY <1>0, <1>2, <1>3, <1>5, <2>1 DEF FaceInv, LearnedInv
<1> QED BY <1>1, <1>4, <1>5

\* The end of UpdateShape counts a sample for what is stored and what was learned.
LEMMA FaceCount == FaceInv /\ Face!CountSample => FaceInv'
<1> SUFFICES ASSUME FaceInv, Face!CountSample PROVE FaceInv'
  OBVIOUS
<1>0. FaceTypes /\ LearnedInv BY DEF FaceInv
<1>1. PICK g \in todo :
        /\ Face!Working(g)
        /\ shapes' = [shapes EXCEPT ![g].samples = Face!Capped(loaded + 1)]
        /\ learned' = [learned EXCEPT ![g] = Face!Capped(learned[g] + 1)]
  BY DEF Face!CountSample
<1>2. at = "store" /\ at' = "warm" /\ UNCHANGED <<frame, todo, loaded, reset>>
  BY DEF Face!CountSample
<1>3. g \in Face!Groups /\ InWork(g) BY <1>0, <1>1 DEF FaceTypes, InWork
<1>4. loaded \in Nat /\ learned[g] \in Nat BY <1>0, <1>3 DEF FaceTypes
<1>5. Face!Capped(loaded + 1) \in Nat /\ Face!Capped(learned[g] + 1) \in Nat
      /\ (learned[g] >= kWarmThreshold => Face!Capped(learned[g] + 1) >= kWarmThreshold)
  BY <1>4, WarmAssumption DEF Face!Capped
<1>6. g \notin reset => Face!Capped(loaded + 1) <= Face!Capped(learned[g] + 1)
  <2>1. g \notin reset => loaded <= learned[g] BY <1>0, <1>2, <1>3 DEF LearnedInv
  <2> QED BY <1>4, <2>1, WarmAssumption DEF Face!Capped
<1>7. FaceTypes' BY <1>0, <1>1, <1>2, <1>3, <1>5 DEF FaceTypes
<1>8. \A k \in Face!Groups :
        /\ shapes'[k].warm = shapes[k].warm
        /\ shapes'[k].samples = IF k = g THEN Face!Capped(loaded + 1) ELSE shapes[k].samples
        /\ learned'[k] = IF k = g THEN Face!Capped(learned[g] + 1) ELSE learned[k]
  BY <1>0, <1>1, <1>3 DEF FaceTypes
<1>9. \A k \in Face!Groups : InWork(k)' => k = g
  BY <1>1, <1>2 DEF InWork, Face!Working
<1>10. Face!Capped(loaded + 1)' = Face!Capped(loaded + 1) BY <1>2 DEF Face!Capped
<1>11. LearnedInv'
  <2> SUFFICES ASSUME NEW k \in Face!Groups \ reset
               PROVE  /\ shapes'[k].warm => learned'[k] >= kWarmThreshold
                      /\ shapes'[k].samples <= learned'[k]
                      /\ at' = "store" /\ InWork(k)' => loaded' <= learned'[k]
                      /\ at' = "warm" /\ InWork(k)' => Face!Capped(loaded + 1)' <= learned'[k]
    BY <1>2 DEF LearnedInv
  <2>1. CASE k = g
    <3>1. shapes[k].warm => learned[g] >= kWarmThreshold BY <1>0, <2>1 DEF LearnedInv
    <3> QED BY <1>2, <1>5, <1>6, <1>8, <1>10, <2>1, <3>1
  <2>2. CASE k # g BY <1>0, <1>2, <1>8, <1>9, <2>2 DEF LearnedInv
  <2> QED BY <2>1, <2>2
<1> QED BY <1>7, <1>11 DEF FaceInv

\* Warmth is set from a count that is not ahead of what was learned.
LEMMA FaceWarm == FaceInv /\ Face!SetWarm => FaceInv'
<1> SUFFICES ASSUME FaceInv, Face!SetWarm PROVE FaceInv'
  OBVIOUS
<1>0. FaceTypes /\ LearnedInv BY DEF FaceInv
<1>a. PICK g \in todo :
        /\ Face!Working(g) /\ todo' = todo \ {g}
        /\ \E n \in {Face!Capped(loaded + 1), shapes[g].samples} :
              shapes' = [shapes EXCEPT ![g].warm = shapes[g].warm \/ n >= kWarmThreshold]
  BY DEF Face!SetWarm
<1>b. PICK n \in {Face!Capped(loaded + 1), shapes[g].samples} :
        shapes' = [shapes EXCEPT ![g].warm = shapes[g].warm \/ n >= kWarmThreshold]
  BY <1>a
<1>1. /\ Face!Working(g) /\ todo' = todo \ {g}
      /\ n \in {Face!Capped(loaded + 1), shapes[g].samples}
      /\ shapes' = [shapes EXCEPT ![g].warm = shapes[g].warm \/ n >= kWarmThreshold]
  BY <1>a, <1>b
<1>2. at = "warm" /\ at' = "learn" /\ UNCHANGED <<frame, learned, loaded, reset>>
  BY DEF Face!SetWarm
<1>3. g \in Face!Groups /\ InWork(g) BY <1>0, <1>1 DEF FaceTypes, InWork
<1>4. n \in Nat /\ learned[g] \in Nat
  BY <1>0, <1>1, <1>3, WarmAssumption DEF FaceTypes, Face!Capped
<1>5. g \notin reset /\ n >= kWarmThreshold => learned[g] >= kWarmThreshold
  <2>1. g \notin reset => Face!Capped(loaded + 1) <= learned[g] /\ shapes[g].samples <= learned[g]
    BY <1>0, <1>2, <1>3 DEF LearnedInv
  <2>2. g \notin reset => n <= learned[g] BY <1>1, <2>1
  <2> QED BY <1>4, <2>2, WarmAssumption
<1>6. \A k \in Face!Groups :
        /\ shapes'[k].samples = shapes[k].samples
        /\ k # g => shapes'[k].warm = shapes[k].warm
        /\ k = g => shapes'[k].warm = (shapes[k].warm \/ n >= kWarmThreshold)
  BY <1>0, <1>1, <1>3 DEF FaceTypes
<1>7. FaceTypes'
  <2>1. (shapes[g].warm \/ n >= kWarmThreshold) \in BOOLEAN OBVIOUS
  <2>2. shapes' \in [Face!Groups -> [samples : Nat, warm : BOOLEAN]]
    BY <1>0, <1>1, <1>3, <2>1 DEF FaceTypes
  <2> QED BY <1>0, <1>1, <1>2, <2>2 DEF FaceTypes
<1>8. LearnedInv'
  <2> SUFFICES ASSUME NEW k \in Face!Groups \ reset
               PROVE  /\ shapes'[k].warm => learned[k] >= kWarmThreshold
                      /\ shapes'[k].samples <= learned[k]
    BY <1>2 DEF LearnedInv
  <2>1. /\ shapes[k].warm => learned[k] >= kWarmThreshold
        /\ shapes[k].samples <= learned[k]
    BY <1>0 DEF LearnedInv
  <2>2. shapes'[k].samples <= learned[k] BY <1>6, <2>1
  <2>3. CASE k = g BY <1>5, <1>6, <2>1, <2>2, <2>3
  <2>4. CASE k # g BY <1>6, <2>1, <2>2, <2>4
  <2> QED BY <2>3, <2>4
<1> QED BY <1>7, <1>8 DEF FaceInv

\* The other steps leave what was learned alone.
LEMMA FaceOther ==
  ASSUME FaceInv,
         \/ Face!TryRead \/ Face!Snapshot \/ Face!Normalize \/ Face!EyelidSync \/ Face!Publish
         \/ Face!DwellElapses \/ (\E c \in Face!Configs : Face!SetConfig(c))
         \/ UNCHANGED faceVars
  PROVE  FaceInv'
<1>0. FaceTypes /\ LearnedInv BY DEF FaceInv
<1>1. UNCHANGED <<shapes, loaded, learned, reset>>
  BY DEF Face!TryRead, Face!Snapshot, Face!Normalize, Face!EyelidSync, Face!Publish,
         Face!DwellElapses, Face!SetConfig, faceVars
<1>2. frame'.valid \subseteq Face!Groups
  BY <1>0 DEF Face!TryRead, Face!Frames, Face!Snapshot, Face!Normalize, Face!EyelidSync,
     Face!Publish, Face!NoFrame, Face!DwellElapses, Face!SetConfig, faceVars, FaceTypes
<1>3. CASE Face!Snapshot
  <2>1. todo' \subseteq frame.valid /\ at' = "learn" BY <1>3 DEF Face!Snapshot
  <2>2. FaceTypes' BY <1>0, <1>1, <1>2, <2>1 DEF FaceTypes
  <2> QED BY <1>0, <1>1, <2>1, <2>2 DEF FaceInv, LearnedInv
<1>4. CASE ~Face!Snapshot
  <2>1. todo' = todo /\ (at' = at \/ at' \notin {"store", "warm"})
    BY <1>4 DEF Face!TryRead, Face!Normalize, Face!EyelidSync, Face!Publish,
       Face!DwellElapses, Face!SetConfig, faceVars
  <2>2. FaceTypes' BY <1>0, <1>1, <1>2, <2>1 DEF FaceTypes
  <2>3. LearnedInv' BY <1>0, <1>1, <2>1 DEF LearnedInv, InWork, Face!Working, Face!Capped
  <2> QED BY <2>2, <2>3 DEF FaceInv
<1> QED BY <1>3, <1>4

LEMMA NextFace == FaceInv /\ [MCNext]_allVars => FaceInv'
<1> SUFFICES ASSUME FaceInv, [MCNext]_allVars PROVE FaceInv'
  OBVIOUS
<1>1. Face!Next \/ UNCHANGED faceVars BY DEF MCNext, allVars
<1>2. ASSUME NEW groups \in {Face!Groups, {"eye"}, {"expr"}}, Face!Reset(groups) PROVE FaceInv'
  <2>1. groups \subseteq Face!Groups BY DEF Face!Groups
  <2> QED BY <1>2, <2>1, FaceReset
<1> QED BY <1>1, <1>2, FaceUpdate, FaceCount, FaceWarm, FaceOther
        DEF Face!Next, Face!Worker, Face!Ipc

\* A group of shapes that is warm, and so is normalised and shown as ready, was
\* learned from as many samples as the threshold asks for since its last reset,
\* unless the reset fell into the middle of UpdateShape.
THEOREM WarmIsLearnedCorrect == MCSpec => []WarmIsLearned
<1>1. MCInit => FaceInv BY InitFace DEF MCInit
<1>2. FaceInv => WarmIsLearned
  BY DEF FaceInv, LearnedInv, WarmIsLearned, Face!WarmIsLearned
<1> QED BY <1>1, <1>2, NextFace, PTL DEF MCSpec

-----------------------------------------------------------------------------
(* Finger smoothing.                                                       *)

\* The stamps that the bones of hand x may hold.
Current(x) == {epoch[x]} \cup stragglers[x]

\* The record of an UpdateSkeleton call of handle h: it knows its hand and came
\* in with the latest creation of that hand, or was under way then.
CallOf(h) ==
  \/ call[h] = Bones!Idle
  \/ /\ call[h].pc = "header"
     /\ Path[h] \in Bones!Hands => call[h].stamp \in Current(Path[h])
  \/ /\ call[h].pc = "blend" /\ Path[h] \in Bones!Hands /\ call[h].hand = Path[h]
     /\ call[h].stamp \in Current(Path[h])

BoneInv ==
  /\ DOMAIN call = Handles
  /\ handedness \in [Handles -> Bones!Hands \cup {Bones!None}]
  /\ \A h \in Handles : handedness[h] \in {Path[h], Bones!None}
  /\ initialized \in [Bones!Hands -> BOOLEAN]
  /\ DOMAIN previous = Bones!Hands
  /\ DOMAIN epoch = Bones!Hands /\ DOMAIN stragglers = Bones!Hands
  /\ \A h \in Handles : CallOf(h)
  /\ \A x \in Bones!Hands : initialized[x] => previous[x] \subseteq Current(x)

LEMMA InitBones == Bones!Init => BoneInv
BY DEF Bones!Init, BoneInv, CallOf

\* Both hands start over, with no call in progress.
LEMMA BonesRestart == BoneInv /\ (Bones!InitHooks \/ Bones!Shutdown) => BoneInv'
<1> SUFFICES ASSUME BoneInv, Bones!InitHooks \/ Bones!Shutdown PROVE BoneInv'
  OBVIOUS
<1>1. CASE Bones!InitHooks
  <2>1. \A h \in Handles : CallOf(h)'
    BY <1>1 DEF BoneInv, Bones!InitHooks, Bones!hist, CallOf, Current
  <2> QED BY <1>1, <2>1 DEF BoneInv, Bones!InitHooks, Bones!hist
<1>2. CASE Bones!Shutdown
  <2>1. \A h \in Handles : call[h] = Bones!Idle
    BY <1>2 DEF BoneInv, Bones!Shutdown, CallOf
  <2>2. \A h \in Handles : CallOf(h)' BY <1>2, <2>1 DEF Bones!Shutdown, CallOf
  <2> QED BY <1>2, <2>2 DEF BoneInv, Bones!Shutdown
<1> QED BY <1>1, <1>2

\* A hand that is created again blends with nothing; the calls of that hand that
\* are in progress become its stragglers.
LEMMA BonesCreate ==
  ASSUME BoneInv, NEW h \in Handles, Bones!CreateSkeleton(h)
  PROVE  BoneInv'
<1> DEFINE x == Path[h]
<1>1. /\ x \in Bones!Hands
      /\ handedness' = [handedness EXCEPT ![h] = x]
      /\ initialized' = [initialized EXCEPT ![x] = FALSE]
      /\ epoch' = [epoch EXCEPT ![x] = epoch[x] + 1]
      /\ stragglers' = [stragglers EXCEPT ![x] = Bones!InFlight(x)]
      /\ UNCHANGED <<previous, call>>
  BY DEF Bones!CreateSkeleton, Bones!HandOf, Bones!Reseed
<1>2. \A y \in Bones!Hands \ {x} : Current(y)' = Current(y)
  BY <1>1 DEF BoneInv, Current
<1>3. Bones!InFlight(x) \subseteq Current(x)' BY <1>1 DEF BoneInv, Current
<1>4. ASSUME NEW g \in Handles PROVE CallOf(g)'
  <2>1. CallOf(g) BY DEF BoneInv
  <2>2. CASE Path[g] # x BY <1>1, <1>2, <2>1, <2>2 DEF CallOf
  <2>3. CASE Path[g] = x
    <3>1. call[g].pc # "idle" => call[g].stamp \in Bones!InFlight(x)
      BY <2>3 DEF Bones!InFlight, Bones!HandOf
    <3> QED BY <1>1, <1>3, <2>1, <2>3, <3>1 DEF CallOf, Bones!Idle
  <2> QED BY <2>2, <2>3
<1>5. \A y \in Bones!Hands : initialized'[y] => previous'[y] \subseteq Current(y)'
  BY <1>1, <1>2 DEF BoneInv
<1>6. /\ initialized' \in [Bones!Hands -> BOOLEAN]
      /\ handedness' \in [Handles -> Bones!Hands \cup {Bones!None}]
      /\ \A g \in Handles : handedness'[g] \in {Path[g], Bones!None}
  BY <1>1 DEF BoneInv
<1> QED BY <1>1, <1>4, <1>5, <1>6 DEF BoneInv

\* A call begins with the latest creation of its hand, and looks its hand up.
LEMMA BonesCall ==
  ASSUME BoneInv, NEW h \in Handles, Bones!UpdateBegin(h) \/ Bones!UpdateLookup(h)
  PROVE  BoneInv'
<1>1. UNCHANGED <<handedness, initialized, previous, epoch, stragglers>>
  BY DEF Bones!UpdateBegin, Bones!UpdateLookup, Bones!hist
<1>2. \A x : Current(x)' = Current(x) BY <1>1 DEF Current
<1>3. PICK c : call' = [call EXCEPT ![h] = c]
  BY DEF Bones!UpdateBegin, Bones!UpdateLookup
<1>4. \A g \in Handles \ {h} : CallOf(g)' BY <1>2, <1>3 DEF BoneInv, CallOf
<1>5. CallOf(h)'
  <2>1. CASE Bones!UpdateBegin(h)
    <3>1. call'[h] = [pc |-> "header", header |-> header,
             stamp |-> IF Path[h] \in Bones!Hands THEN epoch[Path[h]] ELSE 0]
      BY <2>1 DEF Bones!UpdateBegin, Bones!HandOf, BoneInv
    <3>2. Path[h] \in Bones!Hands => epoch[Path[h]] \in Current(Path[h]) BY DEF Current
    <3> QED BY <1>2, <3>1, <3>2 DEF CallOf
  <2>2. CASE Bones!UpdateLookup(h)
    <3>1. call[h].pc = "header" /\ CallOf(h) BY <2>2 DEF Bones!UpdateLookup, BoneInv
    <3>2. \/ call'[h] = Bones!Idle
          \/ /\ handedness[h] # Bones!None
             /\ \E m : call'[h] = [pc |-> "blend", hand |-> handedness[h],
                                   stamp |-> call[h].stamp, masked |-> m]
      BY <2>2 DEF Bones!UpdateLookup, BoneInv
    <3>3. handedness[h] # Bones!None => handedness[h] = Path[h] /\ Path[h] \in Bones!Hands
      BY DEF BoneInv
    <3>4. Path[h] \in Bones!Hands => call[h].stamp \in Current(Path[h])
      BY <3>1 DEF CallOf, Bones!Idle
    <3>5. CASE call'[h] = Bones!Idle BY <3>5 DEF CallOf, Bones!Idle
    <3>6. CASE call'[h] # Bones!Idle
      <4>1. PICK m : call'[h] = [pc |-> "blend", hand |-> handedness[h],
                                 stamp |-> call[h].stamp, masked |-> m]
        BY <3>2, <3>6
      <4>2. call'[h].pc = "blend" /\ call'[h].hand = Path[h]
            /\ call'[h].stamp = call[h].stamp /\ Path[h] \in Bones!Hands
        BY <3>2, <3>3, <3>6, <4>1
      <4> QED BY <1>2, <3>4, <4>2 DEF CallOf
    <3> QED BY <3>5, <3>6
  <2> QED BY <2>1, <2>2
<1>6. DOMAIN call' = Handles BY <1>3 DEF BoneInv
<1> QED BY <1>1, <1>2, <1>4, <1>5, <1>6 DEF BoneInv

\* What is blended is the frame of the call and, for a hand that is initialised,
\* the frame written before.
LEMMA BonesBlend ==
  ASSUME BoneInv, NEW h \in Handles, Bones!UpdateBlend(h)
  PROVE  BoneInv'
<1> DEFINE x == Path[h]
<1>1. /\ x \in Bones!Hands /\ call[h].hand = x /\ call[h].stamp \in Current(x)
  BY DEF Bones!UpdateBlend, BoneInv, CallOf, Bones!Idle
<1>2. /\ UNCHANGED <<handedness, epoch, stragglers>>
      /\ call' = [call EXCEPT ![h] = Bones!Idle]
      /\ initialized' = [initialized EXCEPT ![x] = TRUE]
  BY <1>1 DEF Bones!UpdateBlend, Bones!hist
<1>3. PICK b : /\ previous' = [previous EXCEPT ![x] = b]
               /\ b \subseteq (IF initialized[x] THEN previous[x] ELSE {}) \cup {call[h].stamp}
  BY <1>1 DEF Bones!UpdateBlend, Bones!Blend
<1>4. b \subseteq Current(x) BY <1>1, <1>3 DEF BoneInv
<1>5. \A y : Current(y)' = Current(y) BY <1>2 DEF Current
<1>6. \A g \in Handles : CallOf(g)' BY <1>2, <1>5 DEF BoneInv, CallOf
<1>7. \A y \in Bones!Hands : initialized'[y] => previous'[y] \subseteq Current(y)'
  BY <1>1, <1>2, <1>3, <1>4, <1>5 DEF BoneInv
<1>8. initialized' \in [Bones!Hands -> BOOLEAN] BY <1>1, <1>2 DEF BoneInv
<1> QED BY <1>2, <1>3, <1>6, <1>7, <1>8 DEF BoneInv

LEMMA NextBones == BoneInv /\ [MCNext]_allVars => BoneInv'
<1> SUFFICES ASSUME BoneInv, [MCNext]_allVars PROVE BoneInv'
  OBVIOUS
<1>1. Bones!Next \/ UNCHANGED boneVars BY DEF MCNext, allVars
<1>2. CASE \/ Bones!TryInstallPublicHooks \/ Bones!SetLow \/ UNCHANGED boneVars
           \/ \E c \in Bones!Configs : Bones!SetHeader(c)
  <2>1. UNCHANGED <<handedness, initialized, previous, call, epoch, stragglers>>
    BY <1>2 DEF Bones!TryInstallPublicHooks, Bones!SetLow, Bones!SetHeader, Bones!hist, boneVars
  <2> QED BY <2>1 DEF BoneInv, CallOf, Current
<1> QED BY <1>1, <1>2, BonesRestart, BonesCreate, BonesCall, BonesBlend DEF Bones!Next

\* What a hand blends with came in after the latest CreateSkeleton of that hand, or
\* with a call that was already under way then, however many handles, creations
\* and configurations there are.
THEOREM NoStaleBlendCorrect == MCSpec => []NoStaleBlend
<1>1. MCInit => BoneInv BY InitBones DEF MCInit
<1>2. BoneInv => NoStaleBlend BY DEF BoneInv, NoStaleBlend, Bones!NoStaleBlend, Current
<1> QED BY <1>1, <1>2, NextBones, PTL DEF MCSpec

-----------------------------------------------------------------------------
(* Prediction smoothing.                                                   *)

\* The slots of the driver: only devices that are present have a value, and the
\* headset never.
SlotsInv ==
  /\ pushed \in [Prediction!Tracked -> {0, 1}] /\ saved \in [Prediction!Tracked -> {0, 1}]
  /\ present \subseteq Prediction!Tracked
  /\ \A d \in Prediction!Tracked : d \notin present \/ Class[d] = "hmd" => pushed[d] = 0

\* The locks the plugin knows are the ones of the running session.
KnownInv ==
  /\ vr => server
  /\ phase = "off" => ~vr
  /\ phase # "off" /\ ~vr => known = {}
  /\ phase = "locks" /\ vr /\ conn => known = Prediction!SavedLocks

\* On an open pipe, a lock that is known was cleared in the driver.
ClearedInv ==
  vr /\ conn => \A d \in known \cap locked \cap present : saved[d] = 1 => pushed[d] = 0

PredictionInv == SlotsInv /\ KnownInv /\ ClearedInv

LEMMA InitPrediction == Prediction!Init => PredictionInv
BY DEF Prediction!Init, PredictionInv, SlotsInv, KnownInv, ClearedInv

\* A run of sends reaches some of the devices; when the pipe is open afterwards it
\* was open before and all of them were reached.
LEMMA SendReaches ==
  ASSUME NEW w, NEW ds, NEW value
  PROVE  LET r == Prediction!SendDevicePrediction(w, ds, value) IN
         \E sent \in SUBSET ds :
            /\ r.pushed = [d \in Prediction!Tracked |-> IF d \in sent THEN value[d] ELSE w.pushed[d]]
            /\ r.conn => w.conn /\ sent = ds
<1> DEFINE sent == {d \in ds : /\ w.conn /\ server
                               /\ Prediction!Cardinality({e \in ds : e < d}) < w.left}
           r == Prediction!SendDevicePrediction(w, ds, value)
<1>1. r = [pushed |-> Prediction!SetDevicePrediction(w.pushed, sent, value),
           conn   |-> w.conn /\ sent = ds,
           left   |-> w.left - Prediction!Cardinality(sent)]
  BY DEF Prediction!SendDevicePrediction
<1>3. sent \in SUBSET ds OBVIOUS
<1> HIDE DEF sent
<1>2. /\ r.pushed = Prediction!SetDevicePrediction(w.pushed, sent, value)
      /\ r.conn = (w.conn /\ sent = ds)
  <2> HIDE DEF r
  <2> QED BY <1>1
<1>4. /\ r.pushed = [d \in Prediction!Tracked |-> IF d \in sent THEN value[d] ELSE w.pushed[d]]
      /\ r.conn => w.conn /\ sent = ds
  BY <1>2 DEF Prediction!SetDevicePrediction
<1> HIDE DEF r
<1>5. \E s \in SUBSET ds :
         /\ r.pushed = [d \in Prediction!Tracked |-> IF d \in s THEN value[d] ELSE w.pushed[d]]
         /\ r.conn => w.conn /\ s = ds
  BY <1>3, <1>4
<1> QED BY <1>5 DEF r

\* A replay gives no value to the headset, to a device that is absent or to one that
\* is locked, and takes the value of a locked device when it gets to its end.
LEMMA ReplayIsRaw ==
  ASSUME SlotsInv, NEW w, w.pushed = pushed,
         Prediction!Settle(Prediction!ReplayDevicePredictions(w)),
         UNCHANGED <<present, saved>>
  PROVE  /\ SlotsInv'
         /\ \A d \in locked \cap present : pushed[d] = 0 => pushed'[d] = 0
         /\ conn' => w.conn
         /\ conn' /\ vr => \A d \in locked \cap present : saved[d] = 1 => pushed'[d] = 0
<1> DEFINE ds == IF vr THEN {d \in present : saved[d] = 1} ELSE {}
           r == Prediction!SendDevicePrediction(w, ds, Prediction!Replayed)
<1>0. pushed' = r.pushed /\ conn' = r.conn
  BY DEF Prediction!Settle, Prediction!ReplayDevicePredictions
<1>1. PICK sent \in SUBSET ds :
        /\ pushed' = [d \in Prediction!Tracked |->
                        IF d \in sent THEN Prediction!Replayed[d] ELSE pushed[d]]
        /\ conn' => w.conn /\ sent = ds
  <2>1. \E sent \in SUBSET ds :
          /\ r.pushed = [d \in Prediction!Tracked |->
                           IF d \in sent THEN Prediction!Replayed[d] ELSE w.pushed[d]]
          /\ r.conn => w.conn /\ sent = ds
    <3> HIDE DEF ds
    <3> QED BY SendReaches
  <2> HIDE DEF r, ds
  <2> QED BY <1>0, <2>1
<1>2. \A d \in Prediction!Tracked :
        /\ Prediction!Replayed[d] \in {0, 1}
        /\ d \in locked \/ Class[d] = "hmd" => Prediction!Replayed[d] = 0
  BY DEF Prediction!Replayed, SlotsInv
<1>3. ds \subseteq present OBVIOUS
<1>4. SlotsInv' BY <1>1, <1>2, <1>3 DEF SlotsInv
<1>5. \A d \in locked \cap present : pushed[d] = 0 => pushed'[d] = 0
  BY <1>1, <1>2 DEF SlotsInv
<1>6. conn' /\ vr => \A d \in locked \cap present : saved[d] = 1 => pushed'[d] = 0
  BY <1>1, <1>2 DEF SlotsInv
<1> QED BY <1>1, <1>4, <1>5, <1>6

\* Sending zeros to devices that are present.
LEMMA ZerosAreRaw ==
  ASSUME SlotsInv, NEW w, w.pushed = pushed, NEW ds \in SUBSET present
  PROVE  LET r == Prediction!SendDevicePrediction(w, ds, Prediction!Zero) IN
         /\ r.pushed \in [Prediction!Tracked -> {0, 1}]
         /\ \A d \in Prediction!Tracked : pushed[d] = 0 => r.pushed[d] = 0
         /\ r.conn => w.conn /\ \A d \in ds : r.pushed[d] = 0
<1> DEFINE r == Prediction!SendDevicePrediction(w, ds, Prediction!Zero)
<1>1. PICK sent \in SUBSET ds :
        /\ r.pushed = [d \in Prediction!Tracked |->
                         IF d \in sent THEN Prediction!Zero[d] ELSE pushed[d]]
        /\ r.conn => w.conn /\ sent = ds
  BY SendReaches
<1>2. \A d \in Prediction!Tracked : Prediction!Zero[d] = 0 BY DEF Prediction!Zero
<1> HIDE DEF r
<1>3. /\ r.pushed \in [Prediction!Tracked -> {0, 1}]
      /\ \A d \in Prediction!Tracked : pushed[d] = 0 => r.pushed[d] = 0
      /\ r.conn => w.conn /\ \A d \in ds : r.pushed[d] = 0
  BY <1>1, <1>2 DEF SlotsInv
<1> QED BY <1>3 DEF r

\* SteamVR and the overlay come and go; a device appears with an empty slot.
LEMMA PredictionSession ==
  ASSUME PredictionInv,
         \/ Prediction!ServerStart \/ Prediction!ServerQuit \/ Prediction!OnStart
         \/ Prediction!OverlayQuit \/ (\E n \in Prediction!Tracked : Prediction!CrashInSave(n))
         \/ (\E d \in Prediction!Tracked : Prediction!Appear(d))
  PROVE  PredictionInv'
<1>0. SlotsInv /\ KnownInv /\ ClearedInv BY DEF PredictionInv
<1>1. CASE Prediction!ServerStart
  BY <1>0, <1>1 DEF Prediction!ServerStart, Prediction!overlay, PredictionInv, SlotsInv, KnownInv,
     ClearedInv, Prediction!SavedLocks
<1>2. CASE Prediction!ServerQuit
  BY <1>0, <1>2 DEF Prediction!ServerQuit, PredictionInv, SlotsInv, KnownInv, ClearedInv
<1>3. CASE Prediction!OnStart \/ Prediction!OverlayQuit
  BY <1>0, <1>3 DEF Prediction!OnStart, Prediction!OverlayQuit, PredictionInv, SlotsInv, KnownInv,
     ClearedInv
<1>4. ASSUME NEW n \in Prediction!Tracked, Prediction!CrashInSave(n) PROVE PredictionInv'
  <2>1. Prediction!Truncated(n) \in [Prediction!Tracked -> {0, 1}]
    BY <1>0 DEF SlotsInv, Prediction!Truncated
  <2> QED BY <1>0, <1>4, <2>1 DEF Prediction!CrashInSave, PredictionInv, SlotsInv, KnownInv, ClearedInv
<1>5. ASSUME NEW d \in Prediction!Tracked, Prediction!Appear(d) PROVE PredictionInv'
  BY <1>0, <1>5 DEF Prediction!Appear, Prediction!overlay, PredictionInv, SlotsInv, KnownInv,
     ClearedInv, Prediction!SavedLocks
<1> QED BY <1>1, <1>2, <1>3, <1>4, <1>5

\* The replays: on a new connection, for a new list of devices, and for the toggle.
LEMMA PredictionReplay ==
  ASSUME PredictionInv, NEW cut,
         \/ Prediction!TickConnect(cut) \/ Prediction!SmartToggle(cut)
         \/ \E due \in BOOLEAN : Prediction!TickPredictionRestore(cut, due)
  PROVE  PredictionInv'
<1>0. SlotsInv /\ KnownInv /\ ClearedInv BY DEF PredictionInv
<1>1. /\ UNCHANGED <<server, present, vr, saved, locked, known>>
      /\ phase # "off" /\ phase' \notin {"off", "locks"}
  BY DEF Prediction!TickConnect, Prediction!SmartToggle, Prediction!TickPredictionRestore
<1>2. KnownInv' BY <1>0, <1>1 DEF KnownInv
<1>3. CASE UNCHANGED <<pushed, conn>>
  BY <1>0, <1>1, <1>2, <1>3 DEF PredictionInv, SlotsInv, ClearedInv
<1>4. ASSUME NEW w, w.pushed = pushed, w.conn => conn \/ Prediction!TickConnect(cut),
             Prediction!Settle(Prediction!ReplayDevicePredictions(w))
      PROVE  PredictionInv'
  <2>1. /\ SlotsInv'
        /\ conn' /\ vr => \A d \in locked \cap present : saved[d] = 1 => pushed'[d] = 0
    BY <1>0, <1>1, <1>4, ReplayIsRaw
  <2>2. ClearedInv' BY <1>1, <2>1 DEF ClearedInv
  <2> QED BY <1>2, <2>1, <2>2 DEF PredictionInv
<1>5. (Prediction!Wire(cut)).pushed = pushed
      /\ [Prediction!Wire(cut) EXCEPT !.conn = TRUE].pushed = pushed
  BY DEF Prediction!Wire
<1>6. (Prediction!Wire(cut)).conn = conn BY DEF Prediction!Wire
<1>7. CASE Prediction!TickConnect(cut)
  BY <1>3, <1>4, <1>5, <1>7 DEF Prediction!TickConnect
<1>8. CASE Prediction!SmartToggle(cut) \/ \E due \in BOOLEAN : Prediction!TickPredictionRestore(cut, due)
  BY <1>3, <1>4, <1>5, <1>6, <1>8 DEF Prediction!SmartToggle, Prediction!TickPredictionRestore
<1> QED BY <1>7, <1>8

\* TickCalibrationLockClear clears the locks that are new.
LEMMA PredictionClear ==
  ASSUME PredictionInv, NEW cut, Prediction!TickCalibrationLockClear(cut)
  PROVE  PredictionInv'
<1>0. SlotsInv /\ KnownInv /\ ClearedInv BY DEF PredictionInv
<1>1. /\ phase = "clear" /\ phase' = "locks" /\ known' = Prediction!NextLocks
      /\ UNCHANGED <<server, present, vr, saved, locked>>
  BY DEF Prediction!TickCalibrationLockClear
<1> DEFINE ds == (Prediction!SavedLocks \ known) \cap present
           w == Prediction!Wire(cut)
           r == Prediction!SendDevicePrediction(w, ds, Prediction!Zero)
<1>2. w.pushed = pushed /\ w.conn = conn BY DEF Prediction!Wire
<1>3. /\ r.pushed \in [Prediction!Tracked -> {0, 1}]
      /\ \A d \in Prediction!Tracked : pushed[d] = 0 => r.pushed[d] = 0
      /\ r.conn => conn /\ \A d \in ds : r.pushed[d] = 0
  <2>1. ds \in SUBSET present OBVIOUS
  <2> HIDE DEF ds, w
  <2>2. /\ r.pushed \in [Prediction!Tracked -> {0, 1}]
        /\ \A d \in Prediction!Tracked : pushed[d] = 0 => r.pushed[d] = 0
        /\ r.conn => w.conn /\ \A d \in ds : r.pushed[d] = 0
    BY <1>0, <1>2, <2>1, ZerosAreRaw
  <2> QED BY <1>2, <2>2
<1>4. IF vr THEN pushed' = r.pushed /\ conn' = r.conn ELSE UNCHANGED <<pushed, conn>>
  BY DEF Prediction!TickCalibrationLockClear, Prediction!Settle
<1> HIDE DEF r, w
<1>5. CASE ~vr
  <2>1. known' = known BY <1>1, <1>5 DEF Prediction!NextLocks
  <2> QED BY <1>0, <1>1, <1>4, <1>5, <2>1 DEF PredictionInv, SlotsInv, KnownInv, ClearedInv
<1>6. CASE vr
  <2>1. SlotsInv' BY <1>0, <1>1, <1>3, <1>4, <1>6 DEF SlotsInv
  <2>2. conn' => conn /\ known' = Prediction!SavedLocks
    BY <1>1, <1>3, <1>4, <1>6 DEF Prediction!NextLocks
  <2>3. KnownInv' BY <1>0, <1>1, <1>6, <2>2 DEF KnownInv, Prediction!SavedLocks
  <2>4. ClearedInv'
    <3> SUFFICES ASSUME conn', NEW d \in Prediction!SavedLocks \cap present
                 PROVE  pushed'[d] = 0
      BY <1>1, <2>2 DEF ClearedInv
    <3>1. d \in locked /\ saved[d] = 1 /\ d \in Prediction!Tracked
      BY <1>0 DEF Prediction!SavedLocks, SlotsInv
    <3>2. CASE d \in known BY <1>0, <1>3, <1>4, <1>6, <2>2, <3>1, <3>2 DEF ClearedInv
    <3>3. CASE d \notin known BY <1>3, <1>4, <1>6, <3>3
    <3> QED BY <3>2, <3>3
  <2> QED BY <2>1, <2>3, <2>4 DEF PredictionInv
<1> QED BY <1>5, <1>6

\* New locks are not known yet: they wait for the next Tick.
LEMMA PredictionLocks ==
  ASSUME PredictionInv, NEW locks, Prediction!CalibrationTick(locks)
  PROVE  PredictionInv'
<1>0. SlotsInv /\ KnownInv /\ ClearedInv BY DEF PredictionInv
<1>1. /\ phase = "locks" /\ phase' = "draw" /\ (vr' <=> vr \/ server)
      /\ UNCHANGED <<server, present, pushed, conn, saved, known>>
  BY DEF Prediction!CalibrationTick
<1>2. SlotsInv' /\ KnownInv' BY <1>0, <1>1 DEF SlotsInv, KnownInv
<1>3. vr' /\ conn => \A d \in known \cap present : saved[d] = 1 => pushed[d] = 0
  BY <1>0, <1>1 DEF KnownInv, ClearedInv, Prediction!SavedLocks
<1> QED BY <1>1, <1>2, <1>3 DEF PredictionInv, ClearedInv

\* Drawing the tab takes the values of hidden devices back, then sends the slider's
\* value, which is offered for no locked device.
LEMMA PredictionDraw ==
  ASSUME PredictionInv, NEW cut, NEW d \in Prediction!Tracked, NEW v \in {0, 1},
         Prediction!DrawPredictionTab(cut, d, v)
  PROVE  PredictionInv'
<1>0. SlotsInv /\ KnownInv /\ ClearedInv BY DEF PredictionInv
<1> DEFINE swept == {e \in Prediction!Tracked : Prediction!Swept(e)}
           slid == Prediction!ShouldShow(d) /\ Class[d] # "hmd" /\ d \notin locked /\ d \in present
           w == Prediction!Wire(cut)
           w0 == Prediction!SendDevicePrediction(w, swept, Prediction!Zero)
           w1 == Prediction!SendDevicePrediction(w0, {d}, saved')
<1>1. /\ phase = "draw" /\ phase' = "tick" /\ vr
      /\ UNCHANGED <<server, present, vr, locked, known>>
      /\ saved' = [e \in Prediction!Tracked |->
                     IF e = d /\ slid THEN v ELSE IF Prediction!Swept(e) THEN 0 ELSE saved[e]]
      /\ IF slid THEN pushed' = w1.pushed /\ conn' = w1.conn
                 ELSE pushed' = w0.pushed /\ conn' = w0.conn
  BY DEF Prediction!DrawPredictionTab, Prediction!Settle
<1>2. w.pushed = pushed /\ w.conn = conn BY DEF Prediction!Wire
<1>3. /\ w0.pushed \in [Prediction!Tracked -> {0, 1}]
      /\ \A e \in Prediction!Tracked : pushed[e] = 0 => w0.pushed[e] = 0
      /\ w0.conn => conn
  <2>1. swept \in SUBSET present BY DEF Prediction!Swept
  <2> HIDE DEF swept, w
  <2>2. /\ w0.pushed \in [Prediction!Tracked -> {0, 1}]
        /\ \A e \in Prediction!Tracked : pushed[e] = 0 => w0.pushed[e] = 0
        /\ w0.conn => w.conn /\ \A e \in swept : w0.pushed[e] = 0
    BY <1>0, <1>2, <2>1, ZerosAreRaw
  <2> QED BY <1>2, <2>2
<1> HIDE DEF w0
<1>4. PICK sent \in SUBSET {d} :
        /\ w1.pushed = [e \in Prediction!Tracked |-> IF e \in sent THEN saved'[e] ELSE w0.pushed[e]]
        /\ w1.conn => w0.conn
  BY SendReaches
<1> HIDE DEF w1
<1>5. saved' \in [Prediction!Tracked -> {0, 1}] BY <1>0, <1>1 DEF SlotsInv
<1>6. /\ pushed' \in [Prediction!Tracked -> {0, 1}] /\ (conn' => conn)
      /\ \A e \in Prediction!Tracked : pushed[e] = 0 /\ ~(e = d /\ slid) => pushed'[e] = 0
  BY <1>1, <1>3, <1>4, <1>5
<1>7. \A e \in Prediction!Tracked : ~(e = d /\ slid) /\ saved'[e] = 1 => saved[e] = 1
  BY <1>1
<1>8. SlotsInv' BY <1>0, <1>1, <1>5, <1>6 DEF SlotsInv
<1>9. KnownInv' BY <1>0, <1>1 DEF KnownInv
<1>10. ClearedInv' BY <1>0, <1>1, <1>6, <1>7 DEF ClearedInv, SlotsInv
<1> QED BY <1>8, <1>9, <1>10 DEF PredictionInv

LEMMA NextPrediction == PredictionInv /\ [MCNext]_allVars => PredictionInv'
<1> SUFFICES ASSUME PredictionInv, [MCNext]_allVars PROVE PredictionInv'
  OBVIOUS
<1>1. Prediction!Next \/ UNCHANGED predictionVars BY DEF MCNext, allVars
<1>2. CASE UNCHANGED predictionVars
  BY <1>2 DEF predictionVars, PredictionInv, SlotsInv, KnownInv, ClearedInv, Prediction!SavedLocks
<1>3. CASE Prediction!DrawNothing
  BY <1>3 DEF Prediction!DrawNothing, PredictionInv, SlotsInv, KnownInv, ClearedInv
<1> QED BY <1>1, <1>2, <1>3, PredictionSession, PredictionReplay, PredictionClear,
           PredictionLocks, PredictionDraw DEF Prediction!Next

\* Once the plugin's Tick has run on an open pipe, the driver smooths neither the
\* headset nor a locked device with a saved value, whatever was sent, lost or
\* replayed before, for any devices and any number of starts, faults and edits.
THEOREM LockedIsRawCorrect == MCSpec => []LockedIsRaw
<1>1. MCInit => PredictionInv BY InitPrediction DEF MCInit
<1>2. PredictionInv => LockedIsRaw
  BY DEF PredictionInv, SlotsInv, KnownInv, ClearedInv, LockedIsRaw, Prediction!LockedIsRaw,
     Prediction!SavedLocks, Prediction!Smoothed
<1> QED BY <1>1, <1>2, NextPrediction, PTL DEF MCSpec
=============================================================================
