-------------------------- MODULE CalibrationProofs --------------------------
(***************************************************************************)
(* The calibration tick, for any number of anchors and base stations and   *)
(* every size of a buffer, count or threshold: no solve uses a sample from *)
(* before an outage (CalibrationMachine), and the recovery and the yaw     *)
(* nudge act on what they compare with (CalibrationDrift).                 *)
(***************************************************************************)
EXTENDS MCCalibration, TLAPS

(* The samples of a solve.                                                 *)

Fresh(seq) == seq \in Seq({"own"})

\* An estimate and a filter that know no sample of before an outage.
Estimates == [valid : BOOLEAN, rejections : Nat, src : SUBSET {"own"}, filter : SUBSET {"own"}]

\* Old samples are in the buffer only while an anchor is remembered as offline, and never
\* in a one-shot run or in the part of a tick behind the gate, which only a continuous
\* calibration reaches.
BufferInv ==
  /\ samples \in Seq(Kind)
  /\ Fresh(samples) \/ \E a \in Anchors : wasOffline[a]
  /\ state \in {"Begin", "Rotation", "Translation"} => Fresh(samples)
  /\ pc \in {"collect", "solve", "publish"} => Fresh(samples)
  /\ pc = "gate" => state = "Continuous"

FreshInv == BufferInv /\ Fresh(frozen) /\ calc \in Estimates

LEMMA EmptyIsFresh == Fresh(<< >>) /\ << >> \in Seq(Kind)
BY DEF Fresh

LEMMA FreshIsKind == ASSUME NEW s, Fresh(s) PROVE s \in Seq(Kind)
BY DEF Fresh, Kind

LEMMA FreshKinds == ASSUME NEW s, Fresh(s) PROVE ToSet(s) \subseteq {"own"}
BY DEF Fresh, ToSet

LEMMA FreshTail == ASSUME NEW s, Fresh(s), s # << >> PROVE Fresh(Tail(s))
BY DEF Fresh

LEMMA ClearedIsFresh == Cleared \in Estimates
BY DEF Cleared, Estimates

\* Clear empties the buffers and drops the estimate.
LEMMA ClearRefreshes ==
  ASSUME Clear, pc' # "gate" \/ state' = "Continuous"
  PROVE  FreshInv'
BY EmptyIsFresh, ClearedIsFresh DEF Clear, FreshInv, BufferInv, Fresh

LEMMA InitFresh == Init => FreshInv
BY EmptyIsFresh, ClearedIsFresh DEF Init, FreshInv, BufferInv, Fresh

\* Steps that leave the buffers and the estimate alone.
LEMMA FreshKeeps ==
  ASSUME FreshInv, UNCHANGED <<calcVars, liveVars>>,
         pc' = "gate" => state' = "Continuous",
         pc' \in {"collect", "solve", "publish"}
           => pc \in {"collect", "solve", "publish"}
              \/ state \in {"Begin", "Rotation", "Translation"},
         state' \in {"Begin", "Rotation", "Translation"}
           => state \in {"Begin", "Rotation", "Translation"}
  PROVE  FreshInv'
BY DEF FreshInv, BufferInv, Fresh, calcVars, liveVars

LEMMA FreshUserInterface == FreshInv /\ UserInterface => FreshInv'
<1> SUFFICES ASSUME FreshInv, UserInterface PROVE FreshInv'
  OBVIOUS
<1>1. CASE StartCalibration BY <1>1, ClearRefreshes DEF StartCalibration
<1>2. CASE StartContinuous
  BY <1>2, ClearRefreshes DEF StartContinuous, StartContinuousCalibration
<1>3. CASE EndContinuousCalibration \/ EditCalibration \/ SaveEdit \/ ClearCalibration
           \/ SelectDevices
  BY <1>3, FreshKeeps DEF EndContinuousCalibration, EditCalibration, SaveEdit, ClearCalibration,
     SelectDevices
<1> QED BY <1>1, <1>2, <1>3 DEF UserInterface

\* The phases before the gate.
LEMMA FreshTickStarts ==
  FreshInv /\ (TickBegins \/ TickRecovers \/ Watchdog \/ HmdStalled \/ Moving) => FreshInv'
<1> SUFFICES ASSUME FreshInv, TickBegins \/ TickRecovers \/ Watchdog \/ HmdStalled \/ Moving
             PROVE  FreshInv'
  OBVIOUS
<1>1. CASE TickRecovers
  BY <1>1, ClearRefreshes DEF TickRecovers, StartContinuousCalibration
<1>2. CASE GeometryShiftFires BY <1>2, ClearRefreshes DEF GeometryShiftFires
<1>3. CASE StandbyStarts
  BY <1>3, ClearRefreshes DEF StandbyStarts, StartContinuousCalibration
<1>4. CASE TickBegins \/ GeometryShiftQuiet \/ GeometryShiftCounts \/ HmdStalled
  BY <1>4, FreshKeeps DEF TickBegins, GeometryShiftQuiet, GeometryShiftCounts, HmdStalled
<1>5. CASE TickRests \/ StandbyWaits \/ BeginStep \/ MissingDevice \/ DevicesAssigned
  BY <1>5, FreshKeeps DEF TickRests, StandbyWaits, BeginStep, MissingDevice, DevicesAssigned
<1> QED BY <1>1, <1>2, <1>3, <1>4, <1>5 DEF Watchdog, Moving

\* The gate: samples age with an outage, and a tick passes only when no anchor is
\* remembered as offline, so that its samples are fresh.
LEMMA FreshGate == FreshInv /\ Gate => FreshInv'
<1> SUFFICES ASSUME FreshInv, Gate PROVE FreshInv'
  OBVIOUS
<1>0. BufferInv /\ Fresh(frozen) /\ calc \in Estimates BY DEF FreshInv
<1>1. CASE AnchorReturns
  BY <1>1, ClearRefreshes DEF AnchorReturns, StartContinuousCalibration
<1>2. CASE AnchorOffline
  <2>1. PICK poses \in Observed, hmdMoves \in BOOLEAN :
          LET next == Liveness(poses, hmdMoves) IN
          /\ SkipsTick(next)
          /\ wasOffline' = [a \in Anchors |-> next[a].offline]
          /\ samples' = Labelled(next)
    BY <1>2 DEF AnchorOffline
  <2> DEFINE next == Liveness(poses, hmdMoves)
  <2>2. PICK a \in Anchors : next[a].offline BY <2>1 DEF SkipsTick
  <2>3. wasOffline'[a] BY <2>1, <2>2
  <2>4. samples' = Aged(samples) BY <2>1, <2>2 DEF Labelled
  <2>5. samples' \in Seq(Kind) BY <1>0, <2>4 DEF Aged, BufferInv, Kind
  <2>6. pc = "gate" /\ pc' = "idle" /\ UNCHANGED <<state, frozen, calc>>
    BY <1>2 DEF AnchorOffline
  <2>7. BufferInv' BY <1>0, <2>3, <2>5, <2>6 DEF BufferInv
  <2> QED BY <1>0, <2>6, <2>7 DEF FreshInv, Fresh
<1>3. CASE AnchorsOnline
  <2>1. PICK poses \in Observed, hmdMoves \in BOOLEAN :
          LET next == Liveness(poses, hmdMoves) IN
          ~SkipsTick(next) /\ ~AnchorReturned(next) /\ samples' = Labelled(next)
    BY <1>3 DEF AnchorsOnline
  <2>2. samples' = samples BY <2>1 DEF SkipsTick, Labelled
  <2>3. \A a \in Anchors : ~wasOffline[a] BY <2>1 DEF SkipsTick, AnchorReturned
  <2>4. Fresh(samples) BY <1>0, <2>3 DEF BufferInv
  <2>5. pc' = "collect" /\ UNCHANGED <<frozen, calc>> BY <1>3 DEF AnchorsOnline
  <2>6. BufferInv' BY <2>2, <2>4, <2>5, FreshIsKind DEF BufferInv
  <2> QED BY <1>0, <2>5, <2>6 DEF FreshInv, Fresh
<1> QED BY <1>1, <1>2, <1>3 DEF Gate

\* Samples of the part behind the gate are pushed, trimmed and dropped as fresh ones.
LEMMA PushedIsFresh ==
  ASSUME Fresh(samples), NEW s \in Pushed
  PROVE  /\ Fresh(s) /\ Fresh(Trimmed(s))
         /\ Len(s) >= SampleCount => Trimmed(s) # << >> /\ Fresh(Tail(Trimmed(s)))
<1>1. Fresh(s) BY DEF Pushed, Fresh
<1>2. SampleCount \in Nat \ {0} BY CalibrationAssumption
<1>3. Fresh(Trimmed(s)) BY <1>1, <1>2 DEF Trimmed, Fresh
<1>4. Len(s) >= SampleCount => Len(Trimmed(s)) > 0 BY <1>1, <1>2 DEF Trimmed, Fresh
<1>5. Len(s) >= SampleCount => Trimmed(s) # << >> BY <1>4
<1> QED BY <1>1, <1>3, <1>5, FreshTail

\* Steps behind the gate that leave a fresh buffer behind.
LEMMA FreshBehind ==
  ASSUME FreshInv, Fresh(samples'), Fresh(frozen'), calc' \in Estimates, pc' # "gate"
  PROVE  FreshInv'
<1>1. BufferInv' BY FreshIsKind DEF BufferInv, Fresh
<1> QED BY <1>1 DEF FreshInv, Fresh

LEMMA FreshCollect == FreshInv /\ Collect => FreshInv'
<1> SUFFICES ASSUME FreshInv, Collect PROVE FreshInv'
  OBVIOUS
<1>0. BufferInv /\ Fresh(frozen) /\ calc \in Estimates BY DEF FreshInv
<1>1. /\ pc = "collect" /\ pc' # "gate" /\ UNCHANGED calc
  BY DEF Collect, CollectAborts, CollectFills, CollectRolls, WaitsForTriggers, RotationDone,
     CollectReady, calcVars
<1>2. Fresh(samples) BY <1>0, <1>1 DEF BufferInv
<1>3. CASE CollectAborts
  <2>1. UNCHANGED <<samples, frozen>> BY <1>3 DEF CollectAborts, calcVars
  <2> QED BY <1>0, <1>1, <1>2, <2>1, FreshBehind
<1>4. CASE RotationDone
  <2>1. PICK s \in Pushed : frozen' = Trimmed(s) BY <1>4 DEF RotationDone
  <2>2. samples' = << >> BY <1>4 DEF RotationDone
  <2> QED BY <1>0, <1>1, <1>2, <2>1, <2>2, PushedIsFresh, EmptyIsFresh, FreshBehind
<1>5. CASE CollectFills \/ CollectRolls \/ WaitsForTriggers \/ CollectReady
  <2>1. PICK s \in Pushed : \/ samples' \in {s, Trimmed(s)}
                            \/ Len(s) >= SampleCount /\ samples' = Tail(Trimmed(s))
    BY <1>5 DEF CollectFills, CollectRolls, WaitsForTriggers, CollectReady
  <2>2. UNCHANGED frozen
    BY <1>5 DEF CollectFills, CollectRolls, WaitsForTriggers, CollectReady
  <2> QED BY <1>0, <1>1, <1>2, <2>1, <2>2, PushedIsFresh, FreshBehind
<1> QED BY <1>3, <1>4, <1>5 DEF Collect

\* A fit over a fresh buffer is made of fresh samples, whichever solver makes it.
LEMMA FitIsFresh ==
  ASSUME NEW s, Fresh(s), NEW c \in ComputeCalibration(s)
  PROVE  c.src \subseteq {"own"}
<1>1. PICK r \in CalibrateRotation(s) : \E t \in CalibrateTranslation(s) :
        c = [turns |-> r.src # {}, ok |-> r.ok /\ t.ok, src |-> r.src \cup t.src]
  BY DEF ComputeCalibration
<1>2. PICK t \in CalibrateTranslation(s) :
        c = [turns |-> r.src # {}, ok |-> r.ok /\ t.ok, src |-> r.src \cup t.src]
  BY <1>1
<1>3. r.src \subseteq ToSet(s)
  BY DEF CalibrateRotation, Inliers
<1>4. t.src \subseteq ToSet(s)
  <2>1. CASE t \in CalibrateTranslationUpstream(s)
    BY <2>1 DEF CalibrateTranslationUpstream, NoTranslation
  <2>2. CASE t \in SolveDirect(s) \/ t \in CalibrateTranslationLegacyPairwise(s)
    BY <2>2 DEF SolveDirect, CalibrateTranslationLegacyPairwise, NoTranslation
  <2> QED BY <2>1, <2>2 DEF CalibrateTranslation
<1>5. c.src = r.src \cup t.src BY <1>2
<1> QED BY <1>3, <1>4, <1>5, FreshKinds

LEMMA FreshSolve == FreshInv /\ Solve => FreshInv'
<1> SUFFICES ASSUME FreshInv, Solve PROVE FreshInv'
  OBVIOUS
<1>0. BufferInv /\ Fresh(frozen) /\ calc \in Estimates BY DEF FreshInv
<1>1. pc = "solve" /\ pc' = "publish"
  BY DEF Solve, ComputeOneshot, LockedAccepts, IncrementalAccepts, RapidCorrects,
     IncrementalRejects, StuckLoopClears, SolveSkipped
<1>2. Fresh(samples) BY <1>0, <1>1 DEF BufferInv
<1>3. CASE StuckLoopClears BY <1>1, <1>3, ClearRefreshes DEF StuckLoopClears
<1>4. CASE ComputeOneshot
  <2>1. Fresh(frozen \o samples) BY <1>0, <1>2 DEF Fresh
  <2>2. PICK c \in ComputeCalibration(frozen \o samples) :
          calc' = IF c.turns THEN [calc EXCEPT !.valid = TRUE, !.src = c.src] ELSE calc
    BY <1>4 DEF ComputeOneshot
  <2>3. c.src \subseteq {"own"} BY <2>1, <2>2, FitIsFresh
  <2>4. [calc EXCEPT !.valid = TRUE, !.src = c.src] \in Estimates BY <1>0, <2>3 DEF Estimates
  <2>5. calc' \in Estimates BY <1>0, <2>2, <2>4
  <2>6. UNCHANGED <<samples, frozen>> BY <1>4 DEF ComputeOneshot
  <2> QED BY <1>0, <1>1, <1>2, <2>5, <2>6, FreshBehind
<1>5. CASE LockedAccepts \/ RapidCorrects
  <2> DEFINE avg == AverageFor(samples)
  <2>1. avg \subseteq {"own"} BY <1>2, FreshKinds DEF AverageFor
  <2>2. \/ calc' = [calc EXCEPT !.valid = TRUE, !.src = avg]
        \/ calc' = [calc EXCEPT !.valid = TRUE, !.rejections = 0, !.src = avg]
    BY <1>5 DEF LockedAccepts, RapidCorrects
  <2> HIDE DEF avg
  <2>3. calc' \in Estimates
    <3>1. CASE calc' = [calc EXCEPT !.valid = TRUE, !.src = avg]
      BY <1>0, <2>1, <3>1 DEF Estimates
    <3>2. CASE calc' = [calc EXCEPT !.valid = TRUE, !.rejections = 0, !.src = avg]
      BY <1>0, <2>1, <3>2 DEF Estimates
    <3> QED BY <2>2, <3>1, <3>2
  <2>4. UNCHANGED <<samples, frozen>> BY <1>5 DEF LockedAccepts, RapidCorrects
  <2> QED BY <1>0, <1>1, <1>2, <2>3, <2>4, FreshBehind
<1>6. CASE IncrementalAccepts
  <2>1. PICK c \in ComputeCalibration(samples) :
          \E e \in (IF calc.valid THEN Blended(c.src) ELSE Seeded(c.src)) :
             calc' = [valid |-> TRUE, rejections |-> 0, src |-> e.src, filter |-> e.filter]
    BY <1>6 DEF IncrementalAccepts
  <2>2. PICK e \in (IF calc.valid THEN Blended(c.src) ELSE Seeded(c.src)) :
          calc' = [valid |-> TRUE, rejections |-> 0, src |-> e.src, filter |-> e.filter]
    BY <2>1
  <2>3. c.src \subseteq {"own"} BY <1>2, <2>1, FitIsFresh
  <2>4. calc.src \subseteq {"own"} /\ calc.filter \subseteq {"own"} BY <1>0 DEF Estimates
  <2>5. e.src \subseteq {"own"} /\ e.filter \subseteq {"own"}
    <3>1. CASE e \in Blended(c.src) BY <2>3, <2>4, <3>1 DEF Blended
    <3>2. CASE e \in Seeded(c.src) BY <2>3, <2>4, <3>2 DEF Seeded
    <3> QED BY <2>2, <3>1, <3>2
  <2>6. calc' \in Estimates BY <2>2, <2>5 DEF Estimates
  <2>7. UNCHANGED <<samples, frozen>> BY <1>6 DEF IncrementalAccepts
  <2> QED BY <1>0, <1>1, <1>2, <2>6, <2>7, FreshBehind
<1>7. CASE IncrementalRejects
  <2> DEFINE n == IF calc.rejections + 1 < MaxRejections THEN calc.rejections + 1
                  ELSE IF calc.valid THEN MaxRejections - HealthyBackoff ELSE MaxRejections
  <2>1. calc' = [calc EXCEPT !.rejections = n] BY <1>7 DEF IncrementalRejects
  <2>2. n \in Nat BY <1>0, CalibrationAssumption DEF Estimates
  <2> HIDE DEF n
  <2>3. calc' \in Estimates BY <1>0, <2>1, <2>2 DEF Estimates
  <2>4. UNCHANGED <<samples, frozen>> BY <1>7 DEF IncrementalRejects
  <2> QED BY <1>0, <1>1, <1>2, <2>3, <2>4, FreshBehind
<1>8. CASE SolveSkipped
  <2>1. UNCHANGED <<samples, frozen, calc>> BY <1>8 DEF SolveSkipped, calcVars
  <2> QED BY <1>0, <1>1, <1>2, <2>1, FreshBehind
<1> QED BY <1>3, <1>4, <1>5, <1>6, <1>7, <1>8 DEF Solve

LEMMA FreshPublish == FreshInv /\ Publish => FreshInv'
<1> SUFFICES ASSUME FreshInv, Publish PROVE FreshInv'
  OBVIOUS
<1>0. BufferInv /\ Fresh(frozen) /\ calc \in Estimates BY DEF FreshInv
<1>1. pc = "publish" /\ pc' = "idle" BY DEF Publish
<1>2. Fresh(samples) BY <1>0, <1>1 DEF BufferInv
<1>3. CASE state = "Continuous"
  <2>1. /\ samples' = IF samples = << >> THEN samples ELSE Tail(samples)
        /\ UNCHANGED <<frozen, calc>>
    BY <1>3 DEF Publish
  <2>2. Fresh(samples') BY <1>2, <2>1, FreshTail
  <2> QED BY <1>0, <1>1, <2>1, <2>2, FreshBehind
<1>4. CASE state # "Continuous"
  BY <1>1, <1>4, ClearRefreshes DEF Publish
<1> QED BY <1>3, <1>4

LEMMA NextFresh == FreshInv /\ [MCNext]_allVars => FreshInv'
<1> SUFFICES ASSUME FreshInv, [MCNext]_allVars PROVE FreshInv'
  OBVIOUS
<1>1. Next \/ UNCHANGED machineVars BY DEF MCNext, allVars
<1>2. CASE UNCHANGED machineVars
  BY <1>2 DEF machineVars, vars, calcVars, liveVars, FreshInv, BufferInv, Fresh
<1> QED BY <1>1, <1>2, FreshUserInterface, FreshTickStarts, FreshGate, FreshCollect,
        FreshSolve, FreshPublish DEF Next, Tick

\* No solve, one-shot or continuous, locked or blended, is fitted on a sample taken before
\* an anchor was declared offline, however the outage ends.
THEOREM SolveIsFreshCorrect == MCSpec => []SolveIsFresh
<1>1. MCInit => FreshInv BY InitFresh DEF MCInit
<1>2. FreshInv => SolveIsFresh BY DEF FreshInv, Estimates, SolveIsFresh
<1> QED BY <1>1, <1>2, NextFresh, PTL DEF MCSpec

-----------------------------------------------------------------------------
(* The detectors.                                                          *)

\* The detector has an earlier pose to compare with only when what moved the headset since
\* then is a re-localization or a freeze.
JumpInv == prev => jump \in {"none", "reloc", "stall"}

LEMMA InitJump == Drift!Init => JumpInv
BY DEF Drift!Init, JumpInv

LEMMA NextJump == JumpInv /\ [MCNext]_allVars => JumpInv'
<1> SUFFICES ASSUME JumpInv, [MCNext]_allVars PROVE JumpInv'
  OBVIOUS
<1>1. Drift!Next \/ UNCHANGED driftVars BY DEF MCNext, allVars
<1>2. CASE UNCHANGED driftVars BY <1>2 DEF driftVars, JumpInv
<1>3. CASE Drift!World
  BY <1>3 DEF Drift!World, Drift!UniverseShifts, Drift!StationRefined, Drift!HmdStops,
     Drift!HmdResumes, Drift!HmdRelocalizes, Drift!FreezeEnds, Drift!TimePasses, Drift!hmdVars,
     JumpInv
<1>4. CASE Drift!UserInterface
  BY <1>4 DEF Drift!UserInterface, Drift!ChangesMode, Drift!ClearCalibration,
     Drift!ToggleDetectors, Drift!UndoLastAutoRecovery, Drift!DismissAutoRecoveryBanner,
     Drift!hmdVars, JumpInv
<1>5. CASE Drift!Reloc
  BY <1>5 DEF Drift!Reloc, Drift!RelocSkipsOneShot, Drift!RelocSeesDropout, Drift!RelocQuiet,
     Drift!RelocRecovers, Drift!DropPrev, JumpInv
<1>6. CASE Drift!TickBegins \/ Drift!Chi \/ Drift!Rest
  BY <1>6 DEF Drift!TickBegins, Drift!Chi, Drift!ChiOff, Drift!ChiLost, Drift!ChiLearns,
     Drift!ChiFires, Drift!Rest, Drift!RestOff, Drift!RestNoProfile, Drift!RestMoves,
     Drift!RestRests, Drift!RestNudges, Drift!hmdVars, JumpInv
<1>7. CASE Drift!Predict \/ Drift!TickEnds \/ Drift!DriftOff \/ Drift!TickBaseStationDrift
  BY <1>7 DEF Drift!Predict, Drift!PredictOff, Drift!PredictQuiet, Drift!PredictNudges,
     Drift!TickEnds, Drift!DriftOff, Drift!TickBaseStationDrift, Drift!hmdVars, JumpInv
<1> QED BY <1>1, <1>2, <1>3, <1>4, <1>5, <1>6, <1>7 DEF Drift!Next, Drift!Tick

LEMMA JumpStep ==
  JumpInv /\ [MCNext]_allVars
    => [Drift!RelocRecovers => jump \in {"reloc", "stall"}]_(Drift!vars)
BY DEF JumpInv, Drift!RelocRecovers

\* The automatic recovery fires only on a re-localization or on a pose that froze while it
\* was reported as valid, never on a walk in a dropout or a swing in a one-shot run.
THEOREM RecoversFromJumpsCorrect == MCSpec => RecoversFromJumps
<1>1. MCInit => JumpInv BY InitJump DEF MCInit
<1> QED BY <1>1, NextJump, JumpStep, PTL DEF MCSpec, RecoversFromJumps, Drift!RecoversFromJumps

\* A tracker that a run has had waved has lost its lock, unless a freeze skipped the step
\* that drops it: in a run, no lock gets past the rest detector.
LockInv ==
  /\ waved \in BOOLEAN /\ skipped \in BOOLEAN
  /\ waved => skipped
  /\ at \in {"predict", "drift"} /\ mode \in {"Continuous", "OneShot"} /\ lock # "none"
       => skipped

LEMMA InitLock == Drift!Init => LockInv
BY DEF Drift!Init, LockInv

LEMMA NextLock == LockInv /\ [MCNext]_allVars => LockInv'
<1> SUFFICES ASSUME LockInv, [MCNext]_allVars PROVE LockInv'
  OBVIOUS
<1>1. Drift!Next \/ UNCHANGED driftVars BY DEF MCNext, allVars
<1>2. CASE UNCHANGED driftVars BY <1>2 DEF driftVars, LockInv
<1>3. CASE Drift!World
  BY <1>3 DEF Drift!World, Drift!UniverseShifts, Drift!StationRefined, Drift!HmdStops,
     Drift!HmdResumes, Drift!HmdRelocalizes, Drift!FreezeEnds, Drift!TimePasses, Drift!restVars,
     LockInv
<1>4. CASE Drift!UserInterface
  BY <1>4 DEF Drift!UserInterface, Drift!ChangesMode, Drift!ClearCalibration,
     Drift!ToggleDetectors, Drift!UndoLastAutoRecovery, Drift!DismissAutoRecoveryBanner,
     Drift!restVars, LockInv
<1>5. CASE Drift!TickBegins \/ Drift!Reloc
  BY <1>5 DEF Drift!TickBegins, Drift!Reloc, Drift!RelocSkipsOneShot, Drift!RelocSeesDropout,
     Drift!RelocQuiet, Drift!RelocRecovers, Drift!restVars, LockInv
<1>6. CASE Drift!Chi
  <2>1. \/ at' = "rest" /\ UNCHANGED <<lock, waved, skipped>>
        \/ skipped' = (skipped \/ lock # "none") /\ UNCHANGED <<lock, waved>>
    BY <1>6 DEF Drift!Chi, Drift!ChiOff, Drift!ChiLost, Drift!ChiLearns, Drift!ChiFires,
       Drift!SkipsNudges, Drift!restVars
  <2>2. CASE at' = "rest" /\ UNCHANGED <<lock, waved, skipped>> BY <2>2 DEF LockInv
  <2>3. CASE skipped' = (skipped \/ lock # "none") /\ UNCHANGED <<lock, waved>>
    BY <2>3 DEF LockInv
  <2> QED BY <2>1, <2>2, <2>3
<1>7. CASE Drift!Rest
  <2>1. CASE lock' = "none" /\ waved' = FALSE /\ skipped' = FALSE BY <2>1 DEF LockInv
  <2>2. CASE Drift!RestLooks /\ UNCHANGED <<mode, waved, skipped>>
    BY <2>2 DEF Drift!RestLooks, LockInv
  <2>3. CASE Drift!RestLooks /\ waved' = FALSE /\ skipped' = FALSE /\ UNCHANGED mode
    BY <2>3 DEF Drift!RestLooks, LockInv
  <2> QED
    BY <1>7, <2>1, <2>2, <2>3 DEF Drift!Rest, Drift!RestOff, Drift!RestNoProfile,
       Drift!RestMoves, Drift!RestRests, Drift!RestNudges, Drift!DropsLock, Drift!restVars
<1>8. CASE Drift!Predict
  BY <1>8 DEF Drift!Predict, Drift!PredictOff, Drift!PredictQuiet, Drift!PredictNudges,
     Drift!restVars, LockInv
<1>9. CASE Drift!TickEnds \/ Drift!DriftOff \/ Drift!TickBaseStationDrift
  <2>1. /\ at = "drift" /\ at' = "idle" /\ UNCHANGED <<lock, skipped>>
        /\ \/ UNCHANGED waved
           \/ mode \in {"Continuous", "OneShot"} /\ waved' = (lock # "none")
    BY <1>9 DEF Drift!TickEnds, Drift!Solves, Drift!DriftOff, Drift!TickBaseStationDrift,
       Drift!restVars
  <2>2. CASE UNCHANGED waved BY <2>1, <2>2 DEF LockInv
  <2>3. CASE mode \in {"Continuous", "OneShot"} /\ waved' = (lock # "none")
    BY <2>1, <2>3 DEF LockInv
  <2> QED BY <2>1, <2>2, <2>3
<1> QED BY <1>1, <1>2, <1>3, <1>4, <1>5, <1>6, <1>7, <1>8, <1>9 DEF Drift!Next, Drift!Tick

\* A yaw nudge compares the tracker with a lock of the same rest, whichever modes and
\* detectors are switched meanwhile, unless a freeze of the chi-square test skipped the
\* detector.
THEOREM RestLockIsCurrentCorrect == MCSpec => []RestLockIsCurrent
<1>1. MCInit => LockInv BY InitLock DEF MCInit
<1>2. LockInv => RestLockIsCurrent BY DEF LockInv, RestLockIsCurrent, Drift!RestLockIsCurrent
<1> QED BY <1>1, <1>2, NextLock, PTL DEF MCSpec
=============================================================================
