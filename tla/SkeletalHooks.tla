---------------------------- MODULE SkeletalHooks ----------------------------
(***************************************************************************)
(* Finger smoothing in the driver: the two detours on IVRDriverInput that   *)
(* learn which hand a skeleton handle belongs to and blend every frame with *)
(* the one written before, and the configuration the overlay pushes, held   *)
(* in two atomic words.  Device drivers call the detours on their own       *)
(* threads; the IPC thread stores the configuration.                        *)
(*                                                                          *)
(* A frame is a stamp: which creation of its hand's skeleton was the latest *)
(* when the call came in.  A bone array is the set of stamps blended into   *)
(* it.  One finger stands for each hand: a left one, whose strength is in   *)
(* the low word, and a right one, whose strength is in the header.          *)
(***************************************************************************)
EXTENDS Naturals, FiniteSets

CONSTANTS
    Handles,      \* skeleton handles
    Path,         \* Path[h]: the hand in its path, or "other"
    MaxCreates,   \* bound: CreateSkeleton calls per hand, and reloads
    MaxSets       \* bound: configurations the overlay sends

Hands   == {"left", "right"}

\* What the fingers tab can set: a strength, the fingers enabled, strengths
\* of their own.
Configs == [smoothness : {0, 1}, mask : SUBSET Hands, per : [Hands -> {0, 1}]]

VARIABLES
    hooks,        \* "off", "armed" by Init, or "installed"
    handedness,   \* g_handleToHandedness
    initialized,  \* g_handState[hand].initialized
    previous,     \* g_handState[hand].previous, the frame last written
    header, low,  \* the two words of the configuration
    setting,      \* the configuration whose second word is still to be stored
    call,         \* call[h]: the UpdateSkeleton call in progress for h
    epoch,        \* history: creations of each hand's skeleton
    stragglers,   \* history: stamps of the calls in progress at the latest
    sets

words == <<header, low, setting, sets>>
hist  == <<epoch, stragglers>>
vars  == <<hooks, handedness, initialized, previous, words, call, hist>>

None == "none"
Idle == [pc |-> "idle"]
HandOf(h) == Path[h]
PackFingerHeader(c) == [smoothness |-> c.smoothness, mask |-> c.mask, right |-> c.per["right"]]
PackFingerLow(c)    == [left |-> c.per["left"]]
Unpack(hd, lw) == [smoothness |-> hd.smoothness, mask |-> hd.mask,
                   per |-> [x \in Hands |-> IF x = "left" THEN lw.left ELSE hd.right]]

\* A finger's own strength, or the global one when it has none.
Strength(cfg, x) == IF cfg.per[x] = 0 THEN cfg.smoothness ELSE cfg.per[x]

\* Slerp and lerp of a frame with the one before.
Blend(prev, stamp) == prev \cup {stamp}

\* The stamps of the calls of a hand that have begun.
InFlight(x) == {call[h].stamp : h \in {g \in Handles : HandOf(g) = x /\ call[g].pc # "idle"}}

Init ==
    /\ hooks = "off"
    /\ handedness = [h \in Handles |-> None]
    /\ initialized = [x \in Hands |-> FALSE]
    /\ previous = [x \in Hands |-> {}]
    /\ header = [smoothness |-> 0, mask |-> {}, right |-> 0]
    /\ low = [left |-> 0]
    /\ setting = {}
    /\ call = [h \in Handles |-> Idle]
    /\ epoch = [x \in Hands |-> 0]
    /\ stragglers = [x \in Hands |-> {}]
    /\ sets = 0

-----------------------------------------------------------------------------
(* skeletal::Init clears everything; the hooks go in when SteamVR hands out  *)
(* the interface.                                                            *)
InitHooks ==
    /\ hooks = "off"
    /\ hooks' = "armed"
    /\ handedness' = [h \in Handles |-> None]
    /\ initialized' = [x \in Hands |-> FALSE]
    /\ previous' = [x \in Hands |-> {}]
    /\ UNCHANGED <<words, call, hist>>

TryInstallPublicHooks ==
    /\ hooks = "armed"
    /\ hooks' = "installed"
    /\ UNCHANGED <<handedness, initialized, previous, words, call, hist>>

(* skeletal::Shutdown: called with the hooks removed and the detours         *)
(* drained.                                                                  *)
Shutdown ==
    /\ hooks # "off" /\ \A h \in Handles : call[h].pc = "idle"
    /\ \A x \in Hands : epoch[x] < MaxCreates
    /\ hooks' = "off"
    /\ handedness' = [h \in Handles |-> None]
    /\ initialized' = [x \in Hands |-> FALSE]
    /\ epoch' = [x \in Hands |-> epoch[x] + 1]
    /\ stragglers' = [x \in Hands |-> {}]
    /\ UNCHANGED <<previous, words, call>>

\* a hand that is created again keeps blending.
Reseed_Keeps(x) == initialized
Reseed(x) == [initialized EXCEPT ![x] = FALSE]

(* The handle of a skeleton whose path names a hand is learnt, and its hand  *)
(* starts afresh, under both locks.                                          *)
CreateSkeleton(h) ==
    LET x == HandOf(h) IN
    /\ hooks = "installed" /\ x \in Hands /\ call[h].pc = "idle"
    /\ epoch[x] < MaxCreates
    /\ handedness' = [handedness EXCEPT ![h] = x]
    /\ initialized' = Reseed(x)
    /\ epoch' = [epoch EXCEPT ![x] = @ + 1]
    /\ stragglers' = [stragglers EXCEPT ![x] = InFlight(x)]
    /\ UNCHANGED <<hooks, previous, words, call>>

(* SetFingerSmoothingConfig stores the header, then the low word.            *)
SetHeader(c) ==
    /\ setting = {} /\ sets < MaxSets
    /\ header' = PackFingerHeader(c)
    /\ setting' = {c} /\ sets' = sets + 1
    /\ UNCHANGED <<hooks, handedness, initialized, previous, low, call, hist>>

SetLow ==
    /\ \E c \in setting : low' = PackFingerLow(c)
    /\ setting' = {}
    /\ UNCHANGED <<hooks, handedness, initialized, previous, header, sets, call, hist>>

(* UpdateSkeletonComponent: the first word of the configuration is read ...  *)
UpdateBegin(h) ==
    /\ hooks = "installed" /\ call[h].pc = "idle"
    /\ call' = [call EXCEPT ![h] =
          [pc |-> "header", header |-> header,
           stamp |-> IF HandOf(h) \in Hands THEN epoch[HandOf(h)] ELSE 0]]
    /\ UNCHANGED <<hooks, handedness, initialized, previous, words, hist>>

(* ... then the second, and the hand is looked up ...                        *)
UpdateLookup(h) ==
    LET c == call[h]
        cfg == Unpack(c.header, low)
        x == handedness[h]
        raw == x = None \/ Strength(cfg, x) = 0
    IN /\ c.pc = "header"
       /\ IF raw
          THEN call' = [call EXCEPT ![h] = Idle]
          ELSE call' = [call EXCEPT ![h] =
                     [pc |-> "blend", hand |-> x, stamp |-> c.stamp, masked |-> x \in cfg.mask]]
       /\ UNCHANGED <<hooks, handedness, initialized, previous, words, hist>>

(* ... and the frame is blended under the lock: the first of a hand is       *)
(* handed on as it is, a finger outside the mask too.                        *)
UpdateBlend(h) ==
    LET c == call[h]
        blended == IF initialized[c.hand] /\ c.masked
                   THEN Blend(previous[c.hand], c.stamp)
                   ELSE {c.stamp}
    IN /\ c.pc = "blend"
       /\ previous' = [previous EXCEPT ![c.hand] = blended]
       /\ initialized' = [initialized EXCEPT ![c.hand] = TRUE]
       /\ call' = [call EXCEPT ![h] = Idle]
       /\ UNCHANGED <<hooks, handedness, words, hist>>

Next ==
    \/ InitHooks \/ TryInstallPublicHooks \/ Shutdown \/ SetLow
    \/ \E c \in Configs : SetHeader(c)
    \/ \E h \in Handles : CreateSkeleton(h) \/ UpdateBegin(h) \/ UpdateLookup(h) \/ UpdateBlend(h)

Spec == Init /\ [][Next]_vars

-----------------------------------------------------------------------------
TypeOK ==
    /\ hooks \in {"off", "armed", "installed"}
    /\ handedness \in [Handles -> Hands \cup {None}]
    /\ initialized \in [Hands -> BOOLEAN]
    /\ previous \in [Hands -> SUBSET (0..MaxCreates)]
    /\ low \in [left : {0, 1}]

(* A skeleton that is created again starts from its own frames: what a hand  *)
(* blends with came in after the latest CreateSkeleton of that hand, or with *)
(* a call that was already under way then.                                   *)
NoStaleBlend ==
    \A x \in Hands : initialized[x] => previous[x] \subseteq {epoch[x]} \cup stragglers[x]
=============================================================================
