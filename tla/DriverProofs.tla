---------------------------- MODULE DriverProofs ----------------------------
(***************************************************************************)
(* Proofs about the driver DLL: the drain of the detours protects its      *)
(* tear-down (DriverLifecycle), for any features, threads and clients, and *)
(* its input corrections are those that the overlay has learned            *)
(* (InputHealth), whatever the thresholds.                                 *)
(***************************************************************************)
EXTENDS MCDriver, FiniteSetTheorems, TLAPS

\* The threads between EnterDetour and ExitDetour.
Inside == {t \in Threads : Load!Counted(t)}

\* The counter that the drain reads is the number of threads inside.
CounterInv ==
  /\ det \in [Threads -> [pc : {"out", "entered", "body", "leave"}, hook : Load!Hooks]]
  /\ hooks \subseteq Load!Hooks /\ patched \subseteq Load!Hooks /\ doomed \subseteq Load!Hooks
  /\ inFlight = Cardinality(Inside)

\* Until MinHook is up, nothing is patched and no thread is in a detour.
QuietInv ==
  /\ phase \in {"modules", "servers", "inject", "failing", "failed"} => ~mh
  /\ phase \in Load!Loading \cup Load!Failing /\ ~mh
       => patched = {} /\ \A t \in Threads : det[t].pc = "out"

DrainInv == CounterInv /\ QuietInv /\ Load!DrainProtects

LEMMA InsideIsFinite == IsFiniteSet(Inside) /\ Cardinality(Inside) \in Nat
<1>1. Inside \in SUBSET Threads BY DEF Inside
<1>2. IsFiniteSet(Inside) BY <1>1, LifecycleAssumption, FS_Subset
<1> QED BY <1>2, FS_CardinalityType

LEMMA InitDrain == Load!Init => DrainInv
<1> SUFFICES ASSUME Load!Init PROVE DrainInv
  OBVIOUS
<1>1. Inside = {} BY DEF Load!Init, Inside, Load!Counted, Load!Outside
<1>2. inFlight = Cardinality(Inside) BY <1>1, FS_EmptySet DEF Load!Init
<1> QED BY <1>2 DEF Load!Init, DrainInv, CounterInv, QuietInv, Load!DrainProtects, Load!Outside,
Load!Hooks, Load!Torn

\* The steps of the provider's thread before and after the drain, and those of the
\* servers, leave the detours alone.
LEMMA DrainQuiet ==
  ASSUME DrainInv, UNCHANGED <<Load!minhook, Load!detours>>,
         \/ UNCHANGED phase
         \/ phase = "modules" /\ phase' = "servers"
         \/ phase = "servers" /\ phase' = "inject"
         \/ phase = "shutdown" /\ phase' = "stop"
         \/ phase = "stop" /\ phase' = "closed"
         \/ phase = "failing" /\ phase' = "failed"
  PROVE  DrainInv'
<1>1. UNCHANGED <<mh, hooks, patched, doomed, timedOut, inFlight, det, late>>
  BY DEF Load!minhook, Load!detours
<1>2. Inside' = Inside BY <1>1 DEF Inside, Load!Counted
<1>3. CounterInv' BY <1>1, <1>2 DEF DrainInv, CounterInv
<1>4. QuietInv' BY <1>1 DEF DrainInv, QuietInv, Load!Loading, Load!Failing
<1>5. Load!DrainProtects' BY <1>1 DEF DrainInv, Load!DrainProtects, Load!Counted, Load!Torn
<1> QED BY <1>3, <1>4, <1>5 DEF DrainInv

\* The hooks go in, and come out again one by one.
LEMMA DrainHooks ==
  ASSUME DrainInv, Load!InjectHooks \/ Load!Unload \/ Load!DestroyHook \/ Load!DestroyAll
  PROVE  DrainInv'
<1>1. UNCHANGED <<timedOut, inFlight, det, late>>
  BY DEF Load!InjectHooks, Load!Unload, Load!DestroyHook, Load!DestroyAll, Load!minhook,
     Load!detours, Load!provider
<1>2. Inside' = Inside BY <1>1 DEF Inside, Load!Counted
<1>3. hooks' \subseteq Load!Hooks /\ patched' \subseteq Load!Hooks /\ doomed' \subseteq Load!Hooks
  BY DEF DrainInv, CounterInv, Load!InjectHooks, Load!Unload, Load!DestroyHook, Load!DestroyAll,
     Load!minhook, Load!Hooks
<1>4. CounterInv' BY <1>1, <1>2, <1>3 DEF DrainInv, CounterInv
<1>5. CASE Load!InjectHooks
  BY <1>1, <1>4, <1>5 DEF Load!InjectHooks, DrainInv, QuietInv, Load!DrainProtects, Load!Torn,
     Load!Loading, Load!Failing,
     Load!minhook, Load!Counted
<1>6. CASE Load!Unload
  BY <1>1, <1>4, <1>6 DEF Load!Unload, DrainInv, QuietInv, Load!DrainProtects, Load!Torn,
     Load!Loading, Load!Failing, Load!Counted
<1>7. CASE Load!DestroyHook \/ Load!DestroyAll
  BY <1>1, <1>4, <1>7 DEF Load!DestroyHook, Load!DestroyAll, Load!provider, DrainInv, QuietInv,
     Load!DrainProtects,
     Load!Torn, Load!Loading, Load!Failing, Load!Counted
<1> QED BY <1>5, <1>6, <1>7

\* When the drain has ended without the watchdog, no thread is inside.
LEMMA DrainEnds == DrainInv /\ (Load!DrainDone \/ Load!DrainTimeout) => DrainInv'
<1> SUFFICES ASSUME DrainInv, Load!DrainDone \/ Load!DrainTimeout PROVE DrainInv'
  OBVIOUS
<1>1. /\ patched' = {} /\ phase' = "shutdown"
      /\ UNCHANGED <<hooks, doomed, inFlight, det, late>>
  BY DEF Load!DrainDone, Load!DrainTimeout, Load!Uninitialize, Load!detours
<1>2. Inside' = Inside BY <1>1 DEF Inside, Load!Counted
<1>3. CounterInv' BY <1>1, <1>2 DEF DrainInv, CounterInv
<1>4. QuietInv' BY <1>1 DEF QuietInv, Load!Loading, Load!Failing
<1>5. CASE Load!DrainDone
  <2>1. Inside = {} BY <1>5, InsideIsFinite, FS_EmptySet DEF Load!DrainDone, DrainInv, CounterInv
  <2>2. \A t \in Threads : ~Load!Counted(t)' BY <1>1, <2>1 DEF Inside, Load!Counted
  <2> QED BY <1>3, <1>4, <2>2 DEF DrainInv, Load!DrainProtects
<1>6. CASE Load!DrainTimeout BY <1>3, <1>4, <1>6 DEF Load!DrainTimeout, DrainInv, Load!DrainProtects
<1> QED BY <1>5, <1>6

\* Entering and leaving keep the counter; who enters during the tear-down is late.
LEMMA DrainDetours ==
  ASSUME DrainInv, NEW t \in Threads,
         Load!CallHooked(t) \/ Load!EnterDetour(t) \/ Load!ExitDetour(t)
  PROVE  DrainInv'
<1>0. CounterInv /\ QuietInv /\ Load!DrainProtects BY DEF DrainInv
<1>1. UNCHANGED <<phase, mh, hooks, patched, doomed, timedOut>>
  BY DEF Load!CallHooked, Load!EnterDetour, Load!ExitDetour, Load!provider, Load!minhook
<1>2. /\ det' \in [Threads -> [pc : {"out", "entered", "body", "leave"}, hook : Load!Hooks]]
      /\ \A s \in Threads \ {t} : det'[s] = det[s]
  BY <1>0 DEF Load!CallHooked, Load!EnterDetour, Load!ExitDetour, CounterInv, Load!Outside,
     Load!Hooks
<1>3. phase \in Load!Loading \cup Load!Failing => mh
  BY <1>0 DEF QuietInv, Load!CallHooked, Load!EnterDetour, Load!ExitDetour
<1>4. QuietInv' BY <1>0, <1>1, <1>3 DEF QuietInv
<1>5. CASE Load!CallHooked(t)
  <2>1. det[t].pc = "out" /\ det'[t].pc = "entered" /\ UNCHANGED <<inFlight, late>>
    BY <1>0, <1>5 DEF Load!CallHooked, CounterInv
  <2>2. Inside' = Inside BY <1>2, <2>1 DEF Inside, Load!Counted
  <2>3. CounterInv' BY <1>0, <1>1, <1>2, <2>1, <2>2 DEF CounterInv
  <2>4. Load!DrainProtects' BY <1>0, <1>1, <1>2, <2>1 DEF Load!DrainProtects, Load!Counted
  <2> QED BY <1>4, <2>3, <2>4 DEF DrainInv
<1>6. CASE Load!EnterDetour(t)
  <2>1. /\ det[t].pc = "entered" /\ det'[t].pc = "body" /\ inFlight' = inFlight + 1
        /\ late' = IF phase \in Load!Torn THEN late \cup {t} ELSE late
    BY <1>0, <1>6 DEF Load!EnterDetour, CounterInv
  <2>2. Inside' = Inside \cup {t} /\ t \notin Inside BY <1>2, <2>1 DEF Inside, Load!Counted
  <2>3. inFlight' = Cardinality(Inside')
    BY <1>0, <2>1, <2>2, InsideIsFinite, FS_AddElement DEF CounterInv
  <2>4. CounterInv' BY <1>0, <1>1, <1>2, <2>3 DEF CounterInv
  <2>5. Load!DrainProtects' BY <1>0, <1>1, <1>2, <2>1 DEF Load!DrainProtects, Load!Counted
  <2> QED BY <1>4, <2>4, <2>5 DEF DrainInv
<1>7. CASE Load!ExitDetour(t)
  <2>1. /\ det[t].pc = "leave" /\ det'[t].pc = "out" /\ inFlight' = inFlight - 1
        /\ late' = late \ {t}
    BY <1>0, <1>7 DEF Load!ExitDetour, CounterInv, Load!Outside
  <2>2. Inside' = Inside \ {t} /\ t \in Inside BY <1>2, <2>1 DEF Inside, Load!Counted
  <2>3. inFlight' = Cardinality(Inside')
    BY <1>0, <2>1, <2>2, InsideIsFinite, FS_RemoveElement DEF CounterInv
  <2>4. CounterInv' BY <1>0, <1>1, <1>2, <2>3 DEF CounterInv
  <2>5. Load!DrainProtects' BY <1>0, <1>1, <1>2, <2>1 DEF Load!DrainProtects, Load!Counted
  <2> QED BY <1>4, <2>4, <2>5 DEF DrainInv
<1> QED BY <1>5, <1>6, <1>7

\* The body of a detour stays counted; it may set a hook while MinHook is up.
LEMMA DrainBodies ==
  ASSUME DrainInv, NEW t \in Threads, Load!DetourGetGenericInterface(t) \/ Load!DetourBody(t)
  PROVE  DrainInv'
<1>0. CounterInv /\ QuietInv /\ Load!DrainProtects BY DEF DrainInv
<1>1. /\ UNCHANGED <<phase, mh, timedOut, inFlight, late>>
      /\ det[t].pc = "body"
      /\ UNCHANGED det \/ det' = [det EXCEPT ![t].pc = "leave"]
  BY DEF Load!DetourGetGenericInterface, Load!DetourBody, Load!provider, Load!minhook
<1>2. /\ det' \in [Threads -> [pc : {"out", "entered", "body", "leave"}, hook : Load!Hooks]]
      /\ \A s \in Threads \ {t} : det'[s] = det[s]
      /\ det'[t].pc \in {"body", "leave"}
  BY <1>0, <1>1 DEF CounterInv
<1>3. \A s \in Threads : Load!Counted(s)' <=> Load!Counted(s) BY <1>1, <1>2 DEF Load!Counted
<1>4. Inside' = Inside BY <1>3 DEF Inside
<1>5. hooks' \subseteq Load!Hooks /\ patched' \subseteq Load!Hooks /\ doomed' \subseteq Load!Hooks
  BY <1>0 DEF CounterInv, Load!DetourGetGenericInterface, Load!DetourBody, Load!minhook,
     Load!InstallPoseHook,
     Load!TryInstallPublicHooks, Load!TryInstallScalarBooleanHooks, Load!CreateHook, Load!Hooks
<1>6. CounterInv' BY <1>0, <1>1, <1>2, <1>4, <1>5 DEF CounterInv
<1>7. phase \in Load!Loading \cup Load!Failing => mh BY <1>0, <1>1 DEF QuietInv
<1>8. QuietInv' BY <1>0, <1>1, <1>7 DEF QuietInv
<1>9. Load!DrainProtects' BY <1>0, <1>1, <1>3 DEF Load!DrainProtects
<1> QED BY <1>6, <1>8, <1>9 DEF DrainInv

LEMMA NextDrain == DrainInv /\ [MCNext]_allVars => DrainInv'
<1> SUFFICES ASSUME DrainInv, [MCNext]_allVars PROVE DrainInv'
  OBVIOUS
<1>0. Load!Next \/ UNCHANGED loadVars BY DEF MCNext, allVars
<1>1. CASE UNCHANGED loadVars
  <2>1. UNCHANGED <<Load!minhook, Load!detours>> /\ UNCHANGED phase
    BY <1>1 DEF loadVars, Load!minhook, Load!detours
  <2> QED BY <2>1, DrainQuiet
<1>2. CASE Load!ActivateModule \/ Load!RunServer \/ Load!ShutdownModule \/ Load!NextServer
  <2>1. UNCHANGED <<Load!minhook, Load!detours>> /\ UNCHANGED phase
    BY <1>2 DEF Load!ActivateModule, Load!RunServer, Load!ShutdownModule, Load!NextServer
  <2> QED BY <2>1, DrainQuiet
<1>3. CASE Load!ModulesDone \/ Load!ServersDone \/ Load!ClearModules \/ Load!Finish
  <2>1. UNCHANGED <<Load!minhook, Load!detours>>
    BY <1>3 DEF Load!ModulesDone, Load!ServersDone, Load!ClearModules, Load!Finish
  <2>2. \/ phase = "modules" /\ phase' = "servers"
        \/ phase = "servers" /\ phase' = "inject"
        \/ phase = "shutdown" /\ phase' = "stop"
        \/ phase = "stop" /\ phase' = "closed"
        \/ phase = "failing" /\ phase' = "failed"
    BY <1>3 DEF Load!ModulesDone, Load!ServersDone, Load!ClearModules, Load!Finish
  <2> QED BY <2>1, <2>2, DrainQuiet
<1>4. ASSUME NEW f \in Features,
             Load!StopFlag(f) \/ Load!StopWake(f) \/ Load!ServerStep(f)
      PROVE  DrainInv'
  <2>1. UNCHANGED <<Load!minhook, Load!detours>> /\ UNCHANGED phase
    BY <1>4 DEF Load!StopFlag, Load!StopWake, Load!ServerStep, Load!ThreadStep, Load!ThreadStart,
       Load!CreateAndConnectInstance,
       Load!LoopTest, Load!Wakes, Load!HandleIpcRequest, Load!ClientConnects, Load!WaitFails,
       Load!CompletedRead, Load!provider
  <2> QED BY <2>1, DrainQuiet
<1> QED BY <1>0, <1>1, <1>2, <1>3, <1>4, DrainHooks, DrainEnds, DrainDetours, DrainBodies
        DEF Load!Next, Load!InitStep, Load!CleanupStep, Load!DetourStep

\* Cleanup shuts no module down next to a detour that was counted while DisableHooks
\* was draining, unless the 500 ms watchdog gave up: only a thread that was caught
\* between the patched jump and EnterDetour can still run the driver's code.
THEOREM DrainProtectsCorrect == MCSpec => []DrainProtects
<1>1. MCInit => DrainInv BY InitDrain DEF MCInit
<1>2. DrainInv => DrainProtects BY DEF DrainInv, DrainProtects
<1> QED BY <1>1, <1>2, NextDrain, PTL DEF MCSpec

-----------------------------------------------------------------------------
(* Input health.                                                           *)

\* The driver's table holds what is learned and enabled, what a call is taking back,
\* and the removals that were missed, also while the overlay is down.  It is empty when
\* the driver is not loaded.  UnlearnDevice forgets the records at its end: what it has
\* not removed by then was missed.  A call adds only what is ready.
TableInv ==
  /\ enabled \in BOOLEAN /\ up \in BOOLEAN
  /\ call \in {"none", "add", "remove", "unlearn"}
  /\ table \subseteq Wanted \cup Leaving \cup missed
  /\ ~up => table = {}
  /\ ~running => call = "none"
  /\ call = "none" => due = {}
  /\ call = "add" => due \subseteq ready
  /\ call = "unlearn" => table \subseteq due \cup missed

tableVars == <<up, table, running, call, due, ready, enabled, missed>>

LEMMA InitTable == Init => TableInv
BY DEF Init, TableInv, Wanted, Leaving

LEMMA TableUnchanged == TableInv /\ UNCHANGED tableVars => TableInv'
BY DEF TableInv, tableVars, Wanted, Leaving

\* What the start of a call leaves in call and due.
LEMMA CallsEffect ==
  ASSUME NEW kind \in {"add", "remove", "unlearn"}, NEW ps, Calls(kind, ps)
  PROVE  /\ due' = ps
         /\ \/ call' = kind
            \/ call' = "none" /\ ps = {} /\ kind # "unlearn"
BY DEF Calls

LEMMA TableDriver == TableInv /\ Driver => TableInv'
<1> SUFFICES ASSUME TableInv, Driver PROVE TableInv'
  OBVIOUS
<1>1. CASE DriverStarts
  BY <1>1 DEF DriverStarts, overlayVars, callVars, profileVars, histVars, TableInv, Wanted, Leaving
<1>2. CASE DriverStops
  BY <1>2 DEF DriverStops, callVars, profileVars, TableInv, Wanted, Leaving
<1>3. CASE \/ PipeDrops \/ \E p \in Paths : ResolveSerialHash(p)
           \/ UpdateBoolean \/ PublishOneTick
  <2>1. UNCHANGED tableVars
    BY <1>3 DEF PipeDrops, ResolveSerialHash, UpdateBoolean, PublishOneTick, overlayVars,
       callVars, profileVars, driverVars, histVars, tableVars
  <2> QED BY <2>1, TableUnchanged
<1> QED BY <1>1, <1>2, <1>3 DEF Driver

\* The heartbeat and the start push what is ready and enabled.
LEMMA TablePushReady ==
  ASSUME TableInv, call = "none", PushReady, running',
         UNCHANGED <<up, table, ready, enabled, missed>>
  PROVE  TableInv'
<1> DEFINE ps == IF enabled THEN ready ELSE {}
<1>1. /\ due' = ps
      /\ call' = "add" \/ (call' = "none" /\ ps = {})
  BY CallsEffect DEF PushReady
<1>2. ps \subseteq ready BY DEF TableInv
<1>3. table \subseteq Wanted \cup missed BY DEF TableInv, Leaving
<1>4. Wanted' = Wanted BY DEF Wanted
<1> QED BY <1>1, <1>2, <1>3, <1>4 DEF TableInv

LEMMA TableOverlay == TableInv /\ Overlay => TableInv'
<1> SUFFICES ASSUME TableInv, Overlay PROVE TableInv'
  OBVIOUS
<1>1. CASE OverlayStarts
  <2>1. call = "none" /\ running' /\ UNCHANGED <<up, table, ready, enabled, missed>>
    BY <1>1 DEF OverlayStarts, LoadAll, driverVars, TableInv
  <2>2. CASE PushReady BY <2>1, <2>2, TablePushReady
  <2>3. CASE UNCHANGED callVars
    BY <2>1, <2>3 DEF callVars, TableInv, Wanted, Leaving
  <2> QED BY <1>1, <2>2, <2>3 DEF OverlayStarts
<1>2. CASE OverlayStops
  <2>1. /\ UNCHANGED <<up, table, ready, enabled>>
        /\ call' = "none" /\ due' = {}
        /\ missed' = IF call = "remove" THEN missed \cup (due \cap table) ELSE missed
    BY <1>2 DEF OverlayStops, driverVars, profileVars
  <2>2. table \subseteq Wanted \cup missed' BY <2>1 DEF TableInv, Leaving
  <2> QED BY <2>1, <2>2 DEF TableInv, Wanted, Leaving
<1>3. CASE Heartbeat
  <2>1. call = "none" /\ running' /\ UNCHANGED <<up, table, ready, enabled, missed>>
    BY <1>3 DEF Heartbeat, Idle, driverVars, profileVars
  <2>2. CASE PushReady BY <2>1, <2>2, TablePushReady
  <2>3. CASE UNCHANGED callVars
    BY <2>1, <2>3 DEF callVars, TableInv, Wanted, Leaving
  <2> QED BY <1>3, <2>2, <2>3 DEF Heartbeat
<1>4. CASE ReaderCloses
  <2>1. UNCHANGED tableVars
    BY <1>4 DEF ReaderCloses, driverVars, overlayVars, callVars, profileVars, histVars, tableVars
  <2> QED BY <2>1, TableUnchanged
<1> QED BY <1>1, <1>2, <1>3, <1>4 DEF Overlay

\* A push adds at most its own entry, and an entry that a removal leaves behind is
\* counted as missed.
LEMMA TablePush == ASSUME TableInv, NEW p \in Paths, PushCompensation(p) PROVE TableInv'
<1>1. /\ running /\ running' = running /\ p \in due /\ UNCHANGED <<up, ready, enabled>>
      /\ missed' = IF Adds \/ p \notin table' THEN missed \ {p} ELSE missed \cup {p}
      /\ Calls(call, due \ {p})
  BY DEF PushCompensation, profileVars
<1>2. call \in {"add", "remove", "unlearn"} BY <1>1 DEF TableInv
<1>3. /\ due' = due \ {p}
      /\ \/ call' = call
         \/ call' = "none" /\ due \ {p} = {} /\ call # "unlearn"
  BY <1>1, <1>2, CallsEffect
<1>4. \/ table' = table
      \/ up /\ table' = SetCompensation(p)
  BY DEF PushCompensation, PushSkipped, PushReaches, PushFails
<1>5. Wanted' = Wanted BY <1>1 DEF Wanted
<1>6. ~up => table' = {} BY <1>4 DEF TableInv
<1>7. call' \in {"none", "add", "remove", "unlearn"} BY <1>2, <1>3
<1>8. CASE Adds
  <2>1. table' \subseteq table \cup {p} /\ missed' = missed \ {p}
    BY <1>1, <1>4, <1>8 DEF SetCompensation
  <2>2. call = "add" /\ enabled /\ p \in ready BY <1>1, <1>8 DEF Adds, TableInv
  <2>3. table' \subseteq Wanted \cup missed'
    BY <2>1, <2>2 DEF TableInv, Wanted, Leaving
  <2>4. call' \in {"add", "none"} BY <1>3, <2>2
  <2>5. call' = "none" => due' = {} BY <1>3, <2>2
  <2> QED BY <1>1, <1>3, <1>5, <1>6, <2>2, <2>3, <2>4, <2>5 DEF TableInv
<1>9. CASE ~Adds
  <2>1. table' \subseteq table BY <1>4, <1>9 DEF SetCompensation
  <2>2. \A x \in table' : x \in Wanted \/ x \in missed' \/ (call = "remove" /\ x \in due')
    BY <1>1, <1>3, <1>9, <2>1 DEF TableInv, Leaving
  <2>3. \A x \in due' : call' = call
    BY <1>3
  <2>4. table' \subseteq Wanted' \cup Leaving' \cup missed'
    BY <1>5, <2>2, <2>3 DEF Leaving
  <2>5. call' = "unlearn" => table' \subseteq due' \cup missed'
    BY <1>1, <1>2, <1>3, <1>9, <2>1 DEF TableInv
  <2>6. call' = "add" => due' \subseteq ready' BY <1>1, <1>2, <1>3 DEF TableInv
  <2>7. call' = "none" => due' = {} BY <1>2, <1>3
  <2> QED BY <1>1, <1>6, <1>7, <2>4, <2>5, <2>6, <2>7 DEF TableInv
<1> QED BY <1>8, <1>9

LEMMA TableCall == TableInv /\ CallStep => TableInv'
<1> SUFFICES ASSUME TableInv, CallStep PROVE TableInv'
  OBVIOUS
<1>1. CASE UnlearnDeviceSaves
  <2>1. /\ call = "unlearn" /\ due = {} /\ call' = "none" /\ due' = {}
        /\ UNCHANGED <<up, table, running, enabled, missed>>
    BY <1>1 DEF UnlearnDeviceSaves, driverVars, histVars
  <2>2. table \subseteq missed BY <2>1 DEF TableInv
  <2> QED BY <2>1, <2>2 DEF TableInv, Wanted, Leaving
<1> QED BY <1>1, TablePush DEF CallStep

\* A call that adds what is ready: nothing leaves the records.
LEMMA TableAdds ==
  ASSUME TableInv, call = "none", running', UNCHANGED <<up, table, missed>>,
         enabled' \in BOOLEAN, NEW ps \in SUBSET ready', Calls("add", ps),
         ready \subseteq ready', enabled => enabled'
  PROVE  TableInv'
<1>1. due' = ps /\ (call' = "add" \/ (call' = "none" /\ ps = {}))
  BY CallsEffect
<1>2. table \subseteq Wanted \cup missed BY DEF TableInv, Leaving
<1>3. Wanted \subseteq Wanted' BY DEF Wanted
<1> QED BY <1>1, <1>2, <1>3 DEF TableInv

\* A call that takes back what leaves the records, or all of them.
LEMMA TableRemoves ==
  ASSUME TableInv, call = "none", running', UNCHANGED <<up, table, missed>>,
         enabled' \in BOOLEAN, NEW ps, Calls("remove", ps),
         Wanted \subseteq Wanted' \cup ps
  PROVE  TableInv'
<1>1. due' = ps /\ (call' = "remove" \/ (call' = "none" /\ ps = {}))
  BY CallsEffect
<1>2. table \subseteq Wanted \cup missed BY DEF TableInv, Leaving
<1>3. ps \subseteq Leaving' BY <1>1 DEF Leaving
<1>4. table' \subseteq Wanted' \cup Leaving' \cup missed' BY <1>2, <1>3
<1> QED BY <1>1, <1>4 DEF TableInv

LEMMA TableEngine == TableInv /\ Engine => TableInv'
<1> SUFFICES ASSUME TableInv, Engine PROVE TableInv'
  OBVIOUS
<1>0. /\ running /\ call = "none"
      /\ running' = running /\ UNCHANGED <<up, table, enabled, missed>>
  <2>1. CASE LearnsButton BY <2>1 DEF LearnsButton, Idle, driverVars, histVars
  <2>2. CASE LearnsAxis BY <2>2 DEF LearnsAxis, Idle, driverVars, histVars
  <2>3. CASE AxisDrifts BY <2>3 DEF AxisDrifts, Idle, driverVars, histVars
  <2> QED BY <2>1, <2>2, <2>3 DEF Engine
<1>1. /\ running' /\ call = "none"
      /\ UNCHANGED <<up, table, running, enabled, missed>>
  BY <1>0
<1>2. enabled' \in BOOLEAN /\ (enabled => enabled') BY <1>1 DEF TableInv
<1>3. CASE LearnsButton
  <2>1. \/ ready' = ready \cup {"button"} /\ Calls("add", {"button"})
        \/ UNCHANGED <<ready, call, due>>
    BY <1>3 DEF LearnsButton, SyncProfile, Save, callVars
  <2>2. CASE UNCHANGED <<ready, call, due>> BY <1>1, <2>2, TableUnchanged DEF tableVars
  <2> QED BY <1>1, <1>2, <2>1, <2>2, TableAdds
<1>4. CASE LearnsAxis
  <2>1. ready' = ready \cup {"axis"} /\ Calls("add", {"axis"})
    BY <1>4 DEF LearnsAxis, SyncProfile, Save
  <2> QED BY <1>1, <1>2, <2>1, TableAdds
<1>5. CASE AxisDrifts
  <2>1. ready' = ready \ {"axis"} /\ Calls("remove", {"axis"})
    BY <1>5 DEF AxisDrifts, SyncProfile, Save
  <2>2. Wanted \subseteq Wanted' \cup {"axis"} BY <1>1, <2>1 DEF Wanted
  <2> QED BY <1>1, <1>2, <2>1, <2>2, TableRemoves
<1> QED BY <1>3, <1>4, <1>5 DEF Engine

LEMMA TableUser == TableInv /\ User => TableInv'
<1> SUFFICES ASSUME TableInv, User PROVE TableInv'
  OBVIOUS
<1>1. CASE SetDeviceCorrectionsEnabled
  <2>1. /\ running' /\ call = "none" /\ enabled' = ~enabled
        /\ UNCHANGED <<up, table, running, ready, missed>>
    BY <1>1 DEF SetDeviceCorrectionsEnabled, Idle, driverVars, histVars
  <2>2. enabled' \in BOOLEAN BY <2>1 DEF TableInv
  <2>3. CASE enabled
    <3>1. PICK ps \in Records : Calls("remove", ps)
      BY <1>1, <2>3 DEF SetDeviceCorrectionsEnabled
    <3>2. Wanted \subseteq Wanted' \cup ps BY <3>1 DEF Wanted, Records
    <3> QED BY <2>1, <2>2, <3>1, <3>2, TableRemoves
  <2>4. CASE ~enabled
    <3>1. Calls("add", ready) BY <1>1, <2>4 DEF SetDeviceCorrectionsEnabled
    <3> QED BY <2>1, <2>2, <2>4, <3>1, TableAdds
  <2> QED BY <2>3, <2>4
<1>2. CASE SendReset
  <2>1. /\ UNCHANGED <<up, running, call, due, ready, enabled>> /\ call = "none"
        /\ \/ table' = {} /\ missed' = {}
           \/ UNCHANGED <<table, missed>>
    BY <1>2 DEF SendReset, Idle, ClearCompensation, overlayVars, callVars, profileVars
  <2> QED BY <2>1 DEF TableInv, Wanted, Leaving
<1>3. CASE UnlearnDevice
  <2>1. /\ running' /\ call = "none" /\ UNCHANGED <<up, table, ready, enabled, missed>>
    BY <1>3 DEF UnlearnDevice, Idle, driverVars, profileVars, histVars
  <2>2. PICK ps \in Records : Calls("unlearn", ps) BY <1>3 DEF UnlearnDevice
  <2>3. call' = "unlearn" /\ due' = ps BY <2>2 DEF Calls
  <2>4. table \subseteq Wanted \cup missed BY <2>1 DEF TableInv, Leaving
  <2>5. Wanted \subseteq ps BY <2>2 DEF Wanted, Records
  <2>6. Wanted' = Wanted BY <2>1 DEF Wanted
  <2> QED BY <2>1, <2>3, <2>4, <2>5, <2>6 DEF TableInv
<1>4. ASSUME NEW p \in Paths, UnlearnPath(p) PROVE TableInv'
  <2>1. /\ running' /\ call = "none" /\ UNCHANGED <<up, table, enabled, missed>>
        /\ ready' = ready \ {p} /\ Calls("remove", {p})
    BY <1>4 DEF UnlearnPath, Idle, Save, driverVars, histVars
  <2>2. Wanted \subseteq Wanted' \cup {p} BY <2>1 DEF Wanted
  <2>3. enabled' \in BOOLEAN BY <2>1 DEF TableInv
  <2> QED BY <2>1, <2>2, <2>3, TableRemoves
<1> QED BY <1>1, <1>2, <1>3, <1>4 DEF User

\* The driver corrects by a ready record of an enabled profile, by one whose removal is
\* under way, or by one whose removal it did not get, and by nothing else, through
\* drifts, unlearning, switches, failed pushes, dropped pipes and restarts.
THEOREM AppliesOnlyLearnedCorrect == MCSpec => []AppliesOnlyLearned
<1>1. MCInit => TableInv BY InitTable DEF MCInit
<1>2. TableInv /\ UNCHANGED vars => TableInv'
  BY TableUnchanged DEF vars, driverVars, overlayVars, callVars, profileVars, histVars, tableVars
<1>3. TableInv /\ [MCNext]_allVars => TableInv'
  <2>1. [MCNext]_allVars => Next \/ UNCHANGED vars BY DEF MCNext, allVars, inputsVars
  <2> QED BY <1>2, <2>1, TableDriver, TableOverlay, TableCall, TableEngine, TableUser DEF Next
<1>4. TableInv => AppliesOnlyLearned BY DEF TableInv, AppliesOnlyLearned
<1> QED BY <1>1, <1>3, <1>4, PTL DEF MCSpec

=============================================================================
