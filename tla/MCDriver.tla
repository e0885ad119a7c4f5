------------------------------ MODULE MCDriver ------------------------------
(***************************************************************************)
(* The driver DLL: its loading and unloading (DriverLifecycle), and the    *)
(* correction of inputs that the overlay has learned (InputHealth).  The   *)
(* parts share no variable: a behaviour is one of one part, and the other  *)
(* stays as it began.                                                      *)
(***************************************************************************)
EXTENDS InputHealth

CONSTANTS
    Features, Threads, MaxClients,  \* DriverLifecycle
    Parts                           \* which parts a run is about

ASSUME PartsAssumption == Parts \subseteq {"load", "inputs"}

VARIABLES
    part,
    phase, at, flags, active, mod, srv, mh, hooks, patched, doomed, timedOut, inFlight, det, late

Load == INSTANCE DriverLifecycle

ASSUME LifecycleAssumption ==
    /\ Features \subseteq Load!AllFeatures
    /\ IsFiniteSet(Threads)
    /\ MaxClients \in Nat

inputsVars == vars
loadVars == <<phase, at, flags, active, mod, srv, mh, hooks, patched, doomed, timedOut,
              inFlight, det, late>>
allVars == <<part, inputsVars, loadVars>>

\* The flags that a driver finds are a choice, of the driver's part.
AtRest == part # "load" => flags = {}

MCInit == part \in Parts /\ Init /\ Load!Init /\ AtRest

MCNext ==
    /\ UNCHANGED part
    /\ \/ part = "inputs" /\ Next /\ UNCHANGED loadVars
       \/ part = "load" /\ Load!Next /\ UNCHANGED inputsVars

\* The fairness of each part while it runs.
MCFairness ==
    /\ WF_inputsVars(part = "inputs" /\ CallStep)
    /\ SF_inputsVars(part = "inputs" /\ Heartbeat)
    /\ WF_loadVars(part = "load" /\ Load!CleanupStep)
    /\ \A f \in Features : WF_loadVars(part = "load" /\ Load!ThreadStep(f))

MCSpec == MCInit /\ [][MCNext]_allVars /\ MCFairness

\* The drain ends before what it protects is torn down: DriverLifecycle, for
\* DrainInFlightDetours and Cleanup.
DrainProtects == Load!DrainProtects

\* A failed Init and Cleanup come to an end: DriverLifecycle, for the stop of the IPC
\* servers and the drain's timeout.
UnloadEnds == Load!UnloadEnds
=============================================================================
