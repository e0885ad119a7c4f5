---------------------------- MODULE CommandDelivery ----------------------------
(***************************************************************************)
(* The pending command of a host supervisor: the active module's uuid      *)
(* (face tracking) or the config blob (captions). The feature pipe's       *)
(* thread replaces it and sends it; the monitor thread sends it again, in  *)
(* OnHostReady, as long as the "sent" flag is down. The flag and the       *)
(* command are guarded by a mutex that is free while the pipe is written.  *)
(*                                                                         *)
(* The two supervisors differ in one line. Captions raises the flag only   *)
(* if the command it sent is still the pending one (guarded); the face     *)
(* supervisor raises it whenever a write succeeded. Either may be the one  *)
(* that runs.                                                              *)
(***************************************************************************)
EXTENDS Naturals

CONSTANTS
  Commands,    \* uuids, or config blobs
  None,        \* no command
  Initial,     \* what the captions module's config_ holds before a request
  MaxSets,     \* bound: commands set, restarts included
  MaxDeaths,   \* bound: hosts that die
  MaxBusy      \* bound: writes that meet a busy pipe

Threads == {"ipc", "mon"}

VARIABLES
  guarded,     \* TrySendCommand's comparison, or TrySendUuid without it
  pending,     \* pending_uuid_ / pending_command_
  sent,        \* uuid_sent_ / command_sent_
  pc,          \* Threads -> where the thread is in its request or in TrySend
  arg,         \* Threads -> TrySend's argument
  host,        \* the host process: up, dead, or dead and noticed
  hostCmd,     \* the command the host received last
  restarting,  \* the feature pipe's thread is inside Restart
  reached,     \* history: the present host has been sent the pending command
  overtaken,   \* history: threads whose write a newer command or an exit overtook
  masked,      \* history: the flag stands for an overtaken write
  sets, deaths, busy

vars == <<guarded, pending, sent, pc, arg, host, hostCmd, restarting, reached, overtaken, masked,
          sets, deaths, busy>>

TypeOK ==
  /\ pending \in Commands \cup {None} /\ hostCmd \in Commands \cup {None}
  /\ guarded \in BOOLEAN /\ sent \in BOOLEAN /\ restarting \in BOOLEAN
  /\ reached \in BOOLEAN /\ masked \in BOOLEAN /\ overtaken \subseteq Threads
  /\ pc \in [Threads -> {"idle", "send", "mark", "kill", "spawn", "set"}]
  /\ arg \in [Threads -> Commands \cup {None}]
  /\ host \in {"up", "dead", "noticed"}
  /\ sets \in Nat /\ deaths \in Nat /\ busy \in Nat
  /\ \A t \in Threads : pc[t] \in {"send", "mark"} => arg[t] # None

Init ==
  /\ guarded \in BOOLEAN /\ pending = None /\ sent = FALSE
  /\ pc = [t \in Threads |-> "idle"] /\ arg = [t \in Threads |-> None]
  /\ host = "up" /\ hostCmd = None /\ restarting = FALSE /\ reached = FALSE
  /\ overtaken = {} /\ masked = FALSE
  /\ sets = 0 /\ deaths = 0 /\ busy = 0

At(labels) == {t \in Threads : pc[t] \in labels}

SetCommand_KeepsFlag(c) ==     \* wrong on purpose: the flag is not lowered
  /\ pending' = c
  /\ reached' = (hostCmd = c \/ (reached /\ pending = c))
  /\ pc' = [pc EXCEPT !["ipc"] = "send"] /\ arg' = [arg EXCEPT !["ipc"] = c]
  /\ overtaken' = overtaken \cup At({"send", "mark"})
  /\ sets' = sets + 1
  /\ UNCHANGED <<guarded, sent, host, hostCmd, masked, deaths, busy>>

\* SetActiveModuleUuid / SetHostConfigCommand: the first critical section.
SetCommand(c) ==
  /\ pending' = c /\ sent' = FALSE
  /\ reached' = (hostCmd = c \/ (reached /\ pending = c))
  /\ pc' = [pc EXCEPT !["ipc"] = "send"] /\ arg' = [arg EXCEPT !["ipc"] = c]
  /\ overtaken' = overtaken \cup At({"send", "mark"}) /\ masked' = FALSE
  /\ sets' = sets + 1
  /\ UNCHANGED <<guarded, host, hostCmd, deaths, busy>>

\* A request of the overlay sets the config or the module.
HandleRequest(c) ==
  /\ pc["ipc"] = "idle" /\ sets < MaxSets
  /\ SetCommand(c)
  /\ UNCHANGED restarting

\* OnHostExited's assignment, which Restart makes too.
OnHostExitedFlag ==
  /\ sent' = (sent /\ pending = None)
  /\ masked' = (masked /\ pending = None)

\* RequestCaptionsRestartHost and RequestFaceHostRestart: Restart lowers the flag,
\* kills the host and spawns one, to which it sends what is pending.
RestartExits ==
  /\ pc["ipc"] = "idle" /\ sets < MaxSets
  /\ OnHostExitedFlag
  /\ restarting' = TRUE
  /\ pc' = [pc EXCEPT !["ipc"] = "kill"]
  /\ UNCHANGED <<guarded, pending, arg, host, hostCmd, reached, overtaken, sets, deaths, busy>>

RestartKills ==
  /\ pc["ipc"] = "kill"
  /\ host' = "noticed" /\ hostCmd' = None /\ reached' = FALSE
  /\ overtaken' = overtaken \cup At({"mark"}) /\ masked' = sent
  /\ pc' = [pc EXCEPT !["ipc"] = "spawn"]
  /\ UNCHANGED <<guarded, pending, sent, arg, restarting, sets, deaths, busy>>

\* A failed CreateProcess is HostSupervisor's; a host that the monitor has spawned
\* meanwhile is left alone, and one that died since is replaced before the monitor
\* has noticed (if it still does, it lowers the flag and sends again).
RestartSpawns ==
  /\ pc["ipc"] = "spawn"
  /\ host' = "up" /\ masked' = (masked \/ (host = "dead" /\ sent))
  /\ \/ /\ host # "up" /\ pending # None /\ ~sent
        /\ pc' = [pc EXCEPT !["ipc"] = "send"] /\ arg' = [arg EXCEPT !["ipc"] = pending]
     \/ /\ host = "up" \/ pending = None \/ sent
        /\ pc' = [pc EXCEPT !["ipc"] = "set"] /\ UNCHANGED arg
  /\ UNCHANGED <<guarded, pending, sent, hostCmd, restarting, reached, overtaken, sets, deaths,
                 busy>>

\* The captions module then sets its config again, the one it was built with when
\* no request has brought one.  The face module sets nothing.
RestartSets ==
  /\ pc["ipc"] = "set" /\ restarting' = FALSE
  /\ \/ guarded /\ SetCommand(IF pending = None THEN Initial ELSE pending)
     \/ /\ ~guarded
        /\ pc' = [pc EXCEPT !["ipc"] = "idle"] /\ sets' = sets + 1
        /\ UNCHANGED <<guarded, pending, sent, arg, host, hostCmd, reached, overtaken, masked,
                       deaths, busy>>

\* The monitor's tick, while it believes the host to be alive.
OnHostReady ==
  /\ pc["mon"] = "idle" /\ host # "noticed"
  /\ pending # None /\ ~sent
  /\ pc' = [pc EXCEPT !["mon"] = "send"] /\ arg' = [arg EXCEPT !["mon"] = pending]
  /\ UNCHANGED <<guarded, pending, sent, host, hostCmd, restarting, reached, overtaken, masked,
                 sets, deaths, busy>>

\* Back in the monitor's round, in the request, or in Restart.
Returns(t) ==
  /\ pc' = [pc EXCEPT ![t] = IF t = "ipc" /\ restarting THEN "set" ELSE "idle"]
  /\ arg' = [arg EXCEPT ![t] = None]
  /\ overtaken' = overtaken \ {t}

\* SendBytesOverControlPipe: it needs a live host and a free pipe instance.
WriteSucceeds(t) ==
  /\ pc[t] = "send" /\ host = "up"
  /\ hostCmd' = arg[t]
  /\ reached' = (reached \/ arg[t] = pending)
  /\ pc' = [pc EXCEPT ![t] = "mark"]
  /\ UNCHANGED <<guarded, pending, sent, arg, host, restarting, overtaken, masked, sets, deaths,
                 busy>>

WriteFails(t) ==
  /\ pc[t] = "send"
  /\ \/ host # "up" /\ UNCHANGED busy
     \/ host = "up" /\ busy < MaxBusy /\ busy' = busy + 1
  /\ Returns(t)
  /\ UNCHANGED <<guarded, pending, sent, host, hostCmd, restarting, reached, masked, sets, deaths>>

MarkSent(t) ==
  /\ pc[t] = "mark"
  /\ \/ /\ ~guarded \/ arg[t] = pending
        /\ sent' = TRUE /\ masked' = (masked \/ t \in overtaken)
     \/ guarded /\ arg[t] # pending /\ UNCHANGED <<sent, masked>>
  /\ Returns(t)
  /\ UNCHANGED <<guarded, pending, host, hostCmd, restarting, reached, sets, deaths, busy>>

\* The host dies; the monitor notices (OnHostExited) and starts the next one.
HostDies ==
  /\ host = "up" /\ deaths < MaxDeaths
  /\ host' = "dead" /\ deaths' = deaths + 1
  /\ hostCmd' = None /\ reached' = FALSE
  /\ overtaken' = overtaken \cup At({"mark"})
  /\ UNCHANGED <<guarded, pending, sent, pc, arg, restarting, masked, sets, busy>>

OnHostExited ==
  /\ host = "dead" /\ pc["mon"] = "idle"
  /\ host' = "noticed"
  /\ OnHostExitedFlag
  /\ UNCHANGED <<guarded, pending, pc, arg, hostCmd, restarting, reached, overtaken, sets, deaths,
                 busy>>

HostSpawned ==
  /\ host = "noticed" /\ pc["mon"] = "idle"
  /\ host' = "up"
  /\ UNCHANGED <<guarded, pending, sent, pc, arg, hostCmd, restarting, reached, overtaken, masked,
                 sets, deaths, busy>>

\* Nothing is pending and nobody is in the middle of a write.
Quiet == (\A t \in Threads : pc[t] = "idle") /\ UNCHANGED vars

Send(t)  == WriteSucceeds(t) \/ WriteFails(t) \/ MarkSent(t)
Monitor  == OnHostReady \/ OnHostExited \/ HostSpawned
Restart  == RestartExits \/ RestartKills \/ RestartSpawns \/ RestartSets
Next == \/ \E c \in Commands : HandleRequest(c)
        \/ Restart
        \/ \E t \in Threads : Send(t)
        \/ Monitor \/ HostDies \/ Quiet

Spec == Init /\ [][Next]_vars

\* Both threads run. Every round of the monitor ends in a wait that a dead host
\* ends at once, so it cannot go on sending without noticing the death.
FairSpec ==
  /\ Spec
  /\ WF_vars(Monitor) /\ SF_vars(OnHostExited)
  /\ \A t \in Threads : WF_vars(Send(t))
  /\ WF_vars(RestartKills \/ RestartSpawns \/ RestartSets)

(***************************************************************************)
(* Properties.                                                             *)
(***************************************************************************)

\* A command that is set and not replaced reaches the running host in the end, and
\* every host that follows one that died, though its own write may fail and the
\* monitor may be sending an older one. The exception is a flag that stands for an
\* overtaken write: a thread had written, or was writing, when a newer command came
\* or the host went, and raised the flag afterwards, or it raised the flag between
\* Restart's OnHostExited and its Kill. The face supervisor does so for any command;
\* captions only if what it wrote is what is pending.
PendingIsSent == [](pending # None => <>(reached \/ masked))

=============================================================================
