----------------------------- MODULE MCExchange -----------------------------
(***************************************************************************)
(* What processes and threads hand each other: face frames (FrameRing),    *)
(* poses (PoseRing), tables of slots (SlotTable), a host's command         *)
(* (CommandDelivery), its status file (StatusFile), and what the captions  *)
(* host hears (CaptionsHost).  The parts share no variable: a behaviour is *)
(* one of one part, and the others stay as they began.                     *)
(***************************************************************************)
EXTENDS FrameRing

CONSTANTS
    BUFFERED_SAMPLES, MaxPoses, MaxStops,                    \* PoseRing
    TableSlots, MaxPasses,                                     \* SlotTable
    Commands, NoCommand, Initial, MaxSets, MaxDeaths, MaxBusy,  \* CommandDelivery
    Pids, StaleAfter,                                        \* StatusFile
    de, fr, NoLanguage, kFrameSamples, VadSamples, kSilenceFrames,  \* CaptionsHost
    kQueueCap, LongEnough, MaxMic, MaxConfigs, MaxUser

ASSUME CommandsAssumption == NoCommand \notin Commands /\ Initial \in Commands
ASSUME PosesAssumption == BUFFERED_SAMPLES \in Nat /\ BUFFERED_SAMPLES >= 4 /\ MaxPoses \in Nat
ASSUME TableAssumption == TableSlots \subseteq Nat /\ 1 \in TableSlots

VARIABLES
    part,
    driver, index, ring, written, overlay, linked, cursor, until, during, got, stops,
    slotGen, words, publisher, slot, prev, pass, mapped, slotRpc, rslot, slotG1, copy,
    attempt, shown, hurt, slotStops,
    guarded, pending, sent, pc, arg, host, hostCmd, restarting, reached, overtaken, masked,
    sets, deaths, busy,
    process, last, filePc, bit, file, changed, ppc, due, snap, stale, age,
    up, config, configs, button, mic, vad, at, held, heard, cfg, inSpeech, silence, wasHeld,
    buf, packs, engine, captions, paced, acts

\* Two translation targets, and three configs of the captions.
Targets == {de, fr}
Settings == {[mode |-> "ptt", tgt |-> de], [mode |-> "ptt", tgt |-> fr],
             [mode |-> "always", tgt |-> NoLanguage]}

Poses == INSTANCE PoseRing
Table == INSTANCE SlotTable
           WITH Slots <- TableSlots, gen <- slotGen, driver <- publisher,
                rpc <- slotRpc, g1 <- slotG1, stops <- slotStops
Command == INSTANCE CommandDelivery WITH None <- NoCommand
Status == INSTANCE StatusFile WITH host <- process, wpc <- filePc
Captions == INSTANCE CaptionsHost
              WITH Languages <- Targets, Configs <- Settings, None <- NoLanguage,
                   sets <- configs, frames <- heard, queue <- captions

frameVars == vars
poseVars == <<driver, index, ring, written, overlay, linked, cursor, until, during, got, stops>>
slotVars == <<slotGen, words, publisher, slot, prev, pass, mapped, slotRpc, rslot, slotG1,
              copy, attempt, shown, hurt, slotStops>>
commandVars == <<guarded, pending, sent, pc, arg, host, hostCmd, restarting, reached, overtaken,
                 masked, sets, deaths, busy>>
statusVars == <<process, last, filePc, bit, file, changed, ppc, due, snap, stale, age>>
captionVars == <<up, config, configs, button, mic, vad, at, held, heard, cfg, inSpeech,
                 silence, wasHeld, buf, packs, engine, captions, paced, acts>>
allVars == <<part, frameVars, poseVars, slotVars, commandVars, statusVars, captionVars>>

\* The process that ran last is a choice, of the status file's part, and which of the
\* supervisors runs is one of the command's.
AtRest ==
    /\ part # "status" => last = CHOOSE p \in Pids : TRUE
    /\ part # "command" => guarded

MCInit ==
    /\ part \in {"frames", "poses", "slots", "command", "status", "captions"}
    /\ Init /\ Poses!Init /\ Table!Init /\ Command!Init /\ Status!Init /\ Captions!Init
    /\ AtRest

MCNext ==
    /\ UNCHANGED part
    /\ \/ /\ part = "frames" /\ Next
          /\ UNCHANGED <<poseVars, slotVars, commandVars, statusVars, captionVars>>
       \/ /\ part = "poses" /\ Poses!Next
          /\ UNCHANGED <<frameVars, slotVars, commandVars, statusVars, captionVars>>
       \/ /\ part = "slots" /\ Table!Next
          /\ UNCHANGED <<frameVars, poseVars, commandVars, statusVars, captionVars>>
       \/ /\ part = "command" /\ Command!Next
          /\ UNCHANGED <<frameVars, poseVars, slotVars, statusVars, captionVars>>
       \/ /\ part = "status" /\ Status!Next
          /\ UNCHANGED <<frameVars, poseVars, slotVars, commandVars, captionVars>>
       \/ /\ part = "captions" /\ Captions!Next
          /\ UNCHANGED <<frameVars, poseVars, slotVars, commandVars, statusVars>>

\* The fairness of each part while it runs.
MCFairness ==
    /\ WF_frameVars(part = "frames" /\ WorkerStep)
    /\ WF_frameVars(part = "frames" /\ HostStep /\ wpc # "idle")
    /\ WF_commandVars(part = "command" /\ Command!Monitor)
    /\ SF_commandVars(part = "command" /\ Command!OnHostExited)
    /\ \A t \in Command!Threads : WF_commandVars(part = "command" /\ Command!Send(t))
    /\ WF_commandVars(part = "command" /\ (Command!RestartKills \/ Command!RestartSpawns \/ Command!RestartSets))
    /\ WF_statusVars(part = "status" /\ (Status!TickWaits \/ Status!TickUnchanged \/ Status!TickOpens))
    /\ WF_statusVars(part = "status" /\ (Status!ReadOpens \/ Status!ReadOk \/ Status!ReadFails))
    /\ SF_statusVars(part = "status" /\ Status!ReadOpens)
    /\ SF_statusVars(part = "status" /\ Status!ReadOk)
    /\ WF_statusVars(part = "status" /\ Status!TimePasses)
    /\ WF_statusVars(part = "status" /\ Status!WriteTmp)
    /\ SF_statusVars(part = "status" /\ Status!Rename /\ ppc = "idle")
    /\ WF_captionVars(part = "captions" /\ Captions!Loop)
    /\ WF_captionVars(part = "captions" /\ Captions!Captures)
    /\ WF_captionVars(part = "captions" /\ Captions!GapEnds)

MCSpec == MCInit /\ [][MCNext]_allVars /\ MCFairness

\* Whole poses, in the order they were written, none twice: PoseRing, for
\* DriverPoseShmem and ReopenShmem.
PosesInOrder == Poses!PosesInOrder

\* No part of two writes is shown as one, unless a kill interrupted the slot's
\* write: SlotTable, for WriteSlot and TryReadSlot.
NoTornSlot == Table!NoTornSlot

\* A command that is set reaches the host and the hosts after it, unless the flag
\* stands for a write that was overtaken: CommandDelivery, for both supervisors'
\* SetActiveModuleUuid and SetHostConfigCommand.
PendingIsSent == part = "command" => Command!PendingIsSent

\* What the overlay shows of a host follows its process: StatusFile, for
\* HostStatusWriter and HostStatusPoller.
StatusFollows == part = "status" => Status!StatusFollows

\* What was said while the button was held is transcribed after its release:
\* CaptionsHost, for the push-to-talk branch of the loop.
ReleaseIsFlushed == part = "captions" => Captions!ReleaseIsFlushed
=============================================================================
