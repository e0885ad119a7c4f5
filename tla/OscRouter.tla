------------------------------- MODULE OscRouter -------------------------------
(***************************************************************************)
(* The OSC router driver module: the bounded send queue, the worker that   *)
(* empties it to the UDP socket, the publish pipe and the worker that      *)
(* reads it, the three publishers (the face-tracking worker in-process,    *)
(* the router's IPC thread, the captions host over the publish pipe) and   *)
(* the shutdown of the modules that Cleanup runs in reverse order.         *)
(*                                                                         *)
(* The publish pipe is a byte stream; here it is a sequence of 4-byte      *)
(* words, each represented by the frame length it would mean, in words, if *)
(* the worker took it for a length: Big stands for every word that is no   *)
(* legal length. Sizes are the real ones: the source identifier has 8      *)
(* words, "/chatbox/input" 4 and the type tag 2. Texts whose last word     *)
(* would be a legal length that is not a multiple of four are left out.    *)
(***************************************************************************)
EXTENDS Naturals, Sequences

CONSTANTS Capacity,      \* kSendQueueCapacity
          MaxFrame,      \* kSendQueueEntryMaxSize, in words
          Tails,         \* the values the last word of a caption can have
          MaxWords,      \* bound: words of a caption
          MaxCalls,      \* bound: calls of PublishChatbox
          MaxLocal       \* bound: messages from each in-process publisher

Big == MaxFrame + 1
Word == 0 .. Big

ASSUME ConstantsAssumption ==
  /\ Capacity \in Nat \ {0}
  /\ MaxFrame \in Nat \ {0}
  /\ Tails \subseteq Word
  /\ MaxWords \in Nat /\ MaxCalls \in Nat /\ MaxLocal \in Nat

IdWords  == 8
SourceId == <<Big, Big, Big, 0, 0, 0, 0, 0>>
Header   == <<Big, Big, Big, Big, Big, 0>>
Caption(n, tail) == Header \o [i \in 1 .. n |-> IF i = n THEN tail ELSE Big]
Captions == {Caption(n, t) : n \in 1 .. MaxWords, t \in Tails}

Source == {"facetracking", "ipc", "pipe"}
Entry  == [src : Source, body : Seq(Nat)]
NoEntry == [src |-> "ipc", body |-> <<>>]

VARIABLES
  queue, qHead, qTail, qCount,   \* queue_[], qHead_, qTail_, qCount_
  stop, active,                  \* stop_, g_activeRouter # nullptr
  sendPc, entry,                 \* SendWorkerMain and its local entry
  pubPc, frameLen, frameBuf,     \* PubPipeWorkerMain and its locals
  pipe, wire,                    \* the pipe instance and the unread words
  client, hostPc, packet, attempt, calls,  \* RouterPublisher in the captions host
  attached,                      \* attached_to_existing_: the host is not a child
  facePc, faceStop, faceCount,   \* the face-tracking module's worker
  ipcCount,
  cur,                           \* how far Cleanup has come
  sentOn, gotOn, refused         \* history: what this connection carried

queueVars == <<queue, qHead, qTail, qCount>>
sendVars  == <<sendPc, entry>>
pubVars   == <<pubPc, frameLen, frameBuf>>
pipeVars  == <<pipe, wire>>
hostVars  == <<hostPc, packet, attempt, calls, attached>>
faceVars  == <<facePc, faceStop, faceCount>>
histVars  == <<sentOn, gotOn, refused>>
vars == <<queueVars, stop, active, sendVars, pubVars, pipeVars, client, hostVars,
          faceVars, ipcCount, cur, histVars>>

Slot == 0 .. Capacity - 1

TypeOK ==
  /\ queue \in [Slot -> Entry]
  /\ qHead \in Slot /\ qTail \in Slot /\ qCount \in 0 .. Capacity
  /\ stop \in BOOLEAN /\ active \in BOOLEAN
  /\ sendPc \in {"check", "wait", "stopped"}
  /\ entry \in Entry
  /\ pubPc \in {"check", "wait", "expired", "next", "id", "len", "frame",
               "chunk", "close", "stopped"}
  /\ frameLen \in Nat /\ frameBuf \in Seq(Nat)
  /\ pipe \in {"absent", "listening", "connected"}
  /\ wire \in Seq(Nat)
  /\ client \in {"closed", "linked", "stale"}
  /\ hostPc \in {"idle", "connect", "len", "payload", "dead"}
  /\ packet \in Seq(Nat) /\ attempt \in {0, 1} /\ calls \in Nat
  /\ attached \in BOOLEAN
  /\ facePc \in {"poll", "loaded", "checked", "ended"}
  /\ faceStop \in BOOLEAN /\ faceCount \in Nat
  /\ ipcCount \in Nat
  /\ cur \in 0 .. 5
  /\ sentOn \in Seq(Seq(Nat)) /\ gotOn \in Seq(Seq(Nat)) /\ refused \in BOOLEAN

Init ==
  /\ queue = [i \in Slot |-> NoEntry] /\ qHead = 0 /\ qTail = 0 /\ qCount = 0
  /\ stop = FALSE /\ active = TRUE
  /\ sendPc = "check" /\ entry = NoEntry
  /\ pubPc = "check" /\ frameLen = 0 /\ frameBuf = <<>>
  /\ pipe = "absent" /\ wire = <<>>
  /\ client = "closed"
  /\ hostPc = "idle" /\ packet = <<>> /\ attempt = 0 /\ calls = 0
  /\ attached \in BOOLEAN
  /\ facePc = "poll" /\ faceStop = FALSE /\ faceCount = 0
  /\ ipcCount = 0
  /\ cur = 0
  /\ sentOn = <<>> /\ gotOn = <<>> /\ refused = FALSE

-----------------------------------------------------------------------------
(* The queue, under queueMutex_.                                           *)

EnqueueLocked_Wraps(e) ==
  /\ queue' = [queue EXCEPT ![qTail] = e]
  /\ qTail' = (qTail + 1) % Capacity
  /\ qCount' = IF qCount < Capacity THEN qCount + 1 ELSE qCount
  /\ UNCHANGED qHead

EnqueueLocked(e) ==
  \/ /\ qCount < Capacity
     /\ queue' = [queue EXCEPT ![qTail] = e]
     /\ qTail' = (qTail + 1) % Capacity
     /\ qCount' = qCount + 1
     /\ UNCHANGED qHead
  \/ /\ qCount >= Capacity
     /\ UNCHANGED queueVars

\* SendWorkerMain: the loop test, and the wait, which ends with the lock held when
\* there is an entry, after 50 ms, or when stop_ is set. What follows the unlock
\* (the UDP send and the statistics) touches none of this state.
SendCheck ==
  /\ sendPc = "check"
  /\ sendPc' = IF stop THEN "stopped" ELSE "wait"
  /\ UNCHANGED <<queueVars, stop, active, entry, pubVars, pipeVars, client, hostVars,
                 faceVars, ipcCount, cur, histVars>>

SendTake ==
  /\ sendPc = "wait"
  /\ qCount > 0
  /\ entry' = queue[qHead]
  /\ qHead' = (qHead + 1) % Capacity
  /\ qCount' = qCount - 1
  /\ sendPc' = "check"
  /\ UNCHANGED <<queue, qTail, stop, active, pubVars, pipeVars, client, hostVars,
                 faceVars, ipcCount, cur, histVars>>

SendTimeout ==
  /\ sendPc = "wait"
  /\ qCount = 0
  /\ sendPc' = "check"
  /\ UNCHANGED <<queueVars, stop, active, entry, pubVars, pipeVars, client, hostVars,
                 faceVars, ipcCount, cur, histVars>>

-----------------------------------------------------------------------------
(* PubPipeWorkerMain.                                                      *)

PubUnchanged == UNCHANGED <<stop, active, sendVars, hostVars, faceVars, ipcCount, cur>>

\* The outer loop test and CreateNamedPipe; a failing CreateNamedPipe sleeps
\* and tries again, a failing CreateEvent ends the worker.
PubCreate ==
  /\ pubPc = "check" /\ ~stop
  /\ pipe' = "listening"
  /\ pubPc' = "wait"
  /\ UNCHANGED <<queueVars, frameLen, frameBuf, wire, client, histVars>>
  /\ PubUnchanged

PubStop ==
  /\ pubPc = "check" /\ stop
  /\ pubPc' = "stopped"
  /\ UNCHANGED <<queueVars, frameLen, frameBuf, pipeVars, client, histVars>>
  /\ PubUnchanged

PubCreateEventFails ==
  /\ pubPc = "check" /\ ~stop
  /\ pubPc' = "stopped"
  /\ UNCHANGED <<queueVars, frameLen, frameBuf, pipeVars, client, histVars>>
  /\ PubUnchanged

PubConnected ==
  /\ pubPc = "wait" /\ pipe = "connected"
  /\ pubPc' = "next"
  /\ UNCHANGED <<queueVars, frameLen, frameBuf, pipeVars, client, histVars>>
  /\ PubUnchanged

\* The 500 ms wait ends without a client; one may still connect before the
\* instance is closed.
PubTimeout ==
  /\ pubPc = "wait" /\ pipe = "listening"
  /\ pubPc' = "expired"
  /\ UNCHANGED <<queueVars, frameLen, frameBuf, pipeVars, client, histVars>>
  /\ PubUnchanged

\* DisconnectNamedPipe and CloseHandle: what was not read is discarded.
PubClose ==
  /\ pubPc \in {"expired", "close"}
  /\ pipe' = "absent" /\ wire' = <<>>
  /\ client' = IF client = "linked" THEN "stale" ELSE client
  /\ pubPc' = "check"
  /\ frameLen' = 0 /\ frameBuf' = <<>>
  /\ sentOn' = <<>> /\ gotOn' = <<>> /\ refused' = FALSE
  /\ UNCHANGED queueVars
  /\ PubUnchanged

PubNext ==
  /\ pubPc = "next"
  /\ pubPc' = IF stop THEN "close" ELSE "id"
  /\ UNCHANGED <<queueVars, frameLen, frameBuf, pipeVars, client, histVars>>
  /\ PubUnchanged

\* A ReadFile on the byte pipe returns what is there, at most n words.
Got(n)  == IF n <= Len(wire) THEN n ELSE Len(wire)
Rest(n) == SubSeq(wire, n + 1, Len(wire))

ReadId ==
  /\ pubPc = "id" /\ wire # <<>>
  /\ wire' = Rest(Got(IdWords))
  /\ pubPc' = IF Got(IdWords) = IdWords THEN "len" ELSE "close"
  /\ refused' = (Got(IdWords) # IdWords)
  /\ UNCHANGED <<queueVars, frameLen, frameBuf, pipe, client, sentOn, gotOn>>
  /\ PubUnchanged

ReadLen ==
  /\ pubPc = "len" /\ wire # <<>>
  /\ wire' = Rest(1)
  /\ LET legal == wire[1] \in 1 .. MaxFrame IN
       /\ pubPc' = IF legal THEN "frame" ELSE "close"
       /\ refused' = ~legal
  /\ frameLen' = wire[1] /\ frameBuf' = <<>>
  /\ UNCHANGED <<queueVars, pipe, client, sentOn, gotOn>>
  /\ PubUnchanged

\* The chunk loop looks at stop_ before each read, not during one.
FrameTest ==
  /\ pubPc = "frame" /\ Len(frameBuf) < frameLen
  /\ pubPc' = IF stop THEN "close" ELSE "chunk"
  /\ UNCHANGED <<queueVars, frameLen, frameBuf, pipeVars, client, histVars>>
  /\ PubUnchanged

ReadChunk ==
  /\ pubPc = "chunk" /\ wire # <<>>
  /\ LET n == Got(frameLen - Len(frameBuf)) IN
       /\ frameBuf' = frameBuf \o SubSeq(wire, 1, n)
       /\ wire' = Rest(n)
  /\ pubPc' = "frame"
  /\ UNCHANGED <<queueVars, frameLen, pipe, client, histVars>>
  /\ PubUnchanged

\* The client's end is gone and everything it wrote has been read: ReadFile
\* fails. While the client holds its end open and writes nothing, it blocks.
ReadEnds ==
  /\ pubPc \in {"id", "len", "chunk"} /\ wire = <<>> /\ client # "linked"
  /\ pubPc' = "close"
  /\ UNCHANGED <<queueVars, frameLen, frameBuf, pipeVars, client, histVars>>
  /\ PubUnchanged

EnqueueFrame ==
  /\ pubPc = "frame" /\ Len(frameBuf) = frameLen
  /\ EnqueueLocked([src |-> "pipe", body |-> frameBuf])
  /\ gotOn' = Append(gotOn, frameBuf)
  /\ frameLen' = 0 /\ frameBuf' = <<>>
  /\ pubPc' = "next"
  /\ UNCHANGED <<pipeVars, client, sentOn, refused>>
  /\ PubUnchanged

-----------------------------------------------------------------------------
(* RouterPublisher in the captions host.                                   *)

HostUnchanged == UNCHANGED <<queueVars, stop, active, sendVars, pubVars, attached, faceVars,
                             ipcCount, cur>>

PublishChatbox(p) ==
  /\ hostPc = "idle" /\ calls < MaxCalls
  /\ packet' = p /\ attempt' = 0 /\ calls' = calls + 1
  /\ hostPc' = IF client = "closed" THEN "connect" ELSE "len"
  /\ UNCHANGED <<pipeVars, client, histVars>>
  /\ HostUnchanged

\* Connect writes the source identifier, once per connection. It fails when no
\* instance of the pipe is free: the call backs off and returns false.
Connect ==
  /\ hostPc = "connect"
  /\ \/ /\ pipe = "listening"
        /\ pipe' = "connected" /\ client' = "linked"
        /\ wire' = SourceId
        /\ hostPc' = "len" /\ UNCHANGED <<packet, attempt>>
        /\ sentOn' = <<>> /\ gotOn' = <<>> /\ refused' = FALSE
     \/ /\ pipe # "listening"
        /\ hostPc' = "idle" /\ packet' = <<>> /\ attempt' = 0
        /\ UNCHANGED <<pipeVars, client, histVars>>
  /\ UNCHANGED calls
  /\ HostUnchanged

\* Each packet is its length and its bytes, in two writes.
WriteLen ==
  /\ hostPc = "len" /\ client = "linked"
  /\ wire' = Append(wire, Len(packet))
  /\ hostPc' = "payload"
  /\ UNCHANGED <<pipe, client, packet, attempt, calls, histVars>>
  /\ HostUnchanged

WritePacket ==
  /\ hostPc = "payload" /\ client = "linked"
  /\ wire' = wire \o packet
  /\ sentOn' = Append(sentOn, packet)
  /\ hostPc' = "idle" /\ packet' = <<>> /\ attempt' = 0
  /\ UNCHANGED <<pipe, client, calls, gotOn, refused>>
  /\ HostUnchanged

\* A write on a pipe the router closed fails: disconnect and retry once.
WriteFails ==
  /\ hostPc \in {"len", "payload"} /\ client = "stale"
  /\ client' = "closed"
  /\ IF attempt = 0
       THEN hostPc' = "connect" /\ attempt' = 1 /\ UNCHANGED packet
       ELSE hostPc' = "idle" /\ attempt' = 0 /\ packet' = <<>>
  /\ UNCHANGED <<pipeVars, calls, histVars>>
  /\ HostUnchanged

\* The host process ends at any point, and its supervisor starts another one
\* until the captions module is shut down.
HostCrash ==
  /\ hostPc # "dead"
  /\ hostPc' = "dead" /\ client' = "closed" /\ packet' = <<>> /\ attempt' = 0
  /\ UNCHANGED <<pipeVars, calls, histVars>>
  /\ HostUnchanged

-----------------------------------------------------------------------------
(* The in-process publishers.                                              *)

LocalUnchanged == UNCHANGED <<stop, active, sendVars, pubVars, pipeVars, client, hostVars, cur, histVars>>

\* PublishOsc of the publish API: without a router the message is dropped.
FaceLoad ==
  /\ facePc = "poll" /\ faceCount < MaxLocal
  /\ faceCount' = faceCount + 1
  /\ facePc' = IF active THEN "loaded" ELSE "poll"
  /\ UNCHANGED <<queueVars, faceStop, ipcCount>>
  /\ LocalUnchanged

FaceCheck ==
  /\ facePc = "loaded"
  /\ facePc' = IF stop THEN "poll" ELSE "checked"
  /\ UNCHANGED <<queueVars, faceStop, faceCount, ipcCount>>
  /\ LocalUnchanged

FaceEnqueue ==
  /\ facePc = "checked"
  /\ EnqueueLocked([src |-> "facetracking", body |-> <<faceCount>>])
  /\ facePc' = "poll"
  /\ UNCHANGED <<faceStop, faceCount, ipcCount>>
  /\ LocalUnchanged

FaceEnds ==
  /\ facePc = "poll" /\ faceStop
  /\ facePc' = "ended"
  /\ UNCHANGED <<queueVars, faceStop, faceCount, ipcCount>>
  /\ LocalUnchanged

\* HandlePublish on the IPC thread does not look at stop_; it finds the router
\* as long as the module is listed.
HandlePublish ==
  /\ cur < 5 /\ ipcCount < MaxLocal
  /\ ipcCount' = ipcCount + 1
  /\ EnqueueLocked([src |-> "ipc", body |-> <<ipcCount + 1>>])
  /\ UNCHANGED faceVars
  /\ LocalUnchanged

-----------------------------------------------------------------------------
(* Cleanup: Shutdown of the active modules in reverse order, then the list *)
(* is cleared, which destroys them. cur is 0 before Cleanup, k while the   *)
(* k-th module shuts down, 4 when all have, 5 once the list is cleared.    *)

activeModules == <<"oscrouter", "facetracking", "captions">>
ShutdownOrder_Forward == activeModules
ShutdownOrder == [i \in 1 .. 3 |-> activeModules[4 - i]]

Shutting(m) == cur \in 1 .. 3 /\ ShutdownOrder[cur] = m

CleanupUnchanged == UNCHANGED <<queueVars, sendVars, pubVars, pipeVars, calls, attached, facePc,
                                faceCount, ipcCount, histVars>>

CleanupBegins ==
  /\ cur = 0
  /\ cur' = 1
  /\ UNCHANGED <<stop, active, client, hostPc, packet, attempt, faceStop>>
  /\ CleanupUnchanged

CaptionsShutdown_LeavesHost ==
  /\ Shutting("captions")
  /\ cur' = cur + 1
  /\ UNCHANGED <<stop, active, client, hostPc, packet, attempt, faceStop>>
  /\ CleanupUnchanged

\* The captions module stops its supervisor, which kills the host it started; a
\* host it only attached to lives on.
CaptionsShutdown ==
  /\ Shutting("captions")
  /\ IF attached
       THEN UNCHANGED <<client, hostPc, packet, attempt>>
       ELSE client' = "closed" /\ hostPc' = "dead" /\ packet' = <<>> /\ attempt' = 0
  /\ cur' = cur + 1
  /\ UNCHANGED <<stop, active, faceStop>>
  /\ CleanupUnchanged

FaceStopRequest ==
  /\ Shutting("facetracking") /\ ~faceStop
  /\ faceStop' = TRUE
  /\ UNCHANGED <<stop, active, client, hostPc, packet, attempt, cur>>
  /\ CleanupUnchanged

FaceJoin ==
  /\ Shutting("facetracking") /\ faceStop /\ facePc = "ended"
  /\ cur' = cur + 1
  /\ UNCHANGED <<stop, active, client, hostPc, packet, attempt, faceStop>>
  /\ CleanupUnchanged

RouterDeregister ==
  /\ Shutting("oscrouter") /\ active
  /\ active' = FALSE
  /\ UNCHANGED <<stop, client, hostPc, packet, attempt, faceStop, cur>>
  /\ CleanupUnchanged

RouterStop ==
  /\ Shutting("oscrouter") /\ ~active /\ ~stop
  /\ stop' = TRUE
  /\ UNCHANGED <<active, client, hostPc, packet, attempt, faceStop, cur>>
  /\ CleanupUnchanged

RouterJoin ==
  /\ Shutting("oscrouter") /\ stop /\ sendPc = "stopped" /\ pubPc = "stopped"
  /\ cur' = cur + 1
  /\ UNCHANGED <<stop, active, client, hostPc, packet, attempt, faceStop>>
  /\ CleanupUnchanged

ClearModules ==
  /\ cur = 4
  /\ cur' = 5
  /\ UNCHANGED <<stop, active, client, hostPc, packet, attempt, faceStop>>
  /\ CleanupUnchanged

\* The supervisor's respawn, while the captions module is up.
HostStart ==
  /\ hostPc = "dead" /\ \E k \in 1 .. 3 : cur <= k /\ ShutdownOrder[k] = "captions"
  /\ hostPc' = "idle" /\ attached' = FALSE
  /\ UNCHANGED <<stop, active, client, packet, attempt, calls, faceStop, cur>>
  /\ UNCHANGED <<queueVars, sendVars, pubVars, pipeVars, facePc, faceCount, ipcCount, histVars>>

-----------------------------------------------------------------------------
SendWorker == SendCheck \/ SendTake \/ SendTimeout
PubWorker ==
  \/ PubCreate \/ PubStop \/ PubCreateEventFails \/ PubConnected \/ PubTimeout \/ PubClose \/ PubNext
  \/ ReadId \/ ReadLen \/ FrameTest \/ ReadChunk \/ ReadEnds \/ EnqueueFrame
Host ==
  \/ \E p \in Captions : PublishChatbox(p)
  \/ Connect \/ WriteLen \/ WritePacket \/ WriteFails \/ HostCrash \/ HostStart
FaceWorker == FaceLoad \/ FaceCheck \/ FaceEnqueue \/ FaceEnds
Cleanup ==
  \/ CaptionsShutdown \/ FaceStopRequest \/ FaceJoin
  \/ RouterDeregister \/ RouterStop \/ RouterJoin \/ ClearModules

Next == SendWorker \/ PubWorker \/ Host \/ FaceWorker \/ HandlePublish \/ CleanupBegins \/ Cleanup

Spec == Init /\ [][Next]_vars

\* The threads of the driver are scheduled and Cleanup's thread runs on once it
\* began. Nothing is assumed of the captions host, of the IPC thread or that
\* Cleanup is ever called.
FairSpec == Spec /\ WF_vars(SendWorker) /\ WF_vars(PubWorker) /\ WF_vars(FaceWorker) /\ WF_vars(Cleanup)

-----------------------------------------------------------------------------
(* Properties.                                                             *)

\* What is queued, oldest first.
Contents == [i \in 1 .. qCount |-> queue[(qHead + i - 1) % Capacity]]

\* The circular buffer of EnqueueLocked and SendWorkerMain, with its three indices
\* and three producers, is a bounded first-in first-out queue: entries leave whole,
\* once, in the order in which they were accepted.
Fifo == INSTANCE SendQueue WITH Packets <- Entry, fifo <- Contents, out <- entry
ImplementsFifo == Fifo!Spec

\* A driver thread inside PublishOsc is never inside a router that finished its
\* Shutdown: Cleanup shuts the modules down in reverse order, so the face worker is
\* joined before the router closes its socket and its statistics.
PublisherSafe ==
  facePc \in {"loaded", "checked"} =>
    \A k \in 1 .. 3 : ShutdownOrder[k] = "oscrouter" => cur <= k

\* An attached captions host keeps its end of the publish pipe open and writes no more;
\* the worker waits for it in ReadFile.
HeldByHost ==
  attached /\ client = "linked" /\ wire = <<>> /\ pubPc \in {"id", "len", "chunk"}

\* Cleanup, once begun, ends: Shutdown's joins of the two workers come back although
\* the publish-pipe worker blocks in ReadFile without a timeout. The one exception is
\* a captions host that the supervisor attached to and so does not kill, which stays
\* connected and silent for good.
CleanupEnds == (cur = 1) ~> (cur = 5 \/ []HeldByHost)

\* RouterPublisher.h: "Write 32-byte source identifier", then "Per packet: 4-byte LE
\* uint32 length + `length` bytes of raw OSC" is the protocol "per the router's
\* PubPipeWorkerMain": a host that follows it has all its captions decoded in order
\* and is never disconnected for what it wrote.
WireAgreed ==
  /\ ~refused
  /\ Len(gotOn) <= Len(sentOn)
  /\ \A i \in 1 .. Len(gotOn) : gotOn[i] = sentOn[i]
=============================================================================
