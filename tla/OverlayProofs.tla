--------------------------- MODULE OverlayProofs ---------------------------
(***************************************************************************)
(* Proofs of what the parts of the overlay promise, for any bounds: the    *)
(* answers on the pipe, the migrated port, the runtime of the caption      *)
(* packs, the saved calibration and the switches of the modules.           *)
(***************************************************************************)
EXTENDS MCOverlay, TLAPS

-----------------------------------------------------------------------------
(* The pipe.                                                               *)

Frames == [fn : {"send", "connect"}, what : Parts \cup Commands \cup {"handshake"},
           st : {"first", "second", "recv1", "recv2", "re", "open", "hs"}, n : 0..3]

\* A request was sent and its answer is waited for.
Waiting == act = "run" /\ At("send", {"recv1", "recv2"})

IpcTypes ==
  /\ stack \in Seq(Frames) /\ todo \in Seq(Parts \cup Commands) /\ seq \in 0..3
  /\ plugin \in Plugins

\* What is in the pipe belongs to the request that is waited for, and it is empty
\* while none is.
PipeInv ==
  \/ chan.req = <<>> /\ chan.resp = <<>>
  \/ /\ Waiting /\ chan.resp = <<>>
     /\ \E w : chan.req = <<[what |-> w, n |-> Top.n]>>
  \/ /\ Waiting /\ chan.req = <<>>
     /\ \E o : chan.resp = <<[n |-> Top.n, ours |-> o]>>

\* The channel is a record.
ChanShape == chan = [peer |-> chan.peer, req |-> chan.req, resp |-> chan.resp]

IpcInv == IpcTypes /\ ChanShape /\ PipeInv

\* Pushing a frame, and ending the innermost call.
LEMMA FramePushed ==
  ASSUME stack \in Seq(Frames), NEW f \in Frames
  PROVE  <<f>> \o stack \in Seq(Frames) /\ Head(<<f>> \o stack) = f /\ <<f>> \o stack # <<>>
OBVIOUS

LEMMA FrameOnTop ==
  ASSUME stack \in Seq(Frames), stack # <<>>
  PROVE  Top \in Frames /\ Tail(stack) \in Seq(Frames)
BY DEF Top

LEMMA FrameReplaced ==
  ASSUME stack \in Seq(Frames), stack # <<>>, NEW f \in Frames
  PROVE  <<f>> \o Tail(stack) \in Seq(Frames) /\ Head(<<f>> \o Tail(stack)) = f
         /\ <<f>> \o Tail(stack) # <<>>
<1>1. Tail(stack) \in Seq(Frames) OBVIOUS
<1> QED BY <1>1

LEMMA NewFrames ==
  /\ ConnFrame \in Frames
  /\ \A w \in Parts \cup Commands \cup {"handshake"} : SendFrame(w) \in Frames
BY DEF ConnFrame, SendFrame, Frames

LEMMA InitIpc == Init => IpcInv
<1> SUFFICES ASSUME Init PROVE IpcInv
  OBVIOUS
<1>1. stack \in Seq(Frames) BY NewFrames DEF Init
<1> QED BY <1>1 DEF Init, IpcInv, IpcTypes, ChanShape, PipeInv, NoChan

LEMMA EmptyPipe == PipeInv /\ ~Waiting => chan.req = <<>> /\ chan.resp = <<>>
BY DEF PipeInv

\* Connecting: the new pipe is empty, and Connect waits for no answer itself.
LEMMA IpcConnect == IpcInv /\ (ConnectOpen \/ ConnectHandshaken) => IpcInv'
<1> SUFFICES ASSUME IpcInv, ConnectOpen \/ ConnectHandshaken PROVE IpcInv'
  OBVIOUS
<1>0. IpcTypes /\ ChanShape /\ PipeInv BY DEF IpcInv
<1>1. stack # <<>> /\ Top.fn = "connect" BY DEF ConnectOpen, ConnectHandshaken, At
<1>2. chan.req = <<>> /\ chan.resp = <<>> BY <1>0, <1>1, EmptyPipe DEF Waiting, At
<1>3. Top \in Frames /\ Tail(stack) \in Seq(Frames) BY <1>0, <1>1, FrameOnTop DEF IpcTypes
<1>4. UNCHANGED <<todo, seq, plugin>> BY DEF ConnectOpen, ConnectHandshaken, Same
<1>5. ChanShape' /\ chan'.req = <<>> /\ chan'.resp = <<>>
  BY <1>0, <1>2 DEF ConnectOpen, ConnectHandshaken, Close, NoChan, ChanShape
<1>6. stack' \in Seq(Frames)
  <2>1. CASE stack' = Tail(stack) BY <1>3, <2>1
  <2>2. CASE stack' = <<SendFrame("handshake"), [Top EXCEPT !.st = "hs"]>> \o Tail(stack)
    <3>1. [Top EXCEPT !.st = "hs"] \in Frames BY <1>3 DEF Frames
    <3>2. SendFrame("handshake") \in Frames BY NewFrames
    <3> QED BY <1>3, <2>2, <3>1, <3>2
  <2> QED BY <2>1, <2>2 DEF ConnectOpen, ConnectHandshaken, End
<1> QED BY <1>0, <1>4, <1>5, <1>6 DEF IpcInv, IpcTypes, PipeInv

\* A request goes into an empty pipe, under the number its frame remembers.
LEMMA IpcSend == IpcInv /\ Send => IpcInv'
<1> SUFFICES ASSUME IpcInv, Send PROVE IpcInv'
  OBVIOUS
<1>0. IpcTypes /\ ChanShape /\ PipeInv BY DEF IpcInv
<1>1. stack # <<>> /\ act = "run" /\ Top.fn = "send" /\ Top.st \in {"first", "second"}
      /\ UNCHANGED <<todo, plugin>>
  BY DEF Send, At, Same
<1>2. chan.req = <<>> /\ chan.resp = <<>> BY <1>0, <1>1, EmptyPipe DEF Waiting, At
<1>3. Top \in Frames BY <1>0, <1>1, FrameOnTop DEF IpcTypes
<1>4. CASE Close /\ UNCHANGED <<stack, seq>>
  BY <1>0, <1>1, <1>4 DEF IpcInv, IpcTypes, PipeInv, ChanShape, Close, NoChan
<1> DEFINE f == [Top EXCEPT !.st = IF @ = "first" THEN "recv1" ELSE "recv2", !.n = seq]
<1>5. CASE /\ chan' = [chan EXCEPT !.req = <<[what |-> Top.what, n |-> seq]>>]
           /\ stack' = <<f>> \o Tail(stack) /\ seq' = (seq + 1) % 4 /\ UNCHANGED act
  <2>2. f \in Frames /\ f.fn = "send" /\ f.st \in {"recv1", "recv2"} /\ f.n = seq
    BY <1>0, <1>1, <1>3 DEF Frames, IpcTypes
  <2> HIDE DEF f
  <2>3. stack' \in Seq(Frames) /\ Top' = f /\ stack' # <<>>
    BY <1>0, <1>1, <1>5, <2>2, FrameReplaced DEF IpcTypes, Top
  <2>4. Waiting' BY <1>1, <1>5, <2>2, <2>3 DEF Waiting, At
  <2>5. ChanShape' /\ chan'.resp = <<>> /\ chan'.req = <<[what |-> Top.what, n |-> seq]>>
    BY <1>0, <1>2, <1>5 DEF ChanShape
  <2>6. PipeInv' BY <2>2, <2>3, <2>4, <2>5 DEF PipeInv
  <2>7. seq' \in 0..3 BY <1>0, <1>5 DEF IpcTypes
  <2> QED BY <1>0, <1>1, <2>3, <2>5, <2>6, <2>7 DEF IpcInv, IpcTypes
<1> QED BY <1>4, <1>5 DEF Send

\* The answer is taken, or the pipe closed: it is empty again.
LEMMA IpcReceive == IpcInv /\ Receive => IpcInv'
<1> SUFFICES ASSUME IpcInv, Receive PROVE IpcInv'
  OBVIOUS
<1>0. IpcTypes /\ ChanShape /\ PipeInv BY DEF IpcInv
<1>1. stack # <<>> /\ UNCHANGED <<todo, seq, plugin>> BY DEF Receive, At, Same
<1>2. stack' \in Seq(Frames)
  BY <1>0, <1>1, FrameOnTop DEF Receive, End, IpcTypes
<1>3. ChanShape' /\ chan'.req = <<>> /\ chan'.resp = <<>>
  <2>1. CASE Close BY <2>1 DEF Close, NoChan, ChanShape
  <2>2. CASE ~Close
    <3>1. chan.resp # <<>> /\ chan' = [chan EXCEPT !.resp = Tail(chan.resp)]
      BY <2>2 DEF Receive
    <3>2. PICK o : chan.req = <<>> /\ chan.resp = <<[n |-> Top.n, ours |-> o]>>
      BY <1>0, <3>1 DEF PipeInv
    <3>3. Tail(chan.resp) = <<>> BY <3>2
    <3> QED BY <1>0, <3>1, <3>2, <3>3 DEF ChanShape
  <2> QED BY <2>1, <2>2
<1> QED BY <1>0, <1>1, <1>2, <1>3 DEF IpcInv, IpcTypes, PipeInv

\* SendBlocking handles a failure with the pipe empty.
LEMMA IpcRetry == IpcInv /\ (SendFails \/ SendConnected) => IpcInv'
<1> SUFFICES ASSUME IpcInv, SendFails \/ SendConnected PROVE IpcInv'
  OBVIOUS
<1>0. IpcTypes /\ ChanShape /\ PipeInv BY DEF IpcInv
<1>1. stack # <<>> /\ act # "run" /\ UNCHANGED <<todo, seq, plugin, chan>>
  BY DEF SendFails, SendConnected, At, Same
<1>2. chan.req = <<>> /\ chan.resp = <<>> BY <1>0, <1>1, EmptyPipe DEF Waiting
<1>3. Top \in Frames /\ Tail(stack) \in Seq(Frames) BY <1>0, <1>1, FrameOnTop DEF IpcTypes
<1>4. stack' \in Seq(Frames)
  <2>1. CASE stack' = Tail(stack) BY <1>3, <2>1
  <2>2. CASE stack' = <<ConnFrame, [Top EXCEPT !.st = "re"]>> \o Tail(stack)
    <3>1. [Top EXCEPT !.st = "re"] \in Frames BY <1>3 DEF Frames
    <3>2. ConnFrame \in Frames BY NewFrames
    <3> QED BY <1>3, <2>2, <3>1, <3>2
  <2>3. CASE stack' = <<[Top EXCEPT !.st = "second"]>> \o Tail(stack)
    <3>1. [Top EXCEPT !.st = "second"] \in Frames BY <1>3 DEF Frames
    <3> QED BY <1>3, <2>3, <3>1
  <2> QED BY <2>1, <2>2, <2>3 DEF SendFails, SendConnected, End, Goto
<1> QED BY <1>0, <1>1, <1>2, <1>4 DEF IpcInv, IpcTypes, ChanShape, PipeInv

\* The driver answers the one request that is in the pipe, under its number.
LEMMA IpcDriver == IpcInv /\ (Serve \/ DriverCleanup \/ DriverEnds \/ DriverStarts) => IpcInv'
<1> SUFFICES ASSUME IpcInv, Serve \/ DriverCleanup \/ DriverEnds \/ DriverStarts PROVE IpcInv'
  OBVIOUS
<1>0. IpcTypes /\ ChanShape /\ PipeInv BY DEF IpcInv
<1>1. UNCHANGED <<stack, act, todo, seq, plugin>>
  BY DEF Serve, DriverCleanup, DriverEnds, DriverStarts, client
<1>2. IpcTypes' /\ Top' = Top /\ (Waiting' <=> Waiting)
  BY <1>0, <1>1 DEF IpcTypes, Waiting, At, Top
<1>3. CASE UNCHANGED chan BY <1>0, <1>2, <1>3 DEF IpcInv, ChanShape, PipeInv
<1>4. CASE chan' = [chan EXCEPT !.peer = "gone", !.req = <<>>]
  BY <1>0, <1>2, <1>4 DEF IpcInv, ChanShape, PipeInv
<1>5. CASE Serve /\ chan' # [chan EXCEPT !.peer = "gone", !.req = <<>>]
  <2>1. /\ chan.req # <<>>
        /\ chan' = [chan EXCEPT !.req = <<>>,
                      !.resp = Append(chan.resp, [n |-> Head(chan.req).n, ours |-> drv.match])]
    BY <1>5 DEF Serve
  <2>2. PICK w : Waiting /\ chan.resp = <<>> /\ chan.req = <<[what |-> w, n |-> Top.n]>>
    BY <1>0, <2>1 DEF PipeInv
  <2>3. Head(chan.req).n = Top.n BY <2>2
  <2>4. chan' = [peer |-> chan.peer, req |-> <<>>,
                 resp |-> <<[n |-> Top.n, ours |-> drv.match]>>]
    <3>1. Append(chan.resp, [n |-> Top.n, ours |-> drv.match])
            = <<[n |-> Top.n, ours |-> drv.match]>>
      BY <2>2
    <3> QED BY <1>0, <2>1, <2>3, <3>1 DEF ChanShape
  <2>5. ChanShape' BY <2>4 DEF ChanShape
  <2>6. PipeInv' BY <1>2, <2>2, <2>4 DEF PipeInv
  <2> QED BY <1>2, <2>5, <2>6 DEF IpcInv
<1> QED BY <1>3, <1>4, <1>5 DEF Serve, DriverCleanup, DriverEnds, DriverStarts, client

\* The plugins act between calls, with the pipe empty.
LEMMA IpcPlugin == IpcInv /\ (PluginStep \/ UserStep) => IpcInv'
<1> SUFFICES ASSUME IpcInv, PluginStep \/ UserStep PROVE IpcInv'
  OBVIOUS
<1>0. IpcTypes /\ ChanShape /\ PipeInv BY DEF IpcInv
<1>1. Idle
  BY DEF PluginStep, UserStep, PushNext, PushFailed, PushDone, Started, SmoothingTick,
     InputHealthTick, FacetrackingTick, CaptionsTick, Heartbeat, HeartbeatFails,
     HeartbeatConnected, HeartbeatAnswered, Free, InputHealthEdit, PushCompensation,
     FacetrackingEdit, SendEnabledModules, CaptionsEdit, SendConfig, SmoothingPrediction, Edit,
     SendReset, SendCalibrationCommand, SendRestartHost, TickPredictionRestore, Command
<1>2. chan.req = <<>> /\ chan.resp = <<>> /\ stack = <<>>
  BY <1>0, <1>1, EmptyPipe DEF Waiting, Idle
<1>3. UNCHANGED <<plugin, seq>> /\ (UNCHANGED chan \/ Close)
  BY DEF PluginStep, UserStep, PushNext, PushFailed, PushDone, Started, SmoothingTick,
     InputHealthTick, FacetrackingTick, CaptionsTick, Heartbeat, HeartbeatFails,
     HeartbeatConnected, HeartbeatAnswered, Quiet, client, InputHealthEdit, PushCompensation,
     FacetrackingEdit, SendEnabledModules, CaptionsEdit, SendConfig, SmoothingPrediction, Edit,
     SendReset, SendCalibrationCommand, SendRestartHost, TickPredictionRestore, Command
<1>4. ChanShape' /\ chan'.req = <<>> /\ chan'.resp = <<>>
  BY <1>0, <1>2, <1>3 DEF ChanShape, Close, NoChan
<1>5. \/ UNCHANGED todo \/ (todo # <<>> /\ todo' = Tail(todo)) \/ todo' = Replay(plugin)
      \/ \E r \in Parts \cup Commands : todo' = <<r>>
  BY DEF PluginStep, UserStep, PushNext, PushFailed, PushDone, Started, SmoothingTick,
     InputHealthTick, FacetrackingTick, CaptionsTick, Heartbeat, HeartbeatFails,
     HeartbeatConnected, HeartbeatAnswered, Quiet, InputHealthEdit, PushCompensation,
     FacetrackingEdit, SendEnabledModules, CaptionsEdit, SendConfig, SmoothingPrediction, Edit,
     SendReset, SendCalibrationCommand, SendRestartHost, TickPredictionRestore, Command, Parts,
     Commands
<1>6. todo' \in Seq(Parts \cup Commands)
  <2>1. Replay(plugin) \in Seq(Parts \cup Commands)
    <3>1. /\ <<"config", "comp">> \in Seq(Parts \cup Commands)
          /\ <<"fingers", "prediction">> \in Seq(Parts \cup Commands)
          /\ <<"config">> \in Seq(Parts \cup Commands)
      BY DEF Parts
    <3> QED BY <3>1 DEF Replay
  <2>2. CASE \E r \in Parts \cup Commands : todo' = <<r>> BY <2>2
  <2>3. CASE todo # <<>> /\ todo' = Tail(todo) BY <1>0, <2>3 DEF IpcTypes
  <2> QED BY <1>0, <1>5, <2>1, <2>2, <2>3 DEF IpcTypes
<1>7. stack' \in Seq(Frames)
  <2>1. \/ UNCHANGED stack \/ Call(ConnFrame) \/ Call(SendFrame("handshake"))
        \/ (todo # <<>> /\ Call(SendFrame(Head(todo))))
    BY DEF PluginStep, UserStep, PushNext, PushFailed, PushDone, Started, SmoothingTick,
       InputHealthTick, FacetrackingTick, CaptionsTick, Heartbeat, HeartbeatFails,
       HeartbeatConnected, HeartbeatAnswered, client, InputHealthEdit, PushCompensation,
       FacetrackingEdit, SendEnabledModules, CaptionsEdit, SendConfig, SmoothingPrediction, Edit,
       SendReset, SendCalibrationCommand, SendRestartHost, TickPredictionRestore, Command
  <2>2. todo # <<>> => Head(todo) \in Parts \cup Commands BY <1>0 DEF IpcTypes
  <2>3. \E f \in Frames : stack' = stack \/ stack' = <<f>> \o stack
    BY <2>1, <2>2, NewFrames DEF Call
  <2> QED BY <1>0, <2>3, FramePushed DEF IpcTypes
<1> QED BY <1>0, <1>3, <1>4, <1>6, <1>7 DEF IpcInv, IpcTypes, PipeInv

LEMMA NextIpc == IpcInv /\ [MCNext]_allVars => IpcInv'
<1> SUFFICES ASSUME IpcInv, [MCNext]_allVars PROVE IpcInv'
  OBVIOUS
<1>1. Next \/ UNCHANGED vars BY DEF MCNext, allVars, ipcVars
<1>2. CASE UNCHANGED vars
  BY <1>2 DEF vars, client, IpcInv, IpcTypes, ChanShape, PipeInv, Waiting, At, Top
<1> QED BY <1>1, <1>2, IpcConnect, IpcSend, IpcReceive, IpcRetry, IpcDriver, IpcPlugin
        DEF Next, ClientStep

\* SendBlocking takes from the pipe only the answer to the request it has sent, through
\* reconnects, resends, heartbeats and restarts of the driver: an answer that comes
\* after its request was given up is never read by a later one.
THEOREM RepliesMatchCorrect == MCSpec => []RepliesMatch
<1>1. MCInit => IpcInv BY InitIpc DEF MCInit
<1>2. IpcInv => RepliesMatch
  <2> SUFFICES ASSUME IpcInv, chan.resp # <<>> PROVE Head(chan.resp).n = Top.n
    BY DEF RepliesMatch
  <2>1. PICK o : chan.resp = <<[n |-> Top.n, ours |-> o]>> BY DEF IpcInv, PipeInv
  <2>2. Head(chan.resp) = [n |-> Top.n, ours |-> o] BY <2>1
  <2> QED BY <2>2
<1> QED BY <1>1, <1>2, NextIpc, PTL DEF MCSpec

-----------------------------------------------------------------------------
(* The first launch.                                                       *)

\* The router's profile was never edited by the user, no write of it failed and the
\* face-tracking profile could be read.
Untouched == portEdits = 0 /\ failedSteps \cap {"read", "router"} = {}

FtProfiles == [port : {Launch!None, Launch!Default, OldPort}, done : BOOLEAN]

LaunchTypes ==
  /\ ft \in FtProfiles
  /\ portEdits \in Nat

\* The port that is about to be written is the old one; once the sentinel is due the
\* router has it.
PortInv ==
  /\ pc = "router" => ft.port = OldPort
  /\ Untouched => router \in {Launch!Default, OldPort}
  /\ Untouched /\ "profile" \in tree => router = OldPort \/ ft = Launch!Profile(OldPort, FALSE)
  /\ Untouched /\ "profile" \in tree /\ pc \in {"sentinel", "captions", "run"} => router = OldPort

LaunchInv == LaunchTypes /\ PortInv

LEMMA ProfileType ==
  ASSUME NEW port \in {Launch!None, Launch!Default, OldPort}, NEW done \in BOOLEAN
  PROVE  Launch!Profile(port, done) \in FtProfiles
BY DEF Launch!Profile, FtProfiles

LEMMA InitLaunch == Launch!Init => LaunchInv
BY DEF Launch!Init, Launch!NoProfile, Launch!Profile, LaunchInv, LaunchTypes, FtProfiles, PortInv

\* Copying brings the old profile with its port.
LEMMA LaunchCopies == LaunchInv /\ Launch!CopyEntry => LaunchInv'
<1> SUFFICES ASSUME LaunchInv, Launch!CopyEntry PROVE LaunchInv'
  OBVIOUS
<1>0. LaunchTypes /\ PortInv BY DEF LaunchInv
<1>1. /\ pc = "copying" /\ UNCHANGED <<pc, router, portEdits, failedSteps>>
      /\ \/ ft' = Launch!Profile(OldPort, FALSE)
         \/ UNCHANGED ft /\ ("profile" \in tree' => "profile" \in tree)
  BY DEF Launch!CopyEntry
<1>2. LaunchTypes'
  <2>1. Launch!Profile(OldPort, FALSE) \in FtProfiles BY ProfileType
  <2> QED BY <1>0, <1>1, <2>1 DEF LaunchTypes
<1>3. PortInv' BY <1>0, <1>1 DEF PortInv, Untouched
<1> QED BY <1>2, <1>3 DEF LaunchInv

\* What the check decides when it can read: the sentinel is due only when the router has
\* the port.
LEMMA LaunchDecides ==
  ASSUME LaunchTypes, PortInv, UNCHANGED <<ft, router, tree, portEdits, failedSteps>>,
         pc' = Launch!AfterCheck
  PROVE  LaunchInv'
<1>2. /\ ft.port = Launch!None => pc' = "captions"
      /\ ft.done => pc' = "captions"
      /\ ft.port # Launch!None /\ ~ft.done /\ (ft.port = Launch!Default \/ router # Launch!Default)
           => pc' = "sentinel"
      /\ ft.port # Launch!None /\ ~ft.done /\ ft.port # Launch!Default /\ router = Launch!Default
           => pc' = "router"
  BY DEF Launch!AfterCheck
<1>3. LaunchTypes' BY DEF LaunchTypes
<1>4. ft = Launch!Profile(OldPort, FALSE) => ft.port = OldPort /\ ~ft.done /\ OldPort # Launch!None
  BY LaunchAssumption DEF Launch!Profile, Launch!None
<1>5. pc' = "router" => ft.port = OldPort BY <1>2 DEF LaunchTypes, FtProfiles
<1>6. Untouched /\ "profile" \in tree /\ pc' \in {"sentinel", "captions", "run"} => router = OldPort
  <2> SUFFICES ASSUME Untouched, "profile" \in tree, pc' \in {"sentinel", "captions", "run"},
                      router # OldPort
               PROVE  FALSE
    OBVIOUS
  <2>1. router = Launch!Default /\ ft = Launch!Profile(OldPort, FALSE) BY DEF PortInv
  <2>2. ft.port = OldPort /\ ~ft.done /\ OldPort # Launch!None BY <1>4, <2>1
  <2>3. pc' = "router" BY <1>2, <2>1, <2>2
  <2> QED BY <2>3
<1>7. PortInv' BY <1>5, <1>6 DEF PortInv, Untouched
<1> QED BY <1>3, <1>7 DEF LaunchInv

\* The check, whether the profiles can be read or not.
LEMMA LaunchChecks == LaunchInv /\ Launch!CheckFtOscPort => LaunchInv'
<1> SUFFICES ASSUME LaunchInv, Launch!CheckFtOscPort PROVE LaunchInv'
  OBVIOUS
<1>0. LaunchTypes /\ PortInv BY DEF LaunchInv
<1>1. UNCHANGED <<ft, router, tree, portEdits>> BY DEF Launch!CheckFtOscPort, Launch!disk
<1>2. CASE pc' = "captions" /\ failedSteps' = failedSteps \cup {"read"}
  <2>1. LaunchTypes' BY <1>0, <1>1 DEF LaunchTypes
  <2>2. PortInv' BY <1>1, <1>2 DEF PortInv, Untouched
  <2> QED BY <2>1, <2>2 DEF LaunchInv
<1>3. CASE pc' = "router" /\ Launch!AfterCheck = "sentinel" /\ ft.port # Launch!Default
           /\ UNCHANGED failedSteps
  <2>1. LaunchTypes' BY <1>0, <1>1 DEF LaunchTypes
  <2>2. ft.port # Launch!None BY <1>3 DEF Launch!AfterCheck
  <2>3. ft.port = OldPort BY <1>0, <1>3, <2>2 DEF LaunchTypes, FtProfiles
  <2>4. PortInv' BY <1>0, <1>1, <1>3, <2>3 DEF PortInv, Untouched
  <2> QED BY <2>1, <2>4 DEF LaunchInv
<1>4. CASE pc' = Launch!AfterCheck /\ UNCHANGED failedSteps
  BY <1>0, <1>1, <1>4, LaunchDecides
<1> QED BY <1>2, <1>3, <1>4 DEF Launch!CheckFtOscPort
\* The port is written before the sentinel; the profile is saved without it after that.
LEMMA LaunchWrites ==
  ASSUME LaunchInv,
         \/ Launch!WriteRouterPort \/ Launch!WriteSentinel \/ Launch!SaveProfile \/ Launch!Close
  PROVE  LaunchInv'
<1>0. LaunchTypes /\ PortInv BY DEF LaunchInv
<1>1. UNCHANGED <<tree, portEdits>> /\ failedSteps \subseteq failedSteps'
  BY DEF Launch!WriteRouterPort, Launch!WriteSentinel, Launch!SaveProfile, Launch!Close
<1>2. LaunchTypes'
  <2>1. \/ UNCHANGED ft
        \/ ft' = Launch!Profile(ft.port, TRUE)
        \/ ft' = Launch!Profile(Launch!Default, FALSE)
    BY DEF Launch!WriteRouterPort, Launch!WriteSentinel, Launch!SaveProfile, Launch!Close,
       Launch!Encode
  <2>2. Launch!Profile(Launch!Default, FALSE) \in FtProfiles BY ProfileType
  <2>3. Launch!Profile(ft.port, TRUE) \in FtProfiles
    BY <1>0, ProfileType DEF LaunchTypes, FtProfiles
  <2> QED BY <1>0, <1>1, <2>1, <2>2, <2>3 DEF LaunchTypes
<1>3. PortInv'
  BY <1>0, <1>1 DEF PortInv, Untouched, Launch!WriteRouterPort, Launch!WriteSentinel,
     Launch!SaveProfile, Launch!Close
<1> QED BY <1>2, <1>3 DEF LaunchInv

\* The other steps leave both profiles alone; an edit of the user ends the promise.
LEMMA LaunchOthers ==
  ASSUME LaunchInv,
         \/ Launch!Launch \/ Launch!MigrateAppData \/ Launch!CopyDone \/ Launch!CopyFails
         \/ Launch!MigrateScRegistryKey \/ Launch!MigrateTranslatorToCaptions \/ Launch!Killed
         \/ Launch!DriverLogs \/ Launch!CaptionsHostStarts \/ Launch!EditRouter
         \/ UNCHANGED launchVars
  PROVE  LaunchInv'
<1>0. LaunchTypes /\ PortInv BY DEF LaunchInv
<1>1. UNCHANGED <<tree, ft>> /\ failedSteps \subseteq failedSteps'
  BY DEF Launch!Launch, Launch!MigrateAppData, Launch!CopyDone, Launch!CopyFails,
     Launch!MigrateScRegistryKey, Launch!MigrateTranslatorToCaptions, Launch!Killed,
     Launch!DriverLogs, Launch!CaptionsHostStarts, Launch!EditRouter, Launch!disk, launchVars
<1>2. \/ UNCHANGED <<router, portEdits>>
      \/ portEdits' = portEdits + 1
  BY DEF Launch!Launch, Launch!MigrateAppData, Launch!CopyDone, Launch!CopyFails,
     Launch!MigrateScRegistryKey, Launch!MigrateTranslatorToCaptions, Launch!Killed,
     Launch!DriverLogs, Launch!CaptionsHostStarts, Launch!EditRouter, Launch!disk, launchVars
<1>3. \/ pc' \in {"off", "appdata", "copying", "key", "keycopy", "port"}
      \/ pc = "captions" /\ pc' = "run"
      \/ UNCHANGED pc
  BY DEF Launch!Launch, Launch!MigrateAppData, Launch!CopyDone, Launch!CopyFails,
     Launch!MigrateScRegistryKey, Launch!MigrateTranslatorToCaptions, Launch!Killed,
     Launch!DriverLogs, Launch!CaptionsHostStarts, Launch!EditRouter, launchVars
<1>4. LaunchTypes' BY <1>0, <1>1, <1>2 DEF LaunchTypes
<1>5. Untouched' => Untouched /\ UNCHANGED router
  BY <1>0, <1>1, <1>2 DEF Untouched, LaunchTypes
<1>6. PortInv' BY <1>0, <1>1, <1>3, <1>5 DEF PortInv
<1> QED BY <1>4, <1>6 DEF LaunchInv

LEMMA NextLaunch == LaunchInv /\ [MCNext]_allVars => LaunchInv'
<1> SUFFICES ASSUME LaunchInv, [MCNext]_allVars PROVE LaunchInv'
  OBVIOUS
<1>1. Launch!Next \/ UNCHANGED launchVars BY DEF MCNext, allVars
<1> QED BY <1>1, LaunchCopies, LaunchChecks, LaunchWrites, LaunchOthers DEF Launch!Next

\* The OSC port of the old profile is in one of the two profiles wherever a start was
\* killed, until the user edits the router's, a write of it fails or the old one cannot
\* be read: MigrateFtOscPort marks the old one only after the router's has the port.
THEOREM PortIsCarriedCorrect == MCSpec => []PortIsCarried
<1>1. MCInit => LaunchInv BY InitLaunch DEF MCInit
<1>2. LaunchInv => PortIsCarried
  BY DEF LaunchInv, PortInv, Untouched, PortIsCarried, Launch!PortIsCarried
<1> QED BY <1>1, <1>2, NextLaunch, PTL DEF MCSpec

-----------------------------------------------------------------------------
(* The caption packs.                                                      *)

\* A script that has something left to do.
Busy(s) == script[s].pc \notin {"none", "ok", "failed"}

ScriptPcs == {"none", "depGet", "depCopy", "depCopying", "depStamp", "model", "stamp", "unModel",
              "unStamp", "unCheck", "unDep", "unDepStamp", "ok", "failed"}
ScriptStates == [pc : ScriptPcs, pack : Packs \cup {Runtime}, un : BOOLEAN]

PackTypes ==
  /\ script \in [Scripts -> ScriptStates]
  /\ overlap \in BOOLEAN
  /\ \A s \in Scripts : Busy(s) => script[s].pack \in Packs

\* What a script has found or done so far still holds while it is the only one.
ScriptInv(s) ==
  /\ script[s].pc \in {"depStamp", "model", "stamp"} => Runtime \in files
  /\ script[s].pc = "unCheck" => script[s].pack \notin stamps
  /\ script[s].pc \in {"unDep", "unDepStamp"} => stamps \cap Packs = {}

PackInv ==
  /\ PackTypes
  /\ overlap
     \/ /\ \A s, t \in Scripts : Busy(s) /\ Busy(t) => s = t
        /\ \A s \in Scripts : ScriptInv(s)
        /\ Captions!RuntimeThere

LEMMA InitPacks == Captions!Init => PackInv
<1> SUFFICES ASSUME Captions!Init PROVE PackInv
  OBVIOUS
<1>1. Captions!NoScript \in ScriptStates /\ Captions!NoScript.pc = "none"
  BY DEF Captions!NoScript, ScriptStates, ScriptPcs
<1>2. \A s \in Scripts : script[s].pc = "none" BY <1>1 DEF Captions!Init
<1>3. PackTypes BY <1>1, <1>2 DEF Captions!Init, PackTypes, Busy
<1>4. Captions!RuntimeThere BY DEF Captions!Init, Captions!RuntimeThere
<1> QED BY <1>2, <1>3, <1>4 DEF PackInv, Busy, ScriptInv

\* A button starts a script; when another one runs, that is an overlap.
LEMMA PacksStart ==
  ASSUME PackInv, NEW s \in Scripts, NEW p \in Packs, NEW un \in BOOLEAN,
         Captions!StartPackAction(s, p, un)
  PROVE  PackInv'
<1>0. PackTypes BY DEF PackInv
<1> DEFINE r == [pc |-> IF un THEN "unModel" ELSE "depGet", pack |-> p, un |-> un]
<1>1. /\ script[s].pc = "none" /\ script' = [script EXCEPT ![s] = r]
      /\ UNCHANGED <<files, stamps, torn>>
      /\ overlap' = (overlap \/ \E t \in Scripts : Busy(t))
  BY DEF Captions!StartPackAction, Busy
<1>2. /\ r \in ScriptStates /\ r.pack = p
      /\ r.pc \in {"unModel", "depGet"}
  BY DEF ScriptStates, ScriptPcs
<1> HIDE DEF r
<1>3. script'[s] = r /\ \A t \in Scripts \ {s} : script'[t] = script[t]
  BY <1>0, <1>1 DEF PackTypes
<1>4. PackTypes' BY <1>0, <1>1, <1>2, <1>3 DEF PackTypes, Busy
<1>5. CASE overlap' BY <1>4, <1>5 DEF PackInv
<1>6. CASE ~overlap'
  <2>1. /\ ~overlap /\ \A t \in Scripts : ~Busy(t) BY <1>1, <1>6
  <2>2. (\A t \in Scripts : ScriptInv(t)) /\ Captions!RuntimeThere BY <2>1 DEF PackInv
  <2>3. \A t \in Scripts \ {s} : ~Busy(t)' BY <1>3, <2>1 DEF Busy
  <2>4. \A t \in Scripts : ScriptInv(t)' BY <1>1, <1>2, <1>3, <2>2 DEF ScriptInv
  <2>5. Captions!RuntimeThere'
    BY <1>1, <1>3, <2>1, <2>2 DEF Captions!RuntimeThere, Busy
  <2> QED BY <1>4, <2>3, <2>4, <2>5 DEF PackInv
<1> QED BY <1>5, <1>6

\* The record of a script that has ended is dropped, and the overlay and the host go on.
LEMMA PacksIdle ==
  ASSUME PackInv,
         \/ \E s \in Scripts : Captions!PollPackAction(s) \/ Captions!Forgotten(s)
         \/ Captions!OverlayRestarts \/ Captions!HostLoads \/ Captions!HostDies
         \/ UNCHANGED packVars
  PROVE  PackInv'
<1>0. PackTypes BY DEF PackInv
<1>1. UNCHANGED <<files, stamps, torn, overlap>>
  BY DEF Captions!PollPackAction, Captions!Forgotten, Captions!OverlayRestarts,
     Captions!HostLoads, Captions!HostDies, packVars
<1>2. \/ UNCHANGED script
      \/ \E s \in Scripts : ~Busy(s) /\ script' = [script EXCEPT ![s] = Captions!NoScript]
  BY DEF Captions!PollPackAction, Captions!Forgotten, Captions!OverlayRestarts,
     Captions!HostLoads, Captions!HostDies, packVars, Busy
<1>3. CASE UNCHANGED script
  BY <1>1, <1>3 DEF PackInv, PackTypes, ScriptInv, Busy, Captions!RuntimeThere
<1>4. CASE \E s \in Scripts : ~Busy(s) /\ script' = [script EXCEPT ![s] = Captions!NoScript]
  <2>1. PICK s \in Scripts : ~Busy(s) /\ script' = [script EXCEPT ![s] = Captions!NoScript]
    BY <1>4
  <2>2. /\ Captions!NoScript \in ScriptStates
        /\ Captions!NoScript.pc = "none"
    BY DEF Captions!NoScript, ScriptStates, ScriptPcs
  <2>3. script'[s].pc = "none" /\ \A t \in Scripts \ {s} : script'[t] = script[t]
    BY <1>0, <2>1, <2>2 DEF PackTypes
  <2>4. PackTypes' BY <1>0, <1>1, <2>1, <2>2, <2>3 DEF PackTypes, Busy
  <2>5. \A t \in Scripts : Busy(t)' => Busy(t) BY <2>3 DEF Busy
  <2>6. \A t \in Scripts : ScriptInv(t) => ScriptInv(t)' BY <1>1, <2>3 DEF ScriptInv
  <2>7. Captions!RuntimeThere => Captions!RuntimeThere'
    BY <1>1, <2>1, <2>3 DEF Captions!RuntimeThere, Busy
  <2> QED BY <1>1, <2>4, <2>5, <2>6, <2>7 DEF PackInv
<1> QED BY <1>2, <1>3, <1>4

\* The steps of a script, by where they lead and what they do to files and stamps.
ScriptStep(s, to) ==
  LET from == script[s].pc
      pack == script[s].pack
  IN /\ script' = [script EXCEPT ![s].pc = to]
     /\ \/ /\ from \in {"depGet", "depCopy", "model", "unDep"} /\ to \in {"failed", "depCopy"}
           /\ UNCHANGED <<files, stamps, torn>>
        \/ /\ from = "depCopy" /\ to = "depCopying"
           /\ files' = files \ {Runtime} /\ UNCHANGED <<stamps, torn>>
        \/ /\ from = "depCopying" /\ to = "depStamp"
           /\ files' = files \cup {Runtime} /\ UNCHANGED stamps
        \/ /\ from = "depStamp" /\ to = "model"
           /\ stamps' = stamps \cup {Runtime} /\ UNCHANGED <<files, torn>>
        \/ /\ from = "model" /\ to = "stamp"
           /\ files' = files \cup {pack} /\ UNCHANGED <<stamps, torn>>
        \/ /\ from = "stamp" /\ to = "ok"
           /\ stamps' = stamps \cup {pack} /\ UNCHANGED <<files, torn>>
        \/ /\ from = "unModel" /\ to = "unStamp"
           /\ files' = files \ {pack} /\ UNCHANGED <<stamps, torn>>
        \/ /\ from = "unStamp" /\ to = "unCheck"
           /\ stamps' = stamps \ {pack} /\ UNCHANGED <<files, torn>>
        \/ /\ from = "unCheck"
           /\ to = "ok" \/ (to = "unDep" /\ \A p \in Packs \ {pack} : p \notin stamps)
           /\ UNCHANGED <<files, stamps, torn>>
        \/ /\ from = "unDep" /\ to = "unDepStamp"
           /\ files' = files \ {Runtime} /\ UNCHANGED <<stamps, torn>>
        \/ /\ from = "unDepStamp" /\ to = "ok"
           /\ stamps' = stamps \ {Runtime} /\ UNCHANGED <<files, torn>>
        \/ /\ to = "failed" /\ from \notin {"none", "ok", "failed"}
           /\ (torn' <=> torn \/ from = "depCopying")
           /\ stamps' \subseteq stamps /\ UNCHANGED files

LEMMA ScriptSteps ==
  ASSUME NEW s \in Scripts, Captions!Script(s)
  PROVE  \E to \in ScriptPcs : ScriptStep(s, to)
<1>1. CASE Captions!DownloadDep(s) \/ Captions!ExtractDep(s) \/ Captions!RemoveDep(s)
  BY <1>1 DEF Captions!DownloadDep, Captions!ExtractDep, Captions!RemoveDep, Captions!Goto,
     Captions!Throws, ScriptStep, ScriptPcs
<1>2. CASE Captions!DepExtracted(s) \/ Captions!InstallHfSnapshot(s) \/ Captions!WritePackStamp(s)
  BY <1>2 DEF Captions!DepExtracted, Captions!InstallHfSnapshot, Captions!WritePackStamp,
     Captions!Goto, Captions!Throws, ScriptStep, ScriptPcs
<1>3. CASE Captions!RemoveModel(s) \/ Captions!RemoveStamp(s) \/ Captions!RemoveDepStamp(s)
  BY <1>3 DEF Captions!RemoveModel, Captions!RemoveStamp, Captions!RemoveDepStamp, Captions!Goto,
     ScriptStep, ScriptPcs
<1>4. CASE Captions!CheckDependency(s)
  BY <1>4 DEF Captions!CheckDependency, Captions!TestInstalledPackDependency, Captions!Goto,
     ScriptStep, ScriptPcs
<1>5. CASE Captions!Killed(s) BY <1>5 DEF Captions!Killed, Captions!Goto, ScriptStep, ScriptPcs
<1> QED BY <1>1, <1>2, <1>3, <1>4, <1>5 DEF Captions!Script

\* A step of the only script that is busy.
LEMMA PacksScript ==
  ASSUME PackInv, NEW s \in Scripts, Captions!Script(s)
  PROVE  PackInv'
<1>0. PackTypes BY DEF PackInv
<1>1. PICK to \in ScriptPcs : ScriptStep(s, to) BY ScriptSteps
<1>2. Busy(s) BY <1>1 DEF ScriptStep, Busy
<1>3. UNCHANGED overlap
  BY DEF Captions!Script, Captions!DownloadDep, Captions!ExtractDep, Captions!DepExtracted,
     Captions!InstallHfSnapshot, Captions!WritePackStamp, Captions!RemoveModel,
     Captions!RemoveStamp, Captions!CheckDependency, Captions!RemoveDep,
     Captions!RemoveDepStamp, Captions!Killed
<1>4. /\ script' \in [Scripts -> ScriptStates]
      /\ script'[s].pc = to /\ script'[s].pack = script[s].pack
      /\ \A t \in Scripts \ {s} : script'[t] = script[t]
  <2>1. script' = [script EXCEPT ![s].pc = to] BY <1>1 DEF ScriptStep
  <2> QED BY <1>0, <2>1 DEF PackTypes, ScriptStates
<1>5. PackTypes' BY <1>0, <1>2, <1>3, <1>4 DEF PackTypes, Busy
<1>6. CASE overlap BY <1>3, <1>5, <1>6 DEF PackInv
<1>7. CASE ~overlap
  <2>1. /\ \A t \in Scripts \ {s} : ~Busy(t)
        /\ ScriptInv(s) /\ Captions!RuntimeThere
    BY <1>2, <1>7 DEF PackInv
  <2>2. \A t \in Scripts \ {s} : ~Busy(t)' /\ ScriptInv(t)'
    BY <1>4, <2>1 DEF Busy, ScriptInv
  <2>3. script[s].pack \in Packs /\ script[s].pack # Runtime
    BY <1>0, <1>2, PacksAssumption DEF PackTypes
  <2>4. stamps \cap Packs = {} \/ Runtime \in files \/ torn \/ script[s].pc = "depCopying"
    BY <2>1 DEF Captions!RuntimeThere, Busy
  <2>5. ScriptInv(s)' BY <1>1, <1>4, <2>1, <2>3 DEF ScriptStep, ScriptInv
  <2>6. stamps' \cap Packs = {} \/ Runtime \in files' \/ torn' \/ to = "depCopying"
    BY <1>1, <2>1, <2>3, <2>4, PacksAssumption DEF ScriptStep, ScriptInv
  <2>7. Captions!RuntimeThere' BY <1>4, <2>6 DEF Captions!RuntimeThere
  <2> QED BY <1>5, <2>2, <2>5, <2>7 DEF PackInv
<1> QED BY <1>6, <1>7

LEMMA NextPacks == PackInv /\ [MCNext]_allVars => PackInv'
<1> SUFFICES ASSUME PackInv, [MCNext]_allVars PROVE PackInv'
  OBVIOUS
<1>1. Captions!Next \/ UNCHANGED packVars BY DEF MCNext, allVars
<1> QED BY <1>1, PacksStart, PacksIdle, PacksScript DEF Captions!Next

\* As long as one script runs at a time, a stamped pack has its runtime, through failed
\* and killed installs and uninstalls in any order, except while a script replaces the
\* library and after one was killed doing so.
THEOREM RuntimeIsKeptCorrect == MCSpec => []RuntimeIsKept
<1>1. MCInit => PackInv BY InitPacks DEF MCInit
<1>2. PackInv => RuntimeIsKept BY DEF PackInv, RuntimeIsKept, Captions!RuntimeIsKept
<1> QED BY <1>1, <1>2, NextPacks, PTL DEF MCSpec

-----------------------------------------------------------------------------
(* The saved calibration.                                                  *)

\* The shapes of a registry value and of a context.
RegistryShape(v) ==
  v = [kind |-> v.kind, version |-> v.version, cal |-> v.cal, system |-> v.system,
       extras |-> v.extras, wizard |-> v.wizard, speed |-> v.speed, autostart |-> v.autostart]
ContextShape(c) ==
  c = [valid |-> c.valid, cal |-> c.cal, system |-> c.system, extras |-> c.extras,
       wizard |-> c.wizard, speed |-> c.speed]

\* Calibrations are numbered in the order of events.
NumbersInv ==
  /\ events \in Nat
  /\ owed \in Nat /\ owed <= events
  /\ registry.cal \in Nat /\ registry.cal <= events
  /\ ctx.cal \in Nat /\ ctx.cal <= events

\* The overlay that runs holds what it owes, or something newer, or the zeros of a
\* recovery, as a valid profile, so that nothing else can take the calibration's place.
OwedInv ==
  /\ Session!SolveSurvives
  /\ inSession /\ owed > 0 => ctx.valid
  /\ inSession /\ owed > 0 /\ ctx.cal < owed => ctx.cal = 0 /\ zeros # "nowhere"
  /\ zeros \in {"nowhere", "memory", "registry"}
  /\ ~inSession => zeros # "memory"
  /\ mode = "editing" => ctx.valid

SessionInv == RegistryShape(registry) /\ ContextShape(ctx) /\ NumbersInv /\ OwedInv

\* What a save leaves in the registry: the value before it, or the context.
Saves(c, r) ==
  \/ r = registry
  \/ /\ RegistryShape(r) /\ r.cal \in {0, c.cal}
     /\ c.valid => r.kind = "profile" /\ r.cal = c.cal

\* The zeros go where the context goes.
ZerosFollow ==
  \/ zeros' = zeros /\ (zeros = "memory" => registry' = registry)
  \/ zeros = "memory" /\ zeros' = "registry"

\* The text of a profile carries the calibration of the context.
LEMMA WrittenShape ==
  ASSUME NEW c, NEW m
  PROVE  LET v == Session!WriteProfile(c, m) IN
         RegistryShape(v) /\ v.kind = "profile" /\ v.cal = c.cal
<1> DEFINE s == Session!WriteSettings(c)
           b == m \in {"continuous", "standby"}
           v == Session!WriteProfile(c, m)
<1>1. v = [Session!Value("profile") EXCEPT !.cal = c.cal, !.system = c.system,
             !.extras = c.extras, !.wizard = c.wizard, !.speed = s, !.autostart = b]
  BY DEF Session!WriteProfile
<1> HIDE DEF s, b, v
<1>2. \E n : v = [kind |-> "profile", version |-> n, cal |-> c.cal, system |-> c.system,
                  extras |-> c.extras, wizard |-> c.wizard, speed |-> s, autostart |-> b]
  BY <1>1 DEF Session!Value
<1>3. RegistryShape(v) /\ v.kind = "profile" /\ v.cal = c.cal
  BY <1>2 DEF RegistryShape
<1> QED BY <1>3 DEF v

LEMMA SaveProfileSaves ==
  ASSUME NEW c, NEW m, Session!SaveProfile(c, m)
  PROVE  Saves(c, registry')
<1>1. CASE registry' = Session!WriteProfile(c, m) BY <1>1, WrittenShape DEF Saves
<1>2. CASE registry' = Session!Value("empty") /\ ~c.valid BY <1>2
      DEF Session!Value, Saves, RegistryShape
<1> QED BY <1>1, <1>2 DEF Session!SaveProfile, Session!Serialized, Saves

LEMMA SaveContextSaves ==
  ASSUME NEW c, NEW m, Session!SaveContext(c, m)
  PROVE  Saves(c, registry') /\ ZerosFollow
<1>1. Saves(c, registry') BY SaveProfileSaves DEF Session!SaveContext
<1>2. registry' = Session!Serialized(c, m) \/ registry' = registry
  BY DEF Session!SaveContext, Session!SaveProfile
<1>3. ZerosFollow BY <1>2 DEF Session!SaveContext, Session!Reached, ZerosFollow
<1> QED BY <1>1, <1>3

LEMMA InitSession == Session!Init => SessionInv
<1> SUFFICES ASSUME Session!Init PROVE SessionInv
  OBVIOUS
<1>1. /\ RegistryShape(registry) /\ registry.cal \in {0, 1}
      /\ registry.cal # 0 => registry.kind = "profile"
  <2>1. \A k : LET v == Session!Value(k) IN RegistryShape(v) /\ v.cal = 0
    BY DEF Session!Value, RegistryShape
  <2>2. /\ RegistryShape(Session!Legacy) /\ Session!Legacy.cal = 1
        /\ Session!Legacy.kind = "profile"
    <3> DEFINE x == CHOOSE y \in Others : TRUE
    <3>1. Session!Legacy = [Session!Value("profile") EXCEPT !.version = 1, !.cal = 1,
                              !.speed = "slow", !.system = x]
      BY DEF Session!Legacy
    <3> HIDE DEF x
    <3>2. Session!Legacy = [kind |-> "profile", version |-> 1, cal |-> 1, system |-> x,
                            extras |-> <<>>, wizard |-> FALSE, speed |-> "slow",
                            autostart |-> FALSE]
      BY <3>1 DEF Session!Value
    <3> QED BY <3>2 DEF RegistryShape
  <2> QED BY <2>1, <2>2 DEF Session!Init
<1>2. ContextShape(ctx) /\ ctx.cal = 0
  BY DEF Session!Init, Session!Fresh, ContextShape
<1> QED BY <1>1, <1>2 DEF Session!Init, SessionInv, NumbersInv, OwedInv, Session!SolveSurvives

\* Changing another field of the context keeps its shape and its calibration.
LEMMA ContextEdits ==
  ASSUME ContextShape(ctx), NEW x
  PROVE  \A c \in {[ctx EXCEPT !.system = x], [ctx EXCEPT !.extras = x],
                   [ctx EXCEPT !.wizard = x], [ctx EXCEPT !.speed = x], ctx} :
           ContextShape(c) /\ c.valid = ctx.valid /\ c.cal = ctx.cal
<1> DEFINE old == [valid |-> ctx.valid, cal |-> ctx.cal, system |-> ctx.system,
                   extras |-> ctx.extras, wizard |-> ctx.wizard, speed |-> ctx.speed]
<1>1. [ctx EXCEPT !.system = x] = [old EXCEPT !.system = x] BY DEF ContextShape
<1>2. [ctx EXCEPT !.extras = x] = [old EXCEPT !.extras = x] BY DEF ContextShape
<1>3. [ctx EXCEPT !.wizard = x] = [old EXCEPT !.wizard = x] BY DEF ContextShape
<1>4. [ctx EXCEPT !.speed = x] = [old EXCEPT !.speed = x] BY DEF ContextShape
<1> QED BY <1>1, <1>2, <1>3, <1>4 DEF ContextShape

\* A step that keeps the calibration of the context may save it.
LEMMA SessionKeeps ==
  ASSUME SessionInv, inSession, UNCHANGED <<inSession, owed>>,
         ContextShape(ctx'), ctx'.valid = ctx.valid, ctx'.cal = ctx.cal,
         Saves(ctx', registry'), ZerosFollow, events' \in {events, events + 1},
         mode' = "editing" => mode = "editing" \/ ctx.valid
  PROVE  SessionInv'
<1>0. RegistryShape(registry) /\ NumbersInv /\ OwedInv BY DEF SessionInv
<1>1. RegistryShape(registry') /\ registry'.cal \in {0, ctx.cal, registry.cal}
  BY <1>0 DEF Saves
<1>2. NumbersInv' BY <1>0, <1>1 DEF NumbersInv
<1>3. OwedInv'
  <2>1. owed > 0 => registry'.kind = "profile"
    BY <1>0 DEF OwedInv, Session!SolveSurvives, Saves
  <2>2. ASSUME owed > 0 PROVE registry'.cal >= owed \/ (zeros' = "registry" /\ registry'.cal = 0)
    <3>1. registry' = registry \/ registry'.cal = ctx.cal BY <1>0, <2>2 DEF OwedInv, Saves
    <3>2. registry.cal >= owed \/ (zeros = "registry" /\ registry.cal = 0)
      BY <1>0, <2>2 DEF OwedInv, Session!SolveSurvives
    <3>3. ctx.cal >= owed \/ (zeros \in {"memory", "registry"} /\ ctx.cal = 0)
      BY <1>0, <2>2 DEF OwedInv, NumbersInv
    <3> QED BY <3>1, <3>2, <3>3 DEF ZerosFollow
  <2>3. zeros' \in {"nowhere", "memory", "registry"} /\ (zeros # "nowhere" => zeros' # "nowhere")
    BY <1>0 DEF OwedInv, ZerosFollow
  <2>4. Session!SolveSurvives' BY <2>1, <2>2 DEF Session!SolveSurvives
  <2>5. (mode = "editing" => ctx.valid)' BY <1>0 DEF OwedInv
  <2>6. (inSession /\ owed > 0 => ctx.valid)' BY <1>0 DEF OwedInv
  <2>7. (inSession /\ owed > 0 /\ ctx.cal < owed => ctx.cal = 0 /\ zeros # "nowhere")'
    BY <1>0, <2>3 DEF OwedInv
  <2> QED BY <2>3, <2>4, <2>5, <2>6, <2>7 DEF OwedInv
<1>4. RegistryShape(registry)' /\ ContextShape(ctx)' BY <1>1 DEF RegistryShape, ContextShape
<1> QED BY <1>2, <1>3, <1>4 DEF SessionInv

\* The buttons, the wizard and the modes: none of them touches the calibration.
LEMMA SessionButtons ==
  ASSUME SessionInv,
         \/ \E present \in SUBSET Others : Session!BuildSystemSelection(present)
         \/ Session!EditCalibration \/ Session!StartCalibration \/ Session!StartContinuousCalibration
         \/ Session!FailSolve \/ Session!Open \/ Session!FirstRun
         \/ \E order \in Session!Orders : Session!Continue(order)
         \/ Session!PickTarget \/ Session!SystemDone \/ Session!CalibrateNext \/ Session!Close
         \/ \E i \in DOMAIN ctx.extras : Session!SolveExtra(i)
  PROVE  SessionInv'
<1>0. ContextShape(ctx) BY DEF SessionInv
<1>1. inSession /\ UNCHANGED <<inSession, registry, owed, zeros>>
  BY DEF Session!BuildSystemSelection, Session!EditCalibration, Session!StartCalibration,
     Session!StartContinuousCalibration, Session!FailSolve, Session!Open, Session!FirstRun,
     Session!Continue, Session!PickTarget, Session!SystemDone, Session!CalibrateNext,
     Session!Close, Session!SolveExtra, Session!Main
<1>2. events' \in {events, events + 1}
  BY DEF Session!BuildSystemSelection, Session!EditCalibration, Session!StartCalibration,
     Session!StartContinuousCalibration, Session!FailSolve, Session!Open, Session!FirstRun,
     Session!Continue, Session!PickTarget, Session!SystemDone, Session!CalibrateNext,
     Session!Close, Session!SolveExtra, Session!bounded
<1>3. mode' = "editing" => mode = "editing" \/ ctx.valid
  BY DEF Session!BuildSystemSelection, Session!EditCalibration, Session!StartCalibration,
     Session!StartContinuousCalibration, Session!FailSolve, Session!Open, Session!FirstRun,
     Session!Continue, Session!PickTarget, Session!SystemDone, Session!CalibrateNext,
     Session!Close, Session!SolveExtra
<1>4. \E x : ctx' \in {[ctx EXCEPT !.system = x], [ctx EXCEPT !.extras = x], ctx}
  <2>1. CASE \E i \in DOMAIN ctx.extras : Session!SolveExtra(i)
    <3>1. PICK i \in DOMAIN ctx.extras : Session!SolveExtra(i) BY <2>1
    <3>2. ctx' = [ctx EXCEPT !.extras = [ctx.extras EXCEPT ![i].cal = events']]
      BY <3>1 DEF Session!SolveExtra
    <3> QED BY <3>2
  <2>2. CASE \E present \in SUBSET Others : Session!BuildSystemSelection(present)
    BY <2>2 DEF Session!BuildSystemSelection
  <2>3. CASE Session!PickTarget BY <2>3 DEF Session!PickTarget
  <2>4. CASE UNCHANGED ctx BY <2>4
  <2> QED BY <2>1, <2>2, <2>3, <2>4 DEF Session!EditCalibration, Session!StartCalibration,
     Session!StartContinuousCalibration, Session!FailSolve, Session!Open, Session!FirstRun,
     Session!Continue, Session!SystemDone, Session!CalibrateNext, Session!Close
<1>5. ContextShape(ctx') /\ ctx'.valid = ctx.valid /\ ctx'.cal = ctx.cal
  BY <1>0, <1>4, ContextEdits
<1>6. Saves(ctx', registry') /\ ZerosFollow BY <1>1 DEF Saves, ZerosFollow
<1> QED BY <1>1, <1>2, <1>3, <1>5, <1>6, SessionKeeps

\* The steps that save the context as it is, but for its settings and the wizard's flag.
LEMMA SessionSaves ==
  ASSUME SessionInv,
         \/ \E speed \in {"slow", "auto"} : Session!ChangeSetting(speed)
         \/ Session!EndContinuousCalibration
         \/ Session!Dismiss \/ Session!SkipSystem \/ Session!EnterAllDone
  PROVE  SessionInv'
<1>0. ContextShape(ctx) BY DEF SessionInv
<1>1. /\ inSession /\ UNCHANGED <<inSession, owed>> /\ events' \in {events, events + 1}
      /\ mode' = "editing" => mode = "editing"
  BY DEF Session!ChangeSetting, Session!EndContinuousCalibration, Session!Dismiss,
     Session!SkipSystem, Session!EnterAllDone, Session!Main, Session!bounded
<1>2. \E x : ctx' \in {[ctx EXCEPT !.speed = x], [ctx EXCEPT !.wizard = x], ctx}
  BY DEF Session!ChangeSetting, Session!EndContinuousCalibration, Session!Dismiss,
     Session!SkipSystem, Session!EnterAllDone, Session!Completed
<1>3. (\E m : Session!SaveContext(ctx', m)) \/ UNCHANGED <<registry, zeros>>
  <2>1. CASE Session!EndContinuousCalibration
    BY <2>1 DEF Session!EndContinuousCalibration
  <2>2. CASE ~Session!EndContinuousCalibration
    BY <2>2 DEF Session!ChangeSetting, Session!Dismiss, Session!SkipSystem, Session!EnterAllDone,
       Session!Completed
  <2> QED BY <2>1, <2>2
<1>4. ContextShape(ctx') /\ ctx'.valid = ctx.valid /\ ctx'.cal = ctx.cal
  BY <1>0, <1>2, ContextEdits
<1>5. Saves(ctx', registry') /\ ZerosFollow BY <1>3, SaveContextSaves DEF Saves, ZerosFollow
<1> QED BY <1>1, <1>4, <1>5, SessionKeeps

\* A start finds what is owed in the registry; the end of a session owes no one.
LEMMA SessionStarts == SessionInv /\ (Session!LoadProfile \/ Session!Exit) => SessionInv'
<1> SUFFICES ASSUME SessionInv, Session!LoadProfile \/ Session!Exit PROVE SessionInv'
  OBVIOUS
<1>0. RegistryShape(registry) /\ ContextShape(ctx) /\ NumbersInv /\ OwedInv BY DEF SessionInv
<1>1. /\ UNCHANGED <<registry, events>> /\ owed' \in {owed, 0} /\ mode' # "editing"
  BY DEF Session!LoadProfile, Session!ParseProfile, Session!Exit, Session!bounded
<1>a. zeros' = (IF zeros = "memory" THEN "nowhere" ELSE zeros)
  <2>1. CASE Session!LoadProfile
    <3>1. ~inSession /\ UNCHANGED zeros BY <2>1 DEF Session!LoadProfile
    <3> QED BY <1>0, <3>1 DEF OwedInv
  <2>2. CASE Session!Exit BY <2>2 DEF Session!Exit, Session!ZerosLeft
  <2> QED BY <2>1, <2>2
<1>b. /\ zeros' \in {"nowhere", "registry"} /\ Session!SolveSurvives'
  <2>1. zeros' \in {"nowhere", "registry"} BY <1>0, <1>a DEF OwedInv
  <2>2. owed > 0 => /\ registry.kind = "profile"
                    /\ registry.cal >= owed \/ (zeros' = "registry" /\ registry.cal = 0)
    BY <1>0, <1>a DEF OwedInv, Session!SolveSurvives
  <2>3. Session!SolveSurvives' BY <1>1, <2>2 DEF Session!SolveSurvives
  <2> QED BY <2>1, <2>3
<1>2. CASE ctx' = Session!Fresh /\ (owed' = 0 \/ ~inSession' \/ registry.kind # "profile")
  <2>1. ContextShape(ctx') /\ ctx'.cal = 0 BY <1>2 DEF Session!Fresh, ContextShape
  <2>2. NumbersInv' BY <1>0, <1>1, <2>1 DEF NumbersInv
  <2>3. OwedInv' BY <1>0, <1>1, <1>2, <1>b, <2>1 DEF OwedInv, Session!SolveSurvives, NumbersInv
  <2>4. RegistryShape(registry)' BY <1>0, <1>1 DEF RegistryShape
  <2>5. ContextShape(ctx)' BY <2>1 DEF ContextShape
  <2> QED BY <2>2, <2>3, <2>4, <2>5 DEF SessionInv
<1>3. CASE /\ registry.kind = "profile" /\ UNCHANGED owed
           /\ ctx' = Session!ReadProfile(Session!MigrateProfile(registry))
  <2>1. (Session!MigrateProfile(registry)).cal = registry.cal
    <3> DEFINE old == [kind |-> registry.kind, version |-> registry.version, cal |-> registry.cal,
                       system |-> registry.system, extras |-> registry.extras,
                       wizard |-> registry.wizard, speed |-> registry.speed,
                       autostart |-> registry.autostart]
    <3>1. [registry EXCEPT !.speed = "auto"] = [old EXCEPT !.speed = "auto"]
      BY <1>0 DEF RegistryShape
    <3>2. [registry EXCEPT !.speed = "auto"].cal = registry.cal BY <3>1
    <3> QED BY <3>2 DEF Session!MigrateProfile
  <2>2. ContextShape(ctx') /\ ctx'.valid = TRUE /\ ctx'.cal = registry.cal
    BY <1>3, <2>1 DEF Session!ReadProfile, ContextShape
  <2>3. NumbersInv' BY <1>0, <1>1, <2>2 DEF NumbersInv
  <2>4. OwedInv'
    <3>1. owed' > 0 /\ ctx'.cal < owed' => ctx'.cal = 0 /\ zeros' # "nowhere"
      BY <1>0, <1>1, <1>3, <1>b, <2>2 DEF NumbersInv, Session!SolveSurvives
    <3> QED BY <1>1, <1>b, <2>2, <3>1 DEF OwedInv
  <2>5. RegistryShape(registry)' BY <1>0, <1>1 DEF RegistryShape
  <2>6. ContextShape(ctx)' BY <2>2 DEF ContextShape
  <2> QED BY <2>3, <2>4, <2>5, <2>6 DEF SessionInv
<1> QED BY <1>2, <1>3 DEF Session!LoadProfile, Session!ParseProfile, Session!Exit

\* The calibration is cleared, edited, saved by the editor, or solved anew.
LEMMA SessionCalibrates ==
  ASSUME SessionInv,
         \/ Session!ClearProfile \/ Session!Edit \/ Session!SaveEdit \/ Session!AcceptSolve
         \/ Session!RecoverFromWedgedCalibration
  PROVE  SessionInv'
<1>0. RegistryShape(registry) /\ ContextShape(ctx) /\ NumbersInv /\ OwedInv BY DEF SessionInv
<1> DEFINE old == [valid |-> ctx.valid, cal |-> ctx.cal, system |-> ctx.system,
                   extras |-> ctx.extras, wizard |-> ctx.wizard, speed |-> ctx.speed]
<1>1. ctx = old BY <1>0 DEF ContextShape
<1>2. CASE Session!ClearProfile
  <2>1. ctx' = [ctx EXCEPT !.valid = FALSE, !.cal = 0, !.system = NoSystem]
        /\ owed' = 0 /\ mode' = "none" /\ UNCHANGED events /\ zeros' = "nowhere"
    BY <1>2 DEF Session!ClearProfile, Session!Clear, Session!bounded
  <2>2. ctx' = [old EXCEPT !.valid = FALSE, !.cal = 0, !.system = NoSystem] BY <1>1, <2>1
  <2>3. ContextShape(ctx') /\ ctx'.cal = 0 BY <2>2 DEF ContextShape
  <2>4. Saves(ctx', registry') BY <1>2, SaveProfileSaves DEF Session!ClearProfile
  <2>5. RegistryShape(registry') /\ registry'.cal \in {0, registry.cal}
    BY <1>0, <2>3, <2>4 DEF Saves
  <2>6. NumbersInv' BY <1>0, <2>1, <2>3, <2>5 DEF NumbersInv
  <2>7. OwedInv' BY <2>1 DEF OwedInv, Session!SolveSurvives
  <2>8. RegistryShape(registry)' /\ ContextShape(ctx)' BY <2>3, <2>5 DEF RegistryShape, ContextShape
  <2> QED BY <2>6, <2>7, <2>8 DEF SessionInv
<1>3. CASE Session!Edit
  <2>1. /\ mode = "editing" /\ UNCHANGED <<registry, mode, owed, inSession>>
        /\ events' = events + 1 /\ ctx' = [ctx EXCEPT !.cal = events'] /\ inSession
        /\ zeros' = (IF zeros = "memory" THEN "nowhere" ELSE zeros)
    BY <1>3 DEF Session!Edit, Session!ZerosLeft, Session!Main
  <2>2. ctx' = [old EXCEPT !.cal = events'] BY <1>1, <2>1
  <2>3. ContextShape(ctx') /\ ctx'.cal = events' /\ ctx'.valid = ctx.valid
    BY <2>2 DEF ContextShape
  <2>4. NumbersInv' BY <1>0, <2>1, <2>3 DEF NumbersInv
  <2>5. OwedInv' BY <1>0, <2>1, <2>3 DEF OwedInv, NumbersInv, Session!SolveSurvives
  <2>6. RegistryShape(registry)' /\ ContextShape(ctx)' BY <1>0, <2>1, <2>3 DEF RegistryShape, ContextShape
  <2> QED BY <2>4, <2>5, <2>6 DEF SessionInv
<1>4. CASE Session!SaveEdit
  <2>1. /\ mode = "editing" /\ mode' = "none" /\ ctx.valid /\ UNCHANGED <<ctx, inSession, events>>
        /\ owed' = IF registry' = Session!Serialized(ctx, mode) THEN ctx.cal ELSE owed
        /\ zeros' = IF registry' = Session!Serialized(ctx, mode) THEN "nowhere" ELSE zeros
        /\ Session!SaveProfile(ctx, mode) /\ inSession
    BY <1>0, <1>4 DEF Session!SaveEdit, Session!Reached, OwedInv, Session!bounded, Session!Main
  <2>2. Session!Serialized(ctx, mode) = Session!WriteProfile(ctx, mode)
    BY <2>1 DEF Session!Serialized
  <2>3. LET v == Session!WriteProfile(ctx, mode) IN
        RegistryShape(v) /\ v.kind = "profile" /\ v.cal = ctx.cal
    BY WrittenShape
  <2>4. \/ registry' = Session!WriteProfile(ctx, mode) /\ owed' = ctx.cal /\ zeros' = "nowhere"
        \/ UNCHANGED <<registry, owed, zeros>>
    BY <2>1, <2>2 DEF Session!SaveProfile
  <2>5. /\ RegistryShape(registry')
        /\ \/ /\ registry'.kind = "profile" /\ registry'.cal = ctx.cal
              /\ owed' = ctx.cal /\ zeros' = "nowhere"
           \/ UNCHANGED <<registry, owed, zeros>>
    BY <1>0, <2>3, <2>4
  <2>6. NumbersInv' BY <1>0, <2>1, <2>5 DEF NumbersInv
  <2>7. OwedInv' BY <1>0, <2>1, <2>5 DEF OwedInv, NumbersInv, Session!SolveSurvives
  <2>8. RegistryShape(registry)' /\ ContextShape(ctx)' BY <1>0, <2>1, <2>5 DEF RegistryShape, ContextShape
  <2> QED BY <2>6, <2>7, <2>8 DEF SessionInv
<1>5. CASE Session!AcceptSolve
  <2> DEFINE a == Session!Accepted(ctx)
  <2>1. /\ events' = events + 1 /\ ctx' = [a EXCEPT !.valid = TRUE]
        /\ Session!SaveProfile(a, mode) /\ mode' # "editing" /\ UNCHANGED inSession
        /\ owed' = IF registry' = Session!Serialized(a, mode) THEN events' ELSE owed
        /\ zeros' = IF registry' = Session!Serialized(a, mode) THEN "nowhere"
                    ELSE IF zeros = "memory" THEN "nowhere" ELSE zeros
        /\ inSession
    BY <1>5 DEF Session!AcceptSolve, Session!Reached, Session!ZerosLeft
  <2>2. a = [old EXCEPT !.cal = events + 1, !.valid = TRUE] BY <1>1 DEF Session!Accepted
  <2>3. ContextShape(a) /\ a.valid = TRUE /\ a.cal = events + 1 BY <2>2 DEF ContextShape
  <2>4. ctx' = [[old EXCEPT !.cal = events + 1, !.valid = TRUE] EXCEPT !.valid = TRUE]
    BY <2>1, <2>2
  <2>5. ContextShape(ctx') /\ ctx'.valid = TRUE /\ ctx'.cal = events + 1 BY <2>4 DEF ContextShape
  <2> HIDE DEF a
  <2>6. Session!Serialized(a, mode) = Session!WriteProfile(a, mode)
    BY <2>3 DEF Session!Serialized
  <2>7. LET v == Session!WriteProfile(a, mode) IN
        RegistryShape(v) /\ v.kind = "profile" /\ v.cal = a.cal
    BY WrittenShape
  <2>8. \/ registry' = Session!WriteProfile(a, mode) /\ owed' = events + 1 /\ zeros' = "nowhere"
        \/ /\ UNCHANGED <<registry, owed>>
           /\ zeros' = IF zeros = "memory" THEN "nowhere" ELSE zeros
    BY <2>1, <2>6 DEF Session!SaveProfile
  <2>9. /\ RegistryShape(registry')
        /\ \/ /\ registry'.kind = "profile" /\ registry'.cal = events + 1
              /\ owed' = events + 1 /\ zeros' = "nowhere"
           \/ /\ UNCHANGED <<registry, owed>>
              /\ zeros' = IF zeros = "memory" THEN "nowhere" ELSE zeros
    BY <1>0, <2>3, <2>7, <2>8
  <2>10. NumbersInv' BY <1>0, <2>1, <2>5, <2>9 DEF NumbersInv
  <2>11. OwedInv' BY <1>0, <2>1, <2>5, <2>9 DEF OwedInv, NumbersInv, Session!SolveSurvives
  <2>12. RegistryShape(registry)' /\ ContextShape(ctx)' BY <2>5, <2>9 DEF RegistryShape, ContextShape
  <2> QED BY <2>10, <2>11, <2>12 DEF SessionInv
<1>6. CASE Session!RecoverFromWedgedCalibration
  <2>1. /\ events' = events + 1 /\ ctx' = [ctx EXCEPT !.cal = 0] /\ mode' = "continuous"
        /\ UNCHANGED <<registry, owed, inSession>> /\ inSession
        /\ zeros' = IF zeros = "nowhere" THEN "memory" ELSE zeros
    BY <1>6 DEF Session!RecoverFromWedgedCalibration
  <2>2. ctx' = [old EXCEPT !.cal = 0] BY <1>1, <2>1
  <2>3. ContextShape(ctx') /\ ctx'.cal = 0 /\ ctx'.valid = ctx.valid BY <2>2 DEF ContextShape
  <2>4. NumbersInv' BY <1>0, <2>1, <2>3 DEF NumbersInv
  <2>5. Session!SolveSurvives' BY <1>0, <2>1 DEF OwedInv, Session!SolveSurvives
  <2>6. zeros' \in {"memory", "registry"} BY <1>0, <2>1 DEF OwedInv
  <2>7. (inSession /\ owed > 0 => ctx.valid)' BY <1>0, <2>1, <2>3 DEF OwedInv
  <2>8. OwedInv' BY <2>1, <2>3, <2>5, <2>6, <2>7 DEF OwedInv
  <2>9. RegistryShape(registry)' /\ ContextShape(ctx)' BY <1>0, <2>1, <2>3 DEF RegistryShape, ContextShape
  <2> QED BY <2>4, <2>8, <2>9 DEF SessionInv
<1> QED BY <1>2, <1>3, <1>4, <1>5, <1>6

LEMMA NextSession == SessionInv /\ [MCNext]_allVars => SessionInv'
<1> SUFFICES ASSUME SessionInv, [MCNext]_allVars PROVE SessionInv'
  OBVIOUS
<1>1. Session!Next \/ UNCHANGED sessionVars BY DEF MCNext, allVars
<1>2. CASE UNCHANGED sessionVars
  BY <1>2 DEF sessionVars, SessionInv, RegistryShape, ContextShape, NumbersInv, OwedInv,
     Session!SolveSurvives
<1> QED BY <1>1, <1>2, SessionButtons, SessionSaves, SessionStarts, SessionCalibrates
        DEF Session!Next

\* A calibration that was solved or edited and has reached the registry is still there,
\* or a newer one, whatever the buttons, the wizard and the solver save later and
\* however often the overlay is started again, until the user clears it or a start
\* cannot read the registry; only the zeros of an automatic recovery, saved by a button
\* before the next solve, can have taken its place.
THEOREM SolveSurvivesCorrect == MCSpec => []SolveSurvives
<1>1. MCInit => SessionInv BY InitSession DEF MCInit
<1>2. SessionInv => SolveSurvives BY DEF SessionInv, OwedInv, SolveSurvives
<1> QED BY <1>1, <1>2, NextSession, PTL DEF MCSpec

-----------------------------------------------------------------------------
(* The switches of the Modules tab.                                        *)

HelperTypes == [id : Nat, mod : Modules, want : BOOLEAN,
                at : {"started", "wrote", "exited"}, own : BOOLEAN]

ShellTypes ==
  /\ clicks \in Nat
  /\ helpers \subseteq HelperTypes
  /\ asked \in [Modules -> {"unset", "on", "off"}]

\* A helper is named by its click, and the overlay waits for each of its own.
IdsInv ==
  /\ \A h, g \in helpers : h.id = g.id => h = g
  /\ \A h \in helpers : h.id <= clicks
  /\ \A h \in helpers : h.own => h.id \in toggles

\* A module that was not clicked behind the back of an earlier overlay has one helper
\* at most, and that helper does what the last click asked for.
OneHelperInv ==
  \A m \in Modules \ raced :
    /\ \A h, g \in helpers : h.mod = m /\ g.mod = m => h = g
    /\ \A h \in helpers : h.mod = m => Shell!Word(h.want) = asked[m]

ShellInv == ShellTypes /\ IdsInv /\ OneHelperInv /\ ClickDecides

LEMMA InitShell == Shell!Init => ShellInv
BY DEF Shell!Init, Shell!Unset, ShellInv, ShellTypes, IdsInv, OneHelperInv, ClickDecides,
   Shell!ClickDecides

\* The helper of an id is the one that has it.
LEMMA HelperOfId == ASSUME IdsInv, NEW h \in helpers PROVE Shell!Helper(h.id) = h
BY DEF IdsInv, Shell!Helper

\* A row that is not pending has no helper of this overlay.
LEMMA NotPending ==
  ASSUME IdsInv, NEW m, ~Shell!IsTogglePending(m), NEW h \in helpers, h.mod = m
  PROVE  ~h.own
BY HelperOfId DEF IdsInv, Shell!IsTogglePending

\* One helper becomes another of the same click, or is gone.
Replaces(h, g, gs) == gs = (helpers \ {h}) \cup {g} \/ gs = helpers \ {h}

LEMMA HelperBecomes ==
  ASSUME ShellTypes, NEW h \in helpers, NEW at \in {"started", "wrote", "exited"},
         Shell!Becomes(h, at)
  PROVE  \E g \in HelperTypes :
           /\ g.id = h.id /\ g.mod = h.mod /\ g.want = h.want /\ g.own = h.own /\ g.at = at
           /\ Replaces(h, g, helpers')
<1> DEFINE g == [h EXCEPT !.at = at]
<1>1. h \in HelperTypes BY DEF ShellTypes
<1>2. /\ g \in HelperTypes
      /\ g.id = h.id /\ g.mod = h.mod /\ g.want = h.want /\ g.own = h.own /\ g.at = at
  BY <1>1 DEF HelperTypes
<1>3. helpers' = (helpers \ {h}) \cup {x \in {g} : x.own \/ x.at # "exited"}
  BY DEF Shell!Becomes
<1> HIDE DEF g
<1>4. {x \in {g} : x.own \/ x.at # "exited"} \in {{g}, {}} OBVIOUS
<1>5. Replaces(h, g, helpers') BY <1>3, <1>4 DEF Replaces
<1> QED BY <1>2, <1>5

\* Replacing a helper keeps names and numbers.
LEMMA ReplaceKeeps ==
  ASSUME ShellInv, NEW h \in helpers, NEW g \in HelperTypes,
         g.id = h.id, g.mod = h.mod, g.want = h.want, g.own = h.own,
         Replaces(h, g, helpers'), UNCHANGED <<toggles, clicks, asked, raced>>
  PROVE  ShellTypes' /\ IdsInv' /\ OneHelperInv'
<1>0. ShellTypes /\ IdsInv /\ OneHelperInv BY DEF ShellInv
<1>1. ShellTypes' BY <1>0 DEF ShellTypes, Replaces
<1>2. IdsInv' BY <1>0 DEF IdsInv, Replaces
<1>3. OneHelperInv' BY <1>0 DEF OneHelperInv, Replaces, Shell!Word
<1> QED BY <1>1, <1>2, <1>3

LEMMA ShellHelper ==
  ASSUME ShellInv, NEW h \in helpers, Shell!HelperSteps(h)
  PROVE  ShellInv'
<1>0. ShellTypes /\ IdsInv /\ OneHelperInv /\ Shell!ClickDecides BY DEF ShellInv, ClickDecides
<1>1. UNCHANGED <<toggles, clicks, asked, raced>>
  BY DEF Shell!HelperSteps, Shell!HelperWrites, Shell!HelperExits, Shell!HelperFails,
     Shell!tab, Shell!ghosts
<1>2. PICK at \in {"wrote", "exited"} :
        /\ Shell!Becomes(h, at)
        /\ \/ /\ h.at = "started" /\ at = "wrote"
              /\ flags' = IF h.want THEN flags \cup {h.mod} ELSE flags \ {h.mod}
              /\ UNCHANGED failed
           \/ h.at = "wrote" /\ at = "exited" /\ UNCHANGED <<flags, failed>>
           \/ h.at = "started" /\ failed' = failed \cup {h.mod} /\ UNCHANGED flags
  BY DEF Shell!HelperSteps, Shell!HelperWrites, Shell!HelperExits, Shell!HelperFails,
     Shell!ghosts
<1>3. PICK g \in HelperTypes :
        /\ g.id = h.id /\ g.mod = h.mod /\ g.want = h.want /\ g.own = h.own /\ g.at = at
        /\ Replaces(h, g, helpers')
  BY <1>0, <1>2, HelperBecomes
<1>4. ShellTypes' /\ IdsInv' /\ OneHelperInv' BY <1>1, <1>3, ReplaceKeeps
<1>5. h.mod \in Modules /\ h.want \in BOOLEAN BY <1>0 DEF ShellTypes, HelperTypes
<1>6. ASSUME NEW m \in Modules, asked[m] # "unset", m \notin failed' \cup raced,
             \A x \in helpers' : x.mod = m => x.at # "started"
      PROVE  Shell!Word(m \in flags') = asked[m]
  <2>1. CASE m = h.mod
    <3>1. Shell!Word(h.want) = asked[m] BY <1>0, <1>1, <1>6, <2>1 DEF OneHelperInv
    <3>2. CASE h.at = "started"
      BY <1>2, <1>5, <1>6, <2>1, <3>1, <3>2 DEF Shell!Word
    <3>3. CASE h.at = "wrote" /\ UNCHANGED <<flags, failed>>
      <4>1. \A x \in helpers : x.mod = m => x = h BY <1>0, <1>6, <2>1 DEF OneHelperInv
      <4> QED BY <1>0, <1>6, <3>3, <4>1 DEF Shell!ClickDecides, Shell!IsFlagPresent
    <3> QED BY <1>2, <3>2, <3>3
  <2>2. CASE m # h.mod
    <3>1. m \in flags' <=> m \in flags BY <1>2, <2>2
    <3>2. m \notin failed BY <1>2, <1>6
    <3>3. \A x \in helpers : x.mod = m => x.at # "started" BY <1>3, <1>6, <2>2 DEF Replaces
    <3> QED BY <1>0, <1>6, <3>1, <3>2, <3>3 DEF Shell!ClickDecides, Shell!IsFlagPresent, Shell!Word
  <2> QED BY <2>1, <2>2
<1>7. ClickDecides'
  BY <1>1, <1>6 DEF ClickDecides, Shell!ClickDecides, Shell!IsFlagPresent
<1> QED BY <1>4, <1>7 DEF ShellInv

LEMMA ShellTick == ASSUME ShellInv, Shell!TickToggles PROVE ShellInv'
<1>0. ShellTypes /\ IdsInv /\ OneHelperInv /\ Shell!ClickDecides BY DEF ShellInv, ClickDecides
<1>1. /\ toggles' = {id \in toggles : Shell!Helper(id).at # "exited"}
      /\ helpers' = helpers \ {h \in helpers : h.own /\ h.at = "exited"}
      /\ UNCHANGED <<flags, clicks, asked, failed, raced>>
  BY DEF Shell!TickToggles, Shell!ghosts
<1>2. ShellTypes' BY <1>0, <1>1 DEF ShellTypes
<1>3. IdsInv'
  <2>1. ASSUME NEW h \in helpers', h.own PROVE h.id \in toggles'
    <3>1. h \in helpers /\ h.at # "exited" BY <1>1, <2>1
    <3>2. Shell!Helper(h.id) = h BY <1>0, <3>1, HelperOfId
    <3>3. h.id \in toggles BY <1>0, <2>1, <3>1 DEF IdsInv
    <3> QED BY <1>1, <3>1, <3>2, <3>3
  <2> QED BY <1>0, <1>1, <2>1 DEF IdsInv
<1>4. OneHelperInv' BY <1>0, <1>1 DEF OneHelperInv
<1>5. ASSUME NEW m \in Modules, \A h \in helpers' : h.mod = m => h.at # "started"
      PROVE  \A h \in helpers : h.mod = m => h.at # "started"
  BY <1>1, <1>5
<1>6. ClickDecides'
  BY <1>0, <1>1, <1>5 DEF ClickDecides, Shell!ClickDecides, Shell!IsFlagPresent
<1> QED BY <1>2, <1>3, <1>4, <1>6 DEF ShellInv

LEMMA ShellClick ==
  ASSUME ShellInv, NEW m \in Modules, Shell!SetFlagPresent(m)
  PROVE  ShellInv'
<1>0. ShellTypes /\ IdsInv /\ OneHelperInv /\ Shell!ClickDecides BY DEF ShellInv, ClickDecides
<1> DEFINE w == ~Shell!DisplayState(m)
           g == [id |-> clicks + 1, mod |-> m, want |-> w, at |-> "started", own |-> TRUE]
<1>1. /\ clicks' = clicks + 1 /\ ~Shell!IsTogglePending(m)
      /\ toggles' = toggles \cup {clicks + 1}
      /\ helpers' = helpers \cup {g}
      /\ asked' = [asked EXCEPT ![m] = Shell!Word(w)]
      /\ failed' = failed \ {m} /\ UNCHANGED flags
      /\ raced' = IF \E h \in helpers : h.mod = m /\ ~h.own THEN raced \cup {m} ELSE raced
  BY DEF Shell!SetFlagPresent, Shell!Click, Shell!Blocked
<1>2. w \in BOOLEAN OBVIOUS
<1> HIDE DEF w
<1>3. g \in HelperTypes BY <1>0, <1>2 DEF HelperTypes, ShellTypes
<1>4. g.id = clicks + 1 /\ g.mod = m /\ g.want = w /\ g.at = "started" /\ g.own = TRUE OBVIOUS
<1> HIDE DEF g
<1>5. ShellTypes' BY <1>0, <1>1, <1>3 DEF ShellTypes, Shell!Word
<1>6. \A h \in helpers : h.id \in Nat /\ h.id <= clicks BY <1>0 DEF IdsInv, ShellTypes, HelperTypes
<1>7. IdsInv' BY <1>0, <1>1, <1>4, <1>6 DEF IdsInv, ShellTypes
<1>8. asked'[m] = Shell!Word(w) /\ \A n \in Modules \ {m} : asked'[n] = asked[n]
  BY <1>0, <1>1 DEF ShellTypes
<1>9. m \in raced' \/ \A h \in helpers : h.mod # m
  <2>1. SUFFICES ASSUME m \notin raced', NEW h \in helpers, h.mod = m PROVE FALSE
    OBVIOUS
  <2>2. ~h.own BY <1>0, <1>1, <2>1, NotPending
  <2> QED BY <1>1, <2>1, <2>2
<1>10. raced \subseteq raced' BY <1>1
<1>11. OneHelperInv' BY <1>0, <1>1, <1>4, <1>8, <1>9, <1>10 DEF OneHelperInv
<1>12. ASSUME NEW n \in Modules, asked'[n] # "unset", n \notin failed' \cup raced',
              \A h \in helpers' : h.mod = n => h.at # "started"
       PROVE  Shell!Word(n \in flags') = asked'[n]
  <2>1. n # m BY <1>1, <1>4, <1>12
  <2>2. asked[n] # "unset" /\ n \notin failed \cup raced /\ asked'[n] = asked[n]
    BY <1>1, <1>8, <1>10, <1>12, <2>1
  <2>3. \A h \in helpers : h.mod = n => h.at # "started" BY <1>1, <1>12
  <2> QED BY <1>0, <1>1, <2>2, <2>3 DEF Shell!ClickDecides, Shell!IsFlagPresent
<1>13. ClickDecides' BY <1>12 DEF ClickDecides, Shell!ClickDecides, Shell!IsFlagPresent
<1> QED BY <1>5, <1>7, <1>11, <1>13 DEF ShellInv

LEMMA ShellCloses == ASSUME ShellInv, Shell!Closes PROVE ShellInv'
<1>0. ShellTypes /\ IdsInv /\ OneHelperInv /\ Shell!ClickDecides BY DEF ShellInv, ClickDecides
<1> DEFINE Orphan(h) == [h EXCEPT !.own = FALSE]
<1>1. /\ helpers' = {Orphan(h) : h \in {g \in helpers : g.at # "exited"}}
      /\ UNCHANGED <<flags, clicks, asked, failed, raced>>
  BY DEF Shell!Closes, Shell!ghosts
<1>2. ASSUME NEW h \in helpers
      PROVE  /\ Orphan(h) \in HelperTypes /\ Orphan(h).id = h.id /\ Orphan(h).mod = h.mod
             /\ Orphan(h).want = h.want /\ Orphan(h).at = h.at /\ Orphan(h).own = FALSE
  <2>1. h \in HelperTypes BY <1>0 DEF ShellTypes
  <2> QED BY <2>1 DEF HelperTypes
<1> HIDE DEF Orphan
<1>3. \A x \in helpers' : \E h \in helpers :
        /\ x = Orphan(h) /\ x \in HelperTypes /\ x.id = h.id /\ x.mod = h.mod
        /\ x.want = h.want /\ x.at = h.at /\ x.own = FALSE
  BY <1>1, <1>2
<1>4. ShellTypes' BY <1>0, <1>1, <1>3 DEF ShellTypes
<1>5. IdsInv' BY <1>0, <1>1, <1>3 DEF IdsInv
<1>6. OneHelperInv'
  <2>1. ASSUME NEW m \in Modules \ raced, NEW x \in helpers', NEW y \in helpers',
               x.mod = m, y.mod = m
        PROVE  x = y /\ Shell!Word(x.want) = asked[m]
    <3>1. PICK h \in helpers : x = Orphan(h) /\ x.mod = h.mod /\ x.want = h.want BY <1>3
    <3>2. PICK g \in helpers : y = Orphan(g) /\ y.mod = g.mod BY <1>3
    <3>3. h = g /\ Shell!Word(h.want) = asked[m] BY <1>0, <2>1, <3>1, <3>2 DEF OneHelperInv
    <3> QED BY <3>1, <3>2, <3>3
  <2> QED BY <1>1, <2>1 DEF OneHelperInv
<1>7. ASSUME NEW m \in Modules, \A x \in helpers' : x.mod = m => x.at # "started"
      PROVE  \A h \in helpers : h.mod = m => h.at # "started"
  <2>1. SUFFICES ASSUME NEW h \in helpers, h.mod = m, h.at = "started" PROVE FALSE
    OBVIOUS
  <2>2. Orphan(h) \in helpers' BY <1>1, <2>1
  <2> QED BY <1>2, <1>7, <2>1, <2>2
<1>8. ClickDecides'
  BY <1>0, <1>1, <1>7 DEF ClickDecides, Shell!ClickDecides, Shell!IsFlagPresent
<1> QED BY <1>4, <1>5, <1>6, <1>8 DEF ShellInv

\* Frames, refused prompts and SteamVR's comings and goings leave flags and helpers alone.
LEMMA ShellKeeps ==
  ASSUME ShellInv,
         UNCHANGED <<flags, helpers, toggles, asked, failed, raced>>,
         clicks' \in {clicks, clicks + 1}
  PROVE  ShellInv'
<1>0. ShellTypes /\ IdsInv /\ OneHelperInv /\ Shell!ClickDecides BY DEF ShellInv, ClickDecides
<1>1. ShellTypes' BY <1>0 DEF ShellTypes
<1>2. \A h \in helpers : h.id \in Nat BY <1>0 DEF ShellTypes, HelperTypes
<1>3. IdsInv' BY <1>0, <1>2 DEF IdsInv, ShellTypes
<1>4. OneHelperInv' BY <1>0 DEF OneHelperInv
<1>5. ClickDecides' BY <1>0 DEF ClickDecides, Shell!ClickDecides, Shell!IsFlagPresent
<1> QED BY <1>1, <1>3, <1>4, <1>5 DEF ShellInv

LEMMA NextShell == ShellInv /\ [MCNext]_allVars => ShellInv'
<1> SUFFICES ASSUME ShellInv, [MCNext]_allVars PROVE ShellInv'
  OBVIOUS
<1>1. Shell!Next \/ UNCHANGED shellVars BY DEF MCNext, allVars
<1>2. CASE UNCHANGED shellVars BY <1>2, ShellKeeps DEF shellVars
<1>3. CASE \/ Shell!DrawModules \/ \E m \in Modules : Shell!Refused(m)
           \/ Shell!DetectFeatureFlags \/ Shell!SteamVrQuits \/ Shell!TryInitVrStack
           \/ Shell!TryCreateOverlay \/ Shell!Opens
  <2>1. UNCHANGED <<flags, helpers, toggles, asked, failed, raced>>
        /\ clicks' \in {clicks, clicks + 1}
    BY <1>3 DEF Shell!DrawModules, Shell!Refused, Shell!Click, Shell!DetectFeatureFlags,
       Shell!SteamVrQuits, Shell!TryInitVrStack, Shell!TryCreateOverlay, Shell!Opens,
       Shell!disk, Shell!tab, Shell!ghosts
  <2> QED BY <2>1, ShellKeeps
<1> QED BY <1>1, <1>2, <1>3, ShellHelper, ShellTick, ShellClick, ShellCloses DEF Shell!Next

\* Once no helper of a module is at work and the last one did its work, the module's flag
\* is what the last click asked for, in whatever order helpers, frames, clicks and restarts
\* of the overlay fall, unless a click raced a helper of an earlier overlay.
THEOREM ClickDecidesCorrect == MCSpec => []ClickDecides
<1>1. MCInit => ShellInv BY InitShell DEF MCInit
<1>2. ShellInv => ClickDecides BY DEF ShellInv
<1> QED BY <1>1, <1>2, NextShell, PTL DEF MCSpec

=============================================================================
