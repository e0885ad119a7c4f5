----------------------------- MODULE OverlayIpc -----------------------------
(***************************************************************************)
(* A feature plugin of the overlay and its pipe to the driver: the blocking *)
(* client with its one transparent reconnect and resend (IpcClientBase.cpp) *)
(* and what the plugins do so that a driver that was restarted gets their   *)
(* settings again.  The overlay is single threaded, so its calls nest: the  *)
(* call stack is a variable, and the driver may die or drop the connection  *)
(* between any two of its steps.                                            *)
(*                                                                          *)
(* connectionGeneration_ and the generation a plugin has observed are only  *)
(* ever compared for equality and the first only grows, so "fresh" stands   *)
(* for the two being different.                                             *)
(***************************************************************************)
EXTENDS Naturals, Sequences

CONSTANTS
    MaxFaults,    \* bound: driver restarts, dropped connections, I/O errors
    MaxEdits      \* bound: settings the user changes

ASSUME IpcAssumption == MaxFaults \in Nat /\ MaxEdits \in Nat

VARIABLES
    plugin,       \* whose client this is
    drv,          \* the driver: its state, protocol match, settings received
    open,         \* pipe_ is a valid handle
    chan,         \* the pipe instance behind it
    fresh,        \* connectionGeneration_ # observed_ipc_generation_
    reconnecting, \* reconnecting_
    stack,        \* calls of the client in progress, innermost first
    act,          \* "run", or how the last call ended: "ret", "broken", "throw"
    reply,        \* whether the last handshake reply had our version
    job,          \* what the plugin is doing
    todo,         \* requests it has still to send
    want,         \* the settings the plugin holds
    seq,          \* request number, modulo 4
    faults, edits

client == <<open, chan, fresh, reconnecting, stack, act, reply, seq>>
vars   == <<plugin, drv, client, job, todo, want, faults, edits>>

Plugins == {"inputhealth", "facetracking", "captions", "smoothing"}

\* The requests that carry a plugin's settings, in the order it replays them.
Replay(p) == IF p = "inputhealth" THEN <<"config", "comp">>
             ELSE IF p = "smoothing" THEN <<"fingers", "prediction">>
             ELSE <<"config">>
Parts    == {"config", "comp", "fingers", "prediction"}
Commands == {"reset", "calibrate", "restart"}
PartsOf(p) == {Replay(p)[i] : i \in DOMAIN Replay(p)}

NoChan == [peer |-> "none", req |-> <<>>, resp |-> <<>>]
SendFrame(what) == [fn |-> "send", what |-> what, st |-> "first", n |-> 0]
ConnFrame       == [fn |-> "connect", what |-> "handshake", st |-> "open", n |-> 0]
Top == Head(stack)
Idle == stack = <<>> /\ act # "run"
At(fn, st) == stack # <<>> /\ Top.fn = fn /\ Top.st \in st

Call(f) == stack' = <<f>> \o stack /\ act' = "run"
\* The innermost call ends.
End(how) == stack' = Tail(stack) /\ act' = how
Goto(st) == stack' = <<[Top EXCEPT !.st = st]>> \o Tail(stack)
Close == open' = FALSE /\ chan' = NoChan
Fault == faults < MaxFaults /\ faults' = faults + 1
Same  == UNCHANGED <<plugin, drv, job, todo, want, edits>>

-----------------------------------------------------------------------------
(* IpcClientBase *)

\* Connect: open the pipe (or not: no driver, no free instance, no mode).
ConnectOpen ==
    /\ act = "run" /\ At("connect", {"open"})
    /\ \/ /\ drv.st # "down"
          /\ open' = TRUE /\ chan' = [NoChan EXCEPT !.peer = "alive"]
          /\ stack' = <<SendFrame("handshake"), [Top EXCEPT !.st = "hs"]>> \o Tail(stack)
          /\ UNCHANGED <<act, faults>>
       \/ /\ drv.st = "down" \/ faults < MaxFaults
          /\ faults' = IF drv.st = "down" THEN faults ELSE faults + 1
          /\ Close /\ End("throw")
    /\ UNCHANGED <<fresh, reconnecting, reply, seq>> /\ Same

ConnectHandshaken_SameGeneration ==
    /\ act # "run" /\ At("connect", {"hs"})
    /\ IF act = "ret"
       THEN /\ IF reply THEN UNCHANGED <<open, chan>> ELSE Close
            /\ End(IF reply THEN "ret" ELSE "throw")
       ELSE /\ End(act) /\ UNCHANGED <<open, chan>>
    /\ UNCHANGED <<fresh, reconnecting, reply, seq, faults>> /\ Same

\* Connect after its handshake: a foreign version closes the pipe, ours makes a
\* new generation; an exception passes through.
ConnectHandshaken ==
    /\ act # "run" /\ At("connect", {"hs"})
    /\ IF act = "ret"
       THEN /\ IF reply THEN UNCHANGED <<open, chan>> ELSE Close
            /\ fresh' = (fresh \/ reply)
            /\ End(IF reply THEN "ret" ELSE "throw")
       ELSE /\ End(act) /\ UNCHANGED <<open, chan, fresh>>
    /\ UNCHANGED <<reconnecting, reply, seq, faults>> /\ Same

\* SendBlocking connects first when the pipe is closed; every caller has tested
\* IsConnected just before, on the same thread, so no call of it starts closed.
\* Send: every failure closes the handle.
Send ==
    /\ act = "run" /\ At("send", {"first", "second"}) /\ open
    /\ \/ /\ chan.peer = "alive"
          /\ chan' = [chan EXCEPT !.req = <<[what |-> Top.what, n |-> seq]>>]
          /\ stack' = <<[Top EXCEPT !.st = IF @ = "first" THEN "recv1" ELSE "recv2",
                                    !.n = seq]>> \o Tail(stack)
          /\ seq' = (seq + 1) % 4
          /\ UNCHANGED <<open, act, faults>>
       \/ /\ chan.peer = "gone"
          /\ Close /\ act' = "broken"
          /\ UNCHANGED <<stack, seq, faults>>
       \/ /\ Fault /\ Close /\ act' = "throw"
          /\ UNCHANGED <<stack, seq>>
    /\ UNCHANGED <<fresh, reconnecting, reply>> /\ Same

Receive_KeepsPipe ==
    /\ act = "run" /\ At("send", {"recv1", "recv2"})
    /\ \/ /\ chan.resp # <<>>
          /\ chan' = [chan EXCEPT !.resp = Tail(@)]
          /\ reply' = Head(chan.resp).ours
          /\ End("ret")
          /\ UNCHANGED <<open, faults>>
       \/ /\ chan.resp = <<>> /\ chan.peer = "gone"
          /\ Close /\ act' = "broken"
          /\ UNCHANGED <<stack, reply, faults>>
       \/ /\ Fault /\ act' = "throw"
          /\ UNCHANGED <<stack, reply, open, chan>>
    /\ UNCHANGED <<fresh, reconnecting, seq>> /\ Same

\* Receive: an answer, a broken pipe, another error (the handle is closed), or
\* an answer of a foreign driver that is too large, which is read to its end and
\* the handle kept.
Receive ==
    /\ act = "run" /\ At("send", {"recv1", "recv2"})
    /\ \/ /\ chan.resp # <<>>
          /\ chan' = [chan EXCEPT !.resp = Tail(@)]
          /\ reply' = Head(chan.resp).ours
          /\ End("ret")
          /\ UNCHANGED <<open, faults>>
       \/ /\ chan.resp = <<>> /\ chan.peer = "gone"
          /\ Close /\ act' = "broken"
          /\ UNCHANGED <<stack, reply, faults>>
       \/ /\ Fault /\ Close /\ act' = "throw"
          /\ UNCHANGED <<stack, reply>>
       \/ /\ chan.resp # <<>> /\ ~Head(chan.resp).ours
          /\ chan' = [chan EXCEPT !.resp = Tail(@)] /\ act' = "throw"
          /\ UNCHANGED <<open, stack, reply, faults>>
    /\ UNCHANGED <<fresh, reconnecting, seq>> /\ Same

\* SendBlocking catches a broken pipe of its first attempt, unless it is itself
\* part of a reconnect; every other exception passes through.
SendFails ==
    /\ act \in {"broken", "throw"} /\ At("send", {"first", "second", "recv1", "recv2"})
    /\ IF act = "broken" /\ ~reconnecting /\ Top.st \in {"first", "recv1"}
       THEN /\ reconnecting' = TRUE
            /\ stack' = <<ConnFrame, [Top EXCEPT !.st = "re"]>> \o Tail(stack)
            /\ act' = "run"
       ELSE End(act) /\ UNCHANGED reconnecting
    /\ UNCHANGED <<open, chan, fresh, reply, seq, faults>> /\ Same

\* The Connect inside SendBlocking has ended: resend, or give up.
SendConnected ==
    /\ act # "run" /\ At("send", {"re"})
    /\ reconnecting' = FALSE
    /\ IF act = "ret" THEN Goto("second") /\ act' = "run" ELSE End("throw")
    /\ UNCHANGED <<open, chan, fresh, reply, seq, faults>> /\ Same

-----------------------------------------------------------------------------
(* The driver's end of the pipe *)

\* A request is carried out (refused while the modules are down) and answered;
\* the answer, or the request, may be lost with the connection.
Serve ==
    /\ chan.peer = "alive" /\ chan.req # <<>>
    /\ LET r == Head(chan.req)
           executed == drv' = IF r.what \in Parts /\ drv.st = "up"
                              THEN [drv EXCEPT !.has[r.what] = want[r.what]] ELSE drv
       IN  \/ /\ executed
              /\ chan' = [chan EXCEPT !.req = <<>>,
                             !.resp = Append(@, [n |-> r.n, ours |-> drv.match])]
              /\ UNCHANGED faults
           \/ /\ Fault
              /\ executed \/ UNCHANGED drv
              /\ chan' = [chan EXCEPT !.peer = "gone", !.req = <<>>]
    /\ UNCHANGED <<plugin, open, fresh, reconnecting, stack, act, reply, seq, job, todo,
                   want, edits>>

DriverCleanup ==
    /\ drv.st = "up"
    /\ drv' = [drv EXCEPT !.st = "closing"]
    /\ UNCHANGED <<plugin, client, job, todo, want, faults, edits>>

DriverEnds ==
    /\ drv.st # "down" /\ Fault
    /\ drv' = [drv EXCEPT !.st = "down", !.has = [p \in Parts |-> 0]]
    /\ chan' = IF open THEN [chan EXCEPT !.peer = "gone", !.req = <<>>] ELSE chan
    /\ UNCHANGED <<plugin, open, fresh, reconnecting, stack, act, reply, seq, job, todo,
                   want, edits>>

DriverStarts ==
    /\ drv.st = "down"
    /\ \E m \in BOOLEAN : drv' = [drv EXCEPT !.st = "up", !.match = m]
    /\ UNCHANGED <<plugin, client, job, todo, want, faults, edits>>

-----------------------------------------------------------------------------
(* The plugins *)

Quiet == UNCHANGED <<plugin, drv, chan, open, reconnecting, reply, seq, want, faults, edits>>
Free  == Idle /\ job = "idle"

\* Captions closes the handle when a push has failed; the others leave it.
PushFailed ==
    /\ Idle /\ job = "push" /\ plugin = "captions" /\ open /\ act # "ret"
    /\ Close
    /\ UNCHANGED <<plugin, drv, fresh, reconnecting, stack, act, reply, seq, job, todo,
                   want, faults, edits>>

\* Send the next request; each one is skipped when the pipe is closed, and a
\* failed one does not stop the rest.
PushNext ==
    /\ Idle /\ job = "push" /\ todo # <<>>
    /\ todo' = Tail(todo)
    /\ IF open THEN Call(SendFrame(Head(todo)))
               ELSE UNCHANGED <<stack, act>>
    /\ UNCHANGED <<job, fresh>> /\ Quiet

PushDone ==
    /\ Idle /\ job = "push" /\ todo = <<>> /\ (plugin = "captions" /\ open => act = "ret")
    /\ job' = "idle"
    /\ UNCHANGED <<todo, fresh, stack, act>> /\ Quiet

\* OnStart, and Smoothing's Tick on a closed pipe: connect, then send all.
Started ==
    /\ Idle /\ job = "start"
    /\ IF act = "ret" THEN job' = "push" /\ todo' = Replay(plugin)
                      ELSE job' = "idle" /\ UNCHANGED todo
    /\ UNCHANGED <<fresh, stack, act>> /\ Quiet

SmoothingTick ==
    /\ Free /\ plugin = "smoothing" /\ ~open
    /\ Call(ConnFrame) /\ job' = "start"
    /\ UNCHANGED <<fresh, todo>> /\ Quiet

\* MaintainDriverConnection, once a second: connect if need be, shake hands, and
\* replay the settings if the generation has changed.
Heartbeat ==
    /\ Free
    /\ IF open THEN Call(SendFrame("handshake")) /\ job' = "beat"
               ELSE Call(ConnFrame) /\ job' = "connect"
    /\ UNCHANGED <<fresh, todo>> /\ Quiet

InputHealthTick  == plugin = "inputhealth" /\ Heartbeat
FacetrackingTick == plugin = "facetracking" /\ Heartbeat
CaptionsTick     == plugin = "captions" /\ Heartbeat

\* The handshake failed: the plugin closes its handle.
HeartbeatFails ==
    /\ Idle /\ job \in {"connect", "beat"} /\ act # "ret"
    /\ Close /\ job' = "idle"
    /\ UNCHANGED <<plugin, drv, fresh, reconnecting, stack, act, reply, seq, todo, want,
                   faults, edits>>

HeartbeatConnected ==
    /\ Idle /\ job = "connect" /\ act = "ret"
    /\ Call(SendFrame("handshake")) /\ job' = "beat"
    /\ UNCHANGED <<fresh, todo>> /\ Quiet

HeartbeatAnswered ==
    /\ Idle /\ job = "beat" /\ act = "ret"
    /\ IF reply /\ fresh
       THEN fresh' = FALSE /\ job' = "push" /\ todo' = Replay(plugin)
       ELSE job' = "idle" /\ UNCHANGED <<fresh, todo>>
    /\ UNCHANGED <<stack, act>> /\ Quiet

\* The user changes a setting: it is kept, and sent if the pipe is open.
Edit(p) ==
    /\ Free /\ edits < MaxEdits
    /\ edits' = edits + 1
    /\ want' = [want EXCEPT ![p] = @ + 1]
    /\ todo' = <<p>> /\ job' = "push"
    /\ UNCHANGED <<plugin, drv, client, faults>>

InputHealthEdit     == plugin = "inputhealth" /\ Edit("config")
PushCompensation    == plugin = "inputhealth" /\ Edit("comp")
FacetrackingEdit    == plugin = "facetracking" /\ Edit("config")
\* The active module, also reconciled with the modules a sync has installed.
SendEnabledModules  == plugin = "facetracking" /\ Edit("config")
CaptionsEdit        == plugin = "captions" /\ Edit("config")
SendConfig          == plugin = "smoothing" /\ Edit("fingers")
SmoothingPrediction == plugin = "smoothing" /\ Edit("prediction")

\* A request that carries no setting, sent only on an open pipe.
Command(r) ==
    /\ Free /\ open /\ edits < MaxEdits
    /\ edits' = edits + 1
    /\ todo' = <<r>> /\ job' = "push"
    /\ UNCHANGED <<plugin, drv, client, want, faults>>

SendReset              == plugin = "inputhealth" /\ Command("reset")
SendCalibrationCommand == plugin = "facetracking" /\ Command("calibrate")
\* The restart a finished pack installation asks for.
SendRestartHost        == plugin = "captions" /\ Command("restart")
\* The list of tracked devices has changed: the predictions are sent again.
TickPredictionRestore  == plugin = "smoothing" /\ Command("prediction")

-----------------------------------------------------------------------------

Init ==
    /\ plugin \in Plugins
    /\ \E s \in {"down", "up"}, m \in BOOLEAN :
          drv = [st |-> s, match |-> m, has |-> [p \in Parts |-> 0]]
    /\ open = FALSE /\ chan = NoChan /\ fresh = FALSE /\ reconnecting = FALSE
    /\ stack = <<ConnFrame>> /\ act = "run" /\ reply = FALSE /\ seq = 0
    /\ job = "start" /\ todo = <<>>
    /\ want = [p \in Parts |-> IF p \in PartsOf(plugin) THEN 1 ELSE 0]
    /\ faults = 0 /\ edits = 0

ClientStep ==
    \/ ConnectOpen \/ ConnectHandshaken \/ Send \/ Receive
    \/ SendFails \/ SendConnected

PluginStep ==
    \/ PushNext \/ PushFailed \/ PushDone \/ Started \/ SmoothingTick
    \/ InputHealthTick \/ FacetrackingTick \/ CaptionsTick
    \/ HeartbeatFails \/ HeartbeatConnected \/ HeartbeatAnswered

UserStep ==
    \/ InputHealthEdit \/ PushCompensation \/ FacetrackingEdit \/ SendEnabledModules
    \/ CaptionsEdit \/ SendConfig \/ SmoothingPrediction
    \/ SendReset \/ SendCalibrationCommand \/ SendRestartHost \/ TickPredictionRestore

Next ==
    \/ ClientStep \/ PluginStep \/ UserStep
    \/ Serve \/ DriverCleanup \/ DriverEnds \/ DriverStarts

\* The overlay's frame loop runs, and a server thread that is up answers.
Fairness == WF_vars(ClientStep) /\ WF_vars(PluginStep) /\ WF_vars(Serve)

Spec == Init /\ [][Next]_vars /\ Fairness

-----------------------------------------------------------------------------
(* Properties *)

TypeOK ==
    /\ plugin \in Plugins /\ job \in {"start", "idle", "connect", "beat", "push"}
    /\ drv \in [st : {"down", "up", "closing"}, match : BOOLEAN, has : [Parts -> Nat]]
    /\ open \in BOOLEAN /\ fresh \in BOOLEAN /\ reconnecting \in BOOLEAN /\ reply \in BOOLEAN
    /\ act \in {"run", "ret", "broken", "throw"} /\ seq \in 0..3
    /\ todo \in Seq(Parts \cup Commands) /\ want \in [Parts -> Nat]
    /\ faults \in 0..MaxFaults /\ edits \in 0..MaxEdits
    /\ chan.peer \in {"none", "alive", "gone"} /\ (open <=> chan.peer # "none")

(* The answer SendBlocking takes from the pipe is the answer to the request  *)
(* it has sent: an answer that comes after its request was given up is never *)
(* read by a later request.                                                  *)
RepliesMatch ==
    At("send", {"recv1", "recv2"}) /\ chan.resp # <<>> => Head(chan.resp).n = Top.n

(* Once the driver stays up and speaks our version, it ends up with the      *)
(* settings of an Input Health, Face tracking or Captions plugin, wherever   *)
(* restarts, dropped connections and refusals struck.                        *)
SettingsReach ==
    <>[](drv.st = "up" /\ drv.match)
        => <>[](plugin = "smoothing" \/ \A p \in PartsOf(plugin) : drv.has[p] = want[p])

=============================================================================
