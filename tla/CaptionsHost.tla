---------------------------- MODULE CaptionsHost ----------------------------
(***************************************************************************)
(* The captions host (WKOpenVR.CaptionsHost): a capture thread queues the  *)
(* microphone's frames, the control pipe's thread stores the config that   *)
(* the driver sends (CommandDelivery says which arrive), and the main loop *)
(* records speech, transcribes it, translates it with the model of the     *)
(* configured pair and hands it, paced, to the OSC router.  The user       *)
(* presses push-to-talk, speaks, and installs or removes translation packs *)
(* at any time, also while the loop is busy transcribing.                  *)
(*                                                                         *)
(* A config is its mode and its target language; a frame is whether it     *)
(* holds speech; a caption is the language it is in.                       *)
(***************************************************************************)
EXTENDS Naturals, Sequences

CONSTANTS
  Configs,        \* configs that the driver sends
  Languages,      \* translation targets
  None,
  kFrameSamples,  \* samples of a frame of WasapiCapture
  VadSamples,     \* samples that the Silero model takes
  kSilenceFrames, \* frames without speech that end an utterance
  kQueueCap,      \* captions waiting for the pacer
  LongEnough,     \* frames below which a recording is thrown away
  MaxMic,         \* bound: frames waiting
  MaxConfigs,     \* bound: configs received
  MaxUser         \* bound: packs installed or removed, and deaths of the host

VARIABLES
  up,       \* the host runs
  config,   \* g_config
  sets,
  button,   \* push-to-talk is held
  mic,      \* audio_queue
  vad,      \* the speech detector is loaded
  at,       \* where the main loop is
  held,     \* ptt_held, as polled in this iteration
  frames,   \* the frames drained in this iteration
  cfg,      \* this iteration's copy of g_config
  inSpeech, silence, wasHeld,
  buf,      \* length of speech_buf, capped
  packs,    \* translation models on the disk
  engine,   \* the loaded model, or None
  queue,    \* ChatboxPacer's queue
  paced,    \* less than the minimum gap since the last send
  acts

loopVars == <<at, held, frames, cfg, inSpeech, silence, wasHeld, buf, engine, queue, paced>>
worldVars == <<button, packs, acts>>
pipeVars == <<up, config, sets>>
hostVars == <<loopVars, mic, vad>>
vars == <<pipeVars, hostVars, worldVars>>

\* HostConfig as it is constructed: push-to-talk, transcribe only.
Default == [mode |-> "ptt", tgt |-> None]

TypeOK ==
  /\ {up, button, vad, held, inSpeech, wasHeld, paced} \subseteq BOOLEAN
  /\ {config, cfg} \subseteq Configs \union {Default}
  /\ at \in {"top", "config", "frames", "transcribe"}
  /\ mic \in Seq(BOOLEAN) /\ frames \in Seq(BOOLEAN) /\ Len(mic) <= MaxMic
  /\ silence \in 0..kSilenceFrames /\ buf \in 0..LongEnough
  /\ packs \subseteq Languages /\ engine \in Languages \union {None}
  /\ queue \in Seq(Languages \union {None}) /\ Len(queue) <= kQueueCap
  /\ sets \in 0..MaxConfigs /\ acts \in 0..MaxUser

Init ==
  /\ up = FALSE /\ config = Default /\ sets = 0
  /\ button = FALSE /\ packs = Languages /\ acts = 0
  /\ mic = <<>> /\ vad = FALSE
  /\ at = "top" /\ held = FALSE /\ frames = <<>> /\ cfg = Default
  /\ inSpeech = FALSE /\ silence = 0 /\ wasHeld = FALSE /\ buf = 0
  /\ engine = None /\ queue = <<>> /\ paced = FALSE

\* main, up to its loop; the detector's model and runtime may be missing.
Starts ==
  /\ ~up /\ up' = TRUE
  /\ vad' \in BOOLEAN
  /\ UNCHANGED <<config, sets, loopVars, mic, worldVars>>

\* It dies or is restarted: a new process has the defaults and empty buffers.
Dies ==
  /\ up /\ acts < MaxUser
  /\ up' = FALSE /\ config' = Default /\ acts' = acts + 1
  /\ mic' = <<>>
  /\ at' = "top" /\ held' = FALSE /\ frames' = <<>> /\ cfg' = Default
  /\ inSpeech' = FALSE /\ silence' = 0 /\ wasHeld' = FALSE /\ buf' = 0
  /\ engine' = None /\ queue' = <<>> /\ paced' = FALSE
  /\ UNCHANGED <<sets, vad, button, packs>>

(***************************************************************************)
(* The other threads and the user.                                         *)
(***************************************************************************)

\* DispatchControlMessage, on the control pipe's thread.
Receives(c) ==
  /\ up /\ sets < MaxConfigs
  /\ sets' = sets + 1 /\ config' = c
  /\ UNCHANGED <<up, hostVars, worldVars>>

\* CaptureLoop's callback: 30 ms of sound.
Captures ==
  /\ up /\ Len(mic) < MaxMic
  /\ \E speech \in BOOLEAN : mic' = Append(mic, speech)
  /\ UNCHANGED <<pipeVars, loopVars, vad, worldVars>>

Button ==
  /\ button' = ~button
  /\ UNCHANGED <<pipeVars, hostVars, packs, acts>>

PackChanges(l) ==
  /\ acts < MaxUser
  /\ acts' = acts + 1
  /\ packs' = IF l \in packs THEN packs \ {l} ELSE packs \union {l}
  /\ UNCHANGED <<pipeVars, hostVars, button>>

\* A second has passed.
GapEnds ==
  /\ paced
  /\ paced' = FALSE
  /\ UNCHANGED <<pipeVars, at, held, frames, cfg, inSpeech, silence, wasHeld, buf, engine,
                 queue, mic, vad, worldVars>>

(***************************************************************************)
(* The main loop.                                                          *)
(***************************************************************************)

\* ActionBindings::Poll: the state of the action at this moment.
Polled == button

\* The button is polled, then the queue is taken as a whole.
Drain ==
  /\ up /\ at = "top"
  /\ held' = Polled
  /\ frames' = mic /\ mic' = <<>>
  /\ at' = "config"
  /\ UNCHANGED <<pipeVars, cfg, inSpeech, silence, wasHeld, buf, engine, queue, paced, vad,
                 worldVars>>

\* ResolveCaptionsModelDir names the model of a pair, if one is configured.
Available(c) == c.tgt # None /\ c.tgt \in packs

\* The model follows the pair and the packs on the disk; loading may fail.
Load(c, ok) ==
  IF ~Available(c) THEN None
  ELSE IF engine = c.tgt THEN engine
  ELSE IF ok THEN c.tgt ELSE None

Configure ==
  /\ up /\ at = "config"
  /\ cfg' = config
  /\ \E ok \in BOOLEAN : engine' = Load(config, ok)
  /\ at' = "frames"
  /\ UNCHANGED <<pipeVars, held, frames, inSpeech, silence, wasHeld, buf, queue, paced, mic,
                 vad, worldVars>>

Longer == IF buf < LongEnough THEN buf + 1 ELSE buf

\* SileroVad::Feed: a frame that is too short for the model is no speech.
Feed(frame) == kFrameSamples >= VadSamples /\ frame

\* Always-on: speech starts a recording, enough silence ends it.
VadFrame(frame) ==
  /\ cfg.mode = "always" /\ vad
  /\ LET speech == Feed(frame)
         ends == ~speech /\ inSpeech /\ silence + 1 >= kSilenceFrames
     IN /\ inSpeech' = (speech \/ (inSpeech /\ ~ends))
        /\ silence' = IF speech THEN 0 ELSE IF inSpeech THEN silence + 1 ELSE silence
        /\ buf' = IF speech /\ ~inSpeech THEN 1
                  ELSE IF inSpeech /\ ~ends THEN Longer ELSE buf
        /\ at' = IF ends THEN "transcribe" ELSE "frames"
  /\ UNCHANGED wasHeld

\* Push-to-talk that ends a recording only in the frame of its own start.
PttFrame_NoFlush ==
  /\ cfg.mode = "ptt"
  /\ buf' = IF held THEN IF wasHeld THEN Longer ELSE 1 ELSE buf
  /\ wasHeld' = (wasHeld \/ held)
  /\ UNCHANGED <<inSpeech, silence, at>>

\* Push-to-talk: recorded while held, transcribed at the first frame after.
PttFrame ==
  /\ cfg.mode = "ptt"
  /\ buf' = IF held THEN IF wasHeld THEN Longer ELSE 1 ELSE buf
  /\ wasHeld' = held
  /\ at' = IF wasHeld /\ ~held THEN "transcribe" ELSE "frames"
  /\ UNCHANGED <<inSpeech, silence>>

\* Always-on without a detector: the frame is dropped.
DeafFrame ==
  /\ cfg.mode = "always" /\ ~vad
  /\ UNCHANGED <<inSpeech, silence, buf, wasHeld, at>>

Frame ==
  /\ up /\ at = "frames" /\ frames # <<>>
  /\ VadFrame(Head(frames)) \/ PttFrame \/ DeafFrame
  /\ frames' = Tail(frames)
  /\ UNCHANGED <<pipeVars, held, cfg, engine, queue, paced, mic, vad, worldVars>>

\* ChatboxPacer::Enqueue: a full queue drops its oldest entry.
Enqueue(q, c) == Append(IF Len(q) >= kQueueCap THEN Tail(q) ELSE q, c)

\* Captions::Translate: in the loaded model's language, if a target is configured.
Translate == IF cfg.tgt = None THEN None ELSE engine

\* WhisperEngine::Transcribe works for seconds and may make out no words.
Transcript == BOOLEAN

\* A recording that is too short is thrown away.
Transcribe ==
  /\ up /\ at = "transcribe"
  /\ buf' = 0
  /\ at' = "frames"
  /\ \E words \in Transcript :
        queue' = IF buf < LongEnough \/ ~words THEN queue ELSE Enqueue(queue, Translate)
  /\ UNCHANGED <<pipeVars, held, frames, cfg, inSpeech, silence, wasHeld, engine, paced, mic,
                 vad, worldVars>>

\* ChatboxPacer::Dequeue and PublishChatbox: what the router does not take is
\* dropped, as if it had been sent.
Publish ==
  /\ up /\ at = "frames" /\ frames = <<>>
  /\ at' = "top"
  /\ LET sends == queue # <<>> /\ ~paced IN
     /\ queue' = IF sends THEN Tail(queue) ELSE queue
     /\ paced' = (paced \/ sends)
  /\ UNCHANGED <<pipeVars, held, frames, cfg, inSpeech, silence, wasHeld, buf, engine, mic,
                 vad, worldVars>>

Loop == Drain \/ Configure \/ Frame \/ Transcribe \/ Publish
World == Captures \/ Button \/ GapEnds \/ \E l \in Languages : PackChanges(l)

Pipe == Starts \/ Dies \/ \E c \in Configs : Receives(c)

Next == Loop \/ World \/ Pipe

\* The loop, the capture thread and the clock run.
Fairness == WF_vars(Loop) /\ WF_vars(Captures) /\ WF_vars(GapEnds)

Spec == Init /\ [][Next]_vars /\ Fairness

(***************************************************************************)
(* Properties.                                                             *)
(***************************************************************************)

\* A recording ends: once push-to-talk is released, what was recorded is
\* transcribed, unless the button is pressed again, the mode is changed or the
\* host dies.
ReleaseIsFlushed ==
  (wasHeld /\ ~button)
     ~> (at = "transcribe" \/ button \/ cfg.mode # "ptt" \/ ~up)

=============================================================================
