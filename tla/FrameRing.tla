------------------------------- MODULE FrameRing -------------------------------
(***************************************************************************)
(* FaceTrackingFrameShmem: the shared-memory ring through which the face   *)
(* module host (one producer thread, FrameWriter.cs) hands frames to the   *)
(* driver's worker thread. Each slot is guarded by a seqlock generation.   *)
(* The driver creates the segment and outlives any number of hosts, each   *)
(* of which may be killed between two stores.                              *)
(*                                                                         *)
(* A frame is a number (its `stamp') stored in every word of the slot's    *)
(* body, so a frame is torn when two words differ.                         *)
(***************************************************************************)
EXTENDS Integers, FiniteSets

CONSTANTS
  RingSize,     \* RING_SIZE
  Words,        \* the words of a frame body, copied one by one
  MaxRetries,   \* max_retries of TryReadLatestWire
  MaxPublish,   \* bound: frames begun by all hosts together
  MaxKills      \* bound: hosts killed

ASSUME RingSizeAssumption == RingSize \in Nat \ {0}
ASSUME WordsAssumption == IsFiniteSet(Words) /\ Words # {}
ASSUME BoundsAssumption ==
  MaxRetries \in Nat /\ MaxPublish \in Nat /\ MaxKills \in Nat

VARIABLES
  gen,        \* slots[].generation
  body,       \* slots[].body
  pubIndex,   \* publish_index
  wpc,        \* pc of the host's producer thread
  local,      \* _localPublishIndex of the running host
  wtodo,      \* words of the body still to be stored
  stamp,      \* history: frames begun so far
  complete,   \* history: stamp of the newest frame whose generation is closed
  announced,  \* history: stamp of the frame publish_index was last stored for
  cut,        \* history: a host was killed inside a write
  kills,
  rpc,        \* pc of the driver's worker
  lastIdx,    \* last_idx
  seen,       \* idx of TryReadLatestWire; its slot is (idx - 1) % RING_SIZE
  g1,         \* generation read before the copy
  rtodo,      \* words of the body still to be copied
  out,        \* the copy
  tries,      \* attempt
  accepted,   \* the last frame TryReadLatestWire returned
  asked       \* history: `announced' when the read began

writerVars == <<wpc, local, wtodo, stamp, complete, announced, cut, kills>>
readerVars == <<rpc, lastIdx, seen, g1, rtodo, out, tries, accepted, asked>>
vars == <<gen, body, pubIndex, writerVars, readerVars>>

Slots   == 0 .. RingSize - 1
Blank   == [w \in Words |-> 0]
Odd(n)  == n % 2 = 1

TypeOK ==
  /\ gen \in [Slots -> Nat]
  /\ body \in [Slots -> [Words -> Nat]]
  /\ pubIndex \in Nat /\ local \in Nat /\ stamp \in Nat /\ complete \in Nat
  /\ announced \in Nat /\ asked \in Nat
  /\ kills \in Nat /\ cut \in BOOLEAN
  /\ wpc \in {"down", "idle", "writing", "closed"}
  /\ wtodo \subseteq Words
  /\ rpc \in {"poll", "index", "g1", "copy", "g2"}
  /\ lastIdx \in Nat /\ seen \in Nat /\ g1 \in Nat /\ tries \in 0..MaxRetries
  /\ rtodo \subseteq Words
  /\ out \in [Words -> Nat] /\ accepted \in [Words -> Nat]

Init ==
  /\ gen = [s \in Slots |-> 0]
  /\ body = [s \in Slots |-> Blank]
  /\ pubIndex = 0
  /\ wpc = "idle" /\ local = 0 /\ wtodo = {}
  /\ stamp = 0 /\ complete = 0 /\ announced = 0 /\ asked = 0 /\ kills = 0 /\ cut = FALSE
  /\ rpc = "poll" /\ lastIdx = 0 /\ seen = 0 /\ g1 = 0
  /\ rtodo = {} /\ out = Blank /\ tries = 0
  /\ accepted = Blank

(***************************************************************************)
(* The host: WriteUnderSeqlock.                                            *)
(***************************************************************************)
WSlot == (local - 1) % RingSize    \* the slot of the frame being written

\* Interlocked.Increment of the local index; the generation becomes odd.
WriteOpen ==
  /\ wpc = "idle" /\ stamp < MaxPublish
  /\ local' = local + 1
  /\ stamp' = stamp + 1
  /\ gen' = [gen EXCEPT ![local % RingSize] = @ + 1]
  /\ wtodo' = Words
  /\ wpc' = "writing"
  /\ UNCHANGED <<body, pubIndex, complete, announced, cut, kills, readerVars>>

WriteWord(w) ==
  /\ wpc = "writing" /\ w \in wtodo
  /\ body' = [body EXCEPT ![WSlot][w] = stamp]
  /\ wtodo' = wtodo \ {w}
  /\ UNCHANGED <<gen, pubIndex, wpc, local, stamp, complete, announced, cut, kills, readerVars>>

\* Volatile.Write of prevGen + 2.
WriteClose ==
  /\ wpc = "writing" /\ wtodo = {}
  /\ gen' = [gen EXCEPT ![WSlot] = @ + 1]
  /\ complete' = stamp
  /\ wpc' = "closed"
  /\ UNCHANGED <<body, pubIndex, local, wtodo, stamp, announced, cut, kills, readerVars>>

WritePublish ==
  /\ wpc = "closed"
  /\ pubIndex' = local /\ announced' = stamp
  /\ wpc' = "idle"
  /\ UNCHANGED <<gen, body, local, wtodo, stamp, complete, cut, kills, readerVars>>

\* HostSupervisorBase::Kill, or a fault: between any two stores.
KillHost ==
  /\ wpc # "down" /\ kills < MaxKills
  /\ kills' = kills + 1
  /\ cut' = (cut \/ wpc = "writing")
  /\ wpc' = "down" /\ wtodo' = {} /\ local' = 0
  /\ UNCHANGED <<gen, body, pubIndex, stamp, complete, announced, readerVars>>

\* The next host: FrameWriter.OpenAsync keeps the ring and starts counting anew.
OpenHost ==
  /\ wpc = "down"
  /\ wpc' = "idle"
  /\ UNCHANGED <<gen, body, pubIndex, local, wtodo, stamp, complete, announced, cut, kills,
                 readerVars>>

(***************************************************************************)
(* The driver: WorkerLoop's poll and TryReadLatestWire.                    *)
(***************************************************************************)

\* A new index is remembered before the frame has been read.
Poll ==
  /\ rpc = "poll" /\ pubIndex # lastIdx
  /\ lastIdx' = pubIndex
  /\ rpc' = "index"
  /\ UNCHANGED <<gen, body, pubIndex, writerVars, seen, g1, rtodo, out, tries,
                 accepted, asked>>

RSlot_OffByOne == seen % RingSize  \* wrong on purpose: the oldest slot

RSlot == (seen - 1) % RingSize     \* the slot of the frame being read

\* TryReadLatestWire loads publish_index again; 0 is "no frame".
ReadIndex ==
  /\ rpc = "index"
  /\ seen' = pubIndex /\ asked' = announced
  /\ rpc' = IF pubIndex = 0 THEN "poll" ELSE "g1"
  /\ tries' = 0
  /\ UNCHANGED <<gen, body, pubIndex, writerVars, lastIdx, g1, rtodo, out,
                 accepted>>

ReadG1_IgnoresParity ==  \* wrong on purpose: an odd generation is accepted
  /\ rpc = "g1" /\ tries < MaxRetries
  /\ g1' = gen[RSlot]
  /\ rpc' = "copy" /\ rtodo' = Words /\ UNCHANGED tries
  /\ UNCHANGED <<gen, body, pubIndex, writerVars, lastIdx, seen, out, accepted, asked>>

ReadG1 ==
  /\ rpc = "g1" /\ tries < MaxRetries
  /\ g1' = gen[RSlot]
  /\ IF Odd(gen[RSlot])
       THEN tries' = tries + 1 /\ UNCHANGED <<rpc, rtodo>>
       ELSE rpc' = "copy" /\ rtodo' = Words /\ UNCHANGED tries
  /\ UNCHANGED <<gen, body, pubIndex, writerVars, lastIdx, seen, out, accepted, asked>>

CopyWord(w) ==
  /\ rpc = "copy" /\ w \in rtodo
  /\ out' = [out EXCEPT ![w] = body[RSlot][w]]
  /\ rtodo' = rtodo \ {w}
  /\ rpc' = IF rtodo' = {} THEN "g2" ELSE "copy"
  /\ UNCHANGED <<gen, body, pubIndex, writerVars, lastIdx, seen, g1, tries,
                 accepted, asked>>

ReadG2 ==
  /\ rpc = "g2"
  /\ IF gen[RSlot] = g1
       THEN accepted' = out /\ rpc' = "poll" /\ UNCHANGED tries
       ELSE tries' = tries + 1 /\ rpc' = "g1" /\ UNCHANGED accepted
  /\ UNCHANGED <<gen, body, pubIndex, writerVars, lastIdx, seen, g1, rtodo, out, asked>>

\* max_retries is used up: the frame is dropped and the worker polls again.
GiveUp ==
  /\ rpc = "g1" /\ tries = MaxRetries
  /\ rpc' = "poll"
  /\ UNCHANGED <<gen, body, pubIndex, writerVars, lastIdx, seen, g1, rtodo, out,
                 tries, accepted, asked>>

\* The producer has nothing to publish, or the worker nothing to read.
Quiet == wpc \in {"idle", "down"} /\ rpc = "poll" /\ UNCHANGED vars

HostStep   == \/ WriteOpen \/ (\E w \in Words : WriteWord(w))
              \/ WriteClose \/ WritePublish
WorkerStep == \/ Poll \/ ReadIndex \/ ReadG1 \/ (\E w \in Words : CopyWord(w))
              \/ ReadG2 \/ GiveUp
Next == HostStep \/ KillHost \/ OpenHost \/ WorkerStep \/ Quiet

Spec == Init /\ [][Next]_vars

\* The worker thread polls for ever; a frame that was begun is finished unless
\* the host is killed. The host need not publish at all.
FairSpec == Spec /\ WF_vars(WorkerStep) /\ WF_vars(HostStep /\ wpc # "idle")

(***************************************************************************)
(* Properties.                                                             *)
(***************************************************************************)
Whole(b) == \A w, x \in Words : b[w] = b[x]

\* A frame TryReadLatestWire returns is one frame, never words of two, whatever
\* hosts come and go, as long as none of them was killed inside a write.
NoTornFrame == ~cut => Whole(accepted)

\* The ring implements the frame register, whatever hosts come and go. A frame
\* counts as published once its generation is even again: the worker may take it
\* before publish_index moves. After a cut write a frame counts once it is begun.
AnyWord  == CHOOSE w \in Words : TRUE
Register == INSTANCE FrameRegister
              WITH published <- IF cut THEN stamp ELSE complete,
                   announced <- announced, requested <- asked,
                   delivered <- accepted[AnyWord]
ImplementsRegister == Register!Spec
=============================================================================
