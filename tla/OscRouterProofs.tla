---------------------------- MODULE OscRouterProofs ----------------------------
(***************************************************************************)
(* The OSC router for any capacity and any bounds: its circular buffer is  *)
(* a bounded first-in first-out queue, and no driver thread is inside the  *)
(* router once it has shut down.                                           *)
(***************************************************************************)
EXTENDS OscRouter, SequenceTheorems, TLAPS

\* The write index is where the contents end.
RingIndices == qTail = (qHead + qCount) % Capacity

QueueOK ==
  /\ queue \in [Slot -> Entry]
  /\ qHead \in Slot /\ qTail \in Slot /\ qCount \in 0 .. Capacity
  /\ RingIndices

\* The face worker is gone before the router's turn to shut down comes.
FaceWorkerJoined == cur >= 3 => facePc = "ended"

\* A chunk is only read into a frame that is not complete.
ChunkPending == pubPc = "chunk" => Len(frameBuf) < frameLen

IndInv == TypeOK /\ RingIndices /\ FaceWorkerJoined /\ ChunkPending

-----------------------------------------------------------------------------
(* Arithmetic of the indices.                                              *)

LEMMA ModBelow == ASSUME NEW C \in Nat \ {0}, NEW x \in Nat, x < C PROVE x % C = x
BY SMT

LEMMA ModAbove ==
  ASSUME NEW C \in Nat \ {0}, NEW x \in Nat, C <= x, x < C + C PROVE x % C = x - C
BY SMT

\* x % Capacity for the sums the router takes the remainder of.
Wrap(x) == IF x < Capacity THEN x ELSE x - Capacity

LEMMA SlotOf ==
  ASSUME NEW x \in Nat, x < Capacity + Capacity
  PROVE  x % Capacity = Wrap(x) /\ Wrap(x) \in Slot
<1>1. x % Capacity = Wrap(x)
  <2>1. CASE x < Capacity
    <3>1. x % Capacity = x  BY <2>1, ModBelow, ConstantsAssumption
    <3> QED BY <2>1, <3>1 DEF Wrap
  <2>2. CASE Capacity <= x
    <3>1. x % Capacity = x - Capacity  BY <2>2, ModAbove, ConstantsAssumption
    <3>2. Wrap(x) = x - Capacity  BY <2>2, ConstantsAssumption DEF Wrap
    <3> QED BY <3>1, <3>2
  <2> QED BY <2>1, <2>2, ConstantsAssumption
<1>2. Wrap(x) \in Slot
  BY ConstantsAssumption DEF Wrap, Slot
<1> QED BY <1>1, <1>2

LEMMA EnqueueKeepsQueue ==
  ASSUME QueueOK, NEW e \in Entry, EnqueueLocked(e)
  PROVE  QueueOK'
<1>1. CASE qCount < Capacity
  <2>1. qTail + 1 \in Nat /\ qTail + 1 < Capacity + Capacity
        /\ qHead + qCount \in Nat /\ qHead + qCount < Capacity + Capacity
        /\ qHead + (qCount + 1) \in Nat /\ qHead + (qCount + 1) < Capacity + Capacity
    BY <1>1, ConstantsAssumption DEF QueueOK, Slot
  <2>2. qTail' \in Slot /\ queue' \in [Slot -> Entry] /\ qHead' = qHead /\ qCount' = qCount + 1
        /\ qCount' \in 0 .. Capacity
    BY <1>1, <2>1, SlotOf, ConstantsAssumption DEF QueueOK, EnqueueLocked, queueVars
  <2>3. (qTail + 1) % Capacity = (qHead + (qCount + 1)) % Capacity
    <3>1. /\ (qTail + 1) % Capacity = Wrap(qTail + 1)
          /\ (qHead + qCount) % Capacity = Wrap(qHead + qCount)
          /\ (qHead + (qCount + 1)) % Capacity = Wrap(qHead + (qCount + 1))
      BY <2>1, SlotOf
    <3>2. qTail = Wrap(qHead + qCount)
      BY <3>1 DEF QueueOK, RingIndices
    <3>3. Wrap(qTail + 1) = Wrap(qHead + (qCount + 1))
      BY <1>1, <3>2, ConstantsAssumption DEF QueueOK, Slot, Wrap
    <3> QED BY <3>1, <3>3
  <2> QED BY <1>1, <2>2, <2>3, ConstantsAssumption DEF QueueOK, RingIndices, EnqueueLocked
<1>2. CASE qCount >= Capacity
  BY <1>2, ConstantsAssumption DEF QueueOK, RingIndices, EnqueueLocked, queueVars
<1> QED BY <1>1, <1>2, ConstantsAssumption DEF QueueOK

LEMMA TakeKeepsQueue ==
  ASSUME QueueOK, SendTake
  PROVE  QueueOK' /\ entry' \in Entry
<1>1. qHead + 1 \in Nat /\ qHead + 1 < Capacity + Capacity
      /\ qHead + qCount \in Nat /\ qHead + qCount < Capacity + Capacity
      /\ Wrap(qHead + 1) \in Nat /\ Wrap(qHead + 1) + (qCount - 1) \in Nat
      /\ Wrap(qHead + 1) + (qCount - 1) < Capacity + Capacity
  BY ConstantsAssumption DEF QueueOK, Slot, SendTake, Wrap
<1>2. /\ (qHead + 1) % Capacity = Wrap(qHead + 1) /\ Wrap(qHead + 1) \in Slot
      /\ (qHead + qCount) % Capacity = Wrap(qHead + qCount)
      /\ (Wrap(qHead + 1) + (qCount - 1)) % Capacity = Wrap(Wrap(qHead + 1) + (qCount - 1))
  BY <1>1, SlotOf
<1>3. Wrap(Wrap(qHead + 1) + (qCount - 1)) = Wrap(qHead + qCount)
  BY ConstantsAssumption DEF QueueOK, Slot, SendTake, Wrap
<1>4. qHead' = Wrap(qHead + 1) /\ qCount' = qCount - 1 /\ qTail' = qTail /\ queue' = queue
  BY <1>2 DEF SendTake
<1>5. qCount' \in 0 .. Capacity
  BY <1>4, ConstantsAssumption DEF QueueOK, SendTake
<1>6. RingIndices'
  BY <1>2, <1>3, <1>4 DEF QueueOK, RingIndices
<1> QED BY <1>2, <1>4, <1>5, <1>6 DEF QueueOK, SendTake

-----------------------------------------------------------------------------
(* The queue as a sequence.                                                *)

ContentsShape ==
  /\ Contents \in Seq(Entry) /\ Len(Contents) = qCount
  /\ \A i \in 1 .. qCount : Contents[i] = queue[Wrap(qHead + i - 1)]

LEMMA ContentsTyped == QueueOK => ContentsShape
<1> SUFFICES ASSUME QueueOK PROVE ContentsShape
  OBVIOUS
<1>1. \A i \in 1 .. qCount : (qHead + i - 1) % Capacity = Wrap(qHead + i - 1)
                            /\ Wrap(qHead + i - 1) \in Slot
  <2> TAKE i \in 1 .. qCount
  <2>1. qHead + i - 1 \in Nat /\ qHead + i - 1 < Capacity + Capacity
    BY ConstantsAssumption DEF QueueOK, Slot
  <2> QED BY <2>1, SlotOf
<1>2. \A i \in 1 .. qCount : queue[Wrap(qHead + i - 1)] \in Entry
  BY <1>1 DEF QueueOK
<1>3. \A i \in 1 .. qCount : Contents[i] = queue[Wrap(qHead + i - 1)]
  BY <1>1 DEF Contents
<1>4. qCount \in Nat
  BY ConstantsAssumption DEF QueueOK
<1>5. Contents \in [1 .. qCount -> Entry]
  BY <1>2, <1>3 DEF Contents
<1> QED BY <1>3, <1>4, <1>5, LenProperties, SeqDef DEF ContentsShape

\* Accepting an entry appends it; a full queue refuses it without a trace.
LEMMA EnqueueAppends ==
  ASSUME QueueOK, NEW e \in Entry, EnqueueLocked(e), entry' = entry
  PROVE  [Fifo!Next]_(Fifo!vars)
<1> ContentsShape
  BY ContentsTyped
<1> USE DEF ContentsShape
<1>1. CASE qCount < Capacity
  <2>1. QueueOK'  BY EnqueueKeepsQueue
  <2>2. /\ Contents' \in Seq(Entry) /\ Len(Contents') = qCount + 1
        /\ \A i \in 1 .. qCount + 1 : Contents'[i] = queue'[Wrap(qHead + i - 1)]
    <3>1. /\ Contents' \in Seq(Entry) /\ Len(Contents') = qCount'
          /\ \A i \in 1 .. qCount' : Contents'[i] = queue'[Wrap(qHead' + i - 1)]
      <4>1. ContentsShape'  BY <2>1, ContentsTyped, PTL
      <4> QED BY <4>1 DEF ContentsShape
    <3> QED BY <1>1, <3>1, ConstantsAssumption DEF EnqueueLocked, QueueOK
  <2>3. qTail = Wrap(qHead + qCount)
    <3>1. qHead + qCount \in Nat /\ qHead + qCount < Capacity + Capacity
      BY ConstantsAssumption DEF QueueOK, Slot
    <3> QED BY <3>1, SlotOf DEF QueueOK, RingIndices
  <2>4. queue' = [queue EXCEPT ![qTail] = e]
    BY <1>1, ConstantsAssumption DEF EnqueueLocked, QueueOK
  <2>5. \A i \in 1 .. qCount : Wrap(qHead + i - 1) \in Slot /\ Wrap(qHead + i - 1) # qTail
    BY <1>1, <2>3, ConstantsAssumption DEF QueueOK, Slot, Wrap
  <2>6. \A i \in 1 .. qCount : Contents'[i] = Contents[i]
    BY <2>2, <2>4, <2>5, ConstantsAssumption DEF QueueOK
  <2>7. Contents'[qCount + 1] = e
    <3>1. qCount + 1 \in 1 .. qCount + 1 /\ qHead + (qCount + 1) - 1 = qHead + qCount
      BY ConstantsAssumption DEF QueueOK, Slot
    <3> QED BY <2>2, <2>3, <2>4, <3>1 DEF QueueOK
  <2>8. Contents' = Append(Contents, e)
    <3>1. Append(Contents, e) \in Seq(Entry) /\ Len(Append(Contents, e)) = qCount + 1
          /\ Append(Contents, e)[qCount + 1] = e
          /\ \A i \in 1 .. qCount : Append(Contents, e)[i] = Contents[i]
      BY DEF QueueOK
    <3>2. \A i \in 1 .. qCount + 1 : Contents'[i] = Append(Contents, e)[i]
      BY <2>6, <2>7, <3>1, ConstantsAssumption DEF QueueOK
    <3> QED BY <2>2, <3>1, <3>2, SeqEqual
  <2>9. Contents' # <<>> /\ Contents'[Len(Contents')] = e
    BY <2>2, <2>7, ConstantsAssumption DEF QueueOK
  <2> QED BY <1>1, <2>8, <2>9 DEF Fifo!Next, Fifo!Put, Fifo!vars
<1>2. CASE qCount >= Capacity
  <2>1. UNCHANGED queueVars
    BY <1>2, ConstantsAssumption DEF EnqueueLocked, QueueOK
  <2> QED BY <2>1 DEF queueVars, Contents, Fifo!vars
<1> QED BY <1>1, <1>2, ConstantsAssumption DEF QueueOK

\* The send worker takes the oldest entry.
LEMMA TakeRemovesHead ==
  ASSUME QueueOK, SendTake
  PROVE  [Fifo!Next]_(Fifo!vars)
<1> ContentsShape
  BY ContentsTyped
<1> USE DEF ContentsShape
<1>1. QueueOK'  BY TakeKeepsQueue
<1>2. qCount' = qCount - 1 /\ qCount > 0 /\ qCount \in Nat /\ queue' = queue /\ entry' = queue[qHead]
  BY ConstantsAssumption DEF SendTake, QueueOK
<1>3. qHead' = Wrap(qHead + 1)
  <2>1. qHead + 1 \in Nat /\ qHead + 1 < Capacity + Capacity
    BY ConstantsAssumption DEF QueueOK, Slot
  <2> QED BY <2>1, SlotOf DEF SendTake
<1>4. /\ Contents' \in Seq(Entry) /\ Len(Contents') = qCount - 1
      /\ \A i \in 1 .. qCount - 1 : Contents'[i] = queue[Wrap(Wrap(qHead + 1) + i - 1)]
  <2>1. /\ Contents' \in Seq(Entry) /\ Len(Contents') = qCount'
        /\ \A i \in 1 .. qCount' : Contents'[i] = queue'[Wrap(qHead' + i - 1)]
    <3>1. ContentsShape'  BY <1>1, ContentsTyped, PTL
    <3> QED BY <3>1 DEF ContentsShape
  <2> QED BY <2>1, <1>2, <1>3
<1>5. Contents # <<>> /\ Head(Contents) = entry'
  <2>1. Wrap(qHead + 1 - 1) = qHead
    BY ConstantsAssumption DEF QueueOK, Slot, Wrap
  <2>2. Contents[1] = queue[qHead]
    BY <1>2, <2>1
  <2> QED BY <1>2, <2>2
<1>6. \A i \in 1 .. qCount - 1 : Wrap(Wrap(qHead + 1) + i - 1) = Wrap(qHead + (i + 1) - 1)
  BY <1>2, ConstantsAssumption DEF QueueOK, Slot, Wrap
<1>7. Tail(Contents) \in Seq(Entry) /\ Len(Tail(Contents)) = qCount - 1
      /\ \A i \in 1 .. qCount - 1 : Tail(Contents)[i] = Contents[i + 1]
  <2>1. /\ Tail(Contents) \in Seq(Entry) /\ Len(Tail(Contents)) = Len(Contents) - 1
        /\ \A i \in 1 .. Len(Tail(Contents)) : Tail(Contents)[i] = Contents[i + 1]
    BY <1>5, HeadTailProperties, Zenon
  <2> QED BY <1>2, <2>1
<1>8. \A i \in 1 .. qCount - 1 : Contents'[i] = Tail(Contents)[i]
  <2> SUFFICES ASSUME NEW i \in 1 .. qCount - 1 PROVE Contents'[i] = Tail(Contents)[i]
    OBVIOUS
  <2>1. i + 1 \in 1 .. qCount
    BY <1>2
  <2>2. Contents[i + 1] = queue[Wrap(qHead + (i + 1) - 1)]
    BY <2>1
  <2>3. Contents'[i] = queue[Wrap(Wrap(qHead + 1) + i - 1)] /\ Tail(Contents)[i] = Contents[i + 1]
    BY <1>4, <1>7
  <2> QED BY <1>6, <2>2, <2>3
<1>9. Contents' = Tail(Contents)
  BY <1>4, <1>7, <1>8, SeqEqual
<1> QED BY <1>5, <1>9 DEF Fifo!Next, Fifo!Take, Fifo!vars

-----------------------------------------------------------------------------
(* The inductive invariant.                                                *)

LEMMA OrderIs ==
  ShutdownOrder[1] = "captions" /\ ShutdownOrder[2] = "facetracking" /\ ShutdownOrder[3] = "oscrouter"
BY DEF ShutdownOrder, activeModules

LEMMA QueueOKFromIndInv == IndInv => QueueOK
BY DEF IndInv, TypeOK, QueueOK

LEMMA CaptionTyped == \A p \in Captions : p \in Seq(Nat)
<1> SUFFICES ASSUME NEW n \in 1 .. MaxWords, NEW t \in Tails PROVE Caption(n, t) \in Seq(Nat)
  BY DEF Captions
<1>1. Big \in Nat /\ t \in Nat /\ n \in Nat
  BY ConstantsAssumption DEF Big, Word
<1>2. Header \in Seq(Nat)
  BY <1>1 DEF Header
<1>3. [i \in 1 .. n |-> IF i = n THEN t ELSE Big] \in Seq(Nat)
  BY <1>1, SeqDef
<1> QED BY <1>2, <1>3, ConcatProperties DEF Caption

LEMMA InitIndInv == Init => IndInv
<1> SUFFICES ASSUME Init PROVE IndInv
  OBVIOUS
<1>1. NoEntry \in Entry /\ <<>> \in Seq(Nat) /\ <<>> \in Seq(Seq(Nat))
  BY DEF NoEntry, Entry, Source
<1>2. TypeOK
  BY <1>1, ConstantsAssumption DEF Init, TypeOK, Slot
<1>3. RingIndices
  <2>1. 0 % Capacity = 0  BY ModBelow, ConstantsAssumption
  <2> QED BY <2>1 DEF Init, RingIndices
<1> QED BY <1>2, <1>3 DEF Init, IndInv, FaceWorkerJoined, ChunkPending

LEMMA RingUnchanged == RingIndices /\ UNCHANGED queueVars => RingIndices'
BY DEF RingIndices, queueVars

LEMMA SendWorkerStep == ASSUME IndInv, SendWorker PROVE IndInv'
<1>1. CASE SendCheck
  BY <1>1, RingUnchanged DEF SendCheck, IndInv, TypeOK, FaceWorkerJoined, ChunkPending, queueVars, pubVars, pipeVars,
     hostVars, faceVars, histVars
<1>2. CASE SendTake
  <2>1. QueueOK' /\ entry' \in Entry
    BY <1>2, QueueOKFromIndInv, TakeKeepsQueue
  <2> QED BY <1>2, <2>1 DEF SendTake, IndInv, TypeOK, QueueOK, FaceWorkerJoined, ChunkPending, pubVars, pipeVars,
     hostVars, faceVars, histVars
<1>3. CASE SendTimeout
  BY <1>3, RingUnchanged DEF SendTimeout, IndInv, TypeOK, FaceWorkerJoined, ChunkPending, queueVars, pubVars, pipeVars,
     hostVars, faceVars, histVars
<1> QED BY <1>1, <1>2, <1>3 DEF SendWorker

\* Reading takes words off the front of the wire and leaves words.
LEMMA ReadTyped ==
  ASSUME TypeOK, NEW n \in Nat
  PROVE  /\ Got(n) \in 0 .. Len(wire) /\ Rest(Got(n)) \in Seq(Nat)
         /\ SubSeq(wire, 1, Got(n)) \in Seq(Nat)
<1>1. Len(wire) \in Nat /\ wire \in Seq(Nat)
  BY DEF TypeOK
<1>2. Got(n) \in 0 .. Len(wire)
  BY <1>1 DEF Got
<1>3. \A i \in 1 .. Len(wire) : wire[i] \in Nat
  BY <1>1
<1>4. \A i \in Got(n) + 1 .. Len(wire) : wire[i] \in Nat
  BY <1>1, <1>2, <1>3
<1>5. \A i \in 1 .. Got(n) : wire[i] \in Nat
  BY <1>1, <1>2, <1>3
<1>6. Got(n) + 1 \in Int /\ Len(wire) \in Int /\ Got(n) \in Int /\ 1 \in Int
  BY <1>1, <1>2
<1>7. Rest(Got(n)) \in Seq(Nat)
  BY <1>4, <1>6, SubSeqProperties DEF Rest
<1>8. SubSeq(wire, 1, Got(n)) \in Seq(Nat)
  BY <1>5, <1>6, SubSeqProperties
<1> QED BY <1>2, <1>7, <1>8

\* Closing the pipe resets the connection and leaves the rest of the router.
LEMMA PubCloseTyped == ASSUME TypeOK, PubClose PROVE TypeOK'
<1>1. <<>> \in Seq(Nat) /\ <<>> \in Seq(Seq(Nat))
  OBVIOUS
<1>2. client' \in {"closed", "linked", "stale"}
  BY DEF PubClose, TypeOK
<1>3. /\ pubPc' \in {"check", "wait", "expired", "next", "id", "len", "frame",
                     "chunk", "close", "stopped"}
      /\ pipe' \in {"absent", "listening", "connected"} /\ frameLen' \in Nat
  BY DEF PubClose
<1>4. /\ wire' \in Seq(Nat) /\ frameBuf' \in Seq(Nat) /\ sentOn' \in Seq(Seq(Nat))
      /\ gotOn' \in Seq(Seq(Nat)) /\ refused' \in BOOLEAN
  BY <1>1 DEF PubClose
<1>5. UNCHANGED <<queue, qHead, qTail, qCount, stop, active, sendPc, entry, hostPc, packet,
                  attempt, calls, attached, facePc, faceStop, faceCount, ipcCount, cur>>
  BY DEF PubClose, PubUnchanged, queueVars, sendVars, hostVars, faceVars
<1> QED BY <1>2, <1>3, <1>4, <1>5 DEF TypeOK

LEMMA PubWorkerStep == ASSUME IndInv, PubWorker PROVE IndInv'
<1> USE DEF IndInv, PubUnchanged, FaceWorkerJoined, ChunkPending, sendVars, hostVars, faceVars, histVars, pipeVars
<1> TypeOK /\ RingIndices
  OBVIOUS
<1>0. <<>> \in Seq(Nat) /\ <<>> \in Seq(Seq(Nat))
  OBVIOUS
<1>1. CASE PubCreate \/ PubStop \/ PubCreateEventFails \/ PubConnected \/ PubTimeout \/ PubNext
           \/ FrameTest \/ ReadEnds
  <2>1. CASE PubCreate
    BY <2>1, RingUnchanged DEF PubCreate, TypeOK, queueVars
  <2>2. CASE PubStop
    BY <2>2, RingUnchanged DEF PubStop, TypeOK, queueVars
  <2>3. CASE PubCreateEventFails
    BY <2>3, RingUnchanged DEF PubCreateEventFails, TypeOK, queueVars
  <2>4. CASE PubConnected
    BY <2>4, RingUnchanged DEF PubConnected, TypeOK, queueVars
  <2>5. CASE PubTimeout
    BY <2>5, RingUnchanged DEF PubTimeout, TypeOK, queueVars
  <2>6. CASE PubNext
    BY <2>6, RingUnchanged DEF PubNext, TypeOK, queueVars
  <2>7. CASE FrameTest
    BY <2>7, RingUnchanged DEF FrameTest, TypeOK, queueVars
  <2>8. CASE ReadEnds
    BY <2>8, RingUnchanged DEF ReadEnds, TypeOK, queueVars
  <2> QED BY <1>1, <2>1, <2>2, <2>3, <2>4, <2>5, <2>6, <2>7, <2>8
<1>2. CASE PubClose
  BY <1>2, PubCloseTyped, RingUnchanged DEF PubClose
<1>3. CASE ReadId
  <2>1. wire' \in Seq(Nat)
    BY <1>3, ReadTyped DEF ReadId, IdWords
  <2> QED BY <1>3, <2>1, RingUnchanged DEF ReadId, TypeOK, queueVars
<1>4. CASE ReadLen
  <2>1. wire # <<>> /\ wire \in Seq(Nat)
    BY <1>4 DEF ReadLen, TypeOK
  <2>2. Got(1) = 1 /\ wire[1] \in Nat
    BY <2>1, EmptySeq DEF Got
  <2>3. wire' \in Seq(Nat)
    BY <1>4, <2>2, ReadTyped DEF ReadLen
  <2> QED BY <1>0, <1>4, <2>2, <2>3, RingUnchanged DEF ReadLen, TypeOK, queueVars
<1>5. CASE ReadChunk
  <2> DEFINE n == frameLen - Len(frameBuf)
  <2>1. frameBuf \in Seq(Nat) /\ n \in Nat
    <3>1. frameBuf \in Seq(Nat) /\ frameLen \in Nat /\ Len(frameBuf) \in Nat /\ Len(frameBuf) < frameLen
      BY <1>5 DEF TypeOK, ReadChunk
    <3> QED BY <3>1
  <2>2. wire' = Rest(Got(n)) /\ frameBuf' = frameBuf \o SubSeq(wire, 1, Got(n))
    BY <1>5 DEF ReadChunk
  <2>3. Rest(Got(n)) \in Seq(Nat) /\ SubSeq(wire, 1, Got(n)) \in Seq(Nat)
    BY <2>1, ReadTyped
  <2>4. wire' \in Seq(Nat) /\ frameBuf' \in Seq(Nat)
    BY <2>1, <2>2, <2>3, ConcatProperties
  <2>5. TypeOK'
    BY <1>5, <2>4, SMTT(30) DEF ReadChunk, TypeOK, queueVars
  <2>6. RingIndices' /\ FaceWorkerJoined'
    BY <1>5, RingUnchanged DEF ReadChunk
  <2>7. ChunkPending'
    BY <1>5 DEF ReadChunk
  <2> QED BY <2>5, <2>6, <2>7
<1>6. CASE EnqueueFrame
  <2>1. [src |-> "pipe", body |-> frameBuf] \in Entry
    BY DEF TypeOK, Entry, Source
  <2>2. QueueOK'
    BY <1>6, <2>1, QueueOKFromIndInv, EnqueueKeepsQueue DEF EnqueueFrame
  <2>3. gotOn' \in Seq(Seq(Nat))
    BY <1>6 DEF EnqueueFrame, TypeOK
  <2> QED BY <1>0, <1>6, <2>2, <2>3 DEF EnqueueFrame, TypeOK, QueueOK
<1> QED BY <1>1, <1>2, <1>3, <1>4, <1>5, <1>6 DEF PubWorker

LEMMA HostStep == ASSUME IndInv, Host PROVE IndInv'
<1> USE DEF IndInv, HostUnchanged, FaceWorkerJoined, ChunkPending, queueVars, sendVars, pubVars, pipeVars,
        faceVars, histVars
<1> TypeOK
  OBVIOUS
<1>0. <<>> \in Seq(Nat) /\ <<>> \in Seq(Seq(Nat))
  OBVIOUS
<1>1. ASSUME NEW p \in Captions, PublishChatbox(p) PROVE IndInv'
  BY <1>1, CaptionTyped, RingUnchanged DEF PublishChatbox, TypeOK
<1>2. CASE Connect
  <2>1. SourceId \in Seq(Nat)
    BY ConstantsAssumption DEF SourceId, Big
  <2>2. CASE pipe = "listening"
    <3>1. refused' \in BOOLEAN /\ sentOn' \in Seq(Seq(Nat)) /\ gotOn' \in Seq(Seq(Nat))
          /\ wire' \in Seq(Nat) /\ pipe' = "connected" /\ client' = "linked" /\ hostPc' = "len"
          /\ UNCHANGED <<packet, attempt, calls>>
      BY <1>0, <1>2, <2>1, <2>2 DEF Connect
    <3>2. HostUnchanged
      BY <1>2 DEF Connect
    <3> QED BY <3>1, <3>2, RingUnchanged DEF TypeOK
  <2>3. CASE pipe # "listening"
    <3>1. UNCHANGED <<pipeVars, client, histVars, calls>> /\ hostPc' = "idle" /\ packet' = <<>> /\ attempt' = 0
      BY <1>2, <2>3 DEF Connect
    <3>2. HostUnchanged
      BY <1>2 DEF Connect
    <3> QED BY <1>0, <3>1, <3>2, RingUnchanged DEF TypeOK
  <2> QED BY <2>2, <2>3
<1>3. CASE WriteLen
  <2>1. wire' \in Seq(Nat)
    BY <1>3 DEF WriteLen, TypeOK
  <2> QED BY <1>3, <2>1, RingUnchanged DEF WriteLen, TypeOK
<1>4. CASE WritePacket
  <2>1. wire' \in Seq(Nat) /\ sentOn' \in Seq(Seq(Nat))
    BY <1>4 DEF WritePacket, TypeOK
  <2> QED BY <1>0, <1>4, <2>1, RingUnchanged DEF WritePacket, TypeOK
<1>5. CASE WriteFails
  <2>1. CASE attempt = 0
    BY <1>5, <2>1, RingUnchanged DEF WriteFails, TypeOK
  <2>2. CASE attempt # 0
    BY <1>0, <1>5, <2>2, RingUnchanged DEF WriteFails, TypeOK
  <2> QED BY <2>1, <2>2
<1>6. CASE HostCrash
  BY <1>0, <1>6, RingUnchanged DEF HostCrash, TypeOK
<1>7. CASE HostStart
  <2>1. hostPc' \in {"idle", "connect", "len", "payload", "dead"} /\ attached' \in BOOLEAN
    BY <1>7 DEF HostStart
  <2>2. RingIndices'
    BY <1>7, RingUnchanged DEF HostStart
  <2>3. UNCHANGED <<queue, qHead, qTail, qCount, stop, active, sendPc, entry, pubPc, frameLen,
                    frameBuf, pipe, wire, client, packet, attempt, calls, facePc, faceStop,
                    faceCount, ipcCount, cur, sentOn, gotOn, refused>>
    BY <1>7 DEF HostStart
  <2>4. TypeOK'
    BY <2>1, <2>3 DEF TypeOK
  <2> QED BY <2>1, <2>2, <2>3, <2>4
<1> QED BY <1>1, <1>2, <1>3, <1>4, <1>5, <1>6, <1>7 DEF Host

LEMMA LocalStep == ASSUME IndInv, FaceWorker \/ HandlePublish PROVE IndInv'
<1> USE DEF IndInv, LocalUnchanged, FaceWorkerJoined, ChunkPending, sendVars, pubVars, pipeVars, hostVars, faceVars, histVars
<1> TypeOK /\ RingIndices
  OBVIOUS
<1>1. CASE FaceLoad \/ FaceCheck \/ FaceEnds
  <2>1. CASE FaceLoad
    BY <2>1, RingUnchanged DEF FaceLoad, TypeOK, queueVars
  <2>2. CASE FaceCheck
    BY <2>2, RingUnchanged DEF FaceCheck, TypeOK, queueVars
  <2>3. CASE FaceEnds
    BY <2>3, RingUnchanged DEF FaceEnds, TypeOK, queueVars
  <2> QED BY <1>1, <2>1, <2>2, <2>3
<1>2. CASE FaceEnqueue
  <2>1. [src |-> "facetracking", body |-> <<faceCount>>] \in Entry
    BY DEF TypeOK, Entry, Source
  <2>2. QueueOK'
    BY <1>2, <2>1, QueueOKFromIndInv, EnqueueKeepsQueue DEF FaceEnqueue
  <2> QED BY <1>2, <2>2 DEF FaceEnqueue, TypeOK, QueueOK
<1>3. CASE HandlePublish
  <2>1. [src |-> "ipc", body |-> <<ipcCount + 1>>] \in Entry
    BY DEF TypeOK, Entry, Source
  <2>2. QueueOK'
    BY <1>3, <2>1, QueueOKFromIndInv, EnqueueKeepsQueue DEF HandlePublish
  <2> QED BY <1>3, <2>2 DEF HandlePublish, TypeOK, QueueOK
<1> QED BY <1>1, <1>2, <1>3 DEF FaceWorker

LEMMA CleanupStep == ASSUME IndInv, CleanupBegins \/ Cleanup PROVE IndInv'
<1> USE DEF IndInv, CleanupUnchanged, FaceWorkerJoined, ChunkPending, queueVars, sendVars, pubVars, pipeVars,
        histVars
<1>1. CASE CleanupBegins \/ ClearModules
  <2>1. /\ cur' \in 0 .. 5 /\ (cur' >= 3 => cur >= 3)
        /\ UNCHANGED <<stop, active, client, hostPc, packet, attempt, faceStop>> /\ CleanupUnchanged
    BY <1>1 DEF CleanupBegins, ClearModules
  <2>2. TypeOK'
    BY <2>1 DEF TypeOK
  <2> QED BY <2>1, <2>2, RingUnchanged
<1>2. CASE CaptionsShutdown
  <2>1. cur = 1
    BY <1>2, OrderIs DEF CaptionsShutdown, Shutting, TypeOK
  <2>2. <<>> \in Seq(Nat)
    OBVIOUS
  <2>3. CASE attached
    BY <1>2, <2>1, <2>3, RingUnchanged DEF CaptionsShutdown, TypeOK
  <2>4. CASE ~attached
    BY <1>2, <2>1, <2>2, <2>4, RingUnchanged DEF CaptionsShutdown, TypeOK
  <2> QED BY <2>3, <2>4
<1>3. CASE FaceStopRequest \/ FaceJoin
  <2>1. cur = 2
    BY <1>3, OrderIs DEF FaceStopRequest, FaceJoin, Shutting, TypeOK
  <2>2. CASE FaceStopRequest
    BY <2>1, <2>2, RingUnchanged DEF FaceStopRequest, TypeOK
  <2>3. CASE FaceJoin
    BY <2>1, <2>3, RingUnchanged DEF FaceJoin, TypeOK
  <2> QED BY <1>3, <2>2, <2>3
<1>4. CASE RouterDeregister \/ RouterStop \/ RouterJoin
  <2>0. cur \in 0 .. 5
    BY DEF TypeOK
  <2>1. cur = 3
    BY <1>4, <2>0, OrderIs, SMTT(30) DEF RouterDeregister, RouterStop, RouterJoin, Shutting
  <2>2. CASE RouterDeregister
    <3>1. active' \in BOOLEAN
      BY <2>2 DEF RouterDeregister
    <3> QED BY <2>1, <2>2, <3>1, RingUnchanged DEF RouterDeregister, TypeOK
  <2>3. CASE RouterStop
    BY <2>1, <2>3, RingUnchanged DEF RouterStop, TypeOK
  <2>4. CASE RouterJoin
    BY <2>1, <2>4, RingUnchanged DEF RouterJoin, TypeOK
  <2> QED BY <1>4, <2>2, <2>3, <2>4
<1> QED BY <1>1, <1>2, <1>3, <1>4 DEF Cleanup

LEMMA NextKeepsIndInv == IndInv /\ [Next]_vars => IndInv'
<1> SUFFICES ASSUME IndInv, [Next]_vars PROVE IndInv'
  OBVIOUS
<1>1. CASE UNCHANGED vars
  BY <1>1, RingUnchanged DEF vars, IndInv, TypeOK, FaceWorkerJoined, ChunkPending, queueVars, sendVars, pubVars,
     pipeVars, hostVars, faceVars, histVars
<1> QED BY <1>1, SendWorkerStep, PubWorkerStep, HostStep, LocalStep, CleanupStep DEF Next

LEMMA IndInvCorrect == Spec => []IndInv
BY InitIndInv, NextKeepsIndInv, PTL DEF Spec

\* Type correctness of the router, its workers, its publishers and Cleanup.
THEOREM RouterTypeCorrect == Spec => []TypeOK
<1>1. IndInv => TypeOK
  BY DEF IndInv
<1> QED BY <1>1, IndInvCorrect, PTL

\* For every interleaving of publishers, workers and Cleanup, no driver thread is
\* inside PublishOsc of a router that finished its Shutdown.
THEOREM PublisherSafeCorrect == Spec => []PublisherSafe
<1>1. IndInv => PublisherSafe
  <2> SUFFICES ASSUME IndInv, facePc \in {"loaded", "checked"}, NEW k \in 1 .. 3,
                      ShutdownOrder[k] = "oscrouter"
               PROVE  cur <= k
    BY DEF PublisherSafe
  <2>1. k = 3
    BY OrderIs
  <2>2. cur < 3
    BY DEF IndInv, TypeOK, FaceWorkerJoined
  <2> QED BY <2>1, <2>2 DEF IndInv, TypeOK
<1> QED BY <1>1, IndInvCorrect, PTL

-----------------------------------------------------------------------------
(* The refinement.                                                         *)

LEMMA InitIsEmptyQueue == Init => Fifo!Init
<1> SUFFICES ASSUME Init PROVE Fifo!Init
  OBVIOUS
<1>1. Contents = <<>>
  BY DEF Init, Contents
<1>2. entry \in Entry
  BY InitIndInv DEF IndInv, TypeOK
<1> QED BY <1>1, <1>2 DEF Fifo!Init

LEMMA StepsAreQueueSteps == IndInv /\ [Next]_vars => [Fifo!Next]_(Fifo!vars)
<1> SUFFICES ASSUME IndInv, [Next]_vars PROVE [Fifo!Next]_(Fifo!vars)
  OBVIOUS
<1> QueueOK /\ TypeOK
  BY QueueOKFromIndInv DEF IndInv
<1>1. CASE SendTake
  BY <1>1, TakeRemovesHead
<1>2. CASE EnqueueFrame
  <2>1. [src |-> "pipe", body |-> frameBuf] \in Entry
    BY DEF TypeOK, Entry, Source
  <2> QED BY <1>2, <2>1, EnqueueAppends DEF EnqueueFrame, PubUnchanged, sendVars
<1>3. CASE FaceEnqueue
  <2>1. [src |-> "facetracking", body |-> <<faceCount>>] \in Entry
    BY DEF TypeOK, Entry, Source
  <2> QED BY <1>3, <2>1, EnqueueAppends DEF FaceEnqueue, LocalUnchanged, sendVars
<1>4. CASE HandlePublish
  <2>1. [src |-> "ipc", body |-> <<ipcCount + 1>>] \in Entry
    BY DEF TypeOK, Entry, Source
  <2> QED BY <1>4, <2>1, EnqueueAppends DEF HandlePublish, LocalUnchanged, sendVars
<1>5. CASE UNCHANGED <<queueVars, entry>>
  BY <1>5 DEF queueVars, Contents, Fifo!vars
<1>6. UNCHANGED <<queueVars, entry>> \/ SendTake \/ EnqueueFrame \/ FaceEnqueue \/ HandlePublish
  <2>1. CASE SendWorker
    BY <2>1 DEF SendWorker, SendCheck, SendTimeout
  <2>2. CASE PubWorker
    BY <2>2 DEF PubWorker, PubCreate, PubStop, PubCreateEventFails, PubConnected, PubTimeout, PubClose, PubNext,
       ReadId, ReadLen, FrameTest, ReadChunk, ReadEnds, PubUnchanged, sendVars
  <2>3. CASE Host
    BY <2>3 DEF Host, PublishChatbox, Connect, WriteLen, WritePacket, WriteFails, HostCrash, HostStart,
       HostUnchanged, CleanupUnchanged, sendVars
  <2>4. CASE FaceWorker
    BY <2>4 DEF FaceWorker, FaceLoad, FaceCheck, FaceEnds, LocalUnchanged, sendVars
  <2>5. CASE CleanupBegins \/ Cleanup
    BY <2>5 DEF CleanupBegins, Cleanup, CaptionsShutdown, FaceStopRequest, FaceJoin, RouterDeregister, RouterStop,
       RouterJoin, ClearModules, CleanupUnchanged, sendVars
  <2>6. CASE UNCHANGED vars
    BY <2>6 DEF vars, sendVars
  <2> QED BY <2>1, <2>2, <2>3, <2>4, <2>5, <2>6 DEF Next
<1> QED BY <1>1, <1>2, <1>3, <1>4, <1>5, <1>6

\* For every capacity the router's circular buffer is a bounded first-in first-out
\* queue: it starts empty, and every step appends one accepted entry, hands out the
\* oldest one, or leaves the queue alone.
THEOREM ImplementsFifoCorrect == Spec => ImplementsFifo
<1>1. Init /\ [][Next]_vars /\ []IndInv => Fifo!Init /\ [][Fifo!Next]_(Fifo!vars)
  BY InitIsEmptyQueue, StepsAreQueueSteps, PTL
<1> QED BY <1>1, IndInvCorrect, PTL DEF Spec, ImplementsFifo, Fifo!Spec
=============================================================================
