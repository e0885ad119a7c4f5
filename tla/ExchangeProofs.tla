---------------------------- MODULE ExchangeProofs ----------------------------
(***************************************************************************)
(* What the processes hand each other through shared memory, for every     *)
(* size of a ring or table and every number of restarts: the seqlock of    *)
(* the face-frame ring never hands out a torn frame and the ring is a      *)
(* register of frames (FrameRing), no slot of a table is torn (SlotTable), *)
(* and poses arrive whole and in order (PoseRing).                         *)
(***************************************************************************)
EXTENDS MCExchange, TLAPS

\* A generation is odd exactly while its slot is being written, ...
WriterInv ==
  /\ \A s \in Slots : Odd(gen[s]) <=> (wpc = "writing" /\ s = WSlot)
  /\ wpc = "writing" => \A w \in Words \ wtodo : body[WSlot][w] = stamp
  /\ \A s \in Slots : ~Odd(gen[s]) => Whole(body[s])

\* ... and as long as the generation the reader noted is current, every word it
\* has copied is the slot's word.
ReaderInv ==
  rpc \in {"copy", "g2"} =>
    /\ ~Odd(g1) /\ g1 <= gen[RSlot]
    /\ gen[RSlot] = g1 => \A w \in Words \ rtodo : out[w] = body[RSlot][w]
    /\ rpc = "g2" => rtodo = {}

\* A copy is only begun while a retry is left.
RetryInv == rpc \in {"copy", "g2"} => tries < MaxRetries

SeqlockInv ==
  /\ TypeOK /\ RetryInv
  /\ ~cut => WriterInv /\ ReaderInv /\ Whole(accepted)

USE RingSizeAssumption, BoundsAssumption

\* Slot arithmetic stays inside the ring.
LEMMA SlotInRing == \A n \in Int : n % RingSize \in Slots
BY DEF Slots

\* The two slot expressions denote slots.
LEMMA SlotsOK ==
  TypeOK => WSlot \in Slots /\ RSlot \in Slots /\ local % RingSize \in Slots
<1> SUFFICES ASSUME TypeOK
             PROVE  WSlot \in Slots /\ RSlot \in Slots /\ local % RingSize \in Slots
  OBVIOUS
<1>1. local \in Int /\ local - 1 \in Int /\ seen - 1 \in Int BY DEF TypeOK
<1> QED BY <1>1, SlotInRing DEF WSlot, RSlot

\* Adding one flips the parity of a generation.
LEMMA Parity == \A n \in Nat : Odd(n + 1) <=> ~Odd(n)
BY DEF Odd

\* The initial states satisfy the inductive invariant.
LEMMA InitSeqlock == Init => SeqlockInv
<1> SUFFICES ASSUME Init PROVE SeqlockInv
  OBVIOUS
<1>0. Blank \in [Words -> Nat] /\ 0 \in 0..MaxRetries /\ {} \subseteq Words
  BY DEF Blank
<1>1. TypeOK BY <1>0 DEF Init, TypeOK
<1>2. ~Odd(0) BY DEF Odd
<1>3. Whole(Blank) BY DEF Whole, Blank
<1>4. WriterInv BY <1>2, <1>3 DEF Init, WriterInv
<1>5. ReaderInv BY DEF Init, ReaderInv
<1>6. Whole(accepted) BY <1>3 DEF Init
<1>7. RetryInv BY DEF Init, RetryInv
<1> QED BY <1>1, <1>4, <1>5, <1>6, <1>7 DEF SeqlockInv

\* Every step keeps the types and the retry bound.
LEMMA TypeStep == TypeOK /\ RetryInv /\ Next => TypeOK' /\ RetryInv'
<1> SUFFICES ASSUME TypeOK, RetryInv, Next PROVE TypeOK' /\ RetryInv'
  OBVIOUS
<1>0. WSlot \in Slots /\ RSlot \in Slots /\ local % RingSize \in Slots BY SlotsOK
<1> USE DEF TypeOK, RetryInv, writerVars, readerVars
<1>1. CASE WriteOpen BY <1>0, <1>1 DEF WriteOpen
<1>2. ASSUME NEW w \in Words, WriteWord(w) PROVE TypeOK' /\ RetryInv'
  <2>1. body' \in [Slots -> [Words -> Nat]] BY <1>0, <1>2 DEF WriteWord
  <2> QED BY <1>2, <2>1 DEF WriteWord
<1>3. CASE WriteClose BY <1>0, <1>3 DEF WriteClose
<1>4. CASE WritePublish BY <1>4 DEF WritePublish
<1>5. CASE KillHost BY <1>5 DEF KillHost
<1>6. CASE OpenHost BY <1>6 DEF OpenHost
<1>7. CASE Poll BY <1>7 DEF Poll
<1>8. CASE ReadIndex BY <1>8 DEF ReadIndex
<1>9. CASE ReadG1 BY <1>0, <1>9 DEF ReadG1
<1>10. ASSUME NEW w \in Words, CopyWord(w) PROVE TypeOK' /\ RetryInv'
  <2>1. body[RSlot][w] \in Nat BY <1>0, <1>10
  <2> QED BY <1>10, <2>1 DEF CopyWord
<1>11. CASE ReadG2
  <2>1. tries' \in 0..MaxRetries
    BY <1>11 DEF ReadG2
  <2> QED BY <1>11, <2>1 DEF ReadG2
<1>12. CASE GiveUp BY <1>12 DEF GiveUp
<1>13. CASE Quiet BY <1>13 DEF Quiet, vars
<1> QED BY <1>1, <1>2, <1>3, <1>4, <1>5, <1>6, <1>7, <1>8, <1>9, <1>10, <1>11,
           <1>12, <1>13 DEF Next, HostStep, WorkerStep

\* A step of the writer keeps the seqlock invariant.
LEMMA WriterStep ==
  ASSUME SeqlockInv, ~cut', TypeOK', HostStep \/ KillHost \/ OpenHost
  PROVE  WriterInv' /\ ReaderInv' /\ Whole(accepted)'
<1>c. ~cut
  BY DEF HostStep, WriteOpen, WriteWord, WriteClose, WritePublish, KillHost,
     OpenHost
<1>0. /\ TypeOK /\ WriterInv /\ ReaderInv /\ Whole(accepted)
      /\ WSlot \in Slots /\ RSlot \in Slots /\ local % RingSize \in Slots
  BY <1>c, SlotsOK DEF SeqlockInv
<1>a. accepted' = accepted /\ UNCHANGED <<rpc, seen, g1, rtodo, out>> /\ RSlot' = RSlot
  BY DEF HostStep, WriteOpen, WriteWord, WriteClose, WritePublish, KillHost,
     OpenHost, readerVars, RSlot
<1>b. Whole(accepted)' BY <1>0, <1>a DEF Whole
<1>1. CASE WriteOpen
  <2> DEFINE t == local % RingSize
  <2>1. WSlot' = t BY <1>1 DEF WriteOpen, WSlot, TypeOK, SeqlockInv
  <2>2. \A s \in Slots : ~Odd(gen[s]) BY <1>0, <1>1 DEF WriteOpen, WriterInv
  <2>3. \A s \in Slots : gen'[s] = IF s = t THEN gen[s] + 1 ELSE gen[s]
    BY <1>0, <1>1 DEF WriteOpen, TypeOK
  <2>4. \A s \in Slots : gen[s] \in Nat BY <1>0 DEF TypeOK
  <2>5. \A s \in Slots : Odd(gen'[s]) <=> s = t
    BY <2>2, <2>3, <2>4, Parity
  <2>6. wpc' = "writing" /\ body' = body /\ wtodo' = Words BY <1>1 DEF WriteOpen
  <2>7. WriterInv' BY <1>0, <2>1, <2>2, <2>5, <2>6 DEF WriterInv, Whole
  <2>8. \A s \in Slots : gen'[s] >= gen[s] /\ (gen'[s] # gen[s] => Odd(gen'[s]))
    BY <2>3, <2>4, <2>5
  <2>9. ReaderInv'
    <3> SUFFICES ASSUME rpc' \in {"copy", "g2"} PROVE ReaderInv'
      BY DEF ReaderInv
    <3>1. /\ ~Odd(g1) /\ g1 <= gen[RSlot] /\ (rpc = "g2" => rtodo = {})
          /\ gen[RSlot] = g1 => \A w \in Words \ rtodo : out[w] = body[RSlot][w]
      BY <1>0, <1>a DEF ReaderInv
    <3>2. g1 <= gen'[RSlot] BY <1>0, <2>4, <2>8, <3>1 DEF TypeOK
    <3>3. gen'[RSlot] = g1 => gen[RSlot] = g1 BY <1>0, <2>8, <3>1
    <3> QED BY <1>a, <2>6, <3>1, <3>2, <3>3 DEF ReaderInv
  <2> QED BY <1>b, <2>7, <2>9
<1>2. ASSUME NEW w \in Words, WriteWord(w)
      PROVE  WriterInv' /\ ReaderInv' /\ Whole(accepted)'
  <2>1. /\ wpc = "writing" /\ wpc' = wpc /\ gen' = gen /\ stamp' = stamp
        /\ wtodo' = wtodo \ {w} /\ WSlot' = WSlot
        /\ body' = [body EXCEPT ![WSlot][w] = stamp]
    BY <1>2 DEF WriteWord, WSlot
  <2>2. Odd(gen[WSlot]) BY <1>0, <2>1 DEF WriterInv
  <2>3. \A s \in Slots : s # WSlot => body'[s] = body[s]
    BY <1>0, <2>1 DEF TypeOK
  <2>4. \A x \in Words : body'[WSlot][x] = IF x = w THEN stamp ELSE body[WSlot][x]
    BY <1>0, <2>1 DEF TypeOK
  <2>5. WriterInv'
    <3>1. \A s \in Slots : Odd(gen'[s]) <=> (wpc' = "writing" /\ s = WSlot')
      BY <1>0, <2>1 DEF WriterInv
    <3>2. \A x \in Words \ wtodo' : body'[WSlot'][x] = stamp'
      BY <1>0, <2>1, <2>4 DEF WriterInv
    <3>3. \A s \in Slots : ~Odd(gen'[s]) => Whole(body'[s])
      BY <1>0, <2>1, <2>2, <2>3 DEF WriterInv
    <3> QED BY <3>1, <3>2, <3>3 DEF WriterInv, Whole
  <2>6. ReaderInv'
    <3>1. CASE RSlot = WSlot
      BY <1>0, <1>a, <2>1, <2>2, <3>1 DEF ReaderInv
    <3>2. CASE RSlot # WSlot
      BY <1>0, <1>a, <2>1, <2>3, <3>2 DEF ReaderInv
    <3> QED BY <3>1, <3>2
  <2> QED BY <1>b, <2>5, <2>6
<1>3. CASE WriteClose
  <2>1. /\ wpc = "writing" /\ wpc' = "closed" /\ wtodo = {} /\ body' = body
        /\ gen' = [gen EXCEPT ![WSlot] = @ + 1]
    BY <1>3 DEF WriteClose
  <2>2. \A s \in Slots : gen[s] \in Nat BY <1>0 DEF TypeOK
  <2>3. \A s \in Slots : gen'[s] = IF s = WSlot THEN gen[s] + 1 ELSE gen[s]
    BY <1>0, <2>1 DEF TypeOK
  <2>4. Odd(gen[WSlot]) BY <1>0, <2>1 DEF WriterInv
  <2>5. \A s \in Slots : ~Odd(gen'[s])
    BY <1>0, <2>1, <2>2, <2>3, <2>4, Parity DEF WriterInv
  <2>6. Whole(body[WSlot]) BY <1>0, <2>1 DEF WriterInv, Whole
  <2>7. \A s \in Slots : Whole(body[s])
    BY <1>0, <2>1, <2>6 DEF WriterInv
  <2>8. WriterInv' BY <2>1, <2>5, <2>7 DEF WriterInv, Whole
  <2>9. ReaderInv'
    <3> SUFFICES ASSUME rpc' \in {"copy", "g2"} PROVE ReaderInv'
      BY DEF ReaderInv
    <3>1. /\ ~Odd(g1) /\ g1 <= gen[RSlot] /\ (rpc = "g2" => rtodo = {})
          /\ gen[RSlot] = g1 => \A w \in Words \ rtodo : out[w] = body[RSlot][w]
      BY <1>0, <1>a DEF ReaderInv
    <3>2. g1 \in Nat BY <1>0 DEF TypeOK
    <3>3. g1 <= gen'[RSlot] BY <1>0, <2>2, <2>3, <3>1, <3>2
    <3>4. gen'[RSlot] = g1 => gen[RSlot] = g1
      <4>1. CASE RSlot = WSlot
        <5>1. gen[RSlot] # g1 BY <2>4, <3>1, <4>1
        <5>2. gen[RSlot] > g1 BY <1>0, <2>2, <3>1, <3>2, <5>1
        <5> QED BY <1>0, <2>2, <2>3, <3>2, <4>1, <5>2
      <4>2. CASE RSlot # WSlot BY <1>0, <2>3, <4>2
      <4> QED BY <4>1, <4>2
    <3> QED BY <1>a, <2>1, <3>1, <3>3, <3>4 DEF ReaderInv
  <2> QED BY <1>b, <2>8, <2>9
<1>4. CASE WritePublish \/ OpenHost \/ KillHost
  <2>1. gen' = gen /\ body' = body /\ wpc # "writing" /\ wpc' # "writing"
    BY <1>0, <1>4 DEF WritePublish, OpenHost, KillHost
  <2>2. WriterInv' BY <1>0, <2>1 DEF WriterInv, Whole
  <2>3. ReaderInv' BY <1>0, <1>a, <2>1 DEF ReaderInv
  <2> QED BY <1>b, <2>2, <2>3
<1> QED BY <1>1, <1>2, <1>3, <1>4 DEF HostStep

\* A step of the reader keeps the seqlock invariant.
LEMMA ReaderStep ==
  ASSUME SeqlockInv, ~cut', TypeOK', WorkerStep
  PROVE  WriterInv' /\ ReaderInv' /\ Whole(accepted)'
<1>0. /\ TypeOK /\ ~cut /\ WriterInv /\ ReaderInv /\ Whole(accepted)
      /\ RSlot \in Slots
  BY SlotsOK DEF SeqlockInv, WorkerStep, Poll, ReadIndex, ReadG1, CopyWord,
     ReadG2, GiveUp, writerVars
<1>1. UNCHANGED <<gen, body, wpc, wtodo, stamp>> /\ WSlot' = WSlot
  BY DEF WorkerStep, Poll, ReadIndex, ReadG1, CopyWord, ReadG2, GiveUp,
     writerVars, WSlot
<1>2. WriterInv' BY <1>0, <1>1 DEF WriterInv, Whole
<1>3. CASE Poll \/ ReadIndex \/ GiveUp
  <2>1. rpc' \in {"index", "poll", "g1"} /\ accepted' = accepted
    BY <1>3 DEF Poll, ReadIndex, GiveUp
  <2> QED BY <1>0, <1>2, <2>1 DEF ReaderInv, Whole
<1>4. CASE ReadG1
  <2>1. /\ accepted' = accepted /\ g1' = gen[RSlot] /\ RSlot' = RSlot
        /\ rpc' \in {"g1", "copy"}
        /\ rpc' = "copy" => ~Odd(gen[RSlot]) /\ rtodo' = Words
    BY <1>4 DEF ReadG1, RSlot
  <2>2. gen[RSlot] \in Nat BY <1>0 DEF TypeOK
  <2>3. ReaderInv' BY <1>0, <1>1, <2>1, <2>2 DEF ReaderInv
  <2> QED BY <1>0, <1>2, <2>1, <2>3 DEF Whole
<1>5. ASSUME NEW w \in Words, CopyWord(w)
      PROVE  WriterInv' /\ ReaderInv' /\ Whole(accepted)'
  <2>1. /\ rpc = "copy" /\ accepted' = accepted /\ g1' = g1 /\ RSlot' = RSlot
        /\ out' = [out EXCEPT ![w] = body[RSlot][w]]
        /\ rtodo' = rtodo \ {w}
        /\ rpc' = "g2" => rtodo' = {}
    BY <1>5 DEF CopyWord, RSlot
  <2>2. \A x \in Words : out'[x] = IF x = w THEN body[RSlot][w] ELSE out[x]
    BY <1>0, <2>1 DEF TypeOK
  <2>3. ReaderInv' BY <1>0, <1>1, <2>1, <2>2 DEF ReaderInv
  <2> QED BY <1>0, <1>2, <2>1, <2>3 DEF Whole
<1>6. CASE ReadG2
  <2>1. rpc = "g2" /\ rpc' \in {"poll", "g1"} BY <1>6 DEF ReadG2
  <2>2. ReaderInv' BY <2>1 DEF ReaderInv
  <2>3. CASE gen[RSlot] # g1
    BY <1>0, <1>2, <1>6, <2>2, <2>3 DEF ReadG2, Whole
  <2>4. CASE gen[RSlot] = g1
    <3>1. accepted' = out BY <1>6, <2>4 DEF ReadG2
    <3>2. Whole(body[RSlot]) BY <1>0, <2>1, <2>4 DEF ReaderInv, WriterInv
    <3>3. \A x \in Words : out[x] = body[RSlot][x]
      BY <1>0, <2>1, <2>4 DEF ReaderInv
    <3> QED BY <1>2, <2>2, <3>1, <3>2, <3>3 DEF Whole
  <2> QED BY <2>3, <2>4
<1> QED BY <1>3, <1>4, <1>5, <1>6 DEF WorkerStep

\* Every step preserves the inductive invariant.
LEMMA NextSeqlock == SeqlockInv /\ [Next]_vars => SeqlockInv'
<1> SUFFICES ASSUME SeqlockInv, [Next]_vars PROVE SeqlockInv'
  OBVIOUS
<1>1. CASE UNCHANGED vars
  BY <1>1 DEF SeqlockInv, TypeOK, RetryInv, WriterInv, ReaderInv, Whole, WSlot,
     RSlot, vars, writerVars, readerVars
<1>2. CASE Quiet BY <1>1, <1>2 DEF Quiet
<1>3. CASE Next /\ ~Quiet
  <2>1. TypeOK' /\ RetryInv' BY <1>3, TypeStep DEF SeqlockInv
  <2>2. ASSUME ~cut' PROVE WriterInv' /\ ReaderInv' /\ Whole(accepted)'
    BY <1>3, <2>1, <2>2, WriterStep, ReaderStep DEF Next
  <2> QED BY <2>1, <2>2 DEF SeqlockInv
<1> QED BY <1>1, <1>2, <1>3

\* Every variable of the ring keeps its type and the retry counter its bound.
THEOREM RingTypeCorrect == Spec => []TypeOK
<1>1. SeqlockInv => TypeOK BY DEF SeqlockInv
<1> QED BY <1>1, InitSeqlock, NextSeqlock, PTL DEF Spec

\* TryReadLatestWire returns whole frames only, unless a host was killed
\* between opening and closing a slot's generation.
THEOREM NoTornFrameCorrect == Spec => []NoTornFrame
<1>1. SeqlockInv => NoTornFrame BY DEF SeqlockInv, NoTornFrame
<1> QED BY <1>1, InitSeqlock, NextSeqlock, PTL DEF Spec

-----------------------------------------------------------------------------
(* The refinement: the ring is a register of whole frames.                 *)

\* The slot publish_index points at.
PSlot == (pubIndex - 1) % RingSize

\* Frames are numbered in the order they are begun, and at most one is open.
CountInv ==
  /\ announced <= complete /\ complete <= stamp /\ asked <= announced
  /\ ~cut => stamp = IF wpc = "writing" THEN complete + 1 ELSE complete
  /\ wpc = "closed" => complete = stamp

\* No word of the ring is of a frame not yet begun, the open frame's stored words
\* are its own, and the announced slot is never rewritten with an older frame, not
\* even by the host that starts counting anew.
BodyInv ==
  /\ \A s \in Slots, w \in Words : body[s][w] <= stamp
  /\ wpc = "writing" => \A w \in Words \ wtodo : body[WSlot][w] = stamp
  /\ wpc = "closed" => \A w \in Words : body[WSlot][w] = stamp
  /\ \A w \in Words : announced <= body[PSlot][w]
  /\ ~cut => \A s \in Slots, w \in Words : ~Odd(gen[s]) => body[s][w] <= complete

\* What the reader copies is no older than what was announced when it began.
CopyInv ==
  /\ rpc \in {"g1", "copy", "g2"} => \A w \in Words : asked <= body[RSlot][w]
  /\ rpc \in {"copy", "g2"} => \A w \in Words \ rtodo : asked <= out[w] /\ out[w] <= stamp
  /\ rpc = "g2" => rtodo = {}

RegisterInv == CountInv /\ BodyInv /\ CopyInv

\* publish_index points at a slot of the ring, also before the first frame.
LEMMA PSlotOK == TypeOK => PSlot \in Slots
<1> SUFFICES ASSUME TypeOK PROVE PSlot \in Slots
  OBVIOUS
<1>1. pubIndex - 1 \in Int BY DEF TypeOK
<1> QED BY <1>1, SlotInRing DEF PSlot

\* The initial states satisfy the register's invariant.
LEMMA InitRegister == Init => RegisterInv
<1> SUFFICES ASSUME Init PROVE RegisterInv
  OBVIOUS
<1>1. \A s \in Slots, w \in Words : body[s][w] = 0 BY DEF Init, Blank
<1>2. PSlot \in Slots /\ RSlot \in Slots
  BY SlotInRing DEF Init, PSlot, RSlot
<1>3. CountInv BY DEF Init, CountInv
<1>4. BodyInv BY <1>1, <1>2 DEF Init, BodyInv
<1>5. CopyInv BY DEF Init, CopyInv
<1> QED BY <1>3, <1>4, <1>5 DEF RegisterInv

\* A step of the host keeps it: a word only ever becomes newer.
LEMMA RegisterHost ==
  ASSUME SeqlockInv, RegisterInv, HostStep \/ KillHost \/ OpenHost
  PROVE  RegisterInv'
<1>0. /\ TypeOK /\ CountInv /\ BodyInv /\ CopyInv
      /\ WSlot \in Slots /\ RSlot \in Slots /\ PSlot \in Slots /\ local % RingSize \in Slots
      /\ ~cut => WriterInv
  BY SlotsOK, PSlotOK DEF SeqlockInv, RegisterInv
<1>1. UNCHANGED <<rpc, asked, out, rtodo>> /\ RSlot' = RSlot
  BY DEF HostStep, WriteOpen, WriteWord, WriteClose, WritePublish, KillHost, OpenHost,
         readerVars, RSlot
<1>2. \A s \in Slots, w \in Words : body[s][w] \in Nat
  BY <1>0 DEF TypeOK
<1>3. stamp \in Nat /\ complete \in Nat /\ announced \in Nat /\ asked \in Nat
      /\ \A w \in Words : out[w] \in Nat
  BY <1>0 DEF TypeOK
<1>4. ASSUME \A s \in Slots, w \in Words : body[s][w] <= body'[s][w] /\ body'[s][w] \in Nat,
             stamp <= stamp', stamp' \in Nat
      PROVE  CopyInv'
  <2>1. rpc \in {"g1", "copy", "g2"} => \A w \in Words : asked <= body'[RSlot][w]
    BY <1>0, <1>2, <1>3, <1>4 DEF CopyInv
  <2>2. rpc \in {"copy", "g2"} => \A w \in Words \ rtodo : asked <= out[w] /\ out[w] <= stamp'
    BY <1>0, <1>3, <1>4 DEF CopyInv
  <2>3. rpc = "g2" => rtodo = {} BY <1>0 DEF CopyInv
  <2> QED BY <1>1, <2>1, <2>2, <2>3 DEF CopyInv
<1>5. CASE WriteOpen
  <2>1. /\ stamp' = stamp + 1 /\ wpc = "idle" /\ wpc' = "writing" /\ wtodo' = Words
        /\ UNCHANGED <<body, pubIndex, complete, announced, cut>>
        /\ gen' = [gen EXCEPT ![local % RingSize] = @ + 1]
    BY <1>5 DEF WriteOpen
  <2>2. CountInv' BY <1>0, <1>1, <1>3, <2>1 DEF CountInv
  <2>3. PSlot' = PSlot BY <2>1 DEF PSlot
  <2>4. \A s \in Slots : ~cut => ~Odd(gen[s])
    BY <1>0, <2>1 DEF WriterInv
  <2>5. BodyInv' BY <1>0, <1>2, <1>3, <2>1, <2>3, <2>4 DEF BodyInv
  <2>6. CopyInv' BY <1>2, <1>3, <1>4, <2>1
  <2> QED BY <2>2, <2>5, <2>6 DEF RegisterInv
<1>6. ASSUME NEW w \in Words, WriteWord(w) PROVE RegisterInv'
  <2>1. /\ wpc = "writing" /\ w \in wtodo /\ wtodo' = wtodo \ {w} /\ WSlot' = WSlot
        /\ UNCHANGED <<gen, pubIndex, wpc, stamp, complete, announced, cut>>
        /\ body' = [body EXCEPT ![WSlot][w] = stamp] /\ PSlot' = PSlot
    BY <1>6 DEF WriteWord, WSlot, PSlot
  <2>2. \A s \in Slots, x \in Words :
          body'[s][x] = IF s = WSlot /\ x = w THEN stamp ELSE body[s][x]
    BY <1>0, <2>1 DEF TypeOK
  <2>3. \A s \in Slots, x \in Words :
          body[s][x] <= body'[s][x] /\ body'[s][x] \in Nat /\ body'[s][x] <= stamp
    BY <1>0, <1>2, <1>3, <2>2 DEF BodyInv
  <2>4. CountInv' BY <1>0, <1>1, <2>1 DEF CountInv
  <2>5. BodyInv'
    <3>1. \A x \in Words \ wtodo' : body'[WSlot'][x] = stamp'
      BY <1>0, <2>1, <2>2 DEF BodyInv
    <3>2. \A x \in Words : announced' <= body'[PSlot'][x]
      BY <1>0, <1>2, <1>3, <2>1, <2>3 DEF BodyInv
    <3>3. ~cut => Odd(gen[WSlot]) BY <1>0, <2>1 DEF WriterInv
    <3>4. ~cut' => \A s \in Slots, x \in Words : ~Odd(gen'[s]) => body'[s][x] <= complete'
      BY <1>0, <2>1, <2>2, <3>3 DEF BodyInv
    <3> QED BY <2>1, <2>3, <3>1, <3>2, <3>4 DEF BodyInv
  <2>6. CopyInv' BY <1>3, <1>4, <2>1, <2>3
  <2> QED BY <2>4, <2>5, <2>6 DEF RegisterInv
<1>7. CASE WriteClose
  <2>1. /\ wpc = "writing" /\ wpc' = "closed" /\ wtodo = {} /\ complete' = stamp
        /\ UNCHANGED <<body, pubIndex, stamp, announced, cut>> /\ WSlot' = WSlot /\ PSlot' = PSlot
    BY <1>7 DEF WriteClose, WSlot, PSlot
  <2>2. CountInv' BY <1>0, <1>1, <1>3, <2>1 DEF CountInv
  <2>3. BodyInv' BY <1>0, <2>1 DEF BodyInv
  <2>4. CopyInv' BY <1>2, <1>3, <1>4, <2>1
  <2> QED BY <2>2, <2>3, <2>4 DEF RegisterInv
<1>8. CASE WritePublish
  <2>1. /\ wpc = "closed" /\ wpc' = "idle" /\ pubIndex' = local /\ announced' = stamp
        /\ UNCHANGED <<gen, body, stamp, complete, cut>> /\ PSlot' = WSlot
    BY <1>8 DEF WritePublish, WSlot, PSlot
  <2>2. CountInv' BY <1>0, <1>1, <1>3, <2>1 DEF CountInv
  <2>3. BodyInv' BY <1>0, <1>3, <2>1 DEF BodyInv
  <2>4. CopyInv' BY <1>2, <1>3, <1>4, <2>1
  <2> QED BY <2>2, <2>3, <2>4 DEF RegisterInv
<1>9. CASE KillHost \/ OpenHost
  <2>1. /\ UNCHANGED <<gen, body, pubIndex, stamp, complete, announced>> /\ PSlot' = PSlot
        /\ wpc' \in {"down", "idle"} /\ (~cut' => ~cut /\ wpc # "writing")
    BY <1>0, <1>9 DEF KillHost, OpenHost, PSlot, TypeOK
  <2>2. CountInv' BY <1>0, <1>1, <1>3, <2>1 DEF CountInv
  <2>3. BodyInv' BY <1>0, <2>1 DEF BodyInv
  <2>4. CopyInv' BY <1>2, <1>3, <1>4, <2>1
  <2> QED BY <2>2, <2>3, <2>4 DEF RegisterInv
<1> QED BY <1>5, <1>6, <1>7, <1>8, <1>9 DEF HostStep

\* A step of the worker keeps it: it asks for what publish_index announces.
LEMMA RegisterWorker ==
  ASSUME SeqlockInv, RegisterInv, WorkerStep
  PROVE  RegisterInv'
<1>0. /\ TypeOK /\ CountInv /\ BodyInv /\ CopyInv /\ RSlot \in Slots
  BY SlotsOK DEF SeqlockInv, RegisterInv
<1>1. UNCHANGED <<gen, body, pubIndex, wpc, wtodo, stamp, complete, announced, cut>>
      /\ WSlot' = WSlot /\ PSlot' = PSlot
  BY DEF WorkerStep, Poll, ReadIndex, ReadG1, CopyWord, ReadG2, GiveUp, writerVars,
         WSlot, PSlot
<1>2. BodyInv' BY <1>0, <1>1 DEF BodyInv
<1>3. CASE Poll \/ GiveUp
  <2>1. rpc' \in {"index", "poll"} /\ asked' = asked BY <1>3 DEF Poll, GiveUp
  <2> QED BY <1>0, <1>1, <1>2, <2>1 DEF RegisterInv, CountInv, CopyInv
<1>4. CASE ReadIndex
  <2>1. rpc' \in {"poll", "g1"} /\ asked' = announced /\ RSlot' = PSlot
    BY <1>4 DEF ReadIndex, RSlot, PSlot
  <2>2. CopyInv' BY <1>0, <1>1, <2>1 DEF BodyInv, CopyInv
  <2>3. announced <= announced BY <1>0 DEF TypeOK
  <2>4. CountInv' BY <1>0, <1>1, <2>1, <2>3 DEF CountInv
  <2> QED BY <1>2, <2>2, <2>4 DEF RegisterInv
<1>5. CASE ReadG1
  <2>1. /\ asked' = asked /\ RSlot' = RSlot /\ rpc = "g1" /\ rpc' \in {"g1", "copy"}
        /\ rpc' = "copy" => rtodo' = Words
    BY <1>5 DEF ReadG1, RSlot
  <2>2. CopyInv' BY <1>0, <1>1, <2>1 DEF CopyInv
  <2> QED BY <1>0, <1>1, <1>2, <2>1, <2>2 DEF RegisterInv, CountInv
<1>6. ASSUME NEW w \in Words, CopyWord(w) PROVE RegisterInv'
  <2>1. /\ asked' = asked /\ RSlot' = RSlot /\ rpc = "copy" /\ rpc' \in {"copy", "g2"}
        /\ out' = [out EXCEPT ![w] = body[RSlot][w]] /\ rtodo' = rtodo \ {w}
        /\ rpc' = "g2" => rtodo' = {}
    BY <1>6 DEF CopyWord, RSlot
  <2>2. \A x \in Words : out'[x] = IF x = w THEN body[RSlot][w] ELSE out[x]
    BY <1>0, <2>1 DEF TypeOK
  <2>3. CopyInv' BY <1>0, <1>1, <2>1, <2>2 DEF BodyInv, CopyInv
  <2> QED BY <1>0, <1>1, <1>2, <2>1, <2>3 DEF RegisterInv, CountInv
<1>7. CASE ReadG2
  <2>1. asked' = asked /\ RSlot' = RSlot /\ rpc = "g2" /\ rpc' \in {"poll", "g1"}
    BY <1>7 DEF ReadG2, RSlot
  <2>2. CopyInv' BY <1>0, <1>1, <2>1 DEF CopyInv
  <2> QED BY <1>0, <1>1, <1>2, <2>1, <2>2 DEF RegisterInv, CountInv
<1> QED BY <1>3, <1>4, <1>5, <1>6, <1>7 DEF WorkerStep

\* Every step preserves the register's invariant.
LEMMA NextRegister == SeqlockInv /\ RegisterInv /\ [Next]_vars => RegisterInv'
<1> SUFFICES ASSUME SeqlockInv, RegisterInv, [Next]_vars PROVE RegisterInv'
  OBVIOUS
<1>1. CASE UNCHANGED vars
  BY <1>1 DEF RegisterInv, CountInv, BodyInv, CopyInv, WSlot, RSlot, PSlot, vars,
              writerVars, readerVars
<1>2. CASE Quiet BY <1>1, <1>2 DEF Quiet
<1> QED BY <1>1, <1>2, RegisterHost, RegisterWorker DEF Next

\* The initial ring is the empty register.
LEMMA InitIsRegister == Init => Register!Init
<1> SUFFICES ASSUME Init PROVE Register!Init
  OBVIOUS
<1>1. AnyWord \in Words BY WordsAssumption DEF AnyWord
<1>2. accepted[AnyWord] = 0 BY <1>1 DEF Init, Blank
<1> QED BY <1>2 DEF Init, Register!Init

\* A frame the worker accepts was published, and is no older than announced when
\* the read began.
LEMMA AcceptIsDeliver ==
  ASSUME SeqlockInv, RegisterInv, ReadG2
  PROVE  Register!Next \/ UNCHANGED Register!vars
<1>0. /\ TypeOK /\ CountInv /\ BodyInv /\ CopyInv /\ RSlot \in Slots
      /\ ~cut => WriterInv /\ ReaderInv
  BY SlotsOK DEF SeqlockInv, RegisterInv
<1>1. UNCHANGED <<stamp, complete, announced, cut, asked>> /\ rpc = "g2"
  BY DEF ReadG2, writerVars
<1>2. AnyWord \in Words BY WordsAssumption DEF AnyWord
<1>3. CASE gen[RSlot] # g1
  BY <1>1, <1>3 DEF ReadG2, Register!vars
<1>4. CASE gen[RSlot] = g1
  <2> DEFINE v == out[AnyWord]
  <2>1. accepted' = out BY <1>4 DEF ReadG2
  <2>2. asked <= v /\ v <= stamp /\ v \in Nat
    BY <1>0, <1>1, <1>2 DEF CopyInv, TypeOK
  <2>3. ~cut => v = body[RSlot][AnyWord] /\ ~Odd(gen[RSlot])
    BY <1>0, <1>1, <1>2, <1>4 DEF ReaderInv
  <2>4. ~cut => v <= complete BY <1>0, <1>2, <2>3 DEF BodyInv
  <2>5. v \in asked .. (IF cut THEN stamp ELSE complete)
    BY <1>0, <2>2, <2>4 DEF TypeOK
  <2> QED BY <1>1, <2>1, <2>5 DEF Register!Next, Register!Deliver
<1> QED BY <1>3, <1>4

\* Every step of the ring is a step of the register or leaves it alone.
LEMMA StepsAreRegisterSteps ==
  SeqlockInv /\ RegisterInv /\ [Next]_vars => [Register!Next]_(Register!vars)
<1> SUFFICES ASSUME SeqlockInv, RegisterInv, [Next]_vars
             PROVE  Register!Next \/ UNCHANGED Register!vars
  OBVIOUS
<1>0. TypeOK /\ CountInv BY DEF SeqlockInv, RegisterInv
<1> USE DEF Register!Next, Register!vars
<1>1. CASE WriteOpen
  <2>1. /\ stamp' = stamp + 1 /\ UNCHANGED <<complete, announced, cut, asked, accepted>>
    BY <1>1 DEF WriteOpen, readerVars
  <2> QED BY <2>1 DEF Register!Publish
<1>2. ASSUME NEW w \in Words, WriteWord(w) PROVE UNCHANGED Register!vars
  BY <1>2 DEF WriteWord, readerVars
<1>3. CASE WriteClose
  <2>1. /\ complete' = stamp /\ wpc = "writing" /\ UNCHANGED <<stamp, announced, cut, asked, accepted>>
    BY <1>3 DEF WriteClose, readerVars
  <2> QED BY <1>0, <2>1 DEF Register!Publish, CountInv
<1>4. CASE WritePublish
  <2>1. /\ announced' = stamp /\ wpc = "closed" /\ UNCHANGED <<stamp, complete, cut, asked, accepted>>
    BY <1>4 DEF WritePublish, readerVars
  <2> QED BY <1>0, <2>1 DEF Register!Announce, CountInv
<1>5. CASE KillHost
  <2>1. /\ cut' = (cut \/ wpc = "writing")
        /\ UNCHANGED <<stamp, complete, announced, asked, accepted>>
    BY <1>5 DEF KillHost, readerVars
  <2>2. CASE cut' = cut BY <2>1, <2>2
  <2>3. CASE cut' # cut
    <3>1. ~cut /\ cut' /\ wpc = "writing" BY <1>0, <2>1, <2>3 DEF TypeOK
    <3>2. stamp = complete + 1 BY <1>0, <3>1 DEF CountInv
    <3> QED BY <2>1, <3>1, <3>2 DEF Register!Publish
  <2> QED BY <2>2, <2>3
<1>6. CASE OpenHost BY <1>6 DEF OpenHost, readerVars
<1>7. CASE ReadIndex
  <2>1. asked' = announced /\ UNCHANGED <<stamp, complete, announced, cut, accepted>>
    BY <1>7 DEF ReadIndex, writerVars
  <2> QED BY <2>1 DEF Register!Request
<1>8. CASE Poll \/ ReadG1 \/ GiveUp
  BY <1>8 DEF Poll, ReadG1, GiveUp, writerVars
<1>9. ASSUME NEW w \in Words, CopyWord(w) PROVE UNCHANGED Register!vars
  BY <1>9 DEF CopyWord, writerVars
<1>10. CASE ReadG2 BY <1>10, AcceptIsDeliver
<1>11. CASE Quiet \/ UNCHANGED vars
  BY <1>11 DEF Quiet, vars, writerVars, readerVars
<1> QED BY <1>1, <1>2, <1>3, <1>4, <1>5, <1>6, <1>7, <1>8, <1>9, <1>10, <1>11
        DEF Next, HostStep, WorkerStep

\* The face-frame ring implements the frame register for every ring size, body
\* size and number of host kills: a read that succeeds returns a frame that was
\* published, and none older than the one announced when the read began.
THEOREM RingImplementsRegister == Spec => ImplementsRegister
<1>1. Init /\ [][Next]_vars => [](SeqlockInv /\ RegisterInv)
  BY InitSeqlock, NextSeqlock, InitRegister, NextRegister, PTL
<1>2. Init /\ [][Next]_vars /\ [](SeqlockInv /\ RegisterInv)
        => Register!Init /\ [][Register!Next]_(Register!vars)
  BY InitIsRegister, StepsAreRegisterSteps, PTL
<1> QED BY <1>1, <1>2, PTL DEF Spec, ImplementsRegister, Register!Spec

-----------------------------------------------------------------------------
(* The tables of slots.                                                    *)

\* The variables of a table, and what the reader and the writer keep of it.
SlotTypes ==
  /\ slotGen \in [TableSlots -> Nat] /\ words \in [TableSlots -> Nat \X Nat]
  /\ slot \in TableSlots /\ prev \in Nat /\ pass \in Nat
  /\ rslot \in TableSlots /\ slotG1 \in Nat /\ copy \in Nat \X Nat
  /\ shown \in [TableSlots -> Nat \X Nat]
  /\ publisher \in {"down", "idle", "odd", "copy", "even"}

\* WriteSlot: where it is says what the generation is, and a slot no kill has hurt
\* is whole while its generation is even.
SlotWriterInv ==
  /\ publisher = "odd" => slotGen[slot] = prev
  /\ publisher \in {"copy", "even"} => slotGen[slot] = prev + 1
  /\ publisher = "even" => words[slot] = <<pass, pass>>
  /\ \A s \in TableSlots \ hurt :
       /\ Odd(slotGen[s]) <=> (publisher \in {"copy", "even"} /\ s = slot)
       /\ ~Odd(slotGen[s]) => words[s][1] = words[s][2]

\* TryReadSlot: while the generation it noted is current, its copy is the slot's.
SlotReaderInv ==
  slotRpc \in {"word1", "word2", "g2"} /\ rslot \notin hurt =>
    /\ ~Odd(slotG1) /\ slotG1 <= slotGen[rslot]
    /\ slotGen[rslot] = slotG1 =>
         /\ slotRpc \in {"word2", "g2"} => copy[1] = words[rslot][1]
         /\ slotRpc = "g2" => copy[2] = words[rslot][2]

\* A segment is only made anew when the overlay reads and shows nothing of it.
SlotViewInv ==
  /\ ~mapped => slotRpc = "idle" /\ \A s \in TableSlots : shown[s] = <<0, 0>>
  /\ \A s \in TableSlots \ hurt : shown[s][1] = shown[s][2]

SlotInv == SlotTypes /\ SlotWriterInv /\ SlotReaderInv /\ SlotViewInv

\* The initial table.
LEMMA InitSlots == Table!Init => SlotInv
<1> SUFFICES ASSUME Table!Init PROVE SlotInv
  OBVIOUS
<1>1. ~Odd(0) BY DEF Odd
<1>2. SlotTypes BY TableAssumption DEF Table!Init, Table!Empty, SlotTypes
<1>3. SlotWriterInv BY <1>1 DEF Table!Init, Table!Empty, SlotWriterInv
<1>4. SlotReaderInv BY DEF Table!Init, SlotReaderInv
<1>5. SlotViewInv BY DEF Table!Init, Table!Empty, SlotViewInv
<1> QED BY <1>2, <1>3, <1>4, <1>5 DEF SlotInv

\* A step of the driver that changes one generation, upwards, cannot make a stale
\* copy of the reader look current.
LEMMA SlotWriterStep ==
  ASSUME SlotInv, Table!MarksOdd \/ Table!Copies \/ Table!MarksEven
  PROVE  SlotInv'
<1>0. SlotTypes /\ SlotWriterInv /\ SlotReaderInv /\ SlotViewInv BY DEF SlotInv
<1>1. UNCHANGED <<pass, mapped, slotRpc, rslot, slotG1, copy, shown, hurt>>
  BY DEF Table!MarksOdd, Table!Copies, Table!MarksEven, Table!reading
<1>2. SlotViewInv' BY <1>0, <1>1 DEF SlotViewInv
<1>3. \A s \in TableSlots : slotGen[s] \in Nat BY <1>0 DEF SlotTypes
<1>4. CASE Table!MarksOdd
  <2>1. /\ publisher = "odd" /\ publisher' = "copy" /\ UNCHANGED <<words, slot, prev>>
        /\ slotGen' = [slotGen EXCEPT ![slot] = prev + 1]
    BY <1>4 DEF Table!MarksOdd
  <2>2. \A s \in TableSlots : slotGen'[s] = IF s = slot THEN slotGen[s] + 1 ELSE slotGen[s]
    BY <1>0, <2>1 DEF SlotTypes, SlotWriterInv
  <2>3. SlotTypes' BY <1>0, <1>1, <2>1 DEF SlotTypes
  <2>4. SlotWriterInv'
    <3>1. \A s \in TableSlots \ hurt : Odd(slotGen'[s]) <=> s = slot
      BY <1>0, <1>3, <2>1, <2>2, Parity DEF SlotWriterInv
    <3>2. slotGen'[slot] = prev + 1 BY <1>0, <2>1, <2>2 DEF SlotTypes, SlotWriterInv
    <3>3. \A s \in TableSlots \ hurt : ~Odd(slotGen'[s]) => words[s][1] = words[s][2]
      BY <1>0, <2>1, <2>2, <3>1 DEF SlotWriterInv
    <3> QED BY <1>1, <2>1, <3>1, <3>2, <3>3 DEF SlotWriterInv
  <2>5. SlotReaderInv' BY <1>0, <1>1, <1>3, <2>1, <2>2 DEF SlotReaderInv, SlotTypes
  <2> QED BY <1>2, <2>3, <2>4, <2>5 DEF SlotInv
<1>5. CASE Table!Copies
  <2>1. /\ publisher = "copy" /\ publisher' \in {"copy", "even"} /\ UNCHANGED <<slotGen, slot, prev>>
        /\ \E a, b \in Nat : words' = [words EXCEPT ![slot] = <<a, b>>]
        /\ publisher' = "even" => words' = [words EXCEPT ![slot] = <<pass, pass>>]
    BY <1>0, <1>5 DEF Table!Copies, SlotTypes
  <2>2. \A s \in TableSlots : s # slot => words'[s] = words[s]
    BY <1>0, <2>1 DEF SlotTypes
  <2>3. SlotTypes' BY <1>0, <1>1, <2>1 DEF SlotTypes
  <2>4. SlotWriterInv'
    <3>1. publisher' = "even" => words'[slot] = <<pass, pass>>
      BY <1>0, <2>1 DEF SlotTypes
    <3> QED BY <1>0, <1>1, <2>1, <2>2, <3>1 DEF SlotWriterInv
  <2>5. SlotReaderInv'
    <3>1. CASE rslot = slot
      BY <1>0, <1>1, <2>1, <3>1 DEF SlotReaderInv, SlotWriterInv, SlotTypes
    <3>2. CASE rslot # slot
      BY <1>0, <1>1, <2>1, <2>2, <3>2 DEF SlotReaderInv, SlotTypes
    <3> QED BY <3>1, <3>2
  <2> QED BY <1>2, <2>3, <2>4, <2>5 DEF SlotInv
<1>6. CASE Table!MarksEven
  <2>1. /\ publisher = "even" /\ publisher' \in {"odd", "idle"} /\ words' = words
        /\ slotGen' = [slotGen EXCEPT ![slot] = prev + 2]
        /\ \/ publisher' = "odd" /\ slot' = slot + 1 /\ slot + 1 \in TableSlots
              /\ prev' = slotGen[slot + 1]
           \/ publisher' = "idle" /\ slot' = slot /\ prev' = prev
    BY <1>6 DEF Table!MarksEven
  <2>2. \A s \in TableSlots : slotGen'[s] = IF s = slot THEN slotGen[s] + 1 ELSE slotGen[s]
    BY <1>0, <2>1 DEF SlotTypes, SlotWriterInv
  <2>3. slot + 1 # slot BY <1>0, TableAssumption DEF SlotTypes
  <2>4. SlotTypes' BY <1>0, <1>1, <2>1 DEF SlotTypes
  <2>5. SlotWriterInv'
    <3>1. publisher' = "odd" => slotGen'[slot'] = prev'
      BY <1>0, <2>1, <2>2, <2>3
    <3>2. \A s \in TableSlots \ hurt : ~Odd(slotGen'[s])
      BY <1>0, <1>3, <2>1, <2>2, Parity DEF SlotWriterInv
    <3>3. \A s \in TableSlots \ hurt : words[s][1] = words[s][2]
      BY <1>0, <2>1 DEF SlotWriterInv
    <3> QED BY <1>1, <2>1, <3>1, <3>2, <3>3 DEF SlotWriterInv
  <2>6. SlotReaderInv'
    <3>1. CASE rslot = slot
      <4>1. rslot \notin hurt => Odd(slotGen[rslot])
        BY <1>0, <2>1, <3>1 DEF SlotWriterInv, SlotTypes
      <4> QED BY <1>0, <1>1, <1>3, <2>1, <2>2, <3>1, <4>1 DEF SlotReaderInv, SlotTypes
    <3>2. CASE rslot # slot
      BY <1>0, <1>1, <2>1, <2>2, <3>2 DEF SlotReaderInv, SlotTypes
    <3> QED BY <3>1, <3>2
  <2> QED BY <1>2, <2>4, <2>5, <2>6 DEF SlotInv
<1> QED BY <1>4, <1>5, <1>6

\* Starts, stops and kills of the driver, and the begin of a pass.
LEMMA SlotDriverStep ==
  ASSUME SlotInv,
         Table!DriverStarts \/ Table!DriverStops \/ Table!DriverKilled \/ Table!PassBegins
  PROVE  SlotInv'
<1>0. SlotTypes /\ SlotWriterInv /\ SlotReaderInv /\ SlotViewInv BY DEF SlotInv
<1>1. UNCHANGED <<mapped, slotRpc, rslot, slotG1, copy, shown>>
  BY DEF Table!DriverStarts, Table!DriverStops, Table!DriverKilled, Table!PassBegins,
         Table!reading
<1>2. CASE Table!DriverStarts
  <2>1. CASE mapped
    <3>1. publisher = "down" /\ publisher' = "idle" /\ UNCHANGED <<slotGen, words, hurt, slot, prev, pass>>
      BY <1>2, <2>1 DEF Table!DriverStarts
    <3> QED BY <1>0, <1>1, <3>1
            DEF SlotInv, SlotTypes, SlotWriterInv, SlotReaderInv, SlotViewInv
  <2>2. CASE ~mapped
    <3>1. /\ publisher' = "idle" /\ slotGen' = [s \in TableSlots |-> 0]
          /\ words' = [s \in TableSlots |-> <<0, 0>>] /\ UNCHANGED <<slot, prev, pass>>
      BY <1>2, <2>2 DEF Table!DriverStarts, Table!Empty
    <3>2. ~Odd(0) BY DEF Odd
    <3>3. SlotTypes' BY <1>0, <1>1, <3>1 DEF SlotTypes
    <3>4. SlotWriterInv' BY <3>1, <3>2 DEF SlotWriterInv
    <3>5. SlotReaderInv' /\ SlotViewInv'
      BY <1>0, <1>1, <2>2 DEF SlotReaderInv, SlotViewInv
    <3> QED BY <3>3, <3>4, <3>5 DEF SlotInv
  <2> QED BY <2>1, <2>2
<1>3. CASE Table!DriverStops \/ Table!PassBegins
  <2>1. /\ publisher = "idle" /\ UNCHANGED <<slotGen, words, hurt>>
        /\ \/ publisher' = "down" /\ UNCHANGED <<slot, prev, pass>>
           \/ publisher' = "odd" /\ slot' = 1 /\ prev' = slotGen[1] /\ pass' = pass + 1
    BY <1>3 DEF Table!DriverStops, Table!PassBegins, Table!segment
  <2>2. SlotTypes' BY <1>0, <1>1, <2>1, TableAssumption DEF SlotTypes
  <2> QED BY <1>0, <1>1, <2>1, <2>2
          DEF SlotInv, SlotWriterInv, SlotReaderInv, SlotViewInv
<1>4. CASE Table!DriverKilled
  <2>1. /\ publisher' = "down" /\ UNCHANGED <<slotGen, words, slot, prev, pass>>
        /\ hurt' = IF slotGen[slot] # prev THEN hurt \cup {slot} ELSE hurt
        /\ publisher \in {"odd", "copy", "even"}
    BY <1>4 DEF Table!DriverKilled, Table!segment
  <2>2. hurt \subseteq hurt' /\ (publisher \in {"copy", "even"} => slot \in hurt')
    BY <1>0, <2>1 DEF SlotWriterInv, SlotTypes
  <2> QED BY <1>0, <1>1, <2>1, <2>2
          DEF SlotInv, SlotTypes, SlotWriterInv, SlotReaderInv, SlotViewInv
<1> QED BY <1>2, <1>3, <1>4

\* A step of the overlay.
LEMMA SlotReaderStep ==
  ASSUME SlotInv,
         \/ Table!Opens \/ Table!Closes \/ Table!ReadBegins
         \/ Table!LoadsG1 \/ Table!CopiesWord \/ Table!LoadsG2
  PROVE  SlotInv'
<1>0. SlotTypes /\ SlotWriterInv /\ SlotReaderInv /\ SlotViewInv BY DEF SlotInv
<1>1. UNCHANGED <<slotGen, words, publisher, slot, prev, pass, hurt>>
  BY DEF Table!Opens, Table!Closes, Table!ReadBegins, Table!LoadsG1, Table!CopiesWord,
         Table!LoadsG2, Table!segment, Table!writer
<1>2. SlotWriterInv' BY <1>0, <1>1 DEF SlotWriterInv
<1>3. CASE Table!Opens \/ Table!Closes
  BY <1>0, <1>1, <1>2, <1>3 DEF Table!Opens, Table!Closes, Table!Empty, Table!reading,
     SlotInv, SlotTypes, SlotReaderInv, SlotViewInv
<1>4. CASE Table!ReadBegins
  BY <1>0, <1>1, <1>2, <1>4
     DEF Table!ReadBegins, SlotInv, SlotTypes, SlotReaderInv, SlotViewInv
<1>5. CASE Table!LoadsG1
  <2>1. /\ slotRpc = "g1" /\ slotG1' = slotGen[rslot] /\ UNCHANGED <<mapped, rslot, copy, shown>>
        /\ slotRpc' \in {"g1", "idle", "word1"} /\ (slotRpc' = "word1" => ~Odd(slotGen[rslot]))
    BY <1>5 DEF Table!LoadsG1, Table!Again, Odd
  <2>2. slotGen[rslot] \in Nat BY <1>0 DEF SlotTypes
  <2>3. SlotTypes' BY <1>0, <1>1, <2>1, <2>2 DEF SlotTypes
  <2>4. SlotReaderInv' BY <1>1, <2>1, <2>2 DEF SlotReaderInv
  <2>5. SlotViewInv' BY <1>0, <1>1, <2>1 DEF SlotViewInv
  <2> QED BY <1>2, <2>3, <2>4, <2>5 DEF SlotInv
<1>6. CASE Table!CopiesWord
  <2>1. /\ UNCHANGED <<mapped, rslot, slotG1, shown>>
        /\ \/ slotRpc = "word1" /\ slotRpc' = "word2" /\ copy' = <<words[rslot][1], copy[2]>>
           \/ slotRpc = "word2" /\ slotRpc' = "g2" /\ copy' = <<copy[1], words[rslot][2]>>
    BY <1>6 DEF Table!CopiesWord
  <2>2. words[rslot][1] \in Nat /\ words[rslot][2] \in Nat /\ copy[1] \in Nat /\ copy[2] \in Nat
    BY <1>0 DEF SlotTypes
  <2>3. SlotTypes' BY <1>0, <1>1, <2>1, <2>2 DEF SlotTypes
  <2>4. SlotReaderInv' BY <1>0, <1>1, <2>1, <2>2 DEF SlotReaderInv
  <2>5. SlotViewInv' BY <1>0, <1>1, <2>1 DEF SlotViewInv
  <2> QED BY <1>2, <2>3, <2>4, <2>5 DEF SlotInv
<1>7. CASE Table!LoadsG2
  <2>1. /\ UNCHANGED <<mapped, rslot, slotG1, copy>> /\ slotRpc = "g2" /\ slotRpc' \in {"g1", "idle"}
        /\ \/ shown' = shown
           \/ slotGen[rslot] = slotG1 /\ shown' = [shown EXCEPT ![rslot] = copy]
    BY <1>7 DEF Table!LoadsG2, Table!Again, Table!Unchanged
  <2>2. SlotTypes' BY <1>0, <1>1, <2>1 DEF SlotTypes
  <2>3. SlotReaderInv' BY <2>1 DEF SlotReaderInv
  <2>4. SlotViewInv'
    <3>1. slotGen[rslot] = slotG1 /\ rslot \notin hurt => copy[1] = copy[2]
      BY <1>0, <2>1 DEF SlotReaderInv, SlotWriterInv, SlotTypes
    <3>2. mapped BY <1>0, <2>1 DEF SlotViewInv
    <3> QED BY <1>0, <1>1, <2>1, <3>1, <3>2 DEF SlotViewInv, SlotTypes
  <2> QED BY <1>2, <2>2, <2>3, <2>4 DEF SlotInv
<1> QED BY <1>3, <1>4, <1>5, <1>6, <1>7

\* Every step of the project's composed specification keeps the tables' invariant.
LEMMA NextSlots == SlotInv /\ [MCNext]_allVars => SlotInv'
<1> SUFFICES ASSUME SlotInv, [MCNext]_allVars PROVE SlotInv'
  OBVIOUS
<1>1. CASE UNCHANGED slotVars
  BY <1>1 DEF slotVars, SlotInv, SlotTypes, SlotWriterInv, SlotReaderInv, SlotViewInv
<1>2. CASE Table!Next
  BY <1>2, SlotWriterStep, SlotDriverStep, SlotReaderStep DEF Table!Next
<1> QED BY <1>1, <1>2 DEF MCNext, allVars

\* The overlay never shows words of two writes as one slot, for every table and
\* through every restart of the driver, except in a slot whose write was killed.
THEOREM NoTornSlotCorrect == MCSpec => []NoTornSlot
<1>1. MCInit => SlotInv BY InitSlots DEF MCInit
<1>2. SlotInv => NoTornSlot BY DEF SlotInv, SlotViewInv, NoTornSlot, Table!NoTornSlot
<1> QED BY <1>1, <1>2, NextSlots, PTL DEF MCSpec

-----------------------------------------------------------------------------
(* The pose ring.                                                          *)

\* The pose at a position of the segment: poses are numbered over all segments,
\* and no pose is at position 0.
PoseAt(i) == IF i = 0 THEN 0 ELSE (written - index) + i

PoseTypes ==
  /\ ring \in [0 .. BUFFERED_SAMPLES - 1 -> Nat]
  /\ index \in Nat /\ written \in Nat /\ index <= written /\ written <= MaxPoses
  /\ cursor \in Nat /\ until \in Nat /\ during \in Nat /\ got \in Nat
  /\ driver \in {"down", "idle", "writing"}
  /\ overlay \in {"down", "closed", "idle", "pass"}

\* The newest poses are in the ring; the oldest slot may be torn, by SetPose or by
\* a driver that died within it, and no other slot is.
RingInv ==
  /\ \A i \in 0 .. index : index + 1 < i + BUFFERED_SAMPLES =>
       ring[Poses!Slot(i)] = PoseAt(i)
  /\ \A i \in 0 .. index : index + 1 = i + BUFFERED_SAMPLES =>
       ring[Poses!Slot(i)] \in {PoseAt(i), Poses!Torn}
  /\ \A s \in 0 .. BUFFERED_SAMPLES - 1 : ring[s] = Poses!Torn => s = Poses!Slot(index + 1)
  /\ driver = "writing" => ring[Poses!Slot(index + 1)] = Poses!Torn /\ written < MaxPoses

\* A pass stays within half a ring of index, and the writer does not lap it.
PassInv ==
  overlay = "pass" =>
    /\ cursor <= until /\ until <= cursor + Poses!Half
    /\ until <= index /\ index <= until + during
    /\ during + 1 <= Poses!Half
    /\ ring[Poses!Slot(index + 1)] = Poses!Torn => during + 2 <= Poses!Half

\* What was delivered is older than the segment or lies before the cursor.
GotInv ==
  \/ got <= written - index
  \/ cursor <= index /\ got < (written - index) + cursor

PoseInv == PoseTypes /\ RingInv /\ PassInv /\ GotInv

\* Half a ring holds at least two poses and at most half of the slots.
LEMMA HalfRing ==
  Poses!Half \in Nat /\ 2 <= Poses!Half /\ Poses!Half + Poses!Half <= BUFFERED_SAMPLES
BY PosesAssumption DEF Poses!Half

\* Every position has a slot.
LEMMA PoseSlot ==
  ASSUME NEW i \in Nat PROVE Poses!Slot(i) \in 0 .. BUFFERED_SAMPLES - 1
BY PosesAssumption DEF Poses!Slot

\* Two multiples of a ring that are less than a ring apart are the same.
LEMMA Multiples ==
  ASSUME NEW B \in Nat \ {0}, NEW p \in Int, NEW q \in Int, p < q
  PROVE  B * q >= B * p + B
<1>1. q >= p + 1 OBVIOUS
<1>2. q - (p + 1) \in Nat BY <1>1
<1>3. B * (q - (p + 1)) \in Nat BY <1>2
<1>4. B * (q - (p + 1)) = B * q - B * p - B OBVIOUS
<1> QED BY <1>3, <1>4

\* Positions less than a ring apart have different slots.
LEMMA SlotsDiffer ==
  ASSUME NEW i \in Nat, NEW j \in Nat, i < j, j < i + BUFFERED_SAMPLES
  PROVE  Poses!Slot(i) # Poses!Slot(j)
<1> DEFINE B == BUFFERED_SAMPLES
           p == i \div B
           q == j \div B
<1>0. B \in Nat \ {0} BY PosesAssumption
<1>1. i = B * p + (i % B) /\ p \in Int BY <1>0
<1>2. j = B * q + (j % B) /\ q \in Int BY <1>0
<1> SUFFICES ASSUME i % B = j % B PROVE FALSE
  BY DEF Poses!Slot
<1> HIDE DEF p, q
<1>3. B * p \in Int /\ B * q \in Int BY <1>0, <1>1, <1>2
<1>4. B * q - B * p = j - i
  <2> DEFINE r == i % B
  <2>1. i = B * p + r /\ j = B * q + r /\ r \in Int BY <1>0, <1>1, <1>2
  <2> HIDE DEF r
  <2> QED BY <1>3, <2>1
<1>5. CASE p < q
  <2>1. B * q >= B * p + B BY <1>0, <1>1, <1>2, <1>5, Multiples
  <2> QED BY <1>0, <1>3, <1>4, <2>1
<1>6. CASE q < p
  <2>1. B * p >= B * q + B BY <1>0, <1>1, <1>2, <1>6, Multiples
  <2> QED BY <1>0, <1>3, <1>4, <2>1
<1>7. CASE p = q BY <1>3, <1>4, <1>7
<1> QED BY <1>1, <1>2, <1>5, <1>6, <1>7

\* A position and the one a whole ring later share a slot.
LEMMA SlotComesRound ==
  ASSUME NEW i \in Nat PROVE Poses!Slot(i + BUFFERED_SAMPLES) = Poses!Slot(i)
<1> DEFINE B == BUFFERED_SAMPLES
           p == i \div B
           q == (i + B) \div B
<1>0. B \in Nat \ {0} BY PosesAssumption
<1>1. i = B * p + (i % B) /\ p \in Int /\ i % B \in 0 .. B - 1 BY <1>0
<1>2. i + B = B * q + ((i + B) % B) /\ q \in Int /\ (i + B) % B \in 0 .. B - 1 BY <1>0
<1> HIDE DEF p, q
<1>3. B * p \in Int /\ B * q \in Int /\ B * (p + 1) = B * p + B BY <1>0, <1>1, <1>2
<1>4. CASE p + 1 < q
  <2>1. B * q >= B * (p + 1) + B BY <1>0, <1>1, <1>2, <1>4, Multiples
  <2> QED BY <1>0, <1>1, <1>2, <1>3, <2>1
<1>5. CASE q < p + 1
  <2>1. B * (p + 1) >= B * q + B BY <1>0, <1>1, <1>2, <1>5, Multiples
  <2> QED BY <1>0, <1>1, <1>2, <1>3, <2>1
<1>6. CASE q = p + 1
  <2>1. (i + B) % B = i % B BY <1>0, <1>1, <1>2, <1>3, <1>6
  <2> QED BY <2>1 DEF Poses!Slot
<1> QED BY <1>1, <1>2, <1>4, <1>5, <1>6

\* The empty ring.
LEMMA InitPoses == Poses!Init => PoseInv
<1> SUFFICES ASSUME Poses!Init PROVE PoseInv
  OBVIOUS
<1>1. PoseTypes BY PosesAssumption DEF Poses!Init, Poses!Fresh, Poses!Zero, PoseTypes
<1>2. \A s \in 0 .. BUFFERED_SAMPLES - 1 : ring[s] = 0
  BY DEF Poses!Init, Poses!Fresh, Poses!Zero
<1>3. RingInv
  BY <1>2, PoseSlot, PosesAssumption DEF Poses!Init, RingInv, PoseAt, Poses!Torn
<1> QED BY <1>1, <1>3 DEF Poses!Init, PoseInv, PassInv, GotInv

\* The driver comes back to the segment the overlay maps, or makes a new one.
LEMMA PoseDriverStarts == PoseInv /\ Poses!DriverStarts => PoseInv'
<1> SUFFICES ASSUME PoseInv, Poses!DriverStarts PROVE PoseInv'
  OBVIOUS
<1>0. PoseTypes /\ RingInv /\ PassInv /\ GotInv BY DEF PoseInv
<1>1. driver' = "idle" /\ UNCHANGED <<written, overlay, cursor, until, during, got>>
  BY DEF Poses!DriverStarts, Poses!reader
<1>2. CASE Poses!Mapped
  <2>1. UNCHANGED <<index, ring>> BY <1>2 DEF Poses!DriverStarts
  <2> QED BY <1>0, <1>1, <2>1 DEF PoseInv, PoseTypes, RingInv, PassInv, GotInv, PoseAt, Poses!Torn
<1>3. CASE ~Poses!Mapped
  <2>1. index' = 0 /\ ring' = Poses!Fresh BY <1>3 DEF Poses!DriverStarts
  <2>2. \A s \in 0 .. BUFFERED_SAMPLES - 1 : ring'[s] = 0
    BY <2>1 DEF Poses!Fresh, Poses!Zero
  <2>3. PoseTypes' BY <1>0, <1>1, <2>1 DEF PoseTypes, Poses!Fresh, Poses!Zero
  <2>4. RingInv'
    BY <1>1, <2>1, <2>2, PoseSlot, PosesAssumption DEF RingInv, PoseAt, Poses!Torn
  <2>5. overlay' # "pass" BY <1>1, <1>3 DEF Poses!Mapped
  <2>6. got <= written BY <1>0 DEF GotInv, PoseTypes
  <2>7. GotInv' BY <1>0, <1>1, <2>1, <2>6 DEF GotInv, PoseTypes
  <2> QED BY <2>3, <2>4, <2>5, <2>7 DEF PoseInv, PassInv
<1> QED BY <1>2, <1>3

\* SetPose tears the oldest slot and no other.
LEMMA PoseSetBegins == PoseInv /\ Poses!SetPoseBegins => PoseInv'
<1> SUFFICES ASSUME PoseInv, Poses!SetPoseBegins PROVE PoseInv'
  OBVIOUS
<1>0. PoseTypes /\ RingInv /\ PassInv /\ GotInv BY DEF PoseInv
<1> DEFINE t == Poses!Slot(index + 1)
<1>1. /\ driver' = "writing" /\ ring' = [ring EXCEPT ![t] = Poses!Torn] /\ written < MaxPoses
      /\ overlay = "pass" => during < Poses!Half - 1
      /\ UNCHANGED <<index, written, overlay, cursor, until, during, got>>
  BY DEF Poses!SetPoseBegins, Poses!reader
<1>2. t \in 0 .. BUFFERED_SAMPLES - 1
  <2>1. index + 1 \in Nat BY <1>0 DEF PoseTypes
  <2> QED BY <2>1, PoseSlot
<1>3. \A s \in 0 .. BUFFERED_SAMPLES - 1 : ring'[s] = IF s = t THEN Poses!Torn ELSE ring[s]
  BY <1>0, <1>1, <1>2 DEF PoseTypes
<1>4. Poses!Torn \in Nat BY PosesAssumption DEF Poses!Torn
<1>5. PoseTypes' BY <1>0, <1>1, <1>2, <1>4 DEF PoseTypes
<1>6. Poses!Slot(index + 1)' = t /\ Poses!Torn' = Poses!Torn BY <1>1 DEF Poses!Slot, Poses!Torn
<1>7. \A i \in 0 .. index : Poses!Slot(i) \in 0 .. BUFFERED_SAMPLES - 1
  <2>1. \A i \in 0 .. index : i \in Nat BY <1>0 DEF PoseTypes
  <2> QED BY <2>1, PoseSlot
<1>8. \A i \in 0 .. index : index + 1 < i + BUFFERED_SAMPLES => Poses!Slot(i) # t
  BY <1>0, SlotsDiffer DEF PoseTypes
<1>9. \A i \in 0 .. index : PoseAt(i)' = PoseAt(i) BY <1>1 DEF PoseAt
<1> HIDE DEF t
<1>10. RingInv'
  <2>1. \A i \in 0 .. index' : index' + 1 < i + BUFFERED_SAMPLES =>
          ring'[Poses!Slot(i)] = PoseAt(i)'
    BY <1>0, <1>1, <1>3, <1>7, <1>8, <1>9 DEF RingInv
  <2>2. \A i \in 0 .. index' : index' + 1 = i + BUFFERED_SAMPLES =>
          ring'[Poses!Slot(i)] \in {PoseAt(i)', Poses!Torn}
    BY <1>0, <1>1, <1>3, <1>7, <1>9 DEF RingInv
  <2>3. \A s \in 0 .. BUFFERED_SAMPLES - 1 : ring'[s] = Poses!Torn => s = t
    BY <1>0, <1>3 DEF RingInv, t
  <2> QED BY <1>1, <1>2, <1>3, <1>6, <2>1, <2>2, <2>3 DEF RingInv
<1>11. PassInv' BY <1>0, <1>1, <1>6, HalfRing DEF PassInv, PoseTypes
<1>12. GotInv' BY <1>0, <1>1 DEF GotInv
<1> QED BY <1>5, <1>10, <1>11, <1>12 DEF PoseInv

\* SetPose ends: the slot holds the newest pose, and no slot is torn.
LEMMA PoseSetEnds == PoseInv /\ Poses!SetPoseEnds => PoseInv'
<1> SUFFICES ASSUME PoseInv, Poses!SetPoseEnds PROVE PoseInv'
  OBVIOUS
<1>0. PoseTypes /\ RingInv /\ PassInv /\ GotInv BY DEF PoseInv
<1> DEFINE t == Poses!Slot(index + 1)
<1>1. /\ driver = "writing" /\ driver' = "idle" /\ ring' = [ring EXCEPT ![t] = written + 1]
      /\ index' = index + 1 /\ written' = written + 1
      /\ during' = IF overlay = "pass" THEN during + 1 ELSE 0
      /\ UNCHANGED <<overlay, cursor, until, got>>
  BY DEF Poses!SetPoseEnds, Poses!reader
<1>2. t \in 0 .. BUFFERED_SAMPLES - 1
  <2>1. index + 1 \in Nat BY <1>0 DEF PoseTypes
  <2> QED BY <2>1, PoseSlot
<1>3. \A s \in 0 .. BUFFERED_SAMPLES - 1 : ring'[s] = IF s = t THEN written + 1 ELSE ring[s]
  BY <1>0, <1>1, <1>2 DEF PoseTypes
<1>4. ring[t] = Poses!Torn /\ written < MaxPoses BY <1>0, <1>1 DEF RingInv
<1>5. PoseTypes' BY <1>0, <1>1, <1>2, <1>4, PosesAssumption DEF PoseTypes
<1>6. Poses!Torn' = Poses!Torn /\ written + 1 # Poses!Torn
  BY <1>0, <1>4, PosesAssumption DEF Poses!Torn, PoseTypes
<1>7. \A i \in 0 .. index : Poses!Slot(i) \in 0 .. BUFFERED_SAMPLES - 1
  <2>1. \A i \in 0 .. index : i \in Nat BY <1>0 DEF PoseTypes
  <2> QED BY <2>1, PoseSlot
<1>8. \A i \in 0 .. index : index + 1 < i + BUFFERED_SAMPLES => Poses!Slot(i) # t
  BY <1>0, SlotsDiffer DEF PoseTypes
<1>9. \A i \in 0 .. index : PoseAt(i)' = PoseAt(i) BY <1>0, <1>1 DEF PoseAt, PoseTypes
<1>10. PoseAt(index)' = written + 1 BY <1>0, <1>1 DEF PoseAt, PoseTypes
<1>11. \A s \in 0 .. BUFFERED_SAMPLES - 1 : ring'[s] # Poses!Torn
  BY <1>0, <1>3, <1>6 DEF RingInv
<1>12. Poses!Slot(index' + 1) \in 0 .. BUFFERED_SAMPLES - 1
  <2>1. index' + 1 \in Nat BY <1>0, <1>1 DEF PoseTypes
  <2> QED BY <2>1, PoseSlot
<1>13. \A i \in 0 .. index : index + 1 < i + BUFFERED_SAMPLES =>
         ring'[Poses!Slot(i)] = PoseAt(i)'
  BY <1>0, <1>3, <1>7, <1>8, <1>9 DEF RingInv
<1>14. (ring[Poses!Slot(index)] = PoseAt(index))'
  BY <1>1, <1>2, <1>3, <1>10
<1> HIDE DEF t
<1>15. RingInv'
  <2>1. \A i \in 0 .. index' : index' + 1 <= i + BUFFERED_SAMPLES =>
          ring'[Poses!Slot(i)] = PoseAt(i)'
    <3> TAKE i \in 0 .. index'
    <3>1. CASE i = index' BY <1>14, <3>1
    <3>2. CASE i # index' BY <1>0, <1>1, <1>13, <3>2, PosesAssumption DEF PoseTypes
    <3> QED BY <3>1, <3>2
  <2>2. \A i \in 0 .. index' :
          /\ index' + 1 < i + BUFFERED_SAMPLES => index' + 1 <= i + BUFFERED_SAMPLES
          /\ index' + 1 = i + BUFFERED_SAMPLES => index' + 1 <= i + BUFFERED_SAMPLES
    BY <1>0, <1>1, PosesAssumption DEF PoseTypes
  <2> QED BY <1>1, <1>6, <1>11, <2>1, <2>2 DEF RingInv
<1>16. PassInv'
  <2>1. ring'[Poses!Slot(index' + 1)] # Poses!Torn BY <1>11, <1>12
  <2> QED BY <1>0, <1>1, <1>4, <1>6, <2>1, HalfRing DEF PassInv, PoseTypes, t
<1>17. GotInv' BY <1>0, <1>1 DEF GotInv, PoseTypes
<1> QED BY <1>5, <1>15, <1>16, <1>17 DEF PoseInv

\* A pass begins at most half a ring behind index, and not before the cursor
\* unless the segment is a new one.
LEMMA CatchUpBounds ==
  ASSUME NEW c \in Nat, NEW cur \in Nat
  PROVE  /\ Poses!CatchUp(c, cur) \in Nat /\ Poses!CatchUp(c, cur) <= cur
         /\ cur <= Poses!CatchUp(c, cur) + Poses!Half
         /\ c <= cur => c <= Poses!CatchUp(c, cur)
<1> USE HalfRing
<1>1. CASE cur < c \/ cur - c > Poses!Half
  <2>1. CASE cur < Poses!Half BY <1>1, <2>1 DEF Poses!CatchUp
  <2>2. CASE ~(cur < Poses!Half) BY <1>1, <2>2 DEF Poses!CatchUp
  <2> QED BY <2>1, <2>2
<1>2. CASE ~(cur < c \/ cur - c > Poses!Half)
  BY <1>2 DEF Poses!CatchUp
<1> QED BY <1>1, <1>2

\* The pose a pass takes next is the one of its position: the writer has not come
\* round to it.
LEMMA DeliversPose ==
  ASSUME PoseInv, overlay = "pass", cursor < until
  PROVE  ring[Poses!Slot(cursor)] = PoseAt(cursor)
<1>0. PoseTypes /\ RingInv /\ PassInv BY DEF PoseInv
<1>1. cursor \in 0 .. index BY <1>0 DEF PoseTypes, PassInv
<1>2. CASE ring[Poses!Slot(index + 1)] = Poses!Torn
  <2>1. index + 1 < cursor + BUFFERED_SAMPLES
    BY <1>0, <1>2, HalfRing, PosesAssumption DEF PoseTypes, PassInv
  <2> QED BY <1>0, <1>1, <2>1 DEF RingInv
<1>3. CASE ring[Poses!Slot(index + 1)] # Poses!Torn
  <2>1. index + 1 < cursor + BUFFERED_SAMPLES \/ index + 1 = cursor + BUFFERED_SAMPLES
    BY <1>0, HalfRing, PosesAssumption DEF PoseTypes, PassInv
  <2>2. CASE index + 1 < cursor + BUFFERED_SAMPLES
    BY <1>0, <1>1, <2>2 DEF RingInv
  <2>3. CASE index + 1 = cursor + BUFFERED_SAMPLES
    <3>1. ring[Poses!Slot(cursor)] \in {PoseAt(cursor), Poses!Torn}
      BY <1>0, <1>1, <2>3 DEF RingInv
    <3>2. Poses!Slot(index + 1) = Poses!Slot(cursor)
      <4>1. cursor \in Nat BY <1>0 DEF PoseTypes
      <4> QED BY <2>3, <4>1, SlotComesRound
    <3> QED BY <1>3, <3>1, <3>2
  <2> QED BY <2>1, <2>2, <2>3
<1> QED BY <1>2, <1>3

\* Delivery moves got to a later pose, and keeps the rest.
LEMMA PoseDelivers ==
  ASSUME PoseInv, Poses!Delivers
  PROVE  PoseInv' /\ (got' # got => got' # Poses!Torn /\ got' > got)
<1>0. PoseTypes /\ RingInv /\ PassInv /\ GotInv BY DEF PoseInv
<1>1. /\ overlay = "pass" /\ cursor < until /\ cursor' = cursor + 1
      /\ got' = IF ring[Poses!Slot(cursor)] = 0 THEN got ELSE ring[Poses!Slot(cursor)]
      /\ UNCHANGED <<driver, index, ring, written, overlay, until, during>>
  BY DEF Poses!Delivers, Poses!PassEnd, Poses!Zero, Poses!segment
<1>2. got' = IF PoseAt(cursor) = 0 THEN got ELSE PoseAt(cursor)
  BY <1>1, DeliversPose
<1>3. cursor <= index /\ cursor + 1 <= index
  BY <1>0, <1>1 DEF PassInv, PoseTypes
<1>4. CASE cursor = 0
  <2>1. got' = got BY <1>2, <1>4 DEF PoseAt
  <2>2. GotInv' BY <1>0, <1>1, <1>3, <1>4, <2>1 DEF GotInv, PoseTypes
  <2>3. PoseTypes' /\ PassInv' BY <1>0, <1>1, <2>1, HalfRing DEF PoseTypes, PassInv, Poses!Torn
  <2>4. RingInv' BY <1>0, <1>1 DEF RingInv, PoseAt, Poses!Torn
  <2> QED BY <2>1, <2>2, <2>3, <2>4 DEF PoseInv
<1>5. CASE cursor # 0
  <2>1. got' = (written - index) + cursor /\ got' # 0
    BY <1>0, <1>2, <1>5 DEF PoseAt, PoseTypes
  <2>2. got' > got BY <1>0, <1>5, <2>1 DEF GotInv, PoseTypes
  <2>3. got' # Poses!Torn
    BY <1>0, <1>3, <2>1, PosesAssumption DEF Poses!Torn, PoseTypes
  <2>4. GotInv' BY <1>0, <1>1, <1>3, <2>1 DEF GotInv, PoseTypes
  <2>5. PoseTypes' /\ PassInv' BY <1>0, <1>1, <2>1, HalfRing DEF PoseTypes, PassInv, Poses!Torn
  <2>6. RingInv' BY <1>0, <1>1 DEF RingInv, PoseAt, Poses!Torn
  <2> QED BY <2>2, <2>3, <2>4, <2>5, <2>6 DEF PoseInv
<1> QED BY <1>4, <1>5

\* The other steps of the two processes leave the ring and what was delivered
\* alone, or the overlay ends.
LEMMA PoseOtherStep ==
  ASSUME PoseInv,
         \/ Poses!DriverStops \/ Poses!OverlayStarts \/ Poses!OverlayStops
         \/ Poses!Reconnects \/ Poses!Opens
         \/ Poses!PassBegins \/ Poses!PassEmpty \/ Poses!PassEnds
  PROVE  PoseInv' /\ (overlay' = "down" \/ got' = got)
<1>0. PoseTypes /\ RingInv /\ PassInv /\ GotInv BY DEF PoseInv
<1>1. UNCHANGED <<index, ring, written>> /\ driver' \in {driver, "down"}
  BY DEF Poses!DriverStops, Poses!OverlayStarts, Poses!OverlayStops, Poses!Reconnects,
         Poses!Opens, Poses!PassBegins, Poses!PassEmpty, Poses!PassEnds, Poses!segment
<1>2. RingInv' BY <1>0, <1>1 DEF RingInv, PoseAt, Poses!Torn, PoseTypes
<1>3. CASE Poses!DriverStops \/ Poses!OverlayStarts \/ Poses!Reconnects \/ Poses!Opens
  <2>1. /\ UNCHANGED <<cursor, until, during, got>>
        /\ overlay' \in {overlay, "idle", "closed"}
    BY <1>3 DEF Poses!DriverStops, Poses!OverlayStarts, Poses!Reconnects, Poses!Opens
  <2> QED BY <1>0, <1>1, <1>2, <2>1
          DEF PoseInv, PoseTypes, PassInv, GotInv, Poses!Torn, Poses!Half, Poses!Slot
<1>4. CASE Poses!OverlayStops
  <2>1. overlay' = "down" /\ cursor' = 0 /\ until' = 0 /\ got' = 0 /\ during' = 0
    BY <1>4 DEF Poses!OverlayStops
  <2>2. PoseTypes' BY <1>0, <1>1, <2>1 DEF PoseTypes
  <2>3. GotInv' BY <1>0, <1>1, <2>1 DEF GotInv, PoseTypes
  <2> QED BY <1>2, <2>1, <2>2, <2>3 DEF PoseInv, PassInv
<1>5. CASE Poses!PassBegins \/ Poses!PassEmpty
  <2> DEFINE c == Poses!CatchUp(cursor, index)
  <2>1. /\ c \in Nat /\ c <= index /\ index <= c + Poses!Half
        /\ cursor <= index => cursor <= c
    BY <1>0, CatchUpBounds DEF PoseTypes
  <2> HIDE DEF c
  <2>2. /\ cursor' = c /\ got' = got
        /\ \/ overlay' = "pass" /\ until' = index /\ during' = 0
           \/ overlay' = "idle" /\ UNCHANGED <<until, during>>
    BY <1>5 DEF Poses!PassBegins, Poses!PassEmpty, c
  <2>3. PoseTypes' BY <1>0, <1>1, <2>1, <2>2 DEF PoseTypes
  <2>4. PassInv' BY <1>0, <1>1, <2>1, <2>2, HalfRing DEF PassInv, PoseTypes
  <2>5. GotInv' BY <1>0, <1>1, <2>1, <2>2 DEF GotInv, PoseTypes
  <2> QED BY <1>2, <2>2, <2>3, <2>4, <2>5 DEF PoseInv
<1>6. CASE Poses!PassEnds
  <2>1. overlay' = "idle" /\ during' = 0 /\ UNCHANGED <<cursor, until, got>>
    BY <1>6 DEF Poses!PassEnds
  <2> QED BY <1>0, <1>1, <1>2, <2>1 DEF PoseInv, PoseTypes, PassInv, GotInv
<1> QED BY <1>3, <1>4, <1>5, <1>6

\* Every step keeps the ring's invariant and delivers forwards.
LEMMA NextPoses ==
  PoseInv /\ [MCNext]_allVars =>
    PoseInv' /\ [overlay' # "down" /\ got' # got => got' # Poses!Torn /\ got' > got]_(Poses!vars)
<1> SUFFICES ASSUME PoseInv, [MCNext]_allVars
             PROVE  /\ PoseInv'
                    /\ \/ overlay' # "down" /\ got' # got => got' # Poses!Torn /\ got' > got
                       \/ UNCHANGED Poses!vars
  OBVIOUS
<1>1. CASE UNCHANGED poseVars
  <2>1. PoseInv'
    BY <1>1 DEF poseVars, PoseInv, PoseTypes, RingInv, PassInv, GotInv, PoseAt, Poses!Torn,
                Poses!Half, Poses!Slot
  <2> QED BY <1>1, <2>1 DEF poseVars
<1>2. CASE Poses!DriverStarts \/ Poses!SetPoseBegins \/ Poses!SetPoseEnds
  <2>1. got' = got BY <1>2 DEF Poses!DriverStarts, Poses!SetPoseBegins, Poses!SetPoseEnds
  <2> QED BY <1>2, <2>1, PoseDriverStarts, PoseSetBegins, PoseSetEnds
<1>3. CASE Poses!Next
  BY <1>2, <1>3, PoseDelivers, PoseOtherStep DEF Poses!Next
<1> QED BY <1>1, <1>3 DEF MCNext, allVars

\* What the overlay gets of the pose ring are whole poses in the order they were
\* written, for every ring of four slots or more: a driver that dies within SetPose,
\* a new segment under an old cursor and a reader that is lapped included.
THEOREM PosesInOrderCorrect == MCSpec => PosesInOrder
<1>1. MCInit => PoseInv BY InitPoses DEF MCInit
<1> QED BY <1>1, NextPoses, PTL DEF MCSpec, PosesInOrder, Poses!PosesInOrder
=============================================================================
