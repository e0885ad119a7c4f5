------------------------------- MODULE SendQueue -------------------------------
(***************************************************************************)
(* What the OSC router's send queue promises its publishers: a bounded     *)
(* first-in first-out queue. An entry is accepted whole while there is     *)
(* room, refused entries leave no trace, and the send worker is handed the *)
(* accepted entries one by one in the order they were accepted.            *)
(***************************************************************************)
EXTENDS Naturals, Sequences

CONSTANTS Capacity,      \* kSendQueueCapacity
          Packets        \* everything that can be queued

VARIABLES fifo,          \* the accepted entries still to be sent
          out            \* the entry the send worker took last

vars == <<fifo, out>>

Init == fifo = <<>> /\ out \in Packets

Put ==
  /\ Len(fifo) < Capacity
  /\ fifo' # <<>> /\ fifo'[Len(fifo')] \in Packets
  /\ fifo' = Append(fifo, fifo'[Len(fifo')])
  /\ UNCHANGED out

Take ==
  /\ fifo # <<>>
  /\ out' = Head(fifo)
  /\ fifo' = Tail(fifo)

Next == Put \/ Take

Spec == Init /\ [][Next]_vars
=============================================================================
