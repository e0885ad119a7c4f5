----------------------------- MODULE FrameRegister -----------------------------
(***************************************************************************)
(* What the face-frame ring promises the driver's worker: a read returns   *)
(* one whole frame that had been published, and none older than the newest *)
(* one announced when the read began. Frames are numbered by publication.  *)
(* A later read may return an older frame than an earlier one did: a frame *)
(* can be taken before it is announced.                                    *)
(***************************************************************************)
EXTENDS Naturals

VARIABLES published,     \* the newest complete frame
          announced,     \* publish_index
          requested,     \* the announced frame when the current read began
          delivered      \* the frame the last read returned

vars == <<published, announced, requested, delivered>>

Init == published = 0 /\ announced = 0 /\ requested = 0 /\ delivered = 0

Publish ==
  /\ published' = published + 1
  /\ UNCHANGED <<announced, requested, delivered>>

Announce ==
  /\ announced' = published
  /\ UNCHANGED <<published, requested, delivered>>

Request ==
  /\ requested' = announced
  /\ UNCHANGED <<published, announced, delivered>>

Deliver ==
  /\ delivered' \in requested .. published
  /\ UNCHANGED <<published, announced, requested>>

Next == Publish \/ Announce \/ Request \/ Deliver

Spec == Init /\ [][Next]_vars
=============================================================================
