---------------------------- MODULE MCWedgeDetector ----------------------------
(* WedgeDetector on small instances. *)
EXTENDS WedgeDetector, TLC

\* No host of an earlier session is running when the driver starts.
FreshInit == WInit /\ proc = [h \in Hosts |-> "none"]
FreshFairSpec == FreshInit /\ [][WNext]_wvars /\ WFairness
=============================================================================
