---------------------------- MODULE MCProfileSync ----------------------------
(* ProfileSync started in the usual way: a profile that fits the HMD, no      *)
(* additional calibration, and perhaps a tracker.                             *)
EXTENDS ProfileSync

UsualInit ==
  /\ Init
  /\ valid /\ tgt # None /\ tgt # Ref /\ offset # Zero
  /\ \A s \in Systems : extras[s] = None
  /\ dev[Hmd] = <<Ref, CHOOSE c \in Copies : TRUE>>

UsualSpec == UsualInit /\ [][Next]_vars /\ WF_vars(Scan)
=============================================================================
