---------------------------- MODULE MCHcicsTrack ----------------------------
(* Instances of HcicsTrack for TLC.                                         *)
EXTENDS HcicsTrack, TLC
=============================================================================
