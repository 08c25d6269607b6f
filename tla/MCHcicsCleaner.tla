--------------------------- MODULE MCHcicsCleaner ---------------------------
(* Instances of HcicsCleaner for TLC.                                       *)
EXTENDS HcicsCleaner, TLC
=============================================================================
