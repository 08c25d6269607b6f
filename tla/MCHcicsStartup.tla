--------------------------- MODULE MCHcicsStartup ---------------------------
(* Instances of HcicsStartup for TLC. *)
EXTENDS HcicsStartup
=============================================================================
