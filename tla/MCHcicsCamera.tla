--------------------------- MODULE MCHcicsCamera ---------------------------
(* Instances of HcicsCamera for TLC. *)
EXTENDS HcicsCamera
=============================================================================
