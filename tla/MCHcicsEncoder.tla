--------------------------- MODULE MCHcicsEncoder ---------------------------
(* Instances of HcicsEncoder for TLC. *)
EXTENDS HcicsEncoder
=============================================================================
