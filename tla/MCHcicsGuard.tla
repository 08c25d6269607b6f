---------------------------- MODULE MCHcicsGuard ----------------------------
(* Instances of HcicsGuard for TLC. *)
EXTENDS HcicsGuard
=============================================================================
