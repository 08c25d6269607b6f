--------------------------- MODULE MCHcicsStuck ----------------------------
(* Instance of HcicsStuck for TLC.                                          *)
EXTENDS HcicsStuck
=============================================================================
