----------------------------- MODULE HcicsLatch -----------------------------
(***************************************************************************)
(* The part of g_motion (hcics_motion.c) that the threads of HcicsMotion    *)
(* and the stall timers of HcicsStuck have in common.                       *)
(***************************************************************************)

VARIABLE
  emergency_stop  \* g_motion.emergency_stop, for whatever reason
=============================================================================
