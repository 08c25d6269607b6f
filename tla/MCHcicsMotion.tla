--------------------------- MODULE MCHcicsMotion ---------------------------
(* Instances of HcicsMotion for TLC.                                        *)
EXTENDS HcicsMotion

BothWheels == {"left", "right"}

\* A slow bend and a turn on the spot beyond the limit.
MCRequests ==
  {[w \in BothWheels |-> 1],
   [w \in BothWheels |-> IF w = "left" THEN -5 ELSE 5]}
=============================================================================
