----------------------------- MODULE MCHcicsApp -----------------------------
(* Instances of HcicsApp for TLC.                                           *)
EXTENDS HcicsApp, TLC

CONSTANTS f1, f2, p1, p2

MCFaults == {f1, f2}
MCPeers == {p1, p2}

\* One of each for liveness, where symmetry is not used.
MCOneFault == {f1}
MCOnePeer == {p1}

\* Faults and peers are only copied and compared.
Symmetry == Permutations(MCFaults) \cup Permutations(MCPeers)
=============================================================================
