------------------------------ MODULE MCRelay ------------------------------
(* The relay on small instances.  Sockets, envelopes and devices play the  *)
(* same role each, so the runs without liveness use their symmetry.        *)
EXTENDS Relay, TLC

Symmetry == Permutations(Sockets) \cup Permutations(Envelopes)

SymmetryOfDevices == Symmetry \cup Permutations(DeviceIds)
=============================================================================
