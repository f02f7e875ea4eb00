--------------------------- MODULE MCControlLeases ---------------------------
(* ControlLeases on a few devices and machines.  Devices and machines are  *)
(* interchangeable, so the safety run identifies states up to renaming.    *)
EXTENDS ControlLeases, TLC

Symmetry == Permutations(Device) \cup Permutations(Machine)
=============================================================================
