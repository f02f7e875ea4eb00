---------------------------- MODULE MCMachineLink ----------------------------
(* MachineLink with a few reconnects and sockets; the ids of connections   *)
(* and of sockets are interchangeable.                                     *)
EXTENDS MachineLink, TLC

Symmetry == Permutations(Conn) \cup Permutations(Sock)
=============================================================================
