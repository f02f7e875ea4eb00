------------------------------ MODULE MCEventBus ------------------------------
(* EventBus with a handful of changes.  Changes of the same user are       *)
(* interchangeable.                                                        *)
EXTENDS EventBus, TLC

Symmetry == Permutations(Change \ Foreign)
=============================================================================
