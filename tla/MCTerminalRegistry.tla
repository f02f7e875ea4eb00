-------------------------- MODULE MCTerminalRegistry --------------------------
(* TerminalRegistry with a few terminals, tabs and reconnects, whose ids   *)
(* are interchangeable.                                                    *)
EXTENDS TerminalRegistry, TLC

Symmetry == Permutations(Conn) \cup Permutations(Terminal) \cup Permutations(Tab)
=============================================================================
