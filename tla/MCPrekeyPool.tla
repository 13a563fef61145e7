---------------------------- MODULE MCPrekeyPool ----------------------------
(* Small instances of PrekeyPool for TLC. *)
EXTENDS PrekeyPool, TLC

\* Key pairs and messages are interchangeable.
Symmetry == Permutations(Keys) \cup Permutations(Msgs)
=============================================================================
