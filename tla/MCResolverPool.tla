--------------------------- MODULE MCResolverPool ---------------------------
(* Small instances of ResolverPool for TLC. *)
EXTENDS ResolverPool

\* Two concurrent calls for one name, and one for a name hickory rejects.
Calls  == {"q1", "q2", "q3"}
Wanted == [q \in Calls |-> IF q = "q3" THEN "bad" ELSE "n"]
=============================================================================
