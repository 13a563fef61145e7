-------------------------- MODULE MCRotationChain --------------------------
(* Small instances of RotationChain for TLC. *)
EXTENDS RotationChain, TLC

\* Every key but the first is interchangeable.
Symmetry == Permutations(Keys \ {FirstKey})

\* Rotations of different lifetimes are explored for a user who revokes
\* nothing, the one HeadNotStale and Transparent are about; next to a
\* revocation every rotation lives for one second.
OneLifetimeIfRevoked == revs # {} => \A r \in rots : r.exp = r.seq + 1

\* No action and no state property reads ids or verdict, and the action
\* properties read the new verdict only, so that states that differ in nothing
\* else need not be told apart.
View == <<now, rots, revs, job, line, orderly, pc, mode, pinned, gotRots, gotRevs,
          missed, known, tips>>
=============================================================================
