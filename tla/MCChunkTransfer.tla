-------------------------- MODULE MCChunkTransfer --------------------------
(***************************************************************************)
(* Instances of ChunkTransfer.  With blocks of two bytes and a prefix of   *)
(* one, payloads of 1, 2, 5 and 6 bytes need 1 to 4 data shares and have   *)
(* 1, 1, 1 and 2 parity shares; one of 8 bytes exceeds MAX_M = 6.          *)
(***************************************************************************)
EXTENDS ChunkTransfer

Addr(u, h, f) == [user |-> u, host |-> h, form |-> f]

MCSender == Addr("alice", "mesh", "spelled")

MCDirectory ==
    [uh \in {"alice", "bob"} \X {"mesh"} |->
        IF uh[1] = "alice" THEN {[username |-> "alice", spk |-> "A"]}
        ELSE {[username |-> "bob", spk |-> "B"], [username |-> "alice", spk |-> "A"]}]

MCProfiles ==
    { <<>>,
      <<[spk |-> "X", versions |-> {1, 2}], [spk |-> "R", versions |-> {}]>>,
      <<[spk |-> "R", versions |-> {1, 2}], [spk |-> "R", versions |-> {1}]>> }

\* Bodies that start like an envelope, in front of a one-share payload.
MCBodies ==
    { <<>>,
      <<[shape |-> "garbled", from |-> None]>>,
      <<[shape |-> "object", from |-> None]>>,
      <<Header(Addr("bob", "mesh", "canonical"))>>,
      <<Header(Addr("alice", "mesh", "canonical"))>>,
      <<Header(Addr("alice", "mesh", "illegal"))>>,
      <<Header(Addr("alice", "mesh", "long"))>> }

MCMessages ==
    {[body |-> b, payload |-> <<200>>] : b \in MCBodies}
    \cup {[body |-> <<>>, payload |-> p] :
            p \in {<<0, 255>>, <<1, 2, 4, 8, 16>>, <<9, 200, 3, 77, 5, 250>>,
                   <<1, 1, 1, 1, 1, 1, 1, 1>>}}

MCAlien == <<3, 250>>
=============================================================================
