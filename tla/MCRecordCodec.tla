---------------------------- MODULE MCRecordCodec ----------------------------
(* Small bodies for model checking RecordCodec. *)
EXTENDS RecordCodec

MCBodyLens == (0 .. 130) \cup {200, 420}
==============================================================================
