------------------------------ MODULE MCInbox ------------------------------
(* Two messages, one of them in the polled zone, of one sender or of two, a  *)
(* provider zone and two terminals; a third sender has no message, so that   *)
(* there can be a contact while both messages are quarantined.               *)
EXTENDS Inbox

CONSTANTS m1, m2, s1, s2, s3

\* The third sender has the username of the first.
MCUsername == [s \in {s1, s2, s3} |-> IF s = s2 THEN "bob" ELSE "alice"]

MCAuthors == {[m \in {m1, m2} |-> IF m = m1 THEN s1 ELSE s] : s \in {s1, s2}}
=============================================================================
