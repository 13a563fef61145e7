----------------------------- MODULE MCMailbox -----------------------------
(* Small instances of Mailbox for TLC. *)
EXTENDS Mailbox

\* Two correspondents of different usernames, both publishing in our zone.
Pair         == {"alice", "stranger"}
PairUser     == [s \in Pair |-> s]
PairZone     == [s \in Pair |-> "own"]
TwoMsgs      == {"m1", "m2"}
PairSender   == [m \in TwoMsgs |-> IF m = "m1" THEN "alice" ELSE "stranger"]
TwoSlots     == [m \in TwoMsgs |-> 0]
Alice(z)     == [user |-> "alice", spk |-> "alice", domain |-> z]
PinnedOrNone == {{Alice("own")}, {}}

\* One message of a stranger who lives in another zone than ours; the one
\* contact lives there too, so both zones are walked.  An old row has no domain.
OneMsg       == {"m1"}
FarZone      == [s \in Pair |-> "far"]
FromStranger == [m \in OneMsg |-> "stranger"]
OneSlot      == [m \in OneMsg |-> 0]
AliceFar     == {{Alice("far"), [user |-> "old", spk |-> "alice", domain |-> ""]}}
FarUsers     == {"alice", "stranger", "old"}

\* A contact with two keys: alice may rotate to alice2.
Keys         == {"alice", "alice2"}
KeysUsers    == {"alice", "old"}
KeysUser     == [s \in Keys |-> "alice"]
KeysFar      == [s \in Keys |-> "far"]
FromAlice2   == [m \in OneMsg |-> "alice2"]
=============================================================================
