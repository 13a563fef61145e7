------------------------------ MODULE Postbox ------------------------------
(***************************************************************************)
(* What the mailbox promises for every message, without DNS, calls, rows   *)
(* or keys: a message is offered with a due time, taken by the client, and *)
(* settled, that is given to the user or dropped.  Until its due time a    *)
(* message that was taken is never taken again: no message is given twice, *)
(* and none comes back after the user rejected it.                         *)
(***************************************************************************)
EXTENDS Naturals

CONSTANTS Msgs, Ttl

VARIABLES
  clock,
  due,      \* [Msgs -> Nat], 0 for a message not offered yet
  status    \* [Msgs -> Statuses]

Outcomes == {"given", "lost", "rejected", "blocked"}
Statuses == {"none", "taken"} \cup Outcomes

Init ==
  /\ clock = 0
  /\ due = [m \in Msgs |-> 0]
  /\ status = [m \in Msgs |-> "none"]

Tick == clock' = clock + 1 /\ UNCHANGED <<due, status>>

Offer(m) ==
  /\ due[m] = 0 /\ status[m] = "none"
  /\ due' = [due EXCEPT ![m] = clock + Ttl]
  /\ UNCHANGED <<clock, status>>

Take(m) ==
  /\ due[m] > 0
  /\ status[m] = "none" \/ clock >= due[m]
  /\ status' = [status EXCEPT ![m] = "taken"]
  /\ UNCHANGED <<clock, due>>

\* A call returns, is aborted or a review command runs: the messages it had
\* are settled, all in the same way.
Settle ==
  \E S \in SUBSET Msgs, o \in Outcomes :
    /\ \A m \in S : status[m] = "taken"
    /\ status' = [m \in Msgs |-> IF m \in S THEN o ELSE status[m]]
    /\ UNCHANGED <<clock, due>>

Next == Tick \/ Settle \/ \E m \in Msgs : Offer(m) \/ Take(m)

Spec == Init /\ [][Next]_<<clock, due, status>>
=============================================================================
