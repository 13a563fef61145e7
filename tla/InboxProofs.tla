---------------------------- MODULE InboxProofs ----------------------------
(***************************************************************************)
(* Theorems about Inbox for any number of messages, senders, zones,        *)
(* terminals and faults.                                                   *)
(***************************************************************************)
EXTENDS Inbox, TLAPS

\* Between two passes nothing is under way.
LEMMA QuietOK ==
  /\ Quiet \in Polls /\ Quiet.pc = "idle" /\ Quiet.cur = {} /\ Quiet.hand = <<>>
  /\ Quiet.deny = {}
BY DEF Quiet, Polls, Pcs

\* The parts of the poll have their types.
LEMMA PollFields ==
  ASSUME TypeOK
  PROVE  /\ poll.pc \in Pcs /\ poll.zone \in Providers \cup {Own} /\ poll.todo \subseteq Providers
         /\ poll.listed \subseteq Senders /\ poll.left \subseteq Msgs /\ poll.cur \subseteq Msgs
         /\ poll.hand \in Seq(Msgs) /\ poll.deny \subseteq Senders
BY DEF TypeOK, Polls

\* Removing a row leaves the others as they are.
LEMMA RemoveOK ==
  ASSUME TypeOK, NEW i, Remove(i)
  PROVE  /\ DOMAIN queue' = DOMAIN queue \ {i}
         /\ \A j \in DOMAIN queue' : queue'[j] = queue[j]
         /\ queue' \in [DOMAIN queue' -> Msgs]
BY DEF TypeOK, Remove

\* Showing a queued message counts it.
LEMMA SurfaceOK ==
  ASSUME TypeOK, NEW i \in DOMAIN queue, Surface(i)
  PROVE  /\ queue[i] \in Msgs /\ surfaced' \in [Msgs -> Nat]
         /\ surfaced'[queue[i]] = surfaced[queue[i]] + 1
         /\ \A m \in Msgs : m # queue[i] => surfaced'[m] = surfaced[m]
BY DEF TypeOK, Surface

\* A terminal goes on to the next step of its command, or is done.
LEMMA RunOK ==
  ASSUME TypeOK, NEW t \in Terminals, NEW pc \in {"trust", "take", "block", "reject"},
         NEW i \in 1..lastId, NEW k \in Senders, Run(t, pc, i, k)
  PROVE  /\ term' \in [Terminals -> Commands \cup {Idle}]
         /\ term'[t] # Idle /\ term'[t].pc = pc /\ term'[t].id = i /\ term'[t].key = k
         /\ \A u \in Terminals : u # t => term'[u] = term[u]
<1>1. [pc |-> pc, id |-> i, key |-> k] \in Commands
  BY DEF TypeOK, Commands
<1>2. [pc |-> pc, id |-> i, key |-> k] # Idle
  <2>1. [pc |-> pc, id |-> i, key |-> k].pc # Idle.pc
    BY DEF Idle
  <2> QED BY <2>1
<1> QED BY <1>1, <1>2 DEF TypeOK, Run

LEMMA DoneOK ==
  ASSUME TypeOK, NEW t \in Terminals, Done(t)
  PROVE  /\ term' \in [Terminals -> Commands \cup {Idle}]
         /\ term'[t] = Idle
         /\ \A u \in Terminals : u # t => term'[u] = term[u]
BY DEF TypeOK, Done

\* A terminal in the middle of a command knows an id and a key.
LEMMA TermOK ==
  ASSUME TypeOK, NEW t \in Terminals, term[t].pc \in {"trust", "take", "block", "reject"}
  PROVE  term[t] # Idle /\ term[t].id \in 1..lastId /\ term[t].key \in Senders
BY DEF TypeOK, Commands, Idle

\* Faults are counted up to the bound.
LEMMA FaultOK ==
  ASSUME TypeOK, Fault \/ UNCHANGED faults
  PROVE  faults' \in 0..MaxFaults
BY InboxAssumption DEF Fault, TypeOK

\* A new row is one that was not there.
LEMMA EnqueueOK ==
  ASSUME TypeOK, Enqueue
  PROVE  \E m \in poll.cur :
           \/ (\E i \in DOMAIN queue : queue[i] = m) /\ UNCHANGED <<queue, lastId>>
           \/ /\ ~(\E i \in DOMAIN queue : queue[i] = m)
              /\ lastId' = lastId + 1 /\ lastId' \notin DOMAIN queue
              /\ DOMAIN queue' = DOMAIN queue \cup {lastId'}
              /\ queue'[lastId'] = m /\ \A i \in DOMAIN queue : queue'[i] = queue[i]
              /\ queue' \in [DOMAIN queue' -> Msgs]
<1>1. PICK m \in poll.cur :
         IF \E i \in DOMAIN queue : queue[i] = m
         THEN UNCHANGED <<queue, lastId>>
         ELSE /\ queue' = [i \in DOMAIN queue \cup {NewId} |-> IF i = NewId THEN m ELSE queue[i]]
              /\ lastId' = NewId
  BY DEF Enqueue
<1>2. NewId = lastId + 1 /\ NewId \notin DOMAIN queue /\ m \in Msgs
  BY PollFields DEF TypeOK, NewId
<1>3. CASE \E i \in DOMAIN queue : queue[i] = m
  BY <1>1, <1>3
<1>4. CASE ~\E i \in DOMAIN queue : queue[i] = m
  <2>1. queue' = [i \in DOMAIN queue \cup {NewId} |-> IF i = NewId THEN m ELSE queue[i]]
    BY <1>1, <1>4
  <2>2. lastId' = NewId
    BY <1>1, <1>4
  <2> QED BY <1>2, <1>4, <2>1, <2>2 DEF TypeOK
<1> QED BY <1>3, <1>4

\* Every step keeps the types.
LEMMA TypeStep ==
  ASSUME TypeOK, [Next]_vars
  PROVE  TypeOK'
<1> USE InboxAssumption DEF TypeOK
<1>1. CASE UNCHANGED vars
  BY <1>1 DEF vars, sending, stores
<1>2. CASE StartPoll
  BY <1>2 DEF StartPoll, Sweep, Polls, Pcs, sending, stores
<1>3. CASE NextZone
  <2>1. PICK z \in poll.todo : Sweep(z, poll.todo \ {z})
    BY <1>3 DEF NextZone
  <2>2. poll' \in Polls /\ poll'.pc = "sweep" /\ poll'.cur = {}
    BY <1>3, <2>1, PollFields DEF NextZone, Sweep, Polls, Pcs
  <2> QED BY <1>3, <2>2 DEF NextZone, sending, stores
<1>4. CASE Settle
  <2>1. PICK m \in poll.cur :
           \/ poll' = [poll EXCEPT !.pc = "sweep", !.cur = {}, !.hand = Append(poll.hand, m)]
           \/ poll' = [poll EXCEPT !.pc = "sweep", !.cur = {}]
           \/ poll' = [poll EXCEPT !.pc = "insert", !.deny = denylist]
    BY <1>4 DEF Settle
  <2>2. Append(poll.hand, m) \in Seq(Msgs)
    BY PollFields
  <2>3. poll' \in Polls /\ ((poll'.pc \in {"settle", "insert"}) <=> (poll'.cur # {}))
    <3>1. CASE poll' = [poll EXCEPT !.pc = "sweep", !.cur = {}, !.hand = Append(poll.hand, m)]
      BY <2>2, <3>1 DEF Polls, Pcs
    <3>2. CASE poll' = [poll EXCEPT !.pc = "sweep", !.cur = {}]
      BY <3>2 DEF Polls, Pcs
    <3>3. CASE poll' = [poll EXCEPT !.pc = "insert", !.deny = denylist]
      BY <3>3 DEF Polls, Pcs
    <3> QED BY <2>1, <3>1, <3>2, <3>3
  <2> QED BY <1>4, <2>3 DEF Settle, sending, stores
<1>5. CASE Enqueue
  <2>1. lastId' \in Nat /\ lastId <= lastId'
    BY <1>5, EnqueueOK
  <2>2. DOMAIN queue' \subseteq 1..lastId' /\ queue' \in [DOMAIN queue' -> Msgs]
    BY <1>5, EnqueueOK
  <2>3. poll' \in Polls /\ poll'.pc = "sweep" /\ poll'.cur = {}
    BY <1>5 DEF Enqueue, Polls, Pcs
  <2>4. \A u \in Terminals : term'[u] # Idle => term'[u].id \in 1..lastId'
    BY <1>5, <2>1 DEF Enqueue
  <2> QED BY <1>5, <2>1, <2>2, <2>3, <2>4 DEF Enqueue, sending
<1>6. CASE QueryFails
  BY <1>6, QuietOK, FaultOK DEF QueryFails, sending, stores
<1>7. CASE Deliver
  <2>1. Head(poll.hand) \in Msgs /\ Tail(poll.hand) \in Seq(Msgs)
    BY <1>7, PollFields DEF Deliver
  <2>2. surfaced' \in [Msgs -> Nat]
    <3>1. CASE Stored(Head(poll.hand))
      BY <2>1, <3>1 DEF Stored
    <3> QED BY <1>7, <3>1 DEF Deliver
  <2>3. poll' \in Polls /\ ((poll'.pc \in {"settle", "insert"}) <=> (poll'.cur # {}))
    BY <1>7, <2>1, QuietOK DEF Deliver, Polls
  <2> QED BY <1>7, <2>2, <2>3, FaultOK DEF Deliver, sending, stores
<1>8. CASE EndPoll
  BY <1>8, QuietOK DEF EndPoll, sending, stores
<1>9. ASSUME NEW m \in Msgs, PassOver(m) PROVE TypeOK'
  <2>1. poll' \in Polls /\ poll'.pc = poll.pc /\ poll'.cur = poll.cur
    BY <1>9 DEF PassOver, Polls
  <2> QED BY <1>9, <2>1, FaultOK DEF PassOver, sending, stores
<1>10. ASSUME NEW m \in Msgs, Take(m) PROVE TypeOK'
  <2>1. poll' \in Polls /\ poll'.pc = "settle" /\ poll'.cur = {m}
    BY <1>10 DEF Take, Polls, Pcs
  <2> QED BY <1>10, <2>1 DEF Take, sending
<1>11. ASSUME NEW m \in Msgs, SendMessage(m) PROVE TypeOK'
  BY <1>11 DEF SendMessage, stores
<1>12. ASSUME NEW m \in Msgs, Expire(m) PROVE TypeOK'
  BY <1>12 DEF Expire, sending
<1>13. ASSUME NEW m \in Msgs, NEW z \in Providers, PublishClaim(m, z) PROVE TypeOK'
  <2>1. claims' \subseteq Msgs \X Providers
    BY <1>13 DEF PublishClaim, Claimed
  <2>2. receipt' \in [Msgs -> [todo : SUBSET Providers, failed : SUBSET Providers]]
    BY <1>13 DEF PublishClaim
  <2> QED BY <1>13, <2>1, <2>2, FaultOK DEF PublishClaim, stores
<1>14. ASSUME NEW t \in Terminals, Accept(t) PROVE TypeOK'
  <2>1. PICK i \in DOMAIN queue : Remove(i) /\ Surface(i)
    BY <1>14 DEF Accept
  <2> QED BY <1>14, <2>1, RemoveOK, SurfaceOK DEF Accept, sending
<1>15. ASSUME NEW t \in Terminals, PinSender(t) PROVE TypeOK'
  <2>1. contacts' \subseteq Senders
    BY <1>15, TermOK DEF PinSender, Pinned
  <2>2. /\ term' \in [Terminals -> Commands \cup {Idle}]
        /\ \A u \in Terminals : term'[u] # Idle => term'[u].id \in 1..lastId
    BY <1>15, TermOK, RunOK, DoneOK DEF PinSender
  <2> QED BY <1>15, <2>1, <2>2 DEF PinSender, sending
<1>16. ASSUME NEW t \in Terminals, TakeTrusted(t) PROVE TypeOK'
  <2>1. /\ term' \in [Terminals -> Commands \cup {Idle}]
        /\ \A u \in Terminals : term'[u] # Idle => term'[u].id \in 1..lastId
    BY <1>16, DoneOK DEF TakeTrusted
  <2>2. CASE term[t].id \in DOMAIN queue
    BY <1>16, <2>1, <2>2, RemoveOK, SurfaceOK DEF TakeTrusted, sending
  <2>3. CASE term[t].id \notin DOMAIN queue
    BY <1>16, <2>1, <2>3 DEF TakeTrusted, sending
  <2> QED BY <2>2, <2>3
<1>17. ASSUME NEW t \in Terminals, BlockSender(t) PROVE TypeOK'
  <2>1. denylist' \subseteq Senders
    BY <1>17, TermOK DEF BlockSender
  <2>2. /\ term' \in [Terminals -> Commands \cup {Idle}]
        /\ \A u \in Terminals : term'[u] # Idle => term'[u].id \in 1..lastId
    BY <1>17, TermOK, RunOK DEF BlockSender
  <2> QED BY <1>17, <2>1, <2>2 DEF BlockSender, sending
<1>18. ASSUME NEW t \in Terminals, Reject(t) PROVE TypeOK'
  <2>1. /\ term' \in [Terminals -> Commands \cup {Idle}]
        /\ \A u \in Terminals : term'[u] # Idle => term'[u].id \in 1..lastId
    BY <1>18, DoneOK DEF Reject
  <2> QED BY <1>18, <2>1, RemoveOK DEF Reject, sending
<1>19. ASSUME NEW t \in Terminals, NEW pc \in {"trust", "block"}, GetIntro(t, pc) PROVE TypeOK'
  <2>1. PICK i \in DOMAIN queue : Run(t, pc, i, from[queue[i]])
    BY <1>19 DEF GetIntro
  <2>2. i \in 1..lastId /\ from[queue[i]] \in Senders /\ pc \in {"trust", "take", "block", "reject"}
    OBVIOUS
  <2>3. /\ term' \in [Terminals -> Commands \cup {Idle}]
        /\ \A u \in Terminals : term'[u] # Idle => term'[u].id \in 1..lastId
    BY <2>1, <2>2, RunOK
  <2> QED BY <1>19, <2>3 DEF GetIntro, sending, stores
<1>20. ASSUME NEW t \in Terminals, NEW k \in Senders, AddContact(t, k) PROVE TypeOK'
  BY <1>20 DEF AddContact, Pinned, sending
<1> QED BY <1>1, <1>2, <1>3, <1>4, <1>5, <1>6, <1>7, <1>8, <1>9, <1>10, <1>11, <1>12,
           <1>13, <1>14, <1>15, <1>16, <1>17, <1>18, <1>19, <1>20 DEF Next, Polling, Command

-----------------------------------------------------------------------------
\* A command acts for the key of the row it read, and comes to reject() only
\* with that key blocked.
CommandOK ==
    \A t \in Terminals :
        term[t] # Idle =>
            /\ term[t].id \in DOMAIN queue => from[queue[term[t].id]] = term[t].key
            /\ term[t].pc = "reject" => term[t].key \in denylist

\* No row comes to stand under an id that was read before.
LEMMA CommandStep ==
  ASSUME TypeOK, CommandOK, [Next]_vars
  PROVE  CommandOK'
<1> USE DEF CommandOK
<1>1. CASE UNCHANGED vars
  BY <1>1 DEF vars, sending, stores
<1>2. CASE StartPoll
  BY <1>2 DEF StartPoll, sending, stores
<1>3. CASE NextZone
  BY <1>3 DEF NextZone, sending, stores
<1>4. CASE Settle
  BY <1>4 DEF Settle, sending, stores
<1>5. CASE Enqueue
  <2>1. \A i \in DOMAIN queue' : i \in 1..lastId => i \in DOMAIN queue /\ queue'[i] = queue[i]
    BY <1>5, EnqueueOK DEF TypeOK
  <2>2. \A t \in Terminals : term[t] # Idle => term[t].id \in 1..lastId
    BY DEF TypeOK
  <2> QED BY <1>5, <2>1, <2>2 DEF Enqueue, sending
<1>6. CASE QueryFails
  BY <1>6 DEF QueryFails, sending, stores
<1>7. CASE Deliver
  BY <1>7 DEF Deliver, sending, stores
<1>8. CASE EndPoll
  BY <1>8 DEF EndPoll, sending, stores
<1>9. ASSUME NEW m \in Msgs, PassOver(m) PROVE CommandOK'
  BY <1>9 DEF PassOver, sending, stores
<1>10. ASSUME NEW m \in Msgs, Take(m) PROVE CommandOK'
  BY <1>10 DEF Take, sending, stores
<1>11. ASSUME NEW m \in Msgs, SendMessage(m) PROVE CommandOK'
  BY <1>11 DEF SendMessage, sending, stores
<1>12. ASSUME NEW m \in Msgs, Expire(m) PROVE CommandOK'
  BY <1>12 DEF Expire, sending, stores
<1>13. ASSUME NEW m \in Msgs, NEW z \in Providers, PublishClaim(m, z) PROVE CommandOK'
  BY <1>13 DEF PublishClaim, sending, stores
<1>14. ASSUME NEW t \in Terminals, Accept(t) PROVE CommandOK'
  <2>1. PICK i \in DOMAIN queue : Remove(i)
    BY <1>14 DEF Accept
  <2> QED BY <1>14, <2>1, RemoveOK DEF Accept, sending
<1>15. ASSUME NEW t \in Terminals, PinSender(t) PROVE CommandOK'
  <2>1. CASE Run(t, "take", term[t].id, term[t].key)
    BY <1>15, <2>1, TermOK, RunOK DEF PinSender, sending
  <2>2. CASE Done(t)
    BY <1>15, <2>2, DoneOK DEF PinSender, sending
  <2> QED BY <1>15, <2>1, <2>2 DEF PinSender
<1>16. ASSUME NEW t \in Terminals, TakeTrusted(t) PROVE CommandOK'
  <2>1. \A i \in DOMAIN queue' : i \in DOMAIN queue /\ queue'[i] = queue[i]
    BY <1>16, RemoveOK DEF TakeTrusted
  <2> QED BY <1>16, <2>1, DoneOK DEF TakeTrusted, sending
<1>17. ASSUME NEW t \in Terminals, BlockSender(t) PROVE CommandOK'
  <2>1. /\ term'[t].id = term[t].id /\ term'[t].key = term[t].key
        /\ term[t] # Idle /\ \A u \in Terminals : u # t => term'[u] = term[u]
    BY <1>17, TermOK, RunOK DEF BlockSender
  <2> QED BY <1>17, <2>1 DEF BlockSender, sending
<1>18. ASSUME NEW t \in Terminals, Reject(t) PROVE CommandOK'
  <2>1. \A i \in DOMAIN queue' : i \in DOMAIN queue /\ queue'[i] = queue[i]
    BY <1>18, RemoveOK DEF Reject
  <2> QED BY <1>18, <2>1, DoneOK DEF Reject, sending
<1>19. ASSUME NEW t \in Terminals, NEW pc \in {"trust", "block"}, GetIntro(t, pc) PROVE CommandOK'
  <2>1. PICK i \in DOMAIN queue : Run(t, pc, i, from[queue[i]])
    BY <1>19 DEF GetIntro
  <2>2. i \in 1..lastId /\ from[queue[i]] \in Senders /\ pc \in {"trust", "take", "block", "reject"}
    BY DEF TypeOK
  <2>3. /\ term'[t].id = i /\ term'[t].key = from[queue[i]] /\ term'[t].pc # "reject"
        /\ \A u \in Terminals : u # t => term'[u] = term[u]
    BY <2>1, <2>2, RunOK
  <2> QED BY <1>19, <2>3 DEF GetIntro, sending, stores
<1>20. ASSUME NEW t \in Terminals, NEW k \in Senders, AddContact(t, k) PROVE CommandOK'
  BY <1>20 DEF AddContact, sending, stores
<1> QED BY <1>1, <1>2, <1>3, <1>4, <1>5, <1>6, <1>7, <1>8, <1>9, <1>10, <1>11, <1>12,
           <1>13, <1>14, <1>15, <1>16, <1>17, <1>18, <1>19, <1>20 DEF Next, Polling, Command

\* One message is settled at a time.
OneAtATime == \A a, b \in poll.cur : a = b

\* What enqueue() is about to insert was not blocked when it looked.
DenyOK == poll.pc = "insert" => \A m \in poll.cur : from[m] \notin poll.deny

\* enqueue() inserts what it has checked.
LEMMA DenyStep ==
  ASSUME TypeOK, OneAtATime, DenyOK, [Next]_vars
  PROVE  DenyOK'
<1> USE DEF DenyOK
<1>1. CASE UNCHANGED vars
  BY <1>1 DEF vars, sending, stores
<1>2. CASE StartPoll
  BY <1>2 DEF StartPoll, Sweep, TypeOK, Polls
<1>3. CASE NextZone
  BY <1>3 DEF NextZone, Sweep, TypeOK, Polls
<1>4. CASE Settle
  <2>1. PICK m \in poll.cur :
           \/ poll' = [poll EXCEPT !.pc = "sweep", !.cur = {}, !.hand = Append(poll.hand, m)]
           \/ poll' = [poll EXCEPT !.pc = "sweep", !.cur = {}]
           \/ poll' = [poll EXCEPT !.pc = "insert", !.deny = denylist] /\ from[m] \notin denylist
    BY <1>4 DEF Settle, Denied
  <2>2. CASE poll' = [poll EXCEPT !.pc = "insert", !.deny = denylist] /\ from[m] \notin denylist
    BY <1>4, <2>2 DEF Settle, sending, TypeOK, Polls, OneAtATime
  <2>3. CASE poll'.pc = "sweep"
    BY <2>3
  <2> QED BY <2>1, <2>2, <2>3 DEF TypeOK, Polls
<1>5. CASE Enqueue
  BY <1>5 DEF Enqueue, TypeOK, Polls
<1>6. CASE QueryFails
  BY <1>6, QuietOK DEF QueryFails
<1>7. CASE Deliver
  <2>1. poll'.pc # "insert"
    BY <1>7, QuietOK DEF Deliver, TypeOK, Polls
  <2> QED BY <2>1
<1>8. CASE EndPoll
  BY <1>8, QuietOK DEF EndPoll
<1>9. ASSUME NEW m \in Msgs, PassOver(m) PROVE DenyOK'
  BY <1>9 DEF PassOver, TypeOK, Polls
<1>10. ASSUME NEW m \in Msgs, Take(m) PROVE DenyOK'
  BY <1>10 DEF Take, TypeOK, Polls
<1>11. ASSUME NEW m \in Msgs, SendMessage(m) PROVE DenyOK'
  BY <1>11 DEF SendMessage, sending, stores
<1>12. ASSUME NEW m \in Msgs, Expire(m) PROVE DenyOK'
  BY <1>12 DEF Expire, sending, stores
<1>13. ASSUME NEW m \in Msgs, NEW z \in Providers, PublishClaim(m, z) PROVE DenyOK'
  BY <1>13 DEF PublishClaim, sending, stores
<1>14. ASSUME NEW t \in Terminals, Accept(t) PROVE DenyOK'
  BY <1>14 DEF Accept, sending, stores
<1>15. ASSUME NEW t \in Terminals, PinSender(t) PROVE DenyOK'
  BY <1>15 DEF PinSender, sending, stores
<1>16. ASSUME NEW t \in Terminals, TakeTrusted(t) PROVE DenyOK'
  BY <1>16 DEF TakeTrusted, sending, stores
<1>17. ASSUME NEW t \in Terminals, BlockSender(t) PROVE DenyOK'
  BY <1>17 DEF BlockSender, sending, stores
<1>18. ASSUME NEW t \in Terminals, Reject(t) PROVE DenyOK'
  BY <1>18 DEF Reject, sending, stores
<1>19. ASSUME NEW t \in Terminals, NEW pc \in {"trust", "block"}, GetIntro(t, pc) PROVE DenyOK'
  BY <1>19 DEF GetIntro, sending, stores
<1>20. ASSUME NEW t \in Terminals, NEW k \in Senders, AddContact(t, k) PROVE DenyOK'
  BY <1>20 DEF AddContact, sending, stores
<1> QED BY <1>1, <1>2, <1>3, <1>4, <1>5, <1>6, <1>7, <1>8, <1>9, <1>10, <1>11, <1>12,
           <1>13, <1>14, <1>15, <1>16, <1>17, <1>18, <1>19, <1>20 DEF Next, Polling, Command

-----------------------------------------------------------------------------
\* A message stands in one place: with the poll, in its hand, in the queue or,
\* once, before the user; wherever it is, it has been recorded.
HandDistinct ==
    \A i, j \in 1..Len(poll.hand) : poll.hand[i] = poll.hand[j] => i = j
QueueDistinct ==
    \A i, j \in DOMAIN queue : queue[i] = queue[j] => i = j
Apart ==
    /\ poll.cur \cap InHand = {} /\ poll.cur \cap Queued = {} /\ InHand \cap Queued = {}
    /\ \A m \in Msgs : surfaced[m] <= 1 /\ (surfaced[m] = 1 => ~Held(m))
Recorded ==
    \A m \in Msgs : Held(m) \/ surfaced[m] = 1 => m \in replay \cup expired

Places == OneAtATime /\ HandDistinct /\ QueueDistinct /\ Apart /\ Recorded

\* A step that only takes messages out of their places.
LEMMA PlacesShrink ==
  ASSUME TypeOK, Places, poll'.cur \subseteq poll.cur, InHand' \subseteq InHand, HandDistinct',
         Queued' \subseteq Queued, QueueDistinct', UNCHANGED surfaced,
         replay \cup expired \subseteq replay' \cup expired'
  PROVE  Places'
BY DEF Places, OneAtATime, Apart, Recorded, Held

\* A step that leaves the places alone.
LEMMA PlacesFrame ==
  ASSUME TypeOK, Places, poll'.cur = poll.cur, poll'.hand = poll.hand, UNCHANGED <<queue, surfaced>>,
         replay \cup expired \subseteq replay' \cup expired'
  PROVE  Places'
<1>1. InHand' = InHand /\ Queued' = Queued
  BY DEF InHand, Queued
<1>2. HandDistinct' /\ QueueDistinct'
  BY DEF Places, HandDistinct, QueueDistinct
<1> QED BY <1>1, <1>2, PlacesShrink

\* An empty hand.
LEMMA EmptyHand ==
  ASSUME poll'.hand = <<>>
  PROVE  InHand' = {} /\ HandDistinct'
BY DEF InHand, HandDistinct

\* A message joins the hand.
LEMMA HandGrows ==
  ASSUME TypeOK, HandDistinct, NEW m \in Msgs, m \notin InHand, poll'.hand = Append(poll.hand, m)
  PROVE  InHand' = InHand \cup {m} /\ HandDistinct'
<1>1. poll.hand \in Seq(Msgs)
  BY PollFields
<1>2. /\ Len(poll'.hand) = Len(poll.hand) + 1
      /\ \A i \in 1..Len(poll.hand) : poll'.hand[i] = poll.hand[i]
      /\ poll'.hand[Len(poll.hand) + 1] = m
  BY <1>1
<1>3. \A i \in 1..(Len(poll.hand) + 1) : i \in 1..Len(poll.hand) \/ i = Len(poll.hand) + 1
  BY <1>1
<1>4. InHand' = InHand \cup {m}
  <2>1. \A x \in InHand' : x \in InHand \cup {m}
    BY <1>2, <1>3 DEF InHand
  <2>2. \A x \in InHand : x \in InHand'
    BY <1>1, <1>2 DEF InHand
  <2>3. m \in InHand'
    BY <1>1, <1>2 DEF InHand
  <2> QED BY <2>1, <2>2, <2>3
<1>5. HandDistinct'
  BY <1>1, <1>2, <1>3 DEF HandDistinct, InHand
<1> QED BY <1>4, <1>5

\* The first message leaves the hand.
LEMMA HandShrinks ==
  ASSUME TypeOK, HandDistinct, poll.hand # <<>>, poll'.hand = Tail(poll.hand)
  PROVE  /\ Head(poll.hand) \in InHand /\ InHand' = InHand \ {Head(poll.hand)}
         /\ HandDistinct'
<1>1. poll.hand \in Seq(Msgs) /\ Len(poll.hand) \in Nat /\ Len(poll.hand) >= 1
  BY PollFields
<1>2. /\ Len(poll'.hand) = Len(poll.hand) - 1 /\ Head(poll.hand) = poll.hand[1]
      /\ \A i \in 1..(Len(poll.hand) - 1) : poll'.hand[i] = poll.hand[i + 1]
  BY <1>1
<1>3. Head(poll.hand) \in InHand
  BY <1>1, <1>2 DEF InHand
<1>4. HandDistinct'
  <2>1. ASSUME NEW i \in 1..(Len(poll.hand) - 1), NEW j \in 1..(Len(poll.hand) - 1),
               poll'.hand[i] = poll'.hand[j]
        PROVE  i = j
    <3>1. i + 1 \in 1..Len(poll.hand) /\ j + 1 \in 1..Len(poll.hand)
      BY <1>1
    <3>2. poll.hand[i + 1] = poll.hand[j + 1]
      BY <1>2, <2>1
    <3>3. i + 1 = j + 1
      BY <3>1, <3>2 DEF HandDistinct
    <3> QED BY <3>3
  <2> QED BY <1>2, <2>1 DEF HandDistinct
<1>5. ASSUME NEW x \in InHand' PROVE x \in InHand \ {Head(poll.hand)}
  <2>1. PICK i \in 1..(Len(poll.hand) - 1) : x = poll'.hand[i]
    BY <1>2 DEF InHand
  <2>2. i + 1 \in 1..Len(poll.hand) /\ x = poll.hand[i + 1] /\ 1 \in 1..Len(poll.hand)
    BY <1>1, <1>2, <2>1
  <2>3. x # poll.hand[1]
    BY <2>2 DEF HandDistinct
  <2> QED BY <1>2, <2>2, <2>3 DEF InHand
<1>6. ASSUME NEW x \in InHand, x # Head(poll.hand) PROVE x \in InHand'
  <2>1. PICK i \in 1..Len(poll.hand) : x = poll.hand[i]
    BY DEF InHand
  <2>2. i # 1 /\ i - 1 \in 1..(Len(poll.hand) - 1)
    BY <1>1, <1>2, <1>6, <2>1
  <2>3. x = poll'.hand[i - 1]
    BY <1>2, <2>1, <2>2
  <2> QED BY <1>2, <2>2, <2>3 DEF InHand
<1> QED BY <1>3, <1>4, <1>5, <1>6

\* A row leaves the queue, or was not there.
LEMMA QueueShrinks ==
  ASSUME TypeOK, QueueDistinct, NEW i, Remove(i)
  PROVE  /\ Queued' \subseteq Queued /\ QueueDistinct'
         /\ i \in DOMAIN queue => queue[i] \in Queued /\ Queued' = Queued \ {queue[i]}
<1>1. /\ DOMAIN queue' = DOMAIN queue \ {i} /\ \A j \in DOMAIN queue' : queue'[j] = queue[j]
  BY RemoveOK
<1> QED BY <1>1 DEF Queued, QueueDistinct

\* A row leaves the queue for the user.
LEMMA PlacesSurface ==
  ASSUME TypeOK, Places, NEW i \in DOMAIN queue, Remove(i), Surface(i),
         UNCHANGED <<poll, replay, expired>>
  PROVE  Places'
<1>1. queue[i] \in Queued /\ Queued' = Queued \ {queue[i]} /\ QueueDistinct'
  BY QueueShrinks DEF Places
<1>2. InHand' = InHand /\ HandDistinct' /\ OneAtATime'
  BY DEF InHand, Places, HandDistinct, OneAtATime
<1>3. /\ surfaced[queue[i]] = 0 /\ surfaced'[queue[i]] = 1 /\ queue[i] \in Msgs
      /\ \A m \in Msgs : m # queue[i] => surfaced'[m] = surfaced[m]
  <2>1. /\ queue[i] \in Msgs /\ surfaced'[queue[i]] = surfaced[queue[i]] + 1
        /\ \A m \in Msgs : m # queue[i] => surfaced'[m] = surfaced[m]
    BY SurfaceOK
  <2>2. surfaced[queue[i]] \in Nat
    BY <2>1 DEF TypeOK
  <2>3. surfaced[queue[i]] <= 1 /\ surfaced[queue[i]] # 1
    BY <1>1, <2>1 DEF Places, Apart, Held
  <2> QED BY <2>1, <2>2, <2>3
<1>4. Apart'
  BY <1>1, <1>2, <1>3 DEF Places, Apart, Held
<1>5. Recorded'
  BY <1>1, <1>2, <1>3 DEF Places, Recorded, Held
<1> QED BY <1>1, <1>2, <1>4, <1>5 DEF Places

\* No step puts a message in two places or brings one back.
LEMMA PlacesStep ==
  ASSUME TypeOK, Places, [Next]_vars
  PROVE  Places'
<1>1. CASE UNCHANGED vars
  BY <1>1, PlacesFrame DEF vars, sending, stores
<1>2. CASE StartPoll
  <2>1. poll'.cur = poll.cur /\ poll'.hand = poll.hand
    BY <1>2 DEF StartPoll, Sweep, TypeOK, Polls
  <2> QED BY <1>2, <2>1, PlacesFrame DEF StartPoll, sending, stores
<1>3. CASE NextZone
  <2>1. poll'.cur = poll.cur /\ poll'.hand = poll.hand
    BY <1>3 DEF NextZone, Sweep, TypeOK, Polls
  <2> QED BY <1>3, <2>1, PlacesFrame DEF NextZone, sending, stores
<1>4. CASE Settle
  <2>1. PICK m \in poll.cur :
           \/ poll' = [poll EXCEPT !.pc = "sweep", !.cur = {}, !.hand = Append(poll.hand, m)]
           \/ poll' = [poll EXCEPT !.pc = "sweep", !.cur = {}]
           \/ poll' = [poll EXCEPT !.pc = "insert", !.deny = denylist]
    BY <1>4 DEF Settle
  <2>2. Queued' = Queued /\ QueueDistinct' /\ UNCHANGED <<queue, surfaced, replay, expired>>
    BY <1>4 DEF Settle, Queued, Places, QueueDistinct, stores
  <2>3. CASE poll' = [poll EXCEPT !.pc = "sweep", !.cur = {}, !.hand = Append(poll.hand, m)]
    <3>1. poll'.cur = {} /\ poll'.hand = Append(poll.hand, m)
      BY <2>3 DEF TypeOK, Polls
    <3>2. InHand' = InHand \cup {m} /\ HandDistinct' /\ m \in Msgs
      BY <3>1, HandGrows, PollFields DEF Places, Apart
    <3>3. OneAtATime'
      BY <3>1 DEF OneAtATime
    <3>4. Apart'
      BY <2>2, <3>1, <3>2 DEF Places, Apart, Held
    <3>5. Recorded'
      BY <2>2, <3>1, <3>2 DEF Places, Recorded, Held
    <3> QED BY <2>2, <3>2, <3>3, <3>4, <3>5 DEF Places
  <2>4. CASE poll' = [poll EXCEPT !.pc = "sweep", !.cur = {}]
    <3>1. poll'.cur = {} /\ poll'.hand = poll.hand
      BY <2>4 DEF TypeOK, Polls
    <3>2. InHand' = InHand /\ HandDistinct'
      BY <3>1 DEF InHand, Places, HandDistinct
    <3> QED BY <2>2, <3>1, <3>2, PlacesShrink
  <2>5. CASE poll' = [poll EXCEPT !.pc = "insert", !.deny = denylist]
    <3>1. poll'.cur = poll.cur /\ poll'.hand = poll.hand
      BY <2>5 DEF TypeOK, Polls
    <3> QED BY <2>2, <3>1, PlacesFrame
  <2> QED BY <2>1, <2>3, <2>4, <2>5
<1>5. CASE Enqueue
  <2>1. poll'.cur = {} /\ poll'.hand = poll.hand /\ UNCHANGED <<surfaced, replay, expired>>
    BY <1>5 DEF Enqueue, TypeOK, Polls
  <2>2. InHand' = InHand /\ HandDistinct' /\ OneAtATime'
    BY <2>1 DEF InHand, Places, HandDistinct, OneAtATime
  <2>3. PICK m \in poll.cur :
           \/ (\E i \in DOMAIN queue : queue[i] = m) /\ UNCHANGED <<queue, lastId>>
           \/ /\ ~(\E i \in DOMAIN queue : queue[i] = m)
              /\ lastId' \notin DOMAIN queue
              /\ DOMAIN queue' = DOMAIN queue \cup {lastId'}
              /\ queue'[lastId'] = m /\ \A i \in DOMAIN queue : queue'[i] = queue[i]
    BY <1>5, EnqueueOK
  <2>4. ~(\E i \in DOMAIN queue : queue[i] = m)
    BY DEF Places, Apart, Queued
  <2>5. QueueDistinct' /\ Queued' = Queued \cup {m} /\ m \in Msgs
    BY <2>3, <2>4, PollFields DEF Places, QueueDistinct, Queued
  <2>6. Apart'
    BY <2>1, <2>2, <2>5 DEF Places, Apart, Held
  <2>7. Recorded'
    BY <2>1, <2>2, <2>5 DEF Places, Recorded, Held
  <2> QED BY <2>2, <2>5, <2>6, <2>7 DEF Places
<1>6. CASE QueryFails
  <2>1. Queued' = Queued /\ QueueDistinct' /\ UNCHANGED <<surfaced, replay, expired>>
    BY <1>6 DEF QueryFails, Queued, Places, QueueDistinct, stores
  <2> QED BY <1>6, <2>1, QuietOK, EmptyHand, PlacesShrink DEF QueryFails
<1>7. CASE Deliver
  <2>1. Queued' = Queued /\ QueueDistinct' /\ UNCHANGED <<replay, expired>>
    BY <1>7 DEF Deliver, Queued, Places, QueueDistinct, stores
  <2>2. CASE poll' = Quiet /\ UNCHANGED surfaced
    BY <2>1, <2>2, QuietOK, EmptyHand, PlacesShrink
  <2>3. CASE Stored(Head(poll.hand)) /\ poll' = [poll EXCEPT !.hand = Tail(poll.hand)]
    <3>1. poll'.cur = poll.cur /\ poll'.hand = Tail(poll.hand)
      BY <2>3 DEF TypeOK, Polls
    <3>2. /\ Head(poll.hand) \in InHand /\ InHand' = InHand \ {Head(poll.hand)} /\ HandDistinct'
          /\ Head(poll.hand) \in Msgs
      BY <1>7, <3>1, HandShrinks, PollFields DEF Deliver, Places
    <3>3. /\ surfaced[Head(poll.hand)] = 0 /\ surfaced'[Head(poll.hand)] = 1
          /\ \A m \in Msgs : m # Head(poll.hand) => surfaced'[m] = surfaced[m]
      BY <2>3, <3>2 DEF Places, Apart, Held, Stored, TypeOK
    <3>4. OneAtATime'
      BY <3>1 DEF Places, OneAtATime
    <3>5. Apart'
      BY <2>1, <3>1, <3>2, <3>3 DEF Places, Apart, Held
    <3>6. Recorded'
      BY <2>1, <3>1, <3>2, <3>3 DEF Places, Recorded, Held
    <3> QED BY <2>1, <3>2, <3>4, <3>5, <3>6 DEF Places
  <2> QED BY <1>7, <2>2, <2>3 DEF Deliver
<1>8. CASE EndPoll
  <2>1. Queued' = Queued /\ QueueDistinct' /\ UNCHANGED <<surfaced, replay, expired>>
    BY <1>8 DEF EndPoll, Queued, Places, QueueDistinct, stores
  <2> QED BY <1>8, <2>1, QuietOK, EmptyHand, PlacesShrink DEF EndPoll
<1>9. ASSUME NEW m \in Msgs, PassOver(m) PROVE Places'
  <2>1. poll'.cur = poll.cur /\ poll'.hand = poll.hand
    BY <1>9 DEF PassOver, TypeOK, Polls
  <2> QED BY <1>9, <2>1, PlacesFrame DEF PassOver, sending, stores
<1>10. ASSUME NEW m \in Msgs, Take(m) PROVE Places'
  <2>1. /\ poll.cur = {} /\ poll'.cur = {m} /\ poll'.hand = poll.hand
        /\ UNCHANGED <<queue, surfaced, expired>> /\ replay' = replay \cup {m}
        /\ m \notin replay \cup expired
    BY <1>10 DEF Take, TypeOK, Polls, Wanted
  <2>2. InHand' = InHand /\ Queued' = Queued /\ HandDistinct' /\ QueueDistinct' /\ OneAtATime'
    BY <2>1 DEF InHand, Queued, Places, HandDistinct, QueueDistinct, OneAtATime
  <2>3. ~Held(m) /\ surfaced[m] # 1
    BY <2>1 DEF Places, Recorded
  <2>4. Apart'
    BY <2>1, <2>2, <2>3 DEF Places, Apart, Held
  <2>5. Recorded'
    BY <2>1, <2>2, <2>3 DEF Places, Recorded, Held
  <2> QED BY <2>2, <2>4, <2>5 DEF Places
<1>11. ASSUME NEW m \in Msgs, SendMessage(m) PROVE Places'
  BY <1>11, PlacesFrame DEF SendMessage, sending, stores
<1>12. ASSUME NEW m \in Msgs, Expire(m) PROVE Places'
  BY <1>12, PlacesFrame DEF Expire, sending, stores
<1>13. ASSUME NEW m \in Msgs, NEW z \in Providers, PublishClaim(m, z) PROVE Places'
  BY <1>13, PlacesFrame DEF PublishClaim, sending, stores
<1>14. ASSUME NEW t \in Terminals, Accept(t) PROVE Places'
  <2>1. PICK i \in DOMAIN queue : Remove(i) /\ Surface(i)
    BY <1>14 DEF Accept
  <2> QED BY <1>14, <2>1, PlacesSurface DEF Accept, sending
<1>15. ASSUME NEW t \in Terminals, PinSender(t) PROVE Places'
  BY <1>15, PlacesFrame DEF PinSender, sending, stores
<1>16. ASSUME NEW t \in Terminals, TakeTrusted(t) PROVE Places'
  <2>1. CASE term[t].id \in DOMAIN queue
    BY <1>16, <2>1, PlacesSurface DEF TakeTrusted, sending
  <2>2. CASE term[t].id \notin DOMAIN queue
    BY <1>16, <2>2, PlacesFrame DEF TakeTrusted, sending
  <2> QED BY <2>1, <2>2
<1>17. ASSUME NEW t \in Terminals, BlockSender(t) PROVE Places'
  BY <1>17, PlacesFrame DEF BlockSender, sending, stores
<1>18. ASSUME NEW t \in Terminals, Reject(t) PROVE Places'
  <2>1. InHand' = InHand /\ HandDistinct' /\ UNCHANGED <<poll, surfaced, replay, expired>>
    BY <1>18 DEF Reject, InHand, Places, HandDistinct
  <2> QED BY <1>18, <2>1, QueueShrinks, PlacesShrink DEF Reject, Places
<1>19. ASSUME NEW t \in Terminals, NEW pc \in {"trust", "block"}, GetIntro(t, pc) PROVE Places'
  BY <1>19, PlacesFrame DEF GetIntro, sending, stores
<1>20. ASSUME NEW t \in Terminals, NEW k \in Senders, AddContact(t, k) PROVE Places'
  BY <1>20, PlacesFrame DEF AddContact, sending, stores
<1> QED BY <1>1, <1>2, <1>3, <1>4, <1>5, <1>6, <1>7, <1>8, <1>9, <1>10, <1>11, <1>12,
           <1>13, <1>14, <1>15, <1>16, <1>17, <1>18, <1>19, <1>20 DEF Next, Polling, Command

-----------------------------------------------------------------------------
InboxInv == TypeOK /\ CommandOK /\ DenyOK /\ Places

\* The initial state.
LEMMA InitOK ==
  ASSUME Init
  PROVE  InboxInv
<1>1. TypeOK
  <2>1. queue \in [DOMAIN queue -> Msgs] /\ DOMAIN queue = {}
    BY DEF Init
  <2>2. \A t \in Terminals : term[t] = Idle
    BY DEF Init
  <2>3. term \in [Terminals -> Commands \cup {Idle}]
    BY DEF Init
  <2>4. receipt \in [Msgs -> [todo : SUBSET Providers, failed : SUBSET Providers]]
    BY DEF Init
  <2> QED BY <2>1, <2>2, <2>3, <2>4, InboxAssumption, QuietOK DEF Init, TypeOK
<1>2. CommandOK /\ DenyOK
  BY QuietOK DEF Init, CommandOK, DenyOK
<1>3. InHand = {} /\ Queued = {} /\ HandDistinct /\ QueueDistinct
  BY QuietOK DEF Init, InHand, Queued, HandDistinct, QueueDistinct
<1>4. Places
  BY <1>3, QuietOK DEF Init, Places, OneAtATime, Apart, Recorded, Held
<1> QED BY <1>1, <1>2, <1>4 DEF InboxInv

\* The invariant is inductive.
THEOREM InboxInvariant == Spec => []InboxInv
<1>1. InboxInv /\ [Next]_vars => InboxInv'
  BY TypeStep, CommandStep, DenyStep, PlacesStep DEF InboxInv, Places
<1> QED BY InitOK, <1>1, PTL DEF Spec

\* The stores, the polling process and the terminals have their shapes.
THEOREM TypeCorrect == Spec => []TypeOK
<1>1. InboxInv => TypeOK
  BY DEF InboxInv
<1> QED BY InboxInvariant, <1>1, PTL

\* A message is shown once, over all sweeps, zones and terminals (recv.rs,
\* IntroQueue::take).
THEOREM HandedOverOnceHolds == Spec => []HandedOverOnce
<1>1. InboxInv => HandedOverOnce
  BY DEF InboxInv, Places, Apart, HandedOverOnce
<1> QED BY InboxInvariant, <1>1, PTL

\* A review command acts on the row it read (trust_intro, block_intro).
THEOREM ActsOnWhatItReadHolds == Spec => []ActsOnWhatItRead
<1>1. InboxInv => ActsOnWhatItRead
  BY DEF InboxInv, CommandOK, ActsOnWhatItRead
<1> QED BY InboxInvariant, <1>1, PTL

\* What a step may do to a message that is held.
Accounted ==
    \A m \in Msgs : Held(m) /\ ~Held(m)' =>
        surfaced'[m] > surfaced[m] \/ from[m] \in denylist \/ faults' > faults

\* A step that leaves the places alone loses nothing.
LEMMA SamePlaces ==
  ASSUME poll'.cur = poll.cur, poll'.hand = poll.hand, UNCHANGED queue
  PROVE  Accounted
<1>1. InHand' = InHand /\ Queued' = Queued
  BY DEF InHand, Queued
<1> QED BY <1>1 DEF Accounted, Held

\* A row that is taken is shown.
LEMMA RowShown ==
  ASSUME TypeOK, Places, NEW i \in DOMAIN queue, Remove(i), Surface(i), UNCHANGED poll
  PROVE  Accounted
<1>1. Queued' = Queued \ {queue[i]}
  BY QueueShrinks DEF Places
<1>2. InHand' = InHand
  BY DEF InHand
<1>3. queue[i] \in Msgs /\ surfaced'[queue[i]] > surfaced[queue[i]]
  BY SurfaceOK DEF TypeOK
<1> QED BY <1>1, <1>2, <1>3 DEF Accounted, Held

\* Every step accounts for the messages it takes away.
LEMMA AccountedStep ==
  ASSUME TypeOK, CommandOK, Places, [Next]_vars
  PROVE  Accounted
<1>1. CASE UNCHANGED vars
  BY <1>1, SamePlaces DEF vars, sending, stores
<1>2. CASE StartPoll
  <2>1. poll'.cur = poll.cur /\ poll'.hand = poll.hand
    BY <1>2 DEF StartPoll, Sweep, TypeOK, Polls
  <2> QED BY <1>2, <2>1, SamePlaces DEF StartPoll, sending, stores
<1>3. CASE NextZone
  <2>1. poll'.cur = poll.cur /\ poll'.hand = poll.hand
    BY <1>3 DEF NextZone, Sweep, TypeOK, Polls
  <2> QED BY <1>3, <2>1, SamePlaces DEF NextZone, sending, stores
<1>4. CASE Settle
  <2>1. PICK m \in poll.cur :
           \/ poll' = [poll EXCEPT !.pc = "sweep", !.cur = {}, !.hand = Append(poll.hand, m)]
           \/ poll' = [poll EXCEPT !.pc = "sweep", !.cur = {}] /\ from[m] \in denylist
           \/ poll' = [poll EXCEPT !.pc = "insert", !.deny = denylist]
    BY <1>4 DEF Settle, Denied
  <2>2. Queued' = Queued /\ UNCHANGED queue
    BY <1>4 DEF Settle, Queued, stores
  <2>3. CASE poll' = [poll EXCEPT !.pc = "sweep", !.cur = {}, !.hand = Append(poll.hand, m)]
    <3>1. poll'.cur = {} /\ poll'.hand = Append(poll.hand, m)
      BY <2>3 DEF TypeOK, Polls
    <3>2. InHand' = InHand \cup {m}
      BY <3>1, HandGrows, PollFields DEF Places, Apart
    <3> QED BY <2>2, <3>1, <3>2 DEF Accounted, Held, Places, OneAtATime
  <2>4. CASE poll' = [poll EXCEPT !.pc = "sweep", !.cur = {}] /\ from[m] \in denylist
    <3>1. poll'.hand = poll.hand
      BY <2>4 DEF TypeOK, Polls
    <3>2. InHand' = InHand
      BY <3>1 DEF InHand
    <3> QED BY <2>2, <2>4, <3>2 DEF Accounted, Held, Places, OneAtATime
  <2>5. CASE poll' = [poll EXCEPT !.pc = "insert", !.deny = denylist]
    <3>1. poll'.cur = poll.cur /\ poll'.hand = poll.hand
      BY <2>5 DEF TypeOK, Polls
    <3> QED BY <2>2, <3>1, SamePlaces
  <2> QED BY <2>1, <2>3, <2>4, <2>5
<1>5. CASE Enqueue
  <2>1. poll'.cur = {} /\ poll'.hand = poll.hand /\ UNCHANGED <<surfaced, replay, expired>>
    BY <1>5 DEF Enqueue, TypeOK, Polls
  <2>2. InHand' = InHand
    BY <2>1 DEF InHand
  <2>3. PICK m \in poll.cur :
           \/ (\E i \in DOMAIN queue : queue[i] = m) /\ UNCHANGED <<queue, lastId>>
           \/ /\ ~(\E i \in DOMAIN queue : queue[i] = m)
              /\ lastId' \notin DOMAIN queue
              /\ DOMAIN queue' = DOMAIN queue \cup {lastId'}
              /\ queue'[lastId'] = m /\ \A i \in DOMAIN queue : queue'[i] = queue[i]
    BY <1>5, EnqueueOK
  <2>4. ~(\E i \in DOMAIN queue : queue[i] = m)
    BY DEF Places, Apart, Queued
  <2>5. Queued' = Queued \cup {m}
    BY <2>3, <2>4, PollFields DEF Queued
  <2> QED BY <2>2, <2>5 DEF Accounted, Held, Places, OneAtATime
<1>6. CASE QueryFails
  BY <1>6 DEF Accounted, QueryFails, Fault, TypeOK
<1>7. CASE Deliver
  <2>1. Queued' = Queued
    BY <1>7 DEF Deliver, Queued, stores
  <2>2. CASE Fault
    BY <2>2 DEF Accounted, Fault, TypeOK
  <2>3. CASE Stored(Head(poll.hand)) /\ poll' = [poll EXCEPT !.hand = Tail(poll.hand)]
    <3>1. poll'.cur = poll.cur /\ poll'.hand = Tail(poll.hand)
      BY <2>3 DEF TypeOK, Polls
    <3>2. /\ Head(poll.hand) \in InHand /\ InHand' = InHand \ {Head(poll.hand)}
          /\ Head(poll.hand) \in Msgs
      BY <1>7, <3>1, HandShrinks, PollFields DEF Deliver, Places
    <3>3. surfaced'[Head(poll.hand)] > surfaced[Head(poll.hand)]
      BY <2>3, <3>2 DEF Stored, TypeOK
    <3> QED BY <2>1, <3>1, <3>2, <3>3 DEF Accounted, Held
  <2> QED BY <1>7, <2>2, <2>3 DEF Deliver
<1>8. CASE EndPoll
  <2>1. InHand = {} /\ poll.cur = {} /\ Queued' = Queued
    BY <1>8 DEF EndPoll, InHand, TypeOK, Queued, stores
  <2> QED BY <2>1 DEF Accounted, Held
<1>9. ASSUME NEW m \in Msgs, PassOver(m) PROVE Accounted
  <2>1. poll'.cur = poll.cur /\ poll'.hand = poll.hand
    BY <1>9 DEF PassOver, TypeOK, Polls
  <2> QED BY <1>9, <2>1, SamePlaces DEF PassOver, sending, stores
<1>10. ASSUME NEW m \in Msgs, Take(m) PROVE Accounted
  <2>1. poll.cur = {} /\ poll'.hand = poll.hand /\ UNCHANGED queue
    BY <1>10 DEF Take, TypeOK, Polls
  <2>2. InHand' = InHand /\ Queued' = Queued
    BY <2>1 DEF InHand, Queued
  <2> QED BY <2>1, <2>2 DEF Accounted, Held
<1>11. ASSUME NEW m \in Msgs, SendMessage(m) PROVE Accounted
  BY <1>11, SamePlaces DEF SendMessage, sending, stores
<1>12. ASSUME NEW m \in Msgs, Expire(m) PROVE Accounted
  BY <1>12, SamePlaces DEF Expire, sending, stores
<1>13. ASSUME NEW m \in Msgs, NEW z \in Providers, PublishClaim(m, z) PROVE Accounted
  BY <1>13, SamePlaces DEF PublishClaim, sending, stores
<1>14. ASSUME NEW t \in Terminals, Accept(t) PROVE Accounted
  <2>1. PICK i \in DOMAIN queue : Remove(i) /\ Surface(i)
    BY <1>14 DEF Accept
  <2> QED BY <1>14, <2>1, RowShown DEF Accept
<1>15. ASSUME NEW t \in Terminals, PinSender(t) PROVE Accounted
  BY <1>15, SamePlaces DEF PinSender, sending, stores
<1>16. ASSUME NEW t \in Terminals, TakeTrusted(t) PROVE Accounted
  <2>1. CASE term[t].id \in DOMAIN queue
    BY <1>16, <2>1, RowShown DEF TakeTrusted
  <2>2. CASE term[t].id \notin DOMAIN queue
    BY <1>16, <2>2, SamePlaces DEF TakeTrusted
  <2> QED BY <2>1, <2>2
<1>17. ASSUME NEW t \in Terminals, BlockSender(t) PROVE Accounted
  BY <1>17, SamePlaces DEF BlockSender, sending, stores
<1>18. ASSUME NEW t \in Terminals, Reject(t) PROVE Accounted
  <2>1. InHand' = InHand /\ UNCHANGED poll
    BY <1>18 DEF Reject, InHand
  <2>2. term[t] # Idle /\ Remove(term[t].id)
    BY <1>18, TermOK DEF Reject
  <2>3. CASE term[t].id \in DOMAIN queue
    <3>1. Queued' = Queued \ {queue[term[t].id]}
      BY <2>2, <2>3, QueueShrinks DEF Places
    <3>2. from[queue[term[t].id]] \in denylist
      BY <1>18, <2>2, <2>3 DEF Reject, CommandOK
    <3> QED BY <2>1, <3>1, <3>2 DEF Accounted, Held
  <2>4. CASE term[t].id \notin DOMAIN queue
    <3>1. Queued' = Queued
      BY <2>2, <2>4, RemoveOK DEF Queued
    <3> QED BY <2>1, <3>1 DEF Accounted, Held
  <2> QED BY <2>3, <2>4
<1>19. ASSUME NEW t \in Terminals, NEW pc \in {"trust", "block"}, GetIntro(t, pc) PROVE Accounted
  BY <1>19, SamePlaces DEF GetIntro, sending, stores
<1>20. ASSUME NEW t \in Terminals, NEW k \in Senders, AddContact(t, k) PROVE Accounted
  BY <1>20, SamePlaces DEF AddContact, sending, stores
<1> QED BY <1>1, <1>2, <1>3, <1>4, <1>5, <1>6, <1>7, <1>8, <1>9, <1>10, <1>11, <1>12,
           <1>13, <1>14, <1>15, <1>16, <1>17, <1>18, <1>19, <1>20 DEF Next, Polling, Command

\* A message leaves the poll and the queue only by being shown, by a block of
\* its sender or by an error that ends the pass (poll_once, block_intro).
THEOREM AccountedForHolds == Spec => AccountedFor
<1>1. InboxInv /\ [Next]_vars =>
        [\A m \in Msgs : Held(m) /\ ~Held(m)' =>
            surfaced'[m] > surfaced[m] \/ from[m] \in denylist \/ faults' > faults]_vars
  BY AccountedStep DEF InboxInv, Accounted
<1> QED BY InboxInvariant, <1>1, PTL DEF Spec, AccountedFor

\* A row that enters the queue is one that enqueue() has checked.
LEMMA QueueEntry ==
  ASSUME InboxInv, [Next]_vars, NEW m \in Queued' \ Queued
  PROVE  from[m] \notin poll.deny
<1> USE DEF InboxInv
<1>1. CASE Enqueue
  <2>1. m \in poll.cur
    BY <1>1, EnqueueOK DEF Queued
  <2> QED BY <1>1, <2>1 DEF Enqueue, DenyOK
<1>2. ASSUME UNCHANGED queue PROVE FALSE
  BY <1>2 DEF Queued
<1>3. ASSUME NEW i, Remove(i) PROVE FALSE
  BY <1>3, QueueShrinks DEF Places
<1>4. CASE UNCHANGED vars
  BY <1>2, <1>4 DEF vars, stores
<1>5. CASE Polling
  BY <1>1, <1>2, <1>5 DEF Polling, StartPoll, NextZone, Settle, QueryFails, Deliver, EndPoll,
     PassOver, Take, stores
<1>6. ASSUME NEW t \in Terminals, Command(t) PROVE FALSE
  BY <1>2, <1>3, <1>6 DEF Command, Accept, PinSender, TakeTrusted, BlockSender, Reject, GetIntro,
     AddContact, stores
<1>7. ASSUME NEW n \in Msgs, SendMessage(n) \/ Expire(n) PROVE FALSE
  BY <1>2, <1>7 DEF SendMessage, Expire, stores
<1>8. ASSUME NEW n \in Msgs, NEW z \in Providers, PublishClaim(n, z) PROVE FALSE
  BY <1>2, <1>8 DEF PublishClaim, stores
<1> QED BY <1>4, <1>5, <1>6, <1>7, <1>8 DEF Next

\* The queue takes nothing in from a sender blocked before enqueue() looked.
THEOREM QueueRespectsBlockHolds == Spec => QueueRespectsBlock
<1>1. InboxInv /\ [Next]_vars => [\A m \in Queued' \ Queued : from[m] \notin poll.deny]_vars
  BY QueueEntry
<1> QED BY InboxInvariant, <1>1, PTL DEF Spec, QueueRespectsBlock
=============================================================================
