------------------------------- MODULE Inbox -------------------------------
(***************************************************************************)
(* From a sender's receipt to the user's screen: claim routing             *)
(* (dnsmesh-client/src/claim.rs), the polling loop of "dnsmesh recv" and   *)
(* its Maildir delivery, and the review of quarantined senders from        *)
(* several terminals (intro.rs, intro_queue.rs).                           *)
(*                                                                         *)
(* One process polls: its mailbox sweep and one sweep per --claim-via zone *)
(* share the replay cache, the contact store and the intro queue with the  *)
(* terminals.  The steps of a command that another process can come        *)
(* between are actions of their own.  Mailbox has the inside of the        *)
(* mailbox sweep, two polls at once and the clock; here a message is live  *)
(* or expired, and an expired one is not found.  Rotation chains are off.  *)
(***************************************************************************)
EXTENDS Naturals, Sequences, FiniteSets

CONSTANTS
    Msgs,        \* messages to this user
    Senders,     \* signing keys
    Authors,     \* the ways in which the messages may have their senders
    Local,       \* the messages in the zone every poll walks
    Providers,   \* the zones of --claim-via, on both sides
    Terminals,   \* shells in which the user runs commands
    Username,    \* [Senders -> usernames]: the name a key is kept under
    Known,       \* the keys a user can add as contacts by hand
    Own,         \* the mailbox sweep, as opposed to a provider's
    MaxFaults    \* bound on failing queries, deliveries and publications

ASSUME InboxAssumption ==
    /\ Authors \subseteq [Msgs -> Senders] /\ Local \subseteq Msgs /\ Known \subseteq Senders
    /\ Own \notin Providers /\ IsFiniteSet(Providers) /\ MaxFaults \in Nat

VARIABLES
    sent,       \* the messages published
    receipt,    \* per message: zones still to claim in, and reported failures
    from,       \* the key that signed each message
    claims,     \* <<message, zone>>: the claim records served
    expired,    \* messages past their ttl
    contacts,   \* pinned keys
    denylist,   \* blocked keys
    replay,     \* the replay cache
    queue,      \* the intro queue: message by intro_id
    lastId,     \* the highest intro_id handed out
    poll,       \* the polling process
    term,       \* the command each terminal is running
    surfaced,   \* times each message was shown or stored
    faults

vars == <<from, sent, receipt, claims, expired, contacts, denylist, replay, queue, lastId,
          poll, term, surfaced, faults>>
sending == <<from, sent, receipt, claims>>
stores == <<contacts, denylist, replay, queue, lastId>>

Idle == [pc |-> "idle"]
Quiet == [pc |-> "idle", zone |-> Own, todo |-> {}, listed |-> {}, left |-> {},
          cur |-> {}, hand |-> <<>>, deny |-> {}]

Init ==
    /\ from \in Authors /\ sent = {}
    /\ receipt = [m \in Msgs |-> [todo |-> Providers, failed |-> {}]]
    /\ claims = {} /\ expired = {} /\ contacts = {} /\ denylist = {}
    /\ replay = {} /\ queue = <<>> /\ lastId = 0
    /\ poll = Quiet /\ term = [t \in Terminals |-> Idle]
    /\ surfaced = [m \in Msgs |-> 0] /\ faults = 0

Fault == faults < MaxFaults /\ faults' = faults + 1

(***************************************************************************)
(* The sender: send_message_with_claim().                                  *)
(***************************************************************************)
\* The chunks and the manifest are published (send_message).
SendMessage(m) ==
    /\ m \notin sent
    /\ sent' = sent \cup {m}
    /\ UNCHANGED <<from, receipt, claims, expired, stores, poll, term, surfaced, faults>>

\* publish_claim() signs a claim and adds it to the names of the provider.
Claimed(m, z) == claims \cup {<<m, z>>}

\* Mutant: a declined claim is not reported.
PublishClaimSilently(m, z) ==
    /\ m \in sent /\ z \in receipt[m].todo
    /\ claims' \in {claims, Claimed(m, z)}
    /\ receipt' = [receipt EXCEPT ![m].todo = @ \ {z}]
    /\ UNCHANGED <<from, sent, expired, stores, poll, term, surfaced, faults>>

\* publish_claim() at the next provider zone: accepted, declined, or an error
\* after which the record may be there or not.
PublishClaim(m, z) ==
    /\ m \in sent /\ z \in receipt[m].todo
    /\ \/ /\ claims' = Claimed(m, z)
          /\ receipt' = [receipt EXCEPT ![m].todo = @ \ {z}]
          /\ UNCHANGED faults
       \/ /\ Fault
          /\ claims' \in {claims, Claimed(m, z)}
          /\ receipt' = [receipt EXCEPT ![m].todo = @ \ {z}, ![m].failed = @ \cup {z}]
    /\ UNCHANGED <<from, sent, expired, stores, poll, term, surfaced>>

\* The ttl of the message, its manifest and its claims runs out; the replay
\* cache drops the row when it is next read.
Expire(m) ==
    /\ m \in sent /\ m \notin expired
    /\ expired' = expired \cup {m}
    /\ replay' = replay \ {m}
    /\ UNCHANGED <<sending, contacts, denylist, queue, lastId, poll, term, surfaced, faults>>

(***************************************************************************)
(* The recipient: poll_once() of "dnsmesh recv".                           *)
(***************************************************************************)
\* Mutant: the messages of each sweep replace those of the one before.
SweepAnew(z, rest) ==
    poll' = [poll EXCEPT !.pc = "sweep", !.zone = z, !.todo = rest, !.listed = contacts,
                         !.left = Msgs, !.hand = <<>>]

\* A sweep starts: the contacts are read once.
Sweep(z, rest) ==
    poll' = [poll EXCEPT !.pc = "sweep", !.zone = z, !.todo = rest, !.listed = contacts,
                         !.left = Msgs]

\* Another pass of --watch, or of cron: receive_messages() first.
StartPoll ==
    /\ poll.pc = "idle"
    /\ Sweep(Own, Providers)
    /\ UNCHANGED <<sending, expired, stores, term, surfaced, faults>>

\* receive_via_claim() at each --claim-via zone in turn.
NextZone ==
    /\ poll.pc = "sweep" /\ poll.left = {}
    /\ \E z \in poll.todo : Sweep(z, poll.todo \ {z})
    /\ UNCHANGED <<sending, expired, stores, term, surfaced, faults>>

\* What the slots of the zone lead to: manifests of the polled zone and of the
\* contacts' zones, or claims of anyone.
Visible(m) ==
    /\ m \in sent
    /\ IF poll.zone = Own THEN m \in Local \/ from[m] \in poll.listed
       ELSE <<m, poll.zone>> \in claims

Quarantined(m) == poll.listed # {} /\ from[m] \notin poll.listed

\* Mutant: the sweeps do not consult the replay cache.
WantedAgain(m) ==
    Visible(m) /\ m \notin expired /\ ~(Quarantined(m) /\ from[m] \in denylist)

Wanted(m) ==
    /\ Visible(m)
    /\ m \notin expired
    /\ ~(Quarantined(m) /\ from[m] \in denylist)
    /\ m \notin replay

\* The slots are walked in order, and a message keeps its slot.
IsNext(m) == poll.left # {} /\ m = CHOOSE n \in poll.left : TRUE

\* The record of one message is passed over: not there, expired, blocked,
\* already seen, or its manifest or chunks cannot be had.
PassOver(m) ==
    /\ poll.pc = "sweep" /\ IsNext(m)
    /\ \/ ~Wanted(m) /\ UNCHANGED faults
       \/ Wanted(m) /\ Fault
    /\ poll' = [poll EXCEPT !.left = @ \ {m}]
    /\ UNCHANGED <<sending, expired, stores, term, surfaced>>

\* It is fetched, decrypted and recorded as seen.
Take(m) ==
    /\ poll.pc = "sweep" /\ IsNext(m) /\ Wanted(m)
    /\ replay' = replay \cup {m}
    /\ poll' = [poll EXCEPT !.pc = "settle", !.left = @ \ {m}, !.cur = {m}]
    /\ UNCHANGED <<sending, expired, contacts, denylist, queue, lastId, term, surfaced, faults>>

\* Mutant: an id is reused once its row is gone, as without AUTOINCREMENT.
NewIdReused ==
    CHOOSE n \in 1..(lastId + 1) : \A i \in 1..(lastId + 1) :
        (i >= n) <=> (\A j \in DOMAIN queue : j < i)

\* An intro_id never used before (AUTOINCREMENT).
NewId == lastId + 1

\* Mutant: the denylist is not consulted again when the fetch is over.
DeniedBefore(m) == FALSE

\* is_blocked_inner(), the first statement of enqueue().
Denied(m) == from[m] \in denylist

\* The recorded message goes to the messages of this poll, or to enqueue(),
\* which looks at the denylist (poll.deny: history) before it inserts a row.
Settle ==
    /\ poll.pc = "settle"
    /\ \E m \in poll.cur :
          poll' = CASE ~Quarantined(m) ->
                         [poll EXCEPT !.pc = "sweep", !.cur = {}, !.hand = Append(@, m)]
                    [] Denied(m) -> [poll EXCEPT !.pc = "sweep", !.cur = {}]
                    [] OTHER -> [poll EXCEPT !.pc = "insert", !.deny = denylist]
    /\ UNCHANGED <<sending, expired, stores, term, surfaced, faults>>

\* One row per message; the mutex of the connection keeps this process out
\* between the two statements, not the terminals.
Enqueue ==
    /\ poll.pc = "insert"
    /\ \E m \in poll.cur :
          IF \E i \in DOMAIN queue : queue[i] = m
          THEN UNCHANGED <<queue, lastId>>
          ELSE /\ queue' = [i \in DOMAIN queue \cup {NewId} |->
                              IF i = NewId THEN m ELSE queue[i]]
               /\ lastId' = NewId
    /\ poll' = [poll EXCEPT !.pc = "sweep", !.cur = {}, !.deny = {}]
    /\ UNCHANGED <<sending, expired, contacts, denylist, replay, term, surfaced, faults>>

\* A query fails: the sweep and the whole pass return its error.
QueryFails ==
    /\ poll.pc = "sweep" /\ Fault
    /\ poll' = Quiet
    /\ UNCHANGED <<sending, expired, stores, term, surfaced>>

\* maildir::deliver(): a message becomes a file of its own under new/.
Stored(m) == surfaced' = [surfaced EXCEPT ![m] = @ + 1]

\* After the last zone, each message is printed or stored in the Maildir; the
\* first that cannot be stored ends the pass.
Deliver ==
    /\ poll.pc = "sweep" /\ poll.left = {} /\ poll.todo = {} /\ poll.hand # <<>>
    /\ \/ /\ Stored(Head(poll.hand))
          /\ poll' = [poll EXCEPT !.hand = Tail(@)]
          /\ UNCHANGED faults
       \/ Fault /\ poll' = Quiet /\ UNCHANGED surfaced
    /\ UNCHANGED <<sending, expired, stores, term>>

EndPoll ==
    /\ poll.pc = "sweep" /\ poll.left = {} /\ poll.todo = {} /\ poll.hand = <<>>
    /\ poll' = Quiet
    /\ UNCHANGED <<sending, expired, stores, term, surfaced, faults>>

(***************************************************************************)
(* The user's commands, on an intro_id read off an earlier listing.        *)
(***************************************************************************)
\* IntroQueue::take(): DELETE ... RETURNING.
Remove(i) == queue' = [j \in DOMAIN queue \ {i} |-> queue[j]]
Surface(i) == surfaced' = [surfaced EXCEPT ![queue[i]] = @ + 1]

Run(t, pc, i, k) == term' = [term EXCEPT ![t] = [pc |-> pc, id |-> i, key |-> k]]
Done(t) == term' = [term EXCEPT ![t] = Idle]

\* ContactStore::add_contact(): a contact of the same username gives way.
Pinned(k) == {c \in contacts : Username[c] # Username[k]} \cup {k}

\* "contacts add" of a new address.
AddContact(t, k) ==
    /\ term[t] = Idle /\ k \in Known \ contacts
    /\ contacts' = Pinned(k)
    /\ UNCHANGED <<sending, expired, denylist, replay, queue, lastId, poll, term, surfaced, faults>>

\* "intro accept".
Accept(t) ==
    /\ term[t] = Idle
    /\ \E i \in DOMAIN queue : Remove(i) /\ Surface(i)
    /\ UNCHANGED <<sending, expired, contacts, denylist, replay, lastId, poll, term,
                   faults>>

\* "intro trust" and "intro block" read the row first.
GetIntro(t, pc) ==
    /\ term[t] = Idle
    /\ \E i \in DOMAIN queue : Run(t, pc, i, from[queue[i]])
    /\ UNCHANGED <<sending, expired, stores, poll, surfaced, faults>>

\* fetch_identity() answers with the row's key, which add_contact() pins, or
\* with another or none.
PinSender(t) ==
    /\ term[t].pc = "trust"
    /\ \/ contacts' = Pinned(term[t].key) /\ Run(t, "take", term[t].id, term[t].key)
       \/ Done(t) /\ UNCHANGED contacts
    /\ UNCHANGED <<sending, expired, denylist, replay, queue, lastId, poll, surfaced,
                   faults>>

\* Only now is the row taken, if it is still there.
TakeTrusted(t) ==
    /\ term[t].pc = "take" /\ Done(t)
    /\ LET i == term[t].id
       IN IF i \in DOMAIN queue
          THEN Remove(i) /\ Surface(i) ELSE UNCHANGED <<queue, surfaced>>
    /\ UNCHANGED <<sending, expired, contacts, denylist, replay, lastId, poll, faults>>

BlockSender(t) ==
    /\ term[t].pc = "block"
    /\ denylist' = denylist \cup {term[t].key}
    /\ Run(t, "reject", term[t].id, term[t].key)
    /\ UNCHANGED <<sending, expired, contacts, replay, queue, lastId, poll, surfaced,
                   faults>>

Reject(t) ==
    /\ term[t].pc = "reject" /\ Done(t)
    /\ Remove(term[t].id)
    /\ UNCHANGED <<sending, expired, contacts, denylist, replay, lastId, poll, surfaced, faults>>

Polling == \/ StartPoll \/ NextZone \/ Settle \/ Enqueue \/ QueryFails \/ Deliver \/ EndPoll
           \/ \E m \in Msgs : PassOver(m) \/ Take(m)
Command(t) == \/ Accept(t) \/ PinSender(t) \/ TakeTrusted(t) \/ BlockSender(t) \/ Reject(t)
              \/ \E pc \in {"trust", "block"} : GetIntro(t, pc)
              \/ \E k \in Senders : AddContact(t, k)
Next ==
    \/ Polling
    \/ \E t \in Terminals : Command(t)
    \/ \E m \in Msgs : \/ SendMessage(m) \/ Expire(m)
                       \/ \E z \in Providers : PublishClaim(m, z)

\* Passes are started again and again and their queries are answered or fail:
\* --watch sleeps --interval between them, cron starts the next after a failure.
Spec == Init /\ [][Next]_vars /\ WF_vars(Polling)

Pcs == {"idle", "sweep", "settle", "insert"}
Queued == {queue[i] : i \in DOMAIN queue}
InHand == {poll.hand[i] : i \in 1..Len(poll.hand)}
Polls == [pc : Pcs, zone : Providers \cup {Own}, todo : SUBSET Providers,
          listed : SUBSET Senders, left : SUBSET Msgs, cur : SUBSET Msgs,
          hand : Seq(Msgs), deny : SUBSET Senders]
Commands == [pc : {"trust", "take", "block", "reject"}, id : Nat, key : Senders]

\* The stores, the poll and the terminals have their shapes; a message is being
\* settled exactly between its record and its routing; intro ids lie below the
\* sequence counter (intro_queue's AUTOINCREMENT).
TypeOK ==
    /\ from \in [Msgs -> Senders] /\ sent \subseteq Msgs
    /\ receipt \in [Msgs -> [todo : SUBSET Providers, failed : SUBSET Providers]]
    /\ claims \subseteq Msgs \X Providers
    /\ expired \subseteq Msgs /\ replay \subseteq Msgs
    /\ contacts \subseteq Senders /\ denylist \subseteq Senders
    /\ lastId \in Nat /\ DOMAIN queue \subseteq 1..lastId /\ queue \in [DOMAIN queue -> Msgs]
    /\ poll \in Polls
    /\ (poll.pc \in {"settle", "insert"}) <=> (poll.cur # {})
    /\ term \in [Terminals -> Commands \cup {Idle}]
    /\ \A t \in Terminals : term[t] # Idle => term[t].id \in 1..lastId
    /\ surfaced \in [Msgs -> Nat]
    /\ faults \in 0..MaxFaults

\* A message found in several zones, swept again and again, and reviewed from
\* two terminals is shown once at most within its ttl: the replay cache is
\* shared by the sweeps, and take() gives a row to one command (recv.rs:60-63,
\* intro_queue.rs:216-222).
HandedOverOnce == \A m \in Msgs : m \notin expired => surfaced[m] <= 1

\* The row a trust or block command comes back to was signed by the key it pinned
\* or blocked after reading the row, whatever other terminals and polls do in
\* between: no id is given out twice (trust_intro, block_intro).
ActsOnWhatItRead ==
    \A t \in Terminals :
        term[t] # Idle /\ term[t].id \in DOMAIN queue => from[queue[term[t].id]] = term[t].key

\* A recorded message is never seen again by a sweep, so it may leave the poll
\* and the queue only by being shown, by a block of its sender, or by an error
\* that ends the pass (poll_once, block_intro).
Held(m) == m \in poll.cur \cup InHand \cup Queued
AccountedFor ==
    [][\A m \in Msgs : Held(m) /\ ~Held(m)' =>
          surfaced'[m] > surfaced[m] \/ from[m] \in denylist \/ faults' > faults]_vars

\* The queue takes nothing in from a sender who was blocked before enqueue() was
\* called, whatever the sweep saw when it came to the message (enqueue's own
\* check; a block between its two statements comes too late).
QueueRespectsBlock == [][\A m \in Queued' \ Queued : from[m] \notin poll.deny]_vars

\* A message whose receipt reports no failure for some provider the recipient
\* polls is found by the recipient, unless it expires or its sender is blocked
\* (send_message_with_claim, receive_via_claim).
ReportedIsFound ==
    \A m \in Msgs :
        (m \in sent /\ receipt[m].todo = {} /\ receipt[m].failed # Providers)
            ~> (m \in replay \cup expired \/ from[m] \in denylist)
=============================================================================
