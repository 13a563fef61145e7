----------------------------- MODULE PrekeyPool -----------------------------
(***************************************************************************)
(* The life of one-time prekeys: `identity refresh-prekeys` commits        *)
(* private halves to sqlite, publishes the public halves one by one and    *)
(* remembers what it published; senders pick published keys at random; the *)
(* receive path opens a message, withdraws the record and deletes the row. *)
(* The three run in different processes.  Prekey ids are small random      *)
(* numbers that may repeat after their row is gone, and the key pair       *)
(* behind an id is a value of its own.                                     *)
(***************************************************************************)
EXTENDS Naturals, FiniteSets

CONSTANTS
  Ids,        \* values of the random prekey_id
  Keys,       \* X25519 key pairs, fresh on every draw
  NoKey,      \* a row without a wire_record
  LongTerm,   \* the recipient's long-term key
  Msgs,
  Count,      \* the `count` argument of refresh_prekeys
  Ttl,        \* its ttl_seconds argument
  MaxTime,    \* bound on the clock
  Faults      \* whether DNS writes, sqlite deletes and processes can fail

ASSUME PoolAssumption ==
  /\ Ids \subseteq Nat /\ NoKey \notin Keys /\ LongTerm \notin Keys
  /\ Count \in Nat /\ Ttl \in Nat /\ MaxTime \in Nat /\ Faults \in BOOLEAN

VARIABLES
  now,
  made,     \* key pairs drawn so far
  life,     \* [Keys -> Nat]: exp of a drawn key
  store,    \* rows of the prekeys table: [id, key, wire]
  rrset,    \* published prekey records: [id, key]
  todo,     \* refresh_prekeys: records still to publish
  hand,     \* refresh_prekeys: published, record_wire still to come
  stage,    \* [Msgs -> {"unsent", "sealed", "sent"}]
  pid,      \* [Msgs -> Nat]: manifest.prekey_id
  seal,     \* [Msgs -> Keys \cup {LongTerm}]: the key it is encrypted to
  opened,   \* messages that were decrypted and recorded
  rx,       \* receive path: "idle", "unpublish" or "consume"
  cur,      \* the message whose prekey it is consuming
  kept      \* history: keys whose local delete failed or was never reached

vars == <<now, made, life, store, rrset, todo, hand, stage, pid, seal, opened, rx, cur, kept>>
refreshVars == <<made, life, todo, hand>>
sendVars    == <<stage, pid, seal>>
recvVars    == <<opened, rx, cur, kept>>

\* NO_PREKEY, the wire value for "sealed to the long-term key".
NO_PREKEY == 0

Records == [id : Ids, key : Keys]
Rows    == [id : Ids, key : Keys, wire : Keys \cup {NoKey}]

TypeOK ==
  /\ now \in Nat
  /\ made \subseteq Keys
  /\ life \in [Keys -> Nat]
  /\ store \subseteq Rows
  /\ rrset \subseteq Records
  /\ todo \subseteq Records
  /\ hand \subseteq Records
  /\ stage \in [Msgs -> {"unsent", "sealed", "sent"}]
  /\ pid \in [Msgs -> Nat]
  /\ seal \in [Msgs -> Keys \cup {LongTerm}]
  /\ opened \subseteq Msgs
  /\ rx \in {"idle", "unpublish", "consume"}
  /\ cur \subseteq Msgs
  /\ kept \subseteq Keys

Init ==
  /\ now = 0 /\ made = {} /\ life = [k \in Keys |-> 0]
  /\ store = {} /\ rrset = {} /\ todo = {} /\ hand = {}
  /\ stage = [m \in Msgs |-> "unsent"]
  /\ pid = [m \in Msgs |-> NO_PREKEY] /\ seal = [m \in Msgs |-> LongTerm]
  /\ opened = {} /\ rx = "idle" /\ cur = {} /\ kept = {}

Tick ==
  /\ now < MaxTime
  /\ now' = now + 1
  /\ UNCHANGED <<store, rrset, refreshVars, sendVars, recvVars>>

---------------------------------------------------------------------------
(* refresh_prekeys *)

\* Mutant of FreshIds: ids are not checked against the table.
FreshIdsUnchecked(P) == \A a, b \in P : a.id = b.id => a = b

\* allocate_prekey_id: an id no row has, zero included.
FreshIds(P) ==
  /\ \A a, b \in P : a.id = b.id => a = b
  /\ \A a \in P : \A r \in store : r.id # a.id

FreshKeys(P) ==
  /\ \A a \in P : a.key \notin made
  /\ \A a, b \in P : a.key = b.key => a = b

\* Mutant of Commit: the private halves are not on disk when publishing starts.
CommitLater(P) == store

\* The INSERTs of generate_pool, committed together.
Commit(P) == store \cup {[id |-> a.id, key |-> a.key, wire |-> NoKey] : a \in P}

\* generate_pool: one transaction for all rows, one exp for all keys.
GeneratePool(P) ==
  /\ todo = {} /\ hand = {}
  /\ Cardinality(P) = Count /\ FreshIds(P) /\ FreshKeys(P)
  /\ store' = Commit(P)
  /\ made' = made \cup {a.key : a \in P}
  /\ life' = [k \in Keys |-> IF \E a \in P : a.key = k THEN now + Ttl ELSE life[k]]
  /\ todo' = P
  /\ UNCHANGED <<now, rrset, hand, sendVars, recvVars>>

\* publish_txt_record returned Ok(true).
Publish(a) ==
  /\ a \in todo /\ hand = {}
  /\ rrset' = rrset \cup {a}
  /\ todo' = todo \ {a} /\ hand' = {a}
  /\ UNCHANGED <<now, made, life, store, sendVars, recvVars>>

\* Ok(false): this key is skipped.  A fan-out that misses its quorum leaves the
\* record on the writers that took it.
PublishRefused(a) ==
  /\ Faults /\ a \in todo /\ hand = {}
  /\ rrset' \in {rrset, rrset \cup {a}}
  /\ todo' = todo \ {a}
  /\ UNCHANGED <<now, made, life, store, hand, sendVars, recvVars>>

\* Err: the whole refresh returns; the record may have landed all the same.
PublishFails(a) ==
  /\ Faults /\ a \in todo /\ hand = {}
  /\ rrset' \in {rrset, rrset \cup {a}}
  /\ todo' = {}
  /\ UNCHANGED <<now, made, life, store, hand, sendVars, recvVars>>

\* Mutant of RecordWire: an upsert that creates a row when there is none.
RecordWireUpserts(a) ==
  /\ a \in hand
  /\ store' = {r \in store : r.id # a.id} \cup
       IF \E r \in store : r.id = a.id
       THEN {[r EXCEPT !.wire = a.key] : r \in {s \in store : s.id = a.id}}
       ELSE {[id |-> a.id, key |-> NoKey, wire |-> a.key]}
  /\ hand' = {}
  /\ UNCHANGED <<now, made, life, rrset, todo, sendVars, recvVars>>

\* record_wire: UPDATE by id, a no-op when the row is gone.
RecordWire(a) ==
  /\ a \in hand
  /\ store' = {r \in store : r.id # a.id}
                \cup {[r EXCEPT !.wire = a.key] : r \in {s \in store : s.id = a.id}}
  /\ hand' = {}
  /\ UNCHANGED <<now, made, life, rrset, todo, sendVars, recvVars>>

\* The refreshing process dies, or record_wire returns Err.
RefreshDies ==
  /\ Faults /\ todo \cup hand # {}
  /\ todo' = {} /\ hand' = {}
  /\ UNCHANGED <<now, made, life, store, rrset, sendVars, recvVars>>

---------------------------------------------------------------------------
(* Senders *)

\* Prekey::is_expired.
Expired(k) == now > life[k]

\* pick_recipient_prekey and the encryption: any live record of the RRset.
Pick(m, a) ==
  /\ stage[m] = "unsent"
  /\ a \in rrset /\ ~Expired(a.key)
  /\ stage' = [stage EXCEPT ![m] = "sealed"]
  /\ pid' = [pid EXCEPT ![m] = a.id]
  /\ seal' = [seal EXCEPT ![m] = a.key]
  /\ UNCHANGED <<now, store, rrset, refreshVars, recvVars>>

\* No live record, or the lookup failed: the long-term key.
PickNone(m) ==
  /\ stage[m] = "unsent"
  /\ Faults \/ \A a \in rrset : Expired(a.key)
  /\ stage' = [stage EXCEPT ![m] = "sealed"]
  /\ UNCHANGED <<now, store, rrset, refreshVars, pid, seal, recvVars>>

\* The chunks and the manifest are in DNS.
Send(m) ==
  /\ stage[m] = "sealed"
  /\ stage' = [stage EXCEPT ![m] = "sent"]
  /\ UNCHANGED <<now, store, rrset, refreshVars, pid, seal, recvVars>>

---------------------------------------------------------------------------
(* The receive path *)

\* get_private_key: the row must be there and its exp in the future.
Fetched(i) == {r.key : r \in {s \in store : s.id = i /\ life[s.key] > now}}

\* The key fetch_and_decrypt() uses is the one the sender encrypted to.
CanOpen(m) ==
  \/ pid[m] = NO_PREKEY /\ seal[m] = LongTerm
  \/ pid[m] # NO_PREKEY /\ seal[m] \in Fetched(pid[m])

\* Decrypted and recorded; a message under a prekey goes on to consume it.
Open(m) ==
  /\ rx = "idle" /\ stage[m] = "sent" /\ m \notin opened
  /\ CanOpen(m)
  /\ opened' = opened \cup {m}
  /\ rx' = IF pid[m] = NO_PREKEY THEN "idle" ELSE "unpublish"
  /\ cur' = IF pid[m] = NO_PREKEY THEN {} ELSE {m}
  /\ UNCHANGED <<now, store, rrset, refreshVars, sendVars, kept>>

\* Mutant of Withdrawn: the whole RRset goes (value = None).
WithdrawnAll(i) == rrset

\* get_wire and delete_txt_record(name, Some(wire)): exactly the record that
\* was remembered, and nothing when none was.
Withdrawn(i) == {a \in rrset : \E r \in store : r.id = i /\ a.id = i /\ a.key = r.wire}

Unpublish(m) ==
  /\ rx = "unpublish" /\ m \in cur
  /\ \/ rrset' = rrset \ Withdrawn(pid[m])
     \/ Faults /\ rrset' = rrset
  /\ rx' = "consume"
  /\ UNCHANGED <<now, store, refreshVars, sendVars, opened, cur, kept>>

\* Mutant of Consume: only the audit UPDATE runs, the row stays.
ConsumeKeepsRow(m) ==
  /\ rx = "consume" /\ m \in cur
  /\ rx' = "idle" /\ cur' = {}
  /\ UNCHANGED <<now, store, rrset, refreshVars, sendVars, opened, kept>>

\* PrekeyStore::consume; an error is only logged.
Consume(m) ==
  /\ rx = "consume" /\ m \in cur
  /\ \/ store' = {r \in store : r.id # pid[m]} /\ kept' = kept
     \/ Faults /\ store' = store /\ kept' = kept \cup {seal[m]}
  /\ rx' = "idle" /\ cur' = {}
  /\ UNCHANGED <<now, rrset, refreshVars, sendVars, opened>>

\* The receiving process dies between decrypt and delete.
ReceiverDies(m) ==
  /\ Faults /\ m \in cur
  /\ kept' = kept \cup {seal[m]}
  /\ rx' = "idle" /\ cur' = {}
  /\ UNCHANGED <<now, store, rrset, refreshVars, sendVars, opened>>

---------------------------------------------------------------------------
Next ==
  \/ Tick
  \/ \E P \in SUBSET Records : GeneratePool(P)
  \/ \E a \in Records : Publish(a) \/ PublishRefused(a) \/ PublishFails(a) \/ RecordWire(a)
  \/ RefreshDies
  \/ \E m \in Msgs, a \in Records : Pick(m, a)
  \/ \E m \in Msgs : \/ PickNone(m) \/ Send(m) \/ Open(m)
                     \/ Unpublish(m) \/ Consume(m) \/ ReceiverDies(m)

Spec == Init /\ [][Next]_vars

---------------------------------------------------------------------------
(* Properties *)

Burnt   == {seal[m] : m \in opened}
OnDisk  == {r.key : r \in store}
HasRow(i, k) == \E r \in store : r.id = i /\ r.key = k

\* generate_pool commits before refresh_prekeys publishes: whatever crashes
\* and lost answers come in between, a published key nobody used has its
\* private half on disk under the published id.
Backed == \A a \in rrset : a.key \in Burnt \/ HasRow(a.id, a.key)

\* A message under a prekey fails to open only because another message used
\* its key first or because the key expired, never because ids collide, a
\* refresh ran in between or a withdrawal hit the wrong record.
OnlyBurntOrExpired ==
  \A m \in Msgs :
    pid[m] # NO_PREKEY /\ m \notin opened
      => CanOpen(m) \/ seal[m] \in Burnt \/ life[seal[m]] <= now

\* One-time use: two messages are opened under one key only when its local
\* delete failed or was cut off.
OneTime ==
  \A m, n \in opened :
    m # n /\ seal[m] = seal[n] /\ seal[m] # LongTerm => seal[m] \in kept

\* A sender never loses a live key to somebody else's withdrawal: the DNS
\* delete of one key leaves every other record alone.
WithdrawsOnlyUsed == [][\A a \in rrset : a \in rrset' \/ a.key \in Burnt]_vars

---------------------------------------------------------------------------
(* The inductive strengthening of the properties *)

\* The primary key of the table, and a fresh key pair for every row.
OneRow == \A r, s \in store : r.id = s.id \/ r.key = s.key => r = s

\* Keys are never drawn twice.
Drawn ==
  /\ \A r \in store : r.key \in made
  /\ \A a \in todo \cup hand \cup rrset : a.key \in made
  /\ \A m \in Msgs : seal[m] \in made \cup {LongTerm}

\* A record a refresh has in hand is backed before it is published, and a key
\* stays backed while a message sealed to it is on its way.
AllBacked ==
  /\ \A a \in todo \cup hand \cup rrset : a.key \in Burnt \/ HasRow(a.id, a.key)
  /\ \A m \in Msgs : seal[m] # LongTerm => seal[m] \in Burnt \/ HasRow(pid[m], seal[m])
  /\ \A m \in Msgs : seal[m] = LongTerm => pid[m] = NO_PREKEY

\* The key being consumed keeps its row until the local delete.
CurOK ==
  /\ rx = "idle" => cur = {}
  /\ \A m \in opened : stage[m] = "sent"
  /\ \A m, n \in cur : m = n
  /\ \A m \in cur : m \in opened /\ seal[m] # LongTerm /\ HasRow(pid[m], seal[m])

\* A used key is on disk only while it is being consumed or after a failure.
UsedOnDisk ==
  \A r \in store : r.key \in Burnt => r.key \in kept \/ \E m \in cur : seal[m] = r.key

\* A row remembers no key but its own, and what a refresh has in hand is what
\* it committed.
WireOK ==
  /\ \A r \in store : r.wire \in {NoKey, r.key}
  /\ \A a \in todo \cup hand, r \in store : r.id = a.id => r.key = a.key

PoolInv == TypeOK /\ OneRow /\ Drawn /\ AllBacked /\ CurOK /\ UsedOnDisk /\ OneTime
=============================================================================
