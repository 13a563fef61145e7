------------------------------ MODULE Mailbox ------------------------------
(***************************************************************************)
(* The mailbox of one dnsmesh client: senders who publish manifests in     *)
(* DNS, receive_messages() calls that walk the slots, and the local sqlite *)
(* state they share (replay cache, prekey store, contacts, intro queue and *)
(* denylist).                                                              *)
(*                                                                         *)
(* A receive call is split at every point where the code awaits or commits *)
(* a row, so that the clock, the senders, the user's review commands, a    *)
(* second receive call and a crash can come in between.  Cryptography is   *)
(* abstracted: a message that verifies is a member of Msgs, its signing    *)
(* key is Sender[m]; records that fail to verify are never delivered and   *)
(* are left out.                                                           *)
(***************************************************************************)
EXTENDS Naturals

CONSTANTS
  Senders,      \* Ed25519 signing keys (sender_spk)
  Users,        \* usernames, the primary key of the contacts table
  UserOf,       \* [Senders -> Users]
  Zones,        \* mesh zones
  OwnZone,      \* DmpClient::domain
  ZoneOf,       \* [Senders -> Zones]: the zone a sender publishes under
  Slots,        \* mailbox slot numbers, 0..SLOT_COUNT-1
  Msgs,         \* message ids
  Sender,       \* [Msgs -> Senders]
  SlotOf,       \* [Msgs -> Slots]: slot_for_msg_id
  Prekeys,      \* one-time prekey ids of the pool
  NoPrekey,     \* NO_PREKEY: the message uses the long-term key
  PrekeyExp,    \* exp of the pool (generate_pool gives one exp to all)
  Workers,      \* concurrent receive_messages() calls
  NoMsg,        \* a worker with no manifest in hand
  InitContacts, \* the contact tables that may be on disk at the start
  RotationOn,   \* DmpClientConfig::rotation_chain_enabled
  Ttl,          \* DEFAULT_TTL_SECONDS
  MaxTime       \* bound on the clock

\* A row of the contacts table; the empty domain of a row written before
\* migration V3 is "".
ContactRows == [user : Users, spk : Senders, domain : Zones \cup {""}]

ASSUME NatAssumption == /\ Ttl \in Nat \ {0} /\ MaxTime \in Nat /\ PrekeyExp \in Nat
ASSUME MapAssumption ==
  /\ UserOf \in [Senders -> Users] /\ ZoneOf \in [Senders -> Zones]
  /\ Sender \in [Msgs -> Senders] /\ SlotOf \in [Msgs -> Slots]
  /\ OwnZone \in Zones /\ RotationOn \in BOOLEAN
ASSUME SentinelAssumption == NoPrekey \notin Prekeys /\ NoMsg \notin Msgs
ASSUME ContactAssumption ==
  /\ InitContacts \subseteq SUBSET ContactRows
  /\ \A rows \in InitContacts : \A c, d \in rows : c.user = d.user => c = d

VARIABLES
  now,       \* Unix clock
  stage,     \* [Msgs -> ...]: how far send_message() got
  prekey,    \* [Msgs -> Prekeys \cup {NoPrekey}]: manifest.prekey_id
  exp,       \* [Msgs -> Nat]: manifest.exp = header ts + ttl
  dns,       \* <<zone, m>>: manifest and chunks of m are served under zone
  pool,      \* prekey ids in the published prekey RRset
  heads,     \* <<pinned, head>>: the published rotation chain of pinned ends at head
  revoked,   \* keys with a published revocation
  contacts,  \* contacts table
  replay,    \* replay_cache rows; the expiry of row m is exp[m]
  prekeys,   \* prekeys table: private halves on disk
  retained,  \* history: prekeys whose local delete failed
  intros,    \* intro_queue rows
  blocked,   \* intro_denylist
  pc,        \* [Workers -> Steps]: where each receive_messages() call is
  listed,    \*   its snapshot of list_contacts()
  start,     \*   `now`, read once
  todo,      \*   <<zone, slot>> names it has not queried yet
  batch,     \*   manifests of the current RRset still to look at
  cur,       \*   the manifest in hand
  quarantine,\*   the routing decision for it
  results,   \*   Vec<InboxMessage>, returned at the end
  inbox,     \* history: [Msgs -> 0..Many], how often the user was given m
  fate       \* history: [Msgs -> Fates], how a message was last settled

senderVars == <<stage, prekey, exp, dns, heads, revoked>>
storeVars  == <<contacts, replay, prekeys, retained, intros, blocked>>
userVars   == <<inbox, fate>>
callData   == <<listed, start, todo, batch, cur, quarantine, results>>
callVars   == <<pc, callData>>
vars == <<now, senderVars, pool, storeVars, callVars, userVars>>

Stages == {"unsent", "draft", "sent", "failed"}
Steps  == {"idle", "walk", "fetch", "decoded", "unpublish", "consume", "finish"}
Fates  == {"none", "given", "lost", "rejected", "blocked"}

\* The inbox history counts "never", "once" and "more than once".
Many == 2
Given(n) == IF n < Many THEN n + 1 ELSE n

TypeOK ==
  /\ now \in Nat
  /\ stage \in [Msgs -> Stages]
  /\ prekey \in [Msgs -> Prekeys \cup {NoPrekey}]
  /\ exp \in [Msgs -> Nat]
  /\ dns \subseteq Zones \X Msgs
  /\ pool \subseteq Prekeys
  /\ heads \subseteq Senders \X Senders
  /\ revoked \subseteq Senders
  /\ contacts \subseteq ContactRows
  /\ replay \subseteq Msgs
  /\ prekeys \subseteq Prekeys
  /\ retained \subseteq Prekeys
  /\ intros \subseteq Msgs
  /\ blocked \subseteq Senders
  /\ pc \in [Workers -> Steps]
  /\ listed \in [Workers -> SUBSET ContactRows]
  /\ start \in [Workers -> Nat]
  /\ todo \in [Workers -> SUBSET (Zones \X Slots)]
  /\ batch \in [Workers -> SUBSET Msgs]
  /\ cur \in [Workers -> Msgs \cup {NoMsg}]
  /\ quarantine \in [Workers -> BOOLEAN]
  /\ results \in [Workers -> SUBSET Msgs]
  /\ inbox \in [Msgs -> 0..Many]
  /\ fate \in [Msgs -> Fates]

\* A freshly refreshed pool, nothing sent, and the contacts already on disk.
Init ==
  /\ now = 0
  /\ stage = [m \in Msgs |-> "unsent"]
  /\ prekey = [m \in Msgs |-> NoPrekey]
  /\ exp = [m \in Msgs |-> 0]
  /\ dns = {} /\ pool = Prekeys
  /\ heads = {} /\ revoked = {}
  /\ contacts \in InitContacts
  /\ replay = {} /\ prekeys = Prekeys /\ retained = {}
  /\ intros = {} /\ blocked = {}
  /\ pc = [w \in Workers |-> "idle"]
  /\ listed = [w \in Workers |-> {}] /\ start = [w \in Workers |-> 0]
  /\ todo = [w \in Workers |-> {}] /\ batch = [w \in Workers |-> {}]
  /\ cur = [w \in Workers |-> NoMsg] /\ quarantine = [w \in Workers |-> FALSE]
  /\ results = [w \in Workers |-> {}]
  /\ inbox = [m \in Msgs |-> 0]
  /\ fate = [m \in Msgs |-> "none"]

---------------------------------------------------------------------------
(* Senders and DNS *)

\* SlotManifest::is_expired, DMPHeader::is_expired, Prekey::is_expired.
Expired(e, t) == t > e

\* send_message() up to the encryption: a random live prekey of the published
\* RRset, or the long-term key when there is none or the lookup fails.
Compose(m) ==
  /\ stage[m] = "unsent"
  /\ \E p \in {NoPrekey} \cup IF Expired(PrekeyExp, now) THEN {} ELSE pool :
       prekey' = [prekey EXCEPT ![m] = p]
  /\ stage' = [stage EXCEPT ![m] = "draft"]
  /\ exp' = [exp EXCEPT ![m] = now + Ttl]
  /\ UNCHANGED <<now, dns, heads, revoked, pool, storeVars, callVars, userVars>>

\* The chunks and then the manifest land under the sender's own zone (whether
\* or not the acknowledgement of the last write reaches the sender).
PublishManifest(m) ==
  /\ stage[m] = "draft"
  /\ stage' = [stage EXCEPT ![m] = "sent"]
  /\ dns' = dns \cup {<<ZoneOf[Sender[m]], m>>}
  /\ UNCHANGED <<now, prekey, exp, heads, revoked, pool, storeVars, callVars, userVars>>

\* A chunk or manifest publish is refused: send_message() returns Err, and
\* chunks already published stay behind without a manifest.
FailSend(m) ==
  /\ stage[m] = "draft"
  /\ stage' = [stage EXCEPT ![m] = "failed"]
  /\ UNCHANGED <<now, prekey, exp, dns, heads, revoked, pool, storeVars, callVars, userVars>>

\* The same signed records also appear under another zone.
Mirror(m, z) ==
  /\ \E y \in Zones : <<y, m>> \in dns
  /\ <<z, m>> \notin dns
  /\ dns' = dns \cup {<<z, m>>}
  /\ UNCHANGED <<now, stage, prekey, exp, heads, revoked, pool, storeVars, callVars, userVars>>

\* A contact publishes a rotation from key s to key t of the same user (one
\* per behaviour; RotationChain models longer and forked chains).  A client
\* that does not walk chains never reads these records.
PublishRotation(s, t) ==
  /\ RotationOn /\ s # t /\ UserOf[s] = UserOf[t] /\ ZoneOf[s] = ZoneOf[t]
  /\ heads = {} /\ {s, t} \cap revoked = {}
  /\ heads' = {<<s, t>>}
  /\ UNCHANGED <<now, stage, prekey, exp, dns, revoked, pool, storeVars, callVars, userVars>>

\* A contact revokes key s: no chain through s is trusted any more.
PublishRevocation(s) ==
  /\ RotationOn /\ s \notin revoked
  /\ revoked' = revoked \cup {s}
  /\ heads' = {h \in heads : h[1] # s /\ h[2] # s}
  /\ UNCHANGED <<now, stage, prekey, exp, dns, pool, storeVars, callVars, userVars>>

Tick ==
  /\ now < MaxTime
  /\ now' = now + 1
  /\ UNCHANGED <<senderVars, pool, storeVars, callVars, userVars>>

---------------------------------------------------------------------------
(* Local stores *)

\* Mutant of Purge: the row goes one second early.
PurgeEarly(rows) == {m \in rows : exp[m] > now + 1}

\* ReplayCache::purge_locked: rows with expiry <= now are deleted.
Purge(rows) == {m \in rows : exp[m] > now}

\* ReplayCache::has_seen, which purges first.
HasSeen(m) == m \in Purge(replay)

\* ContactStore::add_contact: an upsert on the username.
Upsert(rows, s) ==
  {c \in rows : c.user # UserOf[s]}
    \cup {[user |-> UserOf[s], spk |-> s, domain |-> ZoneOf[s]]}

\* PrekeyStore::get_private_key: the row must exist and be unexpired.
HasPrivateKey(p) == p \in prekeys /\ PrekeyExp > now
---------------------------------------------------------------------------
(* receive_messages() *)

\* The routing inputs of call w: who is pinned in its snapshot, and whether it
\* runs in TOFU mode.
Pinned(w) == {r.spk : r \in listed[w]}
Tofu(w)   == listed[w] = {}

\* rotation_manifest_accepted: some listed contact's chain ends at s.
ChainAccepts(w, s) ==
  \E r \in listed[w] : r.domain # "" /\ <<r.spk, s>> \in heads

\* rotation_manifest_revoked: the RRset of a listed contact revokes s.
ChainRevokes(w, s) ==
  s \in revoked /\ \E r \in listed[w] : r.domain = ZoneOf[s] /\ r.user = UserOf[s]

\* Mutant of Start: rows without a domain are not skipped.
StartEveryDomain(w) ==
  /\ pc[w] = "idle"
  /\ pc' = [pc EXCEPT ![w] = "walk"]
  /\ listed' = [listed EXCEPT ![w] = contacts]
  /\ start' = [start EXCEPT ![w] = now]
  /\ todo' = [todo EXCEPT ![w] = ({OwnZone} \cup {c.domain : c \in contacts}) \X Slots]
  /\ UNCHANGED <<now, senderVars, pool, storeVars, userVars, batch, cur, quarantine, results>>

\* list_contacts() and the zone walk: the own zone, then each contact's.
Start(w) ==
  /\ pc[w] = "idle"
  /\ pc' = [pc EXCEPT ![w] = "walk"]
  /\ listed' = [listed EXCEPT ![w] = contacts]
  /\ start' = [start EXCEPT ![w] = now]
  /\ todo' = [todo EXCEPT ![w] =
       ({OwnZone} \cup ({c.domain : c \in contacts} \ {""})) \X Slots]
  /\ UNCHANGED <<now, senderVars, pool, storeVars, userVars, batch, cur, quarantine, results>>

\* query_txt_record(slot_domain(..)): the RRset, or nothing on a miss (which
\* is how the resolver pool also reports a transport failure).
Query(w, z, s, hit) ==
  /\ pc[w] = "walk" /\ batch[w] = {}
  /\ <<z, s>> \in todo[w]
  /\ todo' = [todo EXCEPT ![w] = @ \ {<<z, s>>}]
  /\ batch' = [batch EXCEPT ![w] =
       {m \in Msgs : hit /\ SlotOf[m] = s /\ <<z, m>> \in dns}]
  /\ UNCHANGED <<now, senderVars, pool, storeVars, userVars, pc, listed, start, cur,
                 quarantine, results>>

\* The checks made on one manifest before any chunk is fetched.  `hit` says
\* whether the rotation RRset lookups of an opted-in client were answered.
Quarantine(w, s, hit) ==
  /\ ~Tofu(w) /\ s \notin Pinned(w)
  /\ ~(RotationOn /\ hit /\ ChainAccepts(w, s))

\* Mutant of DropsEarly: the denylist is not consulted.
DropsEarlyNoDenylist(w, m, hit) ==
  \/ Expired(exp[m], start[w])
  \/ Sender[m] \in Pinned(w) /\ RotationOn /\ hit /\ ChainRevokes(w, Sender[m])

\* Expired at the time the call began, denylisted, or revoked.
DropsEarly(w, m, hit) ==
  \/ Expired(exp[m], start[w])
  \/ Quarantine(w, Sender[m], hit) /\ Sender[m] \in blocked
  \/ Sender[m] \in Pinned(w) /\ RotationOn /\ hit /\ ChainRevokes(w, Sender[m])

\* Mutant of TakeUp: check_and_record() before the fetch instead of has_seen().
TakeUpRecords(w, m, hit) ==
  /\ pc[w] = "walk" /\ m \in batch[w] /\ (hit \/ RotationOn)
  /\ ~DropsEarly(w, m, hit) /\ ~HasSeen(m)
  /\ replay' = Purge(replay) \cup {m}
  /\ batch' = [batch EXCEPT ![w] = @ \ {m}]
  /\ pc' = [pc EXCEPT ![w] = "fetch"]
  /\ cur' = [cur EXCEPT ![w] = m]
  /\ quarantine' = [quarantine EXCEPT ![w] = Quarantine(w, Sender[m], hit)]
  /\ UNCHANGED <<now, senderVars, pool, contacts, prekeys, retained, intros, blocked,
                 userVars, listed, start, todo, results>>

\* The manifest passes every check, has_seen() included: fetch it.
TakeUp(w, m, hit) ==
  /\ pc[w] = "walk" /\ m \in batch[w] /\ (hit \/ RotationOn)
  /\ ~DropsEarly(w, m, hit) /\ ~HasSeen(m)
  /\ replay' = Purge(replay)
  /\ batch' = [batch EXCEPT ![w] = @ \ {m}]
  /\ pc' = [pc EXCEPT ![w] = "fetch"]
  /\ cur' = [cur EXCEPT ![w] = m]
  /\ quarantine' = [quarantine EXCEPT ![w] = Quarantine(w, Sender[m], hit)]
  /\ UNCHANGED <<now, senderVars, pool, contacts, prekeys, retained, intros, blocked,
                 userVars, listed, start, todo, results>>

\* The manifest is skipped; has_seen() has purged if it was reached.
Skip(w, m, hit) ==
  /\ pc[w] = "walk" /\ m \in batch[w] /\ (hit \/ RotationOn)
  /\ \/ DropsEarly(w, m, hit) /\ UNCHANGED replay
     \/ ~DropsEarly(w, m, hit) /\ HasSeen(m) /\ replay' = Purge(replay)
  /\ batch' = [batch EXCEPT ![w] = @ \ {m}]
  /\ UNCHANGED <<now, senderVars, pool, contacts, prekeys, retained, intros, blocked,
                 userVars, pc, listed, start, todo, cur, quarantine, results>>

\* What fetch_and_decrypt() needs besides the chunks.
Decryptable(m) ==
  /\ ~Expired(exp[m], now)
  /\ prekey[m] # NoPrekey => HasPrivateKey(prekey[m])

\* Enough chunks arrive, the header is unexpired, the key is there.
FetchOk(w) ==
  /\ pc[w] = "fetch" /\ Decryptable(cur[w])
  /\ pc' = [pc EXCEPT ![w] = "decoded"]
  /\ UNCHANGED <<now, senderVars, pool, storeVars, userVars, callData>>

\* None: chunks missing, header expired, key gone; a later call retries.
FetchMiss(w) ==
  /\ pc[w] = "fetch"
  /\ pc' = [pc EXCEPT ![w] = "walk"]
  /\ cur' = [cur EXCEPT ![w] = NoMsg]
  /\ UNCHANGED <<now, senderVars, pool, storeVars, userVars, listed, start, todo, batch,
                 quarantine, results>>

\* Mutant of Record: the pair is not remembered.
RecordNothing(w) ==
  /\ pc[w] = "decoded"
  /\ replay' = Purge(replay)
  /\ pc' = [pc EXCEPT ![w] = IF prekey[cur[w]] = NoPrekey THEN "finish" ELSE "unpublish"]
  /\ UNCHANGED <<now, senderVars, pool, contacts, prekeys, retained, intros, blocked,
                 userVars, callData>>

\* replay_cache.record(.., Some(manifest.exp)).
Record(w) ==
  /\ pc[w] = "decoded"
  /\ replay' = Purge(replay) \cup {cur[w]}
  /\ pc' = [pc EXCEPT ![w] = IF prekey[cur[w]] = NoPrekey THEN "finish" ELSE "unpublish"]
  /\ UNCHANGED <<now, senderVars, pool, contacts, prekeys, retained, intros, blocked,
                 userVars, callData>>

\* Mutant of Unpublish: a failed DNS delete skips the local delete.
UnpublishOrSkip(w) ==
  /\ pc[w] = "unpublish"
  /\ \/ pool' = pool \ {prekey[cur[w]]} /\ pc' = [pc EXCEPT ![w] = "consume"]
     \/ pool' = pool /\ pc' = [pc EXCEPT ![w] = "finish"]
  /\ UNCHANGED <<now, senderVars, storeVars, userVars, callData>>

\* consume_prekey_with_dns, DNS half: best effort.
Unpublish(w) ==
  /\ pc[w] = "unpublish"
  /\ \/ pool' = pool \ {prekey[cur[w]]}
     \/ pool' = pool
  /\ pc' = [pc EXCEPT ![w] = "consume"]
  /\ UNCHANGED <<now, senderVars, storeVars, userVars, callData>>

\* Mutant of Consume: the row is kept (the Python store's bug).
ConsumeKeepsRow(w) ==
  /\ pc[w] = "consume"
  /\ pc' = [pc EXCEPT ![w] = "finish"]
  /\ UNCHANGED <<now, senderVars, pool, storeVars, userVars, callData>>

\* consume_prekey_with_dns, local half: a failing delete is only logged.
Consume(w) ==
  /\ pc[w] = "consume"
  /\ \/ prekeys' = prekeys \ {prekey[cur[w]]} /\ UNCHANGED retained
     \/ retained' = retained \cup {prekey[cur[w]]} /\ UNCHANGED prekeys
  /\ pc' = [pc EXCEPT ![w] = "finish"]
  /\ UNCHANGED <<now, senderVars, pool, contacts, replay, intros, blocked, userVars, callData>>

\* results.push(decoded).
Deliver(w) ==
  /\ pc[w] = "finish" /\ ~quarantine[w]
  /\ results' = [results EXCEPT ![w] = @ \cup {cur[w]}]
  /\ pc' = [pc EXCEPT ![w] = "walk"]
  /\ cur' = [cur EXCEPT ![w] = NoMsg]
  /\ UNCHANGED <<now, senderVars, pool, storeVars, userVars, listed, start, todo, batch,
                 quarantine>>

\* Mutant of Enqueue: the message is not enqueued.
EnqueueNothing(w) ==
  /\ pc[w] = "finish" /\ quarantine[w]
  /\ pc' = [pc EXCEPT ![w] = "walk"]
  /\ cur' = [cur EXCEPT ![w] = NoMsg]
  /\ UNCHANGED <<now, senderVars, pool, storeVars, userVars, listed, start, todo, batch,
                 quarantine, results>>

\* intro_queue.enqueue: not for a sender denylisted meanwhile, and one row
\* per message (UNIQUE).
Enqueue(w) ==
  LET m == cur[w]
      denied == Sender[m] \in blocked IN
  /\ pc[w] = "finish" /\ quarantine[w]
  /\ intros' = IF denied THEN intros ELSE intros \cup {m}
  /\ fate' = IF denied THEN [fate EXCEPT ![m] = "blocked"] ELSE fate
  /\ pc' = [pc EXCEPT ![w] = "walk"]
  /\ cur' = [cur EXCEPT ![w] = NoMsg]
  /\ UNCHANGED <<now, senderVars, pool, contacts, replay, prekeys, retained, blocked, inbox,
                 listed, start, todo, batch, quarantine, results>>

\* The call is over and its memory gone.
Forget(w) ==
  /\ pc' = [pc EXCEPT ![w] = "idle"]
  /\ listed' = [listed EXCEPT ![w] = {}] /\ start' = [start EXCEPT ![w] = 0]
  /\ todo' = [todo EXCEPT ![w] = {}] /\ batch' = [batch EXCEPT ![w] = {}]
  /\ cur' = [cur EXCEPT ![w] = NoMsg] /\ quarantine' = [quarantine EXCEPT ![w] = FALSE]
  /\ results' = [results EXCEPT ![w] = {}]

\* Ok(results).
Return(w) ==
  /\ pc[w] = "walk" /\ batch[w] = {} /\ todo[w] = {}
  /\ inbox' = [m \in Msgs |-> IF m \in results[w] THEN Given(inbox[m]) ELSE inbox[m]]
  /\ fate' = [m \in Msgs |-> IF m \in results[w] THEN "given" ELSE fate[m]]
  /\ Forget(w)
  /\ UNCHANGED <<now, senderVars, pool, storeVars>>

\* An Err propagated by `?` (a reader, replay cache, rotation or intro queue
\* error) or a crash: the call's memory is gone, what it committed stays.
Recorded(w) == pc[w] \in {"unpublish", "consume", "finish"}
Abort(w) ==
  /\ pc[w] # "idle"
  /\ fate' = [m \in Msgs |->
       IF m \in results[w] \/ (Recorded(w) /\ m = cur[w]) THEN "lost" ELSE fate[m]]
  /\ Forget(w)
  /\ UNCHANGED <<now, senderVars, pool, storeVars, inbox>>

---------------------------------------------------------------------------
(* User commands *)

\* add_contact; also the pin half of trust_intro.
Pin(s) ==
  /\ contacts' = Upsert(contacts, s)
  /\ contacts' # contacts
  /\ UNCHANGED <<now, senderVars, pool, replay, prekeys, retained, intros, blocked, callVars, userVars>>

\* accept_intro; also the take half of trust_intro.
AcceptIntro(m) ==
  /\ m \in intros
  /\ intros' = intros \ {m}
  /\ inbox' = [inbox EXCEPT ![m] = Given(@)]
  /\ fate' = [fate EXCEPT ![m] = "given"]
  /\ UNCHANGED <<now, senderVars, pool, contacts, replay, prekeys, retained, blocked, callVars>>

\* block_intro: denylist the sender, then drop this row.
BlockIntro(m) ==
  /\ m \in intros
  /\ blocked' = blocked \cup {Sender[m]}
  /\ intros' = intros \ {m}
  /\ fate' = [fate EXCEPT ![m] = "rejected"]
  /\ UNCHANGED <<now, senderVars, pool, contacts, replay, prekeys, retained, callVars, inbox>>

---------------------------------------------------------------------------
WorkerStep(w) ==
  \/ Start(w)
  \/ \E z \in Zones, s \in Slots, hit \in BOOLEAN : Query(w, z, s, hit)
  \/ \E m \in Msgs, hit \in BOOLEAN : TakeUp(w, m, hit) \/ Skip(w, m, hit)
  \/ FetchOk(w) \/ FetchMiss(w) \/ Record(w) \/ Unpublish(w) \/ Consume(w)
  \/ Deliver(w) \/ Enqueue(w) \/ Return(w) \/ Abort(w)

SenderStep ==
  \/ \E m \in Msgs : Compose(m) \/ PublishManifest(m) \/ FailSend(m)
  \/ \E m \in Msgs, z \in Zones : Mirror(m, z)
  \/ \E s, t \in Senders : PublishRotation(s, t)
  \/ \E s \in Senders : PublishRevocation(s)

UserStep ==
  \/ \E s \in Senders : Pin(s)
  \/ \E m \in Msgs : AcceptIntro(m) \/ BlockIntro(m)

Next == Tick \/ SenderStep \/ UserStep \/ \E w \in Workers : WorkerStep(w)

Spec == Init /\ [][Next]_vars

---------------------------------------------------------------------------
(* Properties *)

\* The places a message can be on its way to the user.
InHand(m)  == \E w \in Workers : cur[w] = m /\ Recorded(w)
Held(m)    == \E w \in Workers : m \in results[w]
Count(b)   == IF b THEN 1 ELSE 0
Copies(m)  == inbox[m] + Count(m \in intros) + Count(Held(m)) + Count(InHand(m))

\* Replay protection (receive.rs has_seen/record): before its expiry a message
\* is in at most one place on its way to the user, whatever crashes, mirrored
\* records and review commands come in between.
OneCopyBeforeExpiry == \A m \in Msgs : now < exp[m] => Copies(m) <= 1

\* The one-time key as a second guard: a message under a prekey whose local
\* delete did not fail is given to the user at most once, after expiry too.
OneCopyUnderPrekey ==
  \A m \in Msgs : prekey[m] \notin retained \cup {NoPrekey} => Copies(m) <= 1

\* Forward secrecy: when the user has a message, or it waits in the intro
\* queue, the private key that decrypts it is gone from the prekey store.
ForwardSecrecy ==
  \A m \in Msgs :
    /\ prekey[m] # NoPrekey
    /\ inbox[m] > 0 \/ m \in intros \/ Held(m)
    => prekey[m] \notin prekeys \/ prekey[m] \in retained

\* A message committed to the replay cache is on its way to the user or was
\* settled: given, rejected, blocked, or lost with an aborted call.
OnTheWay(m) == m \in intros \/ Held(m) \/ InHand(m)
NoSilentLoss == \A m \in replay : OnTheWay(m) \/ fate[m] # "none"

\* block_intro: manifests of a blocked key skip the decrypt, unless the key is
\* a contact's (pinned directly or, with rotation on, reached by a chain).
\* The client cannot fall back to TOFU, which ignores the denylist, because
\* blocking needs a quarantined row and so a pinned contact.
BlockedSkipsDecrypt ==
  [][\A w \in Workers :
       pc[w] # "fetch" /\ pc'[w] = "fetch" =>
         LET s == Sender[cur'[w]] IN
         s \in blocked => \E r \in listed[w] : UserOf[r.spk] = UserOf[s]]_vars

\* The mailbox keeps the promise of Postbox (for one call at a time).
Promise == INSTANCE Postbox WITH
  clock <- now, due <- exp,
  status <- [m \in Msgs |-> IF OnTheWay(m) THEN "taken" ELSE fate[m]]
KeepsPromise == Promise!Spec

---------------------------------------------------------------------------
(* The inductive strengthening of the properties above *)

Busy(w) == pc[w] \in {"fetch", "decoded", "unpublish", "consume", "finish"}

\* A call has a manifest in hand exactly between TakeUp and the end of its
\* processing, and only consumes the prekey of a manifest that names one.
CallOK ==
  \A w \in Workers :
    /\ Busy(w) <=> cur[w] # NoMsg
    /\ pc[w] \in {"unpublish", "consume"} => prekey[cur[w]] # NoPrekey

\* A message whose manifest was never published is nowhere on the client.
Untouched ==
  \A m \in Msgs : stage[m] # "sent" =>
    /\ \A z \in Zones : <<z, m>> \notin dns
    /\ m \notin replay /\ m \notin intros /\ inbox[m] = 0 /\ fate[m] = "none"
    /\ \A w \in Workers : m \notin batch[w] /\ m \notin results[w] /\ cur[w] # m

\* Once a message leaves the consume step its one-time key is gone.
KeyGone(m) == prekey[m] = NoPrekey \/ prekey[m] \notin prekeys \/ prekey[m] \in retained
KeysGone ==
  /\ \A m \in Msgs : inbox[m] > 0 \/ m \in intros \/ Held(m) => KeyGone(m)
  /\ \A w \in Workers : pc[w] = "finish" => KeyGone(cur[w])

\* Before expiry a message that was taken keeps its replay row.
RowKept ==
  \A m \in Msgs : now < exp[m] /\ (OnTheWay(m) \/ inbox[m] > 0 \/ fate[m] # "none")
                   => m \in replay

\* With one call at a time nobody records a message while it is fetched.
NotYetRecorded ==
  \A w \in Workers : pc[w] \in {"fetch", "decoded"} /\ now < exp[cur[w]]
                      => cur[w] \notin replay
SingleCall == \A v, w \in Workers : v = w

---------------------------------------------------------------------------
(* Liveness *)

\* Someone keeps polling (cron, or `recv --watch` restarted after an error), a
\* call that is not aborted goes on, and neither DNS misses nor aborts hit the
\* same step of every call for ever.
Progress(w) ==
  \/ Start(w) \/ \E m \in Msgs, hit \in BOOLEAN : Skip(w, m, hit)
  \/ FetchMiss(w) \/ Unpublish(w) \/ Consume(w) \/ Deliver(w) \/ Enqueue(w) \/ Return(w)
Fairness ==
  \A w \in Workers :
    /\ WF_vars(Progress(w))
    /\ \A z \in Zones, s \in Slots : SF_vars(Query(w, z, s, TRUE))
    /\ \A m \in Msgs : SF_vars(TakeUp(w, m, TRUE))
    /\ SF_vars(FetchOk(w)) /\ SF_vars(Record(w))

FairSpec == Spec /\ Fairness

Polled == {OwnZone} \cup {c.domain : c \in contacts}

\* Retry (receive.rs: "the next receive_messages() retries it"): a manifest
\* published under a polled zone reaches the user or the intro queue, unless
\* it expires, its key is gone, its sender is blocked, or a call that had
\* already recorded it was aborted.
Arrives ==
  \A m \in Msgs :
    (stage[m] = "sent" /\ ZoneOf[Sender[m]] \in Polled)
      ~> \/ inbox[m] > 0 \/ m \in intros \/ fate[m] # "none"
         \/ Expired(exp[m], now) \/ Sender[m] \in blocked
         \/ prekey[m] # NoPrekey /\ ~HasPrivateKey(prekey[m])
=============================================================================
