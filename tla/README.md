# dnsmesh-rs: models, checks and proofs

dnsmesh is a messenger that uses DNS as its only transport. A sender publishes
signed TXT records (chunks and a slot manifest) under its own zone; the
recipient polls the slots of its own zone and of the zones of its contacts,
verifies, decrypts and keeps a local sqlite database of what it has seen. There
is no server in between that could order, deduplicate or acknowledge anything:
every guarantee comes from what the client commits locally, and in which order,
between two DNS lookups that can be missed, delayed or answered by a stale
resolver. This directory models that client in TLA+.

Paths below are relative to the repository root (`crates/...`).

## 1. The system

| Part | Source | State it keeps | Operations | Hard behaviour |
|---|---|---|---|---|
| receive path | `dnsmesh-client/src/receive.rs` | contact snapshot, `now`, zone list, results (memory only) | `receive_messages`, `fetch_and_decrypt`, `consume_prekey_with_dns` | an await before every record; check (`has_seen`) and commit (`record`) separated by a chunk fetch; `?` discards what was collected |
| send path | `dnsmesh-client/src/send.rs` | none | `send_message`, `pick_recipient_prekey`, `publish_chunks` | chunks first, manifest last; a refused publish leaves a prefix behind |
| replay cache | `dnsmesh-storage/src/replay_cache.rs` | `(sender_spk, msg_id, expiry)` rows | `has_seen`, `record`, inline purge | expiry comparison against that of the manifest |
| prekey store, refresh | `dnsmesh-storage/src/prekeys.rs`, `dnsmesh-client/src/publish.rs` | private halves, remembered wire | `generate_pool`, `record_wire`, `get_wire`, `get_private_key`, `consume`, `refresh_prekeys` | publish and `record_wire` are two steps; ids are random and repeat |
| contacts | `dnsmesh-storage/src/contacts.rs`, `dnsmesh-client/src/contacts.rs` | one row per username | `add_contact`, `list_contacts`, `fetch_identity` | read once per call, changed meanwhile |
| intro queue, denylist | `dnsmesh-storage/src/intro_queue.rs`, `dnsmesh-client/src/intro.rs` | quarantined messages, blocked keys | `enqueue`, `accept`, `trust_intro`, `block_intro` | routing of a key changes while its messages are under way |
| rotation, revocation | `dnsmesh-client/src/rotate.rs`, `rotation_chain.rs`, `dnsmesh-core/src/rotation.rs`, `revocation.rs` | published records | `rotate_identity`, `revoke_identity`, `resolve_current_spk`, `is_spk_revoked` | three publishes that can each be lost; two RRset names read one after the other; clocks, forks, loops, the hop bound |
| resolver pool | `dnsmesh-net/src/resolver_pool.rs` | health per host, shared by all queries | `query_txt_record` | concurrent queries write health on answers of different age |
| DNS writers and multi-backend readers | `dnsmesh-net/src/fanout_writer.rs`, `dns_update_writer.rs`, `cloudflare.rs`, `node_token.rs`, `memory.rs`, `union_reader.rs`, `composite_reader.rs` | the zone, a lock per Cloudflare publisher | publish, delete, query | additive versus replacing backends, quorum writes, requests that are lost, late, repeated or outlive their sender |
| chunking and erasure coding | `dnsmesh-core/src/erasure`, `chunking.rs`, `envelope.rs`, `dnsmesh-client/src/send.rs`, `receive.rs` | none | `choose_kn`, `encode`, `decode`, `wrap_block`, envelopes | linear algebra over GF(2^8); damaged, missing and foreign chunks |
| record formats | `dnsmesh-core/src/{heartbeat,cluster,bootstrap,identity,claim,rotation,revocation,prekeys,manifest,message,crypto}.rs` | none | `to_body_bytes`, `from_body_bytes`, `parse_and_verify` | offsets, boundaries, shared magics |
| claim routing, `recv`, Maildir | `dnsmesh-client/src/claim.rs`, `dnsmesh-cli/src/commands/recv.rs`, `mua/maildir.rs` | messages in hand between sweeps and delivery | `send_message_with_claim`, `receive_via_claim`, `poll_once` | several ways to one message; errors after the client has committed |
| account on disk | `dnsmesh-cli/src/commands/{init,register,identity,purge}.rs`, `config.rs` | config, database, TSIG secret, token | `init`, `register`, `tsig register`, `identity publish/rotate/unpublish`, `purge` | order of file writes and deletes, kills, several keys derived from one salt |
| crypto primitives | `dnsmesh-core/src/crypto.rs`, `identity.rs` | none | sign, seal, derive | external libraries |
| FFI, example | `dnsmesh-ffi`, `examples` | none | wrappers | none of their own |

How they interact: `receive_messages()` reads DNS through the resolver pool,
asks the contact store, the rotation chain, the denylist, the replay cache and
the prekey store, and writes to the replay cache, the prekey store, the zone
(the withdrawal of a used prekey) and the intro queue; the review commands and
`refresh_prekeys()` change the same tables from other processes; senders and
contacts change DNS at any time. Below that, the writers turn a publish into requests to one or several
backends, and the readers turn lookups back into one answer. Nothing locks
across these steps. sqlite makes single statements (and the `generate_pool` transaction) atomic, and that
is the grain of the models: **an action is what happens between two awaits or
up to the next committed row.**

What makes each part correct:

- receive path: a message is given once, and not lost without a trace; the key
  that decrypts a delivered message is gone; a missed lookup is retried;
- prekeys: a published key can be used, and is used once;
- rotation: a contact ends at the current key or at none, never at a revoked
  or superseded one;
- resolver pool: failover loses no record, and health changes have a cause;
- writers and readers: what was acknowledged can be found, what was deleted is
  gone, and publishes at one name do not evict each other;
- chunks: any k readable shares give back the bytes that were sent, and the
  name shown with them is the sender's;
- formats: no body makes a parser panic or is taken for another kind;
- inbox: a message found in several ways is shown once, and disappears only
  for a reason; a review command acts on the row it read;
- account: config and database belong together, and only the key that opens
  the database is announced.

## 2. Modules

| Module | Models |
|---|---|
| `Postbox` | abstract: what the mailbox promises for every message |
| `Mailbox` | senders, DNS, concurrent `receive_messages()` calls and the stores they share; implements `Postbox` |
| `MailboxProofs` | theorems about `Mailbox` |
| `PrekeyPool` | `refresh_prekeys()`, the prekey RRset, senders picking keys and the receive path consuming them |
| `PrekeyPoolProofs` | theorems about `PrekeyPool` |
| `RotationChain` | a user who rotates and revokes, a contact who reads and walks the records |
| `RotationChainProofs` | theorems about `RotationChain` and the walk |
| `ResolverPool` | concurrent TXT queries over shared host health |
| `ResolverPoolProofs` | theorems about `ResolverPool` |
| `Zone` | one DNS name: fan-out, the four kinds of writer, union and composite lookups |
| `ZoneProofs` | theorems about `Zone` |
| `RecordCodec` | encoders, parsers and verifiers of eleven record formats |
| `Fec` | the erasure code: field tables, encoder matrix, decoding by elimination, the choice of k and n |
| `ChunkTransfer` | one message body from `send_message()` to `fetch_and_decrypt()`; EXTENDS `Fec` |
| `WireProofs` | theorems about `ChunkTransfer`, `choose_kn` and the parsers of `RecordCodec` |
| `Inbox` | claims, mailbox and claim sweeps of `recv`, delivery, and review commands of several terminals |
| `InboxProofs` | theorems about `Inbox` |
| `Account` | the commands that create, register, publish, rotate and remove an identity |
| `AccountProofs` | theorems about `Account` |
| `MC...` | small instances for TLC |

The modules meet at named interfaces. `Mailbox` treats a chunk fetch as one
outcome, which `ChunkTransfer` takes apart; a DNS lookup in `Mailbox`,
`PrekeyPool` and `RotationChain` is an answer or a miss, whose causes are in
`ResolverPool` and `Zone`; the key a contact has at the moment comes from
`RotationChain`. `Inbox` composes the stages that `Mailbox` ends at: it keeps
the replay cache, contacts and queue, reduces one sweep to a step per message,
and adds the second sweep, the delivery and the terminals. `Account` is about
what is on disk before and after all of this.

Operators with a comment "Mutant of ..." are plausible mistakes in the
operator that follows them. They are not part of any specification; each one
is known to break the property `PROJECT.json` lists it for, which shows that
the property constrains that piece of code.

### Mailbox

State: the clock; per message how far `send_message()` got, its prekey and
expiry; `dns`, the zones a manifest is served under; the prekey RRset `pool`;
rotation heads and revocations; the tables `contacts`, `replay`, `prekeys`,
`intros`, `blocked`; and per call its program counter and local variables
(`listed`, `start`, `todo`, `batch`, `cur`, `quarantine`, `results`).
`inbox`, `fate` and `retained` are history: how often the user was given a
message, how it was last settled, and which key deletes sqlite refused.

| Code | Action |
|---|---|
| `send_message` up to the encryption; its publishes; a refused publish | `Compose`, `PublishManifest`, `FailSend` |
| `list_contacts()`, the zone list, `unix_now()` | `Start` |
| `query_txt_record(slot_domain(..))` | `Query` (answered or not) |
| the checks on one manifest, `has_seen` included | `TakeUp`, `Skip` with `Quarantine`, `DropsEarly` |
| `fetch_and_decrypt` | `FetchOk`, `FetchMiss` |
| `replay_cache.record` | `Record` |
| `consume_prekey_with_dns` | `Unpublish`, `Consume` |
| `results.push`, `intro_queue.enqueue` | `Deliver`, `Enqueue` |
| `Ok(results)`; an error propagated by `?`, or a crash | `Return`; `Abort` |
| `add_contact`, `accept_intro`, `block_intro` | `Pin`, `AcceptIntro`, `BlockIntro` |
| `rotate_identity`, `revoke_identity` of a contact | `PublishRotation`, `PublishRevocation` |

Abstractions. A message is its id and signing key; records that do not verify
are left out, since every path drops them before it changes state. Chunks are
not modelled one by one: `FetchOk` and `FetchMiss` stand for enough of them
arriving or not. The purge inside `has_seen` and `record` is part of the
actions that call them. `block_intro` runs three sqlite statements without an
await and is one step; `trust_intro` is `Pin` followed by `AcceptIntro`, with
everything else free to happen in between. The rotation chain of a contact is
reduced to the pair (pinned key, head) that `RotationChain` computes in detail.
`remove_contact`, `unblock`, `cleanup_expired` and `check_and_record` have no
caller in the client.

### PrekeyPool

Keys and ids are different things here: `allocate_prekey_id()` draws random
ids that come back after their row is gone, key pairs are fresh. A refresh is
`GeneratePool` (one transaction), then per key `Publish`, `PublishRefused` or
`PublishFails` (in both of which the record may have landed: a fan-out below
its quorum answers `Ok(false)` and stays on the writers that took it), then
`RecordWire`; `RefreshDies` can cut it anywhere. Senders `Pick` or `PickNone` and later `Send`; the receive
path is `Open`, `Unpublish`, `Consume`, with `ReceiverDies`. `kept` is history:
keys whose delete failed or was cut off.

### RotationChain

`Rotate` and `RotateUnanswered` publish the pointer, `PublishRevocation` and
`PublishIdentity` are the optional tail, `RotateDies` cuts the call, `Revoke`
is `revoke_identity()`, and `Clock` moves the wall clock in either direction.
The contact's call is `Begin`, `ReadZone`, `ReadHash`; the walk itself is the
operator `Resolve` over `Walk` and `Hop`. `line`, `orderly`, `known`, `tips`
and `missed` are history for the properties. One clock serves `seq`
(milliseconds in the code) and `exp` (seconds). The Rust client publishes the
hash form of the RRset name only; the zone form comes from other clients and is
read by this one, so both are allowed. A failed lookup is `Ok(None)`, which is
what the resolver pool, the reader every CLI client is built with, answers when
no host does; it reads as an empty RRset. A revocation has no expiry, but one dated
more than `Skew` ahead of the reader's clock does not verify (`Verified`).

### ResolverPool

`Begin` fixes the order of the hosts (`Tier`, `Before`); `Found`, `NotFound`
and `Transport` are the outcomes of one ask, `BadName` the early return, and
`Tick`, `Toggle`, `Propagate` the world outside: time, hosts that go and come
back, records that reach a host or leave it. `steady` is history: the hosts
that served the name since the call began.

### Zone

State: `dep`, the deployment (kinds of the backends and quorum policy);
`zone[b]`, the records of each backend; `call`, `stage`, `target`, `wire` and
`result` of each publish or delete; `reader`, a lookup in progress. `over` and
`reader.owed` are history.

| Code | Action |
|---|---|
| `FanoutWriter::publish_txt_record`, `delete_txt_record`: start all, count the answers | `Issue`, `Return` |
| `publish_lock`, `find_record`, PUT/POST/DELETE of `CloudflarePublisher` | `Lock`, `FindRecord`, `Apply` |
| UDP, TC bit, TCP of `DnsUpdateWriter`; `NodeTokenPublisher` | `Apply`, `Truncated` |
| timeouts, transport errors, error statuses | `Fail`, `Lose` |
| `InMemoryDnsStore` | `InMemory`, `Expire` |
| `UnionReader`, `CompositeReader` | `StartLookup`, `Ask`, `Answer` |

A request that was sent stays on the wire when its sender gives up, and may be
applied later; a datagram may arrive twice. Names do not influence each other,
so one is modelled. TSIG signing is part of a request that is accepted or
refused.

### RecordCodec

A parser is a list of steps in the order of `from_body_bytes` (`HeartbeatBody`,
`ClusterBody`, ...), and one action per kind of step executes it over a body: a
slice past the end is the verdict "panic"; a loop over nodes or entries unrolls
one of them at a time. A body is its length and the values
of its structural bytes. It comes from an encoder (`HeartbeatParts`, ..., with
the field limits of the code at their extremes) or is arbitrary, in which case
every number read can be at, below or above each limit and at, below or beyond
what is left. `Verify` is the signature, the
time check, and whether the reader wants the record at all: the guard against
low-order keys and the options for a pinned key, subject, user domain or age
are one nondeterministic refusal. Any body may meet
any parser, since the prefix that names the kind is not signed. The specification is called
`CodecSpec` (`CodecInit`, `CodecNext`) because `WireProofs` extends the module
together with `ChunkTransfer`.

### Fec and ChunkTransfer

`Fec` translates the field tables, the multiplication of the matrices, the
systematic encoder matrix and Gauss-Jordan decoding, share by share, and
`choose_kn`; the block width and the prefix are parameters. `ChunkTransfer`
runs it: `Compose` (envelope, split), `PublishChunk`, `PublishManifest` (which
may report a refusal and still leave the manifest on some writers), and
`StartFetch`, `FetchChunk`, `Finish` for every attempt. The zone may serve a
chunk intact, damaged in the ways the Reed-Solomon layer repairs, reports or
mistakes, not at all, or next to a stranger's chunk before or after it.
Sealing is ideal; a plaintext is the list of envelope headers it starts with.

### Inbox

| Code | Action |
|---|---|
| `send_message`, `publish_claim` per provider | `SendMessage`, `PublishClaim` |
| `poll_once`: mailbox sweep, claim sweeps, delivery | `StartPoll`, `NextZone`, `Deliver`, `EndPoll` |
| a manifest passed over; fetched and recorded | `PassOver`, `Take` |
| push to the results, or the two statements of `enqueue` | `Settle`, `Enqueue` |
| an error of a sweep | `QueryFails` |
| `intro accept` | `Accept` |
| `intro trust`: `get`, `fetch_identity` and `add_contact`, `take` | `GetIntro`, `PinSender`, `TakeTrusted` |
| `intro block`: `get`, `block_sender`, `reject` | `GetIntro`, `BlockSender`, `Reject` |
| `contacts add` | `AddContact` |

`surfaced` counts how often the user was shown a message, `poll.deny` is the
denylist when `enqueue()` looked at it. The contact table has one row per user
name (`Username`): pinning a second key of a name replaces the first
(`Pinned`). Rotation chains are off, as in every
client the command line builds (`client_factory.rs`).

### Account

State: `cfg` (absent, saved, or cut in the middle of a write), `db` (the key of
the sqlite file), `secret`, `token`, what the node has registered (`holder`),
the records published (`zone`), `told` (history: the passphrase the tool last
told the user to use), and the running command. A key is a pair of salt and
passphrase: everything derived from it is one value. `Begin` and `Return`
delimit a command; `LoadInit`, `LoadClient`, `LoadRegister` and `LoadPurge` are
the ways the commands read the configuration; then come `OpenDb`, `SaveInit`,
`Reread` (`init` loads what it has saved and can fail there, with config and
database in place), `Confirm`, `KeepSecret`, `SaveTsig`, `Publish`, `Rotate`, `Renew`, `Delete`,
`Swept`, `Wipe`, `WipeRest`. A step that fails may have done its work or not:
`init` may have created the database, and may fail to remove it (`Discard`); a
secret may be on disk although its `chmod` failed. `Kill` ends the process between any two of them,
and `Edit` is the operator in `config.yaml`.

## 3. Runs

Every run finishes within about three minutes on two cores. Deadlock is checked
for `Zone`, `Inbox`, `Account` and `AccountRotated`, whose processes can always
go on (or have, in `Zone`, all returned). It is off where a model stops because
a bound on its clock, messages or records is reached and nothing is under way,
which is not a deadlock of the program.

| Run | Checks | What it shows |
|---|---|---|
| `MailboxOneMsg` | `TypeOK`, `OneCopyBeforeExpiry`, `KeepsPromise` | one message in two zones through the whole life of its manifest, with a rotating and revoking contact: at most one copy before expiry; the mailbox implements `Postbox` |
| `MailboxTwoMsgs` | `OneCopyUnderPrekey`, `ForwardSecrecy`, `NoSilentLoss`, `BlockedSkipsDecrypt` | two senders share a prekey, starting with and without contacts |
| `MailboxLive` | `Arrives` | a published manifest reaches the user or there is a stated reason |
| `PrekeyPool` | `TypeOK`, `Backed`, `OnlyBurntOrExpired`, `OneTime`, `WithdrawsOnlyUsed` | refreshes, senders and the receiver with every failure, and repeating ids |
| `RotationChain` | `WalkMatchesReference`, `RevokedNotTrusted`, `Transparent`, `HeadNotStale` | every record set of two rotations and a revocation over two names, published between the two reads, with chains within and beyond the hop bound and rotations that expire in and out of turn; the walk with a bound of one hop and of two |
| `ResolverPool` | `TypeOK`, `NoMissWhileServed`, `DemotedForCause` | two concurrent queries and one with a malformed name |
| `Zone` | `AckedKept`, `DeleteClears`, `ReaderSees`, `NoDuplicate` | concurrent publishes and deletes through every kind of backend, with requests lost, late and repeated; lookups through both readers |
| `RecordCodec` | `WholeBody`, `RoundTrip`, `KindsApart` | every parser over the output of every encoder and over arbitrary bodies: none reads past the end, none accepts a part, every record fits the wire and comes back |
| `ChunkTransfer` | `AnyKSuffice`, `BodyIntact`, `LabelIsSenders`, `AnnouncedWhole`, `Recovers` | one body through the real erasure code, over chunks that are refused, missing, damaged or foreign |
| `Inbox` | `HandedOverOnce`, `ActsOnWhatItRead`, `AccountedFor`, `QueueRespectsBlock`, `ReportedIsFound` | both sweeps, delivery and two terminals on the same stores |
| `Account` | `SaltKept`, `AnnouncesOwnKey` | all commands in any order, with failures, files that cannot be removed, kills, cut files, mistyped passphrases and an operator's edits |
| `AccountRotated` | `ToldOpens` | **violated**, see below |

`AccountRotated`: `identity rotate` publishes the new key and prints that
future commands need the new passphrase (`identity.rs:253`), but the database
stays keyed with the old one; the next command that opens it, run as told,
fails.

Three comments say something else than the code and its models:

- The help of `purge` (`cli.rs:245-251`) and the comment at `purge.rs:66-76` say
  that a partial remote sweep aborts the local wipe. The code goes on if one
  delete of the sweep was accepted (`purge.rs:91-122`, where a later comment
  says so and why): `Swept` can follow a sweep that left the identity record in
  DNS. Nothing stronger than that guard holds of what is left in the zone, so
  no property is stated.
- The comments at `resolver_pool.rs:89` and `156-157` say that a host is skipped
  until its cooldown elapses. `ordered_hosts()` puts it last and asks it if
  those before it have no record. `NoMissWhileServed` rests on that: with the
  hosts skipped as the comments say (the mutant `BeginSkips`) a record that one
  of them serves would be missed.
- The comments on `is_spk_revoked()` and `fetch_records_strict()`
  (`rotation_chain.rs:221`, `295`) say that the revocation check fails closed on
  any DNS error. It does so on `Err`; but the resolver pool answers `Ok(None)`
  when no host could be reached, so that a name that gets no answer counts as
  empty, and a revocation that stands there only is missed. `RevokedNotTrusted`
  is therefore about revocations under a name that was answered; the failure
  of the other name is included.

What the properties say of gaps the code has:

- The replay cache purges rows with `expiry <= now`, a manifest is expired when
  `now > exp`: in the second of the expiry a message is live and unknown to the
  cache. `OneCopyBeforeExpiry` stops at that second; `OneCopyUnderPrekey` shows
  that a consumed prekey closes the gap, so that only messages under the
  long-term key can be given twice.
- A message is recorded before it is handed over, and an error on a later slot,
  sweep or delivery discards what was collected. `NoSilentLoss` and
  `AccountedFor` show that these are the only ways it disappears.
- The denylist is asked for quarantined manifests only, so that a blocked key
  that a contact's rotation chain reaches is decrypted; `BlockedSkipsDecrypt`
  is the guarantee that holds. In `enqueue()` the check and the INSERT are two
  statements: a block from another process in between leaves a row, and
  `QueueRespectsBlock` is about blocks made before the check.
- A message received between the publish of a prekey and `record_wire()` leaves
  its record in DNS (`OneTime` and `WithdrawsOnlyUsed` hold; the record is
  burnt).
- A rotation that expires before an earlier one takes the end of the chain with
  it, and a contact stops at the superseded key before it: `HeadNotStale` and
  `Transparent` are about rotations that expire in turn or not at all.
- A Cloudflare publish overwrites the record it finds, which fits names with one
  record only, and its delete takes the first record only; `AckedKept`,
  `DeleteClears` and `NoDuplicate` name where Cloudflare differs. A timed-out
  POST can leave a second record.
- A stranger's well-formed chunk served ahead of the genuine one takes its
  place (`AnyKSuffice` and `Recovers` exclude it); a body sent without an
  envelope that starts with a well-formed header line loses it (`BodyIntact`).

Seen on the way, without a property: `allocate_prekey_id()` may draw 0, the
wire value of `NO_PREKEY` (such a message never opens); `get_private_key()`
wants `exp > now` while senders pick keys up to `exp = now`; after a rotation
both identity records stay in the RRset and `fetch_identity()` returns the
first that verifies; `dns_update_writer.rs:17-20` promises `Ok(false)` where the
code returns `Err(UpdateRejected)`; the heartbeat parser does not call
`validate_zone` and the cluster parser takes zero nodes; plaintexts of 25085
bytes and more need more than 256 shares and cannot be sent; `init` can report an error
after it has saved (`init.rs:99`: the operator's edit gave both destination
blocks, or the file cannot be read), and a second `init` then refuses the
config; when it fails earlier and cannot remove the database it made, the next
one draws another salt and fails to open it (`SaltKept` holds in both cases,
since no config with another salt is saved); `purge` ignores a configured `db_path` and the `-wal` and `-shm`
files, and removes the config before the database, so that a failure in between
strands the latter, as a kill in `init` before the save does; the config is
written in place, so that a crash in `tsig register` can cut it and lose the
salt; `register` and `tsig register` derive the key without opening the
database, so that a mistyped passphrase registers a key nobody has; `tsig
register` overwrites edits made while it ran; two concurrent `init`s can delete
each other's database; `trust_intro()` pins the key even if the row has gone or
the sender has been blocked meanwhile; `recv --watch` ends at the first failing
pass.

### Bounds

- `MailboxOneMsg`: one message, two zones, one slot, `Ttl` 2 and `MaxTime` 3:
  the clock passes the prekey's expiry, the second of the manifest's expiry and
  the second after. Sharing between messages is only through a prekey, which
  `MailboxTwoMsgs` covers with two messages and one prekey. More slots only add
  names to an unordered set that is walked.
- One call at a time in the mailbox runs: `OneCopyBeforeExpiry`,
  `OneCopyUnderPrekey` and `KeepsPromise` are claims about a client that polls
  serially (as the CLI does); two calls that both pass `has_seen` deliver
  twice. `ForwardSecrecy` and `NoSilentLoss` are proved for any number.
- `PrekeyPool`: two refreshes of two keys over three ids, so that an id is
  drawn again while an old record or message names it; two messages, so that
  they compete for a key. Keys and messages are interchangeable (symmetry).
- `RotationChain`: three keys and two rotations give forks, loops, reissues and
  a chain of two hops, one beyond the `MaxHops` 1 of the contact. The walk
  compares `seq` and the keys it has passed from the second hop on, so
  `WalkMatchesReference` is evaluated for a bound of two hops too (`HopBounds`),
  which meets a return to the first key, and a second rotation dated before the
  first; `Skew` 1 with a clock of three
  readings puts a revocation inside and outside the tolerance, and a record
  before, at and after its expiry. Lifetimes 0, 1 and 2 let the second rotation
  expire while the first is still visible. That is the case the condition
  `InTurn` of `HeadNotStale` excludes: without it this run finds the contact at
  the key in between (`exp_seconds` is an option of `identity rotate`, so it can
  happen). A constraint keeps to one lifetime next to a revocation, which
  `HeadNotStale` and `Transparent` are not about. The view leaves out `ids` and
  `verdict`, which nothing reads. Every key but the first is interchangeable.
- `ResolverPool`: two hosts, two calls; a demotion needs one host to contradict
  the other, and a race needs a second call.
- `Zone`: eight deployments, of one backend with three calls (two of them by
  one process, one by another) or of two or three backends with two calls, with
  every policy and every kind. Two values, interchangeable, are enough for
  every way in which one value can displace another.
- `RecordCodec`: field lengths at both ends of their range and three in
  between; arbitrary bodies of every length up to 130, past the longest prefix
  of fixed fields, and two lengths beyond; loops of one and two entries. A
  count above that is a longer run of the same checks (`WholeBodyHolds`
  covers every body length and count).
- `ChunkTransfer`: blocks of two bytes with payloads that need one to four data
  shares and one or two parity shares, and one too long for `MAX_M`; two
  faults, so that a message with one parity share loses one share more than
  that and one with two loses as many as it can bear.
- `Inbox`: two messages of one or two senders, one of them in the polled zone,
  one provider, two terminals, one fault. A third key can be a contact while
  both messages are quarantined, and shares its user name with one of the
  senders.
- `Account`: two passphrases and two salts, so that a key differs in either; two
  faults, so that a failure can meet a kill; three names, two of them not the
  identity record. `AccountRotated` needs no fault at all.

### Fairness

- `FairSpec` (only `MailboxLive`) assumes weak fairness of the steps a running
  call takes by itself and of starting a call: somebody keeps polling (cron, or
  `recv --watch` restarted after an error). It assumes strong fairness of the
  answered outcome of a slot query, of taking up a manifest, of a successful
  fetch and of `record`: neither DNS misses nor aborts hit the same step of
  every call for ever. `Abort` itself is never required and never excluded.
  `Arrives` has as exits what the code really allows: expiry, a blocked sender,
  a key that is gone, and a call aborted after it had recorded the message.
- `Inbox`: weak fairness of `Polling`, the steps of the polling process. The
  faults are bounded, and without one a step that can be taken goes forward:
  passes are started again and again by `--watch`, or by cron after a failure.
  Terminals and senders owe nothing.
- `ChunkTransfer`: `Polls` is weak fairness of the fetch loop, written with the
  condition under which a step of it is possible, since a fetch is repeated by
  every poll until the message expires.

## 4. Proofs

TLAPS checks these for every value of the constants that meets the modules'
`ASSUME`s: types of the parameters, sentinels that are not elements, and

- `Mailbox`: at most one contact row per username at the start, and a manifest
  lives for a second at least (`DEFAULT_TTL_SECONDS`);
- `PrekeyPool`: fresh key markers;
- `Zone`: a deployment is a finite sequence of the five kinds of writer;
- `ChunkTransfer`: bodies are made of headers of the model, and a client
  publishes its signed identity record at its own address and at no other
  (`DirectoryAssumption`; the signature covers the user name, not the host, so
  that a copy of the record elsewhere could put another host on a label).

| Theorem | States |
|---|---|
| `MailboxProofs!TypeCorrect` | `Spec => []TypeOK` |
| `MailboxProofs!ForwardSecrecyHolds`, `NoSilentLossHolds` | the two invariants, any number of calls |
| `MailboxProofs!OneCopyHolds`, `OneCopyUnderPrekeyHolds` | `[]OneCopyBeforeExpiry`, `[]OneCopyUnderPrekey` for one call at a time (`SingleCall`) |
| `MailboxProofs!BlockedSkipsDecryptHolds` | the action property, `SingleCall` |
| `MailboxProofs!KeepsPromiseHolds` | `Mailbox` implements `Postbox`, `SingleCall` |
| `PrekeyPoolProofs!TypeCorrect`, `BackedHolds`, `OnlyBurntOrExpiredHolds`, `OneTimeHolds` | the type invariant and the three invariants of the pool |
| `PrekeyPoolProofs!WithdrawsOnlyUsedHolds` | `Spec => WithdrawsOnlyUsed` |
| `RotationChainProofs!WalkMatchesReferenceHolds` | the walk computes what the declarative definition says, any keys, records and hop bound |
| `RotationChainProofs!RevokedNotTrustedHolds`, `HeadNotStaleHolds`, `TransparentHolds` | the three action properties |
| `ResolverPoolProofs!TypeCorrect`, `NoMissHolds`, `DemotedForCauseHolds` | any hosts, any number of queries |
| `ZoneProofs!TypeCorrect` | types, and that a call not made has touched nothing |
| `ZoneProofs!AckedKeptHolds`, `DeleteClearsHolds`, `ReaderSeesHolds`, `NoDuplicateHolds` | the four invariants, any deployment, calls and values |
| `ZoneProofs!CountedHolds` | what a result says of the answers; used by the two on quorums |
| `WireProofs!SealedHolds`, `BodyIntactHolds`, `LabelIsSendersHolds`, `AnnouncedWholeHolds` | the three invariants, and what they rest on |
| `WireProofs!ChooseKnFits` | the arithmetic of `choose_kn` |
| `WireProofs!WholeBodyHolds` | `[]WholeBody` of `RecordCodec`: any body, field lengths and number of entries |
| `InboxProofs!TypeCorrect`, `HandedOverOnceHolds`, `ActsOnWhatItReadHolds` | the type invariant and the two invariants |
| `InboxProofs!AccountedForHolds`, `QueueRespectsBlockHolds` | the two action properties |
| `AccountProofs!TypeCorrect`, `SaltKeptHolds` | the type invariant and `Spec => []SaltKept` |
| `AccountProofs!AnnouncesOwnKeyHolds` | the action property |

The arguments:

- **Mailbox.** `CallOK` (a call holds a manifest exactly while it processes
  one) and `Untouched` (an unpublished message is nowhere on the client, so
  that its prekey and expiry are fixed by the time anything depends on them)
  hold with `TypeOK`. On top of these `KeysGone` carries forward secrecy
  through the `finish` step of a call: the property alone says nothing of a
  message that has passed `Consume` and is not yet in a result. `OneCopy` needs
  `RowKept` (before expiry a message that was taken keeps its replay row: the
  purge compares with the same clock) and `NotYetRecorded` (nobody records a
  message while this call fetches it), the one place where `SingleCall` is used.
  `OneCopyUnderPrekey` cannot use the replay row, which may be purged: its
  strengthening `AloneUnderKey` says that a message the call has decrypted and
  not yet handed over is nowhere else, and `KeysGone` that the key of a message
  that is somewhere is gone, so that it cannot be decrypted again.
  `BlockedSkipsDecrypt` needs `LeftTofu` (while there are no contacts, queue and
  denylist are empty, and a client leaves that state for good) and `OwnHeads` (a
  chain ends at a key of the user it starts from).
- **Postbox.** Under the mapping every action is a step of `Postbox` or a
  stutter. Most are stutters because the message stays on its way: from the
  walk to the results, to the queue, to the user. `SettleStep`, `TakeStep` and
  `StutterStep` sort the actions; the invariants above say that a message taken
  again before its expiry is not on its way already, and `DueOK` that its due
  time is fixed by then.
- **PrekeyPool.** `PoolInv` has `OneRow` (id and key each determine a row),
  `Drawn` (every key in sight was drawn, so that a new one is new), `AllBacked`
  (records still to be published are backed too, and so are keys that messages
  were sealed to), and facts about the receive step under way. Without the key
  pairs kept apart from the ids none of the three properties would be inductive.
  `WithdrawsOnlyUsed` needs `WireOK` besides: a row remembers its own record or
  none, because a refresh that has a record in hand still finds the row it
  committed under that id, or none.
- **RotationChain.** What the walk computes is an induction over its hops. The
  library's induction theorems take an operator as a parameter, which no prover
  here instantiates, so the induction is written out: `Least` says that a
  non-empty set of numbers has a least element (from the well-foundedness of
  `<` on `Nat`), and a property of all hops holds because there is no least hop
  at which it fails. `WalkReached` says this way that what the walk
  has passed is a path as `EndsAt` wants it, `WalkFollows` that it passes every
  such path. `ResolveIs` and `ResolveEnds` put both together, and
  `WalkMatchesReference` follows from the type invariant. The other three relate
  what was read to what is published: `ReadInv` (records are never withdrawn),
  `RevsInv` (a revocation known when the call began has been read or stands
  under the second name), `LineInv` (an orderly user's keys form a line, each
  record is about one step of it, and later steps are dated later) and `SeenInv`
  (so has a change from every key that was superseded before the call began).
  `BehindCount` turns "at most `MaxHops` rotations behind" into the length of
  the rest of the line.
- **ResolverPool.** `SteadyOK`: a host that served the name all along is one
  the call still has to ask. It holds because `Begin` puts every host in the
  order, cooldown or not.
- **Zone.** `Move` says what any writer's step leaves alone: the other calls,
  the other backends, and the zone but for the effect of this call's request;
  `NextCases` reduces every step to a `Move`, an issue, an expiry or a reader's
  step, which keeps four proofs from going through every kind of writer.
  `AckedKept` is inductive with the types: `EffectKeeps` and `EffectAdds` say
  what an accepted request, early or late, does to the records. `DeleteClears`
  needs `Settled` (a publish that the delete does not count as overlapping can
  no longer arrive) and `Cleared`; `ReaderSees` needs `Missed` (a value owed and not heard was
  acknowledged by a call none of whose backends has answered the lookup), so
  that a complete lookup that missed it has a quorum of failures;
  `NoDuplicate` needs `Serial` (one publish at a time is between lookup and
  answer, and what found no record still finds none when it writes).
- **ChunkTransfer.** `Sealed`: whatever elimination returns, only bytes that the
  sender sealed open. So body and label depend on the envelope alone, and none
  of these theorems on the arithmetic of the field.
- **RecordCodec.** `WholeBody` is not inductive: that no byte is missing at a
  step rests on a check several steps, or loop rounds, before. A configuration
  is a layout still to be run, the bytes left and the number read last. `Safe`
  is the largest set of configurations that is closed under the steps of a
  parser and in which no slice is too long and an empty layout has no bytes
  left. `CodecInv` says that a running parser is in a safe configuration;
  `SafeClosed` makes it inductive, one lemma for each kind of step. That the
  layouts start safe (`ClaimSafe`, ..., `IdentitySafe`) is shown by annotating
  each with what is known before each step (`ClaimNeeds`, ...: at least or just
  so many bytes, or so many beyond the number read), where `Goes` says which
  step leads from which to which. `LoopRule` is the rule for the loops over
  nodes and entries, by the least count that would fail. `EncodedIsBody` says
  that what an encoder assembles is a body with a length.
- **Inbox.** `CommandOK`: a command holds an id that was given out, and if the
  row is still there it is of the sender the command read; ids only grow, so a
  row taken by another terminal is never replaced under the same id. `Places`
  says that the message being processed, the messages in hand and the queued
  rows are all different and all recorded in the replay cache; from it follow
  that nothing is shown twice and, since each place empties only into the next,
  `AccountedFor`. `DenyOK` keeps the check of `enqueue()` valid up to its insert.
- **Account.** The invariant is about what the running command has loaded.
  `LoadedOK` and `SameSalt`: until a command other than `init` opens the
  database or saves, the salt it loaded is the one in the file. `InitAlone`: an `init`
  that goes on works on a home without a config, and a database it found is as
  it was. `FailedOpen` says what an open that fails leaves: the old database, or
  none, or one under the key of this command. `PublishOpened` carries the
  outcome of the open to the steps that publish and announce.

Only model-checked: `Arrives`, `Recovers` and `ReportedIsFound` (liveness is
out of the prover's reach); `AnyKSuffice` (that any k rows of the encoder matrix
are invertible, and that elimination inverts them, is algebra over a field that
`Fec` gives by its tables); and `RoundTrip` and `KindsApart` (what an encoder
wrote, byte by byte, met by each parser: TLC goes through the eleven concrete
layouts one by one, and a proof would repeat that).

## 5. Not modelled, and the plan

Left out for good:

- the primitives (Ed25519, X25519, ChaCha20-Poly1305, Argon2id, the
  Reed-Solomon code inside a chunk, SQLCipher, HMAC) and hash-derived names:
  external libraries, or values that only need to differ;
- the syntax of host names, URLs and addresses (`RecordCodec` has it as one
  check), the RFC 5322 form of a message, argument parsing, output, and the
  commands that only read;
- the FFI bindings: conversions and a blocking call around client operations
  that are modelled; the constructor calls `block_on` and must not be used from
  within a runtime, which is a rule for the caller and not a state;
- the example program;
- operations without a caller in the client: `remove_contact`, `unblock`,
  `cleanup_expired`, `check_and_record`, the cleanup of the intro queue; and
  the positive cache of `recipient_versions`;
- two `init`s at once: `Account` runs one command at a time, beside the
  operator's editor.

`PROJECT.json` lists every part with its status and reason.

The order of work was the most important behaviour first: the receive path and
its stores (`Mailbox`, `Postbox`), the keys it depends on (`PrekeyPool`), the
trust decision it makes (`RotationChain`), the reader below it
(`ResolverPool`), the writers (`Zone`), what travels (`RecordCodec`, `Fec`,
`ChunkTransfer`), the user's side (`Inbox`) and the files (`Account`).

What is left to prove: for `AnyKSuffice`, that the elimination of `Fec` keeps
the solutions of the system it works on, apart from the question whether k rows
are independent; and `RoundTrip` one record at a time, along the annotations
that `WireProofs` has of the layouts.
