--------------------------- MODULE ChunkTransfer ---------------------------
(***************************************************************************)
(* One message body on its way through DNS: send_message() wraps it in an  *)
(* envelope when the recipient announces version 2, seals it, splits it    *)
(* into erasure shares and publishes one chunk per share before the        *)
(* manifest; fetch_and_decrypt() walks the chunk names, repairs and checks *)
(* what it finds, decodes once it holds k shares, opens the message and    *)
(* peels the envelope off.  A failed attempt leaves nothing behind and the *)
(* next poll starts over.                                                  *)
(*                                                                         *)
(* What the zone serves at a chunk name is a sequence of records: the      *)
(* genuine one, possibly damaged or gone, next to records of strangers.    *)
(* Sealing is ideal: only the sender's own bytes open.  The replay cache,  *)
(* the prekeys and the manifest slots are in Mailbox and PrekeyPool.       *)
(***************************************************************************)
EXTENDS Fec

CONSTANTS
    Messages,      \* [body, payload]: a body and the sealed bytes that carry it
    SenderAddr,    \* the sender's user@host
    SenderSpk,     \* the sender's signing key
    RecipientSpk,  \* the recipient's signing key as pinned by the sender
    Profiles,      \* the identity RRsets the recipient may have published
    Directory,     \* identity records by <<user, host>>: sets of [username, spk]
    Alien,         \* the block of a stranger's well-formed chunk
    MaxFaults      \* bound on damaged chunks and failing queries

\* Addresses and envelope headers; "from" is an Option, as in the code.
Addresses == [user : STRING, host : STRING,
              form : {"canonical", "spelled", "illegal", "long"}]
Headers   == [shape : {"object", "garbled"}, from : Seq(Addresses)]
Listed(a) == <<a.user, a.host>> \in DOMAIN Directory

ASSUME TransferAssumption ==
    /\ MaxFaults \in Nat
    /\ \A m \in Messages : m.payload \in Seq(Byte) /\ m.body \in Seq(Headers)
    /\ SenderAddr \in Addresses /\ Listed(SenderAddr)
    /\ \A m \in Messages : \A i \in DOMAIN m.body :
          m.body[i].from # None => Listed(m.body[i].from[1])
    /\ Alien \in Seq(Byte) /\ Len(Alien) = DATA_PER_CHUNK

VARIABLES
    pc,        \* where the two clients are
    msg,       \* the message being sent
    text,      \* the plaintext that was sealed
    blocks,    \* the erasure shares of the sealed message
    store,     \* what the zone serves at each chunk name
    at,        \* the chunk number of the running loop
    accepted,  \* the chunk names whose publication the writer acknowledged
    shares,    \* the shares collected by the running fetch
    answered,  \* the chunk names that answered it
    expired,   \* the ttl of the message has passed
    result,    \* None, or Some([body, label]) once delivered
    faults     \* faults so far

vars == <<pc, msg, text, blocks, store, at, accepted, shares,
          answered, expired, result, faults>>

(***************************************************************************)
(* Envelopes.  A plaintext is the sequence of the header lines it starts   *)
(* with, outermost first: a body of a user may itself start with one.  A   *)
(* header is an object with or without a "from", or garbled.  Addresses    *)
(* come in four forms: canonical, differently spelled, illegal, and so     *)
(* long that the header exceeds MAX_HEADER_BYTES.                          *)
(***************************************************************************)
canonicalize_address(a) ==
    CASE a.form = "illegal" -> None
      [] a.form = "long"    -> Some(a)
      [] OTHER              -> Some([a EXCEPT !.form = "canonical"])

Header(a) == [shape |-> "object", from |-> Some(a)]

\* A client publishes its signed identity record at its own address and at no
\* other (the signature covers the user, not the host).
ASSUME DirectoryAssumption ==
    \A uh \in DOMAIN Directory : \A r \in Directory[uh] :
        r.username = uh[1] /\ r.spk = SenderSpk =>
            canonicalize_address(SenderAddr) =
                Some([user |-> uh[1], host |-> uh[2], form |-> "canonical"])

EnvelopeEncode(body, addr) ==
    LET canonical == canonicalize_address(addr)
    IN  IF canonical = None THEN body
        ELSE IF canonical[1].form = "long" THEN body
        ELSE <<Header(canonical[1])>> \o body

Committed(h) ==
    h.shape = "object" /\ ~(h.from # None /\ h.from[1].form = "long")

\* Mutant: headers are peeled as long as there are any.
EnvelopeDecodeDeep(plain) ==
    LET own == IF plain = <<>> THEN None
               ELSE IF Head(plain).from = None THEN None
               ELSE canonicalize_address(Head(plain).from[1])
    IN  [body |-> SelectSeq(plain, LAMBDA h : ~Committed(h)), from |-> own]

EnvelopeDecode(plain) ==
    IF plain = <<>> THEN [body |-> plain, from |-> None]
    ELSE LET h == Head(plain)
         IN  IF ~Committed(h) THEN [body |-> plain, from |-> None]
             ELSE [body |-> Tail(plain),
                   from |-> IF h.from = None THEN None
                            ELSE canonicalize_address(h.from[1])]

\* The versions of the first record under the pinned key; {1} on any failure.
recipient_versions(rrset) ==
    LET mine == SelectSeq(rrset, LAMBDA r : r.spk = RecipientSpk)
    IN  IF mine = <<>> THEN {1}
        ELSE IF Head(mine).versions = {} THEN {1}
        ELSE Head(mine).versions

maybe_wrap_envelope(rrset, body) ==
    IF 2 \in recipient_versions(rrset) THEN EnvelopeEncode(body, SenderAddr) ELSE body

\* Mutant: any record under the claimed name vouches for it.
resolve_unbound(claimed, spk) ==
    LET c == canonicalize_address(claimed)
    IN  IF c = None THEN None
        ELSE IF Directory[<<c[1].user, c[1].host>>] # {} THEN c ELSE None

\* The label of a claimed address: its canonical form when the directory binds
\* that user to the manifest's key.
resolve_envelope_label(claimed, spk) ==
    LET c == canonicalize_address(claimed)
    IN  IF c = None THEN None
        ELSE IF \E r \in Directory[<<c[1].user, c[1].host>>] :
                    r.username = c[1].user /\ r.spk = spk
        THEN c ELSE None

(***************************************************************************)
(* Chunks.  wrap_block() puts a checksum before the Reed-Solomon codeword: *)
(* "few" errors are corrected, "many" are reported or turned into another  *)
(* codeword, "sum" damages the checksum and "junk" is no chunk at all.     *)
(***************************************************************************)
wrap_block(block) == [block |-> block, noise |-> "none"]

RsCorrect(r) ==
    IF r.noise = "many" THEN {None, Some(Alien)} ELSE {Some(r.block)}

ChecksumOk(r, block) == r.noise # "sum" /\ block = r.block

\* Mutant: the checksum is not compared.
unwrap_unchecked(r) == IF r.noise = "junk" THEN {None} ELSE RsCorrect(r)

\* What unwrapping may yield: the corrected block if the checksum agrees.
unwrap_block(r) ==
    IF r.noise = "junk" THEN {None}
    ELSE {IF c # None /\ ChecksumOk(r, c[1]) THEN c ELSE None : c \in RsCorrect(r)}

\* The share read off an RRset: the first record that unwraps.
FirstShare(rrset) ==
    LET tries == {u \in [DOMAIN rrset -> UNION {unwrap_block(rrset[i]) : i \in DOMAIN rrset}] :
                     \A i \in DOMAIN rrset : u[i] \in unwrap_block(rrset[i])}
        first(u) == LET good == SelectSeq(u, LAMBDA x : x # None)
                    IN  IF good = <<>> THEN None ELSE Head(good)
    IN  {first(u) : u \in tries}

\* The fates of a published chunk; all but the first cost a fault.
Fates(block) ==
    LET own == wrap_block(block)
        damaged(x) == [own EXCEPT !.noise = x]
    IN  { <<own>>, <<>>, <<damaged("few")>>, <<damaged("many")>>, <<damaged("sum")>>,
          <<damaged("junk"), own>>, <<own, wrap_block(Alien)>>, <<wrap_block(Alien), own>> }

(***************************************************************************)
(* The sender.                                                             *)
(***************************************************************************)
Kn == choose_kn(Len(msg.payload))

Idle ==
    /\ text = <<>> /\ blocks = <<>> /\ store = <<>>
    /\ at = 0 /\ accepted = {} /\ shares = <<>> /\ answered = {}
    /\ expired = FALSE /\ result = None /\ faults = 0

Init == pc = "compose" /\ msg \in Messages /\ Idle

\* Wrap, seal and split; a refused configuration ends the send.
Compose(rrset) ==
    /\ pc = "compose"
    /\ text' = maybe_wrap_envelope(rrset, msg.body)
    /\ LET b == ErasureEncode(msg.payload)
       IN  IF b = None
           THEN pc' = "failed" /\ UNCHANGED <<blocks, store>>
           ELSE /\ pc' = "publish"
                /\ blocks' = b[1]
                /\ store' = [i \in DOMAIN b[1] |-> <<>>]
    /\ UNCHANGED <<msg, at, accepted, shares, answered, expired, result, faults>>

\* Mutant: the send loop goes on after a refusal.
PublishChunkAnyway(ack) ==
    /\ pc = "publish" /\ at < Kn.n
    /\ \E fate \in Fates(blocks[at]) :
          /\ faults' = faults + (IF fate = <<wrap_block(blocks[at])>> /\ ack THEN 0 ELSE 1)
          /\ store' = [store EXCEPT ![at] = fate]
    /\ faults' <= MaxFaults
    /\ accepted' = IF ack THEN accepted \cup {at} ELSE accepted
    /\ at' = at + 1
    /\ UNCHANGED <<pc, msg, text, blocks, shares, answered, expired, result>>

\* publish_chunks(): one name at a time; the first refusal ends the send, with
\* or without the record having reached the zone.
PublishChunk(ack) ==
    /\ pc = "publish" /\ at < Kn.n
    /\ \E fate \in Fates(blocks[at]) :
          /\ faults' = faults + (IF fate = <<wrap_block(blocks[at])>> /\ ack THEN 0 ELSE 1)
          /\ store' = [store EXCEPT ![at] = fate]
    /\ faults' <= MaxFaults
    /\ IF ack
       THEN accepted' = accepted \cup {at} /\ at' = at + 1 /\ pc' = pc
       ELSE pc' = "failed" /\ UNCHANGED <<accepted, at>>
    /\ UNCHANGED <<msg, text, blocks, shares, answered, expired, result>>

\* The manifest follows the last chunk; a refused one may be in the zone all the
\* same.
PublishManifest ==
    /\ pc = "publish" /\ at = Kn.n
    /\ pc' \in {"announced", "failed"}
    /\ UNCHANGED <<msg, text, blocks, store, at, accepted, shares, answered, expired,
                   result, faults>>

Expire ==
    /\ pc \in {"announced", "fetch"} /\ ~expired
    /\ expired' = TRUE
    /\ UNCHANGED <<pc, msg, text, blocks, store, at, accepted, shares, answered,
                   result, faults>>

(***************************************************************************)
(* The receiver: fetch_and_decrypt(), once per poll that sees the manifest.*)
(***************************************************************************)
StartFetch ==
    /\ pc = "announced" /\ ~expired
    /\ pc' = "fetch" /\ at' = 0 /\ shares' = <<>> /\ answered' = {}
    /\ UNCHANGED <<msg, text, blocks, store, accepted, expired, result, faults>>

Enough == Cardinality(DOMAIN shares) >= Kn.k

\* One turn of the loop: a failing query skips the name.
FetchChunk(ok) ==
    /\ pc = "fetch" /\ at < Kn.n /\ ~Enough
    /\ at' = at + 1
    /\ IF ok
       THEN /\ answered' = answered \cup {at}
            /\ \E share \in FirstShare(store[at]) :
                  shares' = IF share = None THEN shares
                            ELSE [i \in DOMAIN shares \cup {at} |->
                                     IF i = at THEN share[1] ELSE shares[i]]
            /\ faults' = faults
       ELSE faults < MaxFaults /\ faults' = faults + 1 /\ UNCHANGED <<answered, shares>>
    /\ UNCHANGED <<pc, msg, text, blocks, store, accepted, expired, result>>

\* The sealed bytes open to the text they were made from, or not at all.
Open(sealed) == IF sealed = Some(msg.payload) THEN Some(text) ELSE None

Opened == IF Enough THEN Open(ErasureDecode(shares, Kn.k, Kn.n)) ELSE None

\* The message of a peeled text: its body under the label that checks out.
Labelled(env, resolved) ==
    [body  |-> env.body,
     label |-> IF env.from # None /\ resolved
               THEN resolve_envelope_label(env.from[1], SenderSpk) ELSE None]

\* Decode, open, peel and label; a lookup may fail and leave no label.
Finish(resolved) ==
    /\ pc = "fetch" /\ (at = Kn.n \/ Enough)
    /\ \E opened \in {Opened} :
          IF opened = None \/ expired
          THEN pc' = "announced" /\ UNCHANGED result
          ELSE /\ pc' = "done"
               /\ result' = Some(Labelled(EnvelopeDecode(opened[1]), resolved))
    /\ UNCHANGED <<msg, text, blocks, store, at, accepted, shares, answered, expired, faults>>

Receive ==
    \/ StartFetch
    \/ \E ok \in BOOLEAN : FetchChunk(ok)
    \/ \E resolved \in BOOLEAN : Finish(resolved)

Next ==
    \/ \E rrset \in Profiles : Compose(rrset)
    \/ \E ack \in BOOLEAN : PublishChunk(ack)
    \/ PublishManifest
    \/ Expire
    \/ Receive

\* The polling loop keeps calling the receive path: weak fairness of Receive,
\* with the condition under which it is enabled spelt out.
CanReceive == (pc = "announced" /\ ~expired) \/ pc = "fetch"
Polls == []<>(~CanReceive) \/ []<><<Receive>>_vars

Spec == Init /\ [][Next]_vars /\ Polls

-----------------------------------------------------------------------------
(***************************************************************************)
(* Properties.                                                             *)
(***************************************************************************)
\* The zone serves the genuine chunk of name i in repairable form, and no
\* stranger's chunk before it.
Readable(i) ==
    \E p \in DOMAIN store[i] :
        /\ store[i][p].block = blocks[i] /\ store[i][p].noise \in {"none", "few"}
        /\ \A q \in 1..(p - 1) : store[i][q].noise = "junk"

\* A stranger's well-formed chunk is served before the genuine one.
Foreign(i) == \E p \in DOMAIN store[i] :
    /\ store[i][p] = wrap_block(Alien)
    /\ \A q \in 1..(p - 1) : store[i][q].noise # "none"

\* fetch_and_decrypt() gives up on a live message only when fewer than k of the
\* names that answered held a repairable chunk, or a stranger's chunk took the
\* place of one: no choice of k shares, repaired or parity, fails to decode.
AnyKSuffice ==
    (/\ pc = "announced" /\ at > 0 /\ ~expired /\ answered # {}
     /\ \A i \in answered : ~Foreign(i))
    => Cardinality({i \in answered : Readable(i)}) < Kn.k

\* The body that is delivered is the body that was sent, envelope or not; the
\* one exception is a body that itself starts with a well-formed envelope
\* header and was sent without an envelope of its own (envelope::decode).
BodyIntact ==
    result # None =>
        \/ result[1].body = msg.body
        \/ text = msg.body /\ msg.body # <<>> /\ Committed(Head(msg.body))

\* The label shown with a message is the sender's own address, whatever address
\* the text claims to be from (resolve_envelope_label).
LabelIsSenders ==
    result # None /\ result[1].label # None =>
        result[1].label = canonicalize_address(SenderAddr)

\* A manifest is only announced when the writer acknowledged every chunk name,
\* so that a refused chunk never leaves a message nobody can assemble.
AnnouncedWhole ==
    pc \in {"announced", "fetch", "done"} => accepted = 0..(Kn.n - 1)

\* A message whose zone serves k repairable chunks and no strangers' is
\* delivered by some poll, unless its ttl runs out first: queries that fail
\* now and then only delay it.
Recoverable ==
    /\ pc = "announced"
    /\ \A i \in DOMAIN store : ~Foreign(i)
    /\ Cardinality({i \in DOMAIN store : Readable(i)}) >= Kn.k

Recovers == Recoverable ~> (result # None \/ expired)
=============================================================================
