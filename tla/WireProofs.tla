----------------------------- MODULE WireProofs -----------------------------
(***************************************************************************)
(* Proofs about what travels through DNS.                                  *)
(*                                                                         *)
(* A message (ChunkTransfer): the body that is delivered is the body that  *)
(* was sent, the label shown with it is the sender's, and a manifest       *)
(* stands for a whole set of chunks; for any bodies, payload lengths,      *)
(* directory, faults and block width.  Nothing there depends on the        *)
(* arithmetic of the erasure code: whatever ErasureDecode returns, only    *)
(* the bytes that were sealed open.                                        *)
(*                                                                         *)
(* A record (RecordCodec): whatever bytes a zone serves, no parser slices  *)
(* past their end, and one that accepts has read them all.                 *)
(***************************************************************************)
EXTENDS ChunkTransfer, RecordCodec, SequenceTheorems, WellFoundedInduction, TLAPS

\* What was sealed is the body, bare or in an envelope of the sender's.
Sealed ==
    /\ msg \in Messages
    /\ pc # "compose" => text \in {msg.body, EnvelopeEncode(msg.body, SenderAddr)}
    /\ result # None =>
         \E resolved \in BOOLEAN :
            result = Some(Labelled(EnvelopeDecode(text), resolved))
    /\ result # None => pc = "done"

LEMMA InitSealed == Init => Sealed
BY DEF Init, Idle, Sealed

LEMMA StepSealed == Sealed /\ [Next]_vars => Sealed'
<1> SUFFICES ASSUME Sealed, [Next]_vars PROVE Sealed'
  OBVIOUS
<1>1. ASSUME NEW rrset \in Profiles, Compose(rrset) PROVE Sealed'
  <2>1. text' \in {msg.body, EnvelopeEncode(msg.body, SenderAddr)}
    BY <1>1 DEF Compose, maybe_wrap_envelope
  <2>2. msg' = msg /\ result' = result /\ result = None
    BY <1>1 DEF Compose, Sealed
  <2> QED
    BY <2>1, <2>2 DEF Sealed
<1>2. ASSUME UNCHANGED <<msg, text, result>>, pc # "compose", pc # "done" PROVE Sealed'
  BY <1>2 DEF Sealed
<1>3. ASSUME NEW ack \in BOOLEAN, PublishChunk(ack) PROVE Sealed'
  BY <1>2, <1>3 DEF PublishChunk
<1>4. CASE PublishManifest
  BY <1>2, <1>4 DEF PublishManifest
<1>5. CASE Expire
  BY <1>2, <1>5 DEF Expire
<1>6. CASE StartFetch
  BY <1>2, <1>6 DEF StartFetch
<1>7. ASSUME NEW ok \in BOOLEAN, FetchChunk(ok) PROVE Sealed'
  BY <1>2, <1>7 DEF FetchChunk
<1>8. ASSUME NEW resolved \in BOOLEAN, Finish(resolved) PROVE Sealed'
  <2>1. pc = "fetch" /\ UNCHANGED <<msg, text>> /\ pc' # "compose"
    BY <1>8 DEF Finish
  <2>2. CASE Opened = None \/ expired
    BY <1>2, <1>8, <2>1, <2>2 DEF Finish
  <2>3. CASE ~(Opened = None \/ expired)
    <3>1. Opened = Some(text)
      BY <2>3 DEF Opened, Open
    <3>2. pc' = "done" /\ result' = Some(Labelled(EnvelopeDecode(text), resolved))
      BY <1>8, <2>3, <3>1 DEF Finish, Some
    <3> QED
      BY <2>1, <3>2 DEF Sealed, Labelled
  <2> QED
    BY <2>2, <2>3
<1>9. CASE UNCHANGED vars
  BY <1>9 DEF vars, Sealed, Labelled
<1> QED
  BY <1>1, <1>3, <1>4, <1>5, <1>6, <1>7, <1>8, <1>9 DEF Next, Receive

\* What a finished fetch hands over is the decoded envelope of one of the
\* sealed texts under the name resolved for its signer: fetch_and_decrypt()
\* lets nothing else through once the body has opened.
THEOREM SealedHolds == Spec => []Sealed
BY InitSealed, StepSealed, PTL DEF Spec

---------------------------------------------------------------------------
(* Envelopes *)

\* Encoding either leaves the body alone or puts one header before it, which
\* decoding takes off and nothing more.
LEMMA EncodeDecode ==
  ASSUME NEW letter \in Seq(Headers), NEW addr \in Addresses
  PROVE  \/ EnvelopeEncode(letter, addr) = letter
         \/ /\ canonicalize_address(addr) = Some([addr EXCEPT !.form = "canonical"])
            /\ Head(EnvelopeEncode(letter, addr)) =
                 Header([addr EXCEPT !.form = "canonical"])
            /\ EnvelopeEncode(letter, addr) # <<>>
            /\ EnvelopeDecode(EnvelopeEncode(letter, addr)).body = letter
<1> DEFINE c == [addr EXCEPT !.form = "canonical"]
           plain == <<Header(c)>> \o letter
<1>1. CASE addr.form = "illegal"
  BY <1>1 DEF EnvelopeEncode, canonicalize_address
<1>2. CASE addr.form = "long"
  <2>1. canonicalize_address(addr) = Some(addr) /\ Some(addr) # None /\ Some(addr)[1] = addr
    BY <1>2 DEF canonicalize_address, Some, None
  <2> QED
    BY <1>2, <2>1 DEF EnvelopeEncode
<1>3. CASE addr.form \in {"canonical", "spelled"}
  <2>1. canonicalize_address(addr) = Some(c) /\ Some(c) # None /\ Some(c)[1] = c
    BY <1>3 DEF canonicalize_address, Some, None
  <2>2. c \in Addresses /\ c.form = "canonical"
    BY DEF Addresses
  <2>3. EnvelopeEncode(letter, addr) = plain
    BY <2>1, <2>2 DEF EnvelopeEncode
  <2>4. Header(c) \in Headers /\ <<Header(c)>> \in Seq(Headers)
    BY <2>2 DEF Header, Headers, Some
  <2>5. plain # <<>> /\ Head(plain) = Header(c) /\ Tail(plain) = letter
    BY <2>4
  <2>6. Committed(Header(c))
    BY <2>2 DEF Committed, Header, Some
  <2>7. EnvelopeDecode(plain).body = letter
    BY <2>5, <2>6 DEF EnvelopeDecode
  <2> QED
    BY <2>1, <2>3, <2>5, <2>7
<1> QED
  BY <1>1, <1>2, <1>3 DEF Addresses

\* The body that is delivered is the body that was sent, unless that body was
\* sent bare and itself starts with an envelope header (envelope::decode).
THEOREM BodyIntactHolds == Spec => []BodyIntact
<1>1. Sealed => BodyIntact
  <2> SUFFICES ASSUME Sealed, result # None
               PROVE  \/ result[1].body = msg.body
                      \/ text = msg.body /\ msg.body # <<>> /\ Committed(Head(msg.body))
    BY DEF BodyIntact
  <2>1. msg.body \in Seq(Headers) /\ SenderAddr \in Addresses
    BY TransferAssumption DEF Sealed
  <2>2. result[1].body = EnvelopeDecode(text).body
    BY DEF Sealed, Labelled, Some
  <2>3. CASE text = msg.body
    BY <2>2, <2>3 DEF EnvelopeDecode
  <2>4. CASE text = EnvelopeEncode(msg.body, SenderAddr) /\ text # msg.body
    BY <2>1, <2>2, <2>4, EncodeDecode
  <2> QED
    BY <2>3, <2>4 DEF Sealed
<1> QED
  BY <1>1, SealedHolds, PTL

\* An envelope that decodes to an address decodes to the canonical form of one
\* its first header names.
LEMMA DecodedFrom ==
  ASSUME NEW plain, EnvelopeDecode(plain).from # None,
         plain # <<>> => Head(plain) \in Headers
  PROVE  /\ plain # <<>> /\ Head(plain).from # None
         /\ LET a == Head(plain).from[1]
            IN  EnvelopeDecode(plain).from = Some([a EXCEPT !.form = "canonical"])
<1>1. plain # <<>> /\ Committed(Head(plain)) /\ Head(plain).from # None
  BY DEF EnvelopeDecode
<1> DEFINE a == Head(plain).from[1]
<1>2. EnvelopeDecode(plain).from = canonicalize_address(a)
  BY <1>1 DEF EnvelopeDecode
<1>3. a.form # "long"
  BY <1>1 DEF Committed
<1>4. a.form # "illegal"
  BY <1>2 DEF canonicalize_address
<1> QED
  BY <1>1, <1>2, <1>3, <1>4 DEF canonicalize_address

\* The label shown with a message is the sender's own address, whatever address
\* the text claims to be from (resolve_envelope_label).
THEOREM LabelIsSendersHolds == Spec => []LabelIsSenders
<1>1. Sealed => LabelIsSenders
  <2> SUFFICES ASSUME Sealed, result # None, result[1].label # None
               PROVE  result[1].label = canonicalize_address(SenderAddr)
    BY DEF LabelIsSenders
  <2>1. msg.body \in Seq(Headers) /\ SenderAddr \in Addresses /\ Listed(SenderAddr)
    BY TransferAssumption DEF Sealed
  <2> DEFINE env == EnvelopeDecode(text)
             a == Head(text).from[1]
             c == [a EXCEPT !.form = "canonical"]
  <2>2. /\ env.from # None
        /\ result[1].label = resolve_envelope_label(env.from[1], SenderSpk)
    BY DEF Sealed, Labelled, Some, None
  \* The first header of the text: one of the body's, or the sender's own.
  <2>3. text # <<>> =>
          /\ Head(text) \in Headers
          /\ Head(text).from # None => a \in Addresses /\ Listed(a)
    <3>1. CASE text = msg.body
      <4> SUFFICES ASSUME text # <<>>
                   PROVE  /\ Head(text) \in Headers
                          /\ Head(text).from # None => a \in Addresses /\ Listed(a)
        OBVIOUS
      <4>1. Head(text) = msg.body[1] /\ 1 \in DOMAIN msg.body /\ msg.body[1] \in Headers
        BY <2>1, <3>1
      <4>2. msg.body[1].from \in Seq(Addresses)
        BY <4>1 DEF Headers
      <4> QED
        BY <4>1, <4>2, TransferAssumption DEF Sealed, None
    <3>2. CASE text = EnvelopeEncode(msg.body, SenderAddr) /\ text # msg.body
      <4> DEFINE s == [SenderAddr EXCEPT !.form = "canonical"]
      <4>1. Head(text) = Header(s)
        BY <2>1, <3>2, EncodeDecode
      <4>2. s \in Addresses /\ s.user = SenderAddr.user /\ s.host = SenderAddr.host
        BY <2>1 DEF Addresses
      <4>3. Header(s) \in Headers /\ Header(s).from[1] = s
        BY <4>2 DEF Header, Headers, Some
      <4> QED
        BY <2>1, <4>1, <4>2, <4>3 DEF Listed
    <3> QED
      BY <3>1, <3>2 DEF Sealed
  <2>4. env.from = Some(c) /\ a \in Addresses /\ Listed(a)
    BY <2>2, <2>3, DecodedFrom
  <2>5. /\ c \in Addresses /\ c.form = "canonical"
        /\ c.user = a.user /\ c.host = a.host /\ Listed(c)
    BY <2>4 DEF Addresses, Listed
  <2>6. env.from[1] = c /\ canonicalize_address(c) = Some(c) /\ Some(c)[1] = c /\ Some(c) # None
    <3>1. [c EXCEPT !.form = "canonical"] = c
      BY <2>5 DEF Addresses
    <3> QED
      BY <2>4, <2>5, <3>1 DEF canonicalize_address, Some, None
  <2>7. /\ result[1].label = Some(c)
        /\ \E r \in Directory[<<c.user, c.host>>] : r.username = c.user /\ r.spk = SenderSpk
    <3> DEFINE bound == \E r \in Directory[<<c.user, c.host>>] :
                          r.username = c.user /\ r.spk = SenderSpk
    <3>1. resolve_envelope_label(c, SenderSpk) = IF bound THEN Some(c) ELSE None
      <4> HIDE DEF c
      <4> QED
        BY <2>6 DEF resolve_envelope_label
    <3> QED
      BY <2>2, <2>6, <3>1
  <2>8. canonicalize_address(SenderAddr) =
          Some([user |-> c.user, host |-> c.host, form |-> "canonical"])
    BY <2>5, <2>7, DirectoryAssumption DEF Listed
  <2>9. c = [user |-> c.user, host |-> c.host, form |-> "canonical"]
    BY <2>5 DEF Addresses
  <2> QED
    BY <2>7, <2>8, <2>9
<1> QED
  BY <1>1, SealedHolds, PTL

---------------------------------------------------------------------------
(* AnnouncedWhole *)

\* While chunks are published, those before the current one are acknowledged.
Whole ==
    /\ pc = "compose" => at = 0 /\ accepted = {}
    /\ pc = "publish" => at \in Nat /\ accepted = 0..(at - 1)
    /\ AnnouncedWhole

LEMMA StepWhole == Whole /\ [Next]_vars => Whole'
<1> SUFFICES ASSUME Whole, [Next]_vars PROVE Whole'
  OBVIOUS
<1>1. ASSUME NEW rrset \in Profiles, Compose(rrset) PROVE Whole'
  <2>1. accepted = 0..(at - 1) /\ at \in Nat /\ pc' \in {"failed", "publish"}
    BY <1>1 DEF Compose, Whole
  <2> QED
    BY <1>1, <2>1 DEF Compose, Whole, AnnouncedWhole
<1>2. ASSUME NEW ack \in BOOLEAN, PublishChunk(ack) PROVE Whole'
  <2>1. CASE ack
    <3>1. accepted' = (0..(at - 1)) \cup {at} /\ at' = at + 1 /\ at \in Nat /\ pc' = "publish"
      BY <1>2, <2>1 DEF PublishChunk, Whole
    <3>2. (0..(at - 1)) \cup {at} = 0..(at' - 1)
      BY <3>1
    <3> QED
      BY <3>1, <3>2 DEF Whole, AnnouncedWhole
  <2>2. CASE ~ack
    BY <1>2, <2>2 DEF PublishChunk, Whole, AnnouncedWhole
  <2> QED
    BY <2>1, <2>2
<1>3. CASE PublishManifest
  BY <1>3 DEF PublishManifest, Whole, AnnouncedWhole, Kn
<1>4. ASSUME UNCHANGED <<accepted, msg>>, pc \in {"announced", "fetch"},
             pc' \in {"announced", "fetch", "done"}
      PROVE  Whole'
  BY <1>4 DEF Whole, AnnouncedWhole, Kn
<1>5. CASE Expire
  BY <1>4, <1>5 DEF Expire
<1>6. CASE StartFetch
  BY <1>4, <1>6 DEF StartFetch
<1>7. ASSUME NEW ok \in BOOLEAN, FetchChunk(ok) PROVE Whole'
  BY <1>4, <1>7 DEF FetchChunk
<1>8. ASSUME NEW resolved \in BOOLEAN, Finish(resolved) PROVE Whole'
  BY <1>4, <1>8 DEF Finish
<1>9. CASE UNCHANGED vars
  BY <1>9 DEF vars, Whole, AnnouncedWhole, Kn
<1> QED
  BY <1>1, <1>2, <1>3, <1>5, <1>6, <1>7, <1>8, <1>9 DEF Next, Receive

\* A manifest is announced only after the writer acknowledged every chunk name
\* (publish_chunks before the manifest in send_message).
THEOREM AnnouncedWholeHolds == Spec => []AnnouncedWhole
<1>1. Init => Whole
  BY DEF Init, Idle, Whole, AnnouncedWhole
<1>2. Whole => AnnouncedWhole
  BY DEF Whole
<1> QED
  BY <1>1, <1>2, StepWhole, PTL DEF Spec

---------------------------------------------------------------------------
(* The sizes choose_kn picks *)

LEMMA MaxOfTwo ==
  ASSUME NEW a \in Nat, NEW b \in Nat
  PROVE  Max({a, b}) = IF a >= b THEN a ELSE b
<1> DEFINE m == IF a >= b THEN a ELSE b
<1>1. m \in {a, b} /\ \A y \in {a, b} : m >= y
  OBVIOUS
<1>2. \A x \in {a, b} : (\A y \in {a, b} : x >= y) => x = m
  OBVIOUS
<1> QED
  BY <1>1, <1>2 DEF Max

LEMMA DivCeil ==
  ASSUME NEW a \in Nat \ {0}, NEW b \in Nat \ {0}
  PROVE  /\ div_ceil(a, b) \in Nat \ {0}
         /\ a <= div_ceil(a, b) * b /\ (div_ceil(a, b) - 1) * b < a
<1> DEFINE q == a \div b
           r == a % b
<1>1. a = b * q + r /\ q \in Nat /\ r \in 0..(b - 1)
  OBVIOUS
<1>2. div_ceil(a, b) = q + (IF r # 0 THEN 1 ELSE 0)
  BY DEF div_ceil
<1> HIDE DEF q, r
<1>3. CASE r = 0
  <2>1. div_ceil(a, b) = q /\ q # 0
    BY <1>1, <1>2, <1>3
  <2>2. q * b = b * q /\ (q - 1) * b = b * q - b
    BY <1>1
  <2> QED
    BY <1>1, <1>3, <2>1, <2>2
<1>4. CASE r # 0
  <2>1. div_ceil(a, b) = q + 1
    BY <1>1, <1>2, <1>4
  <2>2. (q + 1) * b = b * q + b /\ ((q + 1) - 1) * b = b * q
    BY <1>1
  <2> QED
    BY <1>1, <1>4, <2>1, <2>2
<1> QED
  BY <1>3, <1>4

\* The sizes erasure::choose_kn picks always fit: k blocks hold the prefixed
\* plaintext and k - 1 do not, and there is at least one parity share, and three
\* for every ten data shares.
THEOREM ChooseKnFits ==
  ASSUME NEW len \in Nat
  PROVE  LET kn == choose_kn(len)
         IN  /\ kn.k \in Nat \ {0} /\ kn.n \in Nat /\ kn.k < kn.n
             /\ len + LEN_PREFIX <= kn.k * DATA_PER_CHUNK
             /\ (kn.k - 1) * DATA_PER_CHUNK < len + LEN_PREFIX
             /\ 3 * kn.k <= 10 * (kn.n - kn.k)
<1> DEFINE k == div_ceil(len + LEN_PREFIX, DATA_PER_CHUNK)
           p == div_ceil(k * 3, 10)
<1>1. len + LEN_PREFIX \in Nat \ {0} /\ DATA_PER_CHUNK \in Nat \ {0}
  BY FecAssumption
<1>2. /\ k \in Nat \ {0}
      /\ len + LEN_PREFIX <= k * DATA_PER_CHUNK
      /\ (k - 1) * DATA_PER_CHUNK < len + LEN_PREFIX
  BY <1>1, DivCeil
<1>3. k * 3 \in Nat \ {0} /\ 10 \in Nat \ {0}
  BY <1>2
<1>4. p \in Nat \ {0} /\ k * 3 <= p * 10
  BY <1>3, DivCeil
<1>5. Max({k, 1}) = k /\ Max({p, 1}) = p
  BY <1>2, <1>4, MaxOfTwo
<1>6. choose_kn(len) = [k |-> k, n |-> k + p]
  BY <1>5 DEF choose_kn
<1> HIDE DEF k, p
<1> QED
  BY <1>2, <1>4, <1>6

---------------------------------------------------------------------------
(* Layouts *)

\* The words of steps, and the magics.
Words == {"room", "roomNum", "left", "leftNum", "end", "shape", "dotted", "take",
          "takeNum", "takeBut", "magic", "key", "stamp", "num", "subject", "repeat",
          "loop", "ifMore"}
Magics == {"HB02", "HB03", "CL01", "BS01", "ROT1", "RV01"}

Plain == {<<w>> : w \in Words} \cup (Words \X (Nat \cup Magics))
           \cup (Words \X Nat \X Nat \X Nat)
Steps == Plain \cup (Words \X Seq(Plain)) \cup (Words \X Nat \X Seq(Plain))
Progs == Seq(Steps)

\* Layout p from its step i on.
From(p, i) == SubSeq(p, i, Len(p))

\* A layout from step i on is that step and the layout from the next one on.
LEMMA FromIs ==
  ASSUME NEW p \in Progs, NEW i \in 1 .. Len(p)
  PROVE  /\ From(p, i) \in Progs /\ From(p, i) # <<>> /\ p[i] \in Steps
         /\ Head(From(p, i)) = p[i] /\ Tail(From(p, i)) = From(p, i + 1)
         /\ From(p, i + 1) \in Progs
<1>1. Len(p) \in Nat /\ i \in 1 .. Len(p) /\ Len(p) \in i .. Len(p) /\ p \in Seq(Steps)
  BY DEF Progs
<1>2. Head(From(p, i)) = p[i] /\ Tail(From(p, i)) = From(p, i + 1)
  <2>1. Head(SubSeq(p, i, Len(p))) = p[i]
    BY <1>1
  <2>2. /\ Tail(SubSeq(p, i, Len(p))) \in Seq(Steps) /\ SubSeq(p, i + 1, Len(p)) \in Seq(Steps)
        /\ Len(Tail(SubSeq(p, i, Len(p)))) = Len(p) - i
        /\ Len(SubSeq(p, i + 1, Len(p))) = Len(p) - i
    BY <1>1
  <2>3. ASSUME NEW j \in 1 .. Len(p) - i
        PROVE  Tail(SubSeq(p, i, Len(p)))[j] = SubSeq(p, i + 1, Len(p))[j]
    BY <1>1
  <2> DEFINE t == Tail(SubSeq(p, i, Len(p)))
             u == SubSeq(p, i + 1, Len(p))
  <2> HIDE DEF t, u
  <2>4. t \in Seq(Steps) /\ u \in Seq(Steps) /\ Len(t) = Len(p) - i /\ Len(u) = Len(p) - i
    BY <2>2 DEF t, u
  <2>5. \A j \in 1 .. Len(t) : t[j] = u[j]
    BY <2>3, <2>4 DEF t, u
  <2>6. t = u
    BY <2>4, <2>5, SeqEqual
  <2> QED
    BY <2>1, <2>6 DEF From, t, u
<1>3. /\ SubSeq(p, i, Len(p)) \in Seq(Steps) /\ SubSeq(p, i + 1, Len(p)) \in Seq(Steps)
      /\ Len(SubSeq(p, i, Len(p))) = Len(p) - i + 1
  BY <1>1
<1>4. Len(SubSeq(p, i, Len(p))) # 0
  BY <1>1, <1>3
<1>5. SubSeq(p, i, Len(p)) # <<>>
  <2> SUFFICES ASSUME SubSeq(p, i, Len(p)) = <<>> PROVE FALSE
    OBVIOUS
  <2>1. Len(<<>>) = 0
    OBVIOUS
  <2> QED
    BY <1>4, <2>1, Zenon
<1>6. p[i] \in Steps
  BY <1>1
<1> QED
  BY <1>2, <1>3, <1>5, <1>6 DEF From, Progs

\* From its first step on it is the whole layout, past its last the empty one.
LEMMA FromEnds ==
  ASSUME NEW p \in Progs
  PROVE  From(p, 1) = p /\ From(p, Len(p) + 1) = <<>>
BY DEF From, Progs

\* Past the end of the first of two layouts, the second one remains.
LEMMA FromConcat ==
  ASSUME NEW p \in Progs, NEW q \in Progs
  PROVE  /\ p \o q \in Progs /\ Len(p \o q) = Len(p) + Len(q)
         /\ \A i \in 1 .. Len(p) : (p \o q)[i] = p[i]
         /\ From(p \o q, Len(p) + 1) = q
<1>1. /\ p \o q \in Progs /\ Len(p \o q) = Len(p) + Len(q)
      /\ \A i \in 1 .. Len(p) : (p \o q)[i] = p[i]
      /\ Len(p) \in Nat /\ Len(q) \in Nat
  BY DEF Progs
<1>2. From(p \o q, Len(p) + 1) \in Progs /\ Len(From(p \o q, Len(p) + 1)) = Len(q)
  BY <1>1 DEF From, Progs
<1>3. ASSUME NEW i \in 1 .. Len(q) PROVE From(p \o q, Len(p) + 1)[i] = q[i]
  BY <1>1 DEF From, Progs
<1>4. From(p \o q, Len(p) + 1) = q
  BY <1>1, <1>2, <1>3, SeqEqual DEF Progs
<1> QED
  BY <1>1, <1>4

---------------------------------------------------------------------------
(* Safe configurations: a layout, the bytes left and the number read last. *)

Configs == Progs \X Nat \X Nat

\* A step op with r bytes left and n read last slices off nothing that is not
\* there, and whatever it leads to, before the steps q, is in T.
Fine(T, op, q, r, n) ==
    /\ op[1] = "room"    => (r >= op[2] => <<q, r, n>> \in T)
    /\ op[1] = "roomNum" => (r >= n + op[2] => <<q, r, n>> \in T)
    /\ op[1] = "left"    => (r = op[2] => <<q, r, n>> \in T)
    /\ op[1] = "leftNum" => (r = n => <<q, r, n>> \in T)
    /\ op[1] = "end"     => (r = 0 => <<q, r, n>> \in T)
    /\ op[1] \in {"shape", "dotted"} => <<q, r, n>> \in T
    /\ op[1] = "take"    => op[2] \in 0 .. r /\ <<q, r - op[2], n>> \in T
    /\ op[1] = "takeNum" => n \in 0 .. r /\ <<q, r - n, n>> \in T
    /\ op[1] = "takeBut" => op[2] \in 0 .. r /\ <<q, op[2], n>> \in T
    /\ op[1] = "magic"   => r >= 7 /\ <<q, r - 7, n>> \in T
    /\ op[1] = "key"     => r >= 32 /\ <<q, r - 32, n>> \in T
    /\ op[1] = "stamp"   => r >= 8 /\ <<q, r - 8, n>> \in T
    /\ op[1] = "num"     => /\ r >= op[2] /\ op[2] \in Nat
                            /\ \A m \in op[3] .. op[4] : <<q, r - op[2], m>> \in T
    /\ op[1] = "subject" => r >= 1 /\ \A m \in 1 .. SubjectMax(n) : <<q, r - 1, m>> \in T
    /\ op[1] = "repeat"  => << << <<"loop", n, op[2]>> >> \o q, r, n >> \in T
    /\ op[1] = "loop"    =>
         << (IF op[2] = 0 THEN <<>> ELSE op[3] \o << <<"loop", op[2] - 1, op[3]>> >>) \o q,
            r, n >> \in T
    /\ op[1] = "ifMore"  => <<(IF r > 0 THEN op[2] ELSE <<>>) \o q, r, n>> \in T

Closed(T) ==
    \A p \in Progs, r \in Nat, n \in Nat : <<p, r, n>> \in T =>
        IF p = <<>> THEN r = 0 ELSE Fine(T, Head(p), Tail(p), r, n)

\* The configurations from which no run slices past the end or leaves bytes.
Safe == {c \in Configs : \E T \in SUBSET Configs : Closed(T) /\ c \in T}

\* A step that is fine for some configurations is fine for more.
LEMMA FineGrows ==
  ASSUME NEW T, NEW U, T \subseteq U, NEW op, NEW q, NEW r, NEW n, Fine(T, op, q, r, n)
  PROVE  Fine(U, op, q, r, n)
BY DEF Fine

\* What a safe configuration leads to is safe.
LEMMA SafeClosed == Closed(Safe)
<1> SUFFICES ASSUME NEW p \in Progs, NEW r \in Nat, NEW n \in Nat, <<p, r, n>> \in Safe
             PROVE  IF p = <<>> THEN r = 0 ELSE Fine(Safe, Head(p), Tail(p), r, n)
  BY DEF Closed
<1>1. PICK T \in SUBSET Configs : Closed(T) /\ <<p, r, n>> \in T
  BY DEF Safe
<1>2. T \subseteq Safe
  BY <1>1 DEF Safe
<1>3. CASE p = <<>>
  BY <1>1, <1>3 DEF Closed
<1>4. CASE p # <<>>
  <2>1. Fine(T, Head(p), Tail(p), r, n)
    BY <1>1, <1>4 DEF Closed
  <2> QED
    BY <1>2, <1>4, <2>1, FineGrows
<1> QED
  BY <1>3, <1>4

\* A configuration is safe if its first step is fine and leads to safe ones.
LEMMA SafeIntro ==
  ASSUME NEW p \in Progs, NEW r \in Nat, NEW n \in Nat,
         IF p = <<>> THEN r = 0 ELSE Fine(Safe, Head(p), Tail(p), r, n)
  PROVE  <<p, r, n>> \in Safe
<1> DEFINE T == Safe \cup {<<p, r, n>>}
<1>1. T \in SUBSET Configs /\ Safe \subseteq T /\ <<p, r, n>> \in T /\ <<p, r, n>> \in Configs
  BY DEF Safe, Configs
<1>2. Closed(T)
  <2> SUFFICES ASSUME NEW x \in Progs, NEW s \in Nat, NEW m \in Nat, <<x, s, m>> \in T
               PROVE  IF x = <<>> THEN s = 0 ELSE Fine(T, Head(x), Tail(x), s, m)
    BY DEF Closed
  <2>1. IF x = <<>> THEN s = 0 ELSE Fine(Safe, Head(x), Tail(x), s, m)
    <3>1. CASE <<x, s, m>> \in Safe
      BY <3>1, SafeClosed DEF Closed
    <3>2. CASE x = p /\ s = r /\ m = n
      BY <3>2
    <3> QED
      BY <3>1, <3>2
  <2> HIDE DEF T
  <2> QED
    BY <1>1, <2>1, FineGrows
<1> HIDE DEF T
<1> QED
  BY <1>1, <1>2 DEF Safe

---------------------------------------------------------------------------
(* Needs: what has to be left of the body before a step of a layout.       *)

\* At least g bytes, g more than the number read, exactly g, or exactly the
\* number read.
Needs == {"least", "num", "just", "justNum"} \X Nat
Fits(c, r, n) == /\ c[1] = "least"   => r >= c[2]
                 /\ c[1] = "num"     => r >= n + c[2]
                 /\ c[1] = "just"    => r = c[2]
                 /\ c[1] = "justNum" => r = n

Follows(q, c) == \A r, n \in Nat : Fits(c, r, n) => <<q, r, n>> \in Safe
AtLeast(q, g) == \A r, n \in Nat : r >= g => <<q, r, n>> \in Safe

\* A layout is safe where its next step is fine.
LEMMA StepSafe ==
  ASSUME NEW p \in Progs, NEW i \in 1 .. Len(p), NEW r \in Nat, NEW n \in Nat,
         Fine(Safe, p[i], From(p, i + 1), r, n)
  PROVE  <<From(p, i), r, n>> \in Safe
BY FromIs, SafeIntro

\* With nothing left to do and nothing left to read, all is well.
LEMMA EndSafe == \A n \in Nat : << <<>>, 0, n>> \in Safe
<1>1. <<>> \in Progs /\ 0 \in Nat
  BY DEF Progs
<1> QED
  BY <1>1, SafeIntro, Zenon

\* A set of naturals that is not empty has a least element.
LEMMA Least ==
  ASSUME NEW T \in SUBSET Nat, T # {}
  PROVE  \E x \in T : \A y \in T : x <= y
<1> DEFINE lt == {ss \in Nat \X Nat : ss[1] < ss[2]}
<1>1. IsWellFoundedOn(lt, Nat)
  BY NatLessThanWellFounded DEF OpToRel
<1>2. PICK x \in T : \A y \in T : ~ (<<y, x>> \in lt)
  BY <1>1, WFMin
<1>3. ASSUME NEW y \in T PROVE x <= y
  <2>1. ~(y < x)
    BY <1>2
  <2> QED
    BY <2>1
<1> QED
  BY <1>3

\* A loop is safe if its body is, before anything that is.
LEMMA LoopRule ==
  ASSUME NEW b \in Seq(Plain), NEW q \in Progs, AtLeast(q, 0),
         \A x \in Progs : AtLeast(x, 0) => AtLeast(b \o x, 0),
         NEW k \in Nat
  PROVE  AtLeast(<< <<"loop", k, b>> >> \o q, 0)
<1> DEFINE Loop(n) == << <<"loop", n, b>> >> \o q
           Bad == {n \in Nat : ~AtLeast(Loop(n), 0)}
<1>1. b \in Progs
  BY DEF Progs, Steps
<1>8. \A n \in Nat : <<"loop", n, b>> \in Steps
  <2> DEFINE D == Seq(Plain)
  <2>2. b \in D
    OBVIOUS
  <2> HIDE DEF D
  <2>3. \A n \in Nat : <<"loop", n, b>> \in Words \X Nat \X D
    BY <2>2 DEF Words
  <2>1. ASSUME NEW n \in Nat PROVE <<"loop", n, b>> \in Words \X Nat \X Seq(Plain)
    BY <2>3 DEF D
  <2> QED
    BY <2>1 DEF Steps
<1>2. ASSUME NEW n \in Nat
      PROVE  /\ Loop(n) \in Progs /\ Len(Loop(n)) \in Nat /\ 1 \in 1 .. Len(Loop(n))
             /\ Loop(n)[1] = <<"loop", n, b>>
             /\ From(Loop(n), 1) = Loop(n) /\ From(Loop(n), 1 + 1) = q
  <2> DEFINE s == << <<"loop", n, b>> >>
  <2>1. s \in Progs /\ Len(s) = 1 /\ s[1] = <<"loop", n, b>>
    BY <1>8 DEF Progs
  <2>2. Len(q) \in Nat
    BY DEF Progs
  <2> HIDE DEF s
  <2>3. /\ s \o q \in Progs /\ Len(s \o q) = Len(s) + Len(q)
        /\ \A i \in 1 .. Len(s) : (s \o q)[i] = s[i]
        /\ From(s \o q, Len(s) + 1) = q
    BY <2>1, FromConcat
  <2>4. From(s \o q, 1) = s \o q
    BY <2>3, FromEnds
  <2>5. /\ Len(s \o q) \in Nat /\ 1 \in 1 .. Len(s \o q)
        /\ (s \o q)[1] = s[1] /\ From(s \o q, 1 + 1) = q
    BY <2>1, <2>2, <2>3
  <2>6. s \o q = Loop(n)
    BY DEF s
  <2> HIDE DEF Loop
  <2> QED
    BY <2>1, <2>3, <2>4, <2>5, <2>6
<1> SUFFICES Bad = {}
  OBVIOUS
<1> SUFFICES ASSUME Bad # {} PROVE FALSE
  OBVIOUS
<1>3. PICK n \in Bad : \A m \in Bad : n <= m
  BY Least
<1>4. n \in Nat /\ ~AtLeast(Loop(n), 0) /\ (n > 0 => AtLeast(Loop(n - 1), 0) /\ n - 1 \in Nat)
  BY <1>3
<1> HIDE DEF Bad, Loop
<1>5. ASSUME NEW r \in Nat, NEW m \in Nat
      PROVE  <<Loop(n), r, m>> \in Safe
  <2>4. Loop(n)[1] = <<"loop", n, b>>
    BY <1>2, <1>4
  <2>1. Loop(n)[1][1] = "loop" /\ Loop(n)[1][2] = n /\ Loop(n)[1][3] = b
    BY <2>4
  <2>2. CASE n = 0
    <3>1. <<>> \o q = q
      BY DEF Progs
    <3>2. << <<>> \o q, r, m>> \in Safe
      BY <3>1 DEF AtLeast
    <3>3. Fine(Safe, Loop(n)[1], q, r, m)
      BY <2>1, <2>2, <3>2 DEF Fine
    <3> QED
      BY <1>2, <1>4, <3>3, StepSafe
  <2>3. CASE n > 0
    <3> DEFINE s == << <<"loop", n - 1, b>> >>
    <3>1. s \in Progs
      BY <1>8, <1>4, <2>3 DEF Progs
    <3> HIDE DEF s
    <3>2. (b \o s) \o q = b \o (s \o q)
      BY <1>1, <3>1, ConcatAssociative DEF Progs
    <3>3. s \o q = Loop(n - 1) /\ Loop(n - 1) \in Progs
      BY <1>2, <1>4, <2>3 DEF s, Loop
    <3>6. AtLeast(b \o Loop(n - 1), 0)
      BY <1>4, <2>3, <3>3
    <3>9. <<b \o Loop(n - 1), r, m>> \in Safe
      BY <3>6 DEF AtLeast
    <3>4. <<(b \o s) \o q, r, m>> \in Safe
      BY <3>2, <3>3, <3>9, Zenon
    <3>10. n # 0
      BY <2>3
    <3>7. (IF n = 0 THEN <<>> ELSE b \o << <<"loop", n - 1, b>> >>) \o q = (b \o s) \o q
      BY <3>10, Zenon DEF s
    <3>8. << (IF n = 0 THEN <<>> ELSE b \o << <<"loop", n - 1, b>> >>) \o q, r, m>> \in Safe
      BY <3>4, <3>7
    <3>5. Fine(Safe, Loop(n)[1], q, r, m)
      BY <2>1, <3>8 DEF Fine
    <3> QED
      BY <1>2, <1>4, <3>5, StepSafe
  <2> QED
    BY <1>4, <2>2, <2>3
<1> QED
  BY <1>4, <1>5 DEF AtLeast

\* A body that may be repeated, and one that may end a layout.
Repeats(b) == b \in Seq(Plain) /\ \A x \in Progs : AtLeast(x, 0) => AtLeast(b \o x, 0)
Ends(b)    == \A x \in Progs : Follows(x, <<"just", 0>>) => AtLeast(b \o x, 1)

\* A step that slices k bytes off.
Slices(op, k) == \/ op[1] = "take" /\ op[2] = k
                 \/ op[1] = "magic" /\ k = 7
                 \/ op[1] = "key" /\ k = 32
                 \/ op[1] = "stamp" /\ k = 8
                 \/ op[1] = "num" /\ op[2] = k /\ op[3] \in Nat /\ op[4] \in Nat

\* Step op, where the body fits c, leaves a body that fits d.
Goes(op, c, d) ==
    \/ /\ c[1] = "least" /\ d[1] = "least"
       /\ \/ op[1] = "room" /\ op[2] = d[2]
          \/ op[1] = "shape" /\ c[2] = d[2]
          \/ op[1] = "subject" /\ c[2] = d[2] + 1
          \/ op[1] = "repeat" /\ d[2] = 0 /\ Repeats(op[2])
    \/ c[1] \in {"least", "just"} /\ d[1] = c[1] /\ d[2] <= c[2] /\ Slices(op, c[2] - d[2])
    \/ c[1] = "just" /\ d[1] = "just" /\ c[2] = d[2] /\ op[1] = "shape"
    \/ c[1] = "least" /\ d[1] = "num" /\ op[1] = "roomNum" /\ op[2] = d[2]
    \/ c[1] = "least" /\ d[1] = "just" /\ op[1] = "left" /\ op[2] = d[2]
    \/ c[1] = "least" /\ d[1] = "just" /\ op[1] = "end" /\ d[2] = 0
    \/ c[1] = "least" /\ d[1] = "justNum" /\ op[1] = "leftNum"
    \/ c[1] = "least" /\ d[1] = "just" /\ op[1] = "takeBut" /\ op[2] = d[2] /\ c[2] = d[2]
    \/ c[1] = "num" /\ d[1] = "num" /\ op[1] = "dotted" /\ c[2] = d[2]
    \/ c[1] = "num" /\ d[1] = "least" /\ op[1] = "takeNum" /\ c[2] = d[2]
    \/ c[1] = "justNum" /\ d[1] = "just" /\ op[1] = "takeNum" /\ d[2] = 0
    \/ c[1] = "least" /\ d[1] = "just" /\ op[1] = "ifMore" /\ d[2] = 0 /\ Ends(op[2])

\* A step that slices k bytes off is fine where k bytes are left.
LEMMA SliceFine ==
  ASSUME NEW op, NEW q, NEW k \in Nat, NEW r \in Nat, NEW n \in Nat, Slices(op, k), k <= r,
         \A m \in Nat : <<q, r - k, m>> \in Safe
  PROVE  Fine(Safe, op, q, r, n)
<1>1. CASE op[1] = "take" /\ op[2] = k
  BY <1>1 DEF Fine
<1>2. CASE op[1] = "magic" /\ k = 7
  BY <1>2 DEF Fine
<1>3. CASE op[1] = "key" /\ k = 32
  BY <1>3 DEF Fine
<1>4. CASE op[1] = "stamp" /\ k = 8
  BY <1>4 DEF Fine
<1>5. CASE op[1] = "num" /\ op[2] = k /\ op[3] \in Nat /\ op[4] \in Nat
  <2>1. op[3] .. op[4] \subseteq Nat
    BY <1>5
  <2> QED
    BY <1>5, <2>1 DEF Fine
<1> QED
  BY <1>1, <1>2, <1>3, <1>4, <1>5 DEF Slices

\* A counted loop is fine before steps that need nothing.
LEMMA RepeatFine ==
  ASSUME NEW op, NEW q \in Progs, op[1] = "repeat", Repeats(op[2]), AtLeast(q, 0),
         NEW r \in Nat, NEW n \in Nat
  PROVE  Fine(Safe, op, q, r, n)
<1>1. AtLeast(<< <<"loop", n, op[2]>> >> \o q, 0)
  BY LoopRule DEF Repeats
<1>2. << << <<"loop", n, op[2]>> >> \o q, r, n>> \in Safe
  BY <1>1 DEF AtLeast
<1> QED
  BY <1>2 DEF Fine

\* An optional tail is fine before steps that need all bytes read.
LEMMA IfMoreFine ==
  ASSUME NEW op, NEW q \in Progs, op[1] = "ifMore", Ends(op[2]), Follows(q, <<"just", 0>>),
         NEW r \in Nat, NEW n \in Nat
  PROVE  Fine(Safe, op, q, r, n)
<1>1. CASE r = 0
  <2>1. <<>> \o q = q
    BY DEF Progs
  <2>2. <<q, r, n>> \in Safe
    BY <1>1 DEF Follows, Fits
  <2>3. << <<>> \o q, r, n>> \in Safe
    BY <2>1, <2>2
  <2> QED
    BY <1>1, <2>3 DEF Fine
<1>2. CASE r > 0
  <2>1. <<op[2] \o q, r, n>> \in Safe
    BY <1>2 DEF Ends, AtLeast
  <2> QED
    BY <1>2, <2>1 DEF Fine
<1> QED
  BY <1>1, <1>2

\* A step is fine where its need is met and the rest is safe where the next need is.
LEMMA GoesFine ==
  ASSUME NEW op, NEW q \in Progs, NEW c \in Needs, NEW d \in Needs, Goes(op, c, d),
         Follows(q, d), NEW r \in Nat, NEW n \in Nat, Fits(c, r, n)
  PROVE  Fine(Safe, op, q, r, n)
<1>1. c[2] \in Nat /\ d[2] \in Nat
  BY DEF Needs
<1>2. CASE c[1] = "least" /\ d[1] = "least" /\ op[1] = "room" /\ op[2] = d[2]
  BY <1>1, <1>2 DEF Follows, Fits, Fine
<1>3. CASE c[1] = "least" /\ d[1] = "least" /\ op[1] = "shape" /\ c[2] = d[2]
  BY <1>1, <1>3 DEF Follows, Fits, Fine
<1>4. CASE c[1] = "least" /\ d[1] = "least" /\ op[1] = "subject" /\ c[2] = d[2] + 1
  <2>1. r - 1 \in Nat /\ r - 1 >= d[2] /\ r >= 1
    BY <1>1, <1>4 DEF Fits
  <2>2. 1 .. SubjectMax(n) \subseteq Nat
    BY DEF SubjectMax
  <2>3. \A m \in 1 .. SubjectMax(n) : <<q, r - 1, m>> \in Safe
    BY <1>4, <2>1, <2>2 DEF Follows, Fits
  <2> QED
    BY <1>4, <2>1, <2>3 DEF Fine
<1>5. CASE c[1] = "least" /\ d[1] = "least" /\ op[1] = "repeat" /\ d[2] = 0 /\ Repeats(op[2])
  <2>1. AtLeast(q, 0)
    BY <1>5 DEF Follows, Fits, AtLeast
  <2> QED
    BY <1>5, <2>1, RepeatFine
<1>6. CASE c[1] \in {"least", "just"} /\ d[1] = c[1] /\ d[2] <= c[2] /\ Slices(op, c[2] - d[2])
  <2> DEFINE k == c[2] - d[2]
  <2>1. k \in Nat /\ r - k \in Nat /\ k <= r
    BY <1>1, <1>6 DEF Fits
  <2>2. \A m \in Nat : Fits(d, r - k, m)
    BY <1>1, <1>6 DEF Fits
  <2>3. Slices(op, k)
    BY <1>6
  <2> HIDE DEF k
  <2>4. \A m \in Nat : <<q, r - k, m>> \in Safe
    BY <2>1, <2>2 DEF Follows
  <2> QED
    BY <2>1, <2>3, <2>4, SliceFine
<1>7. CASE c[1] = "just" /\ d[1] = "just" /\ c[2] = d[2] /\ op[1] = "shape"
  BY <1>1, <1>7 DEF Follows, Fits, Fine
<1>8. CASE c[1] = "least" /\ d[1] = "num" /\ op[1] = "roomNum" /\ op[2] = d[2]
  BY <1>1, <1>8 DEF Follows, Fits, Fine
<1>9. CASE c[1] = "least" /\ d[1] = "just" /\ op[1] = "left" /\ op[2] = d[2]
  BY <1>1, <1>9 DEF Follows, Fits, Fine
<1>10. CASE c[1] = "least" /\ d[1] = "just" /\ op[1] = "end" /\ d[2] = 0
  BY <1>1, <1>10 DEF Follows, Fits, Fine
<1>11. CASE c[1] = "least" /\ d[1] = "justNum" /\ op[1] = "leftNum"
  BY <1>1, <1>11 DEF Follows, Fits, Fine
<1>12. CASE c[1] = "least" /\ d[1] = "just" /\ op[1] = "takeBut" /\ op[2] = d[2] /\ c[2] = d[2]
  <2>1. d[2] \in 0 .. r /\ <<q, d[2], n>> \in Safe
    BY <1>1, <1>12 DEF Follows, Fits
  <2> QED
    BY <1>12, <2>1 DEF Fine
<1>13. CASE c[1] = "num" /\ d[1] = "num" /\ op[1] = "dotted" /\ c[2] = d[2]
  BY <1>1, <1>13 DEF Follows, Fits, Fine
<1>14. CASE c[1] = "num" /\ d[1] = "least" /\ op[1] = "takeNum" /\ c[2] = d[2]
  <2>1. r - n \in Nat /\ n \in 0 .. r /\ Fits(d, r - n, n)
    BY <1>1, <1>14 DEF Fits
  <2>2. <<q, r - n, n>> \in Safe
    BY <2>1 DEF Follows
  <2> QED
    BY <1>14, <2>1, <2>2 DEF Fine
<1>15. CASE c[1] = "justNum" /\ d[1] = "just" /\ op[1] = "takeNum" /\ d[2] = 0
  <2>1. r - n = 0 /\ n \in 0 .. r /\ Fits(d, 0, n)
    BY <1>1, <1>15 DEF Fits
  <2>2. <<q, r - n, n>> \in Safe
    BY <2>1 DEF Follows
  <2> QED
    BY <1>15, <2>1, <2>2 DEF Fine
<1>16. CASE c[1] = "least" /\ d[1] = "just" /\ op[1] = "ifMore" /\ d[2] = 0 /\ Ends(op[2])
  <2>1. Follows(q, <<"just", 0>>)
    BY <1>16 DEF Follows, Fits
  <2> QED
    BY <1>16, <2>1, IfMoreFine
<1> QED
  BY <1>2, <1>3, <1>4, <1>5, <1>6, <1>7, <1>8, <1>9, <1>10, <1>11, <1>12, <1>13, <1>14,
     <1>15, <1>16 DEF Goes

\* A layout whose first m steps go from need to need is safe if what follows
\* them is.
LEMMA Annotated ==
  ASSUME NEW p \in Progs, NEW m \in 0 .. Len(p), NEW c \in Seq(Needs), m < Len(c),
         \A i \in 1 .. m : Goes(p[i], c[i], c[i + 1]),
         Follows(From(p, m + 1), c[m + 1])
  PROVE  Follows(p, c[1])
<1> DEFINE Good(i) == Follows(From(p, i), c[i])
           Bad == {k \in 0 .. m : ~Good(m + 1 - k)}
<1>1. m \in Nat /\ Len(p) \in Nat /\ m <= Len(p)
  BY DEF Progs
<1>2. ASSUME NEW i \in 1 .. m, Good(i + 1) PROVE Good(i)
  <2>1. i \in 1 .. Len(p) /\ c[i] \in Needs /\ c[i + 1] \in Needs /\ Goes(p[i], c[i], c[i + 1])
    BY <1>1
  <2>2. From(p, i + 1) \in Progs
    BY <2>1, FromIs
  <2>3. ASSUME NEW r \in Nat, NEW n \in Nat, Fits(c[i], r, n)
        PROVE  <<From(p, i), r, n>> \in Safe
    <3>1. Fine(Safe, p[i], From(p, i + 1), r, n)
      BY <1>2, <2>1, <2>2, <2>3, GoesFine
    <3> QED
      BY <2>1, <3>1, StepSafe
  <2> QED
    BY <2>3 DEF Follows
<1> HIDE DEF Good
<1>3. Bad = {}
  <2> SUFFICES ASSUME Bad # {} PROVE FALSE
    OBVIOUS
  <2>1. PICK k \in Bad : \A l \in Bad : k <= l
    <3>1. Bad \in SUBSET Nat
      BY <1>1
    <3> HIDE DEF Bad
    <3> QED
      BY <3>1, Least
  <2>2. k \in 0 .. m /\ ~Good(m + 1 - k)
    BY <2>1
  <2>3. k # 0
    BY <1>1, <2>2 DEF Good
  <2>6. k - 1 \in 0 .. m /\ ~(k <= k - 1)
    BY <1>1, <2>2, <2>3
  <2>7. k - 1 \notin Bad
    <3> HIDE DEF Bad
    <3> QED
      BY <2>1, <2>6
  <2>4. k - 1 \in 0 .. m /\ Good(m + 1 - (k - 1))
    BY <2>6, <2>7
  <2>5. m + 1 - (k - 1) = (m + 1 - k) + 1 /\ m + 1 - k \in 1 .. m
    BY <1>1, <2>2, <2>3
  <2> QED
    BY <1>2, <2>2, <2>4, <2>5
<1>4. Good(1)
  <2>1. m \in 0 .. m /\ m + 1 - m = 1
    BY <1>1
  <2> QED
    BY <1>3, <2>1
<1> QED
  BY <1>4, FromEnds DEF Good

\* The shapes steps have.
LEMMA StepTypes ==
  /\ \A w \in Words : <<w>> \in Plain
  /\ \A w \in Words, n \in Nat : <<w, n>> \in Plain
  /\ \A w \in Words, m \in Magics : <<w, m>> \in Plain
  /\ \A w \in Words, k \in Nat, l \in Nat, h \in Nat : <<w, k, l, h>> \in Plain
  /\ \A w \in Words, b \in Seq(Plain) : <<w, b>> \in Steps
  /\ Plain \subseteq Steps /\ Seq(Plain) \subseteq Progs
<1>1. \A w \in Words : <<w>> \in Plain
  BY DEF Plain
<1>2. \A w \in Words, n \in Nat : <<w, n>> \in Plain
  BY DEF Plain
<1>3. \A w \in Words, m \in Magics : <<w, m>> \in Plain
  BY DEF Plain
<1>4. \A w \in Words, k \in Nat, l \in Nat, h \in Nat : <<w, k, l, h>> \in Plain
  BY DEF Plain
<1>5. \A w \in Words, b \in Seq(Plain) : <<w, b>> \in Steps
  BY DEF Steps
<1>6. Plain \subseteq Steps
  BY DEF Steps
<1>7. Seq(Plain) \subseteq Progs
  BY <1>6 DEF Progs
<1> QED BY <1>1, <1>2, <1>3, <1>4, <1>5, <1>6, <1>7

\* The words of steps, one by one.
LEMMA WordsAre ==
  /\ "room" \in Words /\ "roomNum" \in Words /\ "left" \in Words /\ "leftNum" \in Words
  /\ "end" \in Words /\ "shape" \in Words /\ "dotted" \in Words /\ "take" \in Words
  /\ "takeNum" \in Words /\ "takeBut" \in Words /\ "magic" \in Words /\ "key" \in Words
  /\ "stamp" \in Words /\ "num" \in Words /\ "subject" \in Words /\ "repeat" \in Words
  /\ "ifMore" \in Words
BY DEF Words

\* The magics, one by one.
LEMMA MagicsAre ==
  /\ "HB02" \in Magics /\ "HB03" \in Magics /\ "CL01" \in Magics /\ "BS01" \in Magics
  /\ "ROT1" \in Magics /\ "RV01" \in Magics
BY DEF Magics

\* c gives the need before each step of p and after the last.
Annotates(c, p) ==
    /\ p \in Progs /\ c \in Seq(Needs) /\ Len(c) = Len(p) + 1
    /\ \A i \in 1 .. Len(p) : Goes(p[i], c[i], c[i + 1])

\* A layout goes before whatever is safe where its last need is met.
LEMMA Before ==
  ASSUME NEW p, NEW c, Annotates(c, p), NEW x \in Progs, Follows(x, c[Len(c)])
  PROVE  Follows(p \o x, c[1])
<1> DEFINE w == p \o x
<1>1. /\ p \in Progs /\ c \in Seq(Needs) /\ Len(c) = Len(p) + 1
      /\ \A i \in 1 .. Len(p) : Goes(p[i], c[i], c[i + 1])
  BY DEF Annotates
<1>2. /\ w \in Progs /\ Len(w) = Len(p) + Len(x) /\ \A i \in 1 .. Len(p) : w[i] = p[i]
      /\ From(w, Len(p) + 1) = x
  BY <1>1, FromConcat
<1> HIDE DEF w
<1>3. Len(p) \in Nat /\ Len(p) \in 0 .. Len(w) /\ Len(p) < Len(c)
  BY <1>1, <1>2 DEF Progs
<1>4. Follows(From(w, Len(p) + 1), c[Len(p) + 1])
  BY <1>1, <1>2
<1>5. \A i \in 1 .. Len(p) : Goes(w[i], c[i], c[i + 1])
  BY <1>1, <1>2
<1>6. Follows(w, c[1])
  BY <1>1, <1>2, <1>3, <1>4, <1>5, Annotated
<1> QED
  BY <1>6 DEF w

\* A whole layout, from nothing known to nothing left.
LEMMA LayoutSafe ==
  ASSUME NEW p, NEW c, Annotates(c, p), c[1] = <<"least", 0>>, c[Len(c)] = <<"just", 0>>
  PROVE  AtLeast(p, 0)
<1>1. <<>> \in Progs /\ p \in Progs /\ p \o <<>> = p
  BY DEF Annotates, Progs
<1>2. Follows(<<>>, c[Len(c)])
  BY EndSafe DEF Follows, Fits
<1>3. Follows(p \o <<>>, c[1])
  BY <1>1, <1>2, Before
<1> QED
  BY <1>1, <1>3 DEF Follows, Fits, AtLeast

\* A layout from nothing known to nothing known may be repeated.
LEMMA LayoutRepeats ==
  ASSUME NEW p \in Seq(Plain), NEW c, Annotates(c, p),
         c[1] = <<"least", 0>>, c[Len(c)] = <<"least", 0>>
  PROVE  Repeats(p)
<1> SUFFICES ASSUME NEW x \in Progs, AtLeast(x, 0) PROVE AtLeast(p \o x, 0)
  BY DEF Repeats
<1>1. Follows(x, c[Len(c)])
  BY DEF Follows, Fits, AtLeast
<1>2. Follows(p \o x, c[1])
  BY <1>1, Before
<1> QED
  BY <1>2 DEF Follows, Fits, AtLeast

\* A layout from one byte left to nothing left may end another.
LEMMA LayoutEnds ==
  ASSUME NEW p, NEW c, Annotates(c, p), c[1] = <<"least", 1>>, c[Len(c)] = <<"just", 0>>
  PROVE  Ends(p)
<1> SUFFICES ASSUME NEW x \in Progs, Follows(x, <<"just", 0>>) PROVE AtLeast(p \o x, 1)
  BY DEF Ends
<1>1. Follows(x, c[Len(c)])
  OBVIOUS
<1>2. Follows(p \o x, c[1])
  BY <1>1, Before
<1> QED
  BY <1>2 DEF Follows, Fits, AtLeast

\* The shapes needs have.
LEMMA NeedTypes ==
  \A f \in {"least", "num", "just", "justNum"}, g \in Nat : <<f, g>> \in Needs
BY DEF Needs

\* The steps as the layouts write them.
LEMMA GoesRules ==
  ASSUME NEW g \in Nat, NEW h \in Nat
  PROVE  /\ Goes(<<"room", g>>, <<"least", h>>, <<"least", g>>)
         /\ Goes(<<"roomNum", g>>, <<"least", h>>, <<"num", g>>)
         /\ Goes(<<"left", g>>, <<"least", h>>, <<"just", g>>)
         /\ Goes(<<"leftNum">>, <<"least", h>>, <<"justNum", 0>>)
         /\ Goes(<<"end">>, <<"least", h>>, <<"just", 0>>)
         /\ Goes(<<"shape">>, <<"least", h>>, <<"least", h>>)
         /\ Goes(<<"shape">>, <<"just", h>>, <<"just", h>>)
         /\ Goes(<<"dotted", g>>, <<"num", h>>, <<"num", h>>)
         /\ Goes(<<"takeNum">>, <<"num", h>>, <<"least", h>>)
         /\ Goes(<<"takeNum">>, <<"justNum", 0>>, <<"just", 0>>)
         /\ Goes(<<"takeBut", h>>, <<"least", h>>, <<"just", h>>)
<1>1. /\ Goes(<<"room", g>>, <<"least", h>>, <<"least", g>>)
      /\ Goes(<<"roomNum", g>>, <<"least", h>>, <<"num", g>>)
      /\ Goes(<<"left", g>>, <<"least", h>>, <<"just", g>>)
  BY DEF Goes
<1>2. /\ Goes(<<"leftNum">>, <<"least", h>>, <<"justNum", 0>>)
      /\ Goes(<<"end">>, <<"least", h>>, <<"just", 0>>)
      /\ Goes(<<"shape">>, <<"least", h>>, <<"least", h>>)
  BY DEF Goes
<1>3. /\ Goes(<<"shape">>, <<"just", h>>, <<"just", h>>)
      /\ Goes(<<"dotted", g>>, <<"num", h>>, <<"num", h>>)
      /\ Goes(<<"takeNum">>, <<"num", h>>, <<"least", h>>)
  BY DEF Goes
<1>4. /\ Goes(<<"takeNum">>, <<"justNum", 0>>, <<"just", 0>>)
      /\ Goes(<<"takeBut", h>>, <<"least", h>>, <<"just", h>>)
  BY DEF Goes
<1> QED
  BY <1>1, <1>2, <1>3, <1>4

\* The slicing steps, with at least or just so many bytes left.
LEMMA SliceGoes ==
  ASSUME NEW g \in Nat, NEW h \in Nat, NEW f, f \in {"least", "just"}
  PROVE  /\ \A k \in Nat : h = g + k => Goes(<<"take", k>>, <<f, h>>, <<f, g>>)
         /\ \A m \in Magics : h = g + 7 => Goes(<<"magic", m>>, <<f, h>>, <<f, g>>)
         /\ h = g + 32 => Goes(<<"key">>, <<f, h>>, <<f, g>>)
         /\ h = g + 8 => Goes(<<"stamp">>, <<f, h>>, <<f, g>>)
         /\ \A k, l, m \in Nat : h = g + k => Goes(<<"num", k, l, m>>, <<f, h>>, <<f, g>>)
<1>1. ASSUME NEW op, NEW k \in Nat, h = g + k, Slices(op, k)
      PROVE  Goes(op, <<f, h>>, <<f, g>>)
  <2>1. h - g = k /\ g <= h
    BY <1>1
  <2> QED
    BY <1>1, <2>1 DEF Goes
<1>2. \A k : Slices(<<"take", k>>, k)
  BY DEF Slices
<1>3. \A m \in Magics : Slices(<<"magic", m>>, 7)
  BY DEF Slices
<1>4. Slices(<<"key">>, 32) /\ Slices(<<"stamp">>, 8)
  BY DEF Slices
<1>5. \A k, l, m \in Nat : Slices(<<"num", k, l, m>>, k)
  BY DEF Slices
<1>6. \A k \in Nat : h = g + k => Goes(<<"take", k>>, <<f, h>>, <<f, g>>)
  BY <1>1, <1>2
<1>7. \A m \in Magics : h = g + 7 => Goes(<<"magic", m>>, <<f, h>>, <<f, g>>)
  BY <1>1, <1>3
<1>8. h = g + 32 => Goes(<<"key">>, <<f, h>>, <<f, g>>)
  BY <1>1, <1>4
<1>9. h = g + 8 => Goes(<<"stamp">>, <<f, h>>, <<f, g>>)
  BY <1>1, <1>4
<1>10. \A k, l, m \in Nat : h = g + k => Goes(<<"num", k, l, m>>, <<f, h>>, <<f, g>>)
  BY <1>1, <1>5
<1> QED
  BY <1>6, <1>7, <1>8, <1>9, <1>10

\* The slicing steps with at least so many bytes left.
LEMMA LeastGoes ==
  /\ \A g, h, k \in Nat : h = g + k => Goes(<<"take", k>>, <<"least", h>>, <<"least", g>>)
  /\ \A g, h \in Nat : \A m \in Magics :
        h = g + 7 => Goes(<<"magic", m>>, <<"least", h>>, <<"least", g>>)
  /\ \A g, h \in Nat : h = g + 32 => Goes(<<"key">>, <<"least", h>>, <<"least", g>>)
  /\ \A g, h \in Nat : h = g + 8 => Goes(<<"stamp">>, <<"least", h>>, <<"least", g>>)
  /\ \A g, h, k, l, m \in Nat :
        h = g + k => Goes(<<"num", k, l, m>>, <<"least", h>>, <<"least", g>>)
BY SliceGoes

\* The slicing steps with just so many bytes left.
LEMMA JustGoes ==
  /\ \A g, h, k \in Nat : h = g + k => Goes(<<"take", k>>, <<"just", h>>, <<"just", g>>)
  /\ \A g, h \in Nat : \A m \in Magics :
        h = g + 7 => Goes(<<"magic", m>>, <<"just", h>>, <<"just", g>>)
  /\ \A g, h \in Nat : h = g + 32 => Goes(<<"key">>, <<"just", h>>, <<"just", g>>)
  /\ \A g, h \in Nat : h = g + 8 => Goes(<<"stamp">>, <<"just", h>>, <<"just", g>>)
  /\ \A g, h, k, l, m \in Nat :
        h = g + k => Goes(<<"num", k, l, m>>, <<"just", h>>, <<"just", g>>)
BY SliceGoes

\* The length of a rotation or revocation subject.
LEMMA SubjectGoes ==
  \A g, h \in Nat : h = g + 1 => Goes(<<"subject">>, <<"least", h>>, <<"least", g>>)
BY DEF Goes

ClaimNeeds ==
    << <<"least", 0>>, <<"least", 74>>, <<"least", 67>>, <<"least", 51>>, <<"least", 19>>,
       <<"least", 18>>, <<"num", 0>>, <<"least", 0>>, <<"least", 1>>, <<"least", 0>>,
       <<"least", 16>>, <<"least", 8>>, <<"least", 0>>, <<"just", 0>>, <<"just", 0>> >>

\* ClaimRecord::from_body_bytes.
LEMMA ClaimSafe == AtLeast(ClaimBody, 0)
<1> DEFINE p == ClaimBody
           c == ClaimNeeds
<1>1. p \in Seq(Plain) /\ Len(p) = 14
  <2>1. /\ <<"room", 74>> \in Plain /\ <<"magic", "CL01">> \in Plain /\ <<"take", 16>> \in Plain
        /\ <<"key">> \in Plain /\ <<"num", 1, 1, 43>> \in Plain /\ <<"roomNum", 0>> \in Plain
        /\ <<"takeNum">> \in Plain /\ <<"room", 1>> \in Plain /\ <<"num", 1, 0, 9>> \in Plain
        /\ <<"room", 16>> \in Plain /\ <<"stamp">> \in Plain /\ <<"take", 8>> \in Plain
        /\ <<"end">> \in Plain /\ <<"shape">> \in Plain
    BY StepTypes, WordsAre DEF Magics
  <2> QED
    BY <2>1 DEF ClaimBody
<1>2. c \in Seq(Needs) /\ Len(c) = 15 /\ c[1] = <<"least", 0>> /\ c[15] = <<"just", 0>>
  <2>1. /\ <<"least", 0>> \in Needs /\ <<"least", 74>> \in Needs /\ <<"least", 67>> \in Needs
        /\ <<"least", 51>> \in Needs /\ <<"least", 19>> \in Needs /\ <<"least", 18>> \in Needs
        /\ <<"num", 0>> \in Needs /\ <<"least", 1>> \in Needs /\ <<"least", 16>> \in Needs
        /\ <<"least", 8>> \in Needs /\ <<"just", 0>> \in Needs
    BY NeedTypes
  <2> QED
    BY <2>1 DEF ClaimNeeds
<1>3. /\ Goes(<<"room", 74>>, <<"least", 0>>, <<"least", 74>>)
      /\ Goes(<<"roomNum", 0>>, <<"least", 18>>, <<"num", 0>>)
      /\ Goes(<<"takeNum">>, <<"num", 0>>, <<"least", 0>>)
      /\ Goes(<<"room", 1>>, <<"least", 0>>, <<"least", 1>>)
      /\ Goes(<<"room", 16>>, <<"least", 0>>, <<"least", 16>>)
      /\ Goes(<<"end">>, <<"least", 0>>, <<"just", 0>>)
      /\ Goes(<<"shape">>, <<"just", 0>>, <<"just", 0>>)
  BY GoesRules
<1>4. /\ Goes(<<"magic", "CL01">>, <<"least", 74>>, <<"least", 67>>)
      /\ Goes(<<"take", 16>>, <<"least", 67>>, <<"least", 51>>)
      /\ Goes(<<"key">>, <<"least", 51>>, <<"least", 19>>)
      /\ Goes(<<"num", 1, 1, 43>>, <<"least", 19>>, <<"least", 18>>)
      /\ Goes(<<"num", 1, 0, 9>>, <<"least", 1>>, <<"least", 0>>)
      /\ Goes(<<"stamp">>, <<"least", 16>>, <<"least", 8>>)
      /\ Goes(<<"take", 8>>, <<"least", 8>>, <<"least", 0>>)
  BY LeastGoes, MagicsAre
<1>5. /\ Goes(p[1], c[1], c[2]) /\ Goes(p[2], c[2], c[3]) /\ Goes(p[3], c[3], c[4])
      /\ Goes(p[4], c[4], c[5]) /\ Goes(p[5], c[5], c[6]) /\ Goes(p[6], c[6], c[7])
      /\ Goes(p[7], c[7], c[8]) /\ Goes(p[8], c[8], c[9]) /\ Goes(p[9], c[9], c[10])
      /\ Goes(p[10], c[10], c[11]) /\ Goes(p[11], c[11], c[12]) /\ Goes(p[12], c[12], c[13])
      /\ Goes(p[13], c[13], c[14]) /\ Goes(p[14], c[14], c[15])
  BY <1>3, <1>4 DEF ClaimBody, ClaimNeeds
<1> HIDE DEF p, c
<1>6. \A i \in 1 .. 14 : Goes(p[i], c[i], c[i + 1])
  BY <1>5
<1>7. Annotates(c, p)
  BY <1>1, <1>2, <1>6, StepTypes DEF Annotates
<1> QED
  BY <1>2, <1>7, LayoutSafe DEF p

RotationNeeds ==
    << <<"least", 0>>, <<"least", 97>>, <<"least", 90>>, <<"least", 89>>, <<"least", 88>>,
       <<"num", 0>>, <<"least", 0>>, <<"just", 88>>, <<"just", 56>>, <<"just", 24>>,
       <<"just", 16>>, <<"just", 8>>, <<"just", 0>>, <<"just", 0>> >>

\* RotationRecord::from_body_bytes.
LEMMA RotationSafe == AtLeast(RotationBody, 0)
<1> DEFINE p == RotationBody
           c == RotationNeeds
<1>1. p \in Seq(Plain) /\ Len(p) = 13
  <2>1. /\ <<"room", 97>> \in Plain /\ <<"magic", "ROT1">> \in Plain
        /\ <<"num", 1, 1, 3>> \in Plain /\ <<"subject">> \in Plain /\ <<"roomNum", 0>> \in Plain
        /\ <<"takeNum">> \in Plain /\ <<"left", 88>> \in Plain /\ <<"key">> \in Plain
        /\ <<"take", 32>> \in Plain /\ <<"take", 8>> \in Plain /\ <<"stamp">> \in Plain
        /\ <<"shape">> \in Plain
    BY StepTypes, WordsAre DEF Magics
  <2> QED
    BY <2>1 DEF RotationBody
<1>2. c \in Seq(Needs) /\ Len(c) = 14 /\ c[1] = <<"least", 0>> /\ c[14] = <<"just", 0>>
  <2>1. /\ <<"least", 0>> \in Needs /\ <<"least", 97>> \in Needs /\ <<"least", 90>> \in Needs
        /\ <<"least", 89>> \in Needs /\ <<"least", 88>> \in Needs /\ <<"num", 0>> \in Needs
        /\ <<"just", 88>> \in Needs /\ <<"just", 56>> \in Needs /\ <<"just", 24>> \in Needs
        /\ <<"just", 16>> \in Needs /\ <<"just", 8>> \in Needs /\ <<"just", 0>> \in Needs
    BY NeedTypes
  <2> QED
    BY <2>1 DEF RotationNeeds
<1>3. /\ Goes(<<"room", 97>>, <<"least", 0>>, <<"least", 97>>)
      /\ Goes(<<"roomNum", 0>>, <<"least", 88>>, <<"num", 0>>)
      /\ Goes(<<"takeNum">>, <<"num", 0>>, <<"least", 0>>)
      /\ Goes(<<"left", 88>>, <<"least", 0>>, <<"just", 88>>)
      /\ Goes(<<"shape">>, <<"just", 0>>, <<"just", 0>>)
  BY GoesRules
<1>4. /\ Goes(<<"subject">>, <<"least", 89>>, <<"least", 88>>)
  BY SubjectGoes
<1>5. /\ Goes(<<"magic", "ROT1">>, <<"least", 97>>, <<"least", 90>>)
      /\ Goes(<<"num", 1, 1, 3>>, <<"least", 90>>, <<"least", 89>>)
  BY LeastGoes, MagicsAre
<1>6. /\ Goes(<<"key">>, <<"just", 88>>, <<"just", 56>>)
      /\ Goes(<<"take", 32>>, <<"just", 56>>, <<"just", 24>>)
      /\ Goes(<<"take", 8>>, <<"just", 24>>, <<"just", 16>>)
      /\ Goes(<<"stamp">>, <<"just", 16>>, <<"just", 8>>)
      /\ Goes(<<"take", 8>>, <<"just", 8>>, <<"just", 0>>)
  BY JustGoes
<1>7. /\ Goes(p[1], c[1], c[2]) /\ Goes(p[2], c[2], c[3]) /\ Goes(p[3], c[3], c[4])
      /\ Goes(p[4], c[4], c[5]) /\ Goes(p[5], c[5], c[6]) /\ Goes(p[6], c[6], c[7])
      /\ Goes(p[7], c[7], c[8]) /\ Goes(p[8], c[8], c[9]) /\ Goes(p[9], c[9], c[10])
      /\ Goes(p[10], c[10], c[11]) /\ Goes(p[11], c[11], c[12]) /\ Goes(p[12], c[12], c[13])
      /\ Goes(p[13], c[13], c[14])
  BY <1>3, <1>4, <1>5, <1>6 DEF RotationBody, RotationNeeds
<1> HIDE DEF p, c
<1>8. \A i \in 1 .. 13 : Goes(p[i], c[i], c[i + 1])
  BY <1>7
<1>9. Annotates(c, p)
  BY <1>1, <1>2, <1>8, StepTypes DEF Annotates
<1> QED
  BY <1>2, <1>9, LayoutSafe DEF p

RevocationNeeds ==
    << <<"least", 0>>, <<"least", 50>>, <<"least", 43>>, <<"least", 42>>, <<"least", 41>>,
       <<"num", 0>>, <<"least", 0>>, <<"just", 41>>, <<"just", 9>>, <<"just", 8>>,
       <<"just", 0>>, <<"just", 0>> >>

\* RevocationRecord::from_body_bytes.
LEMMA RevocationSafe == AtLeast(RevocationBody, 0)
<1> DEFINE p == RevocationBody
           c == RevocationNeeds
<1>1. p \in Seq(Plain) /\ Len(p) = 11
  <2>1. /\ <<"room", 50>> \in Plain /\ <<"magic", "RV01">> \in Plain
        /\ <<"num", 1, 1, 3>> \in Plain /\ <<"subject">> \in Plain /\ <<"roomNum", 0>> \in Plain
        /\ <<"takeNum">> \in Plain /\ <<"left", 41>> \in Plain /\ <<"key">> \in Plain
        /\ <<"num", 1, 1, 4>> \in Plain /\ <<"stamp">> \in Plain /\ <<"shape">> \in Plain
    BY StepTypes, WordsAre DEF Magics
  <2> QED
    BY <2>1 DEF RevocationBody
<1>2. c \in Seq(Needs) /\ Len(c) = 12 /\ c[1] = <<"least", 0>> /\ c[12] = <<"just", 0>>
  <2>1. /\ <<"least", 0>> \in Needs /\ <<"least", 50>> \in Needs /\ <<"least", 43>> \in Needs
        /\ <<"least", 42>> \in Needs /\ <<"least", 41>> \in Needs /\ <<"num", 0>> \in Needs
        /\ <<"just", 41>> \in Needs /\ <<"just", 9>> \in Needs /\ <<"just", 8>> \in Needs
        /\ <<"just", 0>> \in Needs
    BY NeedTypes
  <2> QED
    BY <2>1 DEF RevocationNeeds
<1>3. /\ Goes(<<"room", 50>>, <<"least", 0>>, <<"least", 50>>)
      /\ Goes(<<"roomNum", 0>>, <<"least", 41>>, <<"num", 0>>)
      /\ Goes(<<"takeNum">>, <<"num", 0>>, <<"least", 0>>)
      /\ Goes(<<"left", 41>>, <<"least", 0>>, <<"just", 41>>)
      /\ Goes(<<"shape">>, <<"just", 0>>, <<"just", 0>>)
  BY GoesRules
<1>4. /\ Goes(<<"subject">>, <<"least", 42>>, <<"least", 41>>)
  BY SubjectGoes
<1>5. /\ Goes(<<"magic", "RV01">>, <<"least", 50>>, <<"least", 43>>)
      /\ Goes(<<"num", 1, 1, 3>>, <<"least", 43>>, <<"least", 42>>)
  BY LeastGoes, MagicsAre
<1>6. /\ Goes(<<"key">>, <<"just", 41>>, <<"just", 9>>)
      /\ Goes(<<"num", 1, 1, 4>>, <<"just", 9>>, <<"just", 8>>)
      /\ Goes(<<"stamp">>, <<"just", 8>>, <<"just", 0>>)
  BY JustGoes
<1>7. /\ Goes(p[1], c[1], c[2]) /\ Goes(p[2], c[2], c[3]) /\ Goes(p[3], c[3], c[4])
      /\ Goes(p[4], c[4], c[5]) /\ Goes(p[5], c[5], c[6]) /\ Goes(p[6], c[6], c[7])
      /\ Goes(p[7], c[7], c[8]) /\ Goes(p[8], c[8], c[9]) /\ Goes(p[9], c[9], c[10])
      /\ Goes(p[10], c[10], c[11]) /\ Goes(p[11], c[11], c[12])
  BY <1>3, <1>4, <1>5, <1>6 DEF RevocationBody, RevocationNeeds
<1> HIDE DEF p, c
<1>8. \A i \in 1 .. 11 : Goes(p[i], c[i], c[i + 1])
  BY <1>7
<1>9. Annotates(c, p)
  BY <1>1, <1>2, <1>8, StepTypes DEF Annotates
<1> QED
  BY <1>2, <1>9, LayoutSafe DEF p

PrekeyNeeds ==
    << <<"least", 0>>, <<"just", 44>>, <<"just", 40>>, <<"just", 8>>, <<"just", 0>> >>

\* Prekey::from_body_bytes.
LEMMA PrekeySafe == AtLeast(PrekeyBody, 0)
<1> DEFINE p == PrekeyBody
           c == PrekeyNeeds
<1>1. p \in Seq(Plain) /\ Len(p) = 4
  <2>1. /\ <<"left", 44>> \in Plain /\ <<"take", 4>> \in Plain /\ <<"take", 32>> \in Plain
        /\ <<"take", 8>> \in Plain
    BY StepTypes, WordsAre DEF Magics
  <2> QED
    BY <2>1 DEF PrekeyBody
<1>2. c \in Seq(Needs) /\ Len(c) = 5 /\ c[1] = <<"least", 0>> /\ c[5] = <<"just", 0>>
  <2>1. /\ <<"least", 0>> \in Needs /\ <<"just", 44>> \in Needs /\ <<"just", 40>> \in Needs
        /\ <<"just", 8>> \in Needs /\ <<"just", 0>> \in Needs
    BY NeedTypes
  <2> QED
    BY <2>1 DEF PrekeyNeeds
<1>3. /\ Goes(<<"left", 44>>, <<"least", 0>>, <<"just", 44>>)
  BY GoesRules
<1>4. /\ Goes(<<"take", 4>>, <<"just", 44>>, <<"just", 40>>)
      /\ Goes(<<"take", 32>>, <<"just", 40>>, <<"just", 8>>)
      /\ Goes(<<"take", 8>>, <<"just", 8>>, <<"just", 0>>)
  BY JustGoes
<1>5. /\ Goes(p[1], c[1], c[2]) /\ Goes(p[2], c[2], c[3]) /\ Goes(p[3], c[3], c[4])
      /\ Goes(p[4], c[4], c[5])
  BY <1>3, <1>4 DEF PrekeyBody, PrekeyNeeds
<1> HIDE DEF p, c
<1>6. \A i \in 1 .. 4 : Goes(p[i], c[i], c[i + 1])
  BY <1>5
<1>7. Annotates(c, p)
  BY <1>1, <1>2, <1>6, StepTypes DEF Annotates
<1> QED
  BY <1>2, <1>7, LayoutSafe DEF p

ManifestNeeds ==
    << <<"least", 0>>, <<"just", 108>>, <<"just", 92>>, <<"just", 60>>, <<"just", 28>>,
       <<"just", 16>>, <<"just", 8>>, <<"just", 0>>, <<"just", 0>> >>

\* SlotManifest::from_body_bytes.
LEMMA ManifestSafe == AtLeast(ManifestBody, 0)
<1> DEFINE p == ManifestBody
           c == ManifestNeeds
<1>1. p \in Seq(Plain) /\ Len(p) = 8
  <2>1. /\ <<"left", 108>> \in Plain /\ <<"take", 16>> \in Plain /\ <<"key">> \in Plain
        /\ <<"take", 32>> \in Plain /\ <<"take", 12>> \in Plain /\ <<"stamp">> \in Plain
        /\ <<"take", 8>> \in Plain /\ <<"shape">> \in Plain
    BY StepTypes, WordsAre DEF Magics
  <2> QED
    BY <2>1 DEF ManifestBody
<1>2. c \in Seq(Needs) /\ Len(c) = 9 /\ c[1] = <<"least", 0>> /\ c[9] = <<"just", 0>>
  <2>1. /\ <<"least", 0>> \in Needs /\ <<"just", 108>> \in Needs /\ <<"just", 92>> \in Needs
        /\ <<"just", 60>> \in Needs /\ <<"just", 28>> \in Needs /\ <<"just", 16>> \in Needs
        /\ <<"just", 8>> \in Needs /\ <<"just", 0>> \in Needs
    BY NeedTypes
  <2> QED
    BY <2>1 DEF ManifestNeeds
<1>3. /\ Goes(<<"left", 108>>, <<"least", 0>>, <<"just", 108>>)
      /\ Goes(<<"shape">>, <<"just", 0>>, <<"just", 0>>)
  BY GoesRules
<1>4. /\ Goes(<<"take", 16>>, <<"just", 108>>, <<"just", 92>>)
      /\ Goes(<<"key">>, <<"just", 92>>, <<"just", 60>>)
      /\ Goes(<<"take", 32>>, <<"just", 60>>, <<"just", 28>>)
      /\ Goes(<<"take", 12>>, <<"just", 28>>, <<"just", 16>>)
      /\ Goes(<<"stamp">>, <<"just", 16>>, <<"just", 8>>)
      /\ Goes(<<"take", 8>>, <<"just", 8>>, <<"just", 0>>)
  BY JustGoes
<1>5. /\ Goes(p[1], c[1], c[2]) /\ Goes(p[2], c[2], c[3]) /\ Goes(p[3], c[3], c[4])
      /\ Goes(p[4], c[4], c[5]) /\ Goes(p[5], c[5], c[6]) /\ Goes(p[6], c[6], c[7])
      /\ Goes(p[7], c[7], c[8]) /\ Goes(p[8], c[8], c[9])
  BY <1>3, <1>4 DEF ManifestBody, ManifestNeeds
<1> HIDE DEF p, c
<1>6. \A i \in 1 .. 8 : Goes(p[i], c[i], c[i + 1])
  BY <1>5
<1>7. Annotates(c, p)
  BY <1>1, <1>2, <1>6, StepTypes DEF Annotates
<1> QED
  BY <1>2, <1>7, LayoutSafe DEF p

MessageNeeds ==
    << <<"least", 0>>, <<"least", 34>>, <<"least", 32>>, <<"num", 32>>, <<"least", 32>>,
       <<"least", 32>>, <<"just", 32>>, <<"just", 0>> >>

\* DMPMessage::from_bytes.
LEMMA MessageSafe == AtLeast(MessageBody, 0)
<1> DEFINE p == MessageBody
           c == MessageNeeds
<1>1. p \in Seq(Plain) /\ Len(p) = 7
  <2>1. /\ <<"room", 34>> \in Plain /\ <<"num", 2, 0, 65535>> \in Plain
        /\ <<"roomNum", 32>> \in Plain /\ <<"takeNum">> \in Plain /\ <<"shape">> \in Plain
        /\ <<"takeBut", 32>> \in Plain /\ <<"take", 32>> \in Plain
    BY StepTypes, WordsAre DEF Magics
  <2> QED
    BY <2>1 DEF MessageBody
<1>2. c \in Seq(Needs) /\ Len(c) = 8 /\ c[1] = <<"least", 0>> /\ c[8] = <<"just", 0>>
  <2>1. /\ <<"least", 0>> \in Needs /\ <<"least", 34>> \in Needs /\ <<"least", 32>> \in Needs
        /\ <<"num", 32>> \in Needs /\ <<"just", 32>> \in Needs /\ <<"just", 0>> \in Needs
    BY NeedTypes
  <2> QED
    BY <2>1 DEF MessageNeeds
<1>3. /\ Goes(<<"room", 34>>, <<"least", 0>>, <<"least", 34>>)
      /\ Goes(<<"roomNum", 32>>, <<"least", 32>>, <<"num", 32>>)
      /\ Goes(<<"takeNum">>, <<"num", 32>>, <<"least", 32>>)
      /\ Goes(<<"shape">>, <<"least", 32>>, <<"least", 32>>)
      /\ Goes(<<"takeBut", 32>>, <<"least", 32>>, <<"just", 32>>)
  BY GoesRules
<1>4. /\ Goes(<<"num", 2, 0, 65535>>, <<"least", 34>>, <<"least", 32>>)
  BY LeastGoes
<1>5. /\ Goes(<<"take", 32>>, <<"just", 32>>, <<"just", 0>>)
  BY JustGoes
<1>6. /\ Goes(p[1], c[1], c[2]) /\ Goes(p[2], c[2], c[3]) /\ Goes(p[3], c[3], c[4])
      /\ Goes(p[4], c[4], c[5]) /\ Goes(p[5], c[5], c[6]) /\ Goes(p[6], c[6], c[7])
      /\ Goes(p[7], c[7], c[8])
  BY <1>3, <1>4, <1>5 DEF MessageBody, MessageNeeds
<1> HIDE DEF p, c
<1>7. \A i \in 1 .. 7 : Goes(p[i], c[i], c[i + 1])
  BY <1>6
<1>8. Annotates(c, p)
  BY <1>1, <1>2, <1>7, StepTypes DEF Annotates
<1> QED
  BY <1>2, <1>8, LayoutSafe DEF p

EncryptedNeeds ==
    << <<"least", 0>>, <<"least", 44>>, <<"least", 12>>, <<"least", 0>>, <<"just", 0>> >>

\* EncryptedMessage::from_bytes.
LEMMA EncryptedSafe == AtLeast(EncryptedBody, 0)
<1> DEFINE p == EncryptedBody
           c == EncryptedNeeds
<1>1. p \in Seq(Plain) /\ Len(p) = 4
  <2>1. /\ <<"room", 44>> \in Plain /\ <<"take", 32>> \in Plain /\ <<"take", 12>> \in Plain
        /\ <<"takeBut", 0>> \in Plain
    BY StepTypes, WordsAre DEF Magics
  <2> QED
    BY <2>1 DEF EncryptedBody
<1>2. c \in Seq(Needs) /\ Len(c) = 5 /\ c[1] = <<"least", 0>> /\ c[5] = <<"just", 0>>
  <2>1. /\ <<"least", 0>> \in Needs /\ <<"least", 44>> \in Needs /\ <<"least", 12>> \in Needs
        /\ <<"just", 0>> \in Needs
    BY NeedTypes
  <2> QED
    BY <2>1 DEF EncryptedNeeds
<1>3. /\ Goes(<<"room", 44>>, <<"least", 0>>, <<"least", 44>>)
      /\ Goes(<<"takeBut", 0>>, <<"least", 0>>, <<"just", 0>>)
  BY GoesRules
<1>4. /\ Goes(<<"take", 32>>, <<"least", 44>>, <<"least", 12>>)
      /\ Goes(<<"take", 12>>, <<"least", 12>>, <<"least", 0>>)
  BY LeastGoes
<1>5. /\ Goes(p[1], c[1], c[2]) /\ Goes(p[2], c[2], c[3]) /\ Goes(p[3], c[3], c[4])
      /\ Goes(p[4], c[4], c[5])
  BY <1>3, <1>4 DEF EncryptedBody, EncryptedNeeds
<1> HIDE DEF p, c
<1>6. \A i \in 1 .. 4 : Goes(p[i], c[i], c[i + 1])
  BY <1>5
<1>7. Annotates(c, p)
  BY <1>1, <1>2, <1>6, StepTypes DEF Annotates
<1> QED
  BY <1>2, <1>7, LayoutSafe DEF p

\* The fields that the operator records share are steps.
LEMMA FieldTypes ==
  /\ \A w, l, h \in Nat : Sized(w, l, h) \in Seq(Plain)
  /\ DottedName \in Seq(Plain) /\ HeartbeatTail \in Seq(Plain)
<1>1. /\ <<"roomNum", 0>> \in Plain /\ <<"takeNum">> \in Plain /\ <<"num", 1, 0, 255>> \in Plain
      /\ <<"dotted", 64>> \in Plain /\ <<"room", 16>> \in Plain /\ <<"stamp">> \in Plain
      /\ <<"take", 8>> \in Plain /\ <<"end">> \in Plain /\ <<"shape">> \in Plain
  BY StepTypes, WordsAre
<1>2. ASSUME NEW w \in Nat, NEW l \in Nat, NEW h \in Nat PROVE Sized(w, l, h) \in Seq(Plain)
  <2>1. <<"room", w>> \in Plain /\ <<"num", w, l, h>> \in Plain
    BY StepTypes, WordsAre
  <2> QED
    BY <1>1, <2>1 DEF Sized
<1>3. DottedName \in Seq(Plain)
  BY <1>1 DEF DottedName
<1>4. HeartbeatTail \in Seq(Plain)
  BY <1>1 DEF HeartbeatTail
<1> QED
  BY <1>2, <1>3, <1>4

\* A counted loop and an optional tail, as the layouts write them.
LEMMA RunGoes ==
  /\ \A b : Repeats(b) => Goes(<<"repeat", b>>, <<"least", 0>>, <<"least", 0>>)
  /\ \A b : Ends(b) => Goes(<<"ifMore", b>>, <<"least", 0>>, <<"just", 0>>)
BY DEF Goes

HeartbeatNeeds ==
    << <<"least", 0>>, <<"least", 9>>, <<"least", 2>>, <<"least", 0>>, <<"num", 0>>,
       <<"least", 0>>, <<"least", 32>>, <<"least", 0>>, <<"least", 1>>, <<"least", 0>>,
       <<"num", 0>>, <<"least", 0>>, <<"least", 2>>, <<"least", 0>>, <<"least", 1>>,
       <<"least", 0>>, <<"num", 0>>, <<"least", 0>>, <<"least", 16>>, <<"least", 8>>,
       <<"least", 0>>, <<"just", 0>>, <<"just", 0>> >>

\* HeartbeatRecord::from_body_bytes, version 3.
LEMMA HeartbeatSafe == AtLeast(HeartbeatBody(FALSE), 0)
<1> DEFINE p == HeartbeatBody(FALSE)
           c == HeartbeatNeeds
<1>1. p \in Seq(Plain) /\ Len(p) = 22
  <2>1. /\ <<"room", 9>> \in Plain /\ <<"magic", "HB03">> \in Plain
        /\ <<"num", 2, 1, 255>> \in Plain /\ <<"roomNum", 0>> \in Plain
        /\ <<"takeNum">> \in Plain /\ <<"room", 32>> \in Plain /\ <<"key">> \in Plain
        /\ <<"room", 2>> \in Plain /\ <<"take", 2>> \in Plain
    BY StepTypes, WordsAre, MagicsAre
  <2>2. << <<"room", 9>>, <<"magic", "HB03">>, <<"num", 2, 1, 255>>, <<"roomNum", 0>>,
           <<"takeNum">>, <<"room", 32>>, <<"key">> >> \in Seq(Plain)
    BY <2>1
  <2>3. Sized(1, 0, 32) \in Seq(Plain)
    BY FieldTypes
  <2>4. << <<"room", 2>>, <<"take", 2>> >> \in Seq(Plain)
    BY <2>1
  <2>5. Sized(1, 0, 64) \in Seq(Plain)
    BY FieldTypes
  <2>6. HeartbeatTail \in Seq(Plain)
    BY FieldTypes
  <2>7. p \in Seq(Plain)
    BY <2>2, <2>3, <2>4, <2>5, <2>6 DEF HeartbeatBody
  <2>8. Len(p) = 22
    BY DEF HeartbeatBody, Sized, HeartbeatTail
  <2> QED
    BY <2>7, <2>8
<1>2. c \in Seq(Needs) /\ Len(c) = 23 /\ c[1] = <<"least", 0>> /\ c[23] = <<"just", 0>>
  <2>1. /\ <<"least", 0>> \in Needs /\ <<"least", 9>> \in Needs /\ <<"least", 2>> \in Needs
        /\ <<"num", 0>> \in Needs /\ <<"least", 32>> \in Needs /\ <<"least", 1>> \in Needs
        /\ <<"least", 16>> \in Needs /\ <<"least", 8>> \in Needs /\ <<"just", 0>> \in Needs
    BY NeedTypes
  <2> QED
    BY <2>1 DEF HeartbeatNeeds
<1>3. /\ Goes(<<"room", 9>>, <<"least", 0>>, <<"least", 9>>)
      /\ Goes(<<"roomNum", 0>>, <<"least", 0>>, <<"num", 0>>)
      /\ Goes(<<"takeNum">>, <<"num", 0>>, <<"least", 0>>)
      /\ Goes(<<"room", 32>>, <<"least", 0>>, <<"least", 32>>)
      /\ Goes(<<"room", 1>>, <<"least", 0>>, <<"least", 1>>)
      /\ Goes(<<"room", 2>>, <<"least", 0>>, <<"least", 2>>)
      /\ Goes(<<"room", 16>>, <<"least", 0>>, <<"least", 16>>)
      /\ Goes(<<"end">>, <<"least", 0>>, <<"just", 0>>)
      /\ Goes(<<"shape">>, <<"just", 0>>, <<"just", 0>>)
  BY GoesRules
<1>4. /\ Goes(<<"magic", "HB03">>, <<"least", 9>>, <<"least", 2>>)
      /\ Goes(<<"num", 2, 1, 255>>, <<"least", 2>>, <<"least", 0>>)
      /\ Goes(<<"key">>, <<"least", 32>>, <<"least", 0>>)
      /\ Goes(<<"num", 1, 0, 32>>, <<"least", 1>>, <<"least", 0>>)
      /\ Goes(<<"take", 2>>, <<"least", 2>>, <<"least", 0>>)
      /\ Goes(<<"num", 1, 0, 64>>, <<"least", 1>>, <<"least", 0>>)
      /\ Goes(<<"stamp">>, <<"least", 16>>, <<"least", 8>>)
      /\ Goes(<<"take", 8>>, <<"least", 8>>, <<"least", 0>>)
  BY LeastGoes, MagicsAre
<1>5. /\ Goes(p[1], c[1], c[2]) /\ Goes(p[2], c[2], c[3])
      /\ Goes(p[3], c[3], c[4]) /\ Goes(p[4], c[4], c[5])
  BY <1>3, <1>4 DEF HeartbeatBody, Sized, HeartbeatTail, HeartbeatNeeds
<1>6. /\ Goes(p[5], c[5], c[6]) /\ Goes(p[6], c[6], c[7])
      /\ Goes(p[7], c[7], c[8]) /\ Goes(p[8], c[8], c[9])
  BY <1>3, <1>4 DEF HeartbeatBody, Sized, HeartbeatTail, HeartbeatNeeds
<1>7. /\ Goes(p[9], c[9], c[10]) /\ Goes(p[10], c[10], c[11])
      /\ Goes(p[11], c[11], c[12]) /\ Goes(p[12], c[12], c[13])
  BY <1>3, <1>4 DEF HeartbeatBody, Sized, HeartbeatTail, HeartbeatNeeds
<1>8. /\ Goes(p[13], c[13], c[14]) /\ Goes(p[14], c[14], c[15])
      /\ Goes(p[15], c[15], c[16]) /\ Goes(p[16], c[16], c[17])
  BY <1>3, <1>4 DEF HeartbeatBody, Sized, HeartbeatTail, HeartbeatNeeds
<1>9. Goes(p[17], c[17], c[18]) /\ Goes(p[18], c[18], c[19])
  BY <1>3, <1>4 DEF HeartbeatBody, Sized, HeartbeatTail, HeartbeatNeeds
<1>10. Goes(p[19], c[19], c[20]) /\ Goes(p[20], c[20], c[21])
  BY <1>3, <1>4 DEF HeartbeatBody, Sized, HeartbeatTail, HeartbeatNeeds
<1>11. Goes(p[21], c[21], c[22]) /\ Goes(p[22], c[22], c[23])
  BY <1>3, <1>4 DEF HeartbeatBody, Sized, HeartbeatTail, HeartbeatNeeds
<1> HIDE DEF p, c
<1>12. \A i \in 1 .. 22 : Goes(p[i], c[i], c[i + 1])
  <2>1. \A i \in 1 .. 12 : Goes(p[i], c[i], c[i + 1])
    BY <1>5, <1>6, <1>7
  <2>2. \A i \in 13 .. 22 : Goes(p[i], c[i], c[i + 1])
    BY <1>8, <1>9, <1>10, <1>11
  <2> QED
    BY <2>1, <2>2
<1>13. Annotates(c, p)
  BY <1>1, <1>2, <1>12, StepTypes DEF Annotates
<1> QED
  BY <1>1, <1>2, <1>13, LayoutSafe DEF p

LegacyNeeds ==
    << <<"least", 0>>, <<"least", 9>>, <<"least", 2>>, <<"least", 0>>, <<"num", 0>>,
       <<"least", 0>>, <<"least", 32>>, <<"least", 0>>, <<"least", 1>>, <<"least", 0>>,
       <<"num", 0>>, <<"least", 0>>, <<"least", 2>>, <<"least", 0>>, <<"least", 16>>,
       <<"least", 8>>, <<"least", 0>>, <<"just", 0>>, <<"just", 0>> >>

\* HeartbeatRecord::from_body_bytes, version 2.
LEMMA LegacySafe == AtLeast(HeartbeatBody(TRUE), 0)
<1> DEFINE p == HeartbeatBody(TRUE)
           c == LegacyNeeds
<1>1. p \in Seq(Plain) /\ Len(p) = 18
  <2>1. /\ <<"room", 9>> \in Plain /\ <<"magic", "HB02">> \in Plain
        /\ <<"num", 2, 1, 255>> \in Plain /\ <<"roomNum", 0>> \in Plain
        /\ <<"takeNum">> \in Plain /\ <<"room", 32>> \in Plain /\ <<"key">> \in Plain
        /\ <<"room", 2>> \in Plain /\ <<"take", 2>> \in Plain
    BY StepTypes, WordsAre, MagicsAre
  <2>2. << <<"room", 9>>, <<"magic", "HB02">>, <<"num", 2, 1, 255>>, <<"roomNum", 0>>,
           <<"takeNum">>, <<"room", 32>>, <<"key">> >> \in Seq(Plain)
    BY <2>1
  <2>3. Sized(1, 0, 32) \in Seq(Plain)
    BY FieldTypes
  <2>4. << <<"room", 2>>, <<"take", 2>> >> \in Seq(Plain)
    BY <2>1
  <2>5. HeartbeatTail \in Seq(Plain)
    BY FieldTypes
  <2>6. p \in Seq(Plain)
    BY <2>2, <2>3, <2>4, <2>5 DEF HeartbeatBody
  <2>7. Len(p) = 18
    BY DEF HeartbeatBody, Sized, HeartbeatTail
  <2> QED
    BY <2>6, <2>7
<1>2. c \in Seq(Needs) /\ Len(c) = 19 /\ c[1] = <<"least", 0>> /\ c[19] = <<"just", 0>>
  <2>1. /\ <<"least", 0>> \in Needs /\ <<"least", 9>> \in Needs /\ <<"least", 2>> \in Needs
        /\ <<"num", 0>> \in Needs /\ <<"least", 32>> \in Needs /\ <<"least", 1>> \in Needs
        /\ <<"least", 16>> \in Needs /\ <<"least", 8>> \in Needs /\ <<"just", 0>> \in Needs
    BY NeedTypes
  <2> QED
    BY <2>1 DEF LegacyNeeds
<1>3. /\ Goes(<<"room", 9>>, <<"least", 0>>, <<"least", 9>>)
      /\ Goes(<<"roomNum", 0>>, <<"least", 0>>, <<"num", 0>>)
      /\ Goes(<<"takeNum">>, <<"num", 0>>, <<"least", 0>>)
      /\ Goes(<<"room", 32>>, <<"least", 0>>, <<"least", 32>>)
      /\ Goes(<<"room", 1>>, <<"least", 0>>, <<"least", 1>>)
      /\ Goes(<<"room", 2>>, <<"least", 0>>, <<"least", 2>>)
      /\ Goes(<<"room", 16>>, <<"least", 0>>, <<"least", 16>>)
      /\ Goes(<<"end">>, <<"least", 0>>, <<"just", 0>>)
      /\ Goes(<<"shape">>, <<"just", 0>>, <<"just", 0>>)
  BY GoesRules
<1>4. /\ Goes(<<"magic", "HB02">>, <<"least", 9>>, <<"least", 2>>)
      /\ Goes(<<"num", 2, 1, 255>>, <<"least", 2>>, <<"least", 0>>)
      /\ Goes(<<"key">>, <<"least", 32>>, <<"least", 0>>)
      /\ Goes(<<"num", 1, 0, 32>>, <<"least", 1>>, <<"least", 0>>)
      /\ Goes(<<"take", 2>>, <<"least", 2>>, <<"least", 0>>)
      /\ Goes(<<"stamp">>, <<"least", 16>>, <<"least", 8>>)
      /\ Goes(<<"take", 8>>, <<"least", 8>>, <<"least", 0>>)
  BY LeastGoes, MagicsAre
<1>5. /\ Goes(p[1], c[1], c[2]) /\ Goes(p[2], c[2], c[3])
      /\ Goes(p[3], c[3], c[4]) /\ Goes(p[4], c[4], c[5])
  BY <1>3, <1>4 DEF HeartbeatBody, Sized, HeartbeatTail, LegacyNeeds
<1>6. /\ Goes(p[5], c[5], c[6]) /\ Goes(p[6], c[6], c[7])
      /\ Goes(p[7], c[7], c[8]) /\ Goes(p[8], c[8], c[9])
  BY <1>3, <1>4 DEF HeartbeatBody, Sized, HeartbeatTail, LegacyNeeds
<1>7. /\ Goes(p[9], c[9], c[10]) /\ Goes(p[10], c[10], c[11])
      /\ Goes(p[11], c[11], c[12]) /\ Goes(p[12], c[12], c[13])
  BY <1>3, <1>4 DEF HeartbeatBody, Sized, HeartbeatTail, LegacyNeeds
<1>8. /\ Goes(p[13], c[13], c[14]) /\ Goes(p[14], c[14], c[15])
      /\ Goes(p[15], c[15], c[16]) /\ Goes(p[16], c[16], c[17])
  BY <1>3, <1>4 DEF HeartbeatBody, Sized, HeartbeatTail, LegacyNeeds
<1>9. /\ Goes(p[17], c[17], c[18]) /\ Goes(p[18], c[18], c[19])
  BY <1>3, <1>4 DEF HeartbeatBody, Sized, HeartbeatTail, LegacyNeeds
<1> HIDE DEF p, c
<1>10. \A i \in 1 .. 18 : Goes(p[i], c[i], c[i + 1])
  BY <1>5, <1>6, <1>7, <1>8, <1>9
<1>11. Annotates(c, p)
  BY <1>1, <1>2, <1>10, StepTypes DEF Annotates
<1> QED
  BY <1>1, <1>2, <1>11, LayoutSafe DEF p

ClusterNodeNeeds ==
    << <<"least", 0>>, <<"least", 1>>, <<"least", 0>>, <<"num", 0>>, <<"least", 0>>,
       <<"least", 2>>, <<"least", 0>>, <<"num", 0>>, <<"least", 0>>, <<"least", 2>>,
       <<"least", 0>>, <<"num", 0>>, <<"least", 0>> >>

\* ClusterNode::from_body_bytes.
LEMMA ClusterNodeRepeats == Repeats(ClusterNodeBody)
<1> DEFINE p == ClusterNodeBody
           c == ClusterNodeNeeds
<1>1. p \in Seq(Plain) /\ Len(p) = 12
  <2>1. Sized(1, 1, 16) \in Seq(Plain)
    BY FieldTypes
  <2>2. Sized(2, 1, 128) \in Seq(Plain)
    BY FieldTypes
  <2>3. Sized(2, 0, 64) \in Seq(Plain)
    BY FieldTypes
  <2>4. p \in Seq(Plain)
    BY <2>1, <2>2, <2>3 DEF ClusterNodeBody
  <2>5. Len(p) = 12
    BY DEF ClusterNodeBody, Sized
  <2> QED
    BY <2>4, <2>5
<1>2. c \in Seq(Needs) /\ Len(c) = 13 /\ c[1] = <<"least", 0>> /\ c[13] = <<"least", 0>>
  <2>1. /\ <<"least", 0>> \in Needs /\ <<"least", 1>> \in Needs /\ <<"num", 0>> \in Needs
        /\ <<"least", 2>> \in Needs
    BY NeedTypes
  <2> QED
    BY <2>1 DEF ClusterNodeNeeds
<1>3. /\ Goes(<<"room", 1>>, <<"least", 0>>, <<"least", 1>>)
      /\ Goes(<<"roomNum", 0>>, <<"least", 0>>, <<"num", 0>>)
      /\ Goes(<<"takeNum">>, <<"num", 0>>, <<"least", 0>>)
      /\ Goes(<<"room", 2>>, <<"least", 0>>, <<"least", 2>>)
  BY GoesRules
<1>4. /\ Goes(<<"num", 1, 1, 16>>, <<"least", 1>>, <<"least", 0>>)
      /\ Goes(<<"num", 2, 1, 128>>, <<"least", 2>>, <<"least", 0>>)
      /\ Goes(<<"num", 2, 0, 64>>, <<"least", 2>>, <<"least", 0>>)
  BY LeastGoes
<1>5. /\ Goes(p[1], c[1], c[2]) /\ Goes(p[2], c[2], c[3]) /\ Goes(p[3], c[3], c[4])
      /\ Goes(p[4], c[4], c[5]) /\ Goes(p[5], c[5], c[6]) /\ Goes(p[6], c[6], c[7])
      /\ Goes(p[7], c[7], c[8]) /\ Goes(p[8], c[8], c[9])
  BY <1>3, <1>4 DEF ClusterNodeBody, Sized, ClusterNodeNeeds
<1>6. /\ Goes(p[9], c[9], c[10]) /\ Goes(p[10], c[10], c[11]) /\ Goes(p[11], c[11], c[12])
      /\ Goes(p[12], c[12], c[13])
  BY <1>3, <1>4 DEF ClusterNodeBody, Sized, ClusterNodeNeeds
<1> HIDE DEF p, c
<1>7. \A i \in 1 .. 12 : Goes(p[i], c[i], c[i + 1])
  BY <1>5, <1>6
<1>8. Annotates(c, p)
  BY <1>1, <1>2, <1>7, StepTypes DEF Annotates
<1> QED
  BY <1>1, <1>2, <1>8, LayoutRepeats DEF p

BootstrapEntryNeeds ==
    << <<"least", 0>>, <<"least", 3>>, <<"least", 1>>, <<"least", 0>>, <<"num", 0>>,
       <<"num", 0>>, <<"least", 0>>, <<"least", 32>>, <<"least", 0>>, <<"least", 0>> >>

\* BootstrapEntry::from_body_bytes.
LEMMA BootstrapEntryRepeats == Repeats(BootstrapEntryBody)
<1> DEFINE p == BootstrapEntryBody
           c == BootstrapEntryNeeds
<1>1. p \in Seq(Plain) /\ Len(p) = 9
  <2>1. /\ <<"room", 3>> \in Plain /\ <<"take", 2>> \in Plain /\ <<"room", 32>> \in Plain
        /\ <<"take", 32>> \in Plain /\ <<"shape">> \in Plain
    BY StepTypes, WordsAre, MagicsAre
  <2>2. << <<"room", 3>>, <<"take", 2>> >> \in Seq(Plain)
    BY <2>1
  <2>3. DottedName \in Seq(Plain)
    BY FieldTypes
  <2>4. << <<"room", 32>>, <<"take", 32>>, <<"shape">> >> \in Seq(Plain)
    BY <2>1
  <2>5. p \in Seq(Plain)
    BY <2>2, <2>3, <2>4 DEF BootstrapEntryBody
  <2>6. Len(p) = 9
    BY DEF BootstrapEntryBody, DottedName
  <2> QED
    BY <2>5, <2>6
<1>2. c \in Seq(Needs) /\ Len(c) = 10 /\ c[1] = <<"least", 0>> /\ c[10] = <<"least", 0>>
  <2>1. /\ <<"least", 0>> \in Needs /\ <<"least", 3>> \in Needs /\ <<"least", 1>> \in Needs
        /\ <<"num", 0>> \in Needs /\ <<"least", 32>> \in Needs
    BY NeedTypes
  <2> QED
    BY <2>1 DEF BootstrapEntryNeeds
<1>3. /\ Goes(<<"room", 3>>, <<"least", 0>>, <<"least", 3>>)
      /\ Goes(<<"roomNum", 0>>, <<"least", 0>>, <<"num", 0>>)
      /\ Goes(<<"dotted", 64>>, <<"num", 0>>, <<"num", 0>>)
      /\ Goes(<<"takeNum">>, <<"num", 0>>, <<"least", 0>>)
      /\ Goes(<<"room", 32>>, <<"least", 0>>, <<"least", 32>>)
      /\ Goes(<<"shape">>, <<"least", 0>>, <<"least", 0>>)
  BY GoesRules
<1>4. /\ Goes(<<"take", 2>>, <<"least", 3>>, <<"least", 1>>)
      /\ Goes(<<"num", 1, 0, 255>>, <<"least", 1>>, <<"least", 0>>)
      /\ Goes(<<"take", 32>>, <<"least", 32>>, <<"least", 0>>)
  BY LeastGoes
<1>5. /\ Goes(p[1], c[1], c[2]) /\ Goes(p[2], c[2], c[3]) /\ Goes(p[3], c[3], c[4])
      /\ Goes(p[4], c[4], c[5]) /\ Goes(p[5], c[5], c[6]) /\ Goes(p[6], c[6], c[7])
      /\ Goes(p[7], c[7], c[8]) /\ Goes(p[8], c[8], c[9])
  BY <1>3, <1>4 DEF BootstrapEntryBody, DottedName, BootstrapEntryNeeds
<1>6. /\ Goes(p[9], c[9], c[10])
  BY <1>3, <1>4 DEF BootstrapEntryBody, DottedName, BootstrapEntryNeeds
<1> HIDE DEF p, c
<1>7. \A i \in 1 .. 9 : Goes(p[i], c[i], c[i + 1])
  BY <1>5, <1>6
<1>8. Annotates(c, p)
  BY <1>1, <1>2, <1>7, StepTypes DEF Annotates
<1> QED
  BY <1>1, <1>2, <1>8, LayoutRepeats DEF p

ClusterNeeds ==
    << <<"least", 0>>, <<"least", 56>>, <<"least", 49>>, <<"least", 41>>, <<"least", 33>>,
       <<"least", 1>>, <<"least", 0>>, <<"num", 0>>, <<"num", 0>>, <<"least", 0>>,
       <<"least", 1>>, <<"least", 0>>, <<"least", 0>>, <<"least", 0>>, <<"just", 0>> >>

\* ClusterManifest::from_body_bytes.
LEMMA ClusterSafe == AtLeast(ClusterBody, 0)
<1> DEFINE p == ClusterBody
           c == ClusterNeeds
<1>1. p \in Progs /\ Len(p) = 14
  <2>1. /\ <<"room", 56>> \in Steps /\ <<"magic", "CL01">> \in Steps /\ <<"take", 8>> \in Steps
        /\ <<"key">> \in Steps /\ <<"room", 1>> \in Steps /\ <<"num", 1, 0, 32>> \in Steps
        /\ <<"repeat", ClusterNodeBody>> \in Steps /\ <<"shape">> \in Steps
        /\ <<"end">> \in Steps
    BY StepTypes, WordsAre, MagicsAre, ClusterNodeRepeats DEF Repeats
  <2>2. << <<"room", 56>>, <<"magic", "CL01">>, <<"take", 8>>, <<"take", 8>>, <<"key">> >> \in Progs
    BY <2>1 DEF Progs
  <2>3. DottedName \in Progs
    BY FieldTypes, StepTypes
  <2>4. << <<"room", 1>>, <<"num", 1, 0, 32>>, <<"repeat", ClusterNodeBody>>, <<"shape">>,
           <<"end">> >> \in Progs
    BY <2>1 DEF Progs
  <2>5. p \in Progs
    BY <2>2, <2>3, <2>4 DEF ClusterBody, Progs
  <2>6. Len(p) = 14
    BY DEF ClusterBody, DottedName
  <2> QED
    BY <2>5, <2>6
<1>2. c \in Seq(Needs) /\ Len(c) = 15 /\ c[1] = <<"least", 0>> /\ c[15] = <<"just", 0>>
  <2>1. /\ <<"least", 0>> \in Needs /\ <<"least", 56>> \in Needs /\ <<"least", 49>> \in Needs
        /\ <<"least", 41>> \in Needs /\ <<"least", 33>> \in Needs /\ <<"least", 1>> \in Needs
        /\ <<"num", 0>> \in Needs /\ <<"just", 0>> \in Needs
    BY NeedTypes
  <2> QED
    BY <2>1 DEF ClusterNeeds
<1>3. /\ Goes(<<"room", 56>>, <<"least", 0>>, <<"least", 56>>)
      /\ Goes(<<"roomNum", 0>>, <<"least", 0>>, <<"num", 0>>)
      /\ Goes(<<"dotted", 64>>, <<"num", 0>>, <<"num", 0>>)
      /\ Goes(<<"takeNum">>, <<"num", 0>>, <<"least", 0>>)
      /\ Goes(<<"room", 1>>, <<"least", 0>>, <<"least", 1>>)
      /\ Goes(<<"shape">>, <<"least", 0>>, <<"least", 0>>)
      /\ Goes(<<"end">>, <<"least", 0>>, <<"just", 0>>)
  BY GoesRules
<1>4. /\ Goes(<<"magic", "CL01">>, <<"least", 56>>, <<"least", 49>>)
      /\ Goes(<<"take", 8>>, <<"least", 49>>, <<"least", 41>>)
      /\ Goes(<<"take", 8>>, <<"least", 41>>, <<"least", 33>>)
      /\ Goes(<<"key">>, <<"least", 33>>, <<"least", 1>>)
      /\ Goes(<<"num", 1, 0, 255>>, <<"least", 1>>, <<"least", 0>>)
      /\ Goes(<<"num", 1, 0, 32>>, <<"least", 1>>, <<"least", 0>>)
  BY LeastGoes, MagicsAre
<1>5. /\ Goes(<<"repeat", ClusterNodeBody>>, <<"least", 0>>, <<"least", 0>>)
  BY RunGoes, ClusterNodeRepeats
<1>6. /\ Goes(p[1], c[1], c[2]) /\ Goes(p[2], c[2], c[3]) /\ Goes(p[3], c[3], c[4])
      /\ Goes(p[4], c[4], c[5]) /\ Goes(p[5], c[5], c[6]) /\ Goes(p[6], c[6], c[7])
      /\ Goes(p[7], c[7], c[8]) /\ Goes(p[8], c[8], c[9])
  BY <1>3, <1>4, <1>5 DEF ClusterBody, DottedName, ClusterNeeds
<1>7. /\ Goes(p[9], c[9], c[10]) /\ Goes(p[10], c[10], c[11]) /\ Goes(p[11], c[11], c[12])
      /\ Goes(p[12], c[12], c[13]) /\ Goes(p[13], c[13], c[14]) /\ Goes(p[14], c[14], c[15])
  BY <1>3, <1>4, <1>5 DEF ClusterBody, DottedName, ClusterNeeds
<1> HIDE DEF p, c
<1>8. \A i \in 1 .. 14 : Goes(p[i], c[i], c[i + 1])
  BY <1>6, <1>7
<1>9. Annotates(c, p)
  BY <1>1, <1>2, <1>8, StepTypes DEF Annotates
<1> QED
  BY <1>1, <1>2, <1>9, LayoutSafe DEF p

BootstrapNeeds ==
    << <<"least", 0>>, <<"least", 56>>, <<"least", 49>>, <<"least", 41>>, <<"least", 33>>,
       <<"least", 1>>, <<"least", 0>>, <<"num", 0>>, <<"num", 0>>, <<"least", 0>>,
       <<"least", 1>>, <<"least", 0>>, <<"least", 0>>, <<"least", 0>>, <<"just", 0>> >>

\* BootstrapRecord::from_body_bytes.
LEMMA BootstrapSafe == AtLeast(BootstrapBody, 0)
<1> DEFINE p == BootstrapBody
           c == BootstrapNeeds
<1>1. p \in Progs /\ Len(p) = 14
  <2>1. /\ <<"room", 56>> \in Steps /\ <<"magic", "BS01">> \in Steps /\ <<"take", 8>> \in Steps
        /\ <<"key">> \in Steps /\ <<"room", 1>> \in Steps /\ <<"num", 1, 1, 16>> \in Steps
        /\ <<"repeat", BootstrapEntryBody>> \in Steps /\ <<"shape">> \in Steps
        /\ <<"end">> \in Steps
    BY StepTypes, WordsAre, MagicsAre, BootstrapEntryRepeats DEF Repeats
  <2>2. << <<"room", 56>>, <<"magic", "BS01">>, <<"take", 8>>, <<"take", 8>>, <<"key">> >> \in Progs
    BY <2>1 DEF Progs
  <2>3. DottedName \in Progs
    BY FieldTypes, StepTypes
  <2>4. << <<"room", 1>>, <<"num", 1, 1, 16>>, <<"repeat", BootstrapEntryBody>>, <<"shape">>,
           <<"end">> >> \in Progs
    BY <2>1 DEF Progs
  <2>5. p \in Progs
    BY <2>2, <2>3, <2>4 DEF BootstrapBody, Progs
  <2>6. Len(p) = 14
    BY DEF BootstrapBody, DottedName
  <2> QED
    BY <2>5, <2>6
<1>2. c \in Seq(Needs) /\ Len(c) = 15 /\ c[1] = <<"least", 0>> /\ c[15] = <<"just", 0>>
  <2>1. /\ <<"least", 0>> \in Needs /\ <<"least", 56>> \in Needs /\ <<"least", 49>> \in Needs
        /\ <<"least", 41>> \in Needs /\ <<"least", 33>> \in Needs /\ <<"least", 1>> \in Needs
        /\ <<"num", 0>> \in Needs /\ <<"just", 0>> \in Needs
    BY NeedTypes
  <2> QED
    BY <2>1 DEF BootstrapNeeds
<1>3. /\ Goes(<<"room", 56>>, <<"least", 0>>, <<"least", 56>>)
      /\ Goes(<<"roomNum", 0>>, <<"least", 0>>, <<"num", 0>>)
      /\ Goes(<<"dotted", 64>>, <<"num", 0>>, <<"num", 0>>)
      /\ Goes(<<"takeNum">>, <<"num", 0>>, <<"least", 0>>)
      /\ Goes(<<"room", 1>>, <<"least", 0>>, <<"least", 1>>)
      /\ Goes(<<"shape">>, <<"least", 0>>, <<"least", 0>>)
      /\ Goes(<<"end">>, <<"least", 0>>, <<"just", 0>>)
  BY GoesRules
<1>4. /\ Goes(<<"magic", "BS01">>, <<"least", 56>>, <<"least", 49>>)
      /\ Goes(<<"take", 8>>, <<"least", 49>>, <<"least", 41>>)
      /\ Goes(<<"take", 8>>, <<"least", 41>>, <<"least", 33>>)
      /\ Goes(<<"key">>, <<"least", 33>>, <<"least", 1>>)
      /\ Goes(<<"num", 1, 0, 255>>, <<"least", 1>>, <<"least", 0>>)
      /\ Goes(<<"num", 1, 1, 16>>, <<"least", 1>>, <<"least", 0>>)
  BY LeastGoes, MagicsAre
<1>5. /\ Goes(<<"repeat", BootstrapEntryBody>>, <<"least", 0>>, <<"least", 0>>)
  BY RunGoes, BootstrapEntryRepeats
<1>6. /\ Goes(p[1], c[1], c[2]) /\ Goes(p[2], c[2], c[3]) /\ Goes(p[3], c[3], c[4])
      /\ Goes(p[4], c[4], c[5]) /\ Goes(p[5], c[5], c[6]) /\ Goes(p[6], c[6], c[7])
      /\ Goes(p[7], c[7], c[8]) /\ Goes(p[8], c[8], c[9])
  BY <1>3, <1>4, <1>5 DEF BootstrapBody, DottedName, BootstrapNeeds
<1>7. /\ Goes(p[9], c[9], c[10]) /\ Goes(p[10], c[10], c[11]) /\ Goes(p[11], c[11], c[12])
      /\ Goes(p[12], c[12], c[13]) /\ Goes(p[13], c[13], c[14]) /\ Goes(p[14], c[14], c[15])
  BY <1>3, <1>4, <1>5 DEF BootstrapBody, DottedName, BootstrapNeeds
<1> HIDE DEF p, c
<1>8. \A i \in 1 .. 14 : Goes(p[i], c[i], c[i + 1])
  BY <1>6, <1>7
<1>9. Annotates(c, p)
  BY <1>1, <1>2, <1>8, StepTypes DEF Annotates
<1> QED
  BY <1>1, <1>2, <1>9, LayoutSafe DEF p

IdentityVersionsNeeds ==
    << <<"least", 1>>, <<"least", 0>>, <<"justNum", 0>>, <<"just", 0>> >>

\* The versions a later IdentityRecord ends with.
LEMMA IdentityVersionsEnds == IdentityVersions \in Seq(Plain) /\ Ends(IdentityVersions)
<1> DEFINE p == IdentityVersions
           c == IdentityVersionsNeeds
<1>1. p \in Seq(Plain) /\ Len(p) = 3
  <2>1. /\ <<"num", 1, 1, 255>> \in Plain /\ <<"leftNum">> \in Plain /\ <<"takeNum">> \in Plain
    BY StepTypes, WordsAre, MagicsAre
  <2>2. << <<"num", 1, 1, 255>>, <<"leftNum">>, <<"takeNum">> >> \in Seq(Plain)
    BY <2>1
  <2>3. p \in Seq(Plain)
    BY <2>2 DEF IdentityVersions
  <2>4. Len(p) = 3
    BY DEF IdentityVersions
  <2> QED
    BY <2>3, <2>4
<1>2. c \in Seq(Needs) /\ Len(c) = 4 /\ c[1] = <<"least", 1>> /\ c[4] = <<"just", 0>>
  <2>1. /\ <<"least", 1>> \in Needs /\ <<"least", 0>> \in Needs /\ <<"justNum", 0>> \in Needs
        /\ <<"just", 0>> \in Needs
    BY NeedTypes
  <2> QED
    BY <2>1 DEF IdentityVersionsNeeds
<1>3. /\ Goes(<<"leftNum">>, <<"least", 0>>, <<"justNum", 0>>)
      /\ Goes(<<"takeNum">>, <<"justNum", 0>>, <<"just", 0>>)
  BY GoesRules
<1>4. /\ Goes(<<"num", 1, 1, 255>>, <<"least", 1>>, <<"least", 0>>)
  BY LeastGoes
<1>5. /\ Goes(p[1], c[1], c[2]) /\ Goes(p[2], c[2], c[3]) /\ Goes(p[3], c[3], c[4])
  BY <1>3, <1>4 DEF IdentityVersions, IdentityVersionsNeeds
<1> HIDE DEF p, c
<1>6. \A i \in 1 .. 3 : Goes(p[i], c[i], c[i + 1])
  BY <1>5
<1>7. Annotates(c, p)
  BY <1>1, <1>2, <1>6, StepTypes DEF Annotates
<1> QED
  BY <1>1, <1>2, <1>7, LayoutEnds DEF p

IdentityNeeds ==
    << <<"least", 0>>, <<"least", 74>>, <<"least", 73>>, <<"num", 72>>, <<"least", 72>>,
       <<"least", 40>>, <<"least", 8>>, <<"least", 0>>, <<"just", 0>>, <<"just", 0>> >>

\* IdentityRecord::from_body_bytes.
LEMMA IdentitySafe == AtLeast(IdentityBody, 0)
<1> DEFINE p == IdentityBody
           c == IdentityNeeds
<1>1. p \in Progs /\ Len(p) = 9
  <2>1. /\ <<"room", 74>> \in Steps /\ <<"num", 1, 1, 64>> \in Steps
        /\ <<"roomNum", 72>> \in Steps /\ <<"takeNum">> \in Steps /\ <<"take", 32>> \in Steps
        /\ <<"key">> \in Steps /\ <<"stamp">> \in Steps
        /\ <<"ifMore", IdentityVersions>> \in Steps /\ <<"shape">> \in Steps
    BY StepTypes, WordsAre, MagicsAre, IdentityVersionsEnds
  <2>2. << <<"room", 74>>, <<"num", 1, 1, 64>>, <<"roomNum", 72>>, <<"takeNum">>,
           <<"take", 32>>, <<"key">>, <<"stamp">>, <<"ifMore", IdentityVersions>>,
           <<"shape">> >> \in Progs
    BY <2>1 DEF Progs
  <2>3. p \in Progs
    BY <2>2 DEF IdentityBody, Progs
  <2>4. Len(p) = 9
    BY DEF IdentityBody
  <2> QED
    BY <2>3, <2>4
<1>2. c \in Seq(Needs) /\ Len(c) = 10 /\ c[1] = <<"least", 0>> /\ c[10] = <<"just", 0>>
  <2>1. /\ <<"least", 0>> \in Needs /\ <<"least", 74>> \in Needs /\ <<"least", 73>> \in Needs
        /\ <<"num", 72>> \in Needs /\ <<"least", 72>> \in Needs /\ <<"least", 40>> \in Needs
        /\ <<"least", 8>> \in Needs /\ <<"just", 0>> \in Needs
    BY NeedTypes
  <2> QED
    BY <2>1 DEF IdentityNeeds
<1>3. /\ Goes(<<"room", 74>>, <<"least", 0>>, <<"least", 74>>)
      /\ Goes(<<"roomNum", 72>>, <<"least", 73>>, <<"num", 72>>)
      /\ Goes(<<"takeNum">>, <<"num", 72>>, <<"least", 72>>)
      /\ Goes(<<"shape">>, <<"just", 0>>, <<"just", 0>>)
  BY GoesRules
<1>4. /\ Goes(<<"num", 1, 1, 64>>, <<"least", 74>>, <<"least", 73>>)
      /\ Goes(<<"take", 32>>, <<"least", 72>>, <<"least", 40>>)
      /\ Goes(<<"key">>, <<"least", 40>>, <<"least", 8>>)
      /\ Goes(<<"stamp">>, <<"least", 8>>, <<"least", 0>>)
  BY LeastGoes
<1>5. /\ Goes(<<"ifMore", IdentityVersions>>, <<"least", 0>>, <<"just", 0>>)
  BY RunGoes, IdentityVersionsEnds
<1>6. /\ Goes(p[1], c[1], c[2]) /\ Goes(p[2], c[2], c[3]) /\ Goes(p[3], c[3], c[4])
      /\ Goes(p[4], c[4], c[5]) /\ Goes(p[5], c[5], c[6]) /\ Goes(p[6], c[6], c[7])
      /\ Goes(p[7], c[7], c[8]) /\ Goes(p[8], c[8], c[9])
  BY <1>3, <1>4, <1>5 DEF IdentityBody, IdentityNeeds
<1>7. /\ Goes(p[9], c[9], c[10])
  BY <1>3, <1>4, <1>5 DEF IdentityBody, IdentityNeeds
<1> HIDE DEF p, c
<1>8. \A i \in 1 .. 9 : Goes(p[i], c[i], c[i + 1])
  BY <1>6, <1>7
<1>9. Annotates(c, p)
  BY <1>1, <1>2, <1>8, StepTypes DEF Annotates
<1> QED
  BY <1>1, <1>2, <1>9, LayoutSafe DEF p

---------------------------------------------------------------------------
(* Bodies have lengths. *)

PartForms == ({"magic"} \X Magics) \cup ({"raw"} \X Nat) \cup {<<"key">>, <<"stamp">>}
               \cup ({"num"} \X {1, 2} \X Nat)

IsBody(b) == /\ b = [src |-> b.src, len |-> b.len, known |-> b.known, magic |-> b.magic,
                     key |-> b.key]
             /\ b.len \in Nat

\* A part appended to a body makes a body.
LEMMA AppendIsBody ==
  ASSUME NEW b, IsBody(b), NEW p \in PartForms
  PROVE  IsBody(Append1(b, p))
<1>1. b.len \in Nat /\ b = [src |-> b.src, len |-> b.len, known |-> b.known,
                            magic |-> b.magic, key |-> b.key]
  BY DEF IsBody
<1>0. ASSUME NEW n \in Nat, NEW x, NEW y, NEW z
      PROVE  IsBody([src |-> b.src, len |-> n, known |-> x, magic |-> y, key |-> z])
  BY DEF IsBody
<1>2. CASE p[1] = "magic"
  <2>1. Append1(b, p) = [b EXCEPT !.len = b.len + 7, !.magic = p[2],
                                  !.known = @ \cup {<<b.len, 68>>}]
    BY <1>2 DEF Append1
  <2>2. Append1(b, p) = [src |-> b.src, len |-> b.len + 7, known |-> b.known \cup {<<b.len, 68>>},
                         magic |-> p[2], key |-> b.key]
    BY <1>1, <2>1
  <2>3. b.len + 7 \in Nat
    BY <1>1
  <2> QED
    BY <1>0, <2>2, <2>3
<1>3. CASE p[1] = "raw"
  <2>1. Append1(b, p) = [b EXCEPT !.len = b.len + p[2]] /\ p[2] \in Nat
    BY <1>3 DEF Append1, PartForms
  <2>2. Append1(b, p) = [src |-> b.src, len |-> b.len + p[2], known |-> b.known,
                         magic |-> b.magic, key |-> b.key]
    BY <1>1, <2>1
  <2>3. b.len + p[2] \in Nat
    BY <1>1, <2>1
  <2> QED
    BY <1>0, <2>2, <2>3
<1>4. CASE p[1] = "key"
  <2>1. Append1(b, p) = [b EXCEPT !.len = b.len + 32, !.key = b.len]
    BY <1>4 DEF Append1
  <2>2. Append1(b, p) = [src |-> b.src, len |-> b.len + 32, known |-> b.known,
                         magic |-> b.magic, key |-> b.len]
    BY <1>1, <2>1
  <2>3. b.len + 32 \in Nat
    BY <1>1
  <2> QED
    BY <1>0, <2>2, <2>3
<1>5. CASE p[1] = "stamp"
  <2>1. Append1(b, p) = [b EXCEPT !.len = b.len + 8, !.known = @ \cup {<<b.len, 0>>}]
    BY <1>5 DEF Append1
  <2>2. Append1(b, p) = [src |-> b.src, len |-> b.len + 8, known |-> b.known \cup {<<b.len, 0>>},
                         magic |-> b.magic, key |-> b.key]
    BY <1>1, <2>1
  <2>3. b.len + 8 \in Nat
    BY <1>1
  <2> QED
    BY <1>0, <2>2, <2>3
<1>6. CASE p[1] = "num" /\ p[2] = 1
  <2>1. Append1(b, p) = [b EXCEPT !.len = b.len + 1, !.known = @ \cup {<<b.len, p[3]>>}]
    BY <1>6 DEF Append1
  <2>2. Append1(b, p) = [src |-> b.src, len |-> b.len + 1,
                         known |-> b.known \cup {<<b.len, p[3]>>},
                         magic |-> b.magic, key |-> b.key]
    BY <1>1, <2>1
  <2>3. b.len + 1 \in Nat
    BY <1>1
  <2> QED
    BY <1>0, <2>2, <2>3
<1>7. CASE p[1] = "num" /\ p[2] = 2
  <2> DEFINE x == {<<b.len, p[3] \div 256>>, <<b.len + 1, p[3] % 256>>}
  <2>1. Append1(b, p) = [b EXCEPT !.len = b.len + 2, !.known = @ \cup x]
    BY <1>7 DEF Append1
  <2> HIDE DEF x
  <2>2. Append1(b, p) = [src |-> b.src, len |-> b.len + 2, known |-> b.known \cup x,
                         magic |-> b.magic, key |-> b.key]
    BY <1>1, <2>1
  <2>3. b.len + 2 \in Nat
    BY <1>1
  <2> QED
    BY <1>0, <2>2, <2>3
<1>8. \/ p[1] \in {"magic", "raw", "key", "stamp"}
      \/ p[1] = "num" /\ p[2] \in {1, 2}
  BY DEF PartForms
<1> QED
  BY <1>2, <1>3, <1>4, <1>5, <1>6, <1>7, <1>8

\* The bodies that the first parts make.
Built(k, ps, m, f) ==
    f = [n \in 0 .. m |-> IF n = 0 THEN Blank(k) ELSE Append1(f[n - 1], ps[n])]

\* The bodies that the first parts make are a function of their number.
LEMMA BuiltExists ==
  ASSUME NEW k, NEW ps, NEW m \in Nat
  PROVE  \E f : Built(k, ps, m, f)
<1> DEFINE Bad == {i \in Nat : ~ \E f : Built(k, ps, i, f)}
<1> SUFFICES ASSUME Bad # {} PROVE FALSE
  OBVIOUS
<1>1. PICK i \in Bad : \A j \in Bad : i <= j
  BY Least
<1>2. i # 0
  <2> DEFINE f == [n \in 0 .. 0 |-> Blank(k)]
  <2>1. f = [n \in 0 .. 0 |-> IF n = 0 THEN Blank(k) ELSE Append1(f[n - 1], ps[n])]
    OBVIOUS
  <2>2. Built(k, ps, 0, f)
    BY <2>1 DEF Built
  <2> QED
    BY <2>2
<1>3. i - 1 \in Nat /\ i - 1 \notin Bad /\ i \in Nat
  BY <1>1, <1>2
<1>4. PICK f : Built(k, ps, i - 1, f)
  BY <1>3
<1> DEFINE next == Append1(f[i - 1], ps[i])
           u == [n \in 0 .. i |-> IF n = i THEN next ELSE f[n]]
<1>5. \A n \in 0 .. i - 1 : f[n] = IF n = 0 THEN Blank(k) ELSE Append1(f[n - 1], ps[n])
  BY <1>4 DEF Built
<1> HIDE DEF Bad
<1>6. ASSUME NEW n \in 0 .. i
      PROVE  u[n] = IF n = 0 THEN Blank(k) ELSE Append1(u[n - 1], ps[n])
  <2>1. CASE n = i
    <3>1. u[i] = next /\ u[i - 1] = f[i - 1]
      BY <1>2, <1>3
    <3> QED
      BY <1>2, <2>1, <3>1
  <2>2. CASE n # i
    <3>1. n \in 0 .. i - 1 /\ u[n] = f[n]
      BY <1>3, <2>2
    <3>2. n # 0 => n - 1 \in 0 .. i /\ n - 1 # i /\ u[n - 1] = f[n - 1]
      BY <1>3, <2>2
    <3> QED
      BY <1>5, <3>1, <3>2
  <2> QED
    BY <2>1, <2>2
<1>7. Built(k, ps, i, u)
  <2> HIDE DEF next
  <2>1. u = [n \in 0 .. i |-> u[n]]
    OBVIOUS
  <2> HIDE DEF u
  <2>2. u = [n \in 0 .. i |-> IF n = 0 THEN Blank(k) ELSE Append1(u[n - 1], ps[n])]
    BY <1>6, <2>1
  <2> QED
    BY <2>2 DEF Built
<1> HIDE DEF u
<1>8. i \notin Bad
  BY <1>7 DEF Bad
<1> QED
  BY <1>1, <1>8

\* The parts of an encoder make a body.
LEMMA AssembleIsBody ==
  ASSUME NEW k, NEW ps \in Seq(PartForms)
  PROVE  IsBody(Assemble(k, ps))
<1> DEFINE f == CHOOSE f : Built(k, ps, Len(ps), f)
           Bad == {n \in 0 .. Len(ps) : ~ IsBody(f[n])}
<1>0. Len(ps) \in Nat
  OBVIOUS
<1>1. Built(k, ps, Len(ps), f)
  BY <1>0, BuiltExists
<1>2. Assemble(k, ps) = f[Len(ps)]
  BY DEF Assemble, Built
<1> HIDE DEF f
<1>3. \A n \in 0 .. Len(ps) : f[n] = IF n = 0 THEN Blank(k) ELSE Append1(f[n - 1], ps[n])
  BY <1>1 DEF Built
<1>4. IsBody(f[0])
  <2>1. f[0] = Blank(k)
    BY <1>0, <1>3
  <2>2. IsBody(Blank(k))
    BY DEF IsBody, Blank
  <2> QED
    BY <2>1, <2>2
<1>5. Bad = {}
  <2> SUFFICES ASSUME Bad # {} PROVE FALSE
    OBVIOUS
  <2>1. PICK n \in Bad : \A j \in Bad : n <= j
    <3>1. Bad \in SUBSET Nat
      BY <1>0
    <3> HIDE DEF Bad
    <3> QED
      BY <3>1, Least
  <2>2. n \in 0 .. Len(ps) /\ ~IsBody(f[n])
    BY <2>1
  <2>3. n # 0 /\ n - 1 \in 0 .. Len(ps) /\ ~(n <= n - 1) /\ n \in 1 .. Len(ps)
    BY <1>0, <1>4, <2>2
  <2>4. n - 1 \notin Bad
    <3> HIDE DEF Bad
    <3> QED
      BY <2>1, <2>3
  <2>5. IsBody(f[n - 1]) /\ f[n] = Append1(f[n - 1], ps[n]) /\ ps[n] \in PartForms
    BY <1>3, <2>2, <2>3, <2>4
  <2> QED
    BY <2>2, <2>5, AppendIsBody
<1>6. Len(ps) \in 0 .. Len(ps)
  BY <1>0
<1> QED
  BY <1>2, <1>5, <1>6

\* CodecAssumption as a hypothesis, for the lemmas that need it.
Naturals == Lengths \subseteq Nat /\ Counts \subseteq Nat /\ BodyLens \subseteq Nat

\* The shapes parts have.
LEMMA FormTypes ==
  /\ \A m \in Magics : <<"magic", m>> \in PartForms
  /\ \A n \in Nat : <<"raw", n>> \in PartForms
  /\ <<"key">> \in PartForms /\ <<"stamp">> \in PartForms
  /\ \A n \in Nat : <<"num", 1, n>> \in PartForms /\ <<"num", 2, n>> \in PartForms
BY DEF PartForms

\* A field with its length before it is made of parts.
LEMMA PartTypes ==
  ASSUME Naturals, NEW l \in Nat, NEW h \in Nat, NEW n \in Sizes(l, h)
  PROVE  n \in Nat /\ Part(1, n) \in Seq(PartForms) /\ Part(2, n) \in Seq(PartForms)
<1>1. n \in Nat
  BY DEF Sizes, Naturals
<1>2. /\ <<"num", 1, n>> \in PartForms /\ <<"num", 2, n>> \in PartForms
      /\ <<"raw", n>> \in PartForms
  BY <1>1, FormTypes
<1> QED
  BY <1>1, <1>2 DEF Part

\* A sequence over S, n times over, is a sequence over S.
LEMMA TimesType ==
  ASSUME NEW S, NEW p \in Seq(S), NEW n \in Nat, Len(p) > 0
  PROVE  Repeated(n, p) \in Seq(S)
<1> DEFINE m == Len(p)
<1>1. m \in Nat /\ m > 0
  OBVIOUS
<1>2. n * m \in Nat
  BY <1>1
<1>3. ASSUME NEW i \in 1 .. n * m PROVE p[((i - 1) % m) + 1] \in S
  <2>1. i - 1 \in Int
    BY <1>2
  <2>2. (i - 1) % m \in 0 .. m - 1
    BY <1>1, <2>1
  <2>3. ((i - 1) % m) + 1 \in 1 .. m
    BY <1>1, <2>2
  <2> QED
    BY <2>3
<1>4. Repeated(n, p) \in [1 .. n * m -> S]
  BY <1>3 DEF Repeated
<1> QED
  BY <1>2, <1>4

\* The encoders of prekeys, manifests, messages and ciphertexts write parts.
LEMMA SmallParts ==
  ASSUME Naturals
  PROVE  /\ PrekeyParts \cup ManifestParts \subseteq Seq(PartForms)
         /\ MessageParts \cup EncryptedParts \subseteq Seq(PartForms)
<1>1. PrekeyParts \cup ManifestParts \subseteq Seq(PartForms)
  <2>1. /\ <<"raw", 4>> \in PartForms /\ <<"raw", 32>> \in PartForms /\ <<"stamp">> \in PartForms
        /\ <<"raw", 16>> \in PartForms /\ <<"raw", 44>> \in PartForms /\ <<"key">> \in PartForms
    BY FormTypes
  <2> QED
    BY <2>1 DEF PrekeyParts, ManifestParts
<1>2. MessageParts \subseteq Seq(PartForms)
  <2> DEFINE E(h, p) ==
                 Part(2, h) \o << <<"raw", p>>, <<"raw", 32>> >>
  <2>1. ASSUME NEW h \in Sizes(254, 308), NEW p \in Sizes(0, 255)
        PROVE  E(h, p) \in Seq(PartForms)
    <3>1. Part(2, h) \in Seq(PartForms) /\ p \in Nat
      BY PartTypes
    <3>2. <<"raw", p>> \in PartForms /\ <<"raw", 32>> \in PartForms
      BY <3>1, FormTypes
    <3> QED
      BY <3>1, <3>2
  <2>2. MessageParts = {E(h, p) : h \in Sizes(254, 308), p \in Sizes(0, 255)}
    BY DEF MessageParts, HeaderSizes
  <2> HIDE DEF E
  <2> QED
    BY <2>1, <2>2
<1>3. EncryptedParts \subseteq Seq(PartForms)
  <2> SUFFICES ASSUME NEW ps \in EncryptedParts PROVE ps \in Seq(PartForms)
    OBVIOUS
  <2>0. PICK c \in Sizes(16, 255) :
          ps = << <<"raw", 44>>, <<"raw", c>> >>
    BY DEF EncryptedParts
  <2>1. c \in Nat
    BY PartTypes
  <2>2. <<"raw", 44>> \in PartForms /\ <<"raw", c>> \in PartForms
    BY <2>1, FormTypes
  <2> QED
    BY <2>0, <2>2
<1> QED
  BY <1>1, <1>2, <1>3

\* HeartbeatRecord::to_body_bytes writes parts, in either version.
LEMMA HeartbeatPartsTyped ==
  ASSUME Naturals
  PROVE  HeartbeatParts \cup LegacyParts \subseteq Seq(PartForms)
<1>1. /\ <<"magic", "HB02">> \in PartForms /\ <<"magic", "HB03">> \in PartForms
      /\ <<"key">> \in PartForms /\ <<"raw", 2>> \in PartForms /\ <<"stamp">> \in PartForms
  BY FormTypes, MagicsAre
<1>2. /\ << <<"magic", "HB02">> >> \in Seq(PartForms)
      /\ << <<"magic", "HB03">> >> \in Seq(PartForms)
      /\ << <<"key">> >> \in Seq(PartForms) /\ << <<"raw", 2>> >> \in Seq(PartForms)
      /\ << <<"stamp">>, <<"stamp">> >> \in Seq(PartForms)
      /\ << <<"raw", 2>>, <<"stamp">>, <<"stamp">> >> \in Seq(PartForms)
  BY <1>1
<1>3. HeartbeatParts \subseteq Seq(PartForms)
  <2> DEFINE E(e, v, z) ==
                 << <<"magic", "HB03">> >> \o Part(2, e) \o << <<"key">> >> \o Part(1, v)
                 \o << <<"raw", 2>> >> \o Part(1, z) \o << <<"stamp">>, <<"stamp">> >>
  <2>1. ASSUME NEW e \in Sizes(1, 255), NEW v \in Sizes(0, 32), NEW z \in Sizes(0, 64)
        PROVE  E(e, v, z) \in Seq(PartForms)
    <3>1. /\ Part(2, e) \in Seq(PartForms) /\ Part(1, v) \in Seq(PartForms)
          /\ Part(1, z) \in Seq(PartForms)
      BY PartTypes
    <3> QED
      BY <1>2, <3>1
  <2>2. HeartbeatParts = {E(e, v, z) : e \in Sizes(1, 255), v \in Sizes(0, 32), z \in Sizes(0, 64)}
    BY DEF HeartbeatParts
  <2> HIDE DEF E
  <2> QED
    BY <2>1, <2>2
<1>4. LegacyParts \subseteq Seq(PartForms)
  <2> DEFINE E(e, v) ==
                 << <<"magic", "HB02">> >> \o Part(2, e) \o << <<"key">> >> \o Part(1, v)
                 \o << <<"raw", 2>>, <<"stamp">>, <<"stamp">> >>
  <2>1. ASSUME NEW e \in Sizes(1, 255), NEW v \in Sizes(0, 32)
        PROVE  E(e, v) \in Seq(PartForms)
    <3>1. Part(2, e) \in Seq(PartForms) /\ Part(1, v) \in Seq(PartForms)
      BY PartTypes
    <3> QED
      BY <1>2, <3>1
  <2>2. LegacyParts = {E(e, v) : e \in Sizes(1, 255), v \in Sizes(0, 32)}
    BY DEF LegacyParts
  <2> HIDE DEF E
  <2> QED
    BY <2>1, <2>2
<1> QED
  BY <1>3, <1>4

\* ClusterManifest and BootstrapRecord::to_body_bytes write parts.
LEMMA ListPartsTyped ==
  ASSUME Naturals
  PROVE  ClusterParts \cup BootstrapParts \subseteq Seq(PartForms)
<1>1. /\ <<"magic", "CL01">> \in PartForms /\ <<"magic", "BS01">> \in PartForms
      /\ <<"raw", 8>> \in PartForms /\ <<"stamp">> \in PartForms /\ <<"key">> \in PartForms
      /\ <<"raw", 2>> \in PartForms /\ <<"raw", 32>> \in PartForms
      /\ \A c \in Nat : <<"num", 1, c>> \in PartForms
  BY FormTypes, MagicsAre
<1>2. /\ << <<"magic", "CL01">>, <<"raw", 8>>, <<"stamp">>, <<"key">> >> \in Seq(PartForms)
      /\ << <<"magic", "BS01">>, <<"raw", 8>>, <<"stamp">>, <<"key">> >> \in Seq(PartForms)
      /\ << <<"raw", 2>> >> \in Seq(PartForms) /\ << <<"raw", 32>> >> \in Seq(PartForms)
      /\ \A c \in Nat : << <<"num", 1, c>> >> \in Seq(PartForms)
  BY <1>1
<1>3. ASSUME NEW p \in ClusterNodeParts PROVE p \in Seq(PartForms) /\ Len(p) > 0
  <2> DEFINE N(i, h, d) == Part(1, i) \o Part(2, h) \o Part(2, d)
  <2>1. ASSUME NEW i \in Sizes(1, 16), NEW h \in Sizes(1, 128),
               NEW d \in Sizes(0, 64)
        PROVE  N(i, h, d) \in Seq(PartForms) /\ Len(N(i, h, d)) > 0
    <3> DEFINE a == Part(1, i)
               b == Part(2, h)
               c == Part(2, d)
    <3>1. a \in Seq(PartForms) /\ b \in Seq(PartForms) /\ c \in Seq(PartForms)
      BY PartTypes
    <3>2. Len(a) = 2 /\ Len(b) = 2 /\ Len(c) = 2
      BY DEF Part
    <3>3. N(i, h, d) = (a \o b) \o c
      OBVIOUS
    <3> HIDE DEF a, b, c, N
    <3>4. a \o b \in Seq(PartForms) /\ Len(a \o b) = Len(a) + Len(b)
      BY <3>1, ConcatProperties
    <3>5. /\ (a \o b) \o c \in Seq(PartForms)
          /\ Len((a \o b) \o c) = Len(a \o b) + Len(c)
      BY <3>1, <3>4, ConcatProperties
    <3> QED
      BY <3>2, <3>3, <3>4, <3>5
  <2>2. ClusterNodeParts =
            {N(i, h, d) : i \in Sizes(1, 16), h \in Sizes(1, 128),
                          d \in Sizes(0, 64)}
    BY DEF ClusterNodeParts
  <2> HIDE DEF N
  <2> QED
    BY <2>1, <2>2
<1>4. ASSUME NEW p \in BootstrapEntryParts PROVE p \in Seq(PartForms) /\ Len(p) > 0
  <2>1. PICK b \in Sizes(1, 64) : p = << <<"raw", 2>> >> \o Part(1, b) \o << <<"raw", 32>> >>
    BY DEF BootstrapEntryParts
  <2>2. Part(1, b) \in Seq(PartForms)
    BY PartTypes
  <2>3. Len(Part(1, b)) = 2
    BY DEF Part
  <2> QED
    BY <1>2, <2>1, <2>2, <2>3
<1>5. ClusterParts \subseteq Seq(PartForms)
  <2> DEFINE E(n, c, p) ==
                 << <<"magic", "CL01">>, <<"raw", 8>>, <<"stamp">>, <<"key">> >>
                 \o Part(1, n) \o << <<"num", 1, c>> >> \o Repeated(c, p)
  <2>1. ASSUME NEW n \in Sizes(1, 64), NEW c \in Counts, NEW p \in ClusterNodeParts
        PROVE  E(n, c, p) \in Seq(PartForms)
    <3>1. c \in Nat
      BY DEF Naturals
    <3>2. Part(1, n) \in Seq(PartForms)
      BY PartTypes
    <3>3. Repeated(c, p) \in Seq(PartForms)
      BY <1>3, <3>1, TimesType
    <3>4. << <<"num", 1, c>> >> \in Seq(PartForms)
      BY <1>2, <3>1
    <3> QED
      BY <1>2, <3>2, <3>3, <3>4
  <2>2. ClusterParts = {E(n, c, p) : n \in Sizes(1, 64), c \in Counts, p \in ClusterNodeParts}
    BY DEF ClusterParts
  <2> HIDE DEF E
  <2> QED
    BY <2>1, <2>2
<1>6. BootstrapParts \subseteq Seq(PartForms)
  <2> DEFINE E(n, c, p) ==
                 << <<"magic", "BS01">>, <<"raw", 8>>, <<"stamp">>, <<"key">> >>
                 \o Part(1, n) \o << <<"num", 1, c>> >> \o Repeated(c, p)
  <2>1. ASSUME NEW n \in Sizes(1, 64), NEW c \in Counts, NEW p \in BootstrapEntryParts
        PROVE  E(n, c, p) \in Seq(PartForms)
    <3>1. c \in Nat
      BY DEF Naturals
    <3>2. Part(1, n) \in Seq(PartForms)
      BY PartTypes
    <3>3. Repeated(c, p) \in Seq(PartForms)
      BY <1>4, <3>1, TimesType
    <3>4. << <<"num", 1, c>> >> \in Seq(PartForms)
      BY <1>2, <3>1
    <3> QED
      BY <1>2, <3>2, <3>3, <3>4
  <2>2. BootstrapParts = {E(n, c, p) : n \in Sizes(1, 64), c \in Counts, p \in BootstrapEntryParts}
    BY DEF BootstrapParts
  <2> HIDE DEF E
  <2> QED
    BY <2>1, <2>2
<1> QED
  BY <1>5, <1>6

\* IdentityRecord and ClaimRecord::to_body_bytes write parts.
LEMMA IdentityPartsTyped ==
  ASSUME Naturals
  PROVE  IdentityParts \cup ClaimParts \subseteq Seq(PartForms)
<1>1. /\ <<"raw", 32>> \in PartForms /\ <<"key">> \in PartForms /\ <<"stamp">> \in PartForms
      /\ <<"magic", "CL01">> \in PartForms /\ <<"raw", 16>> \in PartForms
      /\ \A c \in Nat : <<"num", 1, c>> \in PartForms
  BY FormTypes, MagicsAre
<1>2. /\ << <<"raw", 32>>, <<"key">>, <<"stamp">> >> \in Seq(PartForms)
      /\ << <<"magic", "CL01">>, <<"raw", 16>>, <<"key">> >> \in Seq(PartForms)
      /\ \A c \in Nat : << <<"num", 1, c>>, <<"stamp">>, <<"stamp">> >> \in Seq(PartForms)
      /\ <<>> \in Seq(PartForms)
  BY <1>1
<1>3. IdentityParts \subseteq Seq(PartForms)
  <2> DEFINE E(n, v) ==
                 Part(1, n) \o << <<"raw", 32>>, <<"key">>, <<"stamp">> >>
                 \o (IF v = 0 THEN <<>> ELSE Part(1, v))
  <2>1. ASSUME NEW n \in Sizes(1, 64), NEW v \in Sizes(0, 255)
        PROVE  E(n, v) \in Seq(PartForms)
    <3>1. Part(1, n) \in Seq(PartForms) /\ Part(1, v) \in Seq(PartForms)
      BY PartTypes
    <3>2. (IF v = 0 THEN <<>> ELSE Part(1, v)) \in Seq(PartForms)
      BY <1>2, <3>1
    <3> QED
      BY <1>2, <3>1, <3>2
  <2>2. IdentityParts = {E(n, v) : n \in Sizes(1, 64), v \in Sizes(0, 255)}
    BY DEF IdentityParts
  <2> HIDE DEF E
  <2> QED
    BY <2>1, <2>2
<1>4. ClaimParts \subseteq Seq(PartForms)
  <2> DEFINE E(n, s) ==
                 << <<"magic", "CL01">>, <<"raw", 16>>, <<"key">> >> \o Part(1, n)
                 \o << <<"num", 1, s>>, <<"stamp">>, <<"stamp">> >>
  <2>1. ASSUME NEW n \in Sizes(1, 43), NEW s \in Sizes(0, 9)
        PROVE  E(n, s) \in Seq(PartForms)
    <3>1. Part(1, n) \in Seq(PartForms) /\ s \in Nat
      BY PartTypes
    <3>2. << <<"num", 1, s>>, <<"stamp">>, <<"stamp">> >> \in Seq(PartForms)
      BY <1>2, <3>1
    <3> QED
      BY <1>2, <3>1, <3>2
  <2>2. ClaimParts = {E(n, s) : n \in Sizes(1, 43), s \in Sizes(0, 9)}
    BY DEF ClaimParts, MaxMailboxDomain
  <2> HIDE DEF E
  <2> QED
    BY <2>1, <2>2
<1> QED
  BY <1>3, <1>4

\* RotationRecord and RevocationRecord::to_body_bytes write parts.
LEMMA RotationPartsTyped ==
  ASSUME Naturals
  PROVE  RotationParts \cup RevocationParts \subseteq Seq(PartForms)
<1>1. /\ <<"magic", "ROT1">> \in PartForms /\ <<"magic", "RV01">> \in PartForms
      /\ <<"key">> \in PartForms /\ <<"raw", 32>> \in PartForms /\ <<"raw", 8>> \in PartForms
      /\ <<"stamp">> \in PartForms /\ \A c \in Nat : <<"num", 1, c>> \in PartForms
  BY FormTypes, MagicsAre
<1>2. /\ \A t \in Nat : << <<"magic", "ROT1">>, <<"num", 1, t>> >> \in Seq(PartForms)
      /\ \A t \in Nat : << <<"magic", "RV01">>, <<"num", 1, t>> >> \in Seq(PartForms)
      /\ << <<"key">>, <<"raw", 32>>, <<"raw", 8>>, <<"stamp">>, <<"stamp">> >>
           \in Seq(PartForms)
      /\ \A r \in Nat : << <<"key">>, <<"num", 1, r>>, <<"stamp">> >> \in Seq(PartForms)
  BY <1>1
<1>3. \A t \in 1 .. 3 : SubjectMax(t) \in Nat /\ t \in Nat
  BY DEF SubjectMax
<1>4. RotationParts \subseteq Seq(PartForms)
  <2> DEFINE E(t, n) ==
                 << <<"magic", "ROT1">>, <<"num", 1, t>> >> \o Part(1, n)
                 \o << <<"key">>, <<"raw", 32>>, <<"raw", 8>>, <<"stamp">>, <<"stamp">> >>
  <2>1. ASSUME NEW t \in 1 .. 3, NEW n \in Sizes(1, SubjectMax(t))
        PROVE  E(t, n) \in Seq(PartForms)
    <3>1. Part(1, n) \in Seq(PartForms)
      BY <1>3, PartTypes
    <3>2. << <<"magic", "ROT1">>, <<"num", 1, t>> >> \in Seq(PartForms)
      BY <1>2, <1>3
    <3> QED
      BY <1>2, <3>1, <3>2
  <2>2. RotationParts = UNION {{E(t, n) : n \in Sizes(1, SubjectMax(t))} : t \in 1 .. 3}
    BY DEF RotationParts
  <2> HIDE DEF E
  <2> QED
    BY <2>1, <2>2
<1>5. RevocationParts \subseteq Seq(PartForms)
  <2> DEFINE E(t, n, r) ==
                 << <<"magic", "RV01">>, <<"num", 1, t>> >> \o Part(1, n)
                 \o << <<"key">>, <<"num", 1, r>>, <<"stamp">> >>
  <2>1. ASSUME NEW t \in 1 .. 3, NEW n \in Sizes(1, SubjectMax(t)), NEW r \in {1, 4}
        PROVE  E(t, n, r) \in Seq(PartForms)
    <3>1. Part(1, n) \in Seq(PartForms)
      BY <1>3, PartTypes
    <3>2. /\ << <<"magic", "RV01">>, <<"num", 1, t>> >> \in Seq(PartForms)
          /\ << <<"key">>, <<"num", 1, r>>, <<"stamp">> >> \in Seq(PartForms)
      BY <1>2, <1>3
    <3> QED
      BY <3>1, <3>2
  <2>2. RevocationParts = UNION {{E(t, n, r) : n \in Sizes(1, SubjectMax(t)),
            r \in {1, 4}} : t \in 1 .. 3}
    BY DEF RevocationParts
  <2> HIDE DEF E
  <2> QED
    BY <2>1, <2>2
<1> QED
  BY <1>4, <1>5

\* What any encoder writes is a body with a length.
LEMMA EncodedIsBody ==
  ASSUME Naturals, NEW k \in Kinds, NEW ps \in Parts(k)
  PROVE  IsBody(Assemble(k, ps))
<1>1. ps \in Seq(PartForms)
  BY SmallParts, HeartbeatPartsTyped, ListPartsTyped, IdentityPartsTyped, RotationPartsTyped
     DEF Parts, Kinds
<1> QED
  BY <1>1, AssembleIsBody

---------------------------------------------------------------------------
(* Runs of the parsers. *)

\* While a parser runs, what it has to do, the bytes left and the number read
\* last are a safe configuration.
CodecInv ==
    /\ body.len \in Nat /\ off \in 0 .. body.len
    /\ verdict \in {"none", "parse", "parsed", "err", "accept", "reject", "unwanted"}
    /\ reader = "none" => verdict = "none"
    /\ verdict # "none" => body.src # "none"
    /\ verdict = "none" => off = 0 /\ num \in Nat
    /\ verdict = "parse" => <<prog, body.len - off, num>> \in Safe
    /\ verdict \in {"parsed", "accept", "reject", "unwanted"} => off = body.len

\* Nothing is encoded, nothing read.
LEMMA InitInv == CodecInit => CodecInv
BY DEF CodecInit, CodecInv, Blank

\* An encoder makes a body.
LEMMA EncodeInv ==
  ASSUME Naturals, CodecInv, NEW k \in Kinds, Encode(k)
  PROVE  CodecInv'
<1>1. PICK ps \in Parts(k) : body' = Assemble(k, ps)
  BY DEF Encode
<1>2. body'.len \in Nat
  BY <1>1, EncodedIsBody DEF IsBody
<1>3. verdict = "none" /\ UNCHANGED <<reader, prog, off, num, keyAt, far, verdict>>
  BY DEF Encode, CodecInv
<1> QED
  BY <1>2, <1>3 DEF CodecInv

\* So does whatever else a zone serves.
LEMMA ArriveInv ==
  ASSUME Naturals, CodecInv, NEW n \in BodyLens, Arrive(n)
  PROVE  CodecInv'
<1>1. body'.len = n /\ n \in Nat
  BY DEF Arrive, Blank, Naturals
<1>2. verdict = "none" /\ UNCHANGED <<reader, prog, off, num, keyAt, far, verdict>>
  BY DEF Arrive, CodecInv
<1> QED
  BY <1>1, <1>2 DEF CodecInv

\* Every layout a parser may start is safe whatever bytes it is given.
LEMMA ProgramSafe ==
  ASSUME NEW k \in Kinds, NEW p \in Program(k)
  PROVE  AtLeast(p, 0)
BY HeartbeatSafe, LegacySafe, ClusterSafe, BootstrapSafe, IdentitySafe, ClaimSafe, RotationSafe,
   RevocationSafe, PrekeySafe, ManifestSafe, MessageSafe, EncryptedSafe DEF Program, Kinds
\* A parser starts at the first byte of a body.
LEMMA ReadAsInv ==
  ASSUME CodecInv, NEW k \in Kinds, ReadAs(k)
  PROVE  CodecInv'
<1>1. PICK p \in Program(k) : prog' = p
  BY DEF ReadAs
<1>2. /\ verdict = "none" /\ off = 0 /\ num \in Nat /\ body.len \in Nat /\ body.src # "none"
      /\ body' = body /\ off' = off /\ num' = num /\ reader' = k /\ verdict' = "parse"
  BY DEF ReadAs, CodecInv
<1>3. <<p, body.len, num>> \in Safe
  BY <1>2, ProgramSafe DEF AtLeast
<1>4. k # "none"
  BY DEF Kinds
<1>5. body.len - off = body.len
  BY <1>2
<1> QED
  BY <1>1, <1>2, <1>3, <1>4, <1>5 DEF CodecInv

\* The next step of a running parser is fine.
LEMMA RunningFine ==
  ASSUME CodecInv, verdict = "parse", prog # <<>>
  PROVE  /\ Rest \in Nat /\ Rest = body.len - off /\ num \in Nat /\ off \in Nat
         /\ Fine(Safe, Op, Tail(prog), Rest, num)
<1>1. <<prog, Rest, num>> \in Safe /\ off \in 0 .. body.len /\ body.len \in Nat
  BY DEF CodecInv, Rest
<1>2. prog \in Progs /\ Rest \in Nat /\ num \in Nat
  BY <1>1 DEF Safe, Configs
<1>3. Fine(Safe, Op, Tail(prog), Rest, num)
  BY <1>1, <1>2, SafeClosed DEF Closed, Op
<1> QED
  BY <1>1, <1>2, <1>3 DEF Rest

\* A step that reads nothing.
LEMMA GoonInv ==
  ASSUME CodecInv, verdict = "parse", Goon, off' \in 0 .. body.len,
         <<Tail(prog), body.len - off', num'>> \in Safe
  PROVE  CodecInv'
BY DEF CodecInv, Goon

\* A step that returns an error.
LEMMA StopInv ==
  ASSUME CodecInv, verdict = "parse", Stop("err")
  PROVE  CodecInv'
BY DEF CodecInv, Stop

\* A check goes on or returns an error.
LEMMA TestInv ==
  ASSUME CodecInv, verdict = "parse", NEW ok, Test(ok),
         ok => <<Tail(prog), Rest, num>> \in Safe
  PROVE  CodecInv'
<1>1. CASE ok
  <2>1. Goon /\ off' = off /\ num' = num
    BY <1>1 DEF Test
  <2>2. off' \in 0 .. body.len /\ <<Tail(prog), body.len - off', num'>> \in Safe
    BY <1>1, <2>1 DEF Rest, CodecInv
  <2> QED
    BY <2>1, <2>2, GoonInv
<1>2. CASE ~ok
  BY <1>2, StopInv DEF Test
<1> QED
  BY <1>1, <1>2

\* The length checks.
LEMMA RequireInv ==
  ASSUME CodecInv, verdict = "parse", prog # <<>>, Require
  PROVE  CodecInv'
<1>1. Fine(Safe, Op, Tail(prog), Rest, num)
  BY RunningFine
<1>2. CASE Op[1] = "room" /\ Test(Rest >= Op[2])
  <2>1. Rest >= Op[2] => <<Tail(prog), Rest, num>> \in Safe
    BY <1>1, <1>2 DEF Fine
  <2> QED
    BY <1>2, <2>1, TestInv
<1>3. CASE Op[1] = "roomNum" /\ Test(Rest >= num + Op[2])
  <2>1. Rest >= num + Op[2] => <<Tail(prog), Rest, num>> \in Safe
    BY <1>1, <1>3 DEF Fine
  <2> QED
    BY <1>3, <2>1, TestInv
<1>4. CASE Op[1] = "left" /\ Test(Rest = Op[2])
  <2>1. Rest = Op[2] => <<Tail(prog), Rest, num>> \in Safe
    BY <1>1, <1>4 DEF Fine
  <2> QED
    BY <1>4, <2>1, TestInv
<1>5. CASE Op[1] = "leftNum" /\ Test(Rest = num)
  <2>1. Rest = num => <<Tail(prog), Rest, num>> \in Safe
    BY <1>1, <1>5 DEF Fine
  <2> QED
    BY <1>5, <2>1, TestInv
<1>6. CASE Op[1] = "end" /\ Test(Rest = 0)
  <2>1. Rest = 0 => <<Tail(prog), Rest, num>> \in Safe
    BY <1>1, <1>6 DEF Fine
  <2> QED
    BY <1>6, <2>1, TestInv
<1> QED
  BY <1>2, <1>3, <1>4, <1>5, <1>6 DEF Require

\* The checks of a number and of a text.
LEMMA InspectInv ==
  ASSUME CodecInv, verdict = "parse", prog # <<>>, Inspect
  PROVE  CodecInv'
<1>1. Fine(Safe, Op, Tail(prog), Rest, num)
  BY RunningFine
<1>2. CASE Op[1] = "shape" /\ \E ok \in IF body.src = reader THEN {TRUE} ELSE BOOLEAN : Test(ok)
  <2>1. PICK ok \in IF body.src = reader THEN {TRUE} ELSE BOOLEAN : Test(ok)
    BY <1>2
  <2>2. <<Tail(prog), Rest, num>> \in Safe
    BY <1>1, <1>2 DEF Fine
  <2> QED
    BY <2>1, <2>2, TestInv
<1>3. CASE /\ Op[1] = "dotted"
           /\ \E dot \in IF body.src = reader \/ num = 0 THEN {0} ELSE {0, 1} :
                Test(num - dot \in 1 .. Op[2])
  <2>1. PICK dot \in IF body.src = reader \/ num = 0 THEN {0} ELSE {0, 1} :
            Test(num - dot \in 1 .. Op[2])
    BY <1>3
  <2>2. <<Tail(prog), Rest, num>> \in Safe
    BY <1>1, <1>3 DEF Fine
  <2> QED
    BY <2>1, <2>2, TestInv
<1> QED
  BY <1>2, <1>3 DEF Inspect

\* A slice moves the cursor by bytes that are there.
LEMMA SliceInv ==
  ASSUME CodecInv, verdict = "parse", prog # <<>>, NEW n \in Int, Slice(n), n \in 0 .. Rest,
         <<Tail(prog), Rest - n, num>> \in Safe
  PROVE  CodecInv'
<1>1. Rest \in Nat /\ Rest = body.len - off /\ off \in Nat /\ body.len \in Nat
  BY RunningFine DEF CodecInv
<1>2. Goon /\ off' = off + n /\ num' = num
  BY <1>1 DEF Slice
<1>3. off' \in 0 .. body.len /\ body.len - off' = Rest - n
  BY <1>1, <1>2
<1> QED
  BY <1>2, <1>3, GoonInv

\* The slices of a fixed, a read and a remaining length.
LEMMA AdvanceInv ==
  ASSUME CodecInv, verdict = "parse", prog # <<>>, Advance
  PROVE  CodecInv'
<1>1. Fine(Safe, Op, Tail(prog), Rest, num) /\ Rest \in Nat /\ num \in Nat
  BY RunningFine
<1>2. CASE Op[1] = "take" /\ Slice(Op[2])
  <2>1. Op[2] \in 0 .. Rest /\ <<Tail(prog), Rest - Op[2], num>> \in Safe /\ Op[2] \in Int
    BY <1>1, <1>2 DEF Fine
  <2> QED
    BY <1>2, <2>1, SliceInv
<1>3. CASE Op[1] = "takeNum" /\ Slice(num)
  <2>1. num \in 0 .. Rest /\ <<Tail(prog), Rest - num, num>> \in Safe /\ num \in Int
    BY <1>1, <1>3 DEF Fine
  <2> QED
    BY <1>3, <2>1, SliceInv
<1>4. CASE Op[1] = "takeBut" /\ Slice(Rest - Op[2])
  <2>1. Op[2] \in 0 .. Rest /\ <<Tail(prog), Op[2], num>> \in Safe
    BY <1>1, <1>4 DEF Fine
  <2>2. Rest - Op[2] \in 0 .. Rest /\ Rest - (Rest - Op[2]) = Op[2] /\ Rest - Op[2] \in Int
    BY <1>1, <2>1
  <2> QED
    BY <1>4, <2>1, <2>2, SliceInv
<1> QED
  BY <1>2, <1>3, <1>4 DEF Advance

\* Reading w bytes that are there leaves the number it reads.
LEMMA ReadInv ==
  ASSUME CodecInv, verdict = "parse", prog # <<>>, NEW w \in Nat, w <= Rest, Goon,
         off' = off + w, <<Tail(prog), Rest - w, num'>> \in Safe
  PROVE  CodecInv'
<1>1. Rest \in Nat /\ Rest = body.len - off /\ off \in Nat /\ body.len \in Nat
  BY RunningFine DEF CodecInv
<1>2. off' \in 0 .. body.len /\ body.len - off' = Rest - w
  BY <1>1
<1> QED
  BY <1>2, GoonInv

\* The magic.
LEMMA ReadMagicInv ==
  ASSUME CodecInv, verdict = "parse", prog # <<>>, ReadMagic
  PROVE  CodecInv'
<1>1. Op[1] = "magic" /\ Rest \in Nat /\ Rest >= 7 /\ <<Tail(prog), Rest - 7, num>> \in Safe
  BY RunningFine DEF ReadMagic, Fine
<1>2. ~(Rest < 7)
  BY <1>1
<1>3. \/ Stop("err")
      \/ Goon /\ off' = off + 7 /\ num' = num
  BY <1>1, <1>2 DEF ReadMagic
<1> QED
  BY <1>1, <1>3, ReadInv, StopInv

\* The key that must have signed.
LEMMA ReadKeyInv ==
  ASSUME CodecInv, verdict = "parse", prog # <<>>, ReadKey
  PROVE  CodecInv'
<1>1. Op[1] = "key" /\ Rest \in Nat /\ Rest >= 32 /\ <<Tail(prog), Rest - 32, num>> \in Safe
  BY RunningFine DEF ReadKey, Fine
<1>2. ~(Rest < 32)
  BY <1>1
<1>3. Goon /\ off' = off + 32 /\ num' = num
  BY <1>2 DEF ReadKey
<1> QED
  BY <1>1, <1>3, ReadInv

\* A time stamp.
LEMMA ReadStampInv ==
  ASSUME CodecInv, verdict = "parse", prog # <<>>, ReadStamp
  PROVE  CodecInv'
<1>1. Op[1] = "stamp" /\ Rest \in Nat /\ Rest >= 8 /\ <<Tail(prog), Rest - 8, num>> \in Safe
  BY RunningFine DEF ReadStamp, Fine
<1>2. ~(Rest < 8)
  BY <1>1
<1>3. Goon /\ off' = off + 8 /\ num' = num
  BY <1>2 DEF ReadStamp
<1> QED
  BY <1>1, <1>3, ReadInv

\* A number, and the length of a subject.
LEMMA ReadNumInv ==
  ASSUME CodecInv, verdict = "parse", prog # <<>>, ReadNum
  PROVE  CodecInv'
<1>1. Rest \in Nat /\ Fine(Safe, Op, Tail(prog), Rest, num)
  BY RunningFine
<1> DEFINE w == IF Op[1] = "num" THEN Op[2] ELSE 1
           l == IF Op[1] = "num" THEN Op[3] ELSE 1
           h == IF Op[1] = "num" THEN Op[4] ELSE SubjectMax(num)
<1>2. /\ Op[1] \in {"num", "subject"}
      /\ IF Rest < w THEN Stop("panic")
         ELSE \E n \in ValuesAt(w, l, h) :
                 IF n \notin l .. h THEN Stop("err")
                 ELSE Goon /\ off' = off + w /\ num' = n /\ UNCHANGED <<keyAt, far>>
  BY DEF ReadNum
<1>3. w \in Nat /\ w <= Rest /\ \A m \in l .. h : <<Tail(prog), Rest - w, m>> \in Safe
  <2>1. CASE Op[1] = "num"
    BY <1>1, <2>1 DEF Fine
  <2>2. CASE Op[1] = "subject"
    BY <1>1, <2>2 DEF Fine
  <2> QED
    BY <1>2, <2>1, <2>2
<1> HIDE DEF w, l, h
<1>4. ~(Rest < w)
  BY <1>1, <1>3
<1>5. PICK n \in ValuesAt(w, l, h) :
         IF n \notin l .. h THEN Stop("err")
         ELSE Goon /\ off' = off + w /\ num' = n /\ UNCHANGED <<keyAt, far>>
  BY <1>2, <1>4
<1>6. CASE n \notin l .. h
  BY <1>5, <1>6, StopInv
<1>7. CASE n \in l .. h
  <2>1. Goon /\ off' = off + w /\ num' = n
    BY <1>5, <1>7
  <2>2. <<Tail(prog), Rest - w, num'>> \in Safe
    BY <1>3, <1>7, <2>1
  <2> QED
    BY <1>3, <2>1, <2>2, ReadInv
<1> QED
  BY <1>6, <1>7

\* The loops over nodes and entries, and the versions that may be left out.
LEMMA UnrollInv ==
  ASSUME CodecInv, verdict = "parse", prog # <<>>, Unroll
  PROVE  CodecInv'
<1>1. Rest = body.len - off /\ Fine(Safe, Op, Tail(prog), Rest, num)
  BY RunningFine
<1>2. UNCHANGED <<body, reader, off, num, keyAt, far, verdict>>
  BY DEF Unroll
<1>3. <<prog', Rest, num>> \in Safe
  <2>1. CASE Op[1] = "repeat" /\ prog' = << <<"loop", num, Op[2]>> >> \o Tail(prog)
    BY <1>1, <2>1 DEF Fine
  <2>2. CASE /\ Op[1] = "loop"
             /\ prog' = (IF Op[2] = 0 THEN <<>> ELSE Op[3] \o << <<"loop", Op[2] - 1, Op[3]>> >>)
                        \o Tail(prog)
    BY <1>1, <2>2 DEF Fine
  <2>3. CASE Op[1] = "ifMore" /\ prog' = (IF Rest > 0 THEN Op[2] ELSE <<>>) \o Tail(prog)
    BY <1>1, <2>3 DEF Fine
  <2> QED
    BY <2>1, <2>2, <2>3 DEF Unroll
<1> QED
  BY <1>1, <1>2, <1>3 DEF CodecInv

\* A parser that runs to its end has read the whole body.
LEMMA ParsedInv ==
  ASSUME CodecInv, Parsed
  PROVE  CodecInv'
<1>1. /\ verdict = "parse" /\ prog = <<>> /\ verdict' = "parsed"
      /\ UNCHANGED <<body, reader, prog, off, num, keyAt, far>>
  BY DEF Parsed
<1>2. <<prog, body.len - off, num>> \in Safe /\ body.len \in Nat /\ off \in 0 .. body.len
  BY <1>1 DEF CodecInv
<1>3. prog \in Progs /\ body.len - off \in Nat /\ num \in Nat
  BY <1>2 DEF Safe, Configs
<1>4. body.len - off = 0
  BY <1>1, <1>2, <1>3, SafeClosed DEF Closed
<1>5. off = body.len
  BY <1>2, <1>4
<1> QED
  BY <1>1, <1>5 DEF CodecInv

\* The verifier reads no more bytes.
LEMMA VerifyInv ==
  ASSUME CodecInv, NEW now \in Clock, NEW wanted \in BOOLEAN, Verify(now, wanted)
  PROVE  CodecInv'
<1>1. /\ verdict = "parsed" /\ verdict' \in {"accept", "reject", "unwanted"}
      /\ UNCHANGED <<body, reader, prog, off, keyAt, far>>
  BY DEF Verify
<1> QED
  BY <1>1 DEF CodecInv

\* Every step keeps the invariant.
LEMMA StepInv ==
  ASSUME Naturals, CodecInv, [CodecNext]_codec_vars
  PROVE  CodecInv'
<1>1. ASSUME Parse PROVE CodecInv'
  BY <1>1, RequireInv, InspectInv, AdvanceInv, ReadMagicInv, ReadKeyInv, ReadStampInv, ReadNumInv,
     UnrollInv DEF Parse
<1>2. CASE UNCHANGED codec_vars
  BY <1>2 DEF codec_vars, CodecInv
<1> QED
  BY <1>1, <1>2, EncodeInv, ReadAsInv, ArriveInv, ParsedInv, VerifyInv DEF CodecNext

\* A record that parses has been read to its last byte, and no parser indexes
\* a byte that is not there: for bodies of any length and content, fields of any
\* length and any number of nodes, entries and versions.
THEOREM WholeBodyHolds == CodecSpec => []WholeBody
<1>0. Naturals
  BY CodecAssumption DEF Naturals
<1>1. CodecInit => CodecInv
  BY InitInv
<1>2. CodecInv /\ [CodecNext]_codec_vars => CodecInv'
  BY <1>0, StepInv
<1>3. CodecInv => WholeBody
  BY DEF CodecInv, WholeBody
<1> QED
  BY <1>1, <1>2, <1>3, PTL DEF CodecSpec

=============================================================================
