---------------------------- MODULE RecordCodec ----------------------------
(***************************************************************************)
(* The signed TXT records of dnsmesh-core: how each kind of record lays    *)
(* out its body, what its parser checks and in which order, and when a     *)
(* verifier accepts it.                                                    *)
(*                                                                         *)
(* A parser is a program: the checks, reads and slices its                 *)
(* from_body_bytes makes, in its order.  Running it over a body moves a    *)
(* cursor; a slice past the end of the body is a panic.  A body is its     *)
(* length and the value of its structural bytes (length bytes, counts, the *)
(* first byte of a magic or of a time stamp); reading any other byte gives *)
(* an arbitrary value.  A body comes from the encoder of some kind, or is  *)
(* arbitrary.  The TXT prefix, which names the kind, is not signed, so     *)
(* any body may meet any parser.                                           *)
(*                                                                         *)
(* Lengths and offsets are the code's.  Names, keys, signatures and JSON   *)
(* are their lengths; the syntax of a name or an URL is one check that an  *)
(* encoded body passes and an arbitrary one may fail.                      *)
(***************************************************************************)
EXTENDS Integers, Sequences

CONSTANTS
    Lengths,   \* lengths that variable fields are given, within their limits
    Counts,    \* numbers of nodes or entries
    BodyLens,  \* lengths of arbitrary bodies
    Skew,      \* clock skew a verifier tolerates
    Clock      \* readings of a verifier's clock

\* Lengths and counts are naturals, as every usize and u8 of the code is.
ASSUME CodecAssumption ==
    Lengths \subseteq Nat /\ Counts \subseteq Nat /\ BodyLens \subseteq Nat

VARIABLES
    body,     \* [src, len, known, magic, key]: see Assemble
    reader,   \* the kind whose parser reads the body
    prog,     \* what the parser still has to do
    off,      \* its cursor
    num,      \* the number it read last
    keyAt,    \* where it found the key that must have signed, or Nowhere
    far,      \* the time stamp read is beyond any clock (first byte not 0)
    verdict   \* "none", "parse", "parsed", "err", "panic", "accept", "reject", "unwanted"

codec_vars == <<body, reader, prog, off, num, keyAt, far, verdict>>

Kinds == {"heartbeat", "cluster", "bootstrap", "identity", "claim", "rotation",
          "revocation", "prekey", "manifest", "message", "encrypted"}
Signed == Kinds \ {"message", "encrypted"}

Nowhere == -1

---------------------------------------------------------------------------
(***************************************************************************)
(* Parsers.                                                                *)
(*   <<"magic", m>>     Err unless it opens with this magic (7 bytes)      *)
(*   <<"num", w, l, h>> read a w-byte number, Err unless in l .. h         *)
(*   <<"subject">>      the same for a subject length, whose limit depends *)
(*                      on the subject type read before it                 *)
(*   <<"room", n>>      Err unless n bytes are left                        *)
(*   <<"roomNum", n>>   Err unless the number read and n bytes are left    *)
(*   <<"dotted", h>>    Err unless it is in 1 .. h, a final dot not counted *)
(*   <<"left", n>>      Err unless exactly n bytes are left                *)
(*   <<"leftNum">>      Err unless exactly the number read is left         *)
(*   <<"take", n>>, <<"takeNum">>, <<"takeBut", n>>  slice off bytes       *)
(*   <<"key">>          slice off the key that must have signed            *)
(*   <<"stamp">>        slice off an 8-byte time stamp                     *)
(*   <<"shape">>        Err on bad UTF-8, syntax, duplicates, exp <= ts    *)
(*   <<"repeat", p>>    run p as often as the number read                  *)
(*   <<"loop", n, p>>   run p n more times                                 *)
(*   <<"ifMore", p>>    run p if bytes are left                            *)
(*   <<"end">>          Err on trailing bytes                              *)
(***************************************************************************)

Sized(w, l, h) == << <<"room", w>>, <<"num", w, l, h>>, <<"roomNum", 0>>, <<"takeNum">> >>

\* Zone names and cluster names: the room is checked before the limit, and a
\* trailing dot is not counted.
DottedName == << <<"num", 1, 0, 255>>, <<"roomNum", 0>>, <<"dotted", 64>>, <<"takeNum">> >>

HeartbeatTail == << <<"room", 16>>, <<"stamp">>, <<"take", 8>>, <<"end">>, <<"shape">> >>

\* Mutant of HeartbeatBody: the version bytes are sliced unchecked.
HeartbeatUnchecked(legacy) ==
    << <<"room", 9>>, <<"magic", IF legacy THEN "HB02" ELSE "HB03">>, <<"num", 2, 1, 255>>,
       <<"roomNum", 0>>, <<"takeNum">>, <<"room", 32>>, <<"key">>,
       <<"room", 1>>, <<"num", 1, 0, 32>>, <<"takeNum">>, <<"room", 2>>, <<"take", 2>> >>
    \o (IF legacy THEN <<>> ELSE Sized(1, 0, 64))
    \o HeartbeatTail

\* Version 2 bodies have no claim_provider_zone.
HeartbeatBody(legacy) ==
    << <<"room", 9>>, <<"magic", IF legacy THEN "HB02" ELSE "HB03">>, <<"num", 2, 1, 255>>,
       <<"roomNum", 0>>, <<"takeNum">>, <<"room", 32>>, <<"key">> >>
    \o Sized(1, 0, 32)
    \o << <<"room", 2>>, <<"take", 2>> >>
    \o (IF legacy THEN <<>> ELSE Sized(1, 0, 64))
    \o HeartbeatTail

ClusterNodeBody == Sized(1, 1, 16) \o Sized(2, 1, 128) \o Sized(2, 0, 64)

ClusterBody ==
    << <<"room", 56>>, <<"magic", "CL01">>, <<"take", 8>>, <<"take", 8>>, <<"key">> >>
    \o DottedName
    \o << <<"room", 1>>, <<"num", 1, 0, 32>>, <<"repeat", ClusterNodeBody>>,
          <<"shape">>, <<"end">> >>

BootstrapEntryBody ==
    << <<"room", 3>>, <<"take", 2>> >> \o DottedName
    \o << <<"room", 32>>, <<"take", 32>>, <<"shape">> >>

BootstrapBody ==
    << <<"room", 56>>, <<"magic", "BS01">>, <<"take", 8>>, <<"take", 8>>, <<"key">> >>
    \o DottedName
    \o << <<"room", 1>>, <<"num", 1, 1, 16>>, <<"repeat", BootstrapEntryBody>>,
          <<"shape">>, <<"end">> >>

\* Version 1 bodies end at the time stamp; later ones list their versions.
IdentityVersions == << <<"num", 1, 1, 255>>, <<"leftNum">>, <<"takeNum">> >>

IdentityBody ==
    << <<"room", 74>>, <<"num", 1, 1, 64>>, <<"roomNum", 72>>, <<"takeNum">>,
       <<"take", 32>>, <<"key">>, <<"stamp">>, <<"ifMore", IdentityVersions>>, <<"shape">> >>

\* Mutant of ClaimBody: limit off by one.
ClaimTight ==
    << <<"room", 74>>, <<"magic", "CL01">>, <<"take", 16>>, <<"key">>, <<"num", 1, 1, 42>>,
       <<"roomNum", 0>>, <<"takeNum">>, <<"room", 1>>, <<"num", 1, 0, 9>>,
       <<"room", 16>>, <<"stamp">>, <<"take", 8>>, <<"end">>, <<"shape">> >>

ClaimBody ==
    << <<"room", 74>>, <<"magic", "CL01">>, <<"take", 16>>, <<"key">>, <<"num", 1, 1, 43>>,
       <<"roomNum", 0>>, <<"takeNum">>, <<"room", 1>>, <<"num", 1, 0, 9>>,
       <<"room", 16>>, <<"stamp">>, <<"take", 8>>, <<"end">>, <<"shape">> >>

RotationBody ==
    << <<"room", 97>>, <<"magic", "ROT1">>, <<"num", 1, 1, 3>>, <<"subject">>,
       <<"roomNum", 0>>, <<"takeNum">>, <<"left", 88>>, <<"key">>, <<"take", 32>>,
       <<"take", 8>>, <<"stamp">>, <<"take", 8>>, <<"shape">> >>

RevocationBody ==
    << <<"room", 50>>, <<"magic", "RV01">>, <<"num", 1, 1, 3>>, <<"subject">>,
       <<"roomNum", 0>>, <<"takeNum">>, <<"left", 41>>, <<"key">>, <<"num", 1, 1, 4>>,
       <<"stamp">>, <<"shape">> >>

\* The signer of a prekey is not in the record: the verifier knows it.
PrekeyBody == << <<"left", 44>>, <<"take", 4>>, <<"take", 32>>, <<"take", 8>> >>

ManifestBody ==
    << <<"left", 108>>, <<"take", 16>>, <<"key">>, <<"take", 32>>, <<"take", 12>>,
       <<"stamp">>, <<"take", 8>>, <<"shape">> >>

\* DMPMessage: a JSON header, the payload, and 32 bytes of signature.
MessageBody ==
    << <<"room", 34>>, <<"num", 2, 0, 65535>>, <<"roomNum", 32>>, <<"takeNum">>,
       <<"shape">>, <<"takeBut", 32>>, <<"take", 32>> >>

EncryptedBody == << <<"room", 44>>, <<"take", 32>>, <<"take", 12>>, <<"takeBut", 0>> >>

---------------------------------------------------------------------------
(***************************************************************************)
(* Encoders: to_body_bytes as the sequence of parts it writes.             *)
(***************************************************************************)

Sizes(l, h) == {n \in Lengths : l <= n /\ n <= h} \cup {l, h}

Part(w, n) == << <<"num", w, n>>, <<"raw", n>> >>

HeartbeatParts ==
    { << <<"magic", "HB03">> >> \o Part(2, e) \o << <<"key">> >> \o Part(1, v)
      \o << <<"raw", 2>> >> \o Part(1, z) \o << <<"stamp">>, <<"stamp">> >> :
        e \in Sizes(1, 255), v \in Sizes(0, 32), z \in Sizes(0, 64) }

\* What older nodes publish.
LegacyParts ==
    { << <<"magic", "HB02">> >> \o Part(2, e) \o << <<"key">> >> \o Part(1, v)
      \o << <<"raw", 2>>, <<"stamp">>, <<"stamp">> >> :
        e \in Sizes(1, 255), v \in Sizes(0, 32) }

\* Sequence p, n times over.
Repeated(n, p) == [i \in 1 .. n * Len(p) |-> p[((i - 1) % Len(p)) + 1]]

ClusterNodeParts == { Part(1, i) \o Part(2, h) \o Part(2, d) :
        i \in Sizes(1, 16), h \in Sizes(1, 128), d \in Sizes(0, 64) }

ClusterParts ==
    { << <<"magic", "CL01">>, <<"raw", 8>>, <<"stamp">>, <<"key">> >> \o Part(1, n)
      \o << <<"num", 1, c>> >> \o Repeated(c, p) :
        n \in Sizes(1, 64), c \in Counts, p \in ClusterNodeParts }

BootstrapEntryParts == { << <<"raw", 2>> >> \o Part(1, b) \o << <<"raw", 32>> >> :
        b \in Sizes(1, 64) }

BootstrapParts ==
    { << <<"magic", "BS01">>, <<"raw", 8>>, <<"stamp">>, <<"key">> >> \o Part(1, n)
      \o << <<"num", 1, c>> >> \o Repeated(c, p) :
        n \in Sizes(1, 64), c \in Counts, p \in BootstrapEntryParts }

\* The version list [1] is left out.
IdentityParts ==
    { Part(1, n) \o << <<"raw", 32>>, <<"key">>, <<"stamp">> >>
      \o (IF v = 0 THEN <<>> ELSE Part(1, v)) :
        n \in Sizes(1, 64), v \in Sizes(0, 255) }

MaxMailboxDomain == 43

ClaimParts ==
    { << <<"magic", "CL01">>, <<"raw", 16>>, <<"key">> >> \o Part(1, n)
      \o << <<"num", 1, s>>, <<"stamp">>, <<"stamp">> >> :
        n \in Sizes(1, MaxMailboxDomain), s \in Sizes(0, 9) }

SubjectMax(t) == IF t = 1 THEN 255 ELSE 64

RotationParts == UNION {
    { << <<"magic", "ROT1">>, <<"num", 1, t>> >> \o Part(1, n)
      \o << <<"key">>, <<"raw", 32>>, <<"raw", 8>>, <<"stamp">>, <<"stamp">> >> :
        n \in Sizes(1, SubjectMax(t)) } : t \in 1 .. 3 }

RevocationParts == UNION {
    { << <<"magic", "RV01">>, <<"num", 1, t>> >> \o Part(1, n)
      \o << <<"key">>, <<"num", 1, r>>, <<"stamp">> >> :
        n \in Sizes(1, SubjectMax(t)), r \in {1, 4} } : t \in 1 .. 3 }

PrekeyParts    == { << <<"raw", 4>>, <<"raw", 32>>, <<"stamp">> >> }
ManifestParts  == { << <<"raw", 16>>, <<"key">>, <<"raw", 44>>, <<"stamp">>, <<"stamp">> >> }
\* The JSON header: ids in hex, a type name and numbers.
HeaderSizes    == Sizes(254, 308)
MessageParts   == { Part(2, h) \o << <<"raw", p>>, <<"raw", 32>> >> :
                        h \in HeaderSizes, p \in Sizes(0, 255) }
EncryptedParts == { << <<"raw", 44>>, <<"raw", c>> >> : c \in Sizes(16, 255) }

Parts(k) ==
    CASE k = "heartbeat"  -> HeartbeatParts \cup LegacyParts
      [] k = "cluster"    -> ClusterParts
      [] k = "bootstrap"  -> BootstrapParts
      [] k = "identity"   -> IdentityParts
      [] k = "claim"      -> ClaimParts
      [] k = "rotation"   -> RotationParts
      [] k = "revocation" -> RevocationParts
      [] k = "prekey"     -> PrekeyParts
      [] k = "manifest"   -> ManifestParts
      [] k = "message"    -> MessageParts
      [] k = "encrypted"  -> EncryptedParts

\* Bytes are big-endian; "D" is 68; a time stamp starts with a zero byte.
Append1(b, p) ==
    LET n == b.len IN
    CASE p[1] = "magic" -> [b EXCEPT !.len = n + 7, !.magic = p[2], !.known = @ \cup {<<n, 68>>}]
      [] p[1] = "raw"   -> [b EXCEPT !.len = n + p[2]]
      [] p[1] = "key"   -> [b EXCEPT !.len = n + 32, !.key = n]
      [] p[1] = "stamp" -> [b EXCEPT !.len = n + 8, !.known = @ \cup {<<n, 0>>}]
      [] p[1] = "num" /\ p[2] = 1 -> [b EXCEPT !.len = n + 1, !.known = @ \cup {<<n, p[3]>>}]
      [] p[1] = "num" /\ p[2] = 2 -> [b EXCEPT !.len = n + 2, !.known = @ \cup
                                        {<<n, p[3] \div 256>>, <<n + 1, p[3] % 256>>}]

Blank(k) == [src |-> k, len |-> 0, known |-> {}, magic |-> "none", key |-> Nowhere]

Assemble(k, ps) ==
    LET first[n \in 0 .. Len(ps)] ==
            IF n = 0 THEN Blank(k) ELSE Append1(first[n - 1], ps[n])
    IN  first[Len(ps)]

\* sign: the body and its signatures in base64 behind the prefix of the kind.
Prefix(k) == CASE k \in {"heartbeat", "bootstrap"} -> 19
               [] k \in {"identity", "revocation", "manifest"} -> 20
               [] k \in {"rotation", "prekey"} -> 18
               [] k = "cluster" -> 17
               [] k = "claim" -> 15

Base64(n) == 4 * ((n + 2) \div 3)

WireLen(k, n) == Prefix(k) + Base64(n + IF k = "rotation" THEN 128 ELSE 64)

MaxWire(k) == IF k = "claim" THEN 255 ELSE 1200

\* The kinds with a limit, and those of them whose fields cannot exceed it:
\* cluster and bootstrap records can be too long for sign().
Limited == {"heartbeat", "cluster", "bootstrap", "claim", "rotation", "revocation"}
Fitting == Limited \ {"cluster", "bootstrap"}

---------------------------------------------------------------------------
CodecInit ==
    /\ body = Blank("none") /\ reader = "none" /\ prog = <<>> /\ off = 0
    /\ num = 0 /\ keyAt = Nowhere /\ far = FALSE /\ verdict = "none"

\* A body comes into being, from an encoder or from anywhere.
Encode(k) ==
    /\ body.src = "none"
    /\ \E ps \in Parts(k) : body' = Assemble(k, ps)
    /\ UNCHANGED <<reader, prog, off, num, keyAt, far, verdict>>

Arrive(n) ==
    /\ body.src = "none"
    /\ body' = [Blank("any") EXCEPT !.len = n, !.magic = "any"]
    /\ UNCHANGED <<reader, prog, off, num, keyAt, far, verdict>>

Program(k) ==
    CASE k = "heartbeat"  -> {HeartbeatBody(FALSE), HeartbeatBody(TRUE)}
      [] k = "cluster"    -> {ClusterBody}
      [] k = "bootstrap"  -> {BootstrapBody}
      [] k = "identity"   -> {IdentityBody}
      [] k = "claim"      -> {ClaimBody}
      [] k = "rotation"   -> {RotationBody}
      [] k = "revocation" -> {RevocationBody}
      [] k = "prekey"     -> {PrekeyBody}
      [] k = "manifest"   -> {ManifestBody}
      [] k = "message"    -> {MessageBody}
      [] k = "encrypted"  -> {EncryptedBody}

\* The heartbeat parser takes its two layouts apart by the magic.
Suits(p) == Len(p) > 1 /\ p[2][1] = "magic" /\ body.magic \in {"HB02", "HB03"}
                => p[2][2] = body.magic

\* parse_and_verify of kind k looks at the body: a signed record that is too
\* long was never signed, and is dropped.
ReadAs(k) ==
    /\ body.src # "none" /\ reader = "none"
    /\ body.src \in Signed => k \in Signed
    /\ body.src \in Limited => WireLen(body.src, body.len) <= MaxWire(body.src)
    /\ body.src \in Kinds \ Signed => k = body.src
    /\ reader' = k /\ verdict' = "parse"
    /\ \E p \in Program(k) : (k = "heartbeat" => Suits(p)) /\ prog' = p
    /\ UNCHANGED <<body, off, num, keyAt, far>>

Rest == body.len - off
Op   == Head(prog)

\* The values the w bytes at the cursor can have: the ones written there, or
\* any; the limits l and h and what is left of the body tell them apart.
ValuesAt(w, l, h) ==
    LET at(i) == {x[2] : x \in {y \in body.known : y[1] = off + i}}
        any == {0, 1, l, h, h + 1, Rest - w - 1, Rest - w, Rest - w + 1, 256^w - 1}
               \cap (0 .. 256^w - 1)
    IN CASE w = 1 /\ at(0) # {} -> at(0)
         [] w = 2 /\ at(0) # {} /\ at(1) # {} ->
              {256 * x + y : x \in at(0), y \in at(1)}
         [] OTHER -> any

Goon     == prog' = Tail(prog) /\ UNCHANGED <<verdict, reader, body>>
Stop(v)  == /\ verdict' = v /\ prog' = <<>>
            /\ UNCHANGED <<reader, body, off, num, keyAt, far>>
Test(ok) == IF ok THEN Goon /\ UNCHANGED <<off, num, keyAt, far>> ELSE Stop("err")

\* A check of a length.
Require ==
    \/ Op[1] = "room"    /\ Test(Rest >= Op[2])
    \/ Op[1] = "roomNum" /\ Test(Rest >= num + Op[2])
    \/ Op[1] = "left"    /\ Test(Rest = Op[2])
    \/ Op[1] = "leftNum" /\ Test(Rest = num)
    \/ Op[1] = "end"     /\ Test(Rest = 0)

\* A check of content: what an encoder of this kind writes passes.
Inspect ==
    \/ /\ Op[1] = "shape"
       /\ \E ok \in IF body.src = reader THEN {TRUE} ELSE BOOLEAN : Test(ok)
    \/ /\ Op[1] = "dotted"
       /\ \E dot \in IF body.src = reader \/ num = 0 THEN {0} ELSE {0, 1} :
            Test(num - dot \in 1 .. Op[2])

\* Slicing n bytes off: a panic if they are not there.
Slice(n) == IF Rest < n \/ n < 0 THEN Stop("panic")
            ELSE Goon /\ off' = off + n /\ UNCHANGED <<num, keyAt, far>>

Advance ==
    \/ Op[1] = "take"    /\ Slice(Op[2])
    \/ Op[1] = "takeNum" /\ Slice(num)
    \/ Op[1] = "takeBut" /\ Slice(Rest - Op[2])

ReadMagic ==
    /\ Op[1] = "magic"
    /\ CASE Rest < 7 -> Stop("panic")
         [] body.magic \in {Op[2], "any"} ->
              Goon /\ off' = off + 7 /\ UNCHANGED <<num, keyAt, far>>
         [] OTHER -> Stop("err")

ReadKey ==
    /\ Op[1] = "key"
    /\ IF Rest < 32 THEN Stop("panic")
       ELSE Goon /\ off' = off + 32 /\ keyAt' = off /\ UNCHANGED <<num, far>>

ReadStamp ==
    /\ Op[1] = "stamp"
    /\ IF Rest < 8 THEN Stop("panic")
       ELSE /\ Goon /\ off' = off + 8 /\ UNCHANGED <<num, keyAt>>
            /\ \E first \in ValuesAt(1, 0, 0) : far' = (first # 0)

ReadNum ==
    /\ Op[1] \in {"num", "subject"}
    /\ LET w == IF Op[1] = "num" THEN Op[2] ELSE 1
           l == IF Op[1] = "num" THEN Op[3] ELSE 1
           h == IF Op[1] = "num" THEN Op[4] ELSE SubjectMax(num)
       IN IF Rest < w THEN Stop("panic")
          ELSE \E n \in ValuesAt(w, l, h) :
                 IF n \notin l .. h THEN Stop("err")
                 ELSE Goon /\ off' = off + w /\ num' = n /\ UNCHANGED <<keyAt, far>>

\* The loop over nodes or entries, and the optional suffix.  Longer loops than
\* Counts has are left out.
Unroll ==
    \/ /\ Op[1] = "repeat" /\ num \in Counts \cup {0}
       /\ prog' = << <<"loop", num, Op[2]>> >> \o Tail(prog)
       /\ UNCHANGED <<body, reader, off, num, keyAt, far, verdict>>
    \/ /\ Op[1] = "loop"
       /\ prog' = (IF Op[2] = 0 THEN <<>> ELSE Op[3] \o << <<"loop", Op[2] - 1, Op[3]>> >>)
                  \o Tail(prog)
       /\ UNCHANGED <<body, reader, off, num, keyAt, far, verdict>>
    \/ /\ Op[1] = "ifMore"
       /\ prog' = (IF Rest > 0 THEN Op[2] ELSE <<>>) \o Tail(prog)
       /\ UNCHANGED <<body, reader, off, num, keyAt, far, verdict>>

Parsed ==
    /\ verdict = "parse" /\ prog = <<>>
    /\ verdict' = "parsed"
    /\ UNCHANGED <<body, reader, prog, off, num, keyAt, far>>

---------------------------------------------------------------------------
(***************************************************************************)
(* Verification.  An encoded record is stamped Ts and expires at Exp; its  *)
(* signature holds under the key its encoder wrote, so a parser that looks *)
(* for the key elsewhere finds one it does not hold under.                 *)
(***************************************************************************)

Ts  == 2
Exp == 4

SigOk == \/ keyAt = body.key
         \/ reader = "prekey"

HeartbeatFresh(now)  == ~far /\ now - Ts <= Skew /\ Ts - now <= Skew /\ Exp > now

\* Mutant of ClaimFresh: no look at the time stamp.
ClaimUnstamped(now)  == Exp > now
ClaimFresh(now)      == ~far /\ Ts - now <= Skew /\ Exp > now
ClusterFresh(now)    == Exp >= now
BootstrapFresh(now)  == Exp >= now
RotationFresh(now)   == Exp >= now
RevocationFresh(now) == ~far /\ Ts - now <= Skew

Fresh(now) == CASE reader = "heartbeat" -> HeartbeatFresh(now)
                [] reader = "claim" -> ClaimFresh(now)
                [] reader = "cluster" -> ClusterFresh(now)
                [] reader = "bootstrap" -> BootstrapFresh(now)
                [] reader = "rotation" -> RotationFresh(now)
                [] reader = "revocation" -> RevocationFresh(now)
                [] OTHER -> TRUE

\* Arbitrary bodies end at the parser: whoever writes them signs them.  A record
\* is not wanted if its key is of low order, or if its key, subject, user domain
\* or age is not what the caller asks for.
Verify(now, wanted) ==
    /\ verdict = "parsed" /\ body.src \in Signed
    /\ verdict' = IF ~wanted THEN "unwanted"
                  ELSE IF SigOk /\ Fresh(now) THEN "accept" ELSE "reject"
    /\ num' = now   \* kept for RoundTrip
    /\ UNCHANGED <<body, reader, prog, off, keyAt, far>>

Parse == /\ verdict = "parse" /\ prog # <<>>
         /\ (Require \/ Inspect \/ Advance \/ ReadMagic \/ ReadKey \/ ReadStamp
                \/ ReadNum \/ Unroll)

CodecNext ==
    \/ \E k \in Kinds : Encode(k) \/ ReadAs(k)
    \/ \E n \in BodyLens : Arrive(n)
    \/ Parse
    \/ Parsed
    \/ \E now \in Clock, wanted \in BOOLEAN : Verify(now, wanted)

CodecSpec == CodecInit /\ [][CodecNext]_codec_vars

---------------------------------------------------------------------------
\* No body of any length and content makes a parser slice past its end (the
\* "Never panics" contract of the from_body_bytes and parse_and_verify docs),
\* and none leaves bytes unread, so that what was signed is what was understood.
WholeBody ==
    /\ verdict # "panic" /\ off \in 0 .. body.len
    /\ verdict \in {"parsed", "accept", "reject", "unwanted"} => off = body.len

\* What an encoder writes within its own limits fits the wire form, so that
\* sign() cannot fail on it late (claim.rs:65-71: 43 from 255), and the parser of
\* the kind reads it and its verifier accepts it for a reader who wants it, from
\* the time stamp until before the expiry; a heartbeat as long as the stamp is
\* within the skew.
RoundTrip ==
    /\ body.src \in Fitting => WireLen(body.src, body.len) <= MaxWire(body.src)
    /\ body.src = reader =>
        /\ verdict \notin {"err", "panic"}
        /\ verdict = "reject" => ~(num >= Ts /\ num < Exp
                                     /\ (reader = "heartbeat" => num - Ts <= Skew))

\* A record signed as one kind is never accepted as another, though the prefix
\* that names the kind is not signed and cluster and claim bodies share their
\* magic and their first 56 bytes (cluster.rs:44, claim.rs:57-60).
KindsApart == verdict = "accept" => body.src = reader

=============================================================================
