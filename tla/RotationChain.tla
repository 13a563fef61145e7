--------------------------- MODULE RotationChain ---------------------------
(***************************************************************************)
(* One user who rotates and revokes signing keys, and a contact who pinned *)
(* one of them and follows the published records.                          *)
(*                                                                         *)
(* rotate_identity() publishes up to three records with an await before    *)
(* each; any of them can be refused, or land while its answer is lost.     *)
(* The contact reads two RRset names, one after the other, and then walks  *)
(* the rotations it got.  The user's passphrases (and so the keys) are     *)
(* chosen by hand for every command, so that commands can run with an old  *)
(* key, rotate back to a used key, or fork the chain.                      *)
(***************************************************************************)
EXTENDS Integers, Sequences, FiniteSets, FiniteSetsExt, SequencesExt

CONSTANTS
  Keys,        \* Ed25519 signing keys of the user
  FirstKey,    \* the key the identity was created with
  None,        \* no trustworthy key
  Forms,       \* RRset name forms the user's clients publish under
  Lifetimes,   \* exp_seconds arguments of rotate_identity
  MaxHops,     \* MAX_ROTATION_HOPS
  HopBounds,   \* hop bounds for which the walk is compared with its definition
  Skew,        \* FUTURE_TS_SKEW_SECONDS
  MaxTime,     \* bound on the clock
  MaxRecords,  \* bound on the rotation records published
  MaxRevs      \* bound on the revocation records published

ASSUME ChainAssumption ==
  /\ FirstKey \in Keys /\ None \notin Keys
  /\ Forms \subseteq {"zone", "hash"}
  /\ Lifetimes \subseteq Nat /\ Skew \in Nat
  /\ HopBounds \subseteq Nat \ {0} /\ MaxHops \in HopBounds
  /\ MaxTime \in Nat /\ MaxRecords \in Nat /\ MaxRevs \in Nat

VARIABLES
  now,
  rots,     \* published RotationRecords [old, new, seq, exp, form]
  revs,     \* published RevocationRecords [spk, ts, form]
  ids,      \* keys with a published IdentityRecord
  job,      \* the rotate_identity() call under way: [step, old, new, ts, form]
  line,     \* history: the keys the user has had, oldest first
  orderly,  \* history: every rotation went from the newest key to a fresh one
            \*   at a later time, or repeated the last one; nothing was revoked
  pc,       \* the contact: "idle", or the name it reads next: "zone", "hash"
  mode,     \*   "walk": resolve_current_spk; "check": is_spk_revoked
  pinned,   \*   the pinned key
  gotRots, gotRevs, \*   the records read so far
  verdict,  \*   the key the last call trusted in the end, or None
  missed,   \* history: names whose lookup failed in this call
  known,    \* history: revocations published when the call began
  tips      \* history: newest keys since the call began

userVars    == <<rots, revs, ids, job, line, orderly>>
contactVars == <<pc, mode, pinned, gotRots, gotRevs, verdict, missed, known>>
vars == <<now, userVars, contactVars, tips>>

Idle        == [step |-> "idle", old |-> FirstKey, new |-> FirstKey, ts |-> 0, form |-> "hash"]

Init ==
  /\ now = 1 /\ rots = {} /\ revs = {} /\ ids = {FirstKey} /\ job = Idle
  /\ line = <<FirstKey>> /\ orderly = TRUE
  /\ pc = "idle" /\ mode = "walk" /\ pinned = FirstKey
  /\ gotRots = {} /\ gotRevs = {} /\ verdict = None
  /\ missed = {} /\ known = {} /\ tips = {}

Had     == Range(line)
Newest  == Last(line)

---------------------------------------------------------------------------
(* The user *)

\* The RotationRecord of a rotate_identity() call: seq is the clock.
Pointer(old, new, life, form) ==
  [old |-> old, new |-> new, seq |-> now, exp |-> now + life, form |-> form]

Advances(old, new) ==
  /\ \A r \in rots : r.seq < now
  /\ \/ old = Newest /\ new \notin Had
     \/ new = Newest /\ \E r \in rots : r.old = old /\ r.new = new

Landed(r) ==
  /\ rots' = rots \cup {r}
  /\ orderly' = (orderly /\ Advances(r.old, r.new))
  /\ line' = IF r.new \in Had THEN line ELSE Append(line, r.new)
  /\ tips' = IF pc = "idle" THEN {} ELSE tips \cup {Last(line')}

\* The load-bearing publish is acknowledged.
Rotate(old, new, life, form, reason) ==
  /\ job.step = "idle" /\ old # new /\ Cardinality(rots) < MaxRecords
  /\ Landed(Pointer(old, new, life, form))
  /\ job' = [step |-> IF reason = "routine" THEN "identity" ELSE "revoke",
             old |-> old, new |-> new, ts |-> now, form |-> form]
  /\ UNCHANGED <<now, revs, ids, contactVars>>

\* PublishFailed or a transport error: the call returns Err, but the record
\* may have landed.  The user does not go on to use the new key.
RotateUnanswered(old, new, life, form) ==
  /\ job.step = "idle" /\ old # new /\ Cardinality(rots) < MaxRecords
  /\ Landed(Pointer(old, new, life, form))
  /\ UNCHANGED <<now, revs, ids, job, contactVars>>

\* The RevocationRecord of a compromise or lost-key rotation: warn on failure.
PublishRevocation ==
  /\ job.step = "revoke"
  /\ \/ /\ Cardinality(revs) < MaxRevs
        /\ revs' = revs \cup {[spk |-> job.old, ts |-> job.ts, form |-> job.form]}
        /\ orderly' = FALSE
     \/ UNCHANGED <<revs, orderly>>
  /\ job' = [job EXCEPT !.step = "identity"]
  /\ UNCHANGED <<now, rots, ids, line, contactVars, tips>>

\* The new key's IdentityRecord, an additive publish: warn on failure.
PublishIdentity ==
  /\ job.step = "identity"
  /\ ids' \in {ids \cup {job.new}, ids}
  /\ job' = Idle
  /\ UNCHANGED <<now, rots, revs, line, orderly, contactVars, tips>>

\* The process dies in the middle of rotate_identity().
RotateDies ==
  /\ job.step # "idle"
  /\ job' = Idle
  /\ UNCHANGED <<now, rots, revs, ids, line, orderly, contactVars, tips>>

\* revoke_identity() with some passphrase; a refused publish changes nothing.
Revoke(k, form) ==
  /\ job.step = "idle" /\ k \in Had /\ Cardinality(revs) < MaxRevs
  /\ revs' = revs \cup {[spk |-> k, ts |-> now, form |-> form]}
  /\ orderly' = FALSE
  /\ UNCHANGED <<now, rots, ids, job, line, contactVars, tips>>

\* The wall clock that seq and exp are taken from moves, either way.
Clock ==
  /\ now' \in {now - 1, now + 1} \cap 1..MaxTime
  /\ UNCHANGED <<userVars, contactVars, tips>>

---------------------------------------------------------------------------
(* resolve_current_spk, over the records that were read *)

\* Mutant of Visible: a record is gone in the second it expires.
VisibleBeforeExp(R) == {r \in R : now < r.exp}

\* RotationRecord::parse_and_verify drops a record with exp < now.
Visible(R) == {r \in R : ~(r.exp < now)}

\* RevocationRecord::parse_and_verify: no expiry, but a record dated further
\* into the future than the skew is dropped.  The keys the others revoke.
Verified(V) == {v.spk : v \in {x \in V : ~(x.ts > now + Skew)}}

\* The state of the walk: st is "go", "end" (the head has no successor) or
\* "abort".
Step(st, head, seen, last) == [st |-> st, head |-> head, seen |-> seen, last |-> last]

\* Mutant of Hop: the next key's revocation is not looked up.
HopIgnoresRevocation(R, V, w) ==
  LET succ == {r \in R : r.old = w.head}
      rot  == CHOOSE r \in succ : \A s \in succ : r.seq <= s.seq
  IN  IF succ = {} THEN [w EXCEPT !.st = "end"]
      ELSE IF \/ \E a, b \in succ : a.new # b.new
              \/ rot.seq <= w.last
              \/ rot.new \in w.seen
      THEN [w EXCEPT !.st = "abort"]
      ELSE Step("go", rot.new, w.seen \cup {rot.new}, rot.seq)

\* Mutant of Hop: the sequence number need not increase.
HopAnySeq(R, V, w) ==
  LET succ == {r \in R : r.old = w.head}
      rot  == CHOOSE r \in succ : \A s \in succ : r.seq <= s.seq
  IN  IF succ = {} THEN [w EXCEPT !.st = "end"]
      ELSE IF \/ \E a, b \in succ : a.new # b.new
              \/ rot.new \in V
              \/ rot.new \in w.seen
      THEN [w EXCEPT !.st = "abort"]
      ELSE Step("go", rot.new, w.seen \cup {rot.new}, rot.seq)

\* One hop: a fork, a sequence number that does not increase, a revoked or
\* visited next key abort the walk; of several records for the same hop the
\* one with the lowest sequence number counts.
Hop(R, V, w) ==
  LET succ == {r \in R : r.old = w.head}
      rot  == CHOOSE r \in succ : \A s \in succ : r.seq <= s.seq
  IN  IF succ = {} THEN [w EXCEPT !.st = "end"]
      ELSE IF \/ \E a, b \in succ : a.new # b.new
              \/ rot.seq <= w.last
              \/ rot.new \in V
              \/ rot.new \in w.seen
      THEN [w EXCEPT !.st = "abort"]
      ELSE Step("go", rot.new, w.seen \cup {rot.new}, rot.seq)

\* At most so many hops from p.
Walk(hops, R, V, p) ==
  LET w[n \in 0..hops] ==
        IF n = 0 THEN Step("go", p, {p}, -1)
        ELSE IF w[n - 1].st = "go" THEN Hop(R, V, w[n - 1]) ELSE w[n - 1]
  IN  w[hops]

\* The head, if the pinned key is not revoked, the walk moved, did not abort,
\* and did not stop at the hop bound with a successor left.
Resolve(hops, R, V, p) ==
  LET w == Walk(hops, R, V, p)
  IN  IF /\ p \notin V
         /\ w.st # "abort" /\ w.head # p
         /\ \A r \in R : r.old # w.head
      THEN w.head ELSE None

---------------------------------------------------------------------------
(* The contact *)

\* A call begins for a key the contact pinned at some time: a walk for an
\* unknown signer, a revocation check for a pinned one.
Begin(p, m) ==
  /\ pc = "idle" /\ p \in Had
  /\ pc' = "zone" /\ mode' = m /\ pinned' = p
  /\ verdict' = None
  /\ known' = revs /\ tips' = {Newest}
  /\ UNCHANGED <<now, userVars, gotRots, gotRevs, missed>>

\* Mutant of RotsRead: the second name is read only if the first had nothing.
RotsReadFirst(form, hit) ==
  gotRots \cup {r \in rots : gotRots = {} /\ hit /\ r.form = form}

\* The records of one name; a failed lookup is Ok(None) from the resolver
\* pool and reads as an empty RRset in both fetch_records variants.
RotsRead(form, hit) == gotRots \cup {r \in rots : hit /\ r.form = form}
RevsRead(form, hit) == gotRevs \cup {v \in revs : hit /\ v.form = form}

\* derive_rrset_names: the zone-anchored name first.
ReadZone(hit) ==
  /\ pc = "zone" /\ pc' = "hash"
  /\ gotRots' = RotsRead("zone", hit) /\ gotRevs' = RevsRead("zone", hit)
  /\ missed' = IF hit THEN {} ELSE {"zone"}
  /\ UNCHANGED <<now, userVars, mode, pinned, verdict, known, tips>>

\* resolve_current_spk, or is_spk_revoked of the pinned signer.
Trusted(R, V) ==
  IF mode = "walk" THEN Resolve(MaxHops, Visible(R), Verified(V), pinned)
  ELSE IF pinned \in Verified(V) THEN None ELSE pinned

\* The hash form, then the partition and the walk without another await; the
\* manifest is accepted or dropped and the records are forgotten.
ReadHash(hit) ==
  /\ pc = "hash" /\ pc' = "idle"
  /\ verdict' = Trusted(RotsRead("hash", hit), RevsRead("hash", hit))
  /\ mode' = "walk" /\ pinned' = FirstKey /\ missed' = {}
  /\ gotRots' = {} /\ gotRevs' = {} /\ known' = {} /\ tips' = {}
  /\ UNCHANGED <<now, userVars>>

Next ==
  \/ Clock
  \/ \E old \in Had, new \in Keys, life \in Lifetimes, form \in Forms :
       \/ \E reason \in {"routine", "compromise"} : Rotate(old, new, life, form, reason)
       \/ RotateUnanswered(old, new, life, form)
  \/ PublishRevocation \/ PublishIdentity \/ RotateDies
  \/ \E k \in Keys, form \in Forms : Revoke(k, form)
  \/ \E p \in Keys, m \in {"walk", "check"} : Begin(p, m)
  \/ \E hit \in BOOLEAN : ReadZone(hit) \/ ReadHash(hit)

Spec == Init /\ [][Next]_vars

---------------------------------------------------------------------------
(* Properties *)

\* The walk without the walk: h is the other end of a path from p in which
\* every key has one successor, sequence numbers of first issues increase, no
\* key repeats or is revoked, and the last key has no successor.
FirstIssue(R, k) == Min({r.seq : r \in {s \in R : s.old = k}})
Successors(R, k) == {r.new : r \in {s \in R : s.old = k}}
EndsAt(hops, R, V, p, h) ==
  /\ Successors(R, h) = {}
  /\ \E n \in 1..hops : \E f \in [0..n -> Keys] :
       /\ f[0] = p /\ f[n] = h
       /\ \A i, j \in 0..n : f[i] = f[j] => i = j
       /\ \A i \in 0..n : f[i] \notin V
       /\ \A i \in 0..(n - 1) : Successors(R, f[i]) = {f[i + 1]}
       /\ \A i \in 1..(n - 1) : FirstIssue(R, f[i - 1]) < FirstIssue(R, f[i])

\* resolve_current_spk returns the head of such a path when there is one and
\* None otherwise, for every set of records the user's commands can leave,
\* forks, loops, reissues and clock steps included, and for every hop bound.
WalkMatchesReference ==
  \A hops \in HopBounds, p \in Had :
    LET h == Resolve(hops, Visible(rots), Verified(revs), p) IN
    IF h = None THEN \A k \in Keys : ~EndsAt(hops, Visible(rots), Verified(revs), p, k)
                ELSE EndsAt(hops, Visible(rots), Verified(revs), p, h)

\* The step in which the contact makes up its mind, in a call in which the
\* lookup of one name was answered, and in one in which both were.
Heard(form) == IF form = "hash" THEN ReadHash(TRUE)
               ELSE missed = {} /\ \E hit \in BOOLEAN : ReadHash(hit)
Answered == missed = {} /\ ReadHash(TRUE)

\* A contact never ends at a key that was revoked when its call began, and does
\* not follow a pinned key that was revoked, if the name that has the revocation
\* answered: whether the lookup of the other name fails, whatever the user
\* publishes while the two are read and wherever the clock has moved within the
\* skew.
RevokedNotTrusted ==
  [][\A v \in known : Heard(v.form) /\ v.ts <= now + Skew
       => verdict' # v.spk /\ (pinned = v.spk => verdict' = None)]_vars

\* A contact whose lookups were answered never takes a superseded key for the
\* current one: the head was the newest key at some moment of the call.  This is
\* for an orderly user none of whose rotations expires before an earlier one
\* (exp_seconds is the user's choice): a record that outlives its successor
\* would make the key in between look like the head.
InTurn == \A r, s \in rots : r.seq < s.seq => r.exp <= s.exp
HeadNotStale ==
  [][Answered /\ mode = "walk" /\ orderly /\ InTurn => verdict' \in tips \cup {None}]_vars

\* docs/guide/cli.md: "With `routine`, contacts walk the chain transparently."
\* With nothing published meanwhile, a contact at most MaxHops unexpired
\* rotations behind finds the newest key.
Behind == {r \in rots : \E i, j \in DOMAIN line :
             i <= j /\ line[i] = pinned /\ line[j] = r.old}
Follows ==
  /\ mode = "walk" /\ orderly /\ tips = {Newest} /\ pinned # Newest
  /\ Cardinality({r.old : r \in Behind}) <= MaxHops
  /\ \A r \in Behind : r.exp >= now
Transparent == [][Answered /\ Follows => verdict' = Newest]_vars

=============================================================================
