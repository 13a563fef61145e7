------------------------------- MODULE Zone -------------------------------
(***************************************************************************)
(* What happens to the TXT records of one DNS name when several clients    *)
(* publish and delete at it through the dnsmesh-net writers, and what the  *)
(* multi-backend readers make of the result.                               *)
(*                                                                         *)
(* A deployment is a tuple of backends, each of a kind:                    *)
(*   update      RFC 2136 UPDATE over UDP, TCP on truncation               *)
(*               (dns_update_writer.rs)                                    *)
(*   foreign     the same writer, for a zone the name is not in            *)
(*   cloudflare  GET, then PUT or POST or DELETE by record id              *)
(*               (cloudflare.rs)                                           *)
(*   node        one HTTP request (node_token.rs)                          *)
(*   memory      the in-process store (memory.rs)                          *)
(* FanoutWriter sends a call to all of them and counts the answers; the    *)
(* network loses, delays and, over UDP, duplicates requests, loses         *)
(* answers, and delivers a request after its sender gave up on it.         *)
(*                                                                         *)
(* Names are independent of each other, so one is modelled.  TTLs matter   *)
(* to this code only in the in-process store, where an entry whose time    *)
(* is over stays stored and is no longer served.                           *)
(***************************************************************************)
EXTENDS Naturals, FiniteSets, Sequences

CONSTANTS
    Deployments,  \* records: the backends' kinds, the fan-out policy
                  \* (<<"all">>, <<"any">> or <<"atleast", n>>), and the
                  \* bound on the number of calls
    N,            \* the largest of these bounds; calls are numbered
    Owner,        \* the writer object that makes each call: one per process
    Values,       \* record values
    All           \* the value argument of a delete without one

ASSUME ZoneAssumption ==
    /\ N \in Nat \ {0}
    /\ All \notin Values
    /\ 1 .. N \subseteq DOMAIN Owner
    /\ \A d \in Deployments :
          /\ d.kinds \in Seq({"update", "foreign", "cloudflare", "node", "memory"})
          /\ d.calls \in 1 .. N
          /\ \/ d.quorum \in {<<"all">>, <<"any">>}
             \/ (d.quorum[1] = "atleast" /\ d.quorum[2] \in Nat)

Calls == 1 .. N

\* The record id of an RRset member outside Cloudflare, and "no record".
None == 0

VARIABLES
    dep,      \* the deployment in use, fixed
    zone,     \* zone[b]: records [id, val, live] stored by backend b
    call,     \* call[c]: what call c asks
    stage,    \* stage[c][b]: where c stands with backend b
    target,   \* target[c][b]: Cloudflare record id found by the GET, or None
    wire,     \* <<c, b>>: a request of c may still reach backend b
    result,   \* result[c]: "none" until FanoutWriter returns TRUE or FALSE
    over,     \* history: publish calls that overlap or follow delete call c
    reader    \* the multi-backend lookup in progress

vars == <<dep, zone, call, stage, target, wire, result, over, reader>>

kind     == dep.kinds
quorum   == dep.quorum
Backends == DOMAIN kind

NoCall == [op |-> "none", val |-> All]

Issued   == {c \in Calls : call[c].op # "none"}
Publishes(v) == {c \in Issued : call[c].op = "publish" /\ call[c].val = v}
Deletes(v)   == {c \in Issued : call[c].op = "delete" /\ call[c].val \in {v, All}}

\* Quorum::satisfied of fanout_writer.rs, as the number of answers needed.
Need == CASE quorum[1] = "all" -> Cardinality(Backends)
          [] quorum[1] = "any" -> 1
          [] OTHER -> quorum[2]

Final == {"ok", "no", "err"}
Waiting == {"udp", "tcp", "sent"}

\* No message can be built for a name outside the writer's zone.
OutOfZone(b) == kind[b] = "foreign"

\* How far a writer gets at once: DnsUpdateWriter and NodeTokenPublisher send
\* one request; where none can be built, the answer is Ok(false).
First(b) == CASE OutOfZone(b) -> "no"
              [] kind[b] = "update"  -> "udp"
              [] kind[b] = "node"    -> "sent"
              [] OTHER -> "start"

Held(b) == {r.val : r \in zone[b]}

\* A lookup: which reader makes it, who was asked, who failed, what was heard,
\* and (history) the values that were acknowledged before it began.
Idle == [mode |-> "idle", asked |-> {}, failed |-> {}, heard |-> {}, owed |-> {}]

Init ==
    /\ dep \in Deployments
    /\ zone = [b \in Backends |-> {}]
    /\ call = [c \in Calls |-> NoCall]
    /\ stage = [c \in Calls |-> [b \in Backends |-> "idle"]]
    /\ target = [c \in Calls |-> [b \in Backends |-> None]]
    /\ wire = {}
    /\ result = [c \in Calls |-> "none"]
    /\ over = [c \in Calls |-> {}]
    /\ reader = Idle

---------------------------------------------------------------------------
(***************************************************************************)
(* FanoutWriter: a call starts the futures of all the writers (join_all)   *)
(* and returns when the last has answered.                                 *)
(***************************************************************************)

\* The publish calls that may still change the zone.
Restless == {c \in Issued : /\ call[c].op = "publish"
                            /\ \E b \in Backends : \/ stage[c][b] \notin Final
                                                   \/ <<c, b>> \in wire}

Issue(c, op, v) ==
    /\ call[c].op = "none" /\ c <= dep.calls
    /\ \A d \in Calls : d < c => call[d].op # "none"
    /\ v = All => op = "delete"
    /\ call' = [call EXCEPT ![c] = [op |-> op, val |-> v]]
    /\ stage' = [stage EXCEPT ![c] = [b \in Backends |-> First(b)]]
    /\ wire' = wire \cup {<<c, b>> : b \in {a \in Backends : First(a) \in Waiting}}
    /\ over' = [d \in Calls |->
                  CASE d = c /\ op = "delete" -> Restless
                    [] d \in Issued /\ call[d].op = "delete" /\ op = "publish"
                         -> over[d] \cup {c}
                    [] OTHER -> over[d]]
    /\ UNCHANGED <<dep, zone, target, result, reader>>

Return(c) ==
    /\ c \in Issued /\ result[c] = "none"
    /\ \A b \in Backends : stage[c][b] \in Final
    /\ result' = [result EXCEPT ![c] =
         IF Cardinality({b \in Backends : stage[c][b] = "ok"}) >= Need
         THEN "true" ELSE "false"]
    /\ UNCHANGED <<dep, zone, call, stage, target, wire, over, reader>>


---------------------------------------------------------------------------
(***************************************************************************)
(* CloudflarePublisher up to its write request, and the errors of all.     *)
(***************************************************************************)

Go(c, b, s) == stage' = [stage EXCEPT ![c][b] = s]

\* CloudflarePublisher: publish_lock is held from before the GET to the end.
Locked(b, i) == \E c \in Issued : /\ call[c].op = "publish" /\ Owner[c] = i
                                  /\ stage[c][b] \in {"get", "sent"}

\* Mutant: publish without the lock.
LockFree(c, b) ==
    /\ kind[b] = "cloudflare" /\ stage[c][b] = "start"
    /\ Go(c, b, "get")
    /\ UNCHANGED <<dep, zone, call, target, wire, result, over, reader>>

Lock(c, b) ==
    /\ kind[b] = "cloudflare" /\ stage[c][b] = "start"
    /\ call[c].op = "publish" => ~Locked(b, Owner[c])
    /\ Go(c, b, "get")
    /\ UNCHANGED <<dep, zone, call, target, wire, result, over, reader>>

\* find_record and what follows from its answer: PUT or DELETE of the record
\* found, POST when none is, nothing at all to delete when none is.
FindRecord(c, b) ==
    /\ kind[b] = "cloudflare" /\ stage[c][b] = "get"
    /\ \E id \in IF zone[b] = {} THEN {None} ELSE {r.id : r \in zone[b]} :
         /\ target' = [target EXCEPT ![c][b] = id]
         /\ IF id = None /\ call[c].op = "delete"
            THEN Go(c, b, "ok") /\ UNCHANGED wire
            ELSE Go(c, b, "sent") /\ wire' = wire \cup {<<c, b>>}
    /\ UNCHANGED <<dep, zone, call, result, over, reader>>

\* A transport error, a timeout or an error status ends the call with Err;
\* a request under way stays under way.
Fail(c, b) ==
    /\ stage[c][b] \in Waiting \cup {"get"}
    /\ Go(c, b, "err")
    /\ UNCHANGED <<dep, zone, call, target, wire, result, over, reader>>

---------------------------------------------------------------------------
(***************************************************************************)
(* The backends.                                                           *)
(***************************************************************************)

\* Mutants: a publish that replaces the RRset; a delete that takes its
\* missing value for a value.
AddReplaces(S, v) == {[id |-> None, val |-> v, live |-> TRUE]}
DropNamed(S, v) == {r \in S : r.val # v}

\* An RRset: a publish adds or refreshes, a delete takes one value or all.
Add(S, v)  == {r \in S : r.val # v} \cup {[id |-> None, val |-> v, live |-> TRUE]}
Drop(S, v) == IF v = All THEN {} ELSE {r \in S : r.val # v}

RRset(c, S) == IF call[c].op = "publish" THEN Add(S, call[c].val)
                                         ELSE Drop(S, call[c].val)

\* Cloudflare: writes go to the record with the id that was found.
Found(c, b) == \/ target[c][b] = None
               \/ \E r \in zone[b] : r.id = target[c][b]

ById(c, b) ==
    LET t == target[c][b]
        rest == {r \in zone[b] : r.id # t}
    IN CASE ~Found(c, b) -> zone[b]
         [] call[c].op = "delete" -> rest
         [] OTHER -> rest \cup {[id |-> IF t = None THEN c ELSE t,
                                 val |-> call[c].val, live |-> TRUE]}

\* What backend b may hold after c's request.  A node may or may not honour
\* the value of a delete.
Effects(c, b) ==
    CASE kind[b] = "cloudflare" -> {ById(c, b)}
      [] kind[b] = "node" /\ call[c].op = "delete" -> {RRset(c, zone[b]), {}}
      [] OTHER -> {RRset(c, zone[b])}

\* A request arrives and is applied; its answer arrives, or is lost or late.
\* A datagram may arrive once more.
Apply(c, b) ==
    /\ <<c, b>> \in wire
    /\ \E new \in Effects(c, b) : zone' = [zone EXCEPT ![b] = new]
    /\ wire' \in {wire \ {<<c, b>>}} \cup (IF kind[b] = "update" THEN {wire} ELSE {})
    /\ \/ UNCHANGED stage
       \/ /\ stage[c][b] \in Waiting
          /\ Go(c, b, IF kind[b] # "cloudflare" \/ Found(c, b) THEN "ok" ELSE "err")
    /\ UNCHANGED <<dep, call, target, result, over, reader>>

\* The answer to a datagram is truncated: the same message goes out over TCP,
\* whether or not the first was applied.
Truncated(c, b) ==
    /\ kind[b] = "update" /\ stage[c][b] = "udp" /\ <<c, b>> \in wire
    /\ \E new \in Effects(c, b) \cup {zone[b]} : zone' = [zone EXCEPT ![b] = new]
    /\ Go(c, b, "tcp")
    /\ UNCHANGED <<dep, call, target, wire, result, over, reader>>

\* A request is lost, or refused without effect.
Lose(c, b) ==
    /\ <<c, b>> \in wire
    /\ wire' = wire \ {<<c, b>>}
    /\ UNCHANGED <<dep, zone, call, stage, target, result, over, reader>>

\* InMemoryDnsStore: the whole call under its mutex.
InMemory(c, b) ==
    /\ kind[b] = "memory" /\ stage[c][b] = "start"
    /\ zone' = [zone EXCEPT ![b] = RRset(c, zone[b])]
    /\ Go(c, b, IF call[c].op = "publish" \/ RRset(c, zone[b]) # zone[b]
                THEN "ok" ELSE "no")
    /\ UNCHANGED <<dep, call, target, wire, result, over, reader>>

\* The TTL of an entry of the in-process store runs out.
Expire(b, r) ==
    /\ kind[b] = "memory" /\ r \in zone[b] /\ r.live
    /\ zone' = [zone EXCEPT ![b] = (@ \ {r}) \cup {[r EXCEPT !.live = FALSE]}]
    /\ reader' = [reader EXCEPT !.owed = @ \ {r.val}]
    /\ UNCHANGED <<dep, call, stage, target, wire, result, over>>

---------------------------------------------------------------------------
(***************************************************************************)
(* UnionReader asks every backend at once; CompositeReader asks them in    *)
(* order until one has an answer.  A failing backend counts as empty.      *)
(***************************************************************************)

Served(b) == {r.val : r \in {q \in zone[b] : q.live}}

Complete == CASE reader.mode = "union"     -> reader.asked = Backends
              [] reader.mode = "composite" -> reader.asked = Backends \/ reader.heard # {}
              [] OTHER -> FALSE

\* The values acknowledged so far, none of whose entries has run out.
Acknowledged ==
    {v \in Values : /\ \E c \in Publishes(v) : result[c] = "true"
                    /\ \A b \in Backends : \A r \in zone[b] : r.val = v => r.live}

\* Lookups made while there is nothing to find are left out.
StartLookup(m) ==
    /\ reader.mode = "idle" /\ Acknowledged # {}
    /\ reader' = [Idle EXCEPT !.mode = m, !.owed = Acknowledged]
    /\ UNCHANGED <<dep, zone, call, stage, target, wire, result, over>>

\* Mutant: one failing backend ends the lookup.
AskPoisoned(b, fails) ==
    /\ reader.mode # "idle" /\ ~Complete
    /\ b \notin reader.asked
    /\ reader.mode = "composite" => \A a \in Backends : a < b => a \in reader.asked
    /\ reader' = [reader EXCEPT
         !.asked  = IF fails THEN Backends ELSE @ \cup {b},
         !.failed = IF fails THEN @ \cup {b} ELSE @,
         !.heard  = IF fails THEN {} ELSE @ \cup Served(b)]
    /\ UNCHANGED <<dep, zone, call, stage, target, wire, result, over>>

Ask(b, fails) ==
    /\ reader.mode # "idle" /\ ~Complete
    /\ b \notin reader.asked
    /\ reader.mode = "composite" => \A a \in Backends : a < b => a \in reader.asked
    /\ reader' = [reader EXCEPT
         !.asked  = @ \cup {b},
         !.failed = IF fails THEN @ \cup {b} ELSE @,
         !.heard  = IF fails THEN @ ELSE @ \cup Served(b)]
    /\ UNCHANGED <<dep, zone, call, stage, target, wire, result, over>>

---------------------------------------------------------------------------
Answer == reader.mode # "idle" /\ Complete /\ reader' = Idle
          /\ UNCHANGED <<dep, zone, call, stage, target, wire, result, over>>

\* Every call has returned.
Done == (\A c \in 1 .. dep.calls : result[c] # "none") /\ UNCHANGED vars

Step(c, b) ==
    \/ Lock(c, b) \/ FindRecord(c, b)
    \/ Fail(c, b) \/ Apply(c, b) \/ Truncated(c, b) \/ Lose(c, b) \/ InMemory(c, b)

Next ==
    \/ \E c \in Calls, op \in {"publish", "delete"}, v \in Values \cup {All} :
         Issue(c, op, v)
    \/ \E c \in Calls : Return(c) \/ \E b \in Backends : Step(c, b)
    \/ \E b \in Backends : \E r \in zone[b] : Expire(b, r)
    \/ \E m \in {"union", "composite"} : StartLookup(m)
    \/ \E b \in Backends, fails \in BOOLEAN : Ask(b, fails)
    \/ Answer
    \/ Done

Spec == Init /\ [][Next]_vars

---------------------------------------------------------------------------
(***************************************************************************)
(* Properties.                                                             *)
(***************************************************************************)

\* The calls that may take value v from backend b: deletes of v, any delete
\* where the backend may ignore the value, and on Cloudflare every publish of
\* another value, which overwrites the record found.
Disturbing(b, v) ==
    CASE kind[b] = "cloudflare" ->
           {c \in Issued : call[c].op = "delete" \/ call[c].val # v}
      [] kind[b] = "node" -> {c \in Issued : call[c].op = "delete"}
      [] OTHER -> Deletes(v)

\* A value a backend acknowledged stays there, under lost, late, repeated and
\* truncated requests and whatever others publish at the name, until a call
\* that may take it away (memory.rs:66-69: a publish adds and does not evict;
\* cloudflare.rs:257-261 for names used by one value only).
AckedKept ==
    \A b \in Backends, v \in Values :
        /\ \E c \in Publishes(v) : stage[c][b] = "ok"
        /\ Disturbing(b, v) = {}
        => v \in Held(b)

\* A delete FanoutWriter reports as done has cleared at least a quorum of the
\* backends: what is left of the value there comes from a publish that was
\* unsettled when the delete was issued, or issued after it.  Not so on
\* Cloudflare, whose delete takes the first record only (cloudflare.rs:293).
DeleteClears ==
    \A d \in Issued :
        call[d].op = "delete" /\ result[d] = "true"
            /\ (\A b \in Backends : kind[b] # "cloudflare")
        => LET gone(v) == {b \in Backends : v \notin Held(b)}
           IN \A v \in IF call[d].val = All THEN Values ELSE {call[d].val} :
                \/ \E p \in over[d] : call[p].val = v
                \/ Cardinality(gone(v)) >= Need

\* A lookup begun after FanoutWriter acknowledged a value finds it as long as
\* fewer backends than the quorum fail to answer: UnionReader always,
\* CompositeReader where the name carries one value only.
ReaderSees ==
    \A v \in reader.owed :
        /\ Complete
        /\ Cardinality(reader.failed) < Need
        /\ \A b \in Backends : Disturbing(b, v) = {}
        /\ reader.mode = "composite" =>
             \A c \in Issued : call[c].op = "publish" => call[c].val = v
        => v \in reader.heard

\* Publishes of one CloudflarePublisher leave one record at a name while no
\* request fails: "two concurrent publishers can't both miss the existing
\* record and end up with a duplicate" (cloudflare.rs:251-254).
NoDuplicate ==
    \A b \in Backends :
        /\ kind[b] = "cloudflare"
        /\ \A c, d \in Issued : Owner[c] = Owner[d]
        /\ \A c \in Issued : stage[c][b] # "err"
        => Cardinality(zone[b]) <= 1

=============================================================================
