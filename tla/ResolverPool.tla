--------------------------- MODULE ResolverPool ---------------------------
(***************************************************************************)
(* ResolverPool: TXT queries that run concurrently over a list of upstream *)
(* resolvers and share a health record per resolver.  A query fixes the    *)
(* order of the hosts when it begins, asks them one by one (an await each, *)
(* during which other queries finish, hosts fail or recover and records    *)
(* appear) and settles the health of the hosts as it goes.                 *)
(***************************************************************************)
EXTENDS Integers

CONSTANTS
  Hosts,        \* positions in the host list (insertion order)
  Queries,      \* query_txt_record() calls that may run concurrently
  Names,        \* TXT names
  NameOf,       \* [Queries -> Names]: the name a call asks for
  BadNames,     \* names hickory rejects as malformed
  Threshold,    \* failure_threshold
  Cooldown,     \* cooldown
  MaxFailures,  \* u32::MAX, where consecutive_failures saturates
  MaxTime       \* bound on the clock

ASSUME PoolAssumption ==
  /\ Hosts \subseteq Nat /\ NameOf \in [Queries -> Names]
  /\ Threshold \in Nat \ {0} /\ Cooldown \in Nat
  /\ MaxFailures \in Nat \ {0} /\ MaxTime \in Nat

VARIABLES
  now,
  up,        \* hosts that answer at all
  served,    \* <<h, n>>: host h, when up, answers with the record of name n
  fails,     \* HostHealth::consecutive_failures
  lastFail,  \* HostHealth::last_failure, Never for None
  pc,        \* [Queries -> {"idle", "ask"}]
  todo,      \* hosts the call has not asked yet
  rank,      \* [Queries -> [Hosts -> Nat]]: the tier of each host in its order
  missed,    \* not_found_buffer
  answer,    \* what the last call returned: "found", "absent" or "bad_name"
  steady     \* history: hosts that served the name since the call began

vars == <<now, up, served, fails, lastFail, pc, todo, rank, missed, answer, steady>>
envVars    == <<up, served>>
healthVars == <<fails, lastFail>>
callVars   == <<pc, todo, rank, missed, answer>>

Never == -1
Answers == {"none", "found", "absent", "bad_name"}

TypeOK ==
  /\ now \in Nat
  /\ up \subseteq Hosts /\ served \subseteq Hosts \X Names
  /\ fails \in [Hosts -> 0..MaxFailures]
  /\ lastFail \in [Hosts -> Nat \cup {Never}]
  /\ pc \in [Queries -> {"idle", "ask"}]
  /\ todo \in [Queries -> SUBSET Hosts]
  /\ rank \in [Queries -> [Hosts -> Nat]]
  /\ missed \in [Queries -> SUBSET Hosts]
  /\ answer \in [Queries -> Answers]
  /\ steady \in [Queries -> SUBSET Hosts]

Init ==
  /\ now = 0 /\ up = Hosts /\ served = {}
  /\ fails = [h \in Hosts |-> 0] /\ lastFail = [h \in Hosts |-> Never]
  /\ pc = [q \in Queries |-> "idle"] /\ todo = [q \in Queries |-> {}]
  /\ rank = [q \in Queries |-> [h \in Hosts |-> 0]]
  /\ missed = [q \in Queries |-> {}] /\ answer = [q \in Queries |-> "none"]
  /\ steady = [q \in Queries |-> {}]

---------------------------------------------------------------------------
(* The world outside *)

Tick ==
  /\ now < MaxTime
  /\ now' = now + 1
  /\ UNCHANGED <<envVars, healthVars, callVars, steady>>

Serving(h, n) == h \in up /\ <<h, n>> \in served
StillSteady(U, S) ==
  [q \in Queries |-> {h \in steady[q] : h \in U /\ <<h, NameOf[q]>> \in S}]

\* A resolver becomes unreachable or reachable.
Toggle(h) ==
  /\ up' \in {up \cup {h}, up \ {h}}
  /\ up' # up
  /\ steady' = StillSteady(up', served)
  /\ UNCHANGED <<now, served, healthVars, callVars>>

\* A record reaches a resolver, or goes from it.
Propagate(h, n) ==
  /\ n \notin BadNames
  /\ served' \in {served \cup {<<h, n>>}, served \ {<<h, n>>}}
  /\ served' # served
  /\ steady' = StillSteady(up, served')
  /\ UNCHANGED <<now, up, healthVars, callVars>>

---------------------------------------------------------------------------
(* Host health *)

\* Mutant of Fails: the counter does not saturate.
FailsUnbounded(F, S) ==
  [h \in Hosts |-> IF h \in S THEN 0 ELSE IF h \in F THEN fails[h] + 1 ELSE fails[h]]

\* record_failure on F and record_success on S, as functions of the old state.
Fails(F, S) ==
  [h \in Hosts |-> IF h \in S THEN 0
                   ELSE IF h \in F /\ fails[h] < MaxFailures THEN fails[h] + 1
                   ELSE fails[h]]
LastFail(F, S) ==
  [h \in Hosts |-> IF h \in S THEN Never ELSE IF h \in F THEN now ELSE lastFail[h]]

\* is_cooled_down: the host is in cooldown.
InCooldown(h) ==
  /\ fails[h] >= Threshold
  /\ lastFail[h] # Never /\ now - lastFail[h] < Cooldown

\* ordered_hosts: hosts in cooldown after all others, oldest failure first;
\* within a tier the insertion order stands.
Tier(h) == IF InCooldown(h) THEN 1 + lastFail[h] ELSE 0
Before(r, g, h) == r[g] < r[h] \/ (r[g] = r[h] /\ g <= h)

---------------------------------------------------------------------------
(* query_txt_record *)

\* Mutant of Begin: hosts in cooldown are skipped.
BeginSkips(q) ==
  /\ pc[q] = "idle"
  /\ pc' = [pc EXCEPT ![q] = "ask"]
  /\ todo' = [todo EXCEPT ![q] = {h \in Hosts : ~InCooldown(h)}]
  /\ rank' = [rank EXCEPT ![q] = [h \in Hosts |-> Tier(h)]]
  /\ missed' = [missed EXCEPT ![q] = {}] /\ answer' = [answer EXCEPT ![q] = "none"]
  /\ steady' = [steady EXCEPT ![q] = {h \in Hosts : Serving(h, NameOf[q])}]
  /\ UNCHANGED <<now, envVars, healthVars>>

\* Every host is in the order, the ones in cooldown last.
Begin(q) ==
  /\ pc[q] = "idle"
  /\ pc' = [pc EXCEPT ![q] = "ask"]
  /\ todo' = [todo EXCEPT ![q] = Hosts]
  /\ rank' = [rank EXCEPT ![q] = [h \in Hosts |-> Tier(h)]]
  /\ missed' = [missed EXCEPT ![q] = {}] /\ answer' = [answer EXCEPT ![q] = "none"]
  /\ steady' = [steady EXCEPT ![q] = {h \in Hosts : Serving(h, NameOf[q])}]
  /\ UNCHANGED <<now, envVars, healthVars>>

\* The host whose turn it is.
Turn(q, h) ==
  /\ pc[q] = "ask" /\ h \in todo[q] /\ NameOf[q] \notin BadNames
  /\ \A g \in todo[q] : Before(rank[q], h, g)

\* The call is over: nothing but its result is left.
Done(q, result) ==
  /\ pc' = [pc EXCEPT ![q] = "idle"]
  /\ todo' = [todo EXCEPT ![q] = {}] /\ missed' = [missed EXCEPT ![q] = {}]
  /\ rank' = [rank EXCEPT ![q] = [h \in Hosts |-> 0]]
  /\ answer' = [answer EXCEPT ![q] = result]

\* Found: the host is healthy, and by the oracle rule every host that said
\* "not found" before it failed.
Found(q, h) ==
  /\ Turn(q, h) /\ Serving(h, NameOf[q])
  /\ fails' = Fails(missed[q], {h}) /\ lastFail' = LastFail(missed[q], {h})
  /\ Done(q, "found")
  /\ steady' = [steady EXCEPT ![q] = {}]
  /\ UNCHANGED <<now, envVars>>

\* The common end of the other two outcomes: with no host left, every host
\* that said "not found" is healthy and the call returns Ok(None).
GoOn(q, h, M, F) ==
  IF todo[q] = {h}
  THEN /\ fails' = Fails(F, M) /\ lastFail' = LastFail(F, M)
       /\ Done(q, "absent")
  ELSE /\ fails' = Fails(F, {}) /\ lastFail' = LastFail(F, {})
       /\ todo' = [todo EXCEPT ![q] = @ \ {h}]
       /\ missed' = [missed EXCEPT ![q] = M]
       /\ UNCHANGED <<pc, rank, answer>>

\* Mutant of NotFound: the answer counts as a failure at once.
NotFoundFails(q, h) ==
  /\ Turn(q, h) /\ h \in up /\ ~Serving(h, NameOf[q])
  /\ GoOn(q, h, missed[q], {h})
  /\ UNCHANGED <<now, envVars, steady>>

\* NXDOMAIN, NoAnswer, or an answer without text: buffered.
NotFound(q, h) ==
  /\ Turn(q, h) /\ h \in up /\ ~Serving(h, NameOf[q])
  /\ GoOn(q, h, missed[q] \cup {h}, {})
  /\ UNCHANGED <<now, envVars, steady>>

\* Timeout, refusal, unreachable: record_failure.
Transport(q, h) ==
  /\ Turn(q, h) /\ h \notin up
  /\ GoOn(q, h, missed[q], {h})
  /\ UNCHANGED <<now, envVars, steady>>

\* BadName: Err(InvalidName) at once, without touching anybody's health.
BadName(q) ==
  /\ pc[q] = "ask" /\ NameOf[q] \in BadNames
  /\ Done(q, "bad_name")
  /\ steady' = [steady EXCEPT ![q] = {}]
  /\ UNCHANGED <<now, envVars, healthVars>>

Next ==
  \/ Tick
  \/ \E h \in Hosts : Toggle(h)
  \/ \E h \in Hosts, n \in Names : Propagate(h, n)
  \/ \E q \in Queries : Begin(q) \/ BadName(q)
  \/ \E q \in Queries, h \in Hosts : Found(q, h) \/ NotFound(q, h) \/ Transport(q, h)

Spec == Init /\ [][Next]_vars

---------------------------------------------------------------------------
(* Properties *)

\* Failover never loses a record: a call that returns Ok(None) did not
\* overlook a host that served the name from its beginning to its end,
\* whatever cooldowns other calls put that host into meanwhile.
NoMissWhileServed == \A q \in Queries : answer[q] = "absent" => steady[q] = {}

\* A streak grows only when a host does not answer, or when another host
\* produced the record it denied in the same call.  In particular a name that
\* does not exist costs nobody its place.
DemotedForCause ==
  [][\A h \in Hosts :
       fails'[h] > fails[h]
         => h \notin up \/ \E q \in Queries : h \in missed[q] /\ answer'[q] = "found"]_vars

---------------------------------------------------------------------------
(* The inductive strengthening of NoMissWhileServed *)

\* A host that served the name all along is one the call still has to ask.
SteadyOK ==
  \A q \in Queries :
    /\ \A h \in steady[q] : Serving(h, NameOf[q])
    /\ pc[q] = "ask" => answer[q] = "none" /\ steady[q] \subseteq todo[q]
    /\ pc[q] = "idle" => steady[q] = {}
=============================================================================
