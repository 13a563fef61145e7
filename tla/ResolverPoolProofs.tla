------------------------- MODULE ResolverPoolProofs -------------------------
(***************************************************************************)
(* Type correctness of the resolver pool, and the proof that failover      *)
(* never overlooks a host that served the record for the whole call, for   *)
(* any number of hosts, concurrent calls and cooldowns.                    *)
(***************************************************************************)
EXTENDS ResolverPool, TLAPS

\* Saturation keeps the counter a u32, and a failure time is a time.
LEMMA HealthType ==
  ASSUME TypeOK, NEW F, NEW S
  PROVE  /\ Fails(F, S) \in [Hosts -> 0..MaxFailures]
         /\ LastFail(F, S) \in [Hosts -> Nat \cup {Never}]
BY PoolAssumption DEF TypeOK, Fails, LastFail

LEMMA TierType ==
  ASSUME TypeOK, NEW h \in Hosts
  PROVE  Tier(h) \in Nat
BY DEF TypeOK, Tier, InCooldown, Never

LEMMA InitType == Init => TypeOK
BY PoolAssumption DEF Init, TypeOK, Never, Answers

\* The two ends of a step of a call.
LEMMA DoneType ==
  ASSUME TypeOK, NEW q \in Queries, NEW r \in Answers, Done(q, r)
  PROVE  /\ pc' \in [Queries -> {"idle", "ask"}]
         /\ todo' \in [Queries -> SUBSET Hosts]
         /\ rank' \in [Queries -> [Hosts -> Nat]]
         /\ missed' \in [Queries -> SUBSET Hosts]
         /\ answer' \in [Queries -> Answers]
<1>1. [h \in Hosts |-> 0] \in [Hosts -> Nat]
  OBVIOUS
<1>2. rank' \in [Queries -> [Hosts -> Nat]]
  BY <1>1 DEF TypeOK, Done
<1> QED
  BY <1>2 DEF TypeOK, Done

LEMMA GoOnType ==
  ASSUME TypeOK, NEW q \in Queries, NEW h \in Hosts, NEW M \in SUBSET Hosts,
         NEW F \in SUBSET Hosts, GoOn(q, h, M, F)
  PROVE  /\ fails' \in [Hosts -> 0..MaxFailures]
         /\ lastFail' \in [Hosts -> Nat \cup {Never}]
         /\ pc' \in [Queries -> {"idle", "ask"}]
         /\ todo' \in [Queries -> SUBSET Hosts]
         /\ rank' \in [Queries -> [Hosts -> Nat]]
         /\ missed' \in [Queries -> SUBSET Hosts]
         /\ answer' \in [Queries -> Answers]
<1>1. CASE todo[q] = {h}
  <2>1. Done(q, "absent")
    BY <1>1 DEF GoOn
  <2>2. "absent" \in Answers
    BY DEF Answers
  <2>3. fails' = Fails(F, M) /\ lastFail' = LastFail(F, M)
    BY <1>1 DEF GoOn
  <2>4. fails' \in [Hosts -> 0..MaxFailures] /\ lastFail' \in [Hosts -> Nat \cup {Never}]
    BY <2>3, HealthType
  <2>5. /\ pc' \in [Queries -> {"idle", "ask"}]
        /\ todo' \in [Queries -> SUBSET Hosts]
        /\ rank' \in [Queries -> [Hosts -> Nat]]
        /\ missed' \in [Queries -> SUBSET Hosts]
        /\ answer' \in [Queries -> Answers]
    BY <2>1, <2>2, DoneType
  <2> QED
    BY <2>4, <2>5
<1>2. CASE todo[q] # {h}
  <2>1. fails' = Fails(F, {}) /\ lastFail' = LastFail(F, {})
    BY <1>2 DEF GoOn
  <2>2. fails' \in [Hosts -> 0..MaxFailures] /\ lastFail' \in [Hosts -> Nat \cup {Never}]
    BY <2>1, HealthType
  <2>3. /\ todo' = [todo EXCEPT ![q] = @ \ {h}] /\ missed' = [missed EXCEPT ![q] = M]
        /\ UNCHANGED <<pc, rank, answer>>
    BY <1>2 DEF GoOn
  <2>4. todo' \in [Queries -> SUBSET Hosts] /\ missed' \in [Queries -> SUBSET Hosts]
    BY <2>3 DEF TypeOK
  <2>5. /\ pc' \in [Queries -> {"idle", "ask"}]
        /\ rank' \in [Queries -> [Hosts -> Nat]]
        /\ answer' \in [Queries -> Answers]
    BY <2>3 DEF TypeOK
  <2> QED
    BY <1>2, <2>2, <2>4, <2>5
<1> QED
  BY <1>1, <1>2

LEMMA StepType == TypeOK /\ [Next]_vars => TypeOK'
<1> SUFFICES ASSUME TypeOK, [Next]_vars PROVE TypeOK'
  OBVIOUS
<1>1. CASE Tick
  BY <1>1 DEF Tick, TypeOK, envVars, healthVars, callVars
<1>2. ASSUME NEW h \in Hosts, Toggle(h) PROVE TypeOK'
  <2>1. steady' \in [Queries -> SUBSET Hosts]
    BY <1>2 DEF Toggle, StillSteady, TypeOK
  <2> QED
    BY <1>2, <2>1 DEF Toggle, TypeOK, healthVars, callVars
<1>3. ASSUME NEW h \in Hosts, NEW n \in Names, Propagate(h, n) PROVE TypeOK'
  <2>1. steady' \in [Queries -> SUBSET Hosts]
    BY <1>3 DEF Propagate, StillSteady, TypeOK
  <2>2. served' \subseteq Hosts \X Names
    BY <1>3 DEF Propagate, TypeOK
  <2> QED
    BY <1>3, <2>1, <2>2 DEF Propagate, TypeOK, healthVars, callVars
<1>4. ASSUME NEW q \in Queries, Begin(q) PROVE TypeOK'
  <2>1. [h \in Hosts |-> Tier(h)] \in [Hosts -> Nat]
    BY TierType
  <2>2. rank' \in [Queries -> [Hosts -> Nat]]
    BY <1>4, <2>1 DEF Begin, TypeOK
  <2>3. steady' \in [Queries -> SUBSET Hosts]
    BY <1>4 DEF Begin, TypeOK
  <2> QED
    BY <1>4, <2>2, <2>3 DEF Begin, TypeOK, Answers, envVars, healthVars
<1>5. ASSUME NEW q \in Queries, BadName(q) PROVE TypeOK'
  <2>1. Done(q, "bad_name") /\ "bad_name" \in Answers
    BY <1>5 DEF BadName, Answers
  <2>2. steady' \in [Queries -> SUBSET Hosts]
    BY <1>5 DEF BadName, TypeOK
  <2>3. UNCHANGED <<now, up, served, fails, lastFail>>
    BY <1>5 DEF BadName, envVars, healthVars
  <2>4. /\ pc' \in [Queries -> {"idle", "ask"}]
        /\ todo' \in [Queries -> SUBSET Hosts]
        /\ rank' \in [Queries -> [Hosts -> Nat]]
        /\ missed' \in [Queries -> SUBSET Hosts]
        /\ answer' \in [Queries -> Answers]
    BY <2>1, DoneType
  <2> QED
    BY <2>2, <2>3, <2>4 DEF TypeOK
<1>6. ASSUME NEW q \in Queries, NEW h \in Hosts, Found(q, h) PROVE TypeOK'
  <2>1. Done(q, "found") /\ "found" \in Answers
    BY <1>6 DEF Found, Answers
  <2>2. steady' \in [Queries -> SUBSET Hosts]
    BY <1>6 DEF Found, TypeOK
  <2>3. UNCHANGED <<now, up, served>>
    BY <1>6 DEF Found, envVars
  <2>4. /\ pc' \in [Queries -> {"idle", "ask"}]
        /\ todo' \in [Queries -> SUBSET Hosts]
        /\ rank' \in [Queries -> [Hosts -> Nat]]
        /\ missed' \in [Queries -> SUBSET Hosts]
        /\ answer' \in [Queries -> Answers]
    BY <2>1, DoneType
  <2>5. fails' \in [Hosts -> 0..MaxFailures] /\ lastFail' \in [Hosts -> Nat \cup {Never}]
    BY <1>6, HealthType DEF Found
  <2> QED
    BY <2>2, <2>3, <2>4, <2>5 DEF TypeOK
<1>7. ASSUME NEW q \in Queries, NEW h \in Hosts, NotFound(q, h) PROVE TypeOK'
  <2>1. /\ GoOn(q, h, missed[q] \cup {h}, {})
        /\ missed[q] \cup {h} \in SUBSET Hosts /\ {} \in SUBSET Hosts
    BY <1>7 DEF NotFound, TypeOK
  <2>2. /\ fails' \in [Hosts -> 0..MaxFailures]
        /\ lastFail' \in [Hosts -> Nat \cup {Never}]
        /\ pc' \in [Queries -> {"idle", "ask"}]
        /\ todo' \in [Queries -> SUBSET Hosts]
        /\ rank' \in [Queries -> [Hosts -> Nat]]
        /\ missed' \in [Queries -> SUBSET Hosts]
        /\ answer' \in [Queries -> Answers]
    BY <2>1, GoOnType
  <2>4. UNCHANGED <<now, up, served, steady>>
    BY <1>7 DEF NotFound, TypeOK, envVars
  <2> QED
    BY <2>2, <2>4 DEF TypeOK
<1>8. ASSUME NEW q \in Queries, NEW h \in Hosts, Transport(q, h) PROVE TypeOK'
  <2>1. /\ GoOn(q, h, missed[q], {h})
        /\ missed[q] \in SUBSET Hosts /\ {h} \in SUBSET Hosts
    BY <1>8 DEF Transport, TypeOK
  <2>2. /\ fails' \in [Hosts -> 0..MaxFailures]
        /\ lastFail' \in [Hosts -> Nat \cup {Never}]
        /\ pc' \in [Queries -> {"idle", "ask"}]
        /\ todo' \in [Queries -> SUBSET Hosts]
        /\ rank' \in [Queries -> [Hosts -> Nat]]
        /\ missed' \in [Queries -> SUBSET Hosts]
        /\ answer' \in [Queries -> Answers]
    BY <2>1, GoOnType
  <2>4. UNCHANGED <<now, up, served, steady>>
    BY <1>8 DEF Transport, TypeOK, envVars
  <2> QED
    BY <2>2, <2>4 DEF TypeOK
<1>9. CASE UNCHANGED vars
  BY <1>9 DEF vars, TypeOK
<1> QED
  BY <1>1, <1>2, <1>3, <1>4, <1>5, <1>6, <1>7, <1>8, <1>9 DEF Next

\* Every variable keeps its type; in particular the failure counter stays
\* within the u32 it is kept in (HostState::record_failure saturates).
THEOREM TypeCorrect == Spec => []TypeOK
<1>1. Init => TypeOK
  BY InitType
<1>2. TypeOK /\ [Next]_vars => TypeOK'
  BY StepType
<1> QED
  BY <1>1, <1>2, PTL DEF Spec

---------------------------------------------------------------------------
(* NoMissWhileServed *)

LEMMA InitSteady == Init => SteadyOK
BY DEF Init, SteadyOK

\* A host that does not serve the name is not among the steady ones, so that
\* crossing it off loses nothing.
LEMMA CrossOff ==
  ASSUME TypeOK, SteadyOK, NEW q \in Queries, NEW h \in Hosts, NEW M, NEW F,
         Turn(q, h), ~Serving(h, NameOf[q]), GoOn(q, h, M, F),
         UNCHANGED <<up, served, steady>>
  PROVE  SteadyOK'
<1>1. h \notin steady[q] /\ steady[q] \subseteq todo[q] /\ pc[q] = "ask"
  BY DEF SteadyOK, Turn
<1>2. ASSUME NEW r \in Queries
      PROVE  /\ \A g \in steady'[r] : Serving(g, NameOf[r])'
             /\ pc'[r] = "ask" => answer'[r] = "none" /\ steady'[r] \subseteq todo'[r]
             /\ pc'[r] = "idle" => steady'[r] = {}
  <2>1. \A g \in steady'[r] : Serving(g, NameOf[r])'
    BY DEF SteadyOK, Serving
  <2>2. CASE r # q
    BY <2>1, <2>2 DEF SteadyOK, GoOn, Done, TypeOK
  <2>3. CASE r = q /\ todo[q] = {h}
    BY <1>1, <2>1, <2>3 DEF GoOn, Done, TypeOK
  <2>4. CASE r = q /\ todo[q] # {h}
    BY <1>1, <2>1, <2>4 DEF SteadyOK, GoOn, TypeOK
  <2> QED
    BY <2>2, <2>3, <2>4
<1> QED
  BY <1>2 DEF SteadyOK

LEMMA StepSteady == TypeOK /\ SteadyOK /\ [Next]_vars => SteadyOK'
<1> SUFFICES ASSUME TypeOK, SteadyOK, [Next]_vars PROVE SteadyOK'
  OBVIOUS
<1>1. CASE Tick
  BY <1>1 DEF Tick, SteadyOK, Serving, envVars, callVars
<1>2. ASSUME NEW h \in Hosts, Toggle(h) PROVE SteadyOK'
  <2>1. steady' = StillSteady(up', served) /\ UNCHANGED <<served, pc, todo, answer>>
    BY <1>2 DEF Toggle, callVars
  <2> QED
    BY <2>1 DEF SteadyOK, StillSteady, Serving
<1>3. ASSUME NEW h \in Hosts, NEW n \in Names, Propagate(h, n) PROVE SteadyOK'
  <2>1. steady' = StillSteady(up, served') /\ UNCHANGED <<up, pc, todo, answer>>
    BY <1>3 DEF Propagate, callVars
  <2> QED
    BY <2>1 DEF SteadyOK, StillSteady, Serving
<1>4. ASSUME NEW q \in Queries, Begin(q) PROVE SteadyOK'
  BY <1>4 DEF Begin, SteadyOK, Serving, TypeOK, envVars
<1>5. ASSUME NEW q \in Queries, BadName(q) PROVE SteadyOK'
  BY <1>5 DEF BadName, Done, SteadyOK, Serving, TypeOK, envVars
<1>6. ASSUME NEW q \in Queries, NEW h \in Hosts, Found(q, h) PROVE SteadyOK'
  BY <1>6 DEF Found, Done, SteadyOK, Serving, TypeOK, envVars
<1>7. ASSUME NEW q \in Queries, NEW h \in Hosts, NotFound(q, h) PROVE SteadyOK'
  <2>1. /\ Turn(q, h) /\ ~Serving(h, NameOf[q])
        /\ GoOn(q, h, missed[q] \cup {h}, {})
        /\ UNCHANGED <<up, served, steady>>
    BY <1>7 DEF NotFound, envVars
  <2> QED
    BY <2>1, CrossOff
<1>8. ASSUME NEW q \in Queries, NEW h \in Hosts, Transport(q, h) PROVE SteadyOK'
  <2>1. /\ Turn(q, h) /\ ~Serving(h, NameOf[q])
        /\ GoOn(q, h, missed[q], {h})
        /\ UNCHANGED <<up, served, steady>>
    BY <1>8 DEF Transport, Serving, envVars
  <2> QED
    BY <2>1, CrossOff
<1>9. CASE UNCHANGED vars
  BY <1>9 DEF vars, SteadyOK, Serving
<1> QED
  BY <1>1, <1>2, <1>3, <1>4, <1>5, <1>6, <1>7, <1>8, <1>9 DEF Next

\* query_txt_record returns Ok(None) only if no resolver served the name for
\* the whole call: cooldown reorders the hosts and leaves none out.
THEOREM NoMissHolds == Spec => []NoMissWhileServed
<1>1. Init => TypeOK /\ SteadyOK
  BY InitType, InitSteady
<1>2. TypeOK /\ SteadyOK /\ [Next]_vars => (TypeOK /\ SteadyOK)'
  BY StepType, StepSteady
<1>3. TypeOK /\ SteadyOK => NoMissWhileServed
  <2> SUFFICES ASSUME TypeOK, SteadyOK, NEW q \in Queries, answer[q] = "absent"
               PROVE  steady[q] = {}
    BY DEF NoMissWhileServed
  <2>1. pc[q] \in {"idle", "ask"}
    BY DEF TypeOK
  <2> QED
    BY <2>1 DEF SteadyOK
<1> QED
  BY <1>1, <1>2, <1>3, PTL DEF Spec

---------------------------------------------------------------------------
(* DemotedForCause *)

\* A counter grows only for a host given to record_failure.
LEMMA GrowsOnlyIfFailed ==
  ASSUME TypeOK, NEW F, NEW S, NEW h \in Hosts, Fails(F, S)[h] > fails[h]
  PROVE  h \in F
BY PoolAssumption DEF Fails, TypeOK

LEMMA GoOnCause ==
  ASSUME TypeOK, NEW q \in Queries, NEW g \in Hosts, NEW M, NEW F,
         GoOn(q, g, M, F), NEW h \in Hosts, fails'[h] > fails[h]
  PROVE  h \in F
BY GrowsOnlyIfFailed DEF GoOn

\* Only a host that did not answer, or one whose denial another host
\* disproved in the same call, moves towards its cooldown.
THEOREM DemotedForCauseHolds == Spec => DemotedForCause
<1>1. TypeOK /\ [Next]_vars =>
        [\A h \in Hosts : fails'[h] > fails[h]
           => h \notin up \/ \E q \in Queries : h \in missed[q] /\ answer'[q] = "found"]_vars
  <2> SUFFICES ASSUME TypeOK, Next, NEW h \in Hosts, fails'[h] > fails[h]
               PROVE  h \notin up \/ \E q \in Queries : h \in missed[q] /\ answer'[q] = "found"
    OBVIOUS
  <2>0. fails[h] \in Nat
    BY DEF TypeOK
  <2>1. fails' # fails
    BY <2>0
  <2>2. ASSUME NEW q \in Queries, NEW g \in Hosts, Found(q, g)
        PROVE  h \in missed[q] /\ answer'[q] = "found"
    <3>1. h \in missed[q]
      BY <2>2, GrowsOnlyIfFailed DEF Found
    <3>2. answer'[q] = "found"
      BY <2>2 DEF Found, Done, TypeOK
    <3> QED
      BY <3>1, <3>2
  <2>3. ASSUME NEW q \in Queries, NEW g \in Hosts, NotFound(q, g)
        PROVE  FALSE
    BY <2>3, GoOnCause DEF NotFound
  <2>4. ASSUME NEW q \in Queries, NEW g \in Hosts, Transport(q, g)
        PROVE  h \notin up
    <3>1. h \in {g}
      BY <2>4, GoOnCause DEF Transport
    <3> QED
      BY <2>4, <3>1 DEF Transport
  <2>5. \E q \in Queries, g \in Hosts : Found(q, g) \/ NotFound(q, g) \/ Transport(q, g)
    BY <2>1 DEF Next, Tick, Toggle, Propagate, Begin, BadName, healthVars
  <2> QED
    BY <2>2, <2>3, <2>4, <2>5
<1>2. Spec => []TypeOK
  BY TypeCorrect
<1> QED
  BY <1>1, <1>2, PTL DEF Spec, DemotedForCause
=============================================================================
