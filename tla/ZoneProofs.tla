----------------------------- MODULE ZoneProofs -----------------------------
(***************************************************************************)
(* Proofs about one DNS name under several writers: what a backend has     *)
(* acknowledged it keeps, what a delete has cleared stays cleared, a       *)
(* lookup finds what was acknowledged before it, and a locked publisher    *)
(* leaves one record; for any deployment, number of calls and values.      *)
(*                                                                         *)
(* The case analysis over the actions is made once, in the lemmas on what  *)
(* a step may do to the calls, the wire, a stage and a zone; the           *)
(* invariants follow from those.                                           *)
(***************************************************************************)
EXTENDS Zone, FiniteSetTheorems, TLAPS

Records == [id : Nat, val : Values, live : BOOLEAN]
Stages  == {"idle", "start", "get"} \cup Waiting \cup Final

TypeOK ==
    /\ dep \in Deployments
    /\ zone \in [Backends -> SUBSET Records]
    /\ call \in [Calls -> [op : {"none", "publish", "delete"}, val : Values \cup {All}]]
    /\ \A c \in Calls : call[c].op = "publish" => call[c].val \in Values
    /\ stage \in [Calls -> [Backends -> Stages]]
    /\ target \in [Calls -> [Backends -> Nat]]
    /\ wire \subseteq Calls \X Backends
    /\ result \in [Calls -> {"none", "true", "false"}]
    /\ over \in [Calls -> SUBSET Calls]
    /\ reader \in [mode : {"idle", "union", "composite"}, asked : SUBSET Backends,
                   failed : SUBSET Backends, heard : SUBSET Values,
                   owed : SUBSET Values]

\* A call not made has no request, no answer and no result.
Unmade ==
    \A c \in Calls \ Issued :
        /\ result[c] = "none"
        /\ \A b \in Backends : stage[c][b] = "idle" /\ <<c, b>> \notin wire

---------------------------------------------------------------------------
LEMMA CallsNat == Calls \subseteq Nat \ {0}
BY ZoneAssumption DEF Calls

\* A deployment is a list of writers, so it is finite.
LEMMA BackendsFinite == dep \in Deployments => IsFiniteSet(Backends)
<1> SUFFICES ASSUME dep \in Deployments PROVE IsFiniteSet(Backends)
  OBVIOUS
<1>1. kind \in Seq({"update", "foreign", "cloudflare", "node", "memory"})
  BY ZoneAssumption DEF kind
<1>2. Backends = 1 .. Len(kind) /\ Len(kind) \in Nat
  BY <1>1 DEF Backends
<1> QED
  BY <1>2, FS_Interval

LEMMA NeedType == dep \in Deployments => Need \in Nat
<1> SUFFICES ASSUME dep \in Deployments PROVE Need \in Nat
  OBVIOUS
<1>1. Cardinality(Backends) \in Nat
  BY BackendsFinite, FS_CardinalityType
<1>2. \/ quorum \in {<<"all">>, <<"any">>}
      \/ quorum[1] = "atleast" /\ quorum[2] \in Nat
  BY ZoneAssumption DEF quorum
<1>3. CASE quorum = <<"all">>
  BY <1>1, <1>3 DEF Need
<1>4. CASE quorum = <<"any">>
  BY <1>4 DEF Need
<1>5. CASE quorum[1] = "atleast" /\ quorum[2] \in Nat
  BY <1>5 DEF Need
<1> QED
  BY <1>2, <1>3, <1>4, <1>5

\* What a request leaves in a zone is again a set of records.
LEMMA EffectsType ==
  ASSUME TypeOK, NEW c \in Issued, NEW b \in Backends
  PROVE  /\ Effects(c, b) \subseteq SUBSET Records
         /\ RRset(c, zone[b]) \subseteq Records
<1>1. c \in Calls /\ c \in Nat /\ target[c][b] \in Nat /\ zone[b] \subseteq Records
  BY CallsNat DEF TypeOK, Issued
<1>2. call[c].op = "publish" => call[c].val \in Values
  BY <1>1 DEF TypeOK
<1>3. ASSUME call[c].op = "publish", NEW i \in Nat
      PROVE  [id |-> i, val |-> call[c].val, live |-> TRUE] \in Records
  BY <1>2, <1>3 DEF Records
<1>4. RRset(c, zone[b]) \subseteq Records
  <2>1. CASE call[c].op = "publish"
    BY <1>1, <1>3, <2>1 DEF RRset, Add, None
  <2>2. CASE call[c].op # "publish"
    BY <1>1, <2>2 DEF RRset, Drop
  <2> QED
    BY <2>1, <2>2
<1>5. ById(c, b) \subseteq Records
  <2>1. CASE ~Found(c, b)
    BY <1>1, <2>1 DEF ById
  <2>2. CASE Found(c, b) /\ call[c].op = "delete"
    BY <1>1, <2>2 DEF ById
  <2>3. CASE Found(c, b) /\ call[c].op # "delete"
    <3>1. call[c].op = "publish"
      BY <1>1, <2>3 DEF Issued, TypeOK
    <3>2. ById(c, b) = {r \in zone[b] : r.id # target[c][b]}
                \cup {[id |-> IF target[c][b] = None THEN c ELSE target[c][b],
                       val |-> call[c].val, live |-> TRUE]}
      BY <2>3, <3>1 DEF ById
    <3> QED
      BY <1>1, <1>3, <3>1, <3>2
  <2> QED
    BY <2>1, <2>2, <2>3
<1> QED
  BY <1>4, <1>5 DEF Effects

---------------------------------------------------------------------------
(* What a step may do. *)

LEMMA FixedDeployment ==
  ASSUME dep' = dep
  PROVE  Backends' = Backends /\ kind' = kind /\ quorum' = quorum /\ Need' = Need
BY DEF Backends, kind, quorum, Need

LEMMA GoMoves ==
  ASSUME TypeOK, NEW c \in Calls, NEW b \in Backends, NEW s \in Stages, Go(c, b, s)
  PROVE  /\ stage' \in [Calls -> [Backends -> Stages]]
         /\ stage'[c][b] = s
         /\ \A d \in Calls, a \in Backends :
              d # c \/ a # b => stage'[d][a] = stage[d][a]
BY DEF TypeOK, Go

\* What a writer's step for call c at backend b does: no other stage and no other zone
\* changes, the zone of b only by the effect of c's request, which was under
\* way or is made now.
MoveType ==
    /\ stage' \in [Calls -> [Backends -> Stages]]
    /\ zone' \in [Backends -> SUBSET Records]
    /\ wire' \subseteq Calls \X Backends
    /\ target' \in [Calls -> [Backends -> Nat]]

MoveFrame(c, b) ==
    /\ \A d \in Calls, a \in Backends :
         d # c \/ a # b => /\ stage'[d][a] = stage[d][a]
                           /\ target'[d][a] = target[d][a]
                           /\ <<d, a>> \in wire' => <<d, a>> \in wire
    /\ \A a \in Backends \ {b} : zone'[a] = zone[a]

MoveZone(c, b) ==
    zone'[b] # zone[b] =>
        /\ zone'[b] \in Effects(c, b)
        /\ <<c, b>> \in wire \/ (stage[c][b] = "start" /\ kind[b] # "cloudflare")

MoveWire(c, b) ==
    <<c, b>> \in wire' => \/ <<c, b>> \in wire
                          \/ stage[c][b] = "get" /\ stage'[c][b] = "sent"

MoveStage(c, b) ==
    /\ stage[c][b] \in Final => stage'[c][b] = stage[c][b]
    /\ stage'[c][b] = "ok" /\ stage[c][b] # "ok" =>
         \/ zone'[b] \in Effects(c, b) /\ (kind[b] = "cloudflare" => Found(c, b))
         \/ kind[b] = "cloudflare" /\ call[c].op = "delete"

Move(c, b) ==
    /\ UNCHANGED <<dep, call, result, over, reader>>
    /\ MoveType /\ MoveFrame(c, b)
    /\ MoveZone(c, b) /\ MoveWire(c, b) /\ MoveStage(c, b)

LEMMA StepMoves ==
  ASSUME TypeOK, Unmade, NEW c \in Calls, NEW b \in Backends, Step(c, b)
  PROVE  c \in Issued /\ Move(c, b)
<1>1. c \in Issued
  <2>1. stage[c][b] # "idle" \/ <<c, b>> \in wire
    BY DEF Step, Lock, FindRecord, Fail, Apply, Truncated, Lose, InMemory, Waiting
  <2> QED
    BY <2>1 DEF Unmade
<1> SUFFICES Move(c, b)
  BY <1>1
<1>2. c \in Nat /\ zone[b] \subseteq Records
  BY CallsNat DEF TypeOK
<1>3. CASE Lock(c, b)
  <2>1. Go(c, b, "get") /\ "get" \in Stages /\ stage[c][b] = "start"
    BY <1>3 DEF Lock, Stages
  <2>2. /\ UNCHANGED <<dep, zone, call, target, wire, result, over, reader>>
    BY <1>3 DEF Lock
  <2>3. "start" \notin Final /\ "get" # "ok"
    BY DEF Final
  <2> QED
    BY <1>2, <2>1, <2>2, <2>3, GoMoves DEF Move, MoveType, MoveFrame, MoveZone, MoveWire, MoveStage, TypeOK
<1>4. CASE FindRecord(c, b)
  <2>1. kind[b] = "cloudflare" /\ stage[c][b] = "get" /\ UNCHANGED <<dep, zone, call, result, over, reader>>
    BY <1>4 DEF FindRecord
  <2>2. PICK id \in IF zone[b] = {} THEN {None} ELSE {r.id : r \in zone[b]} :
          /\ target' = [target EXCEPT ![c][b] = id]
          /\ IF id = None /\ call[c].op = "delete"
             THEN Go(c, b, "ok") /\ UNCHANGED wire
             ELSE Go(c, b, "sent") /\ wire' = wire \cup {<<c, b>>}
    BY <1>4 DEF FindRecord
  <2>3. id \in Nat
    BY <1>2, <2>2 DEF None, Records
  <2>4. /\ target' \in [Calls -> [Backends -> Nat]]
        /\ \A d \in Calls, a \in Backends :
             d # c \/ a # b => target'[d][a] = target[d][a]
    BY <2>2, <2>3 DEF TypeOK
  <2>5. "get" \notin Final /\ {"ok", "sent"} \subseteq Stages
    BY DEF Final, Stages, Waiting
  <2>6. CASE id = None /\ call[c].op = "delete"
    <3>1. Go(c, b, "ok") /\ UNCHANGED wire
      BY <2>2, <2>6
    <3> QED
      BY <1>2, <2>1, <2>4, <2>5, <2>6, <3>1, GoMoves DEF Move, MoveType, MoveFrame, MoveZone, MoveWire, MoveStage, TypeOK
  <2>7. CASE ~(id = None /\ call[c].op = "delete")
    <3>1. Go(c, b, "sent") /\ wire' = wire \cup {<<c, b>>}
      BY <2>2, <2>7
    <3> QED
      BY <1>2, <2>1, <2>4, <2>5, <3>1, GoMoves DEF Move, MoveType, MoveFrame, MoveZone, MoveWire, MoveStage, TypeOK
  <2> QED
    BY <2>6, <2>7
<1>5. CASE Fail(c, b)
  <2>1. Go(c, b, "err") /\ "err" \in Stages /\ stage[c][b] \notin Final
    BY <1>5 DEF Fail, Stages, Final, Waiting
  <2>2. /\ UNCHANGED <<dep, zone, call, target, wire, result, over, reader>>
    BY <1>5 DEF Fail
  <2> QED
    BY <1>2, <2>1, <2>2, GoMoves DEF Move, MoveType, MoveFrame, MoveZone, MoveWire, MoveStage, TypeOK
<1>6. CASE Apply(c, b)
  <2>1. <<c, b>> \in wire /\ UNCHANGED <<dep, call, target, result, over, reader>>
    BY <1>6 DEF Apply
  <2>2. PICK new \in Effects(c, b) : zone' = [zone EXCEPT ![b] = new]
    BY <1>6 DEF Apply
  <2>3. wire' \subseteq wire /\ wire \subseteq Calls \X Backends
    BY <1>6 DEF Apply, TypeOK
  <2>4. /\ zone' \in [Backends -> SUBSET Records] /\ zone'[b] \in Effects(c, b)
        /\ \A a \in Backends \ {b} : zone'[a] = zone[a]
    BY <1>1, <2>2, EffectsType DEF TypeOK
  <2>5. CASE UNCHANGED stage
    <3> QED
      BY <2>1, <2>3, <2>4, <2>5 DEF Move, MoveType, MoveFrame, MoveZone, MoveWire, MoveStage, TypeOK
  <2>6. CASE /\ stage[c][b] \in Waiting
             /\ Go(c, b, IF kind[b] # "cloudflare" \/ Found(c, b) THEN "ok" ELSE "err")
    <3>1. stage[c][b] \notin Final /\ {"ok", "err"} \subseteq Stages
      BY <2>6 DEF Final, Waiting, Stages
    <3>2. CASE kind[b] # "cloudflare" \/ Found(c, b)
      <4>1. Go(c, b, "ok")
        BY <2>6, <3>2
      <4> QED
        BY <2>1, <2>3, <2>4, <3>1, <3>2, <4>1, GoMoves DEF Move, MoveType, MoveFrame, MoveZone, MoveWire, MoveStage, TypeOK
    <3>3. CASE ~(kind[b] # "cloudflare" \/ Found(c, b))
      <4>1. Go(c, b, "err")
        BY <2>6, <3>3
      <4> QED
        BY <2>1, <2>3, <2>4, <3>1, <3>3, <4>1, GoMoves DEF Move, MoveType, MoveFrame, MoveZone, MoveWire, MoveStage, TypeOK
    <3> QED
      BY <3>2, <3>3
  <2> QED
    BY <1>6, <2>5, <2>6 DEF Apply
<1>7. CASE Truncated(c, b)
  <2>1. /\ Go(c, b, "tcp") /\ "tcp" \in Stages /\ stage[c][b] \notin Final
        /\ <<c, b>> \in wire /\ UNCHANGED <<dep, call, target, wire, result, over, reader>>
    BY <1>7 DEF Truncated, Stages, Final, Waiting
  <2>2. PICK new \in Effects(c, b) \cup {zone[b]} : zone' = [zone EXCEPT ![b] = new]
    BY <1>7 DEF Truncated
  <2>3. /\ zone' \in [Backends -> SUBSET Records]
        /\ zone'[b] = zone[b] \/ zone'[b] \in Effects(c, b)
        /\ \A a \in Backends \ {b} : zone'[a] = zone[a]
    BY <1>1, <2>2, EffectsType DEF TypeOK
  <2> QED
    BY <2>1, <2>3, GoMoves DEF Move, MoveType, MoveFrame, MoveZone, MoveWire, MoveStage, TypeOK
<1>8. CASE Lose(c, b)
  BY <1>8 DEF Lose, Move, MoveType, MoveFrame, MoveZone, MoveWire, MoveStage, TypeOK
<1>9. CASE InMemory(c, b)
  <2>1. /\ kind[b] = "memory" /\ stage[c][b] = "start"
        /\ zone' = [zone EXCEPT ![b] = RRset(c, zone[b])]
        /\ UNCHANGED <<dep, call, target, wire, result, over, reader>>
    BY <1>9 DEF InMemory
  <2>2. PICK s \in {"ok", "no"} : Go(c, b, s)
    BY <1>9 DEF InMemory
  <2>3. "start" \notin Final /\ s \in Stages
    BY DEF Final, Stages
  <2>4. Effects(c, b) = {RRset(c, zone[b])}
    BY <2>1 DEF Effects
  <2>5. /\ zone' \in [Backends -> SUBSET Records] /\ zone'[b] \in Effects(c, b)
        /\ \A a \in Backends \ {b} : zone'[a] = zone[a]
    BY <1>1, <2>1, <2>4, EffectsType DEF TypeOK
  <2> QED
    BY <2>1, <2>2, <2>3, <2>5, GoMoves DEF Move, MoveType, MoveFrame, MoveZone, MoveWire, MoveStage, TypeOK
<1> QED
  BY <1>3, <1>4, <1>5, <1>6, <1>7, <1>8, <1>9 DEF Step

LEMMA FirstType == \A b \in Backends : First(b) \in Stages \ {"idle", "ok", "get"}
BY DEF First, Stages, Waiting, Final

\* What the issue of call c does: c was not made before, its writers are where
\* they start and its request is on the wire where it is sent at once; the
\* other calls and the zones are as they were.
IssueCall(c, op, v) ==
    /\ call' \in [Calls -> [op : {"none", "publish", "delete"}, val : Values \cup {All}]]
    /\ op = "publish" => v \in Values
    /\ call'[c] = [op |-> op, val |-> v]
    /\ \A d \in Calls : d # c => call'[d] = call[d]

IssueStage(c) ==
    /\ stage' \in [Calls -> [Backends -> Stages]]
    /\ \A b \in Backends : stage'[c][b] = First(b)
    /\ \A d \in Calls : d # c => stage'[d] = stage[d]

IssueWire(c) ==
    /\ wire' \subseteq Calls \X Backends
    /\ \A d \in Calls, b \in Backends :
         <<d, b>> \in wire' => <<d, b>> \in wire \/ (d = c /\ First(b) \in Waiting)

IssueMove(c, op, v) ==
    /\ c \notin Issued /\ Issued' = Issued \cup {c}
    /\ UNCHANGED <<dep, zone, target, result, reader>>
    /\ IssueCall(c, op, v) /\ IssueStage(c) /\ IssueWire(c)

LEMMA IssueMoves ==
  ASSUME TypeOK, NEW c \in Calls, NEW op \in {"publish", "delete"},
         NEW v \in Values \cup {All}, Issue(c, op, v)
  PROVE  IssueMove(c, op, v)
<1>1. c \notin Issued
  BY DEF Issue, Issued
<1>2. /\ UNCHANGED <<dep, zone, target, result, reader>>
      /\ call' = [call EXCEPT ![c] = [op |-> op, val |-> v]]
      /\ stage' = [stage EXCEPT ![c] = [b \in Backends |-> First(b)]]
      /\ wire' = wire \cup {<<c, b>> : b \in {a \in Backends : First(a) \in Waiting}}
      /\ v = All => op = "delete"
  BY DEF Issue
<1>3. IssueCall(c, op, v)
  BY <1>2 DEF TypeOK, IssueCall
<1>4. Issued' = Issued \cup {c}
  BY <1>1, <1>3 DEF Issued, IssueCall
<1>5. [b \in Backends |-> First(b)] \in [Backends -> Stages]
  BY FirstType
<1>6. IssueStage(c)
  BY <1>2, <1>5 DEF TypeOK, IssueStage
<1>7. IssueWire(c)
  BY <1>2 DEF TypeOK, IssueWire
<1> QED
  BY <1>1, <1>2, <1>3, <1>4, <1>6, <1>7 DEF IssueMove

LEMMA ExpireMoves ==
  ASSUME TypeOK, NEW b \in Backends, NEW r \in zone[b], Expire(b, r)
  PROVE  /\ UNCHANGED <<dep, call, stage, target, wire, result, over>>
         /\ kind[b] = "memory"
         /\ zone' \in [Backends -> SUBSET Records]
         /\ zone'[b] = (zone[b] \ {r}) \cup {[r EXCEPT !.live = FALSE]}
         /\ \A a \in Backends \ {b} : zone'[a] = zone[a]
         /\ reader' = [reader EXCEPT !.owed = @ \ {r.val}]
         /\ r \in Records
<1>1. r \in Records
  BY DEF TypeOK
<1>2. [r EXCEPT !.live = FALSE] \in Records
  BY <1>1 DEF Records
<1> QED
  BY <1>1, <1>2 DEF Expire, TypeOK

\* The parts of Next, with those that leave everything but the lookup alone
\* taken together.
LEMMA NextCases ==
  ASSUME TypeOK, Unmade, [Next]_vars
  PROVE  \/ \E c \in Calls, op \in {"publish", "delete"}, v \in Values \cup {All} :
              Issue(c, op, v)
         \/ \E c \in Calls : Return(c)
         \/ \E c \in Issued, b \in Backends : Step(c, b) /\ Move(c, b)
         \/ \E b \in Backends : \E r \in zone[b] : Expire(b, r)
         \/ UNCHANGED <<dep, zone, call, stage, target, wire, result, over>>
<1>1. CASE \E c \in Calls, b \in Backends : Step(c, b)
  BY <1>1, StepMoves
<1>2. CASE \E m \in {"union", "composite"} : StartLookup(m)
  BY <1>2 DEF StartLookup
<1>3. CASE \E b \in Backends, fails \in BOOLEAN : Ask(b, fails)
  BY <1>3 DEF Ask
<1>4. CASE Answer \/ Done \/ UNCHANGED vars
  BY <1>4 DEF Answer, Done, vars
<1> QED
  BY <1>1, <1>2, <1>3, <1>4 DEF Next

---------------------------------------------------------------------------
(* Types. *)

LEMMA InitType == Init => TypeOK /\ Unmade
<1> SUFFICES ASSUME Init PROVE TypeOK /\ Unmade
  OBVIOUS
<1>1. TypeOK
  BY DEF Init, TypeOK, NoCall, None, Idle, Stages
<1>2. Unmade
  BY DEF Init, Unmade
<1> QED
  BY <1>1, <1>2

LEMMA ServedType ==
  ASSUME TypeOK, NEW b \in Backends
  PROVE  Served(b) \subseteq Values
BY DEF TypeOK, Served, Records

\* Only the steps of the lookup, and an expiry, touch the lookup.
LEMMA ReaderCases ==
  ASSUME Next
  PROVE  \/ UNCHANGED reader
         \/ \E m \in {"union", "composite"} : StartLookup(m)
         \/ \E b \in Backends, fails \in BOOLEAN : Ask(b, fails)
         \/ \E b \in Backends : \E r \in zone[b] : Expire(b, r)
         \/ Answer
<1>1. ASSUME NEW c \in Calls, NEW op, NEW v, Issue(c, op, v)
      PROVE  UNCHANGED reader
  BY <1>1 DEF Issue
<1>2. ASSUME NEW c \in Calls, Return(c)
      PROVE  UNCHANGED reader
  BY <1>2 DEF Return
<1>3. ASSUME NEW c \in Calls, NEW b \in Backends, Step(c, b)
      PROVE  UNCHANGED reader
  BY <1>3 DEF Step, Lock, FindRecord, Fail, Apply, Truncated, Lose, InMemory
<1>4. CASE Done
  BY <1>4 DEF Done, vars
<1> QED
  BY <1>1, <1>2, <1>3, <1>4 DEF Next

LEMMA ReaderType ==
  ASSUME TypeOK, Next
  PROVE  reader' \in [mode : {"idle", "union", "composite"}, asked : SUBSET Backends,
                      failed : SUBSET Backends, heard : SUBSET Values, owed : SUBSET Values]
<1>1. CASE UNCHANGED reader
  BY <1>1 DEF TypeOK
<1>2. ASSUME NEW m \in {"union", "composite"}, StartLookup(m)
      PROVE  reader' \in [mode : {"idle", "union", "composite"}, asked : SUBSET Backends,
                          failed : SUBSET Backends, heard : SUBSET Values, owed : SUBSET Values]
  BY <1>2 DEF StartLookup, Idle, Acknowledged
<1>3. ASSUME NEW b \in Backends, NEW fails \in BOOLEAN, Ask(b, fails)
      PROVE  reader' \in [mode : {"idle", "union", "composite"}, asked : SUBSET Backends,
                          failed : SUBSET Backends, heard : SUBSET Values, owed : SUBSET Values]
  BY <1>3, ServedType DEF Ask, TypeOK
<1>4. ASSUME NEW b \in Backends, NEW r \in zone[b], Expire(b, r)
      PROVE  reader' \in [mode : {"idle", "union", "composite"}, asked : SUBSET Backends,
                          failed : SUBSET Backends, heard : SUBSET Values, owed : SUBSET Values]
  BY <1>4 DEF Expire, TypeOK
<1>5. CASE Answer
  BY <1>5 DEF Answer, Idle
<1> QED
  BY <1>1, <1>2, <1>3, <1>4, <1>5, ReaderCases

LEMMA OverType ==
  ASSUME TypeOK, NEW c \in Calls, NEW op, NEW v, Issue(c, op, v)
  PROVE  over' \in [Calls -> SUBSET Calls]
BY DEF TypeOK, Issue, Restless, Issued

LEMMA StepType == TypeOK /\ Unmade /\ [Next]_vars => TypeOK' /\ Unmade'
<1> SUFFICES ASSUME TypeOK, Unmade, [Next]_vars PROVE TypeOK' /\ Unmade'
  OBVIOUS
<1>1. ASSUME NEW c \in Calls, NEW op \in {"publish", "delete"},
             NEW v \in Values \cup {All}, Issue(c, op, v)
      PROVE  TypeOK' /\ Unmade'
  <2>1. over' \in [Calls -> SUBSET Calls]
    BY <1>1, OverType
  <2>7. IssueMove(c, op, v)
    BY <1>1, IssueMoves
  <2>0. /\ c \notin Issued /\ Issued' = Issued \cup {c}
        /\ UNCHANGED <<dep, zone, target, result, reader>>
        /\ call' \in [Calls -> [op : {"none", "publish", "delete"}, val : Values \cup {All}]]
        /\ op = "publish" => v \in Values
        /\ call'[c] = [op |-> op, val |-> v]
        /\ \A d \in Calls : d # c => call'[d] = call[d]
    BY <2>7 DEF IssueMove, IssueCall
  <2>6. /\ stage' \in [Calls -> [Backends -> Stages]]
        /\ wire' \subseteq Calls \X Backends
    BY <2>7 DEF IssueMove, IssueStage, IssueWire
  <2>2. \A d \in Calls : call'[d].op = "publish" => call'[d].val \in Values
    <3>1. call'[c].op = op /\ call'[c].val = v
      BY <2>0
    <3> QED
      BY <2>0, <3>1 DEF TypeOK
  <2>3. Backends' = Backends
    BY <2>0, FixedDeployment
  <2>4. TypeOK'
    BY <2>0, <2>6, <2>1, <2>2, <2>3 DEF TypeOK
  <2>5. ASSUME NEW d \in Calls \ Issued'
        PROVE  /\ result'[d] = "none"
               /\ \A b \in Backends : stage'[d][b] = "idle" /\ <<d, b>> \notin wire'
    <3>1. d \in Calls \ Issued /\ d # c /\ d \in Calls
      BY <2>0, <2>5
    <3>2. stage'[d] = stage[d] /\ \A b \in Backends : <<d, b>> \in wire' => <<d, b>> \in wire
      BY <2>7, <3>1 DEF IssueMove, IssueStage, IssueWire
    <3> QED
      BY <2>0, <3>1, <3>2 DEF Unmade
  <2> QED
    BY <2>3, <2>4, <2>5 DEF Unmade
<1>2. ASSUME NEW c \in Calls, Return(c)
      PROVE  TypeOK' /\ Unmade'
  <2>1. /\ UNCHANGED <<dep, zone, call, stage, target, wire, over, reader>>
        /\ result' \in [Calls -> {"none", "true", "false"}]
        /\ \A d \in Calls : d # c => result'[d] = result[d]
    BY <1>2 DEF Return, TypeOK
  <2>2. Backends' = Backends /\ Issued' = Issued
    BY <2>1, FixedDeployment DEF Issued
  <2>3. TypeOK'
    BY <2>1, <2>2 DEF TypeOK
  <2>4. c \in Issued
    BY <1>2 DEF Return
  <2> QED
    BY <2>1, <2>2, <2>3, <2>4 DEF Unmade
<1>3. ASSUME NEW c \in Issued, NEW b \in Backends, Move(c, b)
      PROVE  TypeOK' /\ Unmade'
  <2>1. Backends' = Backends /\ Issued' = Issued
    BY <1>3, FixedDeployment DEF Move, Issued
  <2>2. TypeOK'
    BY <1>3, <2>1 DEF Move, MoveType, TypeOK
  <2>3. Unmade'
    BY <1>3, <2>1 DEF Move, MoveFrame, Unmade, Issued
  <2> QED
    BY <2>2, <2>3
<1>4. ASSUME NEW b \in Backends, NEW r \in zone[b], Expire(b, r), Next
      PROVE  TypeOK' /\ Unmade'
  <2>1. Backends' = Backends /\ Issued' = Issued
    BY <1>4, ExpireMoves, FixedDeployment DEF Issued
  <2>2. TypeOK'
    BY <1>4, <2>1, ExpireMoves, ReaderType DEF TypeOK
  <2> QED
    BY <1>4, <2>1, <2>2, ExpireMoves DEF Unmade
<1>5. CASE UNCHANGED <<dep, zone, call, stage, target, wire, result, over>>
  <2>1. Backends' = Backends /\ Issued' = Issued
    BY <1>5, FixedDeployment DEF Issued
  <2>2. reader' \in [mode : {"idle", "union", "composite"}, asked : SUBSET Backends,
                     failed : SUBSET Backends, heard : SUBSET Values, owed : SUBSET Values]
    BY ReaderType DEF vars, TypeOK
  <2>3. TypeOK'
    BY <1>5, <2>1, <2>2 DEF TypeOK
  <2> QED
    BY <1>5, <2>1, <2>3 DEF Unmade
<1>6. ASSUME NEW b \in Backends, NEW r \in zone[b], Expire(b, r), UNCHANGED vars
      PROVE  FALSE
  BY <1>6, ExpireMoves DEF Expire, vars, TypeOK, Records
<1> QED
  BY <1>1, <1>2, <1>3, <1>4, <1>5, <1>6, NextCases

\* Every part of the model's state keeps its type, and a call not made has
\* left no trace: the frame of the proofs below.
THEOREM TypeCorrect == Spec => [](TypeOK /\ Unmade)
BY InitType, StepType, PTL DEF Spec

---------------------------------------------------------------------------
(* Calls and answers are only added. *)

LEMMA Grows ==
  ASSUME TypeOK, Unmade, [Next]_vars
  PROVE  /\ Backends' = Backends /\ kind' = kind /\ Need' = Need
         /\ Issued \subseteq Issued'
         /\ \A c \in Issued : call'[c] = call[c]
         /\ \A c \in Issued, b \in Backends :
              stage[c][b] \in Final => stage'[c][b] = stage[c][b]
<1>1. ASSUME NEW c \in Calls, NEW op \in {"publish", "delete"},
             NEW v \in Values \cup {All}, Issue(c, op, v)
      PROVE  /\ dep' = dep /\ Issued \subseteq Issued'
             /\ \A d \in Issued : call'[d] = call[d] /\ stage'[d] = stage[d]
  <2>0. IssueMove(c, op, v)
    BY <1>1, IssueMoves
  <2>1. c \notin Issued /\ dep' = dep /\ Issued' = Issued \cup {c}
    BY <2>0 DEF IssueMove
  <2>2. \A d \in Calls : d # c => call'[d] = call[d] /\ stage'[d] = stage[d]
    BY <2>0 DEF IssueMove, IssueCall, IssueStage
  <2> QED
    BY <2>1, <2>2 DEF Issued
<1>2. ASSUME NEW c \in Calls, Return(c)
      PROVE  UNCHANGED <<dep, call, stage>>
  BY <1>2 DEF Return
<1>3. ASSUME NEW c \in Issued, NEW b \in Backends, Move(c, b)
      PROVE  /\ UNCHANGED <<dep, call>>
             /\ \A d \in Issued, a \in Backends :
                  stage[d][a] \in Final => stage'[d][a] = stage[d][a]
  BY <1>3 DEF Move, MoveFrame, MoveStage, Issued
<1>4. ASSUME NEW b \in Backends, NEW r \in zone[b], Expire(b, r)
      PROVE  UNCHANGED <<dep, call, stage>>
  BY <1>4 DEF Expire
<1>5. /\ dep' = dep /\ Issued \subseteq Issued'
      /\ \A c \in Issued : call'[c] = call[c]
      /\ \A c \in Issued, b \in Backends :
           stage[c][b] \in Final => stage'[c][b] = stage[c][b]
  BY <1>1, <1>2, <1>3, <1>4, NextCases DEF Issued
<1> QED
  BY <1>5, FixedDeployment

LEMMA DisturbingGrows ==
  ASSUME TypeOK, Unmade, [Next]_vars, NEW b \in Backends, NEW v
  PROVE  Disturbing(b, v) \subseteq Disturbing(b, v)'
BY Grows DEF Disturbing, Deletes

---------------------------------------------------------------------------
(* AckedKept: what an effect leaves. *)

\* A request that may not take value v leaves it.
LEMMA EffectKeeps ==
  ASSUME TypeOK, NEW c \in Issued, NEW b \in Backends, NEW v \in Values,
         c \notin Disturbing(b, v), NEW new \in Effects(c, b),
         NEW r \in zone[b], r.val = v
  PROVE  \E q \in new : q.val = v
<1>1. c \in Calls /\ call[c].op \in {"publish", "delete"} /\ v # All
  BY ZoneAssumption DEF TypeOK, Issued
<1>2. ASSUME call[c].op = "publish", new = RRset(c, zone[b])
      PROVE  \E q \in new : q.val = v
  <2> DEFINE q == [id |-> None, val |-> call[c].val, live |-> TRUE]
  <2>1. new = {p \in zone[b] : p.val # call[c].val} \cup {q}
    BY <1>2 DEF RRset, Add
  <2>2. q.val = call[c].val
    OBVIOUS
  <2> QED
    BY <2>1, <2>2
<1>3. ASSUME call[c].op = "delete", c \notin Deletes(v), new = RRset(c, zone[b])
      PROVE  \E q \in new : q.val = v
  <2>1. call[c].val # All /\ call[c].val # v
    BY <1>3 DEF Deletes
  <2>2. new = {q \in zone[b] : q.val # call[c].val}
    BY <1>3, <2>1 DEF RRset, Drop
  <2> QED
    BY <2>1, <2>2
<1>4. CASE kind[b] = "cloudflare"
  <2>1. call[c].op = "publish" /\ call[c].val = v
    BY <1>1, <1>4 DEF Disturbing
  <2>2. new = ById(c, b)
    BY <1>4 DEF Effects
  <2>3. CASE ~Found(c, b)
    BY <2>1, <2>2, <2>3 DEF ById
  <2>4. CASE Found(c, b)
    <3> DEFINE q == [id |-> IF target[c][b] = None THEN c ELSE target[c][b],
                     val |-> call[c].val, live |-> TRUE]
    <3>1. new = {p \in zone[b] : p.id # target[c][b]} \cup {q}
      BY <2>1, <2>2, <2>4 DEF ById
    <3>2. q.val = v
      BY <2>1
    <3> QED
      BY <3>1, <3>2
  <2> QED
    BY <2>3, <2>4
<1>5. CASE kind[b] = "node"
  <2>1. call[c].op = "publish"
    BY <1>1, <1>5 DEF Disturbing
  <2>2. new = RRset(c, zone[b])
    BY <1>5, <2>1 DEF Effects
  <2> QED
    BY <1>2, <2>1, <2>2
<1>6. CASE kind[b] \notin {"cloudflare", "node"}
  <2>1. new = RRset(c, zone[b]) /\ c \notin Deletes(v)
    BY <1>6 DEF Effects, Disturbing
  <2> QED
    BY <1>1, <1>2, <1>3, <2>1
<1> QED
  BY <1>4, <1>5, <1>6

\* The effect of a publish that counts as acknowledged holds its value, live.
LEMMA EffectAdds ==
  ASSUME TypeOK, NEW c \in Issued, NEW b \in Backends, call[c].op = "publish",
         kind[b] = "cloudflare" => Found(c, b), NEW new \in Effects(c, b)
  PROVE  \E q \in new : q.val = call[c].val
<1>1. CASE kind[b] = "cloudflare"
  <2>1. new = ById(c, b) /\ Found(c, b)
    BY <1>1 DEF Effects
  <2> DEFINE q == [id |-> IF target[c][b] = None THEN c ELSE target[c][b],
                   val |-> call[c].val, live |-> TRUE]
  <2>2. new = {p \in zone[b] : p.id # target[c][b]} \cup {q}
    BY <2>1 DEF ById
  <2>3. q.val = call[c].val
    OBVIOUS
  <2> QED
    BY <2>2, <2>3
<1>2. CASE kind[b] # "cloudflare"
  <2>1. new = RRset(c, zone[b])
    BY <1>2 DEF Effects
  <2> DEFINE q == [id |-> None, val |-> call[c].val, live |-> TRUE]
  <2>2. new = {p \in zone[b] : p.val # call[c].val} \cup {q}
    BY <2>1 DEF RRset, Add
  <2>3. q.val = call[c].val
    OBVIOUS
  <2> QED
    BY <2>2, <2>3
<1> QED
  BY <1>1, <1>2

\* The time of an entry running out takes no value from the store.
LEMMA ExpireKeeps ==
  ASSUME TypeOK, NEW b \in Backends, NEW r \in zone[b], Expire(b, r),
         NEW a \in Backends
  PROVE  Held(a)' = Held(a)
<1>1. CASE a # b
  BY <1>1, ExpireMoves DEF Held
<1>2. CASE a = b
  <2>1. r \in Records /\ zone'[b] = (zone[b] \ {r}) \cup {[r EXCEPT !.live = FALSE]}
    BY ExpireMoves
  <2>2. [r EXCEPT !.live = FALSE].val = r.val
    BY <2>1 DEF Records
  <2> QED
    BY <1>2, <2>1, <2>2 DEF Held
<1> QED
  BY <1>1, <1>2

LEMMA StepKept == TypeOK /\ Unmade /\ AckedKept /\ [Next]_vars => AckedKept'
<1> SUFFICES ASSUME TypeOK, Unmade, AckedKept, [Next]_vars PROVE AckedKept'
  OBVIOUS
<1>0. Backends' = Backends
  BY Grows
<1> SUFFICES ASSUME NEW b \in Backends, NEW v \in Values, NEW c \in Publishes(v)',
                    stage'[c][b] = "ok", Disturbing(b, v)' = {}
             PROVE  v \in Held(b)'
  BY <1>0 DEF AckedKept
<1>1. Disturbing(b, v) = {} /\ c \in Issued' /\ c \in Calls
  BY DisturbingGrows DEF Publishes, Issued
<1>2. ASSUME c \in Issued, stage[c][b] = "ok"
      PROVE  v \in Held(b)
  <2>1. c \in Publishes(v)
    BY <1>2, Grows DEF Publishes
  <2> QED
    BY <1>1, <1>2, <2>1 DEF AckedKept
<1>3. ASSUME NEW d \in Calls, NEW op \in {"publish", "delete"},
             NEW w \in Values \cup {All}, Issue(d, op, w)
      PROVE  v \in Held(b)'
  <2>0. stage'[d][b] = First(b)
    BY <1>3 DEF Issue, TypeOK
  <2>3. IssueMove(d, op, w)
    BY <1>3, IssueMoves
  <2>1. /\ Issued' = Issued \cup {d} /\ zone' = zone
        /\ \A e \in Calls : e # d => stage'[e] = stage[e]
    BY <2>3 DEF IssueMove, IssueStage
  <2>2. c # d
    BY <2>0, FirstType
  <2> QED
    BY <1>1, <1>2, <2>1, <2>2 DEF Held
<1>4. ASSUME NEW d \in Calls, Return(d)
      PROVE  v \in Held(b)'
  BY <1>1, <1>2, <1>4 DEF Return, Held, Issued
<1>5. ASSUME NEW d \in Issued, NEW a \in Backends, Move(d, a)
      PROVE  v \in Held(b)'
  <2>1. UNCHANGED <<dep, call>> /\ Issued' = Issued /\ Publishes(v)' = Publishes(v)
    BY <1>5 DEF Move, Issued, Publishes
  <2>2. CASE stage[c][b] = "ok"
    <3>1. PICK r \in zone[b] : r.val = v
      BY <1>1, <1>2, <2>1, <2>2 DEF Held
    <3>2. CASE zone'[b] = zone[b]
      BY <3>1, <3>2 DEF Held
    <3>3. CASE zone'[b] # zone[b]
      <4>1. a = b /\ zone'[b] \in Effects(d, b)
        BY <1>5, <3>3 DEF Move, MoveFrame, MoveZone
      <4> QED
        BY <1>1, <3>1, <4>1, EffectKeeps DEF Held
    <3> QED
      BY <3>2, <3>3
  <2>3. CASE stage[c][b] # "ok"
    <3>1. c = d /\ a = b
      BY <1>1, <1>5, <2>3 DEF Move, MoveFrame
    <3>2. call[c].op = "publish" /\ call[c].val = v /\ c \in Issued
      BY <2>1 DEF Publishes
    <3>3. zone'[b] \in Effects(c, b) /\ (kind[b] = "cloudflare" => Found(c, b))
      BY <1>5, <2>3, <3>1, <3>2 DEF Move, MoveStage
    <3> QED
      BY <3>2, <3>3, EffectAdds DEF Held
  <2> QED
    BY <2>2, <2>3
<1>6. ASSUME NEW a \in Backends, NEW r \in zone[a], Expire(a, r)
      PROVE  v \in Held(b)'
  <2>1. UNCHANGED <<call, stage>>
    BY <1>6 DEF Expire
  <2> QED
    BY <1>1, <1>2, <1>6, <2>1, ExpireKeeps DEF Issued
<1>7. CASE UNCHANGED <<dep, zone, call, stage, target, wire, result, over>>
  BY <1>1, <1>2, <1>7 DEF Held, Issued
<1> QED
  BY <1>3, <1>4, <1>5, <1>6, <1>7, NextCases

\* A value a backend acknowledged stays there, whatever is lost, late,
\* repeated or truncated, until a call that may take it (memory.rs:66-69,
\* cloudflare.rs:257-261).
THEOREM AckedKeptHolds == Spec => []AckedKept
<1>1. Init => AckedKept
  BY DEF Init, AckedKept, Publishes, Issued, NoCall
<1>2. Spec => [](TypeOK /\ Unmade)
  BY TypeCorrect
<1> QED
  BY <1>1, <1>2, StepKept, PTL DEF Spec

---------------------------------------------------------------------------
(* What a result says of the answers. *)

OkAt(c) == {b \in Backends : stage[c][b] = "ok"}

\* FanoutWriter returns after the last answer, TRUE on a quorum of them.
Counted ==
    \A c \in Calls : result[c] # "none" =>
        /\ \A b \in Backends : stage[c][b] \in Final
        /\ result[c] = "true" => Cardinality(OkAt(c)) >= Need

LEMMA OkAtFinite ==
  ASSUME TypeOK, NEW c
  PROVE  IsFiniteSet(OkAt(c)) /\ Cardinality(OkAt(c)) \in Nat
<1>1. IsFiniteSet(Backends) /\ OkAt(c) \in SUBSET Backends
  BY BackendsFinite DEF TypeOK, OkAt
<1> QED
  BY <1>1, FS_Subset, FS_CardinalityType

LEMMA ResultStays ==
  ASSUME TypeOK, Unmade, [Next]_vars, NEW c \in Calls, result[c] # "none"
  PROVE  result'[c] = result[c] /\ c \in Issued
<1>1. c \in Issued
  BY DEF Unmade
<1>2. ASSUME NEW d \in Calls, Return(d) PROVE result'[c] = result[c]
  BY <1>2 DEF Return, TypeOK
<1>3. ASSUME NEW d \in Calls, NEW op, NEW v, Issue(d, op, v) PROVE result' = result
  BY <1>3 DEF Issue
<1>4. ASSUME NEW b \in Backends, NEW r \in zone[b], Expire(b, r) PROVE result' = result
  BY <1>4 DEF Expire
<1>5. ASSUME NEW d \in Issued, NEW b \in Backends, Move(d, b) PROVE result' = result
  BY <1>5 DEF Move
<1> QED
  BY <1>1, <1>2, <1>3, <1>4, <1>5, NextCases

LEMMA StepCounted == TypeOK /\ Unmade /\ Counted /\ [Next]_vars => Counted'
<1> SUFFICES ASSUME TypeOK, Unmade, Counted, [Next]_vars PROVE Counted'
  OBVIOUS
<1>0. Backends' = Backends /\ Need' = Need /\ Need \in Nat /\ TypeOK'
  BY Grows, NeedType, StepType DEF TypeOK
<1> SUFFICES ASSUME NEW c \in Calls, result'[c] # "none"
             PROVE  /\ \A b \in Backends : stage'[c][b] \in Final
                    /\ result'[c] = "true" => Cardinality(OkAt(c)') >= Need
  BY <1>0 DEF Counted
<1>1. CASE result[c] # "none"
  <2>1. result'[c] = result[c] /\ c \in Issued
    BY <1>1, ResultStays
  <2>2. \A b \in Backends : stage[c][b] \in Final /\ stage'[c][b] = stage[c][b]
    BY <1>1, <2>1, Grows DEF Counted
  <2>3. OkAt(c)' = OkAt(c)
    BY <1>0, <2>2 DEF OkAt
  <2> QED
    BY <1>1, <2>1, <2>2, <2>3 DEF Counted
<1>2. CASE result[c] = "none"
  <2>1. Return(c)
    <3>1. ASSUME NEW d \in Calls, Return(d) PROVE d = c
      BY <1>2, <3>1 DEF Return, TypeOK
    <3>2. ASSUME NEW d \in Calls, NEW op, NEW v, Issue(d, op, v) PROVE FALSE
      BY <1>2, <3>2 DEF Issue
    <3>3. ASSUME NEW b \in Backends, NEW r \in zone[b], Expire(b, r) PROVE FALSE
      BY <1>2, <3>3 DEF Expire
    <3>4. ASSUME NEW d \in Issued, NEW b \in Backends, Move(d, b) PROVE FALSE
      BY <1>2, <3>4 DEF Move
    <3> QED
      BY <1>2, <3>1, <3>2, <3>3, <3>4, NextCases
  <2>2. /\ \A b \in Backends : stage[c][b] \in Final
        /\ stage' = stage
        /\ result' = [result EXCEPT ![c] =
             IF Cardinality(OkAt(c)) >= Need THEN "true" ELSE "false"]
    BY <2>1 DEF Return, OkAt
  <2>3. OkAt(c)' = OkAt(c)
    BY <1>0, <2>2 DEF OkAt
  <2>4. result'[c] = "true" => Cardinality(OkAt(c)) >= Need
    BY <2>2 DEF TypeOK
  <2> QED
    BY <2>2, <2>3, <2>4
<1> QED
  BY <1>1, <1>2

\* A publish or delete that returned Ok(true) was accepted by as many backends as
\* the quorum asks for: FanoutWriter counts the answers of all its writers and
\* compares once.
THEOREM CountedHolds == Spec => []Counted
<1>1. Init => Counted
  BY DEF Init, Counted
<1>2. Spec => [](TypeOK /\ Unmade)
  BY TypeCorrect
<1> QED
  BY <1>1, <1>2, StepCounted, PTL DEF Spec

---------------------------------------------------------------------------
(* DeleteClears *)

\* A publish that delete d has not in its history over[d] can no longer
\* change any zone.
Settled ==
    \A d \in Issued : call[d].op = "delete" =>
        /\ over[d] \subseteq Issued
        /\ \A q \in Issued \ over[d] : call[q].op = "publish" =>
              \A b \in Backends : stage[q][b] \in Final /\ <<q, b>> \notin wire

\* A backend that acknowledged a delete is without the value.
Cleared ==
    \A d \in Issued, b \in Backends, v \in Values :
        /\ call[d].op = "delete" /\ call[d].val \in {v, All}
        /\ kind[b] # "cloudflare"
        /\ stage[d][b] = "ok"
        /\ \A p \in over[d] : call[p].val # v
        => v \notin Held(b)

\* A request brings at most the value of its own publish, and what it brings
\* is live.
LEMMA EffectBrings ==
  ASSUME TypeOK, NEW c \in Issued, NEW b \in Backends,
         NEW new \in Effects(c, b), NEW q \in new, q \notin zone[b]
  PROVE  call[c].op = "publish" /\ q.val = call[c].val /\ q.live
<1>1. c \in Calls /\ call[c].op \in {"publish", "delete"}
  BY DEF TypeOK, Issued
<1>2. CASE new = RRset(c, zone[b])
  BY <1>1, <1>2 DEF RRset, Add, Drop
<1>3. CASE new = ById(c, b)
  <2>1. Found(c, b) /\ call[c].op # "delete"
    BY <1>3 DEF ById
  <2>2. new = {p \in zone[b] : p.id # target[c][b]}
                \cup {[id |-> IF target[c][b] = None THEN c ELSE target[c][b],
                       val |-> call[c].val, live |-> TRUE]}
    BY <1>1, <1>3, <2>1 DEF ById
  <2> QED
    BY <1>1, <2>1, <2>2
<1> QED
  BY <1>2, <1>3 DEF Effects

\* Outside Cloudflare the effect of a delete is without its value.
LEMMA EffectClears ==
  ASSUME TypeOK, NEW c \in Issued, NEW b \in Backends, NEW v \in Values,
         call[c].op = "delete", call[c].val \in {v, All},
         kind[b] # "cloudflare", NEW new \in Effects(c, b)
  PROVE  \A q \in new : q.val # v
<1>1. new = {} \/ new = RRset(c, zone[b])
  BY DEF Effects
<1>2. RRset(c, zone[b]) = Drop(zone[b], call[c].val)
  BY DEF RRset
<1>3. \A q \in Drop(zone[b], call[c].val) : q.val # v
  BY DEF Drop
<1> QED
  BY <1>1, <1>2, <1>3

LEMMA StepSettled == TypeOK /\ Unmade /\ Settled /\ [Next]_vars => Settled'
<1> SUFFICES ASSUME TypeOK, Unmade, Settled, [Next]_vars PROVE Settled'
  OBVIOUS
<1>0. Backends' = Backends /\ Issued \subseteq Issued' /\ \A c \in Issued : call'[c] = call[c]
  BY Grows
<1>1. ASSUME NEW c \in Calls, NEW op \in {"publish", "delete"},
             NEW v \in Values \cup {All}, Issue(c, op, v)
      PROVE  Settled'
  <2>0. IssueMove(c, op, v)
    BY <1>1, IssueMoves
  <2>1. c \notin Issued /\ Issued' = Issued \cup {c} /\ Issued \subseteq Calls
    BY <2>0 DEF IssueMove, Issued
  <2>2. call'[c] = [op |-> op, val |-> v]
    BY <2>0 DEF IssueMove, IssueCall
  <2>3. \A d \in Issued : stage'[d] = stage[d]
    BY <2>0, <2>1 DEF IssueMove, IssueStage
  <2>4. \A d \in Issued, b \in Backends : <<d, b>> \in wire' => <<d, b>> \in wire
    BY <2>0, <2>1 DEF IssueMove, IssueWire
  <2>5. over' = [d \in Calls |->
                  CASE d = c /\ op = "delete" -> Restless
                    [] d \in Issued /\ call[d].op = "delete" /\ op = "publish"
                         -> over[d] \cup {c}
                    [] OTHER -> over[d]]
    BY <1>1 DEF Issue
  <2> SUFFICES ASSUME NEW d \in Issued', call'[d].op = "delete"
               PROVE  /\ over'[d] \subseteq Issued'
                      /\ \A q \in Issued' \ over'[d] : call'[q].op = "publish" =>
                            \A b \in Backends : stage'[q][b] \in Final /\ <<q, b>> \notin wire'
    BY <1>0 DEF Settled
  <2>6. CASE d = c
    <3>1. op = "delete" /\ over'[d] = Restless
      BY <2>1, <2>2, <2>5, <2>6
    <3>2. Restless \subseteq Issued
      BY DEF Restless
    <3>3. ASSUME NEW q \in Issued' \ over'[d], call'[q].op = "publish", NEW b \in Backends
          PROVE  stage'[q][b] \in Final /\ <<q, b>> \notin wire'
      <4>1. q \in Issued /\ call[q].op = "publish"
        BY <1>0, <2>1, <2>2, <3>1, <3>3
      <4>2. stage[q][b] \in Final /\ <<q, b>> \notin wire
        BY <3>1, <3>3, <4>1 DEF Restless
      <4> QED
        BY <2>3, <2>4, <4>1, <4>2
    <3> QED
      BY <2>1, <3>1, <3>2, <3>3
  <2>7. CASE d # c
    <3>1. d \in Issued /\ call[d].op = "delete"
      BY <1>0, <2>1, <2>7
    <3>2. over'[d] = IF op = "publish" THEN over[d] \cup {c} ELSE over[d]
      BY <2>1, <2>5, <2>7, <3>1
    <3>3. over[d] \subseteq Issued
      BY <3>1 DEF Settled
    <3>4. ASSUME NEW q \in Issued' \ over'[d], call'[q].op = "publish", NEW b \in Backends
          PROVE  stage'[q][b] \in Final /\ <<q, b>> \notin wire'
      <4>1. q # c
        BY <2>2, <3>2, <3>4
      <4>2. q \in Issued \ over[d] /\ call[q].op = "publish"
        BY <1>0, <2>1, <3>2, <3>4, <4>1
      <4>3. stage[q][b] \in Final /\ <<q, b>> \notin wire
        BY <3>1, <4>2 DEF Settled
      <4> QED
        BY <2>3, <2>4, <4>2, <4>3
    <3> QED
      BY <2>1, <3>2, <3>3, <3>4
  <2> QED
    BY <2>6, <2>7
<1>2. ASSUME UNCHANGED <<call, over>>,
             \A q \in Issued, b \in Backends :
                stage[q][b] \in Final /\ <<q, b>> \notin wire
                => stage'[q][b] \in Final /\ <<q, b>> \notin wire'
      PROVE  Settled'
  <2>1. Issued' = Issued
    BY <1>2 DEF Issued
  <2> QED
    BY <1>0, <1>2, <2>1 DEF Settled
<1>3. ASSUME NEW c \in Calls, Return(c)
      PROVE  Settled'
  BY <1>2, <1>3 DEF Return
<1>4. ASSUME NEW c \in Issued, NEW b \in Backends, Move(c, b)
      PROVE  Settled'
  <2>1. UNCHANGED <<call, over>>
    BY <1>4 DEF Move
  <2>2. ASSUME NEW q \in Issued, NEW a \in Backends, stage[q][a] \in Final, <<q, a>> \notin wire
        PROVE  stage'[q][a] \in Final /\ <<q, a>> \notin wire'
    <3>1. stage'[q][a] = stage[q][a]
      BY <2>2, Grows
    <3>2. "get" \notin Final
      BY DEF Final
    <3> QED
      BY <1>4, <2>2, <3>1, <3>2 DEF Move, MoveFrame, MoveWire, Issued
  <2> QED
    BY <1>2, <2>1, <2>2
<1>5. ASSUME NEW b \in Backends, NEW r \in zone[b], Expire(b, r)
      PROVE  Settled'
  BY <1>2, <1>5 DEF Expire
<1>6. CASE UNCHANGED <<dep, zone, call, stage, target, wire, result, over>>
  BY <1>2, <1>6
<1> QED
  BY <1>1, <1>3, <1>4, <1>5, <1>6, NextCases

LEMMA OverGrows ==
  ASSUME TypeOK, Unmade, [Next]_vars, NEW d \in Issued
  PROVE  over[d] \subseteq over'[d]
<1>1. ASSUME NEW c \in Calls, NEW op, NEW v, Issue(c, op, v)
      PROVE  over[d] \subseteq over'[d]
  BY <1>1 DEF Issue, Issued, TypeOK
<1>2. ASSUME NEW c \in Calls, Return(c) PROVE over' = over
  BY <1>2 DEF Return
<1>3. ASSUME NEW c \in Issued, NEW b \in Backends, Move(c, b) PROVE over' = over
  BY <1>3 DEF Move
<1>4. ASSUME NEW b \in Backends, NEW r \in zone[b], Expire(b, r) PROVE over' = over
  BY <1>4 DEF Expire
<1> QED
  BY <1>1, <1>2, <1>3, <1>4, NextCases

LEMMA StepCleared ==
  TypeOK /\ Unmade /\ Settled /\ Cleared /\ [Next]_vars => Cleared'
<1> SUFFICES ASSUME TypeOK, Unmade, Settled, Cleared, [Next]_vars PROVE Cleared'
  OBVIOUS
<1>0. Backends' = Backends /\ kind' = kind
  BY Grows
<1> SUFFICES ASSUME NEW d \in Issued', NEW b \in Backends, NEW v \in Values,
                    call'[d].op = "delete", call'[d].val \in {v, All},
                    kind[b] # "cloudflare", stage'[d][b] = "ok",
                    \A p \in over'[d] : call'[p].val # v
             PROVE  v \notin Held(b)'
  BY <1>0 DEF Cleared
<1>1. ASSUME d \in Issued
      PROVE  /\ call[d].op = "delete" /\ call[d].val \in {v, All}
             /\ \A p \in over[d] : call[p].val # v
  <2>1. call'[d] = call[d] /\ over[d] \subseteq over'[d]
    BY <1>1, Grows, OverGrows
  <2>2. over[d] \subseteq Issued
    BY <1>1, <2>1 DEF Settled
  <2> QED
    BY <2>1, <2>2, Grows
<1>2. ASSUME d \in Issued, stage[d][b] = "ok"
      PROVE  v \notin Held(b)
  BY <1>1, <1>2 DEF Cleared
<1>3. ASSUME NEW c \in Calls, NEW op \in {"publish", "delete"},
             NEW w \in Values \cup {All}, Issue(c, op, w)
      PROVE  v \notin Held(b)'
  <2>1. stage'[c][b] = First(b)
    BY <1>3 DEF Issue, TypeOK
  <2>0. IssueMove(c, op, w)
    BY <1>3, IssueMoves
  <2>2. /\ Issued' = Issued \cup {c} /\ zone' = zone
        /\ \A e \in Calls : e # c => stage'[e] = stage[e]
    BY <2>0 DEF IssueMove, IssueStage
  <2>3. d # c
    BY <2>1, FirstType
  <2> QED
    BY <1>2, <2>2, <2>3 DEF Held, Issued
<1>4. ASSUME NEW c \in Calls, Return(c)
      PROVE  v \notin Held(b)'
  BY <1>2, <1>4 DEF Return, Held, Issued
<1>5. ASSUME NEW c \in Issued, NEW a \in Backends, Move(c, a)
      PROVE  v \notin Held(b)'
  <2>1. UNCHANGED <<call, over>> /\ Issued' = Issued /\ d \in Issued /\ d \in Calls
    BY <1>5 DEF Move, Issued
  <2>2. CASE stage[d][b] = "ok" /\ zone'[b] = zone[b]
    BY <1>2, <2>1, <2>2 DEF Held
  <2>3. CASE stage[d][b] = "ok" /\ zone'[b] # zone[b]
    <3>1. /\ a = b /\ zone'[b] \in Effects(c, b)
          /\ stage[c][b] = "start" \/ <<c, b>> \in wire
      BY <1>5, <2>3 DEF Move, MoveFrame, MoveZone
    <3>2. call[c].op = "publish" => c \in over[d]
      <4>1. "start" \notin Final
        BY DEF Final
      <4> QED
        BY <1>1, <2>1, <3>1, <4>1 DEF Settled
    <3>3. call[c].op = "publish" => call[c].val # v
      BY <1>1, <2>1, <3>2
    <3>4. \A q \in zone'[b] : q.val # v
      BY <1>2, <2>1, <2>3, <3>1, <3>3, EffectBrings DEF Held
    <3> QED
      BY <3>4 DEF Held
  <2>4. CASE stage[d][b] # "ok"
    <3>1. c = d /\ a = b
      BY <1>5, <2>1, <2>4 DEF Move, MoveFrame
    <3>2. zone'[b] \in Effects(d, b)
      BY <1>5, <2>4, <3>1 DEF Move, MoveStage
    <3>3. \A q \in zone'[b] : q.val # v
      BY <1>1, <2>1, <3>2, EffectClears
    <3> QED
      BY <3>3 DEF Held
  <2> QED
    BY <2>2, <2>3, <2>4
<1>6. ASSUME NEW a \in Backends, NEW r \in zone[a], Expire(a, r)
      PROVE  v \notin Held(b)'
  <2>1. UNCHANGED <<call, stage>>
    BY <1>6 DEF Expire
  <2> QED
    BY <1>2, <1>6, <2>1, ExpireKeeps DEF Issued
<1>7. CASE UNCHANGED <<dep, zone, call, stage, target, wire, result, over>>
  BY <1>2, <1>7 DEF Held, Issued
<1> QED
  BY <1>3, <1>4, <1>5, <1>6, <1>7, NextCases

\* A delete reported as done has cleared a quorum of the backends: what is
\* left of the value comes from a publish that was unsettled when the delete
\* was issued, or issued after it (fanout_writer.rs, memory.rs:71-88).
THEOREM DeleteClearsHolds == Spec => []DeleteClears
<1>1. Init => Settled /\ Cleared
  BY DEF Init, Settled, Cleared, Issued, NoCall
<1>2. TypeOK /\ Counted /\ Cleared => DeleteClears
  <2> SUFFICES ASSUME TypeOK, Counted, Cleared, NEW d \in Issued,
                      call[d].op = "delete", result[d] = "true",
                      \A b \in Backends : kind[b] # "cloudflare",
                      NEW v \in IF call[d].val = All THEN Values ELSE {call[d].val},
                      \A p \in over[d] : call[p].val # v
               PROVE  Cardinality({b \in Backends : v \notin Held(b)}) >= Need
    BY DEF DeleteClears
  <2> DEFINE gone == {b \in Backends : v \notin Held(b)}
  <2>1. d \in Calls /\ v \in Values /\ call[d].val \in {v, All}
    BY DEF Issued, TypeOK
  <2>2. OkAt(d) \subseteq gone
    BY <2>1 DEF OkAt, Cleared
  <2>3. IsFiniteSet(gone) /\ Cardinality(gone) \in Nat
    <3>1. IsFiniteSet(Backends) /\ gone \in SUBSET Backends
      BY BackendsFinite DEF TypeOK
    <3> QED
      BY <3>1, FS_Subset, FS_CardinalityType
  <2>4. Cardinality(OkAt(d)) <= Cardinality(gone)
    BY <2>2, <2>3, FS_Subset
  <2>5. Cardinality(OkAt(d)) >= Need
    BY <2>1 DEF Counted
  <2> QED
    BY <2>3, <2>4, <2>5, OkAtFinite, NeedType DEF TypeOK
<1>3. Spec => [](TypeOK /\ Unmade)
  BY TypeCorrect
<1>4. Spec => []Counted
  BY CountedHolds
<1> QED
  BY <1>1, <1>2, <1>3, <1>4, StepSettled, StepCleared, PTL DEF Spec

---------------------------------------------------------------------------
(* ReaderSees *)

\* No entry of a value that is owed has run out.
OwedLive ==
    \A v \in reader.owed, b \in Backends : \A r \in zone[b] : r.val = v => r.live

\* What is stored and what a lookup heard was published.
Published ==
    \A v \in Values :
        v \in reader.heard \/ (\E b \in Backends : v \in Held(b)) => Publishes(v) # {}

\* A value owed and not yet heard was acknowledged, and no backend that
\* answered was one of those that acknowledged it.
Missed ==
    \A v \in reader.owed \ reader.heard :
        (\A b \in Backends : Disturbing(b, v) = {}) =>
            \E c \in Publishes(v) :
                /\ result[c] = "true"
                /\ \A b \in reader.asked \ reader.failed : stage[c][b] # "ok"

Lookup == OwedLive /\ Published /\ Missed

LEMMA StepOwedLive == TypeOK /\ Unmade /\ OwedLive /\ [Next]_vars => OwedLive'
<1> SUFFICES ASSUME TypeOK, Unmade, OwedLive, [Next]_vars PROVE OwedLive'
  OBVIOUS
<1>0. Backends' = Backends
  BY Grows
<1>1. ASSUME UNCHANGED <<zone, reader>> PROVE OwedLive'
  BY <1>0, <1>1 DEF OwedLive
<1>2. ASSUME NEW c \in Calls, NEW op, NEW v, Issue(c, op, v) PROVE OwedLive'
  BY <1>1, <1>2 DEF Issue
<1>3. ASSUME NEW c \in Calls, Return(c) PROVE OwedLive'
  BY <1>1, <1>3 DEF Return
<1>4. ASSUME NEW c \in Issued, NEW a \in Backends, Move(c, a) PROVE OwedLive'
  <2> SUFFICES ASSUME NEW v \in reader.owed, NEW b \in Backends, NEW r \in zone'[b], r.val = v
               PROVE  r.live
    BY <1>0, <1>4 DEF OwedLive, Move
  <2>1. CASE r \in zone[b]
    BY <2>1 DEF OwedLive
  <2>2. CASE r \notin zone[b]
    <3>1. a = b /\ zone'[b] \in Effects(c, b)
      BY <1>4, <2>2 DEF Move, MoveFrame, MoveZone
    <3> QED
      BY <2>2, <3>1, EffectBrings
  <2> QED
    BY <2>1, <2>2
<1>5. ASSUME NEW a \in Backends, NEW q \in zone[a], Expire(a, q) PROVE OwedLive'
  <2>1. /\ zone'[a] = (zone[a] \ {q}) \cup {[q EXCEPT !.live = FALSE]}
        /\ \A b \in Backends \ {a} : zone'[b] = zone[b]
        /\ q \in Records
    BY <1>5, ExpireMoves
  <2>2. reader'.owed = reader.owed \ {q.val}
    BY <1>5, ExpireMoves DEF TypeOK
  <2>3. [q EXCEPT !.live = FALSE].val = q.val
    BY <2>1 DEF Records
  <2> QED
    BY <1>0, <2>1, <2>2, <2>3 DEF OwedLive
<1>6. ASSUME NEW m \in {"union", "composite"}, StartLookup(m) PROVE OwedLive'
  <2>1. reader'.owed = Acknowledged /\ zone' = zone
    BY <1>6 DEF StartLookup, Idle
  <2> QED
    BY <1>0, <2>1 DEF OwedLive, Acknowledged
<1>7. ASSUME NEW b \in Backends, NEW fails \in BOOLEAN, Ask(b, fails) PROVE OwedLive'
  <2>1. reader'.owed = reader.owed /\ zone' = zone
    BY <1>7 DEF Ask, TypeOK
  <2> QED
    BY <1>0, <2>1 DEF OwedLive
<1>8. CASE Answer
  <2>1. reader'.owed = {}
    BY <1>8 DEF Answer, Idle
  <2> QED
    BY <2>1 DEF OwedLive
<1>9. CASE Done \/ UNCHANGED vars
  BY <1>1, <1>9 DEF Done, vars
<1>10. ASSUME NEW c \in Calls, NEW b \in Backends, Step(c, b) PROVE OwedLive'
  BY <1>4, <1>10, StepMoves
<1> QED
  BY <1>2, <1>3, <1>5, <1>6, <1>7, <1>8, <1>9, <1>10 DEF Next

LEMMA StepPublished == TypeOK /\ Unmade /\ Published /\ [Next]_vars => Published'
<1> SUFFICES ASSUME TypeOK, Unmade, Published, [Next]_vars PROVE Published'
  OBVIOUS
<1>0. Backends' = Backends /\ \A v \in Values : Publishes(v) \subseteq Publishes(v)'
  BY Grows DEF Publishes
<1> SUFFICES ASSUME NEW v \in Values,
                    v \in reader'.heard \/ (\E b \in Backends : v \in Held(b)')
             PROVE  Publishes(v)' # {}
  BY <1>0 DEF Published
<1>1. ASSUME v \in reader.heard \/ (\E b \in Backends : v \in Held(b))
      PROVE  Publishes(v)' # {}
  BY <1>0, <1>1 DEF Published
<1>2. ASSUME NEW c \in Calls, NEW op, NEW w, Issue(c, op, w) PROVE Publishes(v)' # {}
  BY <1>1, <1>2 DEF Issue, Held
<1>3. ASSUME NEW c \in Calls, Return(c) PROVE Publishes(v)' # {}
  BY <1>1, <1>3 DEF Return, Held
<1>4. ASSUME NEW c \in Issued, NEW a \in Backends, Move(c, a) PROVE Publishes(v)' # {}
  <2>1. CASE v \in reader.heard \/ (\E b \in Backends : v \in Held(b))
    BY <1>1, <2>1
  <2>2. CASE ~(v \in reader.heard \/ (\E b \in Backends : v \in Held(b)))
    <3>1. PICK b \in Backends : v \in Held(b)'
      BY <1>4, <2>2 DEF Move
    <3>2. PICK q \in zone'[b] : q.val = v
      BY <3>1 DEF Held
    <3>3. q \notin zone[b]
      BY <2>2, <3>2 DEF Held
    <3>4. zone'[b] \in Effects(c, b)
      BY <1>4, <3>2, <3>3 DEF Move, MoveFrame, MoveZone
    <3>5. call[c].op = "publish" /\ call[c].val = v
      BY <3>2, <3>3, <3>4, EffectBrings
    <3> QED
      BY <1>0, <3>5 DEF Publishes
  <2> QED
    BY <2>1, <2>2
<1>5. ASSUME NEW a \in Backends, NEW q \in zone[a], Expire(a, q) PROVE Publishes(v)' # {}
  <2>1. reader'.heard = reader.heard
    BY <1>5 DEF Expire, TypeOK
  <2> QED
    BY <1>1, <1>5, <2>1, ExpireKeeps
<1>6. ASSUME NEW m \in {"union", "composite"}, StartLookup(m) PROVE Publishes(v)' # {}
  BY <1>1, <1>6 DEF StartLookup, Idle, Held
<1>7. ASSUME NEW b \in Backends, NEW fails \in BOOLEAN, Ask(b, fails)
      PROVE  Publishes(v)' # {}
  <2>1. reader'.heard \subseteq reader.heard \cup Served(b) /\ zone' = zone
    BY <1>7 DEF Ask, TypeOK
  <2>2. Served(b) \subseteq Held(b)
    BY DEF Served, Held
  <2> QED
    BY <1>1, <2>1, <2>2 DEF Held
<1>8. CASE Answer
  BY <1>1, <1>8 DEF Answer, Idle, Held
<1>9. CASE Done \/ UNCHANGED vars
  BY <1>1, <1>9 DEF Done, vars, Held
<1>10. ASSUME NEW c \in Calls, NEW b \in Backends, Step(c, b) PROVE Publishes(v)' # {}
  BY <1>4, <1>10, StepMoves
<1> QED
  BY <1>2, <1>3, <1>5, <1>6, <1>7, <1>8, <1>9, <1>10 DEF Next

LEMMA StepMissed ==
  TypeOK /\ Unmade /\ AckedKept /\ Counted /\ OwedLive /\ Missed /\ [Next]_vars => Missed'
<1> SUFFICES ASSUME TypeOK, Unmade, AckedKept, Counted, OwedLive, Missed, [Next]_vars
             PROVE  Missed'
  OBVIOUS
<1>0. /\ Backends' = Backends /\ \A v : Publishes(v) \subseteq Publishes(v)'
      /\ \A v : \A b \in Backends : Disturbing(b, v)' = {} => Disturbing(b, v) = {}
  BY Grows, DisturbingGrows DEF Publishes
\* A lookup that asks nobody misses no more than before.
<1>1. ASSUME reader'.owed \ reader'.heard \subseteq reader.owed \ reader.heard,
             reader'.asked \ reader'.failed \subseteq reader.asked \ reader.failed
      PROVE  Missed'
  <2> SUFFICES ASSUME NEW v \in reader'.owed \ reader'.heard,
                      \A b \in Backends : Disturbing(b, v)' = {}
               PROVE  \E c \in Publishes(v)' :
                        /\ result'[c] = "true"
                        /\ \A b \in reader'.asked \ reader'.failed : stage'[c][b] # "ok"
    BY <1>0 DEF Missed
  <2>1. PICK c \in Publishes(v) :
                /\ result[c] = "true"
                /\ \A b \in reader.asked \ reader.failed : stage[c][b] # "ok"
    BY <1>0, <1>1 DEF Missed
  <2>2. c \in Issued /\ c \in Calls
    BY DEF Publishes, Issued
  <2>3. result'[c] = "true"
    BY <2>1, <2>2, ResultStays
  <2>4. \A b \in Backends : stage'[c][b] = stage[c][b]
    BY <2>1, <2>2, Grows DEF Counted
  <2>5. reader.asked \subseteq Backends
    BY DEF TypeOK
  <2> QED
    BY <1>0, <1>1, <2>1, <2>3, <2>4, <2>5
<1>2. CASE UNCHANGED reader
  BY <1>1, <1>2
<1>3. ASSUME NEW a \in Backends, NEW q \in zone[a], Expire(a, q) PROVE Missed'
  BY <1>1, <1>3 DEF Expire, TypeOK
<1>4. ASSUME NEW m \in {"union", "composite"}, StartLookup(m) PROVE Missed'
  <2>1. reader'.owed = Acknowledged /\ reader'.asked = {} /\ UNCHANGED <<dep, call, result>>
    BY <1>4 DEF StartLookup, Idle
  <2>2. \A v \in Acknowledged : \E c \in Publishes(v) : result[c] = "true"
    BY DEF Acknowledged
  <2> QED
    BY <1>0, <2>1, <2>2 DEF Missed
<1>5. ASSUME NEW b \in Backends, NEW fails \in BOOLEAN, Ask(b, fails) PROVE Missed'
  <2>1. /\ UNCHANGED <<dep, zone, call, stage, result>>
        /\ reader'.owed = reader.owed /\ reader'.asked = reader.asked \cup {b}
        /\ reader'.failed = IF fails THEN reader.failed \cup {b} ELSE reader.failed
        /\ reader'.heard = IF fails THEN reader.heard ELSE reader.heard \cup Served(b)
    BY <1>5 DEF Ask, TypeOK
  <2>2. CASE fails
    BY <1>1, <2>1, <2>2
  <2>3. CASE ~fails
    <3> SUFFICES ASSUME NEW v \in reader.owed \ (reader.heard \cup Served(b)),
                        \A a \in Backends : Disturbing(a, v) = {}
                 PROVE  \E c \in Publishes(v) :
                          /\ result[c] = "true"
                          /\ \A a \in (reader.asked \cup {b}) \ reader.failed :
                                stage[c][a] # "ok"
      BY <1>0, <2>1, <2>3 DEF Missed
    <3>1. PICK c \in Publishes(v) :
                  /\ result[c] = "true"
                  /\ \A a \in reader.asked \ reader.failed : stage[c][a] # "ok"
      BY DEF Missed
    <3>2. v \in Values
      BY DEF TypeOK
    <3>3. stage[c][b] # "ok"
      <4> SUFFICES ASSUME stage[c][b] = "ok" PROVE v \in Served(b)
        OBVIOUS
      <4>1. v \in Held(b)
        BY <3>2 DEF AckedKept
      <4> QED
        BY <4>1 DEF Held, OwedLive, Served
    <3> QED
      BY <3>1, <3>3
  <2> QED
    BY <2>2, <2>3
<1>6. CASE Answer
  <2>1. reader'.owed = {}
    BY <1>6 DEF Answer, Idle
  <2> QED
    BY <2>1 DEF Missed
<1> QED
  BY <1>2, <1>3, <1>4, <1>5, <1>6, ReaderCases DEF vars

\* A lookup begun after a value was acknowledged finds it as long as fewer
\* backends than the quorum fail to answer (union_reader.rs,
\* composite_reader.rs).
THEOREM ReaderSeesHolds == Spec => []ReaderSees
<1>1. Init => Lookup
  BY DEF Init, Lookup, OwedLive, Published, Missed, Idle, Held
<1>2. TypeOK /\ Counted /\ Lookup => ReaderSees
  <2> SUFFICES ASSUME TypeOK, Counted, Lookup, NEW v \in reader.owed, Complete,
                      Cardinality(reader.failed) < Need,
                      \A b \in Backends : Disturbing(b, v) = {},
                      reader.mode = "composite" =>
                        \A c \in Issued : call[c].op = "publish" => call[c].val = v,
                      v \notin reader.heard
               PROVE  FALSE
    BY DEF ReaderSees
  <2>1. PICK c \in Publishes(v) :
                /\ result[c] = "true"
                /\ \A b \in reader.asked \ reader.failed : stage[c][b] # "ok"
    BY DEF Lookup, Missed
  <2>2. CASE reader.asked = Backends
    <3>1. OkAt(c) \subseteq reader.failed
      BY <2>1, <2>2 DEF OkAt
    <3>2. IsFiniteSet(reader.failed) /\ Cardinality(reader.failed) \in Nat
      <4>1. IsFiniteSet(Backends) /\ reader.failed \in SUBSET Backends
        BY BackendsFinite DEF TypeOK
      <4> QED
        BY <4>1, FS_Subset, FS_CardinalityType
    <3>3. Cardinality(OkAt(c)) <= Cardinality(reader.failed)
      BY <3>1, <3>2, FS_Subset
    <3>4. Cardinality(OkAt(c)) >= Need
      BY <2>1 DEF Counted, Publishes, Issued
    <3> QED
      BY <3>2, <3>3, <3>4, OkAtFinite, NeedType DEF TypeOK
  <2>3. CASE reader.mode = "composite" /\ reader.heard # {}
    <3>1. PICK w \in reader.heard : TRUE
      BY <2>3
    <3>2. Publishes(w) # {}
      BY DEF Lookup, Published, TypeOK
    <3>3. w = v
      BY <2>3, <3>2 DEF Publishes
    <3> QED
      BY <3>3
  <2> QED
    BY <2>2, <2>3 DEF Complete
<1>3. Spec => [](TypeOK /\ Unmade)
  BY TypeCorrect
<1>4. Spec => []Counted
  BY CountedHolds
<1>5. Spec => []AckedKept
  BY AckedKeptHolds
<1>6. TypeOK /\ Unmade /\ AckedKept /\ Counted /\ Lookup /\ [Next]_vars => Lookup'
  BY StepOwedLive, StepPublished, StepMissed DEF Lookup
<1> QED
  BY <1>1, <1>2, <1>3, <1>4, <1>5, <1>6, PTL DEF Spec

---------------------------------------------------------------------------
(* NoDuplicate *)

\* One CloudflarePublisher alone publishes at b, and no request has failed.
Calm(b) ==
    /\ kind[b] = "cloudflare"
    /\ \A c, d \in Issued : Owner[c] = Owner[d]
    /\ \A c \in Issued : stage[c][b] # "err"

Publishing(b) == {c \in Issued : call[c].op = "publish" /\ stage[c][b] \in {"get", "sent"}}

\* The records of Cloudflare have ids.  While all is calm, one publish at a
\* time is between its lookup and its answer, and a publish that found no
\* record still finds none when it writes.
Serial ==
    \A b \in Backends :
        /\ kind[b] = "cloudflare" => \A r \in zone[b] : r.id # None
        /\ Calm(b) =>
             /\ \A r, q \in zone[b] : r = q
             /\ \A c, d \in Publishing(b) : c = d
             /\ \A c \in Issued : call[c].op = "publish" /\ <<c, b>> \in wire =>
                   c \in Publishing(b) /\ (target[c][b] = None => zone[b] = {})

LEMMA CalmBefore ==
  ASSUME TypeOK, Unmade, [Next]_vars, NEW b \in Backends, Calm(b)'
  PROVE  Calm(b)
<1>1. "err" \in Final
  BY DEF Final
<1> QED
  BY <1>1, Grows DEF Calm

\* What an effect leaves at Cloudflare.
LEMMA EffectCloudflare ==
  ASSUME TypeOK, NEW c \in Issued, NEW b \in Backends, kind[b] = "cloudflare",
         NEW new \in Effects(c, b)
  PROVE  /\ (\A r \in zone[b] : r.id # None) => \A r \in new : r.id # None
         /\ call[c].op = "delete" => new \subseteq zone[b]
         /\ (\A r, q \in zone[b] : r = q) /\ (target[c][b] = None => zone[b] = {})
              => \A r, q \in new : r = q
<1>1. c \in Calls /\ c # None /\ call[c].op \in {"publish", "delete"}
  BY CallsNat DEF TypeOK, Issued, None
<1>2. new = ById(c, b)
  BY DEF Effects
<1>3. CASE ~Found(c, b)
  <2>1. new = zone[b] \/ new = {r \in zone[b] : r.id # target[c][b]}
    BY <1>2, <1>3 DEF ById
  <2> QED
    BY <2>1, <1>3 DEF Found
<1>4. CASE Found(c, b) /\ call[c].op = "delete"
  BY <1>2, <1>4 DEF ById
<1>5. CASE Found(c, b) /\ call[c].op = "publish"
  <2> DEFINE p == [id |-> IF target[c][b] = None THEN c ELSE target[c][b],
                   val |-> call[c].val, live |-> TRUE]
             rest == {r \in zone[b] : r.id # target[c][b]}
  <2>1. new = rest \cup {p}
    BY <1>2, <1>5 DEF ById
  <2>2. p.id # None
    BY <1>1
  <2>3. ASSUME \A r, q \in zone[b] : r = q, target[c][b] = None => zone[b] = {}
        PROVE  rest = {}
    BY <1>5, <2>3 DEF Found
  <2> QED
    BY <1>5, <2>1, <2>2, <2>3
<1> QED
  BY <1>1, <1>3, <1>4, <1>5

LEMMA StepSerial == TypeOK /\ Unmade /\ Serial /\ [Next]_vars => Serial'
<1> SUFFICES ASSUME TypeOK, Unmade, Serial, [Next]_vars PROVE Serial'
  OBVIOUS
<1>0. Backends' = Backends /\ kind' = kind
  BY Grows
<1> SUFFICES ASSUME NEW b \in Backends, kind[b] = "cloudflare"
             PROVE  /\ \A r \in zone'[b] : r.id # None
                    /\ Calm(b)' =>
                         /\ \A r, q \in zone'[b] : r = q
                         /\ \A c, d \in Publishing(b)' : c = d
                         /\ \A c \in Issued' : call'[c].op = "publish" /\ <<c, b>> \in wire' =>
                               c \in Publishing(b)' /\ (target'[c][b] = None => zone'[b] = {})
  BY <1>0 DEF Serial, Calm
<1> DEFINE Goal == /\ \A r \in zone'[b] : r.id # None
                   /\ Calm(b)' =>
                        /\ \A r, q \in zone'[b] : r = q
                        /\ \A c, d \in Publishing(b)' : c = d
                        /\ \A c \in Issued' : call'[c].op = "publish" /\ <<c, b>> \in wire' =>
                              c \in Publishing(b)' /\ (target'[c][b] = None => zone'[b] = {})
<1>1. Calm(b)' => Calm(b)
  BY CalmBefore
\* A step that does not touch b.
<1>2. ASSUME zone'[b] = zone[b], UNCHANGED call,
             \A c \in Calls : stage'[c][b] = stage[c][b] /\ target'[c][b] = target[c][b],
             \A c \in Calls : <<c, b>> \in wire' => <<c, b>> \in wire
      PROVE  Goal
  <2>1. Issued' = Issued /\ Issued \subseteq Calls
    BY <1>2 DEF Issued
  <2>2. Publishing(b)' = Publishing(b)
    BY <1>2, <2>1 DEF Publishing
  <2> QED
    BY <1>1, <1>2, <2>1, <2>2 DEF Serial
<1>3. ASSUME NEW c \in Calls, NEW op \in {"publish", "delete"},
             NEW v \in Values \cup {All}, Issue(c, op, v)
      PROVE  Goal
  <2>1. stage'[c][b] = "start"
    BY <1>3 DEF Issue, TypeOK, First, OutOfZone
  <2>0. IssueMove(c, op, v)
    BY <1>3, IssueMoves
  <2>2. /\ c \notin Issued /\ Issued' = Issued \cup {c} /\ UNCHANGED <<zone, target>>
        /\ \A d \in Calls : d # c => stage'[d] = stage[d]
    BY <2>0 DEF IssueMove, IssueStage
  <2>3. \A d \in Calls : d # c => call'[d] = call[d]
    BY <2>0 DEF IssueMove, IssueCall
  <2>4. \A d \in Calls : <<d, b>> \in wire' => <<d, b>> \in wire /\ d # c
    <3>1. First(b) \notin Waiting
      BY DEF First, OutOfZone, Waiting
    <3>2. \A d \in Calls : <<d, b>> \in wire' => <<d, b>> \in wire
      BY <1>3, <3>1 DEF Issue
    <3> QED
      BY <2>2, <3>2 DEF Unmade
  <2>5. Publishing(b)' = Publishing(b)
    BY <2>1, <2>2, <2>3 DEF Publishing, Issued
  <2> QED
    BY <1>1, <2>2, <2>3, <2>4, <2>5 DEF Serial, Issued
<1>4. ASSUME NEW c \in Calls, Return(c) PROVE Goal
  BY <1>2, <1>4 DEF Return
<1>5. ASSUME NEW a \in Backends, NEW r \in zone[a], Expire(a, r) PROVE Goal
  <2>1. a # b /\ zone'[b] = zone[b]
    BY <1>5 DEF Expire, TypeOK
  <2> QED
    BY <1>2, <1>5, <2>1 DEF Expire
<1>6. CASE UNCHANGED <<dep, zone, call, stage, target, wire, result, over>>
  BY <1>2, <1>6
<1>7. ASSUME NEW c \in Issued, NEW a \in Backends, Step(c, a), Move(c, a), a # b PROVE Goal
  BY <1>2, <1>7 DEF Move, MoveFrame
<1>8. ASSUME NEW c \in Issued, Step(c, b), Move(c, b) PROVE Goal
  <2>1. /\ UNCHANGED call /\ Issued' = Issued /\ c \in Calls /\ Issued \subseteq Calls
        /\ \A d \in Issued \ {c} : stage'[d][b] = stage[d][b] /\ target'[d][b] = target[d][b]
        /\ \A d \in Issued \ {c} : <<d, b>> \in wire' => <<d, b>> \in wire
    BY <1>8 DEF Move, MoveFrame, Issued
  <2>2. CASE Lock(c, b)
    <3>1. /\ stage[c][b] = "start" /\ stage'[c][b] = "get" /\ UNCHANGED <<zone, target, wire>>
          /\ call[c].op = "publish" => ~Locked(b, Owner[c])
      BY <2>1, <2>2 DEF Lock, Go, TypeOK
    <3>2. ASSUME Calm(b)', call[c].op = "publish" PROVE Publishing(b) = {}
      BY <1>1, <2>1, <3>1, <3>2 DEF Locked, Calm, Publishing
    <3>3. Publishing(b)' \subseteq Publishing(b) \cup (IF call[c].op = "publish" THEN {c} ELSE {})
      BY <2>1, <3>1 DEF Publishing
    <3>4. Publishing(b) \subseteq Publishing(b)'
      BY <2>1, <3>1 DEF Publishing
    <3> QED
      BY <1>1, <2>1, <3>1, <3>2, <3>3, <3>4 DEF Serial
  <2>3. CASE FindRecord(c, b)
    <3>1. PICK id \in IF zone[b] = {} THEN {None} ELSE {r.id : r \in zone[b]} :
            /\ target' = [target EXCEPT ![c][b] = id]
            /\ IF id = None /\ call[c].op = "delete"
               THEN Go(c, b, "ok") /\ UNCHANGED wire
               ELSE Go(c, b, "sent") /\ wire' = wire \cup {<<c, b>>}
      BY <2>3 DEF FindRecord
    <3>2. zone' = zone /\ stage[c][b] = "get" /\ target'[c][b] = id
      BY <2>1, <2>3, <3>1 DEF FindRecord, TypeOK
    <3>3. id = None => zone[b] = {}
      BY <3>1 DEF Serial
    <3>4. call[c].op = "publish" => stage'[c][b] = "sent"
      BY <2>1, <3>1 DEF Go, TypeOK
    <3>5. call[c].op # "publish" \/ c \in Publishing(b)'
      BY <2>1, <3>4 DEF Publishing
    <3>6. Publishing(b)' = Publishing(b)
      BY <2>1, <3>2, <3>4 DEF Publishing
    <3> QED
      BY <1>1, <2>1, <3>2, <3>3, <3>5, <3>6 DEF Serial
  <2>4. CASE Fail(c, b)
    <3>1. stage'[c][b] = "err" /\ zone' = zone
      BY <2>1, <2>4 DEF Fail, Go, TypeOK
    <3>2. ~Calm(b)'
      BY <2>1, <3>1 DEF Calm
    <3> QED
      BY <3>1, <3>2 DEF Serial
  <2>5. CASE Apply(c, b)
    <3>1. <<c, b>> \in wire /\ wire' = wire \ {<<c, b>>} /\ target' = target
      BY <2>5 DEF Apply
    <3>2. zone'[b] \in Effects(c, b)
      BY <2>5 DEF Apply, TypeOK
    <3>3. \A r \in zone'[b] : r.id # None
      BY <3>2, EffectCloudflare DEF Serial
    <3>4. ASSUME Calm(b)'
          PROVE  /\ \A r, q \in zone'[b] : r = q
                 /\ \A d, e \in Publishing(b)' : d = e
                 /\ \A d \in Issued' : call'[d].op = "publish" /\ <<d, b>> \in wire' =>
                       d \in Publishing(b)' /\ (target'[d][b] = None => zone'[b] = {})
      <4>1. Calm(b)
        BY <1>1, <3>4
      <4>2. stage'[c][b] \in {"ok", "err"} \/ stage'[c][b] = stage[c][b]
        BY <2>1, <2>5 DEF Apply, Go, TypeOK
      <4>3. Publishing(b)' \subseteq Publishing(b) /\ Publishing(b) \ {c} \subseteq Publishing(b)'
        BY <2>1, <4>2 DEF Publishing
      <4>4. call[c].op \in {"publish", "delete"}
        BY <2>1 DEF TypeOK, Issued
      <4>5. CASE call[c].op = "delete"
        <5>1. zone'[b] \subseteq zone[b]
          BY <3>2, <4>5, EffectCloudflare
        <5>2. c \notin Publishing(b)
          BY <4>5 DEF Publishing
        <5> QED
          BY <2>1, <3>1, <4>1, <4>3, <4>5, <5>1, <5>2 DEF Serial
      <4>6. CASE call[c].op = "publish"
        <5>1. c \in Publishing(b) /\ (target[c][b] = None => zone[b] = {})
          BY <3>1, <4>1, <4>6 DEF Serial
        <5>2. \A r, q \in zone'[b] : r = q
          BY <3>2, <4>1, <5>1, EffectCloudflare DEF Serial
        <5>3. \A d \in Issued : call[d].op = "publish" => <<d, b>> \notin wire'
          BY <2>1, <3>1, <4>1, <5>1 DEF Serial
        <5> QED
          BY <2>1, <4>1, <4>3, <5>2, <5>3 DEF Serial
      <4> QED
        BY <4>4, <4>5, <4>6
    <3> QED
      BY <3>3, <3>4
  <2>6. CASE Lose(c, b)
    BY <1>2, <2>6 DEF Lose
  <2>7. CASE Truncated(c, b) \/ InMemory(c, b)
    BY <2>7 DEF Truncated, InMemory
  <2> QED
    BY <1>8, <2>2, <2>3, <2>4, <2>5, <2>6, <2>7 DEF Step
<1> QED
  BY <1>3, <1>4, <1>5, <1>6, <1>7, <1>8, NextCases

\* Publishes of one CloudflarePublisher leave one record at a name while no
\* request fails: publish_lock spans lookup and write (cloudflare.rs:251-254).
THEOREM NoDuplicateHolds == Spec => []NoDuplicate
<1>1. Init => Serial
  BY DEF Init, Serial, Publishing, Issued, NoCall
<1>2. Serial => NoDuplicate
  <2> SUFFICES ASSUME Serial, NEW b \in Backends, Calm(b)
               PROVE  Cardinality(zone[b]) <= 1
    BY DEF NoDuplicate, Calm
  <2>1. \A r, q \in zone[b] : r = q
    BY DEF Serial
  <2>2. zone[b] = {} \/ \E r : zone[b] = {r}
    BY <2>1
  <2>3. CASE zone[b] = {}
    BY <2>3, FS_EmptySet
  <2>4. CASE \E r : zone[b] = {r}
    <3>1. Cardinality(zone[b]) = 1
      BY <2>4, FS_Singleton
    <3> QED
      BY <3>1
  <2> QED
    BY <2>2, <2>3, <2>4
<1>3. Spec => [](TypeOK /\ Unmade)
  BY TypeCorrect
<1> QED
  BY <1>1, <1>2, <1>3, StepSerial, PTL DEF Spec
=============================================================================
