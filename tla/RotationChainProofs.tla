------------------------ MODULE RotationChainProofs ------------------------
(***************************************************************************)
(* Proofs about key rotation: the walk of resolve_current_spk returns the  *)
(* end of the one legal chain of rotations from the pinned key when there  *)
(* is such a chain and nothing otherwise, and a revoked key is never the   *)
(* answer; for any set of records, any hop bound and any keys.             *)
(*                                                                         *)
(* The walk is a recursive function.  What it computes is proved by taking *)
(* the least hop at which a claim fails (lemma Least), which needs no      *)
(* induction rule with an operator as its parameter.                       *)
(***************************************************************************)
EXTENDS RotationChain, FiniteSetTheorems, WellFoundedInduction, TLAPS

Rotations == [old : Keys, new : Keys, seq : Nat, exp : Nat, form : {"zone", "hash"}]
Revocations == [spk : Keys, ts : Nat, form : {"zone", "hash"}]

---------------------------------------------------------------------------
LEMMA Least ==
  ASSUME NEW T \in SUBSET Nat, T # {}
  PROVE  \E x \in T : \A y \in T : x <= y
<1> DEFINE lt == {ss \in Nat \X Nat : ss[1] < ss[2]}
<1>1. IsWellFoundedOn(lt, Nat)
  BY NatLessThanWellFounded DEF OpToRel
<1>2. PICK x \in T : \A y \in T : ~ (<<y, x>> \in lt)
  BY <1>1, WFMin
<1>3. ASSUME NEW y \in T PROVE x <= y
  <2>1. ~(y < x)
    BY <1>2
  <2> QED
    BY <2>1
<1> QED
  BY <1>3

---------------------------------------------------------------------------
(* One hop *)

Succ(R, k) == {r \in R : r.old = k}
First(R, k) == CHOOSE r \in Succ(R, k) : \A s \in Succ(R, k) : r.seq <= s.seq

\* The record of a hop that counts is one of lowest sequence number.
LEMMA FirstIsFirst ==
  ASSUME NEW R \in SUBSET Rotations, NEW k, Succ(R, k) # {}
  PROVE  /\ First(R, k) \in Succ(R, k)
         /\ First(R, k).seq = FirstIssue(R, k)
         /\ First(R, k).new \in Keys /\ FirstIssue(R, k) \in Nat
<1> DEFINE S == {r.seq : r \in {s \in R : s.old = k}}
<1>1. S \in SUBSET Nat /\ S # {}
  BY DEF Succ, Rotations
<1>2. PICK x \in S : \A y \in S : x <= y
  BY <1>1, Least
<1>3. PICK r \in Succ(R, k) : r.seq = x
  BY DEF Succ
<1>4. \A s \in Succ(R, k) : r.seq <= s.seq
  BY <1>2, <1>3 DEF Succ
<1>5. /\ First(R, k) \in Succ(R, k)
      /\ \A s \in Succ(R, k) : First(R, k).seq <= s.seq
  BY <1>4 DEF First
<1>6. First(R, k).seq \in S /\ \A y \in S : First(R, k).seq <= y
  BY <1>5 DEF Succ
<1>7. ASSUME NEW z \in S, \A y \in S : z <= y
      PROVE  z = First(R, k).seq
  <2>1. z \in Nat /\ First(R, k).seq \in Nat
    BY <1>1, <1>6, <1>7
  <2>2. z <= First(R, k).seq /\ First(R, k).seq <= z
    BY <1>6, <1>7
  <2> QED
    BY <2>1, <2>2
<1>8. FirstIssue(R, k) = First(R, k).seq
  BY <1>6, <1>7 DEF FirstIssue, Min
<1> QED
  BY <1>1, <1>5, <1>6, <1>8 DEF Succ, Rotations

\* Every successor is the same key.
Single(R, k) == \A a, b \in Succ(R, k) : a.new = b.new

LEMMA SingleSuccessor ==
  ASSUME NEW R \in SUBSET Rotations, NEW k
  PROVE  /\ Succ(R, k) = {} <=> Successors(R, k) = {}
         /\ Succ(R, k) # {} /\ Single(R, k) => Successors(R, k) = {First(R, k).new}
         /\ \A x : Successors(R, k) = {x} =>
               Succ(R, k) # {} /\ Single(R, k) /\ First(R, k).new = x
<1>1. Succ(R, k) = {} <=> Successors(R, k) = {}
  BY DEF Succ, Successors
<1>2. ASSUME Succ(R, k) # {} PROVE First(R, k) \in Succ(R, k)
  BY <1>2, FirstIsFirst
<1>3. ASSUME Succ(R, k) # {}, Single(R, k) PROVE Successors(R, k) = {First(R, k).new}
  BY <1>2, <1>3 DEF Single, Succ, Successors
<1>4. ASSUME NEW x, Successors(R, k) = {x}
      PROVE  Succ(R, k) # {} /\ Single(R, k) /\ First(R, k).new = x
  <2>1. \A r \in Succ(R, k) : r.new = x
    BY <1>4 DEF Succ, Successors
  <2> QED
    BY <1>1, <1>2, <1>4, <2>1 DEF Single
<1> QED
  BY <1>1, <1>3, <1>4

\* Hop in terms of these.
LEMMA HopIs ==
  ASSUME NEW R, NEW V, NEW w
  PROVE  Hop(R, V, w) =
           IF Succ(R, w.head) = {} THEN [w EXCEPT !.st = "end"]
           ELSE IF \/ ~Single(R, w.head)
                   \/ First(R, w.head).seq <= w.last
                   \/ First(R, w.head).new \in V
                   \/ First(R, w.head).new \in w.seen
           THEN [w EXCEPT !.st = "abort"]
           ELSE Step("go", First(R, w.head).new, w.seen \cup {First(R, w.head).new},
                     First(R, w.head).seq)
BY DEF Hop, Succ, First, Single

---------------------------------------------------------------------------
(* The walk, hop by hop *)

\* The states of the walk after 0..m hops.
Run(R, V, p, m, w) ==
    w = [n \in 0..m |->
           IF n = 0 THEN Step("go", p, {p}, -1)
           ELSE IF w[n - 1].st = "go" THEN Hop(R, V, w[n - 1]) ELSE w[n - 1]]

LEMMA RunExists ==
  ASSUME NEW R, NEW V, NEW p, NEW m \in Nat
  PROVE  \E w : Run(R, V, p, m, w)
<1> DEFINE Bad == {i \in Nat : ~ \E w : Run(R, V, p, i, w)}
<1> SUFFICES ASSUME Bad # {} PROVE FALSE
  OBVIOUS
<1>1. PICK i \in Bad : \A j \in Bad : i <= j
  BY Least
<1>2. i # 0
  <2> DEFINE w == [n \in 0..0 |-> Step("go", p, {p}, -1)]
  <2>1. w = [n \in 0..0 |->
           IF n = 0 THEN Step("go", p, {p}, -1)
           ELSE IF w[n - 1].st = "go" THEN Hop(R, V, w[n - 1]) ELSE w[n - 1]]
    OBVIOUS
  <2>2. Run(R, V, p, 0, w)
    BY <2>1 DEF Run
  <2> QED
    BY <2>2
<1>3. i - 1 \in Nat /\ i - 1 \notin Bad /\ i \in Nat
  BY <1>1, <1>2
<1>4. PICK w : Run(R, V, p, i - 1, w)
  BY <1>3
<1> DEFINE next == IF w[i - 1].st = "go" THEN Hop(R, V, w[i - 1]) ELSE w[i - 1]
           u == [n \in 0..i |-> IF n = i THEN next ELSE w[n]]
<1>5. \A n \in 0..(i - 1) : w[n] = IF n = 0 THEN Step("go", p, {p}, -1)
           ELSE IF w[n - 1].st = "go" THEN Hop(R, V, w[n - 1]) ELSE w[n - 1]
  BY <1>4 DEF Run
<1> HIDE DEF Bad
<1>6. ASSUME NEW n \in 0..i
      PROVE  u[n] = IF n = 0 THEN Step("go", p, {p}, -1)
                    ELSE IF u[n - 1].st = "go" THEN Hop(R, V, u[n - 1]) ELSE u[n - 1]
  <2>1. CASE n = i
    <3>1. u[i] = next /\ u[i - 1] = w[i - 1]
      BY <1>2, <1>3
    <3> QED
      BY <1>2, <2>1, <3>1
  <2>2. CASE n # i
    <3>1. n \in 0..(i - 1) /\ u[n] = w[n]
      BY <1>3, <2>2
    <3>2. n # 0 => n - 1 \in 0..i /\ n - 1 # i /\ u[n - 1] = w[n - 1]
      BY <1>3, <2>2
    <3> QED
      BY <1>5, <3>1, <3>2
  <2> QED
    BY <2>1, <2>2
<1>7. Run(R, V, p, i, u)
  <2> HIDE DEF next
  <2>1. u = [n \in 0..i |-> u[n]]
    OBVIOUS
  <2> HIDE DEF u
  <2>2. u = [n \in 0..i |->
                IF n = 0 THEN Step("go", p, {p}, -1)
                ELSE IF u[n - 1].st = "go" THEN Hop(R, V, u[n - 1]) ELSE u[n - 1]]
    BY <1>6, <2>1
  <2> QED
    BY <2>2 DEF Run
<1> HIDE DEF u
<1>8. i \notin Bad
  BY <1>7 DEF Bad
<1> QED
  BY <1>1, <1>8

\* Walk is the last state of a run.
LEMMA WalkIsRun ==
  ASSUME NEW hops \in Nat \ {0}, NEW R, NEW V, NEW p
  PROVE  \E w : /\ Walk(hops, R, V, p) = w[hops]
                /\ w[0] = Step("go", p, {p}, -1)
                /\ \A n \in 1..hops :
                     w[n] = IF w[n - 1].st = "go" THEN Hop(R, V, w[n - 1]) ELSE w[n - 1]
<1> DEFINE w == CHOOSE w : Run(R, V, p, hops, w)
<1>0. hops \in Nat
  OBVIOUS
<1>1. Run(R, V, p, hops, w)
  BY <1>0, RunExists
<1>2. Walk(hops, R, V, p) = w[hops]
  BY DEF Walk, Run
<1> HIDE DEF w
<1>3. \A n \in 0..hops : w[n] = IF n = 0 THEN Step("go", p, {p}, -1)
           ELSE IF w[n - 1].st = "go" THEN Hop(R, V, w[n - 1]) ELSE w[n - 1]
  BY <1>1 DEF Run
<1>4. w[0] = Step("go", p, {p}, -1)
  BY <1>0, <1>3
<1>5. \A n \in 1..hops :
        w[n] = IF w[n - 1].st = "go" THEN Hop(R, V, w[n - 1]) ELSE w[n - 1]
  BY <1>0, <1>3
<1> QED
  BY <1>2, <1>4, <1>5

---------------------------------------------------------------------------
(* Chains *)

\* A legal chain of n rotations from p: what EndsAt asks of one, except that
\* it may have a successor.
Chain(R, V, p, n, f) ==
    /\ f \in [0..n -> Keys] /\ f[0] = p
    /\ \A i, j \in 0..n : f[i] = f[j] => i = j
    /\ \A i \in 1..n : f[i] \notin V
    /\ \A i \in 0..(n - 1) : Successors(R, f[i]) = {f[i + 1]}
    /\ \A i \in 1..(n - 1) : FirstIssue(R, f[i - 1]) < FirstIssue(R, f[i])

\* The walk's state after i hops along a chain.
At(R, f, i) == Step("go", f[i], {f[j] : j \in 0..i},
                    IF i = 0 THEN -1 ELSE FirstIssue(R, f[i - 1]))

\* A hop that goes on extends the chain by one.
LEMMA HopExtends ==
  ASSUME NEW R \in SUBSET Rotations, NEW V, NEW p, NEW n \in Nat, NEW f,
         Chain(R, V, p, n, f), Hop(R, V, At(R, f, n)).st = "go"
  PROVE  \E g : Chain(R, V, p, n + 1, g) /\ Hop(R, V, At(R, f, n)) = At(R, g, n + 1)
<1> DEFINE w == At(R, f, n)
           k == First(R, f[n]).new
           g == [i \in 0..(n + 1) |-> IF i = n + 1 THEN k ELSE f[i]]
<1>1. /\ w.st = "go" /\ w.head = f[n] /\ w.seen = {f[j] : j \in 0..n}
      /\ w.last = IF n = 0 THEN -1 ELSE FirstIssue(R, f[n - 1])
  BY DEF At, Step
<1>2. /\ Succ(R, f[n]) # {} /\ Single(R, f[n])
      /\ ~(First(R, f[n]).seq <= w.last) /\ k \notin V /\ k \notin w.seen
      /\ Hop(R, V, w) = Step("go", k, w.seen \cup {k}, First(R, f[n]).seq)
  <2> HIDE DEF w
  <2>1. /\ [w EXCEPT !.st = "end"].st # "go" /\ [w EXCEPT !.st = "abort"].st # "go"
    BY DEF w, At, Step
  <2> QED
    BY <1>1, <2>1, HopIs DEF w
<1>3. /\ First(R, f[n]).seq = FirstIssue(R, f[n]) /\ FirstIssue(R, f[n]) \in Nat
      /\ k \in Keys /\ Successors(R, f[n]) = {k}
  BY <1>2, FirstIsFirst, SingleSuccessor
<1>4. /\ f \in [0..n -> Keys] /\ f[0] = p
      /\ \A i, j \in 0..n : f[i] = f[j] => i = j
      /\ \A i \in 1..n : f[i] \notin V
      /\ \A i \in 0..(n - 1) : Successors(R, f[i]) = {f[i + 1]}
      /\ \A i \in 1..(n - 1) : FirstIssue(R, f[i - 1]) < FirstIssue(R, f[i])
  BY DEF Chain
<1>5. \A j \in 0..n : f[j] # k
  BY <1>1, <1>2
<1>6. g \in [0..(n + 1) -> Keys] /\ g[n + 1] = k /\ \A i \in 0..n : g[i] = f[i]
  BY <1>3, <1>4
<1> HIDE DEF g, k
<1>7. Chain(R, V, p, n + 1, g)
  <2>1. g[0] = p
    BY <1>4, <1>6
  <2>2. \A i, j \in 0..(n + 1) : g[i] = g[j] => i = j
    <3> SUFFICES ASSUME NEW i \in 0..(n + 1), NEW j \in 0..(n + 1), g[i] = g[j] PROVE i = j
      OBVIOUS
    <3>1. (i \in 0..n \/ i = n + 1) /\ (j \in 0..n \/ j = n + 1)
      OBVIOUS
    <3> QED
      BY <1>4, <1>5, <1>6, <3>1
  <2>3. \A i \in 1..(n + 1) : g[i] \notin V
    <3> SUFFICES ASSUME NEW i \in 1..(n + 1) PROVE g[i] \notin V
      OBVIOUS
    <3>1. (i \in 1..n /\ i \in 0..n) \/ i = n + 1
      OBVIOUS
    <3> QED
      BY <1>2, <1>4, <1>6, <3>1
  <2>4. \A i \in 0..n : Successors(R, g[i]) = {g[i + 1]}
    <3> SUFFICES ASSUME NEW i \in 0..n PROVE Successors(R, g[i]) = {g[i + 1]}
      OBVIOUS
    <3>1. (i \in 0..(n - 1) /\ i + 1 \in 0..n) \/ i = n
      OBVIOUS
    <3> QED
      BY <1>3, <1>4, <1>6, <3>1
  <2>5. \A i \in 1..n : FirstIssue(R, g[i - 1]) < FirstIssue(R, g[i])
    <3> SUFFICES ASSUME NEW i \in 1..n PROVE FirstIssue(R, g[i - 1]) < FirstIssue(R, g[i])
      OBVIOUS
    <3>1. i \in 0..n /\ i - 1 \in 0..n /\ g[i - 1] = f[i - 1] /\ g[i] = f[i]
      BY <1>6
    <3>2. CASE i \in 1..(n - 1)
      BY <1>4, <3>1, <3>2
    <3>3. CASE i = n
      <4>1. n # 0 /\ w.last = FirstIssue(R, f[n - 1])
        BY <1>1, <3>3
      <4>2. Successors(R, f[n - 1]) = {f[n]}
        <5>1. n - 1 \in 0..(n - 1) /\ (n - 1) + 1 = n
          BY <4>1
        <5> QED
          BY <1>4, <5>1
      <4>3. FirstIssue(R, f[n - 1]) \in Nat
        BY <4>2, FirstIsFirst, SingleSuccessor
      <4> HIDE DEF w
      <4> QED
        BY <1>2, <1>3, <3>1, <3>3, <4>1, <4>3
    <3> QED
      BY <3>2, <3>3
  <2>6. (n + 1) - 1 = n
    OBVIOUS
  <2> QED
    BY <1>6, <2>1, <2>2, <2>3, <2>4, <2>5, <2>6 DEF Chain
<1>8. Hop(R, V, w) = At(R, g, n + 1)
  <2>1. {g[j] : j \in 0..(n + 1)} = w.seen \cup {k}
    <3>1. 0..(n + 1) = (0..n) \cup {n + 1}
      OBVIOUS
    <3> QED
      BY <1>1, <1>6, <3>1
  <2>2. g[(n + 1) - 1] = f[n] /\ n + 1 # 0
    BY <1>6
  <2> QED
    BY <1>2, <1>3, <1>6, <2>1, <2>2 DEF At
<1> QED
  BY <1>7, <1>8

\* Along a chain every hop goes on.
LEMMA HopFollows ==
  ASSUME NEW R \in SUBSET Rotations, NEW V, NEW p, NEW n \in Nat, NEW f,
         Chain(R, V, p, n, f), NEW i \in 0..(n - 1)
  PROVE  Hop(R, V, At(R, f, i)) = At(R, f, i + 1)
<1> DEFINE w == At(R, f, i)
<1>1. /\ w.head = f[i] /\ w.seen = {f[j] : j \in 0..i}
      /\ w.last = IF i = 0 THEN -1 ELSE FirstIssue(R, f[i - 1])
  BY DEF At, Step
<1>2. /\ i \in Nat /\ i + 1 \in 1..n /\ i \in 0..n /\ i + 1 \in 0..n
  OBVIOUS
<1>3. /\ Successors(R, f[i]) = {f[i + 1]} /\ f[i + 1] \notin V
      /\ \A j \in 0..i : f[j] # f[i + 1]
  <2>1. Successors(R, f[i]) = {f[i + 1]} /\ f[i + 1] \notin V
    BY <1>2 DEF Chain
  <2>2. \A a, b \in 0..n : f[a] = f[b] => a = b
    BY DEF Chain
  <2>3. ASSUME NEW j \in 0..i PROVE f[j] # f[i + 1]
    <3>1. j \in 0..n /\ i + 1 \in 0..n /\ j # i + 1
      BY <1>2
    <3> QED
      BY <2>2, <3>1
  <2> QED
    BY <2>1, <2>3
<1>4. /\ Succ(R, f[i]) # {} /\ Single(R, f[i]) /\ First(R, f[i]).new = f[i + 1]
      /\ First(R, f[i]).seq = FirstIssue(R, f[i]) /\ FirstIssue(R, f[i]) \in Nat
  BY <1>3, SingleSuccessor, FirstIsFirst
<1>5. ~(First(R, f[i]).seq <= w.last)
  <2>1. CASE i = 0
    BY <1>1, <1>4, <2>1
  <2>2. CASE i # 0
    <3>1. i - 1 \in 0..(n - 1) /\ i \in 1..(n - 1) /\ (i - 1) + 1 = i
      BY <1>2, <2>2
    <3>2. FirstIssue(R, f[i - 1]) < FirstIssue(R, f[i]) /\ Successors(R, f[i - 1]) = {f[i]}
      BY <3>1 DEF Chain
    <3>3. FirstIssue(R, f[i - 1]) \in Nat
      BY <3>2, SingleSuccessor, FirstIsFirst
    <3> HIDE DEF w
    <3> QED
      BY <1>1, <1>4, <2>2, <3>2, <3>3
  <2> QED
    BY <2>1, <2>2
<1>6. f[i + 1] \notin w.seen
  BY <1>1, <1>3
<1>7. Hop(R, V, w) = Step("go", f[i + 1], w.seen \cup {f[i + 1]}, FirstIssue(R, f[i]))
  <2> HIDE DEF w
  <2> QED
    BY <1>1, <1>3, <1>4, <1>5, <1>6, HopIs
<1>8. w.seen \cup {f[i + 1]} = {f[j] : j \in 0..(i + 1)}
  <2>1. 0..(i + 1) = (0..i) \cup {i + 1}
    BY <1>2
  <2> QED
    BY <1>1, <2>1
<1>9. (i + 1) - 1 = i /\ i + 1 # 0
  BY <1>2
<1> QED
  BY <1>7, <1>8, <1>9 DEF At

---------------------------------------------------------------------------
(* What the walk computes *)

\* What the state after n hops says: still on a chain of n rotations, or at
\* the end of a shorter one, or given up.
Reached(R, V, p, n, s) ==
  \/ \E f : Chain(R, V, p, n, f) /\ s = At(R, f, n)
  \/ /\ s.st = "end"
     /\ \E m \in 0..n : \E f : /\ Chain(R, V, p, m, f) /\ s.head = f[m]
                               /\ Successors(R, f[m]) = {}
  \/ s.st = "abort"

LEMMA ReachedStep ==
  ASSUME NEW R \in SUBSET Rotations, NEW V, NEW p, NEW n \in Nat, NEW s,
         Reached(R, V, p, n, s)
  PROVE  Reached(R, V, p, n + 1, IF s.st = "go" THEN Hop(R, V, s) ELSE s)
<1>1. CASE s.st = "abort"
  BY <1>1 DEF Reached
<1>2. CASE /\ s.st = "end"
           /\ \E m \in 0..n : \E f : /\ Chain(R, V, p, m, f) /\ s.head = f[m]
                                     /\ Successors(R, f[m]) = {}
  <2>1. 0..n \subseteq 0..(n + 1)
    OBVIOUS
  <2>2. \E m \in 0..(n + 1) : \E f : /\ Chain(R, V, p, m, f) /\ s.head = f[m]
                                     /\ Successors(R, f[m]) = {}
    BY <1>2, <2>1
  <2> QED
    BY <1>2, <2>2 DEF Reached
<1>3. ASSUME NEW f, Chain(R, V, p, n, f), s = At(R, f, n)
      PROVE  Reached(R, V, p, n + 1, IF s.st = "go" THEN Hop(R, V, s) ELSE s)
  <2>1. s.st = "go" /\ s.head = f[n]
    BY <1>3 DEF At, Step
  <2>2. \/ Hop(R, V, s).st = "go"
        \/ Hop(R, V, s).st = "abort"
        \/ /\ Hop(R, V, s).st = "end" /\ Hop(R, V, s).head = f[n]
           /\ Succ(R, f[n]) = {}
    <3>1. /\ [s EXCEPT !.st = "end"].st = "end" /\ [s EXCEPT !.st = "end"].head = f[n]
          /\ [s EXCEPT !.st = "abort"].st = "abort"
      BY <1>3 DEF At, Step
    <3>2. \A h, seen, last : Step("go", h, seen, last).st = "go"
      BY DEF Step
    <3>3. \/ Succ(R, f[n]) = {} /\ Hop(R, V, s) = [s EXCEPT !.st = "end"]
          \/ Hop(R, V, s) = [s EXCEPT !.st = "abort"]
          \/ \E h, seen, last : Hop(R, V, s) = Step("go", h, seen, last)
      BY <2>1, HopIs
    <3>4. CASE Hop(R, V, s) = [s EXCEPT !.st = "abort"]
      BY <3>1, <3>4
    <3>5. CASE Succ(R, f[n]) = {} /\ Hop(R, V, s) = [s EXCEPT !.st = "end"]
      BY <3>1, <3>5
    <3>6. CASE \E h, seen, last : Hop(R, V, s) = Step("go", h, seen, last)
      BY <3>2, <3>6
    <3> QED
      BY <3>3, <3>4, <3>5, <3>6
  <2>3. CASE Hop(R, V, s).st = "go"
    <3>1. \E g : Chain(R, V, p, n + 1, g) /\ Hop(R, V, s) = At(R, g, n + 1)
      BY <1>3, <2>3, HopExtends
    <3>2. Reached(R, V, p, n + 1, Hop(R, V, s))
      BY <3>1 DEF Reached
    <3> QED
      BY <2>1, <3>2
  <2>4. CASE Hop(R, V, s).st = "abort"
    BY <2>1, <2>4 DEF Reached
  <2>5. CASE /\ Hop(R, V, s).st = "end" /\ Hop(R, V, s).head = f[n] /\ Succ(R, f[n]) = {}
    <3>1. Successors(R, f[n]) = {}
      BY <2>5, SingleSuccessor
    <3>2. n \in 0..(n + 1)
      OBVIOUS
    <3>3. \E m \in 0..(n + 1) : \E g : /\ Chain(R, V, p, m, g) /\ Hop(R, V, s).head = g[m]
                                       /\ Successors(R, g[m]) = {}
      BY <1>3, <2>5, <3>1, <3>2
    <3> QED
      BY <2>1, <2>5, <3>3 DEF Reached
  <2> QED
    BY <2>2, <2>3, <2>4, <2>5
<1> QED
  BY <1>1, <1>2, <1>3 DEF Reached

\* The walk ends on or at the end of a chain, or gives up.
LEMMA WalkReached ==
  ASSUME NEW hops \in Nat \ {0}, NEW R \in SUBSET Rotations, NEW V, NEW p \in Keys
  PROVE  Reached(R, V, p, hops, Walk(hops, R, V, p))
<1>0. hops \in Nat
  OBVIOUS
<1>1. PICK w : /\ Walk(hops, R, V, p) = w[hops]
               /\ w[0] = Step("go", p, {p}, -1)
               /\ \A n \in 1..hops :
                    w[n] = IF w[n - 1].st = "go" THEN Hop(R, V, w[n - 1]) ELSE w[n - 1]
  BY WalkIsRun
<1> DEFINE Bad == {n \in 0..hops : ~Reached(R, V, p, n, w[n])}
<1> SUFFICES ASSUME Bad # {} PROVE FALSE
  BY <1>0, <1>1
<1>2. Bad \in SUBSET Nat
  BY <1>0
<1>3. PICK n \in Bad : \A y \in Bad : n <= y
  BY <1>2, Least
<1>4. Reached(R, V, p, 0, w[0])
  <2> DEFINE f == [i \in 0..0 |-> p]
  <2>1. Chain(R, V, p, 0, f)
    BY DEF Chain
  <2>2. w[0] = At(R, f, 0)
    <3>1. {f[j] : j \in 0..0} = {p} /\ f[0] = p
      OBVIOUS
    <3> QED
      BY <1>1, <3>1 DEF At
  <2> QED
    BY <2>1, <2>2 DEF Reached
<1>5. n # 0
  BY <1>4
<1>6. n \in 1..hops /\ n - 1 \in 0..hops /\ n - 1 \in Nat /\ (n - 1) + 1 = n
      /\ n - 1 \notin Bad
  BY <1>0, <1>3, <1>5
<1>7. Reached(R, V, p, n - 1, w[n - 1])
  BY <1>6
<1>8. w[n] = IF w[n - 1].st = "go" THEN Hop(R, V, w[n - 1]) ELSE w[n - 1]
  BY <1>1, <1>6
<1> HIDE DEF Bad
<1>9. Reached(R, V, p, (n - 1) + 1, w[n])
  BY <1>6, <1>7, <1>8, ReachedStep
<1> QED
  BY <1>3, <1>6, <1>9 DEF Bad

\* A chain within the hop bound whose last key has no successor is walked to
\* its end.
LEMMA WalkFollows ==
  ASSUME NEW hops \in Nat \ {0}, NEW R \in SUBSET Rotations, NEW V, NEW p,
         NEW n \in 0..hops, NEW f,
         Chain(R, V, p, n, f), Successors(R, f[n]) = {}
  PROVE  Walk(hops, R, V, p).st \in {"go", "end"} /\ Walk(hops, R, V, p).head = f[n]
<1>0. hops \in Nat /\ n \in Nat
  OBVIOUS
<1>1. PICK w : /\ Walk(hops, R, V, p) = w[hops]
               /\ w[0] = Step("go", p, {p}, -1)
               /\ \A i \in 1..hops :
                    w[i] = IF w[i - 1].st = "go" THEN Hop(R, V, w[i - 1]) ELSE w[i - 1]
  BY WalkIsRun
<1> DEFINE Good(i) == IF i <= n THEN w[i] = At(R, f, i)
                      ELSE w[i].st = "end" /\ w[i].head = f[n]
           Bad == {i \in 0..hops : ~Good(i)}
<1>2. ASSUME Bad # {} PROVE FALSE
  <2>1. Bad \in SUBSET Nat
    BY <1>0
  <2>2. PICK i \in Bad : \A y \in Bad : i <= y
    BY <1>2, <2>1, Least
  <2>3. Good(0)
    <3>1. f[0] = p
      BY DEF Chain
    <3>2. {f[j] : j \in 0..0} = {p}
      BY <3>1
    <3>3. w[0] = At(R, f, 0)
      BY <1>1, <3>1, <3>2 DEF At
    <3>4. 0 <= n
      BY <1>0
    <3> QED
      BY <3>3, <3>4
  <2>4. i # 0
    BY <2>2, <2>3
  <2>5. i \in 1..hops /\ i - 1 \in 0..hops /\ (i - 1) + 1 = i /\ i - 1 \notin Bad
    BY <1>0, <2>2, <2>4
  <2>6. Good(i - 1)
    BY <2>5
  <2>7. w[i] = IF w[i - 1].st = "go" THEN Hop(R, V, w[i - 1]) ELSE w[i - 1]
    BY <1>1, <2>5
  <2>8. \A j : At(R, f, j).st = "go" /\ At(R, f, j).head = f[j]
    BY DEF At, Step
  <2>9. CASE i <= n
    <3>1. i - 1 <= n /\ i - 1 \in 0..(n - 1)
      BY <1>0, <2>5, <2>9
    <3>2. w[i - 1] = At(R, f, i - 1) /\ w[i] = Hop(R, V, At(R, f, i - 1))
      BY <2>6, <2>7, <2>8, <3>1
    <3>3. w[i] = At(R, f, (i - 1) + 1)
      BY <1>0, <3>1, <3>2, HopFollows
    <3> QED
      BY <2>2, <2>5, <2>9, <3>3
  <2>10. CASE i - 1 = n
    <3>1. w[i - 1] = At(R, f, n) /\ ~(i <= n)
      BY <1>0, <2>5, <2>6, <2>10
    <3>2. Succ(R, f[n]) = {}
      BY SingleSuccessor
    <3>3. w[i] = [At(R, f, n) EXCEPT !.st = "end"]
      BY <2>7, <2>8, <3>1, <3>2, HopIs
    <3>4. w[i].st = "end" /\ w[i].head = f[n]
      BY <3>3 DEF At, Step
    <3> QED
      BY <2>2, <3>1, <3>4
  <2>11. CASE ~(i <= n) /\ i - 1 # n
    <3>1. ~(i - 1 <= n)
      BY <1>0, <2>5, <2>11
    <3>2. w[i - 1].st = "end" /\ w[i - 1].head = f[n]
      BY <2>6, <3>1
    <3> QED
      BY <2>2, <2>7, <2>11, <3>2
  <2> QED
    BY <2>9, <2>10, <2>11
<1>3. Good(hops)
  BY <1>0, <1>2
<1>4. CASE hops <= n
  <2>1. hops = n
    BY <1>0, <1>4
  <2> QED
    BY <1>1, <1>3, <1>4, <2>1 DEF At, Step
<1>5. CASE ~(hops <= n)
  BY <1>1, <1>3, <1>5
<1> QED
  BY <1>4, <1>5

\* resolve_current_spk against its reference.
LEMMA ResolveIs ==
  ASSUME NEW hops \in Nat \ {0}, NEW R \in SUBSET Rotations, NEW V, NEW p \in Keys
  PROVE  IF Resolve(hops, R, V, p) = None
         THEN \A k \in Keys : ~EndsAt(hops, R, V, p, k)
         ELSE EndsAt(hops, R, V, p, Resolve(hops, R, V, p))
<1> DEFINE w == Walk(hops, R, V, p)
<1>0. hops \in Nat \ {0} /\ None \notin Keys
  BY ChainAssumption
<1>1. Resolve(hops, R, V, p) =
        IF p \notin V /\ w.st # "abort" /\ w.head # p /\ \A r \in R : r.old # w.head
        THEN w.head ELSE None
  BY DEF Resolve
<1>2. ASSUME NEW n \in 0..hops, NEW f, Chain(R, V, p, n, f), p \notin V,
             f[n] # p, Successors(R, f[n]) = {}
      PROVE  EndsAt(hops, R, V, p, f[n])
  <2>1. n \in 1..hops
    BY <1>0, <1>2 DEF Chain
  <2>2. /\ f \in [0..n -> Keys] /\ f[0] = p
        /\ \A i, j \in 0..n : f[i] = f[j] => i = j
        /\ \A i \in 1..n : f[i] \notin V
        /\ \A i \in 0..(n - 1) : Successors(R, f[i]) = {f[i + 1]}
        /\ \A i \in 1..(n - 1) : FirstIssue(R, f[i - 1]) < FirstIssue(R, f[i])
    BY <1>2 DEF Chain
  <2>3. \A i \in 0..n : f[i] \notin V
    <3> SUFFICES ASSUME NEW i \in 0..n PROVE f[i] \notin V
      OBVIOUS
    <3>1. i = 0 \/ i \in 1..n
      OBVIOUS
    <3> QED
      BY <1>2, <2>2, <3>1
  <2> QED
    BY <1>2, <2>1, <2>2, <2>3 DEF EndsAt
<1>3. ASSUME Resolve(hops, R, V, p) # None PROVE EndsAt(hops, R, V, p, Resolve(hops, R, V, p))
  <2>1. /\ p \notin V /\ w.st # "abort" /\ w.head # p /\ \A r \in R : r.old # w.head
        /\ Resolve(hops, R, V, p) = w.head
    BY <1>1, <1>3
  <2>2. Successors(R, w.head) = {}
    BY <2>1 DEF Successors
  <2>3. \E n \in 0..hops : \E f : Chain(R, V, p, n, f) /\ w.head = f[n]
    <3>1. Reached(R, V, p, hops, w)
      BY WalkReached
    <3>2. hops \in 0..hops
      BY <1>0
    <3>3. \A f : At(R, f, hops).head = f[hops]
      BY DEF At, Step
    <3> HIDE DEF w
    <3> QED
      BY <2>1, <3>1, <3>2, <3>3 DEF Reached
  <2> HIDE DEF w
  <2> QED
    BY <1>2, <2>1, <2>2, <2>3
<1>4. ASSUME Resolve(hops, R, V, p) = None, NEW k \in Keys, EndsAt(hops, R, V, p, k) PROVE FALSE
  <2>0. PICK n \in 1..hops : \E f \in [0..n -> Keys] :
          /\ f[0] = p /\ f[n] = k
          /\ \A i, j \in 0..n : f[i] = f[j] => i = j
          /\ \A i \in 0..n : f[i] \notin V
          /\ \A i \in 0..(n - 1) : Successors(R, f[i]) = {f[i + 1]}
          /\ \A i \in 1..(n - 1) : FirstIssue(R, f[i - 1]) < FirstIssue(R, f[i])
          /\ Successors(R, k) = {}
    BY <1>4 DEF EndsAt
  <2>1. PICK f \in [0..n -> Keys] :
          /\ f[0] = p /\ f[n] = k
          /\ \A i, j \in 0..n : f[i] = f[j] => i = j
          /\ \A i \in 0..n : f[i] \notin V
          /\ \A i \in 0..(n - 1) : Successors(R, f[i]) = {f[i + 1]}
          /\ \A i \in 1..(n - 1) : FirstIssue(R, f[i - 1]) < FirstIssue(R, f[i])
          /\ Successors(R, k) = {}
    BY <2>0
  <2>2. n \in 0..hops /\ 0 \in 0..n /\ n \in 0..n /\ n # 0
    BY <1>0
  <2>3. \A i \in 1..n : f[i] \notin V
    BY <2>1
  <2>4. Chain(R, V, p, n, f)
    BY <2>1, <2>3 DEF Chain
  <2>5. w.st \in {"go", "end"} /\ w.head = k
    BY <2>1, <2>2, <2>4, WalkFollows
  <2>6. p \notin V /\ k # p
    BY <2>1, <2>2
  <2>7. \A r \in R : r.old # k
    <3>1. Succ(R, k) = {}
      BY <2>1, SingleSuccessor
    <3> QED
      BY <3>1 DEF Succ
  <2> HIDE DEF w
  <2> QED
    BY <1>0, <1>1, <1>4, <2>5, <2>6, <2>7
<1> QED
  BY <1>3, <1>4

---------------------------------------------------------------------------
(* The inductive invariant *)

TypeInv ==
  /\ now \in Nat
  /\ rots \subseteq Rotations /\ revs \subseteq Revocations
  /\ line \in Seq(Keys) /\ Len(line) > 0
  /\ job \in [step : {"idle", "revoke", "identity"}, old : Keys, new : Keys,
              ts : Nat, form : {"zone", "hash"}]
  /\ pc \in {"idle", "zone", "hash"} /\ pinned \in Keys
  /\ orderly \in BOOLEAN

\* The records read are among the published ones, and nothing is carried from
\* one call to the next; a call knows revocations that are still published.
ReadInv ==
  /\ gotRots \subseteq rots /\ gotRevs \subseteq revs /\ known \subseteq revs
  /\ pc \in {"idle", "zone"} => gotRots = {} /\ gotRevs = {}
  /\ pc = "idle" => known = {}
  /\ pc # "idle" => Newest \in tips

\* A contact pins keys the user has had.
PinInv == FirstKey \in Had /\ pinned \in Had

\* A revocation published when the call began was read with the first name or
\* stands under the second.
RevsInv ==
  pc = "hash" /\ missed = {} => \A v \in known : v.form = "zone" => v \in gotRevs

\* r is a record of the user's i-th change of key.
OfChange(r, i) == r.old = line[i] /\ r.new = line[i + 1]
Changes == 1..(Len(line) - 1)

\* The keys of an orderly user form a line without repetition, every record is
\* about a change from one key to the next, and later changes are dated later.
LineInv ==
  /\ \A i, j \in 1..Len(line) : line[i] = line[j] => i = j
  /\ orderly =>
       /\ revs = {}
       /\ \A r \in rots : \E i \in Changes : OfChange(r, i)
       /\ \A i \in Changes : \E r \in rots : OfChange(r, i)
       /\ \A r, s \in rots, i, j \in Changes :
            OfChange(r, i) /\ OfChange(s, j) /\ i < j => r.seq < s.seq

\* A change from a key that was superseded before the call began has a record
\* that was read with the first name or stands under the second.
SeenInv ==
  pc = "hash" /\ missed = {} /\ orderly =>
    \A i \in Changes : line[i] \in tips \/
      \E r \in rots : OfChange(r, i) /\ (r.form = "hash" \/ r \in gotRots)

---------------------------------------------------------------------------
LEMMA BoundIs == MaxHops \in Nat \ {0}
BY ChainAssumption

LEMMA FormNames == Forms \subseteq {"zone", "hash"} /\ Lifetimes \subseteq Nat
BY ChainAssumption

LEMMA HadIs ==
  ASSUME TypeInv
  PROVE  /\ Had = {line[i] : i \in 1..Len(line)} /\ Had \subseteq Keys
         /\ Newest = line[Len(line)] /\ Newest \in Keys /\ Newest \in Had
BY DEF TypeInv, Had, Newest, Range, Last

\* What the landing of a rotation record does to the user's line of keys.
LEMMA LandedIs ==
  ASSUME TypeInv, NEW r \in Rotations, Landed(r)
  PROVE  /\ rots' = rots \cup {r} /\ rots' \subseteq Rotations
         /\ line' \in Seq(Keys) /\ Len(line') > 0
         /\ \/ r.new \in Had /\ line' = line /\ Newest' = Newest
            \/ /\ r.new \notin Had /\ Len(line') = Len(line) + 1
               /\ line'[Len(line) + 1] = r.new
               /\ \A i \in 1..Len(line) : line'[i] = line[i]
               /\ Newest' = r.new
         /\ tips' = IF pc = "idle" THEN {} ELSE tips \cup {Newest'}
         /\ orderly' \in BOOLEAN
<1>1. line \in Seq(Keys) /\ Len(line) > 0 /\ r.new \in Keys
  BY DEF TypeInv, Rotations
<1>2. rots' = rots \cup {r} /\ rots' \subseteq Rotations /\ orderly' \in BOOLEAN
  BY DEF Landed, TypeInv
<1>3. CASE r.new \in Had
  BY <1>1, <1>2, <1>3 DEF Landed, Newest
<1>4. CASE r.new \notin Had
  <2>1. line' = Append(line, r.new)
    BY <1>4 DEF Landed
  <2>2. /\ line' \in Seq(Keys) /\ Len(line') = Len(line) + 1
        /\ line'[Len(line) + 1] = r.new
        /\ \A i \in 1..Len(line) : line'[i] = line[i]
    BY <1>1, <2>1
  <2>3. Newest' = r.new
    BY <2>2 DEF Newest, Last
  <2>4. tips' = IF pc = "idle" THEN {} ELSE tips \cup {Newest'}
    BY DEF Landed, Newest
  <2> QED
    BY <1>1, <1>2, <1>4, <2>2, <2>3, <2>4
<1> QED
  BY <1>3, <1>4

\* The record of a rotate_identity() call.
LEMMA PointerIs ==
  ASSUME TypeInv, NEW old \in Had, NEW new \in Keys, NEW life \in Lifetimes, NEW form \in Forms
  PROVE  /\ Pointer(old, new, life, form) \in Rotations
         /\ Pointer(old, new, life, form).old = old /\ Pointer(old, new, life, form).new = new
         /\ Pointer(old, new, life, form).seq = now
         /\ Pointer(old, new, life, form).exp = now + life
<1>1. /\ old \in Keys /\ life \in Nat /\ form \in {"zone", "hash"} /\ now \in Nat
      /\ now + life \in Nat
  BY HadIs, FormNames DEF TypeInv
<1> QED
  BY <1>1 DEF Pointer, Rotations

\* The steps of the user that land a record, in one.
Lands ==
  \E old \in Had, new \in Keys, life \in Lifetimes, form \in Forms :
     Landed(Pointer(old, new, life, form)) /\ UNCHANGED <<now, revs, contactVars>>

LEMMA RotateLands ==
  ASSUME NEW old \in Had, NEW new \in Keys, NEW life \in Lifetimes, NEW form \in Forms,
         \/ \E reason \in {"routine", "compromise"} : Rotate(old, new, life, form, reason)
         \/ RotateUnanswered(old, new, life, form)
  PROVE  Lands
BY DEF Rotate, RotateUnanswered, Lands, contactVars

LEMMA InitType == Init => TypeInv
BY ChainAssumption DEF Init, TypeInv, Idle

LEMMA StepType == TypeInv /\ [Next]_vars => TypeInv'
<1> SUFFICES ASSUME TypeInv, [Next]_vars PROVE TypeInv'
  OBVIOUS
<1> USE DEF TypeInv
<1>1. CASE Clock
  BY <1>1 DEF Clock, userVars, contactVars
<1>2. ASSUME NEW old \in Had, NEW new \in Keys, NEW life \in Lifetimes, NEW form \in Forms,
             \/ \E reason \in {"routine", "compromise"} : Rotate(old, new, life, form, reason)
             \/ RotateUnanswered(old, new, life, form)
      PROVE  TypeInv'
  <2>1. Landed(Pointer(old, new, life, form)) /\ UNCHANGED <<now, revs, contactVars>>
    BY <1>2 DEF Rotate, RotateUnanswered, contactVars
  <2>2. /\ rots' \subseteq Rotations /\ line' \in Seq(Keys) /\ Len(line') > 0
        /\ orderly' \in BOOLEAN
    BY <2>1, PointerIs, LandedIs
  <2>3. job' \in [step : {"idle", "revoke", "identity"}, old : Keys, new : Keys,
                  ts : Nat, form : {"zone", "hash"}]
    <3>1. old \in Keys /\ form \in {"zone", "hash"}
      BY HadIs, FormNames
    <3> QED
      BY <1>2, <3>1 DEF Rotate, RotateUnanswered
  <2> QED
    BY <2>1, <2>2, <2>3 DEF contactVars
<1>3. CASE PublishRevocation
  <2>1. [spk |-> job.old, ts |-> job.ts, form |-> job.form] \in Revocations
    BY DEF Revocations
  <2> QED
    BY <1>3, <2>1 DEF PublishRevocation, contactVars
<1>4. CASE PublishIdentity \/ RotateDies
  BY <1>4, ChainAssumption DEF PublishIdentity, RotateDies, Idle, contactVars
<1>5. ASSUME NEW k \in Keys, NEW form \in Forms, Revoke(k, form) PROVE TypeInv'
  <2>1. [spk |-> k, ts |-> now, form |-> form] \in Revocations
    BY <1>5, FormNames DEF Revocations
  <2> QED
    BY <1>5, <2>1 DEF Revoke, contactVars
<1>6. ASSUME NEW p \in Keys, NEW m \in {"walk", "check"}, Begin(p, m) PROVE TypeInv'
  BY <1>6 DEF Begin, userVars
<1>7. ASSUME NEW hit \in BOOLEAN, ReadZone(hit) \/ ReadHash(hit) PROVE TypeInv'
  BY <1>7, ChainAssumption DEF ReadZone, ReadHash, userVars
<1>8. CASE UNCHANGED vars
  BY <1>8 DEF vars, userVars, contactVars
<1> QED
  BY <1>1, <1>2, <1>3, <1>4, <1>5, <1>6, <1>7, <1>8 DEF Next

\* Every set of records that can stand in the zone is one the walk is right
\* about: resolve_current_spk returns the end of the one legal chain from a key
\* the user has had, and None when there is no such chain, whatever the number
\* of keys, records and hops.
THEOREM WalkMatchesReferenceHolds == Spec => []WalkMatchesReference
<1>1. TypeInv => WalkMatchesReference
  <2> SUFFICES ASSUME TypeInv, NEW hops \in HopBounds, NEW p \in Had
               PROVE  LET h == Resolve(hops, Visible(rots), Verified(revs), p) IN
                      IF h = None
                      THEN \A k \in Keys : ~EndsAt(hops, Visible(rots), Verified(revs), p, k)
                      ELSE EndsAt(hops, Visible(rots), Verified(revs), p, h)
    BY DEF WalkMatchesReference
  <2>1. Visible(rots) \in SUBSET Rotations /\ p \in Keys /\ hops \in Nat \ {0}
    BY HadIs, ChainAssumption DEF Visible, TypeInv
  <2> QED
    BY <2>1, ResolveIs
<1> QED
  BY <1>1, InitType, StepType, PTL DEF Spec

---------------------------------------------------------------------------
(* The contact's call *)

LEMMA InitRead == Init => ReadInv /\ RevsInv
BY DEF Init, ReadInv, RevsInv

LEMMA StepRead == TypeInv /\ ReadInv /\ RevsInv /\ [Next]_vars => ReadInv' /\ RevsInv'
<1> SUFFICES ASSUME TypeInv, ReadInv, RevsInv, [Next]_vars PROVE ReadInv' /\ RevsInv'
  OBVIOUS
<1> USE DEF ReadInv, RevsInv
<1>1. CASE Clock
  BY <1>1 DEF Clock, userVars, contactVars, Newest
<1>2. ASSUME NEW old \in Had, NEW new \in Keys, NEW life \in Lifetimes, NEW form \in Forms,
             \/ \E reason \in {"routine", "compromise"} : Rotate(old, new, life, form, reason)
             \/ RotateUnanswered(old, new, life, form)
      PROVE  ReadInv' /\ RevsInv'
  <2>1. Landed(Pointer(old, new, life, form)) /\ UNCHANGED <<now, revs, contactVars>>
    BY <1>2 DEF Rotate, RotateUnanswered, contactVars
  <2>2. /\ rots \subseteq rots'
        /\ tips' = IF pc = "idle" THEN {} ELSE tips \cup {Newest'}
    BY <2>1, PointerIs, LandedIs
  <2> QED
    BY <2>1, <2>2 DEF contactVars
<1>3. CASE PublishRevocation \/ PublishIdentity \/ RotateDies
  BY <1>3 DEF PublishRevocation, PublishIdentity, RotateDies, contactVars, Newest
<1>4. ASSUME NEW k \in Keys, NEW form \in Forms, Revoke(k, form) PROVE ReadInv' /\ RevsInv'
  BY <1>4 DEF Revoke, contactVars, Newest
<1>5. ASSUME NEW p \in Keys, NEW m \in {"walk", "check"}, Begin(p, m)
      PROVE  ReadInv' /\ RevsInv'
  BY <1>5 DEF Begin, userVars, Newest
<1>6. ASSUME NEW hit \in BOOLEAN, ReadZone(hit) PROVE ReadInv' /\ RevsInv'
  BY <1>6 DEF ReadZone, RotsRead, RevsRead, userVars, Newest
<1>7. ASSUME NEW hit \in BOOLEAN, ReadHash(hit) PROVE ReadInv' /\ RevsInv'
  BY <1>7 DEF ReadHash, userVars
<1>8. CASE UNCHANGED vars
  BY <1>8 DEF vars, userVars, contactVars, Newest
<1> QED
  BY <1>1, <1>2, <1>3, <1>4, <1>5, <1>6, <1>7, <1>8 DEF Next

LEMMA InitPin == Init => PinInv
BY ChainAssumption DEF Init, PinInv, Had, Range

LEMMA StepPin == TypeInv /\ PinInv /\ [Next]_vars => PinInv'
<1> SUFFICES ASSUME TypeInv, PinInv, [Next]_vars PROVE PinInv'
  OBVIOUS
<1>2. ASSUME NEW old \in Had, NEW new \in Keys, NEW life \in Lifetimes, NEW form \in Forms,
             \/ \E reason \in {"routine", "compromise"} : Rotate(old, new, life, form, reason)
             \/ RotateUnanswered(old, new, life, form)
      PROVE  PinInv'
  <2>1. Landed(Pointer(old, new, life, form)) /\ pinned' = pinned
    BY <1>2 DEF Rotate, RotateUnanswered, contactVars
  <2>2. \/ line' = line
        \/ Len(line') = Len(line) + 1 /\ \A i \in 1..Len(line) : line'[i] = line[i]
    BY <2>1, PointerIs, LandedIs
  <2>3. line' \in Seq(Keys)
    BY <2>1, PointerIs, LandedIs
  <2>4. Had \subseteq Had'
    <3>1. DOMAIN line = 1..Len(line) /\ DOMAIN line' = 1..Len(line') /\ Len(line) \in Nat
      BY <2>3 DEF TypeInv
    <3>2. 1..Len(line) \subseteq 1..Len(line') /\ \A i \in 1..Len(line) : line'[i] = line[i]
      <4>1. CASE line' = line
        BY <4>1
      <4>2. CASE Len(line') = Len(line) + 1 /\ \A i \in 1..Len(line) : line'[i] = line[i]
        BY <3>1, <4>2
      <4> QED
        BY <2>2, <4>1, <4>2
    <3> QED
      BY <3>1, <3>2 DEF Had, Range
  <2> QED
    BY <2>1, <2>4 DEF PinInv
<1>3. CASE PublishRevocation \/ PublishIdentity \/ RotateDies \/ Clock \/ UNCHANGED vars
  BY <1>3 DEF PublishRevocation, PublishIdentity, RotateDies, Clock, vars, userVars,
              contactVars, PinInv, Had
<1>4. ASSUME NEW k \in Keys, NEW form \in Forms, Revoke(k, form) PROVE PinInv'
  BY <1>4 DEF Revoke, contactVars, PinInv, Had
<1>5. ASSUME \/ \E p \in Keys, m \in {"walk", "check"} : Begin(p, m)
             \/ \E hit \in BOOLEAN : ReadZone(hit) \/ ReadHash(hit)
      PROVE  PinInv'
  BY <1>5 DEF Begin, ReadZone, ReadHash, userVars, PinInv, Had
<1> QED
  BY <1>2, <1>3, <1>4, <1>5 DEF Next

\* The records the decision is made on.
AllRots == RotsRead("hash", TRUE)
AllRevs == RevsRead("hash", TRUE)

\* A walk never ends at a revoked key, and does not start at one.
LEMMA ResolveAvoids ==
  ASSUME NEW R \in SUBSET Rotations, NEW V, NEW p \in Keys
  PROVE  /\ Resolve(MaxHops, R, V, p) \notin V \/ Resolve(MaxHops, R, V, p) = None
         /\ p \in V => Resolve(MaxHops, R, V, p) = None
<1>1. CASE Resolve(MaxHops, R, V, p) # None
  <2>1. EndsAt(MaxHops, R, V, p, Resolve(MaxHops, R, V, p))
    BY <1>1, BoundIs, ResolveIs
  <2>2. PICK n \in 1..MaxHops : \E f \in [0..n -> Keys] :
          f[n] = Resolve(MaxHops, R, V, p) /\ \A i \in 0..n : f[i] \notin V
    BY <2>1 DEF EndsAt
  <2>3. n \in 0..n
    BY ChainAssumption
  <2>4. p \notin V
    BY <1>1 DEF Resolve
  <2> QED
    BY <2>2, <2>3, <2>4
<1> QED
  BY <1>1

\* A contact does not trust a key that was revoked when its call began if the
\* name with the revocation answered: neither as the head a walk ends at nor as
\* the pinned key of a check, whatever is published while the names are read and
\* whether the other name answers.
THEOREM RevokedNotTrustedHolds == Spec => RevokedNotTrusted
<1>1. TypeInv /\ ReadInv /\ RevsInv /\ [Next]_vars =>
        [\A v \in known : Heard(v.form) /\ v.ts <= now + Skew
            => verdict' # v.spk /\ (pinned = v.spk => verdict' = None)]_vars
  <2> SUFFICES ASSUME TypeInv, ReadInv, RevsInv,
                      NEW v \in known, Heard(v.form), v.ts <= now + Skew
               PROVE  verdict' # v.spk /\ (pinned = v.spk => verdict' = None)
    OBVIOUS
  <2>1. PICK hit \in BOOLEAN : /\ ReadHash(hit) /\ (v.form = "hash" => hit)
                               /\ v.form = "hash" \/ missed = {}
    BY DEF Heard
  <2> DEFINE Rots == RotsRead("hash", hit)
             Revs == RevsRead("hash", hit)
  <2>2. v \in revs /\ v \in Revocations /\ v.form \in {"zone", "hash"} /\ v.spk \in Keys
    BY DEF ReadInv, TypeInv, Revocations
  <2>3. v \in Revs
    BY <2>1, <2>2 DEF RevsInv, RevsRead, ReadHash
  <2>4. v.spk \in Verified(Revs)
    <3>1. v.ts \in Nat /\ now \in Nat /\ Skew \in Nat
      BY <2>2, ChainAssumption DEF TypeInv, Revocations
    <3>2. v \in {x \in Revs : ~(x.ts > now + Skew)}
      BY <2>3, <3>1
    <3> QED
      BY <3>2 DEF Verified
  <2>5. Visible(Rots) \in SUBSET Rotations /\ pinned \in Keys /\ None \notin Keys
    BY ChainAssumption DEF TypeInv, ReadInv, Visible, RotsRead
  <2>6. CASE mode = "walk"
    <3>1. verdict' = Resolve(MaxHops, Visible(Rots), Verified(Revs), pinned)
      BY <2>1, <2>6 DEF Trusted, ReadHash
    <3> QED
      BY <2>2, <2>4, <2>5, <3>1, ResolveAvoids
  <2>7. CASE mode # "walk"
    BY <2>1, <2>2, <2>4, <2>5, <2>7 DEF Trusted, ReadHash
  <2> QED
    BY <2>6, <2>7
<1> QED
  BY <1>1, InitType, StepType, InitRead, StepRead, PTL DEF Spec, RevokedNotTrusted

---------------------------------------------------------------------------
(* An orderly user *)

LEMMA ChangesAre ==
  ASSUME TypeInv
  PROVE  /\ Len(line) \in Nat \ {0}
         /\ \A i : i \in Changes <=> i \in Nat /\ i # 0 /\ i < Len(line)
         /\ \A i \in Changes : i \in 1..Len(line) /\ i + 1 \in 1..Len(line)
BY DEF TypeInv, Changes

\* A repeated record: the line stays, and the record is of the last change.
LEMMA RepeatLine ==
  ASSUME TypeInv, LineInv, NEW old \in Had, NEW new \in Had, NEW life \in Lifetimes,
         NEW form \in Forms, Landed(Pointer(old, new, life, form)), UNCHANGED revs
  PROVE  LineInv'
<1> DEFINE P == Pointer(old, new, life, form)
           L == Len(line)
<1>1. /\ P \in Rotations /\ P.old = old /\ P.new = new /\ P.seq = now /\ P.exp = now + life
      /\ rots' = rots \cup {P} /\ line' = line /\ L \in Nat
  BY HadIs, PointerIs, LandedIs, ChangesAre
<1> HIDE DEF P
<1>3. \A i, j \in 1..Len(line') : line'[i] = line'[j] => i = j
  BY <1>1 DEF LineInv
<1>4. ASSUME orderly'
      PROVE  /\ revs' = {}
             /\ \A r \in rots' : \E i \in Changes : OfChange(r, i)
             /\ \A i \in Changes : \E r \in rots' : OfChange(r, i)
             /\ \A r, s \in rots', i, j \in Changes :
                  OfChange(r, i) /\ OfChange(s, j) /\ i < j => r.seq < s.seq
  <2>1. orderly /\ Advances(old, new)
    BY <1>1, <1>4 DEF Landed, P
  <2>2. /\ \A r \in rots : \E i \in Changes : OfChange(r, i)
        /\ \A i \in Changes : \E r \in rots : OfChange(r, i)
        /\ \A r, s \in rots, i, j \in Changes :
             OfChange(r, i) /\ OfChange(s, j) /\ i < j => r.seq < s.seq
        /\ \A i, j \in 1..L : line[i] = line[j] => i = j
        /\ revs = {}
    BY <2>1 DEF LineInv
  <2>3. /\ \A r \in rots : r.seq < now
        /\ new = line[L] /\ \E r \in rots : r.old = old /\ r.new = new
    BY <2>1, HadIs DEF Advances
  <2>4. PICK i0 \in Changes : old = line[i0] /\ new = line[i0 + 1]
    BY <2>2, <2>3 DEF OfChange
  <2>5. i0 + 1 = L /\ i0 \in 1..L
    <3>1. i0 \in 1..L /\ i0 + 1 \in 1..L /\ L \in 1..L
      BY <1>1, ChangesAre
    <3> QED
      BY <2>2, <2>3, <2>4, <3>1
  <2>6. \A i \in Changes : OfChange(P, i) => i = i0
    BY <1>1, <2>2, <2>4, <2>5, ChangesAre DEF OfChange
  <2>7. OfChange(P, i0)
    BY <1>1, <2>4 DEF OfChange
  <2>8. ASSUME NEW r \in rots', NEW s \in rots', NEW i \in Changes, NEW j \in Changes,
               OfChange(r, i), OfChange(s, j), i < j
        PROVE  r.seq < s.seq
    <3>1. r # P
      <4>1. r = P => i0 < j
        BY <2>6, <2>8
      <4> QED
        BY <2>5, <4>1, ChangesAre
    <3>2. CASE s = P
      BY <1>1, <2>3, <3>1, <3>2
    <3>3. CASE s # P
      BY <1>1, <2>2, <2>8, <3>1, <3>3
    <3> QED
      BY <3>2, <3>3
  <2> QED
    BY <1>1, <2>2, <2>4, <2>7, <2>8
<1>5. Changes' = Changes /\ \A r, i : OfChange(r, i)' <=> OfChange(r, i)
  BY <1>1 DEF Changes, OfChange
<1> QED
  BY <1>3, <1>4, <1>5 DEF LineInv

\* A rotation to a fresh key: the line grows by one change, whose only record
\* is the one that landed, dated after all others.
LEMMA ExtendLine ==
  ASSUME TypeInv, LineInv, NEW old \in Had, NEW new \in Keys, new \notin Had,
         NEW life \in Lifetimes, NEW form \in Forms,
         Landed(Pointer(old, new, life, form)), UNCHANGED revs
  PROVE  LineInv'
<1>p. PICK P : P = Pointer(old, new, life, form)
  OBVIOUS
<1>l. PICK L : L = Len(line)
  OBVIOUS
<1>1. /\ P \in Rotations /\ P.old = old /\ P.new = new /\ P.seq = now /\ P.exp = now + life
      /\ rots' = rots \cup {P} /\ L \in Nat \ {0}
      /\ Len(line') = L + 1 /\ line'[L + 1] = new
      /\ \A i \in 1..L : line'[i] = line[i] /\ line[i] \in Had
  BY <1>p, <1>l, HadIs, PointerIs, LandedIs, ChangesAre
<1>3. ASSUME NEW i \in 1..Len(line'), NEW j \in 1..Len(line'), line'[i] = line'[j]
      PROVE  i = j
  <2>1. (i \in 1..L \/ i = L + 1) /\ (j \in 1..L \/ j = L + 1)
    BY <1>1
  <2>2. \A a, b \in 1..L : line[a] = line[b] => a = b
    BY <1>l DEF LineInv
  <2> QED
    BY <1>1, <1>3, <2>1, <2>2
<1>4. \A i : i \in Changes' <=> i \in Changes \/ i = L
  <2>1. Changes' = 1..L /\ Changes = 1..(L - 1)
    BY <1>1, <1>l DEF Changes
  <2> QED
    BY <1>1, <2>1
<1>5. ASSUME NEW r, NEW i \in Changes PROVE OfChange(r, i)' <=> OfChange(r, i)
  <2>1. i \in 1..L /\ i + 1 \in 1..L
    BY <1>l, ChangesAre
  <2> QED
    BY <1>1, <2>1 DEF OfChange
<1>6. \A r \in rots' : OfChange(r, L)' => r.new = new
  BY <1>1 DEF OfChange
<1>7. \A i \in Changes : ~OfChange(P, i)
  BY <1>1, <1>l, ChangesAre DEF OfChange
<1>8. ASSUME orderly'
      PROVE  /\ revs' = {}
             /\ \A r \in rots' : \E i \in Changes' : OfChange(r, i)'
             /\ \A i \in Changes' : \E r \in rots' : OfChange(r, i)'
             /\ \A r, s \in rots', i, j \in Changes' :
                  OfChange(r, i)' /\ OfChange(s, j)' /\ i < j => r.seq < s.seq
  <2>1. orderly /\ Advances(old, new)
    BY <1>1, <1>8, <1>p DEF Landed
  <2>2. /\ \A r \in rots : \E i \in Changes : OfChange(r, i)
        /\ \A i \in Changes : \E r \in rots : OfChange(r, i)
        /\ \A r, s \in rots, i, j \in Changes :
             OfChange(r, i) /\ OfChange(s, j) /\ i < j => r.seq < s.seq
        /\ revs = {}
    BY <2>1 DEF LineInv
  <2>3. old = line[L] /\ \A r \in rots : r.seq < now
    BY <2>1, <1>l, HadIs DEF Advances
  <2>4. OfChange(P, L)'
    BY <1>1, <2>3 DEF OfChange
  <2>5. \A r \in rots : ~OfChange(r, L)'
    <3>1. \A r \in rots : r.new \in Had
      BY <2>2, <1>1, <1>l, ChangesAre DEF OfChange
    <3> QED
      BY <1>1, <1>6, <3>1
  <2>6. \A r \in rots' : \E i \in Changes' : OfChange(r, i)'
    BY <1>1, <1>4, <1>5, <2>2, <2>4
  <2>7. \A i \in Changes' : \E r \in rots' : OfChange(r, i)'
    BY <1>1, <1>4, <1>5, <2>2, <2>4
  <2>8. ASSUME NEW r \in rots', NEW s \in rots', NEW i \in Changes', NEW j \in Changes',
               OfChange(r, i)', OfChange(s, j)', i < j
        PROVE  r.seq < s.seq
    <3>1. i \in Changes
      BY <1>1, <1>l, <1>4, <2>8, ChangesAre
    <3>2. OfChange(r, i) /\ r # P /\ r \in rots
      BY <1>1, <1>5, <1>7, <2>8, <3>1
    <3>3. CASE j = L
      <4>1. s = P
        BY <1>1, <2>5, <2>8, <3>3
      <4> QED
        BY <1>1, <2>3, <3>2, <4>1
    <3>4. CASE j \in Changes
      <4>1. OfChange(s, j) /\ s # P /\ s \in rots
        BY <1>1, <1>5, <1>7, <2>8, <3>4
      <4> QED
        BY <2>2, <2>8, <3>1, <3>2, <3>4, <4>1
    <3> QED
      BY <1>4, <3>3, <3>4
  <2> QED
    BY <2>2, <2>6, <2>7, <2>8
<1> QED
  BY <1>3, <1>8 DEF LineInv

\* Everything else leaves the line alone, or ends the order.
LEMMA SameLine ==
  ASSUME TypeInv, LineInv, UNCHANGED <<rots, line>>,
         orderly' \in BOOLEAN, orderly' => orderly /\ UNCHANGED revs
  PROVE  LineInv'
<1>1. Changes' = Changes /\ \A r, i : OfChange(r, i)' <=> OfChange(r, i)
  BY DEF Changes, OfChange
<1> QED
  BY <1>1 DEF LineInv

LEMMA InitLine == Init => LineInv /\ SeenInv
BY DEF Init, LineInv, SeenInv, Changes

LEMMA StepLine == TypeInv /\ LineInv /\ [Next]_vars => LineInv'
<1> SUFFICES ASSUME TypeInv, LineInv, [Next]_vars PROVE LineInv'
  OBVIOUS
<1>0. orderly \in BOOLEAN
  BY DEF TypeInv
<1>1. ASSUME NEW old \in Had, NEW new \in Keys, NEW life \in Lifetimes, NEW form \in Forms,
             \/ \E reason \in {"routine", "compromise"} : Rotate(old, new, life, form, reason)
             \/ RotateUnanswered(old, new, life, form)
      PROVE  LineInv'
  <2>1. Landed(Pointer(old, new, life, form)) /\ UNCHANGED revs
    BY <1>1 DEF Rotate, RotateUnanswered
  <2> QED
    BY <2>1, RepeatLine, ExtendLine
<1>2. CASE PublishRevocation
  <2>1. /\ UNCHANGED <<rots, line>> /\ orderly' \in BOOLEAN
        /\ orderly' => orderly /\ UNCHANGED revs
    <3>1. UNCHANGED <<rots, line>> /\ (orderly' = FALSE \/ UNCHANGED <<revs, orderly>>)
      BY <1>2 DEF PublishRevocation
    <3>2. CASE orderly' = FALSE
      <4>1. ~orderly' /\ orderly' \in BOOLEAN
        BY <3>2, Zenon
      <4> QED
        BY <3>1, <4>1
    <3>3. CASE UNCHANGED <<revs, orderly>>
      BY <1>0, <3>1, <3>3
    <3> QED
      BY <3>1, <3>2, <3>3
  <2> QED
    BY <2>1, SameLine
<1>5. CASE PublishIdentity \/ RotateDies \/ Clock
  BY <1>0, <1>5, SameLine DEF PublishIdentity, RotateDies, Clock, userVars
<1>3. ASSUME NEW k \in Keys, NEW form \in Forms, Revoke(k, form) PROVE LineInv'
  BY <1>0, <1>3, SameLine DEF Revoke
<1>4. CASE \/ \E p \in Keys, m \in {"walk", "check"} : Begin(p, m)
           \/ \E hit \in BOOLEAN : ReadZone(hit) \/ ReadHash(hit)
           \/ UNCHANGED vars
  BY <1>0, <1>4, SameLine DEF Begin, ReadZone, ReadHash, vars, userVars
<1> QED
  BY <1>1, <1>2, <1>3, <1>4, <1>5 DEF Next

---------------------------------------------------------------------------
(* What has been read of an orderly user's line *)

LEMMA LandsSeen ==
  ASSUME TypeInv, ReadInv, LineInv, SeenInv,
         NEW old \in Had, NEW new \in Keys, NEW life \in Lifetimes, NEW form \in Forms,
         Landed(Pointer(old, new, life, form)), UNCHANGED contactVars
  PROVE  SeenInv'
<1>p. PICK P : P = Pointer(old, new, life, form)
  OBVIOUS
<1>l. PICK L : L = Len(line)
  OBVIOUS
<1>1. /\ P \in Rotations /\ P.old = old /\ P.new = new /\ L \in Nat \ {0}
      /\ rots \subseteq rots' /\ line[L] = Newest
      /\ tips' = IF pc = "idle" THEN {} ELSE tips \cup {Newest'}
      /\ \/ new \in Had /\ line' = line
         \/ /\ Len(line') = L + 1 /\ \A i \in 1..L : line'[i] = line[i]
  BY <1>p, <1>l, HadIs, PointerIs, LandedIs, ChangesAre
<1> SUFFICES ASSUME pc' = "hash", missed' = {}, orderly', NEW i \in Changes'
             PROVE  line'[i] \in tips' \/
                    \E r \in rots' : OfChange(r, i)' /\ (r.form = "hash" \/ r \in gotRots')
  BY DEF SeenInv
<1>2. /\ pc = "hash" /\ missed = {} /\ orderly /\ gotRots' = gotRots
      /\ tips \subseteq tips' /\ Newest \in tips
  BY <1>1 DEF contactVars, Landed, ReadInv
<1>3. CASE i \in Changes
  <2>1. i \in 1..L /\ i + 1 \in 1..L
    BY <1>3, <1>l, ChangesAre
  <2>2. line'[i] = line[i] /\ line'[i + 1] = line[i + 1]
    BY <1>1, <2>1
  <2>3. \A r : OfChange(r, i)' <=> OfChange(r, i)
    BY <2>2 DEF OfChange
  <2>4. line[i] \in tips \/
        \E r \in rots : OfChange(r, i) /\ (r.form = "hash" \/ r \in gotRots)
    BY <1>2, <1>3 DEF SeenInv
  <2> QED
    BY <1>1, <1>2, <2>2, <2>3, <2>4
<1>4. CASE i \notin Changes
  <2>1. i = L /\ Len(line') = L + 1 /\ line'[i] = line[L]
    <3>1. Changes = 1..(L - 1) /\ Changes' = 1..(Len(line') - 1)
      BY <1>l DEF Changes
    <3>2. line' # line
      BY <1>4, <1>l, <3>1
    <3> QED
      BY <1>1, <1>4, <3>1, <3>2
  <2> QED
    BY <1>1, <1>2, <2>1
<1> QED
  BY <1>3, <1>4

LEMMA SameSeen ==
  ASSUME SeenInv, UNCHANGED <<rots, line, pc, missed, gotRots, tips>>, orderly' => orderly
  PROVE  SeenInv'
<1>1. Changes' = Changes /\ \A r, i : OfChange(r, i)' <=> OfChange(r, i)
  BY DEF Changes, OfChange
<1> QED
  BY <1>1 DEF SeenInv

LEMMA StepSeen ==
  TypeInv /\ ReadInv /\ LineInv /\ SeenInv /\ [Next]_vars => SeenInv'
<1> SUFFICES ASSUME TypeInv, ReadInv, LineInv, SeenInv, [Next]_vars PROVE SeenInv'
  OBVIOUS
<1>1. ASSUME NEW old \in Had, NEW new \in Keys, NEW life \in Lifetimes, NEW form \in Forms,
             \/ \E reason \in {"routine", "compromise"} : Rotate(old, new, life, form, reason)
             \/ RotateUnanswered(old, new, life, form)
      PROVE  SeenInv'
  <2>1. Landed(Pointer(old, new, life, form)) /\ UNCHANGED contactVars
    BY <1>1 DEF Rotate, RotateUnanswered
  <2> QED
    BY <2>1, LandsSeen
<1>2. CASE PublishRevocation
  <2>1. UNCHANGED <<rots, line, pc, missed, gotRots, tips>>
    BY <1>2 DEF PublishRevocation, contactVars
  <2>2. orderly' = FALSE \/ orderly' = orderly
    BY <1>2 DEF PublishRevocation
  <2> QED
    BY <2>1, <2>2, SameSeen
<1>3. CASE PublishIdentity \/ RotateDies \/ Clock \/ UNCHANGED vars
  BY <1>3, SameSeen DEF PublishIdentity, RotateDies, Clock, userVars, contactVars, vars
<1>4. ASSUME NEW k \in Keys, NEW form \in Forms, Revoke(k, form) PROVE SeenInv'
  BY <1>4, SameSeen DEF Revoke, contactVars
<1>5. ASSUME \/ \E p \in Keys, m \in {"walk", "check"} : Begin(p, m)
             \/ \E hit \in BOOLEAN : ReadHash(hit)
      PROVE  SeenInv'
  BY <1>5 DEF Begin, ReadHash, SeenInv
<1>6. ASSUME NEW hit \in BOOLEAN, ReadZone(hit) PROVE SeenInv'
  <2> SUFFICES ASSUME missed' = {}, orderly', NEW i \in Changes'
               PROVE  \E r \in rots' : OfChange(r, i)' /\ (r.form = "hash" \/ r \in gotRots')
    BY DEF SeenInv
  <2>1. UNCHANGED <<rots, line, orderly>> /\ hit /\ gotRots' = RotsRead("zone", hit)
    BY <1>6 DEF ReadZone, userVars
  <2>2. orderly /\ i \in Changes
    BY <2>1 DEF Changes
  <2>3. PICK r \in rots : OfChange(r, i)
    BY <2>2 DEF LineInv
  <2>4. r.form \in {"zone", "hash"}
    BY DEF TypeInv, Rotations
  <2>5. r.form = "zone" => r \in gotRots'
    BY <2>1 DEF RotsRead
  <2> QED
    BY <2>1, <2>3, <2>4, <2>5 DEF OfChange
<1> QED
  BY <1>1, <1>2, <1>3, <1>4, <1>5, <1>6 DEF Next

\* What the contact has when it makes up its mind.
LEMMA AnsweredHas ==
  ASSUME TypeInv, ReadInv, PinInv, SeenInv, Answered, mode = "walk", orderly
  PROVE  /\ verdict' = Resolve(MaxHops, Visible(AllRots), Verified(AllRevs), pinned)
         /\ Visible(AllRots) \in SUBSET Rotations /\ Visible(AllRots) \subseteq rots
         /\ AllRevs \subseteq revs
         /\ \A i \in Changes : line[i] \in tips \/ \E r \in rots : OfChange(r, i) /\ r \in AllRots
         /\ pinned \in Had /\ Newest \in tips
<1>1. /\ pc = "hash" /\ missed = {}
      /\ verdict' = Resolve(MaxHops, Visible(AllRots), Verified(AllRevs), pinned)
  BY DEF Answered, ReadHash, AllRots, AllRevs, Trusted
<1>2. AllRots \subseteq rots /\ AllRevs \subseteq revs
  BY DEF AllRots, AllRevs, RotsRead, RevsRead, ReadInv
<1>3. \A r \in rots : r.form = "hash" \/ r \in gotRots => r \in AllRots
  BY DEF AllRots, RotsRead
<1>4. \A i \in Changes : line[i] \in tips \/ \E r \in rots : OfChange(r, i) /\ r \in AllRots
  BY <1>1, <1>3 DEF SeenInv
<1>5. Visible(AllRots) \in SUBSET Rotations /\ Visible(AllRots) \subseteq rots
  BY <1>2 DEF Visible, TypeInv
<1> QED
  BY <1>1, <1>2, <1>4, <1>5 DEF ReadInv, PinInv

\* A contact whose two lookups were answered never takes a superseded key of an
\* orderly user for the current one, provided the rotations expire in the order
\* of the chain: a hop that is still visible is then never followed by one that
\* has expired.
THEOREM HeadNotStaleHolds == Spec => HeadNotStale
<1>1. TypeInv /\ ReadInv /\ PinInv /\ LineInv /\ SeenInv /\ [Next]_vars =>
        [Answered /\ mode = "walk" /\ orderly /\ InTurn =>
           verdict' \in tips \cup {None}]_vars
  <2> SUFFICES ASSUME TypeInv, ReadInv, PinInv, LineInv, SeenInv, Answered,
                      mode = "walk", orderly, InTurn, verdict' # None
               PROVE  verdict' \in tips
    OBVIOUS
  <2> DEFINE R == Visible(AllRots)
             V == Verified(AllRevs)
             h == Resolve(MaxHops, R, V, pinned)
  <2>1. /\ verdict' = h /\ R \in SUBSET Rotations /\ R \subseteq rots
        /\ \A i \in Changes : line[i] \in tips \/ \E r \in rots : OfChange(r, i) /\ r \in AllRots
        /\ pinned \in Keys /\ Newest \in tips
    BY AnsweredHas, HadIs
  <2> HIDE DEF R, V
  <2>2. EndsAt(MaxHops, R, V, pinned, h)
    BY <2>1, BoundIs, ResolveIs
  <2>3. PICK n \in 1..MaxHops : \E f \in [0..n -> Keys] :
          /\ f[n] = h /\ Successors(R, h) = {}
          /\ \A i \in 0..(n - 1) : Successors(R, f[i]) = {f[i + 1]}
    BY <2>2 DEF EndsAt
  <2>4. n - 1 \in 0..(n - 1) /\ (n - 1) + 1 = n
    BY ChainAssumption
  <2>5. PICK k : Successors(R, k) = {h} /\ Successors(R, h) = {}
    BY <2>3, <2>4
  <2>6. PICK s \in R : s.new = h
    BY <2>5, SingleSuccessor, <2>1 DEF Succ, Successors
  <2>7. PICK j \in Changes : OfChange(s, j)
    BY <2>1, <2>6 DEF LineInv
  <2>8. h = line[j + 1] /\ j + 1 \in 1..Len(line)
    BY <2>6, <2>7, ChangesAre DEF OfChange
  <2>9. CASE j + 1 = Len(line)
    BY <2>1, <2>8, <2>9, HadIs
  <2>10. CASE j + 1 \in Changes /\ h \notin tips
    <3>1. PICK r \in rots : OfChange(r, j + 1) /\ r \in AllRots
      BY <2>1, <2>8, <2>10
    <3>2. r.old = h
      BY <2>8, <3>1 DEF OfChange
    <3>3. r \notin R
      BY <2>1, <2>5, <3>2, SingleSuccessor DEF Succ
    <3>4. r.exp < now /\ ~(s.exp < now)
      BY <2>6, <3>1, <3>3 DEF R, Visible
    <3>5. s.seq < r.seq
      <4>1. j < j + 1
        BY ChangesAre
      <4> QED
        BY <2>1, <2>6, <2>7, <2>10, <3>1, <4>1 DEF LineInv
    <3>6. s.exp <= r.exp
      BY <2>1, <2>6, <3>1, <3>5 DEF InTurn
    <3>7. r.exp \in Nat /\ s.exp \in Nat /\ now \in Nat
      BY <2>1, <2>6, <3>1 DEF TypeInv, Rotations
    <3> QED
      BY <3>4, <3>6, <3>7
  <2>11. j + 1 = Len(line) \/ j + 1 \in Changes
    BY <2>8, ChangesAre
  <2> QED
    BY <2>1, <2>9, <2>10, <2>11
<1> QED
  BY <1>1, InitType, StepType, InitRead, StepRead, InitPin, StepPin, InitLine, StepLine, StepSeen,
     PTL DEF Spec, HeadNotStale

---------------------------------------------------------------------------
(* A contact that is behind *)

\* A chain with an end is resolved to that end.
LEMMA ResolveEnds ==
  ASSUME NEW R \in SUBSET Rotations, NEW V, NEW p \in Keys, NEW n \in 1..MaxHops, NEW f,
         Chain(R, V, p, n, f), p \notin V, Successors(R, f[n]) = {}
  PROVE  Resolve(MaxHops, R, V, p) = f[n]
<1>1. n \in 0..MaxHops /\ 0 \in 0..n /\ n \in 0..n /\ n # 0
  BY ChainAssumption
<1>2. f[n] # p
  BY <1>1 DEF Chain
<1>3. Walk(MaxHops, R, V, p).st \in {"go", "end"} /\ Walk(MaxHops, R, V, p).head = f[n]
  BY <1>1, BoundIs, WalkFollows
<1>4. \A r \in R : r.old # f[n]
  <2>1. Succ(R, f[n]) = {}
    BY SingleSuccessor
  <2> QED
    BY <2>1 DEF Succ
<1> QED
  BY <1>2, <1>3, <1>4 DEF Resolve

\* The keys an orderly user has left since the key at position a are as many
\* as the changes since.
LEMMA BehindCount ==
  ASSUME TypeInv, LineInv, orderly, NEW a \in 1..Len(line), pinned = line[a]
  PROVE  Cardinality({r.old : r \in Behind}) = Len(line) - a
<1> DEFINE L == Len(line)
           I == a..(L - 1)
           T == {r.old : r \in Behind}
           g == [c \in I |-> line[c]]
<1>1. /\ L \in Nat \ {0} /\ a \in Nat /\ a # 0 /\ a <= L
      /\ DOMAIN line = 1..L
      /\ \A c \in I : c \in Changes /\ c \in 1..L
  BY ChangesAre DEF TypeInv
<1>2. /\ \A i, j \in 1..L : line[i] = line[j] => i = j
      /\ \A r \in rots : \E i \in Changes : OfChange(r, i)
      /\ \A i \in Changes : \E r \in rots : OfChange(r, i)
  BY DEF LineInv
<1>3. ASSUME NEW t \in T PROVE \E c \in I : t = line[c]
  <2>1. PICK r \in rots : t = r.old /\ \E i, j \in 1..L : i <= j /\ line[i] = pinned /\ line[j] = r.old
    BY <1>1 DEF Behind
  <2>2. PICK j \in 1..L : a <= j /\ line[j] = r.old
    BY <1>2, <2>1
  <2>3. PICK c \in Changes : line[c] = r.old
    BY <1>2 DEF OfChange
  <2>4. c = j /\ c < L
    BY <1>2, <2>2, <2>3, ChangesAre
  <2> QED
    BY <1>1, <2>1, <2>2, <2>4
<1>4. ASSUME NEW c \in I PROVE line[c] \in T
  <2>1. PICK r \in rots : OfChange(r, c)
    BY <1>1, <1>2
  <2>2. r.old = line[c]
    BY <2>1 DEF OfChange
  <2>3. a \in DOMAIN line /\ c \in DOMAIN line /\ a <= c
    BY <1>1
  <2>4. r \in Behind
    BY <2>2, <2>3 DEF Behind
  <2> QED
    BY <2>2, <2>4
<1> HIDE DEF T
<1>5. g \in Injection(I, T) /\ g \in Surjection(I, T)
  <2>1. g \in [I -> T]
    BY <1>4
  <2>2. \A c, d \in I : g[c] = g[d] => c = d
    BY <1>1, <1>2
  <2>3. \A t \in T : \E c \in I : g[c] = t
    BY <1>3
  <2> HIDE DEF g, I
  <2> QED
    BY <2>1, <2>2, <2>3 DEF Injection, Surjection, IsInjective
<1>6. IsFiniteSet(I) /\ Cardinality(I) = L - a
  <2>1. a \in Int /\ L - 1 \in Int
    BY <1>1
  <2>2. IsFiniteSet(I) /\ Cardinality(I) = IF a > L - 1 THEN 0 ELSE (L - 1) - a + 1
    BY <2>1, FS_Interval
  <2> QED
    BY <1>1, <2>2
<1> HIDE DEF g, I
<1>7. Cardinality(T) = Cardinality(I)
  BY <1>5, <1>6, FS_Surjection
<1> QED
  BY <1>6, <1>7 DEF T

\* The visible records of such a contact lead from every key it has yet to
\* pass to the next one, in the order of their dates, and end at the newest.
LEMMA VisibleLine ==
  ASSUME TypeInv, LineInv, orderly, NEW a \in 1..Len(line), pinned = line[a],
         \A r \in Behind : r.exp >= now, tips = {Newest},
         NEW A, A \subseteq rots,
         \A i \in Changes : line[i] \in tips \/ \E r \in rots : OfChange(r, i) /\ r \in A
  PROVE  /\ \A c \in a..(Len(line) - 1) : Successors(Visible(A), line[c]) = {line[c + 1]}
         /\ \A c \in (a + 1)..(Len(line) - 1) :
              FirstIssue(Visible(A), line[c - 1]) < FirstIssue(Visible(A), line[c])
         /\ Successors(Visible(A), Newest) = {}
<1> DEFINE R == Visible(A)
<1>l. PICK L : L = Len(line)
  OBVIOUS
<1>1. /\ L \in Nat \ {0} /\ a \in Nat /\ a # 0 /\ a <= L /\ Newest = line[L]
      /\ DOMAIN line = 1..L
      /\ \A c \in a..(L - 1) : c \in Changes /\ c \in 1..L /\ c # L
  <2>1. L \in Nat \ {0} /\ Newest = line[L] /\ DOMAIN line = 1..L
    BY <1>l, ChangesAre, HadIs DEF TypeInv
  <2>2. a \in Nat /\ a # 0 /\ a <= L
    BY <1>l, <2>1
  <2>3. \A c \in a..(L - 1) : c \in Nat /\ c # 0 /\ c < L /\ c \in 1..L /\ c # L
    BY <2>1, <2>2
  <2> QED
    BY <1>l, <2>1, <2>2, <2>3, ChangesAre
<1>2. /\ \A i, j \in 1..L : line[i] = line[j] => i = j
      /\ \A r \in rots : \E i \in Changes : OfChange(r, i)
      /\ \A r, s \in rots, i, j \in Changes :
           OfChange(r, i) /\ OfChange(s, j) /\ i < j => r.seq < s.seq
  BY <1>l DEF LineInv
<1>3. R \in SUBSET Rotations /\ R \subseteq rots
  BY DEF Visible, TypeInv
<1>4. ASSUME NEW r \in R, NEW c \in 1..L, r.old = line[c]
      PROVE  c \in Changes /\ OfChange(r, c)
  <2>1. PICK i \in Changes : OfChange(r, i)
    BY <1>2, <1>3
  <2>2. i \in 1..L
    BY <2>1, <1>l, ChangesAre
  <2>3. line[i] = line[c]
    BY <1>4, <2>1 DEF OfChange
  <2>4. i = c
    BY <1>2, <2>2, <2>3
  <2> QED
    BY <2>1, <2>4
<1>5. ASSUME NEW c \in a..(L - 1) PROVE \E r \in R : OfChange(r, c)
  <2>1. line[c] # line[L]
    <3>1. c \in 1..L /\ L \in 1..L /\ c # L
      BY <1>1
    <3> QED
      BY <1>2, <3>1
  <2>2. PICK r \in rots : OfChange(r, c) /\ r \in A
    BY <1>1, <2>1
  <2>3. r \in Behind
    <3>1. a \in DOMAIN line /\ c \in DOMAIN line /\ a <= c /\ r.old = line[c]
      <4>1. c \in 1..L /\ a <= c
        BY <1>1
      <4> QED
        BY <1>1, <2>2, <4>1 DEF OfChange
    <3> QED
      BY <3>1 DEF Behind
  <2>4. r.exp >= now /\ r.exp \in Nat /\ now \in Nat
    BY <2>3 DEF TypeInv, Rotations
  <2>5. ~(r.exp < now)
    BY <2>4
  <2> QED
    BY <2>2, <2>5 DEF Visible
<1> HIDE DEF R
<1>6. ASSUME NEW c \in a..(L - 1) PROVE Successors(R, line[c]) = {line[c + 1]}
  <2>1. PICK r \in R : OfChange(r, c)
    BY <1>5
  <2>2. r \in Succ(R, line[c]) /\ r.new = line[c + 1]
    BY <2>1 DEF OfChange, Succ
  <2>3. \A s \in Succ(R, line[c]) : s.new = line[c + 1]
    BY <1>1, <1>4 DEF OfChange, Succ
  <2>4. Single(R, line[c]) /\ Succ(R, line[c]) # {}
    BY <2>2, <2>3 DEF Single
  <2>5. First(R, line[c]).new = line[c + 1]
    BY <1>3, <2>3, <2>4, FirstIsFirst
  <2> QED
    BY <1>3, <2>4, <2>5, SingleSuccessor
<1>7. ASSUME NEW c \in a..(L - 1)
      PROVE  \E r \in R : OfChange(r, c) /\ r.seq = FirstIssue(R, line[c])
  <2>1. Succ(R, line[c]) # {}
    BY <1>3, <1>6, SingleSuccessor
  <2>2. /\ First(R, line[c]) \in Succ(R, line[c])
        /\ First(R, line[c]).seq = FirstIssue(R, line[c])
    BY <1>3, <2>1, FirstIsFirst
  <2>3. First(R, line[c]) \in R /\ First(R, line[c]).old = line[c]
    BY <2>2 DEF Succ
  <2> QED
    BY <1>1, <1>4, <2>2, <2>3
<1>8. ASSUME NEW c \in (a + 1)..(L - 1)
      PROVE  FirstIssue(R, line[c - 1]) < FirstIssue(R, line[c])
  <2>1. /\ c \in a..(L - 1) /\ c - 1 \in a..(L - 1) /\ c - 1 < c
        /\ c \in Changes /\ c - 1 \in Changes
    <3>1. a \in Int /\ L \in Int /\ c \in Int /\ a + 1 <= c /\ c <= L - 1
      BY <1>1
    <3>2. c \in a..(L - 1) /\ c - 1 \in a..(L - 1) /\ c - 1 < c
      BY <3>1
    <3> QED
      BY <1>1, <3>2
  <2>2. PICK r \in R : OfChange(r, c) /\ r.seq = FirstIssue(R, line[c])
    BY <1>7, <2>1
  <2>3. PICK s \in R : OfChange(s, c - 1) /\ s.seq = FirstIssue(R, line[c - 1])
    BY <1>7, <2>1
  <2>4. s.seq < r.seq
    BY <1>1, <1>2, <1>3, <2>1, <2>2, <2>3
  <2> QED
    BY <2>2, <2>3, <2>4
<1>9. Successors(R, line[L]) = {}
  <2>1. \A r \in R : r.old # line[L]
    <3>1. L \in 1..L
      BY <1>1
    <3>2. L \notin Changes
      <4>1. Changes = 1..(L - 1)
        BY <1>l DEF Changes
      <4>2. L \notin 1..(L - 1)
        BY <1>1
      <4> QED
        BY <4>1, <4>2
    <3> QED
      BY <1>4, <3>1, <3>2
  <2>2. Succ(R, line[L]) = {}
    BY <2>1 DEF Succ
  <2> QED
    BY <1>3, <2>2, SingleSuccessor
<1> QED
  BY <1>l, <1>1, <1>6, <1>8, <1>9 DEF R

\* A contact at most MaxHops unexpired rotations behind an orderly user finds
\* the newest key when its lookups are answered and nothing new is published
\* meanwhile: docs/guide/cli.md, "contacts walk the chain transparently".
THEOREM TransparentHolds == Spec => Transparent
<1>1. TypeInv /\ ReadInv /\ PinInv /\ LineInv /\ SeenInv /\ [Next]_vars =>
        [Answered /\ Follows => verdict' = Newest]_vars
  <2> SUFFICES ASSUME TypeInv, ReadInv, PinInv, LineInv, SeenInv, Answered, Follows
               PROVE  verdict' = Newest
    OBVIOUS
  <2> DEFINE R == Visible(AllRots)
             V == Verified(AllRevs)
             L == Len(line)
  <2>1. /\ mode = "walk" /\ orderly /\ tips = {Newest} /\ pinned # Newest
        /\ Cardinality({r.old : r \in Behind}) <= MaxHops
        /\ \A r \in Behind : r.exp >= now
    BY DEF Follows
  <2>2. /\ verdict' = Resolve(MaxHops, R, V, pinned)
        /\ R \in SUBSET Rotations /\ R \subseteq rots /\ AllRevs \subseteq revs
        /\ \A i \in Changes : line[i] \in tips \/ \E r \in rots : OfChange(r, i) /\ r \in AllRots
        /\ pinned \in Had
    BY <2>1, AnsweredHas
  <2>3. V = {}
    <3>1. AllRevs = {}
      BY <2>1, <2>2 DEF LineInv
    <3> QED
      BY <3>1 DEF Verified
  <2>4. AllRots \subseteq rots
    BY DEF AllRots, RotsRead, ReadInv
  <2>5. PICK a \in 1..L : pinned = line[a]
    BY <2>2, HadIs
  <2>6. PICK n : n = L - a
    OBVIOUS
  <2>7. /\ L \in Nat \ {0} /\ Newest = line[L] /\ n \in 1..MaxHops /\ a + n = L
        /\ pinned \in Keys
    <3>1. L - a <= MaxHops
      BY <2>1, <2>5, BehindCount
    <3>2. a # L
      BY <2>1, <2>5, HadIs
    <3> QED
      BY <2>2, <2>5, <2>6, <3>1, <3>2, HadIs, ChangesAre, ChainAssumption
  <2>8. /\ \A c \in a..(L - 1) : Successors(R, line[c]) = {line[c + 1]}
        /\ \A c \in (a + 1)..(L - 1) : FirstIssue(R, line[c - 1]) < FirstIssue(R, line[c])
        /\ Successors(R, Newest) = {}
    BY <2>1, <2>2, <2>4, <2>5, VisibleLine
  <2> DEFINE f == [j \in 0..n |-> line[a + j]]
  <2> HIDE DEF R, V, L
  <2>9. Chain(R, V, pinned, n, f)
    <3>1. f \in [0..n -> Keys] /\ f[0] = pinned
      <4>1. \A j \in 0..n : line[a + j] \in Keys
        BY <2>7 DEF L, TypeInv
      <4>2. 0 \in 0..n /\ a + 0 = a
        BY <2>7
      <4> QED
        BY <2>5, <4>1, <4>2
    <3>2. \A i, j \in 0..n : f[i] = f[j] => i = j
      <4>1. \A i, j \in 1..L : line[i] = line[j] => i = j
        BY DEF LineInv, L
      <4>2. \A i \in 0..n : a + i \in 1..L
        BY <2>7
      <4> QED
        BY <2>7, <4>1, <4>2
    <3>3. \A i \in 1..n : f[i] \notin V
      BY <2>3
    <3>4. ASSUME NEW i \in 0..(n - 1) PROVE Successors(R, f[i]) = {f[i + 1]}
      <4>1. i \in 0..n /\ i + 1 \in 0..n /\ a + i \in a..(L - 1) /\ a + (i + 1) = (a + i) + 1
        BY <2>7
      <4> QED
        BY <2>8, <4>1
    <3>5. ASSUME NEW i \in 1..(n - 1) PROVE FirstIssue(R, f[i - 1]) < FirstIssue(R, f[i])
      <4>1. /\ i \in 0..n /\ i - 1 \in 0..n /\ a + i \in (a + 1)..(L - 1)
            /\ a + (i - 1) = (a + i) - 1
        BY <2>7
      <4> QED
        BY <2>8, <4>1
    <3> HIDE DEF f
    <3> QED
      BY <3>1, <3>2, <3>3, <3>4, <3>5 DEF Chain
  <2>10. f[n] = Newest
    BY <2>7
  <2> HIDE DEF f
  <2> QED
    BY <2>2, <2>3, <2>7, <2>8, <2>9, <2>10, ResolveEnds
<1> QED
  BY <1>1, InitType, StepType, InitRead, StepRead, InitPin, StepPin, InitLine, StepLine, StepSeen,
     PTL DEF Spec, Transparent
=============================================================================
