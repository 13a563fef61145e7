--------------------------- MODULE MailboxProofs ---------------------------
(***************************************************************************)
(* Theorems about Mailbox for every set of senders, messages, zones,       *)
(* prekeys and concurrent calls.                                           *)
(***************************************************************************)
EXTENDS Mailbox, TLAPS

\* The upsert of a contact keeps the table a set of rows.
LEMMA UpsertType ==
  ASSUME NEW rows \in SUBSET ContactRows, NEW s \in Senders
  PROVE  Upsert(rows, s) \in SUBSET ContactRows
<1>1. [user |-> UserOf[s], spk |-> s, domain |-> ZoneOf[s]] \in ContactRows
  BY MapAssumption DEF ContactRows
<1> QED BY <1>1 DEF Upsert

\* A call that has a manifest in hand has a message in hand, and one that is
\* about to consume a prekey has a prekey.
LEMMA InHandType ==
  ASSUME TypeOK, CallOK, NEW w \in Workers
  PROVE  /\ Busy(w) => cur[w] \in Msgs
         /\ pc[w] \in {"unpublish", "consume"} => prekey[cur[w]] \in Prekeys
<1>1. Busy(w) => cur[w] \in Msgs
  BY DEF TypeOK, CallOK
<1>2. ASSUME pc[w] \in {"unpublish", "consume"} PROVE prekey[cur[w]] \in Prekeys
  <2>1. cur[w] \in Msgs
    BY <1>1, <1>2 DEF Busy
  <2> QED BY <1>2, <2>1 DEF TypeOK, CallOK
<1> QED BY <1>1, <1>2

\* The end of a call keeps the types of its variables.
LEMMA ForgetType ==
  ASSUME TypeOK, NEW w \in Workers, Forget(w)
  PROVE  /\ pc' \in [Workers -> Steps]
         /\ listed' \in [Workers -> SUBSET ContactRows]
         /\ start' \in [Workers -> Nat]
         /\ todo' \in [Workers -> SUBSET (Zones \X Slots)]
         /\ batch' \in [Workers -> SUBSET Msgs]
         /\ cur' \in [Workers -> Msgs \cup {NoMsg}]
         /\ quarantine' \in [Workers -> BOOLEAN]
         /\ results' \in [Workers -> SUBSET Msgs]
BY DEF TypeOK, Forget, Steps

\* Every step keeps the types, given that calls keep their manifests straight.
LEMMA TypeStep ==
  ASSUME TypeOK, CallOK, [Next]_vars
  PROVE  TypeOK'
<1> USE DEF senderVars, storeVars, userVars, callVars, callData
<1>1. CASE UNCHANGED vars
  BY <1>1 DEF TypeOK, vars
<1>2. CASE Tick
  BY <1>2 DEF Tick, TypeOK
<1>3. CASE SenderStep
  <2>1. ASSUME NEW m \in Msgs, Compose(m) PROVE TypeOK'
    <3>1. prekey' \in [Msgs -> Prekeys \cup {NoPrekey}]
      BY <2>1 DEF Compose, TypeOK
    <3>2. exp' \in [Msgs -> Nat]
      BY <2>1, NatAssumption DEF Compose, TypeOK
    <3> QED BY <2>1, <3>1, <3>2 DEF Compose, TypeOK, Stages
  <2>2. ASSUME NEW m \in Msgs, PublishManifest(m) PROVE TypeOK'
    <3>1. ZoneOf[Sender[m]] \in Zones
      BY MapAssumption
    <3>2. dns' \subseteq Zones \X Msgs
      BY <2>2, <3>1 DEF PublishManifest, TypeOK
    <3>3. stage' \in [Msgs -> Stages]
      BY <2>2 DEF PublishManifest, TypeOK, Stages
    <3> QED BY <2>2, <3>2, <3>3 DEF PublishManifest, TypeOK
  <2>3. ASSUME NEW m \in Msgs, FailSend(m) PROVE TypeOK'
    BY <2>3 DEF FailSend, TypeOK, Stages
  <2>4. ASSUME NEW m \in Msgs, NEW z \in Zones, Mirror(m, z) PROVE TypeOK'
    BY <2>4 DEF Mirror, TypeOK
  <2>5. ASSUME NEW s \in Senders, NEW t \in Senders, PublishRotation(s, t) PROVE TypeOK'
    BY <2>5 DEF PublishRotation, TypeOK
  <2>6. ASSUME NEW s \in Senders, PublishRevocation(s) PROVE TypeOK'
    BY <2>6 DEF PublishRevocation, TypeOK
  <2> QED BY <1>3, <2>1, <2>2, <2>3, <2>4, <2>5, <2>6 DEF SenderStep
<1>4. CASE UserStep
  <2>1. ASSUME NEW s \in Senders, Pin(s) PROVE TypeOK'
    BY <2>1, UpsertType DEF Pin, TypeOK
  <2>2. ASSUME NEW m \in Msgs, AcceptIntro(m) PROVE TypeOK'
    BY <2>2 DEF AcceptIntro, TypeOK, Given, Many, Fates
  <2>3. ASSUME NEW m \in Msgs, BlockIntro(m) PROVE TypeOK'
    BY <2>3, MapAssumption DEF BlockIntro, TypeOK, Fates
  <2> QED BY <1>4, <2>1, <2>2, <2>3 DEF UserStep
<1>5. ASSUME NEW w \in Workers, WorkerStep(w) PROVE TypeOK'
  <2>1. CASE Start(w)
    <3>1. \A c \in contacts : c.domain \in Zones \cup {""}
      BY DEF TypeOK, ContactRows
    <3>2. ({OwnZone} \cup ({c.domain : c \in contacts} \ {""})) \X Slots
            \in SUBSET (Zones \X Slots)
      BY <3>1, MapAssumption
    <3> QED BY <2>1, <3>2 DEF Start, TypeOK, Steps
  <2>2. ASSUME NEW z \in Zones, NEW s \in Slots, NEW hit \in BOOLEAN, Query(w, z, s, hit)
        PROVE TypeOK'
    BY <2>2 DEF Query, TypeOK
  <2>3. ASSUME NEW m \in Msgs, NEW hit \in BOOLEAN, TakeUp(w, m, hit) PROVE TypeOK'
    BY <2>3 DEF TakeUp, Purge, Quarantine, TypeOK, Steps
  <2>4. ASSUME NEW m \in Msgs, NEW hit \in BOOLEAN, Skip(w, m, hit) PROVE TypeOK'
    BY <2>4 DEF Skip, Purge, TypeOK
  <2>5. CASE FetchOk(w)
    BY <2>5 DEF FetchOk, TypeOK, Steps
  <2>6. CASE FetchMiss(w)
    BY <2>6 DEF FetchMiss, TypeOK, Steps
  <2>7. CASE Record(w)
    <3>1. cur[w] \in Msgs
      BY <2>7, InHandType DEF Record, Busy
    <3> QED BY <2>7, <3>1 DEF Record, Purge, TypeOK, Steps
  <2>8. CASE Unpublish(w)
    BY <2>8 DEF Unpublish, TypeOK, Steps
  <2>9. CASE Consume(w)
    <3>1. prekey[cur[w]] \in Prekeys
      BY <2>9, InHandType DEF Consume
    <3> QED BY <2>9, <3>1 DEF Consume, TypeOK, Steps
  <2>10. CASE Deliver(w)
    <3>1. cur[w] \in Msgs
      BY <2>10, InHandType DEF Deliver, Busy
    <3> QED BY <2>10, <3>1 DEF Deliver, TypeOK, Steps
  <2>11. CASE Enqueue(w)
    <3>1. cur[w] \in Msgs
      BY <2>11, InHandType DEF Enqueue, Busy
    <3>2. intros' \subseteq Msgs /\ fate' \in [Msgs -> Fates]
      BY <2>11, <3>1 DEF Enqueue, TypeOK, Fates
    <3> QED BY <2>11, <3>2 DEF Enqueue, TypeOK, Steps
  <2>12. CASE Return(w)
    BY <2>12, ForgetType DEF Return, TypeOK, Given, Many, Fates
  <2>13. CASE Abort(w)
    BY <2>13, ForgetType DEF Abort, TypeOK, Fates
  <2> QED BY <1>5, <2>1, <2>2, <2>3, <2>4, <2>5, <2>6, <2>7, <2>8, <2>9, <2>10, <2>11,
             <2>12, <2>13 DEF WorkerStep
<1> QED BY <1>1, <1>2, <1>3, <1>4, <1>5 DEF Next

\* A call has a manifest in hand exactly while it processes it.
LEMMA CallStep ==
  ASSUME TypeOK, CallOK, Untouched, [Next]_vars
  PROVE  CallOK'
<1> USE DEF senderVars, storeVars, userVars, callVars, callData, CallOK, Busy
<1>1. CASE UNCHANGED vars
  BY <1>1 DEF vars
<1>2. CASE Tick
  BY <1>2 DEF Tick
<1>3. CASE SenderStep
  <2>1. ASSUME NEW m \in Msgs, Compose(m) PROVE CallOK'
    <3>1. \A w \in Workers : cur[w] # m
      BY <2>1 DEF Compose, Untouched
    <3>2. \A x : x # m => prekey'[x] = prekey[x]
      BY <2>1 DEF Compose, TypeOK
    <3> QED BY <2>1, <3>1, <3>2 DEF Compose
  <2>2. ASSUME NEW m \in Msgs, PublishManifest(m) PROVE CallOK'
    BY <2>2 DEF PublishManifest
  <2>3. ASSUME NEW m \in Msgs, FailSend(m) PROVE CallOK'
    BY <2>3 DEF FailSend
  <2>4. ASSUME NEW m \in Msgs, NEW z \in Zones, Mirror(m, z) PROVE CallOK'
    BY <2>4 DEF Mirror
  <2>5. ASSUME NEW s \in Senders, NEW t \in Senders, PublishRotation(s, t) PROVE CallOK'
    BY <2>5 DEF PublishRotation
  <2>6. ASSUME NEW s \in Senders, PublishRevocation(s) PROVE CallOK'
    BY <2>6 DEF PublishRevocation
  <2> QED BY <1>3, <2>1, <2>2, <2>3, <2>4, <2>5, <2>6 DEF SenderStep
<1>4. CASE UserStep
  BY <1>4 DEF UserStep, Pin, AcceptIntro, BlockIntro
<1>5. ASSUME NEW w \in Workers, WorkerStep(w) PROVE CallOK'
  <2> USE DEF TypeOK
  <2>1. CASE Start(w)
    BY <2>1 DEF Start
  <2>2. ASSUME NEW z \in Zones, NEW s \in Slots, NEW hit \in BOOLEAN, Query(w, z, s, hit)
        PROVE CallOK'
    BY <2>2 DEF Query
  <2>3. ASSUME NEW m \in Msgs, NEW hit \in BOOLEAN, TakeUp(w, m, hit) PROVE CallOK'
    BY <2>3, SentinelAssumption DEF TakeUp
  <2>4. ASSUME NEW m \in Msgs, NEW hit \in BOOLEAN, Skip(w, m, hit) PROVE CallOK'
    BY <2>4 DEF Skip
  <2>5. CASE FetchOk(w)
    BY <2>5 DEF FetchOk
  <2>6. CASE FetchMiss(w)
    BY <2>6 DEF FetchMiss
  <2>7. CASE Record(w)
    BY <2>7 DEF Record
  <2>8. CASE Unpublish(w)
    BY <2>8 DEF Unpublish
  <2>9. CASE Consume(w)
    BY <2>9 DEF Consume
  <2>10. CASE Deliver(w)
    BY <2>10 DEF Deliver
  <2>11. CASE Enqueue(w)
    BY <2>11 DEF Enqueue
  <2>12. CASE Return(w)
    BY <2>12 DEF Return, Forget
  <2>13. CASE Abort(w)
    BY <2>13 DEF Abort, Forget
  <2> QED BY <1>5, <2>1, <2>2, <2>3, <2>4, <2>5, <2>6, <2>7, <2>8, <2>9, <2>10, <2>11,
             <2>12, <2>13 DEF WorkerStep
<1> QED BY <1>1, <1>2, <1>3, <1>4, <1>5 DEF Next

\* What was never sent is nowhere on the client.
LEMMA UntouchedStep ==
  ASSUME TypeOK, CallOK, Untouched, [Next]_vars
  PROVE  Untouched'
<1> USE DEF senderVars, storeVars, userVars, callVars, callData, Untouched, TypeOK
<1>1. CASE UNCHANGED vars
  BY <1>1 DEF vars
<1>2. CASE Tick
  BY <1>2 DEF Tick
<1>3. CASE SenderStep
  <2>1. ASSUME NEW m \in Msgs, Compose(m) PROVE Untouched'
    BY <2>1 DEF Compose
  <2>2. ASSUME NEW m \in Msgs, PublishManifest(m) PROVE Untouched'
    BY <2>2 DEF PublishManifest
  <2>3. ASSUME NEW m \in Msgs, FailSend(m) PROVE Untouched'
    BY <2>3 DEF FailSend
  <2>4. ASSUME NEW m \in Msgs, NEW z \in Zones, Mirror(m, z) PROVE Untouched'
    BY <2>4 DEF Mirror
  <2>5. ASSUME NEW s \in Senders, NEW t \in Senders, PublishRotation(s, t) PROVE Untouched'
    BY <2>5 DEF PublishRotation
  <2>6. ASSUME NEW s \in Senders, PublishRevocation(s) PROVE Untouched'
    BY <2>6 DEF PublishRevocation
  <2> QED BY <1>3, <2>1, <2>2, <2>3, <2>4, <2>5, <2>6 DEF SenderStep
<1>4. CASE UserStep
  <2>1. ASSUME NEW s \in Senders, Pin(s) PROVE Untouched'
    BY <2>1 DEF Pin
  <2>2. ASSUME NEW m \in Msgs, AcceptIntro(m) PROVE Untouched'
    BY <2>2 DEF AcceptIntro
  <2>3. ASSUME NEW m \in Msgs, BlockIntro(m) PROVE Untouched'
    BY <2>3 DEF BlockIntro
  <2> QED BY <1>4, <2>1, <2>2, <2>3 DEF UserStep
<1>5. ASSUME NEW w \in Workers, WorkerStep(w) PROVE Untouched'
  <2>1. CASE Start(w)
    BY <2>1 DEF Start
  <2>2. ASSUME NEW z \in Zones, NEW s \in Slots, NEW hit \in BOOLEAN, Query(w, z, s, hit)
        PROVE Untouched'
    BY <2>2 DEF Query
  <2>3. ASSUME NEW m \in Msgs, NEW hit \in BOOLEAN, TakeUp(w, m, hit) PROVE Untouched'
    BY <2>3 DEF TakeUp, Purge
  <2>4. ASSUME NEW m \in Msgs, NEW hit \in BOOLEAN, Skip(w, m, hit) PROVE Untouched'
    BY <2>4 DEF Skip, Purge
  <2>5. CASE FetchOk(w)
    BY <2>5 DEF FetchOk
  <2>6. CASE FetchMiss(w)
    BY <2>6, SentinelAssumption DEF FetchMiss
  <2>7. CASE Record(w)
    BY <2>7, InHandType DEF Record, Purge
  <2>8. CASE Unpublish(w)
    BY <2>8 DEF Unpublish
  <2>9. CASE Consume(w)
    BY <2>9 DEF Consume
  <2>10. CASE Deliver(w)
    BY <2>10, SentinelAssumption DEF Deliver
  <2>11. CASE Enqueue(w)
    BY <2>11, SentinelAssumption DEF Enqueue
  <2>12. CASE Return(w)
    BY <2>12, SentinelAssumption DEF Return, Forget
  <2>13. CASE Abort(w)
    BY <2>13, SentinelAssumption DEF Abort, Forget, Recorded
  <2> QED BY <1>5, <2>1, <2>2, <2>3, <2>4, <2>5, <2>6, <2>7, <2>8, <2>9, <2>10, <2>11,
             <2>12, <2>13 DEF WorkerStep
<1> QED BY <1>1, <1>2, <1>3, <1>4, <1>5 DEF Next

\* The part of the inductive invariant that holds for any number of calls.
LEMMA BaseInvariant == Spec => [](TypeOK /\ CallOK /\ Untouched)
<1>1. Init => TypeOK /\ CallOK /\ Untouched
  BY ContactAssumption, SentinelAssumption
  DEF Init, TypeOK, Stages, Fates, Many, Steps, CallOK, Busy, Untouched
<1>2. TypeOK /\ CallOK /\ Untouched /\ [Next]_vars => (TypeOK /\ CallOK /\ Untouched)'
  BY TypeStep, CallStep, UntouchedStep
<1> QED BY <1>1, <1>2, PTL DEF Spec

\* Every reachable state has its types: a call never queries a zone that is
\* not one and never processes or commits a manifest it did not read, whatever
\* interleaves with it.
THEOREM TypeCorrect == Spec => []TypeOK
BY BaseInvariant, PTL

---------------------------------------------------------------------------
(* Forward secrecy and no silent loss, for any number of concurrent calls *)

\* Private keys only ever leave the store, and the key a published message
\* was encrypted under is fixed.
LEMMA KeysOnlyGo ==
  ASSUME TypeOK, CallOK, Untouched, [Next]_vars
  PROVE  /\ prekeys' \subseteq prekeys /\ retained \subseteq retained'
         /\ \A m \in Msgs : stage[m] = "sent" => prekey'[m] = prekey[m]
<1> USE DEF senderVars, storeVars, userVars, callVars, callData
<1>1. CASE UNCHANGED vars
  BY <1>1 DEF vars
<1>2. CASE Tick
  BY <1>2 DEF Tick
<1>3. CASE SenderStep
  <2>1. ASSUME NEW m \in Msgs, Compose(m)
        PROVE  \A x \in Msgs : stage[x] = "sent" => prekey'[x] = prekey[x]
    BY <2>1 DEF Compose, TypeOK
  <2>2. prekeys' = prekeys /\ retained' = retained
    BY <1>3 DEF SenderStep, Compose, PublishManifest, FailSend, Mirror, PublishRotation,
                PublishRevocation
  <2>3. (\E m \in Msgs : Compose(m)) \/ prekey' = prekey
    BY <1>3 DEF SenderStep, PublishManifest, FailSend, Mirror, PublishRotation,
                PublishRevocation
  <2> QED BY <2>1, <2>2, <2>3
<1>4. CASE UserStep
  BY <1>4 DEF UserStep, Pin, AcceptIntro, BlockIntro
<1>5. ASSUME NEW w \in Workers, WorkerStep(w)
      PROVE  prekey' = prekey /\ prekeys' \subseteq prekeys /\ retained \subseteq retained'
  BY <1>5 DEF WorkerStep, Start, Query, TakeUp, Skip, FetchOk, FetchMiss, Record, Unpublish,
              Consume, Deliver, Enqueue, Return, Abort
<1> QED BY <1>1, <1>2, <1>3, <1>4, <1>5 DEF Next

\* A one-time key that is gone stays gone.
LEMMA KeyStaysGone ==
  ASSUME TypeOK, CallOK, Untouched, [Next]_vars, NEW m \in Msgs, KeyGone(m), stage[m] = "sent"
  PROVE  KeyGone(m)'
BY KeysOnlyGo DEF KeyGone

\* A message that is anywhere on the client was sent.
LEMMA TouchedIsSent ==
  ASSUME TypeOK, Untouched, NEW m \in Msgs,
         inbox[m] > 0 \/ m \in intros \/ Held(m) \/ \E w \in Workers : cur[w] = m
  PROVE  stage[m] = "sent"
BY DEF Untouched, Held, TypeOK

\* Every message past the consume step has lost its one-time key.
LEMMA KeysStep ==
  ASSUME TypeOK, CallOK, Untouched, KeysGone, [Next]_vars
  PROVE  KeysGone'
<1> USE DEF senderVars, storeVars, userVars, callVars, callData
<1> DEFINE Past(m) == inbox[m] > 0 \/ m \in intros \/ Held(m)
<1> DEFINE Finishing(m) == \E w \in Workers : pc[w] = "finish" /\ cur[w] = m
\* It is enough that a step moves no other message past the consume step.
<1>0. ASSUME \A m \in Msgs : Past(m)' \/ Finishing(m)' => Past(m) \/ Finishing(m) \/ KeyGone(m)',
             \A w \in Workers : pc'[w] = "finish" => cur'[w] \in Msgs
      PROVE  KeysGone'
  <2>1. \A m \in Msgs : Past(m) \/ Finishing(m) => KeyGone(m)'
    <3>1. TAKE m \in Msgs
    <3>2. HAVE Past(m) \/ Finishing(m)
    <3>3. KeyGone(m)
      BY <3>2 DEF KeysGone
    <3>4. stage[m] = "sent"
      BY <3>2, TouchedIsSent
    <3> QED BY <3>3, <3>4, KeyStaysGone
  <2>2. \A m \in Msgs : Past(m)' \/ Finishing(m)' => KeyGone(m)'
    BY <1>0, <2>1
  <2>3. \A m \in Msgs : Past(m)' => KeyGone(m)'
    BY <2>2
  <2>4. \A w \in Workers : pc'[w] = "finish" => KeyGone(cur[w])'
    BY <1>0, <2>2 DEF KeyGone
  <2> QED BY <2>3, <2>4 DEF KeysGone
<1>1. CASE UNCHANGED vars
  BY <1>1 DEF vars, KeysGone, KeyGone, Held
<1>c. \A w \in Workers : pc'[w] = "finish" => cur'[w] \in Msgs
  <2>1. TypeOK' /\ CallOK'
    BY TypeStep, CallStep
  <2> QED BY <2>1 DEF TypeOK, CallOK, Busy
<1>2. CASE Tick
  BY <1>0, <1>c, <1>2 DEF Tick, Held
<1>3. CASE SenderStep
  <2>1. UNCHANGED <<inbox, intros, results, pc, cur>>
    BY <1>3 DEF SenderStep, Compose, PublishManifest, FailSend, Mirror, PublishRotation,
                PublishRevocation
  <2> QED BY <1>0, <1>c, <2>1 DEF Held
<1>4. CASE UserStep
  <2>1. ASSUME NEW s \in Senders, Pin(s) PROVE KeysGone'
    BY <1>0, <1>c, <2>1 DEF Pin, Held
  <2>2. ASSUME NEW m \in Msgs, AcceptIntro(m) PROVE KeysGone'
    BY <1>0, <1>c, <2>2 DEF AcceptIntro, Held, TypeOK
  <2>3. ASSUME NEW m \in Msgs, BlockIntro(m) PROVE KeysGone'
    BY <1>0, <1>c, <2>3 DEF BlockIntro, Held
  <2> QED BY <1>4, <2>1, <2>2, <2>3 DEF UserStep
<1>5. ASSUME NEW w \in Workers, WorkerStep(w) PROVE KeysGone'
  <2> USE DEF TypeOK
  <2>1. CASE Start(w)
    BY <1>0, <1>c, <2>1 DEF Start, Held
  <2>2. ASSUME NEW z \in Zones, NEW s \in Slots, NEW hit \in BOOLEAN, Query(w, z, s, hit)
        PROVE KeysGone'
    BY <1>0, <1>c, <2>2 DEF Query, Held
  <2>3. ASSUME NEW m \in Msgs, NEW hit \in BOOLEAN, TakeUp(w, m, hit) PROVE KeysGone'
    BY <1>0, <1>c, <2>3 DEF TakeUp, Held
  <2>4. ASSUME NEW m \in Msgs, NEW hit \in BOOLEAN, Skip(w, m, hit) PROVE KeysGone'
    BY <1>0, <1>c, <2>4 DEF Skip, Held
  <2>5. CASE FetchOk(w)
    BY <1>0, <1>c, <2>5 DEF FetchOk, Held
  <2>6. CASE FetchMiss(w)
    BY <1>0, <1>c, <2>6 DEF FetchMiss, Held
  <2>7. CASE Record(w)
    BY <1>0, <1>c, <2>7 DEF Record, Held, KeyGone
  <2>8. CASE Unpublish(w)
    BY <1>0, <1>c, <2>8 DEF Unpublish, Held
  <2>9. CASE Consume(w)
    <3>1. KeyGone(cur[w])'
      BY <2>9 DEF Consume, KeyGone
    <3> QED BY <1>0, <1>c, <2>9, <3>1 DEF Consume, Held, KeyGone
  <2>10. CASE Deliver(w)
    BY <1>0, <1>c, <2>10 DEF Deliver, Held
  <2>11. CASE Enqueue(w)
    BY <1>0, <1>c, <2>11 DEF Enqueue, Held
  <2>12. CASE Return(w)
    BY <1>0, <1>c, <2>12 DEF Return, Forget, Held
  <2>13. CASE Abort(w)
    BY <1>0, <1>c, <2>13 DEF Abort, Forget, Held
  <2> QED BY <1>5, <2>1, <2>2, <2>3, <2>4, <2>5, <2>6, <2>7, <2>8, <2>9, <2>10, <2>11,
             <2>12, <2>13 DEF WorkerStep
<1> QED BY <1>1, <1>2, <1>3, <1>4, <1>5 DEF Next

\* Forward secrecy of receive_messages() and consume_prekey_with_dns(), for
\* any number of concurrent calls, crashes and DNS failures: a message the
\* user has, or that waits for review, can no longer be decrypted with a key
\* on disk unless the local delete itself failed.
THEOREM ForwardSecrecyHolds == Spec => []ForwardSecrecy
<1>1. Init => KeysGone
  BY DEF Init, KeysGone, Held
<1>2. TypeOK /\ CallOK /\ Untouched /\ KeysGone /\ [Next]_vars => KeysGone'
  BY KeysStep
<1>3. KeysGone => ForwardSecrecy
  BY DEF KeysGone, KeyGone, ForwardSecrecy
<1> QED BY <1>1, <1>2, <1>3, BaseInvariant, PTL DEF Spec

\* A recorded message never drops out of sight.
LEMMA NoSilentLossStep ==
  ASSUME TypeOK, CallOK, Untouched, NoSilentLoss, [Next]_vars
  PROVE  NoSilentLoss'
<1> USE DEF senderVars, storeVars, userVars, callVars, callData, NoSilentLoss, OnTheWay, Held,
            InHand, Recorded
<1>1. CASE UNCHANGED vars
  BY <1>1 DEF vars
<1>2. CASE Tick
  BY <1>2 DEF Tick
<1>3. CASE SenderStep
  <2>1. UNCHANGED <<replay, fate, intros, results, pc, cur>>
    BY <1>3 DEF SenderStep, Compose, PublishManifest, FailSend, Mirror, PublishRotation,
                PublishRevocation
  <2> QED BY <2>1
<1>4. CASE UserStep
  <2> USE DEF TypeOK
  <2>1. ASSUME NEW s \in Senders, Pin(s) PROVE NoSilentLoss'
    BY <2>1 DEF Pin
  <2>2. ASSUME NEW m \in Msgs, AcceptIntro(m) PROVE NoSilentLoss'
    BY <2>2 DEF AcceptIntro
  <2>3. ASSUME NEW m \in Msgs, BlockIntro(m) PROVE NoSilentLoss'
    BY <2>3 DEF BlockIntro
  <2> QED BY <1>4, <2>1, <2>2, <2>3 DEF UserStep
<1>5. ASSUME NEW w \in Workers, WorkerStep(w) PROVE NoSilentLoss'
  <2> USE DEF TypeOK
  <2>1. CASE Start(w)
    BY <2>1 DEF Start
  <2>2. ASSUME NEW z \in Zones, NEW s \in Slots, NEW hit \in BOOLEAN, Query(w, z, s, hit)
        PROVE NoSilentLoss'
    BY <2>2 DEF Query
  <2>3. ASSUME NEW m \in Msgs, NEW hit \in BOOLEAN, TakeUp(w, m, hit) PROVE NoSilentLoss'
    BY <2>3 DEF TakeUp, Purge
  <2>4. ASSUME NEW m \in Msgs, NEW hit \in BOOLEAN, Skip(w, m, hit) PROVE NoSilentLoss'
    BY <2>4 DEF Skip, Purge
  <2>5. CASE FetchOk(w)
    BY <2>5 DEF FetchOk
  <2>6. CASE FetchMiss(w)
    BY <2>6 DEF FetchMiss
  <2>7. CASE Record(w)
    BY <2>7 DEF Record, Purge
  <2>8. CASE Unpublish(w)
    BY <2>8 DEF Unpublish
  <2>9. CASE Consume(w)
    BY <2>9 DEF Consume
  <2>10. CASE Deliver(w)
    BY <2>10 DEF Deliver
  <2>11. CASE Enqueue(w)
    BY <2>11 DEF Enqueue
  <2>12. CASE Return(w)
    BY <2>12 DEF Return, Forget
  <2>13. CASE Abort(w)
    BY <2>13 DEF Abort, Forget
  <2> QED BY <1>5, <2>1, <2>2, <2>3, <2>4, <2>5, <2>6, <2>7, <2>8, <2>9, <2>10, <2>11,
             <2>12, <2>13 DEF WorkerStep
<1> QED BY <1>1, <1>2, <1>3, <1>4, <1>5 DEF Next

\* No silent loss, for any number of concurrent calls: what receive_messages()
\* committed to the replay cache is on its way to the user, or was settled, or
\* went down with a call that was aborted.
THEOREM NoSilentLossHolds == Spec => []NoSilentLoss
<1>1. Init => NoSilentLoss
  BY DEF Init, NoSilentLoss
<1>2. TypeOK /\ CallOK /\ Untouched /\ NoSilentLoss /\ [Next]_vars => NoSilentLoss'
  BY NoSilentLossStep
<1> QED BY <1>1, <1>2, BaseInvariant, PTL DEF Spec

---------------------------------------------------------------------------
(* Replay protection, for one receive call at a time *)

\* The row of a message that was taken outlives every purge before expiry.
LEMMA RowKeptStep ==
  ASSUME TypeOK, CallOK, Untouched, RowKept, [Next]_vars
  PROVE  RowKept'
<1> USE DEF senderVars, storeVars, userVars, callVars, callData, RowKept, OnTheWay, Held, InHand, Recorded
<1>1. CASE UNCHANGED vars
  BY <1>1 DEF vars
<1>2. CASE Tick
  BY <1>2, NatAssumption DEF Tick, TypeOK
<1>3. CASE SenderStep
  <2> USE DEF TypeOK
  <2>1. ASSUME NEW m \in Msgs, Compose(m) PROVE RowKept'
    BY <2>1 DEF Compose, Untouched
  <2>2. ASSUME UNCHANGED <<now, exp, callVars, storeVars, userVars>> PROVE RowKept'
    BY <2>2
  <2> QED BY <1>3, <2>1, <2>2 DEF SenderStep, PublishManifest, FailSend, Mirror,
             PublishRotation, PublishRevocation
<1>4. CASE UserStep
  <2> USE DEF TypeOK
  <2>1. ASSUME NEW s \in Senders, Pin(s) PROVE RowKept'
    BY <2>1 DEF Pin
  <2>2. ASSUME NEW m \in Msgs, AcceptIntro(m) PROVE RowKept'
    BY <2>2 DEF AcceptIntro, Given, Many
  <2>3. ASSUME NEW m \in Msgs, BlockIntro(m) PROVE RowKept'
    BY <2>3 DEF BlockIntro
  <2> QED BY <1>4, <2>1, <2>2, <2>3 DEF UserStep
<1>5. ASSUME NEW w \in Workers, WorkerStep(w) PROVE RowKept'
  <2> USE DEF TypeOK
  <2>1. CASE Start(w)
    BY <2>1 DEF Start
  <2>2. ASSUME NEW z \in Zones, NEW s \in Slots, NEW hit \in BOOLEAN, Query(w, z, s, hit)
        PROVE RowKept'
    BY <2>2 DEF Query
  <2>3. ASSUME NEW m \in Msgs, NEW hit \in BOOLEAN, TakeUp(w, m, hit) PROVE RowKept'
    BY <2>3 DEF TakeUp, Purge, HasSeen
  <2>4. ASSUME NEW m \in Msgs, NEW hit \in BOOLEAN, Skip(w, m, hit) PROVE RowKept'
    BY <2>4 DEF Skip, Purge
  <2>5. CASE FetchOk(w)
    BY <2>5 DEF FetchOk
  <2>6. CASE FetchMiss(w)
    BY <2>6 DEF FetchMiss
  <2>7. CASE Record(w)
    BY <2>7 DEF Record, Purge
  <2>8. CASE Unpublish(w)
    BY <2>8 DEF Unpublish
  <2>9. CASE Consume(w)
    BY <2>9 DEF Consume
  <2>10. CASE Deliver(w)
    BY <2>10 DEF Deliver
  <2>11. CASE Enqueue(w)
    BY <2>11 DEF Enqueue
  <2>12. CASE Return(w)
    BY <2>12 DEF Return, Forget, Given, Many
  <2>13. CASE Abort(w)
    BY <2>13 DEF Abort, Forget
  <2> QED BY <1>5, <2>1, <2>2, <2>3, <2>4, <2>5, <2>6, <2>7, <2>8, <2>9, <2>10, <2>11,
             <2>12, <2>13 DEF WorkerStep
<1> QED BY <1>1, <1>2, <1>3, <1>4, <1>5 DEF Next

\* With one call at a time a message being fetched is not in the cache.
LEMMA NotYetRecordedStep ==
  ASSUME SingleCall, TypeOK, CallOK, Untouched, NotYetRecorded, [Next]_vars
  PROVE  NotYetRecorded'
<1> USE DEF senderVars, storeVars, userVars, callVars, callData, NotYetRecorded, SingleCall, CallOK, Busy
<1>1. CASE UNCHANGED vars
  BY <1>1 DEF vars
<1>2. CASE Tick
  BY <1>2, NatAssumption DEF Tick, TypeOK
<1>3. CASE SenderStep
  <2> USE DEF TypeOK
  <2>1. ASSUME NEW m \in Msgs, Compose(m) PROVE NotYetRecorded'
    BY <2>1 DEF Compose, Untouched
  <2>2. ASSUME UNCHANGED <<now, exp, callVars, storeVars, userVars>> PROVE NotYetRecorded'
    BY <2>2
  <2> QED BY <1>3, <2>1, <2>2 DEF SenderStep, PublishManifest, FailSend, Mirror,
             PublishRotation, PublishRevocation
<1>4. CASE UserStep
  <2> USE DEF TypeOK
  <2>1. ASSUME NEW s \in Senders, Pin(s) PROVE NotYetRecorded'
    BY <2>1 DEF Pin
  <2>2. ASSUME NEW m \in Msgs, AcceptIntro(m) PROVE NotYetRecorded'
    BY <2>2 DEF AcceptIntro, Given, Many
  <2>3. ASSUME NEW m \in Msgs, BlockIntro(m) PROVE NotYetRecorded'
    BY <2>3 DEF BlockIntro
  <2> QED BY <1>4, <2>1, <2>2, <2>3 DEF UserStep
<1>5. ASSUME NEW w \in Workers, WorkerStep(w) PROVE NotYetRecorded'
  <2> USE DEF TypeOK
  <2>1. CASE Start(w)
    BY <2>1 DEF Start
  <2>2. ASSUME NEW z \in Zones, NEW s \in Slots, NEW hit \in BOOLEAN, Query(w, z, s, hit)
        PROVE NotYetRecorded'
    BY <2>2 DEF Query
  <2>3. ASSUME NEW m \in Msgs, NEW hit \in BOOLEAN, TakeUp(w, m, hit) PROVE NotYetRecorded'
    BY <2>3 DEF TakeUp, Purge, HasSeen
  <2>4. ASSUME NEW m \in Msgs, NEW hit \in BOOLEAN, Skip(w, m, hit) PROVE NotYetRecorded'
    BY <2>4 DEF Skip, Purge
  <2>5. CASE FetchOk(w)
    BY <2>5 DEF FetchOk
  <2>6. CASE FetchMiss(w)
    BY <2>6 DEF FetchMiss
  <2>7. CASE Record(w)
    BY <2>7 DEF Record, Purge
  <2>8. CASE Unpublish(w)
    BY <2>8 DEF Unpublish
  <2>9. CASE Consume(w)
    BY <2>9 DEF Consume
  <2>10. CASE Deliver(w)
    BY <2>10 DEF Deliver
  <2>11. CASE Enqueue(w)
    BY <2>11 DEF Enqueue
  <2>12. CASE Return(w)
    BY <2>12 DEF Return, Forget, Given, Many
  <2>13. CASE Abort(w)
    BY <2>13 DEF Abort, Forget
  <2> QED BY <1>5, <2>1, <2>2, <2>3, <2>4, <2>5, <2>6, <2>7, <2>8, <2>9, <2>10, <2>11,
             <2>12, <2>13 DEF WorkerStep
<1> QED BY <1>1, <1>2, <1>3, <1>4, <1>5 DEF Next

\* A step moves a message from one place to the next and never copies it.
LEMMA OneCopyStep ==
  ASSUME SingleCall, TypeOK, CallOK, Untouched, RowKept, NotYetRecorded,
         OneCopyBeforeExpiry, [Next]_vars
  PROVE  OneCopyBeforeExpiry'
<1> USE DEF senderVars, storeVars, userVars, callVars, callData, OneCopyBeforeExpiry, Copies,
            Count, Held, InHand, Recorded
<1>1. CASE UNCHANGED vars
  BY <1>1 DEF vars
<1>2. CASE Tick
  BY <1>2, NatAssumption DEF Tick, TypeOK
<1>3. CASE SenderStep
  <2> USE DEF TypeOK
  <2>1. ASSUME NEW m \in Msgs, Compose(m) PROVE OneCopyBeforeExpiry'
    BY <2>1 DEF Compose, Untouched
  <2>2. ASSUME UNCHANGED <<now, exp, callVars, storeVars, userVars>> PROVE OneCopyBeforeExpiry'
    BY <2>2
  <2> QED BY <1>3, <2>1, <2>2 DEF SenderStep, PublishManifest, FailSend, Mirror,
             PublishRotation, PublishRevocation
<1>4. CASE UserStep
  <2> USE DEF TypeOK
  <2>1. ASSUME NEW s \in Senders, Pin(s) PROVE OneCopyBeforeExpiry'
    BY <2>1 DEF Pin
  <2>2. ASSUME NEW m \in Msgs, AcceptIntro(m) PROVE OneCopyBeforeExpiry'
    BY <2>2 DEF AcceptIntro, Given, Many
  <2>3. ASSUME NEW m \in Msgs, BlockIntro(m) PROVE OneCopyBeforeExpiry'
    BY <2>3 DEF BlockIntro
  <2> QED BY <1>4, <2>1, <2>2, <2>3 DEF UserStep
<1>5. ASSUME NEW w \in Workers, WorkerStep(w) PROVE OneCopyBeforeExpiry'
  <2> USE DEF TypeOK
  <2>1. CASE Start(w)
    BY <2>1 DEF Start
  <2>2. ASSUME NEW z \in Zones, NEW s \in Slots, NEW hit \in BOOLEAN, Query(w, z, s, hit)
        PROVE OneCopyBeforeExpiry'
    BY <2>2 DEF Query
  <2>3. ASSUME NEW m \in Msgs, NEW hit \in BOOLEAN, TakeUp(w, m, hit) PROVE OneCopyBeforeExpiry'
    BY <2>3 DEF TakeUp, Purge, HasSeen
  <2>4. ASSUME NEW m \in Msgs, NEW hit \in BOOLEAN, Skip(w, m, hit) PROVE OneCopyBeforeExpiry'
    BY <2>4 DEF Skip, Purge
  <2>5. CASE FetchOk(w)
    BY <2>5 DEF FetchOk
  <2>6. CASE FetchMiss(w)
    BY <2>6 DEF FetchMiss
  <2>7. CASE Record(w)
    <3>1. cur[w] \in Msgs
      BY <2>7, InHandType DEF Record, Busy
    <3>2. now < exp[cur[w]] => ~OnTheWay(cur[w]) /\ ~(inbox[cur[w]] > 0)
      BY <2>7, <3>1 DEF Record, RowKept, NotYetRecorded
    <3>3. /\ \A m \in Msgs : InHand(m)' <=> m = cur[w]
          /\ \A m \in Msgs : Held(m)' <=> Held(m)
      BY <2>7 DEF Record, SingleCall
    <3>4. TAKE m \in Msgs
    <3>5. CASE m = cur[w]
      BY <2>7, <3>2, <3>3, <3>5 DEF Record, OnTheWay
    <3>6. CASE m # cur[w]
      BY <2>7, <3>3, <3>6 DEF Record
    <3> QED BY <3>5, <3>6
  <2>8. CASE Unpublish(w)
    BY <2>8 DEF Unpublish
  <2>9. CASE Consume(w)
    BY <2>9 DEF Consume
  <2>10. CASE Deliver(w)
    <3>1. \A m \in Msgs : InHand(m) <=> m = cur[w]
      BY <2>10 DEF Deliver, SingleCall
    <3>2. /\ \A m \in Msgs : ~InHand(m)'
          /\ \A m \in Msgs : Held(m)' <=> Held(m) \/ m = cur[w]
      BY <2>10 DEF Deliver, SingleCall
    <3> QED BY <2>10, <3>1, <3>2 DEF Deliver
  <2>11. CASE Enqueue(w)
    <3>1. \A m \in Msgs : InHand(m) <=> m = cur[w]
      BY <2>11 DEF Enqueue, SingleCall
    <3>2. /\ \A m \in Msgs : ~InHand(m)'
          /\ \A m \in Msgs : Held(m)' <=> Held(m)
      BY <2>11 DEF Enqueue, SingleCall
    <3>3. \A m \in Msgs : m \in intros' => m \in intros \/ m = cur[w]
      BY <2>11 DEF Enqueue
    <3> QED BY <2>11, <3>1, <3>2, <3>3 DEF Enqueue
  <2>12. CASE Return(w)
    <3>1. \A m \in Msgs : Held(m) <=> m \in results[w]
      BY DEF SingleCall
    <3>2. \A m \in Msgs : ~Held(m)' /\ ~InHand(m)'
      BY <2>12 DEF Return, Forget, SingleCall
    <3>3. \A m \in Msgs : inbox'[m] <= inbox[m] + Count(Held(m))
      BY <2>12, <3>1 DEF Return, Given, Many
    <3>4. \A m \in Msgs : inbox'[m] \in Nat /\ inbox[m] \in Nat
      <4>1. TypeOK'
        BY TypeStep
      <4> QED BY <4>1 DEF Many
    <3>5. TAKE m \in Msgs
    <3>6. Count(m \in intros)' = Count(m \in intros)
      BY <2>12 DEF Return
    <3>7. Copies(m)' = inbox'[m] + Count(m \in intros)
      BY <3>2, <3>4, <3>6
    <3>8. Copies(m)' <= Copies(m)
      BY <3>3, <3>4, <3>7
    <3> QED BY <2>12, <3>4, <3>7, <3>8 DEF Return
  <2>13. CASE Abort(w)
    BY <2>13 DEF Abort, Forget
  <2> QED BY <1>5, <2>1, <2>2, <2>3, <2>4, <2>5, <2>6, <2>7, <2>8, <2>9, <2>10, <2>11,
             <2>12, <2>13 DEF WorkerStep
<1> QED BY <1>1, <1>2, <1>3, <1>4, <1>5 DEF Next

\* Replay protection of receive_messages(), for every set of messages, senders,
\* zones and mirrored records, every crash and every review command: when
\* calls do not overlap, a message is never in two places before it expires.
THEOREM OneCopyHolds ==
  ASSUME SingleCall
  PROVE  Spec => []OneCopyBeforeExpiry
<1>1. Init => RowKept /\ NotYetRecorded /\ OneCopyBeforeExpiry
  BY DEF Init, RowKept, OnTheWay, Held, InHand, Recorded, NotYetRecorded,
         OneCopyBeforeExpiry, Copies, Count
<1>2. /\ TypeOK /\ CallOK /\ Untouched
      /\ RowKept /\ NotYetRecorded /\ OneCopyBeforeExpiry /\ [Next]_vars
      => (RowKept /\ NotYetRecorded /\ OneCopyBeforeExpiry)'
  BY RowKeptStep, NotYetRecordedStep, OneCopyStep
<1> QED BY <1>1, <1>2, BaseInvariant, PTL DEF Spec

---------------------------------------------------------------------------
(* The one-time key as a second guard, for one receive call at a time *)

\* A message under a one-time key whose local delete did not fail.
UnderKey(m) == prekey[m] \notin retained \cup {NoPrekey}

\* From the decryption on, a call has a message under a one-time key to itself.
AloneUnderKey ==
  \A w \in Workers :
    pc[w] \in {"decoded", "unpublish", "consume", "finish"} /\ UnderKey(cur[w])
      => inbox[cur[w]] = 0 /\ cur[w] \notin intros /\ ~Held(cur[w])

\* The decryption needs the key, and what was given, queued or kept before has
\* consumed it.
LEMMA AloneStep ==
  ASSUME SingleCall, TypeOK, CallOK, Untouched, KeysGone, AloneUnderKey, [Next]_vars
  PROVE  AloneUnderKey'
<1> USE DEF senderVars, storeVars, userVars, callVars, callData, AloneUnderKey, UnderKey, Held,
            SingleCall
<1>1. CASE UNCHANGED vars
  BY <1>1 DEF vars
<1>2. CASE Tick
  BY <1>2, NatAssumption DEF Tick, TypeOK
<1>3. CASE SenderStep
  <2> USE DEF TypeOK
  <2>1. ASSUME NEW m \in Msgs, Compose(m) PROVE AloneUnderKey'
    BY <2>1 DEF Compose, Untouched
  <2>2. ASSUME UNCHANGED <<prekey, callVars, storeVars, userVars>> PROVE AloneUnderKey'
    BY <2>2
  <2> QED BY <1>3, <2>1, <2>2 DEF SenderStep, PublishManifest, FailSend, Mirror,
             PublishRotation, PublishRevocation
<1>4. CASE UserStep
  <2> USE DEF TypeOK
  <2>1. ASSUME NEW s \in Senders, Pin(s) PROVE AloneUnderKey'
    BY <2>1 DEF Pin
  <2>2. ASSUME NEW m \in Msgs, AcceptIntro(m) PROVE AloneUnderKey'
    BY <2>2 DEF AcceptIntro, Given, Many
  <2>3. ASSUME NEW m \in Msgs, BlockIntro(m) PROVE AloneUnderKey'
    BY <2>3 DEF BlockIntro
  <2> QED BY <1>4, <2>1, <2>2, <2>3 DEF UserStep
<1>5. ASSUME NEW w \in Workers, WorkerStep(w) PROVE AloneUnderKey'
  <2> USE DEF TypeOK
  <2>1. CASE Start(w)
    BY <2>1 DEF Start
  <2>2. ASSUME NEW z \in Zones, NEW s \in Slots, NEW hit \in BOOLEAN, Query(w, z, s, hit)
        PROVE AloneUnderKey'
    BY <2>2 DEF Query
  <2>3. ASSUME NEW m \in Msgs, NEW hit \in BOOLEAN, TakeUp(w, m, hit) PROVE AloneUnderKey'
    BY <2>3 DEF TakeUp, Purge
  <2>4. ASSUME NEW m \in Msgs, NEW hit \in BOOLEAN, Skip(w, m, hit) PROVE AloneUnderKey'
    BY <2>4 DEF Skip, Purge
  <2>5. CASE FetchOk(w)
    <3>1. cur[w] \in Msgs /\ (prekey[cur[w]] # NoPrekey => prekey[cur[w]] \in prekeys)
      BY <2>5, InHandType DEF FetchOk, Busy, Decryptable, HasPrivateKey
    <3>2. UnderKey(cur[w]) =>
            ~(inbox[cur[w]] > 0 \/ cur[w] \in intros \/ Held(cur[w]))
      BY <3>1 DEF KeysGone, KeyGone
    <3>3. inbox[cur[w]] = 0 \/ inbox[cur[w]] > 0
      BY <3>1 DEF Many
    <3> QED BY <2>5, <3>2, <3>3 DEF FetchOk
  <2>6. CASE FetchMiss(w)
    BY <2>6 DEF FetchMiss
  <2>7. CASE Record(w)
    BY <2>7 DEF Record, Purge
  <2>8. CASE Unpublish(w)
    BY <2>8 DEF Unpublish
  <2>9. CASE Consume(w)
    BY <2>9 DEF Consume
  <2>10. CASE Deliver(w)
    BY <2>10 DEF Deliver
  <2>11. CASE Enqueue(w)
    BY <2>11 DEF Enqueue
  <2>12. CASE Return(w)
    BY <2>12 DEF Return, Forget
  <2>13. CASE Abort(w)
    BY <2>13 DEF Abort, Forget
  <2> QED BY <1>5, <2>1, <2>2, <2>3, <2>4, <2>5, <2>6, <2>7, <2>8, <2>9, <2>10, <2>11,
             <2>12, <2>13 DEF WorkerStep
<1> QED BY <1>1, <1>2, <1>3, <1>4, <1>5 DEF Next

\* A step does not copy a message under a one-time key, before or after expiry.
LEMMA OneCopyKeyStep ==
  ASSUME SingleCall, TypeOK, CallOK, Untouched, AloneUnderKey, OneCopyUnderPrekey, [Next]_vars
  PROVE  OneCopyUnderPrekey'
<1> USE DEF senderVars, storeVars, userVars, callVars, callData, OneCopyUnderPrekey, UnderKey,
            Copies, Count, Held, InHand, Recorded
<1>1. CASE UNCHANGED vars
  BY <1>1 DEF vars
<1>2. CASE Tick
  BY <1>2, NatAssumption DEF Tick, TypeOK
<1>3. CASE SenderStep
  <2> USE DEF TypeOK
  <2>1. ASSUME NEW m \in Msgs, Compose(m) PROVE OneCopyUnderPrekey'
    BY <2>1 DEF Compose, Untouched
  <2>2. ASSUME UNCHANGED <<prekey, callVars, storeVars, userVars>> PROVE OneCopyUnderPrekey'
    BY <2>2
  <2> QED BY <1>3, <2>1, <2>2 DEF SenderStep, PublishManifest, FailSend, Mirror,
             PublishRotation, PublishRevocation
<1>4. CASE UserStep
  <2> USE DEF TypeOK
  <2>1. ASSUME NEW s \in Senders, Pin(s) PROVE OneCopyUnderPrekey'
    BY <2>1 DEF Pin
  <2>2. ASSUME NEW m \in Msgs, AcceptIntro(m) PROVE OneCopyUnderPrekey'
    BY <2>2 DEF AcceptIntro, Given, Many
  <2>3. ASSUME NEW m \in Msgs, BlockIntro(m) PROVE OneCopyUnderPrekey'
    BY <2>3 DEF BlockIntro
  <2> QED BY <1>4, <2>1, <2>2, <2>3 DEF UserStep
<1>5. ASSUME NEW w \in Workers, WorkerStep(w) PROVE OneCopyUnderPrekey'
  <2> USE DEF TypeOK
  <2>1. CASE Start(w)
    BY <2>1 DEF Start
  <2>2. ASSUME NEW z \in Zones, NEW s \in Slots, NEW hit \in BOOLEAN, Query(w, z, s, hit)
        PROVE OneCopyUnderPrekey'
    BY <2>2 DEF Query
  <2>3. ASSUME NEW m \in Msgs, NEW hit \in BOOLEAN, TakeUp(w, m, hit) PROVE OneCopyUnderPrekey'
    BY <2>3 DEF TakeUp, Purge
  <2>4. ASSUME NEW m \in Msgs, NEW hit \in BOOLEAN, Skip(w, m, hit) PROVE OneCopyUnderPrekey'
    BY <2>4 DEF Skip, Purge
  <2>5. CASE FetchOk(w)
    BY <2>5 DEF FetchOk
  <2>6. CASE FetchMiss(w)
    BY <2>6 DEF FetchMiss
  <2>7. CASE Record(w)
    <3>1. cur[w] \in Msgs
      BY <2>7, InHandType DEF Record, Busy
    <3>2. UnderKey(cur[w]) => cur[w] \notin intros /\ ~Held(cur[w]) /\ inbox[cur[w]] = 0
      BY <2>7, <3>1 DEF Record, AloneUnderKey
    <3>3. /\ \A m \in Msgs : InHand(m)' <=> m = cur[w]
          /\ \A m \in Msgs : Held(m)' <=> Held(m)
      BY <2>7 DEF Record, SingleCall
    <3>4. TAKE m \in Msgs
    <3>5. CASE m = cur[w]
      BY <2>7, <3>2, <3>3, <3>5 DEF Record
    <3>6. CASE m # cur[w]
      BY <2>7, <3>3, <3>6 DEF Record
    <3> QED BY <3>5, <3>6
  <2>8. CASE Unpublish(w)
    BY <2>8 DEF Unpublish
  <2>9. CASE Consume(w)
    BY <2>9 DEF Consume
  <2>10. CASE Deliver(w)
    <3>1. \A m \in Msgs : InHand(m) <=> m = cur[w]
      BY <2>10 DEF Deliver, SingleCall
    <3>2. /\ \A m \in Msgs : ~InHand(m)'
          /\ \A m \in Msgs : Held(m)' <=> Held(m) \/ m = cur[w]
      BY <2>10 DEF Deliver, SingleCall
    <3> QED BY <2>10, <3>1, <3>2 DEF Deliver
  <2>11. CASE Enqueue(w)
    <3>1. \A m \in Msgs : InHand(m) <=> m = cur[w]
      BY <2>11 DEF Enqueue, SingleCall
    <3>2. /\ \A m \in Msgs : ~InHand(m)'
          /\ \A m \in Msgs : Held(m)' <=> Held(m)
      BY <2>11 DEF Enqueue, SingleCall
    <3>3. \A m \in Msgs : m \in intros' => m \in intros \/ m = cur[w]
      BY <2>11 DEF Enqueue
    <3> QED BY <2>11, <3>1, <3>2, <3>3 DEF Enqueue
  <2>12. CASE Return(w)
    <3>1. \A m \in Msgs : Held(m) <=> m \in results[w]
      BY DEF SingleCall
    <3>2. \A m \in Msgs : ~Held(m)' /\ ~InHand(m)'
      BY <2>12 DEF Return, Forget, SingleCall
    <3>3. \A m \in Msgs : inbox'[m] <= inbox[m] + Count(Held(m))
      BY <2>12, <3>1 DEF Return, Given, Many
    <3>4. \A m \in Msgs : inbox'[m] \in Nat /\ inbox[m] \in Nat
      <4>1. TypeOK'
        BY TypeStep
      <4> QED BY <4>1 DEF Many
    <3>5. TAKE m \in Msgs
    <3>6. Count(m \in intros)' = Count(m \in intros)
      BY <2>12 DEF Return
    <3>7. Copies(m)' = inbox'[m] + Count(m \in intros)
      BY <3>2, <3>4, <3>6
    <3>8. Copies(m)' <= Copies(m)
      BY <3>3, <3>4, <3>7
    <3> QED BY <2>12, <3>4, <3>7, <3>8 DEF Return
  <2>13. CASE Abort(w)
    BY <2>13 DEF Abort, Forget
  <2> QED BY <1>5, <2>1, <2>2, <2>3, <2>4, <2>5, <2>6, <2>7, <2>8, <2>9, <2>10, <2>11,
             <2>12, <2>13 DEF WorkerStep
<1> QED BY <1>1, <1>2, <1>3, <1>4, <1>5 DEF Next

\* The one-time key makes up for a replay row that has expired: when calls do
\* not overlap, a message encrypted under a prekey whose local delete did not
\* fail is never in two places, however late it is replayed.
THEOREM OneCopyUnderPrekeyHolds ==
  ASSUME SingleCall
  PROVE  Spec => []OneCopyUnderPrekey
<1>1. Init => KeysGone /\ AloneUnderKey /\ OneCopyUnderPrekey
  BY DEF Init, KeysGone, KeyGone, Held, InHand, Recorded, AloneUnderKey, OneCopyUnderPrekey,
         Copies, Count
<1>2. /\ TypeOK /\ CallOK /\ Untouched
      /\ KeysGone /\ AloneUnderKey /\ OneCopyUnderPrekey /\ [Next]_vars
      => (KeysGone /\ AloneUnderKey /\ OneCopyUnderPrekey)'
  BY KeysStep, AloneStep, OneCopyKeyStep
<1> QED BY <1>1, <1>2, BaseInvariant, PTL DEF Spec

---------------------------------------------------------------------------
(* The denylist, for one receive call at a time *)

\* The client leaves TOFU for good, and only a client that has left it has
\* quarantined or blocked anything.
LeftTofu ==
  /\ \A w \in Workers : /\ pc[w] = "idle" => listed[w] = {}
                        /\ listed[w] = {} => ~quarantine[w]
                        /\ pc[w] # "idle" /\ listed[w] = {} => intros = {} /\ blocked = {}
  /\ contacts = {} => intros = {} /\ blocked = {} /\ \A w \in Workers : listed[w] = {}

\* Rotations stay with a user.
OwnHeads == \A h \in heads : UserOf[h[1]] = UserOf[h[2]]

LEMMA LeftTofuStep ==
  ASSUME SingleCall, TypeOK, LeftTofu, [Next]_vars
  PROVE  LeftTofu'
<1> USE DEF senderVars, storeVars, userVars, callVars, callData, LeftTofu, SingleCall
<1>1. CASE UNCHANGED vars
  BY <1>1 DEF vars
<1>2. CASE Tick
  BY <1>2, NatAssumption DEF Tick, TypeOK
<1>3. CASE SenderStep
  <2> USE DEF TypeOK
  <2>1. ASSUME NEW m \in Msgs, Compose(m) PROVE LeftTofu'
    BY <2>1 DEF Compose
  <2>2. ASSUME UNCHANGED <<callVars, storeVars, userVars>> PROVE LeftTofu'
    BY <2>2
  <2> QED BY <1>3, <2>1, <2>2 DEF SenderStep, PublishManifest, FailSend, Mirror,
             PublishRotation, PublishRevocation
<1>4. CASE UserStep
  <2> USE DEF TypeOK
  <2>1. ASSUME NEW s \in Senders, Pin(s) PROVE LeftTofu'
    BY <2>1 DEF Pin, Upsert
  <2>2. ASSUME NEW m \in Msgs, AcceptIntro(m) PROVE LeftTofu'
    BY <2>2 DEF AcceptIntro, Given, Many
  <2>3. ASSUME NEW m \in Msgs, BlockIntro(m) PROVE LeftTofu'
    BY <2>3 DEF BlockIntro
  <2> QED BY <1>4, <2>1, <2>2, <2>3 DEF UserStep
<1>5. ASSUME NEW w \in Workers, WorkerStep(w) PROVE LeftTofu'
  <2> USE DEF TypeOK
  <2>1. CASE Start(w)
    BY <2>1 DEF Start
  <2>2. ASSUME NEW z \in Zones, NEW s \in Slots, NEW hit \in BOOLEAN, Query(w, z, s, hit)
        PROVE LeftTofu'
    BY <2>2 DEF Query
  <2>3. ASSUME NEW m \in Msgs, NEW hit \in BOOLEAN, TakeUp(w, m, hit) PROVE LeftTofu'
    BY <2>3 DEF TakeUp, Quarantine, Tofu
  <2>4. ASSUME NEW m \in Msgs, NEW hit \in BOOLEAN, Skip(w, m, hit) PROVE LeftTofu'
    BY <2>4 DEF Skip
  <2>5. CASE FetchOk(w)
    BY <2>5 DEF FetchOk
  <2>6. CASE FetchMiss(w)
    BY <2>6 DEF FetchMiss
  <2>7. CASE Record(w)
    BY <2>7 DEF Record
  <2>8. CASE Unpublish(w)
    BY <2>8 DEF Unpublish
  <2>9. CASE Consume(w)
    BY <2>9 DEF Consume
  <2>10. CASE Deliver(w)
    BY <2>10 DEF Deliver
  <2>11. CASE Enqueue(w)
    BY <2>11 DEF Enqueue
  <2>12. CASE Return(w)
    BY <2>12 DEF Return, Forget
  <2>13. CASE Abort(w)
    BY <2>13 DEF Abort, Forget
  <2> QED BY <1>5, <2>1, <2>2, <2>3, <2>4, <2>5, <2>6, <2>7, <2>8, <2>9, <2>10, <2>11,
             <2>12, <2>13 DEF WorkerStep
<1> QED BY <1>1, <1>2, <1>3, <1>4, <1>5 DEF Next

LEMMA OwnHeadsStep ==
  ASSUME OwnHeads, [Next]_vars
  PROVE  OwnHeads'
<1>1. CASE heads' = heads
  BY <1>1 DEF OwnHeads
<1>2. ASSUME NEW s \in Senders, NEW t \in Senders, PublishRotation(s, t) PROVE OwnHeads'
  BY <1>2 DEF PublishRotation, OwnHeads
<1>3. ASSUME NEW s \in Senders, PublishRevocation(s) PROVE OwnHeads'
  BY <1>3 DEF PublishRevocation, OwnHeads
<1>4. \/ heads' = heads \/ \E s, t \in Senders : PublishRotation(s, t)
      \/ \E s \in Senders : PublishRevocation(s)
  <2> USE DEF senderVars
  <2>1. CASE SenderStep
    BY <2>1 DEF SenderStep, Compose, PublishManifest, FailSend, Mirror
  <2>2. CASE UserStep
    BY <2>2 DEF UserStep, Pin, AcceptIntro, BlockIntro
  <2>3. ASSUME NEW w \in Workers, WorkerStep(w) PROVE heads' = heads
    BY <2>3 DEF WorkerStep, Start, Query, TakeUp, Skip, FetchOk, FetchMiss, Record, Unpublish,
                Consume, Deliver, Enqueue, Return, Abort
  <2>4. CASE Tick \/ UNCHANGED vars
    BY <2>4 DEF Tick, vars
  <2> QED BY <2>1, <2>2, <2>3, <2>4 DEF Next
<1> QED BY <1>1, <1>2, <1>3, <1>4

\* A manifest that is taken up was looked at in the same step.
LEMMA FetchIsTakeUp ==
  ASSUME TypeOK, [Next]_vars, NEW w \in Workers, pc[w] # "fetch", pc'[w] = "fetch"
  PROVE  \E m \in Msgs, hit \in BOOLEAN : TakeUp(w, m, hit)
<1> USE DEF senderVars, storeVars, userVars, callVars, callData, TypeOK
<1>1. pc' # pc
  OBVIOUS
<1>2. ASSUME NEW v \in Workers, WorkerStep(v), v # w PROVE FALSE
  BY <1>2 DEF WorkerStep, Start, Query, TakeUp, Skip, FetchOk, FetchMiss, Record, Unpublish,
              Consume, Deliver, Enqueue, Return, Abort, Forget
<1>3. WorkerStep(w)
  <2>1. \E v \in Workers : WorkerStep(v)
    BY <1>1 DEF Next, vars, Tick, SenderStep, Compose, PublishManifest, FailSend, Mirror,
                PublishRotation, PublishRevocation, UserStep, Pin, AcceptIntro, BlockIntro
  <2> QED BY <1>2, <2>1
<1>4. ~(\/ Start(w) \/ FetchOk(w) \/ FetchMiss(w) \/ Record(w) \/ Unpublish(w) \/ Consume(w)
        \/ Deliver(w) \/ Enqueue(w) \/ Return(w) \/ Abort(w))
  BY DEF Start, FetchOk, FetchMiss, Record, Unpublish, Consume, Deliver, Enqueue, Return,
         Abort, Forget
<1>5. \A z, s, hit : ~Query(w, z, s, hit)
  BY <1>1 DEF Query
<1>6. \A m, hit : ~Skip(w, m, hit)
  BY <1>1 DEF Skip
<1> QED BY <1>3, <1>4, <1>5, <1>6 DEF WorkerStep

\* The denylist of block_intro is never by-passed when calls do not overlap: a
\* manifest of a blocked key goes on to the decrypt only for a user with a
\* pinned key, directly or by way of a rotation chain.  That the client has a
\* contact at all when something is blocked, and so consults the denylist, is
\* the part that takes a history.
THEOREM BlockedSkipsDecryptHolds ==
  ASSUME SingleCall
  PROVE  Spec => BlockedSkipsDecrypt
<1>1. Init => LeftTofu /\ OwnHeads
  BY DEF Init, LeftTofu, OwnHeads
<1>2. TypeOK /\ LeftTofu /\ OwnHeads /\ [Next]_vars => (LeftTofu /\ OwnHeads)'
  BY LeftTofuStep, OwnHeadsStep
<1>3. TypeOK /\ LeftTofu /\ OwnHeads /\ [Next]_vars =>
        [\A w \in Workers :
           pc[w] # "fetch" /\ pc'[w] = "fetch" =>
             LET s == Sender[cur'[w]] IN
             s \in blocked => \E r \in listed[w] : UserOf[r.spk] = UserOf[s]]_vars
  <2> SUFFICES ASSUME TypeOK, LeftTofu, OwnHeads, [Next]_vars, NEW w \in Workers,
                      pc[w] # "fetch", pc'[w] = "fetch", Sender[cur'[w]] \in blocked
               PROVE  \E r \in listed[w] : UserOf[r.spk] = UserOf[Sender[cur'[w]]]
    OBVIOUS
  <2>1. PICK m \in Msgs, hit \in BOOLEAN : TakeUp(w, m, hit)
    BY FetchIsTakeUp
  <2>2. cur'[w] = m /\ pc[w] = "walk" /\ ~DropsEarly(w, m, hit)
    BY <2>1 DEF TakeUp, TypeOK
  <2>3. ~Quarantine(w, Sender[m], hit)
    BY <2>2 DEF DropsEarly
  <2>4. listed[w] # {}
    BY <2>2 DEF LeftTofu
  <2>5. Sender[m] \in Pinned(w) \/ ChainAccepts(w, Sender[m])
    BY <2>3, <2>4 DEF Quarantine, Tofu
  <2>6. CASE Sender[m] \in Pinned(w)
    BY <2>2, <2>6 DEF Pinned
  <2>7. CASE ChainAccepts(w, Sender[m])
    BY <2>2, <2>7 DEF ChainAccepts, OwnHeads
  <2> QED BY <2>5, <2>6, <2>7
<1> QED BY <1>1, <1>2, <1>3, BaseInvariant, PTL DEF Spec, BlockedSkipsDecrypt

---------------------------------------------------------------------------
(* The mailbox implements the postbox, for one receive call at a time *)

\* A message has a due time once it was composed, and only then.
DueOK == \A m \in Msgs : stage[m] = "unsent" <=> exp[m] = 0

LEMMA DueStep ==
  ASSUME TypeOK, DueOK, [Next]_vars
  PROVE  DueOK'
<1> USE DEF senderVars, DueOK, TypeOK
<1>1. CASE SenderStep
  <2>1. ASSUME NEW m \in Msgs, Compose(m) PROVE DueOK'
    BY <2>1, NatAssumption DEF Compose
  <2>2. ASSUME NEW m \in Msgs, PublishManifest(m) \/ FailSend(m) PROVE DueOK'
    BY <2>2 DEF PublishManifest, FailSend
  <2>3. ASSUME UNCHANGED <<stage, exp>> PROVE DueOK'
    BY <2>3
  <2> QED BY <1>1, <2>1, <2>2, <2>3 DEF SenderStep, Mirror, PublishRotation, PublishRevocation
<1>2. CASE UserStep
  BY <1>2 DEF UserStep, Pin, AcceptIntro, BlockIntro
<1>3. ASSUME NEW w \in Workers, WorkerStep(w) PROVE DueOK'
  BY <1>3 DEF WorkerStep, Start, Query, TakeUp, Skip, FetchOk, FetchMiss, Record, Unpublish,
              Consume, Deliver, Enqueue, Return, Abort
<1>4. CASE Tick \/ UNCHANGED vars
  BY <1>4 DEF Tick, vars
<1> QED BY <1>1, <1>2, <1>3, <1>4 DEF Next

\* The status Postbox sees.
Status == [m \in Msgs |-> IF OnTheWay(m) THEN "taken" ELSE fate[m]]

\* Messages that were taken are settled together.
LEMMA SettleStep ==
  ASSUME NEW S \in SUBSET Msgs, NEW o \in {"given", "lost", "rejected", "blocked"},
         UNCHANGED <<now, exp>>,
         \A m \in S : OnTheWay(m),
         \A m \in Msgs : Status'[m] = IF m \in S THEN o ELSE Status[m]
  PROVE  Promise!Next
<1>1. \A m \in S : Status[m] = "taken"
  BY DEF Status
<1>2. Status' = [m \in Msgs |-> Status'[m]] /\ Status = [m \in Msgs |-> Status[m]]
  BY DEF Status
<1>3. Status' = [m \in Msgs |-> IF m \in S THEN o ELSE Status[m]]
  BY <1>2
<1>4. Promise!Settle
  BY <1>1, <1>3 DEF Promise!Settle, Promise!Outcomes, Status
<1> QED BY <1>4 DEF Promise!Next

\* A message is taken for the first time, or after its due time.
LEMMA TakeStep ==
  ASSUME NEW m \in Msgs, exp[m] > 0, Status[m] = "none" \/ now >= exp[m],
         UNCHANGED <<now, exp>>, Status' = [Status EXCEPT ![m] = "taken"]
  PROVE  Promise!Next
<1>1. Promise!Take(m)
  BY DEF Promise!Take, Status
<1> QED BY <1>1 DEF Promise!Next

\* Steps that move no message between the places Postbox tells apart.
LEMMA StutterStep ==
  ASSUME UNCHANGED <<now, exp, fate>>, \A m \in Msgs : OnTheWay(m)' <=> OnTheWay(m)
  PROVE  UNCHANGED <<now, exp, Status>>
BY DEF Status

LEMMA PromiseStep ==
  ASSUME SingleCall, TypeOK, CallOK, Untouched, RowKept, NotYetRecorded, DueOK, [Next]_vars
  PROVE  Promise!Next \/ UNCHANGED <<now, exp, Status>>
<1> DEFINE Goal == Promise!Next \/ UNCHANGED <<now, exp, Status>>
<1> USE DEF senderVars, storeVars, userVars, callVars, callData, OnTheWay, Held, InHand, Recorded,
            SingleCall
<1>1. CASE UNCHANGED vars
  BY <1>1, StutterStep DEF vars
<1>2. CASE Tick
  <2>1. UNCHANGED Status
    BY <1>2 DEF Tick, Status
  <2>2. Promise!Tick
    BY <1>2, <2>1 DEF Tick, Promise!Tick, Status
  <2> QED BY <2>2 DEF Promise!Next
<1>3. CASE SenderStep
  <2>1. ASSUME NEW m \in Msgs, Compose(m) PROVE Goal
    <3>1. exp[m] = 0 /\ ~OnTheWay(m) /\ fate[m] = "none"
      BY <2>1 DEF Compose, DueOK, Untouched
    <3>2. Status[m] = "none"
      BY <3>1 DEF Status
    <3>3. UNCHANGED <<now, Status>> /\ exp' = [exp EXCEPT ![m] = now + Ttl]
      BY <2>1 DEF Compose, Status
    <3>4. Promise!Offer(m)
      BY <3>1, <3>2, <3>3 DEF Promise!Offer, Status
    <3> QED BY <3>4 DEF Promise!Next
  <2>2. ASSUME UNCHANGED <<now, exp, callVars, storeVars, userVars>> PROVE Goal
    BY <2>2, StutterStep
  <2> QED BY <1>3, <2>1, <2>2 DEF SenderStep, PublishManifest, FailSend, Mirror,
             PublishRotation, PublishRevocation
<1>4. CASE UserStep
  <2>1. ASSUME NEW s \in Senders, Pin(s) PROVE Goal
    BY <2>1, StutterStep DEF Pin
  <2>2. ASSUME NEW m \in Msgs, NEW o \in {"given", "rejected"}, m \in intros,
               intros' = intros \ {m}, fate' = [fate EXCEPT ![m] = o],
               UNCHANGED <<now, exp, callVars>>
        PROVE  Goal
    <3> DEFINE S == {x \in {m} : ~(Held(m) \/ InHand(m))}
    <3>1. \A x \in S : OnTheWay(x)
      BY <2>2
    <3>2. \A x \in Msgs : Status'[x] = IF x \in S THEN o ELSE Status[x]
      <4>1. TAKE x \in Msgs
      <4>2. Held(x)' = Held(x) /\ InHand(x)' = InHand(x)
        BY <2>2
      <4>3. CASE x = m
        <5>1. fate'[m] = o /\ m \notin intros' /\ OnTheWay(m)
          BY <2>2 DEF TypeOK
        <5>2. Status'[x] = IF OnTheWay(x)' THEN "taken" ELSE fate'[x]
          BY DEF Status
        <5>3. Status[x] = "taken"
          BY <4>3, <5>1 DEF Status
        <5> QED
          BY <4>2, <4>3, <5>1, <5>2, <5>3
      <4>4. CASE x # m
        BY <2>2, <4>2, <4>4 DEF Status, TypeOK
      <4> QED BY <4>3, <4>4
    <3> HIDE DEF S
    <3>3. S \in SUBSET Msgs
      BY DEF S
    <3>4. UNCHANGED <<now, exp>> /\ o \in {"given", "lost", "rejected", "blocked"}
      BY <2>2
    <3> HIDE DEF OnTheWay, Held, InHand, Recorded
    <3> QED BY <3>1, <3>2, <3>3, <3>4, SettleStep
  <2>3. ASSUME NEW m \in Msgs, AcceptIntro(m) PROVE Goal
    BY <2>2, <2>3 DEF AcceptIntro
  <2>4. ASSUME NEW m \in Msgs, BlockIntro(m) PROVE Goal
    BY <2>2, <2>4 DEF BlockIntro
  <2> QED BY <1>4, <2>1, <2>3, <2>4 DEF UserStep
<1>5. ASSUME NEW w \in Workers, WorkerStep(w) PROVE Goal
  <2> USE DEF TypeOK
  <2>1. CASE Start(w)
    BY <2>1, StutterStep DEF Start
  <2>2. ASSUME NEW z \in Zones, NEW s \in Slots, NEW hit \in BOOLEAN, Query(w, z, s, hit)
        PROVE Goal
    BY <2>2, StutterStep DEF Query
  <2>3. ASSUME NEW m \in Msgs, NEW hit \in BOOLEAN, TakeUp(w, m, hit) PROVE Goal
    BY <2>3, StutterStep DEF TakeUp
  <2>4. ASSUME NEW m \in Msgs, NEW hit \in BOOLEAN, Skip(w, m, hit) PROVE Goal
    BY <2>4, StutterStep DEF Skip
  <2>5. CASE FetchOk(w)
    BY <2>5, StutterStep DEF FetchOk
  <2>6. CASE FetchMiss(w)
    BY <2>6, StutterStep DEF FetchMiss
  <2>7. CASE Record(w)
    <3>1. cur[w] \in Msgs /\ stage[cur[w]] = "sent"
      BY <2>7, InHandType, TouchedIsSent DEF Record, Busy
    <3>2. exp[cur[w]] > 0
      BY <3>1 DEF DueOK
    <3>3. Status[cur[w]] = "none" \/ now >= exp[cur[w]]
      <4>1. CASE now < exp[cur[w]]
        <5>1. cur[w] \notin replay
          BY <2>7, <4>1 DEF Record, NotYetRecorded
        <5>2. ~OnTheWay(cur[w]) /\ fate[cur[w]] = "none"
          BY <3>1, <4>1, <5>1 DEF RowKept
        <5> QED BY <3>1, <5>2 DEF Status
      <4>2. CASE ~(now < exp[cur[w]])
        BY <3>1, <4>2
      <4> QED BY <4>1, <4>2
    <3>4. \A m \in Msgs : OnTheWay(m)' <=> OnTheWay(m) \/ m = cur[w]
      BY <2>7 DEF Record
    <3>5. UNCHANGED <<now, exp, fate>>
      BY <2>7 DEF Record
    <3>6. Status' = [Status EXCEPT ![cur[w]] = "taken"]
      BY <3>4, <3>5 DEF Status
    <3>7. PICK m \in Msgs : m = cur[w]
      BY <3>1
    <3> QED BY <3>2, <3>3, <3>5, <3>6, <3>7, TakeStep
  <2>8. CASE Unpublish(w)
    BY <2>8, StutterStep DEF Unpublish
  <2>9. CASE Consume(w)
    BY <2>9, StutterStep DEF Consume
  <2>10. CASE Deliver(w)
    <3>1. \A m \in Msgs : OnTheWay(m)' <=> OnTheWay(m)
      BY <2>10 DEF Deliver
    <3> QED BY <2>10, <3>1, StutterStep DEF Deliver
  <2>11. CASE Enqueue(w)
    <3>1. cur[w] \in Msgs
      BY <2>11, InHandType DEF Enqueue, Busy
    <3>2. CASE Sender[cur[w]] \notin blocked
      <4>1. \A m \in Msgs : OnTheWay(m)' <=> OnTheWay(m)
        BY <2>11, <3>2 DEF Enqueue
      <4> QED BY <2>11, <3>2, <4>1, StutterStep DEF Enqueue
    <3>3. CASE Sender[cur[w]] \in blocked
      <4> DEFINE S == {x \in {cur[w]} : ~(Held(x) \/ x \in intros)}
      <4>1. /\ UNCHANGED <<now, exp, intros, results>> /\ fate' = [fate EXCEPT ![cur[w]] = "blocked"]
            /\ pc[w] = "finish" /\ pc'[w] = "walk"
        BY <2>11, <3>3 DEF Enqueue
      <4>2. \A x \in S : OnTheWay(x)
        BY <4>1
      <4>3. \A x \in Msgs : (OnTheWay(x)' <=> OnTheWay(x) /\ x \notin S) /\ (x = cur[w] => OnTheWay(x))
        BY <4>1
      <4>4. \A x \in Msgs : Status'[x] = IF x \in S THEN "blocked" ELSE Status[x]
        BY <3>1, <4>1, <4>3 DEF Status
      <4>5. S \in SUBSET Msgs
        BY <3>1
      <4> HIDE DEF S
      <4> QED BY <4>1, <4>2, <4>4, <4>5, SettleStep
    <3> QED BY <3>2, <3>3
  <2>12. CASE Return(w)
    <3> DEFINE S == {x \in Msgs : (x \in results[w]) /\ x \notin intros}
    <3>1. /\ UNCHANGED <<now, exp, intros>>
          /\ fate' = [x \in Msgs |-> IF x \in results[w] THEN "given" ELSE fate[x]]
      BY <2>12 DEF Return
    <3>2. \A x \in S : OnTheWay(x)
      OBVIOUS
    <3>3. \A x \in Msgs : /\ OnTheWay(x) <=> x \in intros \/ (x \in results[w])
                          /\ OnTheWay(x)' <=> x \in intros
      BY <2>12 DEF Return, Forget
    <3>4. \A x \in Msgs : Status'[x] = IF x \in S THEN "given" ELSE Status[x]
      BY <3>1, <3>3 DEF Status
    <3>5. S \in SUBSET Msgs
      OBVIOUS
    <3> HIDE DEF S
    <3> QED BY <3>1, <3>2, <3>4, <3>5, SettleStep
  <2>13. CASE Abort(w)
    <3> DEFINE S == {x \in Msgs : (x \in results[w] \/ (Recorded(w) /\ x = cur[w])) /\ x \notin intros}
    <3>1. /\ UNCHANGED <<now, exp, intros>>
          /\ fate' = [x \in Msgs |-> IF x \in results[w] \/ (Recorded(w) /\ x = cur[w]) THEN "lost" ELSE fate[x]]
      BY <2>13 DEF Abort
    <3>2. \A x \in S : OnTheWay(x)
      OBVIOUS
    <3>3. \A x \in Msgs : /\ OnTheWay(x) <=> x \in intros \/ (x \in results[w] \/ (Recorded(w) /\ x = cur[w]))
                          /\ OnTheWay(x)' <=> x \in intros
      BY <2>13 DEF Abort, Forget
    <3>4. \A x \in Msgs : Status'[x] = IF x \in S THEN "lost" ELSE Status[x]
      BY <3>1, <3>3 DEF Status
    <3>5. S \in SUBSET Msgs
      OBVIOUS
    <3> HIDE DEF S
    <3> QED BY <3>1, <3>2, <3>4, <3>5, SettleStep
  <2> QED BY <1>5, <2>1, <2>2, <2>3, <2>4, <2>5, <2>6, <2>7, <2>8, <2>9, <2>10, <2>11,
             <2>12, <2>13 DEF WorkerStep
<1> QED BY <1>1, <1>2, <1>3, <1>4, <1>5 DEF Next

\* With one receive call at a time the mailbox implements Postbox: until its
\* due time a message is taken at most once, whatever mirrors of it appear, and
\* a message that was given, rejected, blocked or lost stays settled.  DNS, the
\* slots, the replay rows, the keys, the purges and the steps of a call are
\* hidden behind the three steps Offer, Take and Settle.
THEOREM KeepsPromiseHolds ==
  ASSUME SingleCall
  PROVE  Spec => KeepsPromise
<1>1. Init => RowKept /\ NotYetRecorded /\ DueOK
  BY DEF Init, RowKept, OnTheWay, Held, InHand, Recorded, NotYetRecorded, DueOK
<1>2. Init => Promise!Init
  BY DEF Init, Promise!Init, OnTheWay, Held, InHand, Recorded
<1>3. TypeOK /\ CallOK /\ Untouched /\ RowKept /\ NotYetRecorded /\ DueOK /\ [Next]_vars
        => (RowKept /\ NotYetRecorded /\ DueOK)'
  BY RowKeptStep, NotYetRecordedStep, DueStep
<1>4. TypeOK /\ CallOK /\ Untouched /\ RowKept /\ NotYetRecorded /\ DueOK /\ [Next]_vars
        => [Promise!Next]_<<now, exp, [m \in Msgs |-> IF OnTheWay(m) THEN "taken" ELSE fate[m]]>>
  BY PromiseStep DEF Status
<1> QED BY <1>1, <1>2, <1>3, <1>4, BaseInvariant, PTL DEF Spec, KeepsPromise, Promise!Spec
=============================================================================
