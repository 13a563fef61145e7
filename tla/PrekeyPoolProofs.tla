-------------------------- MODULE PrekeyPoolProofs --------------------------
(***************************************************************************)
(* Theorems about PrekeyPool for every id space, pool size, TTL and number *)
(* of messages, with and without faults.                                   *)
(***************************************************************************)
EXTENDS PrekeyPool, TLAPS

\* record_wire changes no row but its wire.
LEMMA WireOnly ==
  ASSUME TypeOK, NEW a \in Records, RecordWire(a)
  PROVE  /\ store' \subseteq Rows
         /\ \A r \in store' : \E s \in store : s.id = r.id /\ s.key = r.key
         /\ \A s \in store : \E r \in store' : s.id = r.id /\ s.key = r.key
<1>1. \A r \in store : r \in Rows
  BY DEF TypeOK
<1>2. \A r \in store : /\ [r EXCEPT !.wire = a.key] \in Rows
                       /\ [r EXCEPT !.wire = a.key].id = r.id
                       /\ [r EXCEPT !.wire = a.key].key = r.key
  BY <1>1 DEF Rows, Records
<1> QED BY <1>1, <1>2 DEF RecordWire

\* Every step keeps the types.
LEMMA TypeStep ==
  ASSUME TypeOK, CurOK, [Next]_vars
  PROVE  TypeOK'
<1> USE PoolAssumption DEF refreshVars, sendVars, recvVars, TypeOK
<1>1. CASE UNCHANGED vars
  BY <1>1 DEF vars
<1>2. CASE Tick
  BY <1>2 DEF Tick
<1>3. ASSUME NEW P \in SUBSET Records, GeneratePool(P) PROVE TypeOK'
  BY <1>3 DEF GeneratePool, FreshIds, FreshKeys, Commit, Records, Rows
<1>4. ASSUME NEW a \in Records, Publish(a) PROVE TypeOK'
  BY <1>4 DEF Publish
<1>5. ASSUME NEW a \in Records, PublishRefused(a) PROVE TypeOK'
  BY <1>5 DEF PublishRefused
<1>6. ASSUME NEW a \in Records, PublishFails(a) PROVE TypeOK'
  BY <1>6 DEF PublishFails
<1>7. ASSUME NEW a \in Records, RecordWire(a) PROVE TypeOK'
  BY <1>7, WireOnly DEF RecordWire
<1>8. CASE RefreshDies
  BY <1>8 DEF RefreshDies
<1>9. ASSUME NEW m \in Msgs, NEW a \in Records, Pick(m, a) PROVE TypeOK'
  BY <1>9 DEF Pick, Records
<1>10. ASSUME NEW m \in Msgs, PickNone(m) PROVE TypeOK'
  BY <1>10 DEF PickNone
<1>11. ASSUME NEW m \in Msgs, Send(m) PROVE TypeOK'
  BY <1>11 DEF Send
<1>12. ASSUME NEW m \in Msgs, Open(m) PROVE TypeOK'
  BY <1>12 DEF Open
<1>13. ASSUME NEW m \in Msgs, Unpublish(m) PROVE TypeOK'
  BY <1>13 DEF Unpublish
<1>14. ASSUME NEW m \in Msgs, Consume(m) PROVE TypeOK'
  BY <1>14 DEF Consume, CurOK
<1>15. ASSUME NEW m \in Msgs, ReceiverDies(m) PROVE TypeOK'
  BY <1>15 DEF ReceiverDies, CurOK
<1> QED BY <1>1, <1>2, <1>3, <1>4, <1>5, <1>6, <1>7, <1>8, <1>9, <1>10, <1>11, <1>12,
           <1>13, <1>14, <1>15 DEF Next

\* Ids and keys stay unique in the table.
LEMMA OneRowStep ==
  ASSUME TypeOK, OneRow, Drawn, [Next]_vars
  PROVE  OneRow'
<1> USE PoolAssumption DEF refreshVars, sendVars, recvVars, OneRow
<1>1. CASE UNCHANGED vars
  BY <1>1 DEF vars
<1>2. CASE Tick
  BY <1>2 DEF Tick
<1>3. ASSUME NEW P \in SUBSET Records, GeneratePool(P) PROVE OneRow'
  <2>1. \A r, s \in {[id |-> b.id, key |-> b.key, wire |-> NoKey] : b \in P} :
          r.id = s.id \/ r.key = s.key => r = s
    BY <1>3 DEF GeneratePool, FreshIds, FreshKeys
  <2>2. \A r \in store, s \in {[id |-> b.id, key |-> b.key, wire |-> NoKey] : b \in P} :
          r.id # s.id /\ r.key # s.key
    BY <1>3 DEF GeneratePool, FreshIds, FreshKeys, Drawn
  <2> QED BY <1>3, <2>1, <2>2 DEF GeneratePool, Commit
<1>4. ASSUME NEW a \in Records, Publish(a) PROVE OneRow'
  BY <1>4 DEF Publish
<1>5. ASSUME NEW a \in Records, PublishRefused(a) PROVE OneRow'
  BY <1>5 DEF PublishRefused
<1>6. ASSUME NEW a \in Records, PublishFails(a) PROVE OneRow'
  BY <1>6 DEF PublishFails
<1>7. ASSUME NEW a \in Records, RecordWire(a) PROVE OneRow'
  <2>1. \A r \in store : [r EXCEPT !.wire = a.key].id = r.id /\ [r EXCEPT !.wire = a.key].key = r.key
    BY DEF TypeOK, Rows
  <2>2. \A r \in store' : \E s \in store :
          s.id = r.id /\ s.key = r.key /\ r = IF s.id = a.id THEN [s EXCEPT !.wire = a.key] ELSE s
    <3>1. TAKE r \in store'
    <3>2. CASE r \in store /\ r.id # a.id
      BY <3>2
    <3>3. ASSUME NEW s \in store, s.id = a.id, r = [s EXCEPT !.wire = a.key]
          PROVE  s.id = r.id /\ s.key = r.key
      BY <2>1, <3>3
    <3> QED BY <1>7, <3>2, <3>3 DEF RecordWire
  <2> QED BY <2>2
<1>8. CASE RefreshDies
  BY <1>8 DEF RefreshDies
<1>9. ASSUME NEW m \in Msgs, NEW a \in Records, Pick(m, a) PROVE OneRow'
  BY <1>9 DEF Pick
<1>10. ASSUME NEW m \in Msgs, PickNone(m) PROVE OneRow'
  BY <1>10 DEF PickNone
<1>11. ASSUME NEW m \in Msgs, Send(m) PROVE OneRow'
  BY <1>11 DEF Send
<1>12. ASSUME NEW m \in Msgs, Open(m) PROVE OneRow'
  BY <1>12 DEF Open
<1>13. ASSUME NEW m \in Msgs, Unpublish(m) PROVE OneRow'
  BY <1>13 DEF Unpublish
<1>14. ASSUME NEW m \in Msgs, Consume(m) PROVE OneRow'
  BY <1>14 DEF Consume
<1>15. ASSUME NEW m \in Msgs, ReceiverDies(m) PROVE OneRow'
  BY <1>15 DEF ReceiverDies
<1> QED BY <1>1, <1>2, <1>3, <1>4, <1>5, <1>6, <1>7, <1>8, <1>9, <1>10, <1>11, <1>12,
           <1>13, <1>14, <1>15 DEF Next

\* Only drawn keys are in use.
LEMMA DrawnStep ==
  ASSUME TypeOK, Drawn, [Next]_vars
  PROVE  Drawn'
<1> USE PoolAssumption DEF refreshVars, sendVars, recvVars, Drawn
<1>1. CASE UNCHANGED vars
  BY <1>1 DEF vars
<1>2. CASE Tick
  BY <1>2 DEF Tick
<1>3. ASSUME NEW P \in SUBSET Records, GeneratePool(P) PROVE Drawn'
  BY <1>3 DEF GeneratePool, FreshIds, FreshKeys, Commit
<1>4. ASSUME NEW a \in Records, Publish(a) PROVE Drawn'
  BY <1>4 DEF Publish
<1>5. ASSUME NEW a \in Records, PublishRefused(a) PROVE Drawn'
  BY <1>5 DEF PublishRefused
<1>6. ASSUME NEW a \in Records, PublishFails(a) PROVE Drawn'
  BY <1>6 DEF PublishFails
<1>7. ASSUME NEW a \in Records, RecordWire(a) PROVE Drawn'
  BY <1>7, WireOnly DEF RecordWire
<1>8. CASE RefreshDies
  BY <1>8 DEF RefreshDies
<1>9. ASSUME NEW m \in Msgs, NEW a \in Records, Pick(m, a) PROVE Drawn'
  BY <1>9 DEF Pick, TypeOK
<1>10. ASSUME NEW m \in Msgs, PickNone(m) PROVE Drawn'
  BY <1>10 DEF PickNone
<1>11. ASSUME NEW m \in Msgs, Send(m) PROVE Drawn'
  BY <1>11 DEF Send
<1>12. ASSUME NEW m \in Msgs, Open(m) PROVE Drawn'
  BY <1>12 DEF Open
<1>13. ASSUME NEW m \in Msgs, Unpublish(m) PROVE Drawn'
  BY <1>13 DEF Unpublish
<1>14. ASSUME NEW m \in Msgs, Consume(m) PROVE Drawn'
  BY <1>14 DEF Consume
<1>15. ASSUME NEW m \in Msgs, ReceiverDies(m) PROVE Drawn'
  BY <1>15 DEF ReceiverDies
<1> QED BY <1>1, <1>2, <1>3, <1>4, <1>5, <1>6, <1>7, <1>8, <1>9, <1>10, <1>11, <1>12,
           <1>13, <1>14, <1>15 DEF Next

\* Keys stay backed until a message has used them.
LEMMA BackedStep ==
  ASSUME TypeOK, OneRow, Drawn, AllBacked, CurOK, [Next]_vars
  PROVE  AllBacked'
<1> USE PoolAssumption DEF refreshVars, sendVars, recvVars, AllBacked, HasRow, Burnt
<1>1. CASE UNCHANGED vars
  BY <1>1 DEF vars
<1>2. CASE Tick
  BY <1>2 DEF Tick
<1>3. ASSUME NEW P \in SUBSET Records, GeneratePool(P) PROVE AllBacked'
  <2>1. store \subseteq store'
    BY <1>3 DEF GeneratePool, FreshIds, Commit
  <2>2. \A b \in P : \E r \in store' : r.id = b.id /\ r.key = b.key
    <3>1. TAKE b \in P
    <3>2. [id |-> b.id, key |-> b.key, wire |-> NoKey] \in store'
      BY <1>3 DEF GeneratePool, Commit
    <3> QED BY <3>2
  <2>3. UNCHANGED <<rrset, hand, sendVars, recvVars>> /\ todo' = P
    BY <1>3 DEF GeneratePool
  <2> QED BY <2>1, <2>2, <2>3
<1>4. ASSUME NEW a \in Records, Publish(a) PROVE AllBacked'
  BY <1>4 DEF Publish
<1>5. ASSUME NEW a \in Records, PublishRefused(a) PROVE AllBacked'
  BY <1>5 DEF PublishRefused
<1>6. ASSUME NEW a \in Records, PublishFails(a) PROVE AllBacked'
  BY <1>6 DEF PublishFails
<1>7. ASSUME NEW a \in Records, RecordWire(a) PROVE AllBacked'
  <2>1. UNCHANGED <<now, made, life, rrset, todo, sendVars, recvVars>> /\ hand' = {}
    BY <1>7 DEF RecordWire
  <2>2. /\ \A r \in store' : \E s \in store : s.id = r.id /\ s.key = r.key
        /\ \A s \in store : \E r \in store' : s.id = r.id /\ s.key = r.key
    BY <1>7, WireOnly
  <2> QED BY <2>1, <2>2
<1>8. CASE RefreshDies
  BY <1>8 DEF RefreshDies
<1>9. ASSUME NEW m \in Msgs, NEW a \in Records, Pick(m, a) PROVE AllBacked'
  BY <1>9 DEF Pick, TypeOK, CurOK, Records
<1>10. ASSUME NEW m \in Msgs, PickNone(m) PROVE AllBacked'
  BY <1>10 DEF PickNone
<1>11. ASSUME NEW m \in Msgs, Send(m) PROVE AllBacked'
  BY <1>11 DEF Send
<1>12. ASSUME NEW m \in Msgs, Open(m) PROVE AllBacked'
  BY <1>12 DEF Open
<1>13. ASSUME NEW m \in Msgs, Unpublish(m) PROVE AllBacked'
  BY <1>13 DEF Unpublish, Withdrawn
<1>14. ASSUME NEW m \in Msgs, Consume(m) PROVE AllBacked'
  BY <1>14 DEF Consume, OneRow, CurOK
<1>15. ASSUME NEW m \in Msgs, ReceiverDies(m) PROVE AllBacked'
  BY <1>15 DEF ReceiverDies
<1> QED BY <1>1, <1>2, <1>3, <1>4, <1>5, <1>6, <1>7, <1>8, <1>9, <1>10, <1>11, <1>12,
           <1>13, <1>14, <1>15 DEF Next

\* The key being consumed keeps its row.
LEMMA CurStep ==
  ASSUME TypeOK, OneRow, Drawn, AllBacked, CurOK, [Next]_vars
  PROVE  CurOK'
<1> USE PoolAssumption DEF refreshVars, sendVars, recvVars, CurOK, HasRow
<1>1. CASE UNCHANGED vars
  BY <1>1 DEF vars
<1>2. CASE Tick
  BY <1>2 DEF Tick
<1>3. ASSUME NEW P \in SUBSET Records, GeneratePool(P) PROVE CurOK'
  <2>1. store \subseteq store'
    BY <1>3 DEF GeneratePool, FreshIds, Commit
  <2>2. \A b \in P : \E r \in store' : r.id = b.id /\ r.key = b.key
    <3>1. TAKE b \in P
    <3>2. [id |-> b.id, key |-> b.key, wire |-> NoKey] \in store'
      BY <1>3 DEF GeneratePool, Commit
    <3> QED BY <3>2
  <2>3. UNCHANGED <<rrset, hand, sendVars, recvVars>> /\ todo' = P
    BY <1>3 DEF GeneratePool
  <2> QED BY <2>1, <2>2, <2>3
<1>4. ASSUME NEW a \in Records, Publish(a) PROVE CurOK'
  BY <1>4 DEF Publish
<1>5. ASSUME NEW a \in Records, PublishRefused(a) PROVE CurOK'
  BY <1>5 DEF PublishRefused
<1>6. ASSUME NEW a \in Records, PublishFails(a) PROVE CurOK'
  BY <1>6 DEF PublishFails
<1>7. ASSUME NEW a \in Records, RecordWire(a) PROVE CurOK'
  <2>1. UNCHANGED <<now, made, life, rrset, todo, sendVars, recvVars>> /\ hand' = {}
    BY <1>7 DEF RecordWire
  <2>2. /\ \A r \in store' : \E s \in store : s.id = r.id /\ s.key = r.key
        /\ \A s \in store : \E r \in store' : s.id = r.id /\ s.key = r.key
    BY <1>7, WireOnly
  <2> QED BY <2>1, <2>2
<1>8. CASE RefreshDies
  BY <1>8 DEF RefreshDies
<1>9. ASSUME NEW m \in Msgs, NEW a \in Records, Pick(m, a) PROVE CurOK'
  BY <1>9 DEF Pick, TypeOK
<1>10. ASSUME NEW m \in Msgs, PickNone(m) PROVE CurOK'
  BY <1>10 DEF PickNone, TypeOK
<1>11. ASSUME NEW m \in Msgs, Send(m) PROVE CurOK'
  BY <1>11 DEF Send, TypeOK
<1>12. ASSUME NEW m \in Msgs, Open(m) PROVE CurOK'
  <2>1. pid[m] # NO_PREKEY => seal[m] \in Keys /\ HasRow(pid[m], seal[m])
    BY <1>12 DEF Open, CanOpen, Fetched, TypeOK, Rows
  <2> QED BY <1>12, <2>1 DEF Open
<1>13. ASSUME NEW m \in Msgs, Unpublish(m) PROVE CurOK'
  BY <1>13 DEF Unpublish
<1>14. ASSUME NEW m \in Msgs, Consume(m) PROVE CurOK'
  BY <1>14 DEF Consume, TypeOK
<1>15. ASSUME NEW m \in Msgs, ReceiverDies(m) PROVE CurOK'
  BY <1>15 DEF ReceiverDies
<1> QED BY <1>1, <1>2, <1>3, <1>4, <1>5, <1>6, <1>7, <1>8, <1>9, <1>10, <1>11, <1>12,
           <1>13, <1>14, <1>15 DEF Next

\* Used keys leave the disk.
LEMMA UsedStep ==
  ASSUME TypeOK, OneRow, Drawn, AllBacked, CurOK, UsedOnDisk, [Next]_vars
  PROVE  UsedOnDisk'
<1> USE PoolAssumption DEF refreshVars, sendVars, recvVars, UsedOnDisk, Burnt
<1>1. CASE UNCHANGED vars
  BY <1>1 DEF vars
<1>2. CASE Tick
  BY <1>2 DEF Tick
<1>3. ASSUME NEW P \in SUBSET Records, GeneratePool(P) PROVE UsedOnDisk'
  <2>1. \A r \in store' : r \in store \/ (r.key \in Keys /\ r.key \notin made)
    BY <1>3 DEF GeneratePool, FreshKeys, Commit, Records
  <2>2. \A m \in Msgs : seal[m] \in made \cup {LongTerm}
    BY DEF Drawn
  <2>3. UNCHANGED <<sendVars, recvVars>>
    BY <1>3 DEF GeneratePool
  <2> QED BY <2>1, <2>2, <2>3 DEF TypeOK
<1>4. ASSUME NEW a \in Records, Publish(a) PROVE UsedOnDisk'
  BY <1>4 DEF Publish
<1>5. ASSUME NEW a \in Records, PublishRefused(a) PROVE UsedOnDisk'
  BY <1>5 DEF PublishRefused
<1>6. ASSUME NEW a \in Records, PublishFails(a) PROVE UsedOnDisk'
  BY <1>6 DEF PublishFails
<1>7. ASSUME NEW a \in Records, RecordWire(a) PROVE UsedOnDisk'
  <2>1. UNCHANGED <<now, made, life, rrset, todo, sendVars, recvVars>> /\ hand' = {}
    BY <1>7 DEF RecordWire
  <2>2. /\ \A r \in store' : \E s \in store : s.id = r.id /\ s.key = r.key
        /\ \A s \in store : \E r \in store' : s.id = r.id /\ s.key = r.key
    BY <1>7, WireOnly
  <2> QED BY <2>1, <2>2
<1>8. CASE RefreshDies
  BY <1>8 DEF RefreshDies
<1>9. ASSUME NEW m \in Msgs, NEW a \in Records, Pick(m, a) PROVE UsedOnDisk'
  BY <1>9 DEF Pick, TypeOK, CurOK
<1>10. ASSUME NEW m \in Msgs, PickNone(m) PROVE UsedOnDisk'
  BY <1>10 DEF PickNone
<1>11. ASSUME NEW m \in Msgs, Send(m) PROVE UsedOnDisk'
  BY <1>11 DEF Send
<1>12. ASSUME NEW m \in Msgs, Open(m) PROVE UsedOnDisk'
  <2>1. pid[m] = NO_PREKEY => seal[m] = LongTerm
    BY <1>12 DEF Open, CanOpen
  <2>2. \A r \in store : r.key # LongTerm
    BY DEF TypeOK, Rows
  <2>3. cur = {}
    BY <1>12 DEF Open, CurOK
  <2> QED BY <1>12, <2>1, <2>2, <2>3 DEF Open
<1>13. ASSUME NEW m \in Msgs, Unpublish(m) PROVE UsedOnDisk'
  BY <1>13 DEF Unpublish
<1>14. ASSUME NEW m \in Msgs, Consume(m) PROVE UsedOnDisk'
  BY <1>14 DEF Consume, OneRow, CurOK, HasRow
<1>15. ASSUME NEW m \in Msgs, ReceiverDies(m) PROVE UsedOnDisk'
  BY <1>15 DEF ReceiverDies, CurOK
<1> QED BY <1>1, <1>2, <1>3, <1>4, <1>5, <1>6, <1>7, <1>8, <1>9, <1>10, <1>11, <1>12,
           <1>13, <1>14, <1>15 DEF Next

\* A second message opens only under a key that was kept.
LEMMA OneTimeStep ==
  ASSUME TypeOK, OneRow, Drawn, AllBacked, CurOK, UsedOnDisk, OneTime, [Next]_vars
  PROVE  OneTime'
<1> USE PoolAssumption DEF refreshVars, sendVars, recvVars, OneTime
<1>1. CASE UNCHANGED vars
  BY <1>1 DEF vars
<1>2. CASE Tick
  BY <1>2 DEF Tick
<1>3. ASSUME NEW P \in SUBSET Records, GeneratePool(P) PROVE OneTime'
  BY <1>3 DEF GeneratePool, FreshIds, FreshKeys, Commit
<1>4. ASSUME NEW a \in Records, Publish(a) PROVE OneTime'
  BY <1>4 DEF Publish
<1>5. ASSUME NEW a \in Records, PublishRefused(a) PROVE OneTime'
  BY <1>5 DEF PublishRefused
<1>6. ASSUME NEW a \in Records, PublishFails(a) PROVE OneTime'
  BY <1>6 DEF PublishFails
<1>7. ASSUME NEW a \in Records, RecordWire(a) PROVE OneTime'
  BY <1>7 DEF RecordWire
<1>8. CASE RefreshDies
  BY <1>8 DEF RefreshDies
<1>9. ASSUME NEW m \in Msgs, NEW a \in Records, Pick(m, a) PROVE OneTime'
  BY <1>9 DEF Pick, TypeOK, CurOK
<1>10. ASSUME NEW m \in Msgs, PickNone(m) PROVE OneTime'
  BY <1>10 DEF PickNone
<1>11. ASSUME NEW m \in Msgs, Send(m) PROVE OneTime'
  BY <1>11 DEF Send
<1>12. ASSUME NEW m \in Msgs, Open(m) PROVE OneTime'
  BY <1>12 DEF Open, CanOpen, Fetched, CurOK, UsedOnDisk, Burnt
<1>13. ASSUME NEW m \in Msgs, Unpublish(m) PROVE OneTime'
  BY <1>13 DEF Unpublish
<1>14. ASSUME NEW m \in Msgs, Consume(m) PROVE OneTime'
  BY <1>14 DEF Consume
<1>15. ASSUME NEW m \in Msgs, ReceiverDies(m) PROVE OneTime'
  BY <1>15 DEF ReceiverDies
<1> QED BY <1>1, <1>2, <1>3, <1>4, <1>5, <1>6, <1>7, <1>8, <1>9, <1>10, <1>11, <1>12,
           <1>13, <1>14, <1>15 DEF Next

\* Remembered records stay those of their row.
LEMMA WireStep ==
  ASSUME TypeOK, WireOK, [Next]_vars
  PROVE  WireOK'
<1> USE PoolAssumption DEF refreshVars, sendVars, recvVars, WireOK
<1>1. CASE UNCHANGED vars
  BY <1>1 DEF vars
<1>2. CASE Tick
  BY <1>2 DEF Tick
<1>3. ASSUME NEW P \in SUBSET Records, GeneratePool(P) PROVE WireOK'
  <2>1. \A r \in store' : r \in store \/ r.wire = NoKey
    BY <1>3 DEF GeneratePool, Commit
  <2>2. \A a \in P, r \in store' : r.id = a.id => r.key = a.key
    BY <1>3 DEF GeneratePool, Commit, FreshIds
  <2>3. todo' = P /\ hand' = {}
    BY <1>3 DEF GeneratePool
  <2> QED BY <2>1, <2>2, <2>3
<1>4. ASSUME NEW a \in Records, Publish(a) PROVE WireOK'
  BY <1>4 DEF Publish
<1>5. ASSUME NEW a \in Records, PublishRefused(a) PROVE WireOK'
  BY <1>5 DEF PublishRefused
<1>6. ASSUME NEW a \in Records, PublishFails(a) PROVE WireOK'
  BY <1>6 DEF PublishFails
<1>7. ASSUME NEW a \in Records, RecordWire(a) PROVE WireOK'
  <2>1. \A r \in store : /\ [r EXCEPT !.wire = a.key].id = r.id
                          /\ [r EXCEPT !.wire = a.key].key = r.key
                          /\ [r EXCEPT !.wire = a.key].wire = a.key
    BY DEF TypeOK, Rows
  <2>2. a \in hand /\ todo' = todo /\ hand' = {}
    BY <1>7 DEF RecordWire
  <2>3. \A r \in store' : r.wire \in {NoKey, r.key}
    <3>1. TAKE r \in store'
    <3>2. CASE r \in store
      BY <3>2
    <3>3. ASSUME NEW s \in store, s.id = a.id, r = [s EXCEPT !.wire = a.key]
          PROVE  r.wire \in {NoKey, r.key}
      <4>1. s.key = a.key
        BY <3>3, <2>2
      <4> QED BY <2>1, <3>3, <4>1
    <3> QED BY <1>7, <3>2, <3>3 DEF RecordWire
  <2>4. \A b \in todo, r \in store' : r.id = b.id => r.key = b.key
    BY <1>7, WireOnly
  <2> QED BY <2>2, <2>3, <2>4
<1>8. CASE RefreshDies
  BY <1>8 DEF RefreshDies
<1>9. ASSUME NEW m \in Msgs, NEW a \in Records, Pick(m, a) PROVE WireOK'
  BY <1>9 DEF Pick
<1>10. ASSUME NEW m \in Msgs, PickNone(m) PROVE WireOK'
  BY <1>10 DEF PickNone
<1>11. ASSUME NEW m \in Msgs, Send(m) PROVE WireOK'
  BY <1>11 DEF Send
<1>12. ASSUME NEW m \in Msgs, Open(m) PROVE WireOK'
  BY <1>12 DEF Open
<1>13. ASSUME NEW m \in Msgs, Unpublish(m) PROVE WireOK'
  BY <1>13 DEF Unpublish
<1>14. ASSUME NEW m \in Msgs, Consume(m) PROVE WireOK'
  BY <1>14 DEF Consume
<1>15. ASSUME NEW m \in Msgs, ReceiverDies(m) PROVE WireOK'
  BY <1>15 DEF ReceiverDies
<1> QED BY <1>1, <1>2, <1>3, <1>4, <1>5, <1>6, <1>7, <1>8, <1>9, <1>10, <1>11, <1>12,
           <1>13, <1>14, <1>15 DEF Next

\* The inductive invariant.
LEMMA PoolInvariant == Spec => []PoolInv
<1>1. Init => PoolInv
  BY PoolAssumption DEF Init, PoolInv, TypeOK, OneRow, Drawn, AllBacked, CurOK, UsedOnDisk,
     OneTime, Burnt, NO_PREKEY
<1>2. PoolInv /\ [Next]_vars => PoolInv'
  BY TypeStep, OneRowStep, DrawnStep, BackedStep, CurStep, UsedStep, OneTimeStep DEF PoolInv
<1> QED BY <1>1, <1>2, PTL DEF Spec

\* Commit before publish (generate_pool, refresh_prekeys): whatever fails, a
\* published key that nobody used has its private half on disk.
THEOREM BackedHolds == Spec => []Backed
<1>1. PoolInv => Backed
  BY DEF PoolInv, AllBacked, Backed
<1> QED BY <1>1, PoolInvariant, PTL

\* A message under a prekey fails to open only because its key was used by
\* another message or expired, for any id space: random ids that repeat after
\* their row is gone never hand out a wrong key.
THEOREM OnlyBurntOrExpiredHolds == Spec => []OnlyBurntOrExpired
<1>1. PoolInv => OnlyBurntOrExpired
  <2> SUFFICES ASSUME PoolInv, NEW m \in Msgs, pid[m] # NO_PREKEY, seal[m] \notin Burnt,
                      ~(life[seal[m]] <= now)
               PROVE  CanOpen(m)
    BY DEF OnlyBurntOrExpired
  <2>1. seal[m] \in Keys /\ HasRow(pid[m], seal[m])
    BY DEF PoolInv, AllBacked, TypeOK
  <2>2. life[seal[m]] > now
    BY <2>1 DEF PoolInv, TypeOK
  <2> QED BY <2>1, <2>2 DEF CanOpen, Fetched, HasRow
<1> QED BY <1>1, PoolInvariant, PTL

\* One-time use of prekeys: PrekeyStore::consume deletes the key a message was
\* opened with before another message can be opened with it.
THEOREM OneTimeHolds == Spec => []OneTime
BY PoolInvariant, PTL DEF PoolInv

\* The model's variables keep their shape: rows, records and messages as the
\* schema of prekeys.rs and the manifest declare them.
THEOREM TypeCorrect == Spec => []TypeOK
BY PoolInvariant, PTL DEF PoolInv

\* unpublish_prekey: the exact-value delete of get_wire's record takes the
\* record of the key just used and no other, however ids repeat.
THEOREM WithdrawsOnlyUsedHolds == Spec => WithdrawsOnlyUsed
<1>1. Init => WireOK
  BY DEF Init, WireOK
<1>2. PoolInv /\ WireOK /\ [Next]_vars => WireOK'
  BY WireStep DEF PoolInv
<1>3. ASSUME PoolInv, WireOK, [Next]_vars
      PROVE  \A a \in rrset : a \in rrset' \/ a.key \in Burnt
  <2> USE DEF refreshVars, sendVars, recvVars
  <2>1. ASSUME NEW m \in Msgs, Unpublish(m), NEW a \in Withdrawn(pid[m]), a \in rrset
        PROVE  a.key \in Burnt
    <3>1. PICK r \in store : r.id = pid[m] /\ a.key = r.wire
      BY <2>1 DEF Withdrawn
    <3>2. a.key \in Keys /\ NoKey \notin Keys
      BY PoolAssumption, <1>3, <2>1 DEF PoolInv, TypeOK, Records
    <3>3. a.key = r.key
      BY <1>3, <3>1, <3>2 DEF WireOK
    <3>4. m \in opened /\ HasRow(pid[m], seal[m])
      BY <1>3, <2>1 DEF Unpublish, PoolInv, CurOK
    <3>5. r.key = seal[m]
      BY <1>3, <3>1, <3>4 DEF HasRow, PoolInv, OneRow
    <3> QED BY <3>3, <3>4, <3>5 DEF Burnt
  <2>2. ASSUME NEW m \in Msgs, Unpublish(m)
        PROVE  \A a \in rrset : a \in rrset' \/ a.key \in Burnt
    BY <2>1, <2>2 DEF Unpublish
  <2>3. ASSUME ~(\E m \in Msgs : Unpublish(m))
        PROVE  rrset \subseteq rrset'
    BY <1>3, <2>3 DEF Next, vars, Tick, GeneratePool, Publish, PublishRefused, PublishFails,
       RecordWire, RefreshDies, Pick, PickNone, Send, Open, Consume, ReceiverDies
  <2> QED BY <2>2, <2>3
<1> QED BY <1>1, <1>2, <1>3, PoolInvariant, PTL DEF Spec, WithdrawsOnlyUsed
=============================================================================
