--------------------------- MODULE AccountProofs ---------------------------
(***************************************************************************)
(* Theorems about Account for every set of passphrases and names and any   *)
(* number of failures and kills.                                           *)
(***************************************************************************)
EXTENDS Account, TLAPS

\* What a running command has read and found, beside the types.
LoadedOK ==
    /\ cmd.pc # "idle" => cmd.pass \in Passwords /\ cmd.new \in Passwords
    /\ cmd.pc \in {"idle", "load"} => cmd.conf = Absent
    /\ cmd.pc \in {"open", "save", "reread", "confirm", "keep", "announce", "renew", "delete"}
          => cmd.conf.state = "saved"

\* An init still works on a home without a config, and knows what database it
\* found there.
InitAlone ==
    cmd.op = "init" =>
        /\ cmd.pc = "load" => salts < MaxSalts \/ cfg # Absent
        /\ cmd.pc \in {"open", "save"} => cfg = Absent
        /\ cmd.pc = "open" => db = cmd.had
        /\ cmd.pc = "save" => db = {MyKey}
        /\ cmd.had # {} => db = cmd.had

\* Until it has opened the database or saved the config, another command works
\* with the salt that is in the file.
SameSalt ==
    cmd.op # "init" /\ cmd.pc \in {"open", "confirm", "keep", "save"} =>
        cfg.state = "saved" /\ cfg.salt = cmd.conf.salt

\* identity publish and rotate have the database open.
PublishOpened == cmd.op \in {"publish", "rotate"} /\ cmd.pc = "announce" => db = {MyKey}

AccountInv == TypeOK /\ LoadedOK /\ InitAlone /\ SameSalt /\ SaltKept /\ PublishOpened

\* A configuration that was saved has a salt that was drawn.
LEMMA SavedSalt ==
  ASSUME NEW c \in Configs, c.state = "saved"
  PROVE  c.salt \in 1..MaxSalts /\ c.dests \in Dests /\ c = Saved(c.salt, c.dests)
BY DEF Configs, Absent, Torn, Saved

\* What Saved makes is a configuration.
LEMMA SavedConfig ==
  ASSUME NEW s \in 1..MaxSalts, NEW d \in Dests
  PROVE  /\ Saved(s, d) \in Configs /\ Saved(s, d) # Absent
         /\ Saved(s, d).state = "saved" /\ Saved(s, d).salt = s /\ Saved(s, d).dests = d
BY DEF Configs, Absent, Torn, Saved

\* The other configurations.
LEMMA OtherConfigs ==
  /\ Absent \in Configs /\ Torn \in Configs /\ Absent # Torn
  /\ Absent.state = "absent" /\ Torn.state = "torn"
  /\ Absent.dests = {} /\ {} \in Dests
BY DEF Configs, Absent, Torn, Dests

\* No command is running.
LEMMA NoneOK ==
  /\ None \in Commands
  /\ None.op = "none" /\ None.pc = "idle" /\ None.conf = Absent
BY OtherConfigs DEF None, Commands, Pcs, AtMostOne

\* Going on leaves the other fields of the command alone.
LEMMA GoOK ==
  ASSUME cmd \in Commands, NEW pc \in Pcs, Go(pc)
  PROVE  /\ cmd' \in Commands /\ cmd'.pc = pc
         /\ cmd'.op = cmd.op /\ cmd'.pass = cmd.pass /\ cmd'.new = cmd.new
         /\ cmd'.force = cmd.force /\ cmd'.conf = cmd.conf /\ cmd'.had = cmd.had
         /\ cmd'.todo = cmd.todo /\ cmd'.swept = cmd.swept
BY DEF Go, Commands

\* The parts of a command have their types.
LEMMA CmdFields ==
  ASSUME TypeOK
  PROVE  /\ cmd.op \in Ops \cup {"none"} /\ cmd.pc \in Pcs /\ cmd.conf \in Configs
         /\ cmd.pass \in Passwords \cup {NoPassword} /\ cmd.new \in Passwords \cup {NoPassword}
         /\ cmd.force \in BOOLEAN /\ cmd.had \in AtMostOne(Keys)
         /\ cmd.todo \subseteq Names /\ cmd.swept \in Nat
BY DEF TypeOK, Commands

\* A command that has read a config works with a key of a salt in use.
LEMMA MyKeyOK ==
  ASSUME TypeOK, LoadedOK,
         cmd.pc \in {"open", "save", "reread", "confirm", "keep", "announce", "renew", "delete"}
  PROVE  MyKey \in Keys /\ Key(cmd.conf.salt, cmd.new) \in Keys
BY SavedSalt, CmdFields DEF LoadedOK, MyKey, Key, Keys

\* A failed opening leaves at most the database it was to open, and the one that
\* init found.
LEMMA FailedOpen ==
  ASSUME TypeOK, InitAlone, cmd.pc = "open", \E d \in Attempted : db' \in Discard(d)
  PROVE  /\ db' \subseteq db \cup {MyKey}
         /\ cmd.op = "init" /\ cmd.had # {} => db' = cmd.had
<1>1. PICK d \in Attempted : db' \in Discard(d)
  OBVIOUS
<1>2. d \subseteq db \cup {MyKey} /\ (db # {} => d = db)
  BY <1>1 DEF Attempted, Opens
<1>3. db' \in {{}, d} /\ (cmd.op = "init" /\ cmd.had # {} => db' = d /\ db = cmd.had)
  BY <1>1 DEF Discard, InitAlone
<1> QED BY <1>2, <1>3

\* Faults are counted up to the bound.
LEMMA FaultOK ==
  ASSUME faults \in 0..MaxFaults, Fault \/ UNCHANGED faults
  PROVE  faults' \in 0..MaxFaults
BY AccountAssumption DEF Fault

\* Every step keeps the types.
LEMMA TypeStep ==
  ASSUME TypeOK, LoadedOK, InitAlone, [Next]_vars
  PROVE  TypeOK'
<1> USE AccountAssumption DEF TypeOK
<1>1. CASE UNCHANGED vars
  BY <1>1 DEF vars, files
<1>2. ASSUME NEW op \in Ops, NEW p \in Passwords, NEW q \in Passwords, NEW f \in BOOLEAN,
             Begin(op, p, q, f)
      PROVE  TypeOK'
  <2>1. cmd' = [op |-> op, pc |-> "load", pass |-> p, new |-> q, force |-> f, conf |-> None.conf,
                had |-> None.had, todo |-> None.todo, swept |-> None.swept]
    BY <1>2 DEF Begin, None
  <2>2. cmd' \in Commands
    BY <2>1, NoneOK DEF Commands, Pcs
  <2> QED
    BY <1>2, <2>2 DEF Begin, files
<1>3. CASE Return
  BY <1>3, NoneOK DEF Return, files
<1>4. CASE LoadInit
  <2>1. CASE cfg # Absent
    BY <1>4, <2>1, GoOK DEF LoadInit, Pcs, files
  <2>2. CASE cfg = Absent
    <3>1. salts' \in 1..MaxSalts
      BY <1>4, <2>2 DEF LoadInit, InitAlone
    <3>2. Saved(salts', {}) \in Configs
      BY <3>1, SavedConfig, OtherConfigs
    <3>3. cmd' = [cmd EXCEPT !.pc = "open", !.conf = Saved(salts', {}), !.had = db]
      BY <1>4, <2>2 DEF LoadInit
    <3>4. cmd \in Commands /\ "open" \in Pcs /\ db \in AtMostOne(Keys)
      BY DEF TypeOK, Pcs
    <3>5. cmd' \in Commands
      BY <3>2, <3>3, <3>4 DEF Commands
    <3> QED BY <1>4, <2>2, <3>1, <3>5 DEF LoadInit, files
  <2> QED BY <2>1, <2>2
<1>5. CASE LoadClient
  <2>1. CASE \E pc \in Pcs : Go(pc)
    BY <1>5, <2>1, GoOK DEF LoadClient, files
  <2>2. CASE cmd' = [cmd EXCEPT !.pc = "open", !.conf = cfg]
    BY <1>5, <2>2, CmdFields DEF LoadClient, Commands, Pcs, files
  <2> QED BY <1>5, <2>1, <2>2 DEF LoadClient, Pcs
<1>6. CASE LoadRegister
  <2>1. CASE \E pc \in Pcs : Go(pc)
    BY <1>6, <2>1, GoOK DEF LoadRegister, files
  <2>2. CASE cmd' = [cmd EXCEPT !.pc = "confirm", !.conf = cfg]
    BY <1>6, <2>2, CmdFields DEF LoadRegister, Commands, Pcs, files
  <2> QED BY <1>6, <2>1, <2>2 DEF LoadRegister, Pcs
<1>7. CASE LoadPurge
  BY <1>7, GoOK DEF LoadPurge, Pcs, files
<1>8. CASE OpenDb
  <2>1. Attempted \subseteq AtMostOne(Keys)
    BY <1>8, MyKeyOK DEF OpenDb, Attempted, AtMostOne
  <2>2. CASE /\ IF Opens(MyKey) THEN Fault ELSE UNCHANGED faults
             /\ \E d \in Attempted : db' \in Discard(d)
             /\ Go("failed")
    <3>1. cmd' \in Commands
      BY <2>2, GoOK DEF Pcs
    <3>2. faults' \in 0..MaxFaults
      BY <2>2, FaultOK
    <3>3. db' \in AtMostOne(Keys)
      BY <2>1, <2>2 DEF Discard, AtMostOne
    <3> QED BY <1>8, <2>2, <3>1, <3>2, <3>3 DEF OpenDb
  <2>3. CASE /\ Opens(MyKey) /\ db' = db \cup {MyKey}
             /\ cmd' = [cmd EXCEPT !.pc = AfterOpen, !.todo = Names]
             /\ UNCHANGED faults
    <3>1. db' = {MyKey} /\ db' \in AtMostOne(Keys)
      BY <1>8, <2>3, MyKeyOK DEF OpenDb, Opens, AtMostOne
    <3>2. AfterOpen \in Pcs
      BY DEF AfterOpen, Pcs
    <3>3. cmd' \in Commands
      BY <2>3, <3>2 DEF Commands
    <3> QED BY <1>8, <2>3, <3>1, <3>3 DEF OpenDb
  <2> QED BY <1>8, <2>2, <2>3 DEF OpenDb
<1>9. CASE SaveInit
  <2>1. Discard(db) \subseteq AtMostOne(Keys)
    BY DEF Discard, AtMostOne
  <2> QED BY <1>9, <2>1, GoOK, CmdFields, OtherConfigs DEF SaveInit, Fault, Pcs
<1>10. CASE Confirm
  <2>1. {MyKey} \in AtMostOne(Keys)
    BY <1>10, MyKeyOK DEF Confirm, AtMostOne
  <2>2. cmd' \in Commands
    BY <1>10, GoOK DEF Confirm, Pcs
  <2>3. faults' \in 0..MaxFaults
    BY <1>10, FaultOK DEF Confirm
  <2> QED BY <1>10, <2>1, <2>2, <2>3 DEF Confirm, files
<1>11. CASE KeepSecret
  <2>1. cmd' \in Commands
    BY <1>11, GoOK DEF KeepSecret, Pcs
  <2>2. faults' \in 0..MaxFaults
    BY <1>11, FaultOK DEF KeepSecret
  <2>3. secret' \in BOOLEAN /\ token' \in BOOLEAN
    BY <1>11 DEF KeepSecret
  <2> QED BY <1>11, <2>1, <2>2, <2>3 DEF KeepSecret
<1>12. CASE SaveTsig
  <2>1. WithPublish \in Configs
    BY <1>12, SavedSalt, SavedConfig, CmdFields DEF SaveTsig, LoadedOK, WithPublish, Dests
  <2> QED BY <1>12, <2>1, GoOK, OtherConfigs DEF SaveTsig, Fault, Pcs
<1>13. CASE Publish
  <2>1. CASE (Go("done") \/ Go("failed")) /\ (Fault \/ UNCHANGED faults) /\ UNCHANGED zone
    <3>1. cmd' \in Commands
      BY <2>1, GoOK DEF Pcs
    <3> QED BY <1>13, <2>1, <3>1, FaultOK DEF Publish, files
  <2>2. ASSUME NEW n \in cmd.todo \cap Announced,
               zone' = zone \cup {<<n, MyKey>>}, cmd' = [cmd EXCEPT !.todo = @ \ {n}],
               UNCHANGED faults
        PROVE  TypeOK'
    <3>1. zone' \subseteq Names \X Keys
      BY <1>13, <2>2, MyKeyOK, CmdFields DEF Publish
    <3>2. cmd.todo \ {n} \in SUBSET Names
      BY CmdFields
    <3>3. cmd' \in Commands
      BY <2>2, <3>2 DEF Commands
    <3> QED BY <1>13, <2>2, <3>1, <3>3 DEF Publish, files
  <2> QED BY <1>13, <2>1, <2>2 DEF Publish
<1>14. CASE Rotate
  <2>1. zone' \subseteq Names \X Keys
    BY <1>14, MyKeyOK, AccountAssumption DEF Rotate
  <2> QED BY <1>14, <2>1, GoOK DEF Rotate, Fault, Pcs, files
<1>15. CASE Renew
  <2>1. zone' \subseteq Names \X Keys
    BY <1>15, MyKeyOK, AccountAssumption DEF Renew
  <2> QED BY <1>15, <2>1, GoOK, CmdFields DEF Renew, Fault, Pcs, files
<1>16. CASE Delete
  <2>1. cmd' \in Commands
    <3>1. PICK n \in cmd.todo :
              \/ cmd' = [cmd EXCEPT !.todo = @ \ {n}, !.swept = @ + 1]
              \/ cmd' = [cmd EXCEPT !.todo = @ \ {n}]
      BY <1>16 DEF Delete
    <3>2. cmd.todo \ {n} \in SUBSET Names /\ cmd.swept + 1 \in Nat
      BY CmdFields
    <3> QED BY <3>1, <3>2 DEF Commands
  <2>2. faults' \in 0..MaxFaults
    BY <1>16, FaultOK DEF Delete
  <2> QED BY <1>16, <2>1, <2>2 DEF Delete, files
<1>17. CASE Swept
  BY <1>17, GoOK DEF Swept, Pcs, files
<1>18. CASE Wipe
  BY <1>18, GoOK, OtherConfigs DEF Wipe, Fault, Pcs
<1>19. CASE WipeRest
  <2>1. cmd' \in Commands
    BY <1>19, GoOK DEF WipeRest, Pcs
  <2>2. faults' \in 0..MaxFaults
    BY <1>19, FaultOK DEF WipeRest
  <2>3. secret' \in BOOLEAN /\ token' \in BOOLEAN
    BY <1>19 DEF WipeRest
  <2>4. db' \in AtMostOne(Keys)
    BY <1>19 DEF WipeRest, AtMostOne
  <2> QED BY <1>19, <2>1, <2>2, <2>3, <2>4 DEF WipeRest
<1>20. CASE Kill
  BY <1>20, NoneOK, OtherConfigs DEF Kill, Fault
<1>21. CASE Edit
  <2>1. PICK d \in Dests : cfg' = Saved(cfg.salt, d)
    BY <1>21 DEF Edit
  <2>2. cfg' \in Configs
    BY <1>21, <2>1, SavedSalt, SavedConfig DEF Edit
  <2> QED BY <1>21, <2>2 DEF Edit
<1>22. CASE Reread
  BY <1>22, GoOK, FaultOK DEF Reread, Pcs, files
<1> QED BY <1>1, <1>2, <1>3, <1>4, <1>5, <1>6, <1>7, <1>8, <1>9, <1>10, <1>11, <1>12, <1>13, <1>14, <1>15, <1>16, <1>17, <1>18, <1>19, <1>20, <1>21, <1>22 DEF Next

\* What a command has read and found survives every step.
LEMMA LoadedStep ==
  ASSUME TypeOK, LoadedOK, [Next]_vars
  PROVE  LoadedOK'
<1> USE CmdFields DEF LoadedOK, Pcs, files
<1>1. CASE UNCHANGED vars
  BY <1>1 DEF vars, MyKey
<1>2. ASSUME NEW op \in Ops, NEW p \in Passwords, NEW q \in Passwords, NEW f \in BOOLEAN,
             Begin(op, p, q, f)
      PROVE  LoadedOK'
  BY <1>2 DEF Begin, None
<1>3. CASE Return
  BY <1>3, NoneOK DEF Return, TypeOK
<1>4. CASE LoadInit
  <2>1. CASE Go("failed") /\ cfg # Absent /\ UNCHANGED salts
    BY <1>4, <2>1, GoOK DEF LoadInit, TypeOK
  <2>2. CASE /\ cfg = Absent /\ salts' = salts + 1
             /\ cmd' = [cmd EXCEPT !.pc = "open", !.conf = Saved(salts', {}), !.had = db]
    <3>1. /\ cmd'.op = "init" /\ cmd'.pc = "open" /\ cmd'.pass = cmd.pass /\ cmd'.new = cmd.new
          /\ cmd'.conf = Saved(salts', {}) /\ cmd'.had = db
      BY <1>4, <2>2 DEF LoadInit, TypeOK, Commands
    <3> QED BY <1>4, <2>2, <3>1, OtherConfigs DEF LoadInit, Saved
  <2> QED BY <1>4, <2>1, <2>2 DEF LoadInit
<1>5. CASE LoadClient
  BY <1>5, GoOK DEF LoadClient, Readable, Commands, TypeOK
<1>6. CASE LoadRegister
  BY <1>6, GoOK DEF LoadRegister, Commands, TypeOK
<1>7. CASE LoadPurge
  BY <1>7, GoOK DEF LoadPurge, TypeOK
<1>8. CASE OpenDb
  BY <1>8, GoOK DEF OpenDb, Opens, Attempted, Discard, AfterOpen, Commands, TypeOK
<1>9. CASE SaveInit
  BY <1>9, GoOK DEF SaveInit, Discard, TypeOK
<1>10. CASE Confirm
  BY <1>10, GoOK DEF Confirm, TypeOK
<1>11. CASE KeepSecret
  BY <1>11, GoOK DEF KeepSecret, TypeOK
<1>12. CASE SaveTsig
  BY <1>12, GoOK, OtherConfigs DEF SaveTsig, WithPublish, Saved, TypeOK
<1>13. CASE Publish
  BY <1>13, GoOK DEF Publish, Commands, TypeOK
<1>14. CASE Rotate
  BY <1>14, GoOK DEF Rotate, TypeOK
<1>15. CASE Renew
  BY <1>15, GoOK DEF Renew, TypeOK
<1>16. CASE Delete
  BY <1>16 DEF Delete, Commands, TypeOK
<1>17. CASE Swept
  BY <1>17, GoOK DEF Swept, TypeOK
<1>18. CASE Wipe
  BY <1>18, GoOK DEF Wipe, TypeOK
<1>19. CASE WipeRest
  BY <1>19, GoOK DEF WipeRest, TypeOK
<1>20. CASE Kill
  BY <1>20, NoneOK DEF Kill, TypeOK
<1>21. CASE Edit
  BY <1>21 DEF Edit, Saved, TypeOK
<1>22. CASE Reread
  BY <1>22, GoOK DEF Reread, TypeOK
<1> QED BY <1>1, <1>2, <1>3, <1>4, <1>5, <1>6, <1>7, <1>8, <1>9, <1>10, <1>11, <1>12, <1>13, <1>14, <1>15, <1>16, <1>17, <1>18, <1>19, <1>20, <1>21, <1>22 DEF Next

\* A running init stays alone with its database.
LEMMA InitStep ==
  ASSUME TypeOK, LoadedOK, InitAlone, [Next]_vars
  PROVE  InitAlone'
<1> USE CmdFields DEF InitAlone, Pcs, files
<1>1. CASE UNCHANGED vars
  BY <1>1 DEF vars, MyKey
<1>2. ASSUME NEW op \in Ops, NEW p \in Passwords, NEW q \in Passwords, NEW f \in BOOLEAN,
             Begin(op, p, q, f)
      PROVE  InitAlone'
  BY <1>2 DEF Begin, None
<1>3. CASE Return
  BY <1>3, NoneOK DEF Return, TypeOK
<1>4. CASE LoadInit
  BY <1>4, GoOK, OtherConfigs DEF LoadInit, Saved, Commands, TypeOK
<1>5. CASE LoadClient
  <2>1. CASE \E pc \in {"failed", "wipe"} : Go(pc)
    BY <1>5, <2>1, GoOK, OtherConfigs DEF LoadClient, ClientOps, TypeOK
  <2>2. CASE Readable /\ cmd' = [cmd EXCEPT !.pc = "open", !.conf = cfg]
    <3>1. /\ cmd'.op = cmd.op /\ cmd'.pc = "open" /\ cmd'.conf = cfg
          /\ cmd'.pass = cmd.pass /\ cmd'.new = cmd.new
      BY <1>5, <2>2 DEF LoadClient, TypeOK, Commands
    <3> QED BY <1>5, <2>2, <3>1 DEF LoadClient, ClientOps, Readable
  <2> QED BY <1>5, <2>1, <2>2 DEF LoadClient
<1>6. CASE LoadRegister
  BY <1>6, GoOK DEF LoadRegister, Commands, TypeOK
<1>7. CASE LoadPurge
  BY <1>7, GoOK DEF LoadPurge, TypeOK
<1>8. CASE OpenDb
  <2>1. CASE Go("failed") /\ \E d \in Attempted : db' \in Discard(d)
    <3>1. cmd'.pc = "failed" /\ cmd'.op = cmd.op /\ cmd'.had = cmd.had
      BY <2>1, GoOK DEF TypeOK
    <3> QED BY <1>8, <2>1, <3>1, FailedOpen DEF OpenDb
  <2>2. CASE /\ Opens(MyKey) /\ db' = db \cup {MyKey}
             /\ cmd' = [cmd EXCEPT !.pc = AfterOpen, !.todo = Names]
    <3>1. /\ cmd'.op = cmd.op /\ cmd'.pc = AfterOpen /\ cmd'.conf = cmd.conf
          /\ cmd'.pass = cmd.pass /\ cmd'.had = cmd.had
      BY <2>2 DEF TypeOK, Commands
    <3>2. MyKey' = MyKey /\ db' = {MyKey} /\ db \in {{}, {MyKey}}
      BY <2>2, <3>1 DEF MyKey, Opens
    <3> QED BY <1>8, <2>2, <3>1, <3>2 DEF OpenDb, AfterOpen, MyKey, Key
  <2> QED BY <1>8, <2>1, <2>2 DEF OpenDb
<1>9. CASE SaveInit
  BY <1>9, GoOK DEF SaveInit, Discard, TypeOK
<1>10. CASE Confirm
  BY <1>10, GoOK DEF Confirm, TypeOK
<1>11. CASE KeepSecret
  BY <1>11, GoOK DEF KeepSecret, TypeOK
<1>12. CASE SaveTsig
  BY <1>12, GoOK, OtherConfigs DEF SaveTsig, WithPublish, Saved, TypeOK
<1>13. CASE Publish
  BY <1>13, GoOK DEF Publish, Commands, TypeOK
<1>14. CASE Rotate
  BY <1>14, GoOK DEF Rotate, TypeOK
<1>15. CASE Renew
  BY <1>15, GoOK DEF Renew, TypeOK
<1>16. CASE Delete
  BY <1>16 DEF Delete, Commands, TypeOK
<1>17. CASE Swept
  BY <1>17, GoOK DEF Swept, TypeOK
<1>18. CASE Wipe
  BY <1>18, GoOK DEF Wipe, TypeOK
<1>19. CASE WipeRest
  BY <1>19, GoOK DEF WipeRest, TypeOK
<1>20. CASE Kill
  BY <1>20, NoneOK DEF Kill, TypeOK
<1>21. CASE Edit
  BY <1>21, OtherConfigs DEF Edit, Saved, MyKey
<1>22. CASE Reread
  BY <1>22, GoOK DEF Reread, TypeOK
<1> QED BY <1>1, <1>2, <1>3, <1>4, <1>5, <1>6, <1>7, <1>8, <1>9, <1>10, <1>11, <1>12, <1>13, <1>14, <1>15, <1>16, <1>17, <1>18, <1>19, <1>20, <1>21, <1>22 DEF Next

\* The salt in the file stays that of the running command.
LEMMA SameSaltStep ==
  ASSUME TypeOK, LoadedOK, InitAlone, SameSalt, [Next]_vars
  PROVE  SameSalt'
<1> USE CmdFields DEF SameSalt, Pcs, files
<1>1. CASE UNCHANGED vars
  BY <1>1 DEF vars, MyKey
<1>2. ASSUME NEW op \in Ops, NEW p \in Passwords, NEW q \in Passwords, NEW f \in BOOLEAN,
             Begin(op, p, q, f)
      PROVE  SameSalt'
  BY <1>2 DEF Begin, None
<1>3. CASE Return
  BY <1>3, NoneOK DEF Return, TypeOK
<1>4. CASE LoadInit
  BY <1>4, GoOK, OtherConfigs DEF LoadInit, Saved, Commands, TypeOK
<1>5. CASE LoadClient
  BY <1>5, GoOK DEF LoadClient, Readable, Commands, TypeOK
<1>6. CASE LoadRegister
  BY <1>6, GoOK DEF LoadRegister, Commands, TypeOK
<1>7. CASE LoadPurge
  BY <1>7, GoOK DEF LoadPurge, TypeOK
<1>8. CASE OpenDb
  BY <1>8, GoOK DEF OpenDb, Opens, Attempted, Discard, AfterOpen, Commands, TypeOK
<1>9. CASE SaveInit
  BY <1>9, GoOK DEF SaveInit, Discard, TypeOK
<1>10. CASE Confirm
  BY <1>10, GoOK DEF Confirm, TypeOK
<1>11. CASE KeepSecret
  BY <1>11, GoOK DEF KeepSecret, TypeOK
<1>12. CASE SaveTsig
  BY <1>12, GoOK, OtherConfigs DEF SaveTsig, WithPublish, Saved, TypeOK
<1>13. CASE Publish
  BY <1>13, GoOK DEF Publish, Commands, TypeOK
<1>14. CASE Rotate
  BY <1>14, GoOK DEF Rotate, TypeOK
<1>15. CASE Renew
  BY <1>15, GoOK DEF Renew, TypeOK
<1>16. CASE Delete
  BY <1>16 DEF Delete, Commands, TypeOK
<1>17. CASE Swept
  BY <1>17, GoOK DEF Swept, TypeOK
<1>18. CASE Wipe
  BY <1>18, GoOK DEF Wipe, TypeOK
<1>19. CASE WipeRest
  BY <1>19, GoOK DEF WipeRest, TypeOK
<1>20. CASE Kill
  BY <1>20, NoneOK DEF Kill, TypeOK
<1>21. CASE Edit
  BY <1>21 DEF Edit, Saved, TypeOK
<1>22. CASE Reread
  BY <1>22, GoOK DEF Reread, TypeOK
<1> QED BY <1>1, <1>2, <1>3, <1>4, <1>5, <1>6, <1>7, <1>8, <1>9, <1>10, <1>11, <1>12, <1>13, <1>14, <1>15, <1>16, <1>17, <1>18, <1>19, <1>20, <1>21, <1>22 DEF Next

\* No step parts the database from its salt.
LEMMA SaltStep ==
  ASSUME TypeOK, LoadedOK, InitAlone, SameSalt, SaltKept, [Next]_vars
  PROVE  SaltKept'
<1> USE CmdFields DEF SaltKept, Pcs, files
<1>1. CASE UNCHANGED vars
  BY <1>1 DEF vars, MyKey
<1>2. ASSUME NEW op \in Ops, NEW p \in Passwords, NEW q \in Passwords, NEW f \in BOOLEAN,
             Begin(op, p, q, f)
      PROVE  SaltKept'
  BY <1>2 DEF Begin, None
<1>3. CASE Return
  BY <1>3, NoneOK DEF Return, TypeOK
<1>4. CASE LoadInit
  <2>1. CASE Go("failed") /\ cfg # Absent /\ UNCHANGED salts
    BY <1>4, <2>1, GoOK DEF LoadInit, TypeOK, LoadedOK
  <2>2. CASE /\ cfg = Absent /\ salts' = salts + 1
             /\ cmd' = [cmd EXCEPT !.pc = "open", !.conf = Saved(salts', {}), !.had = db]
    <3>1. /\ cmd'.op = "init" /\ cmd'.pc = "open" /\ cmd'.pass = cmd.pass /\ cmd'.new = cmd.new
          /\ cmd'.conf = Saved(salts', {}) /\ cmd'.had = db
      BY <1>4, <2>2 DEF LoadInit, TypeOK, Commands
    <3> QED BY <1>4, <2>2, <3>1, OtherConfigs DEF LoadInit, Saved
  <2> QED BY <1>4, <2>1, <2>2 DEF LoadInit
<1>5. CASE LoadClient
  <2>1. CASE \E pc \in {"failed", "wipe"} : Go(pc)
    BY <1>5, <2>1, GoOK, OtherConfigs DEF LoadClient, ClientOps, TypeOK
  <2>2. CASE Readable /\ cmd' = [cmd EXCEPT !.pc = "open", !.conf = cfg]
    <3>1. /\ cmd'.op = cmd.op /\ cmd'.pc = "open" /\ cmd'.conf = cfg
          /\ cmd'.pass = cmd.pass /\ cmd'.new = cmd.new
      BY <1>5, <2>2 DEF LoadClient, TypeOK, Commands
    <3> QED BY <1>5, <2>2, <3>1 DEF LoadClient, ClientOps, Readable
  <2> QED BY <1>5, <2>1, <2>2 DEF LoadClient
<1>6. CASE LoadRegister
  BY <1>6, GoOK DEF LoadRegister, Commands, TypeOK
<1>7. CASE LoadPurge
  BY <1>7, GoOK DEF LoadPurge, TypeOK
<1>8. CASE OpenDb
  <2>1. CASE Go("failed") /\ \E d \in Attempted : db' \in Discard(d)
    <3>1. cmd'.pc = "failed" /\ cmd'.op = cmd.op /\ cmd'.had = cmd.had
      BY <2>1, GoOK DEF TypeOK
    <3>2. MyKey[1] = cmd.conf.salt
      BY DEF MyKey, Key
    <3>3. cfg.state = "saved" => cfg.salt = cmd.conf.salt
      BY <1>8, OtherConfigs DEF OpenDb, InitAlone, SameSalt
    <3>4. UNCHANGED cfg
      BY <1>8 DEF OpenDb
    <3> QED BY <1>8, <2>1, <3>1, <3>2, <3>3, <3>4, FailedOpen DEF OpenDb
  <2>2. CASE /\ Opens(MyKey) /\ db' = db \cup {MyKey}
             /\ cmd' = [cmd EXCEPT !.pc = AfterOpen, !.todo = Names]
    <3>1. /\ cmd'.op = cmd.op /\ cmd'.pc = AfterOpen /\ cmd'.conf = cmd.conf
          /\ cmd'.pass = cmd.pass /\ cmd'.had = cmd.had
      BY <2>2 DEF TypeOK, Commands
    <3>2. MyKey' = MyKey /\ db' = {MyKey} /\ db \in {{}, {MyKey}}
      BY <2>2, <3>1 DEF MyKey, Opens
    <3>3. cmd'.pc # "failed"
      BY <3>1 DEF AfterOpen
    <3>4. cfg.state = "saved" => cfg.salt = cmd.conf.salt
      BY <1>8, OtherConfigs DEF OpenDb, InitAlone, SameSalt
    <3>5. UNCHANGED cfg
      BY <1>8 DEF OpenDb
    <3> QED BY <1>8, <2>2, <3>1, <3>2, <3>3, <3>4, <3>5 DEF MyKey, Key
  <2> QED BY <1>8, <2>1, <2>2 DEF OpenDb
<1>9. CASE SaveInit
  <2>1. CASE cfg' = cmd.conf /\ Go("reread") /\ UNCHANGED db
    BY <1>9, <2>1, GoOK DEF SaveInit, InitAlone, MyKey, Key, TypeOK
  <2>2. CASE cfg' \in {cfg, Torn} /\ db' \in Discard(db) /\ Go("failed")
    BY <1>9, <2>2, GoOK, OtherConfigs DEF SaveInit, InitAlone, Discard, TypeOK
  <2> QED BY <1>9, <2>1, <2>2 DEF SaveInit
<1>10. CASE Confirm
  BY <1>10, GoOK DEF Confirm, TypeOK
<1>11. CASE KeepSecret
  BY <1>11, GoOK DEF KeepSecret, TypeOK
<1>12. CASE SaveTsig
  <2>1. cfg' \in {cfg, Torn, WithPublish}
    BY <1>12 DEF SaveTsig
  <2>2. cmd'.op = "tsig" /\ UNCHANGED db
    BY <1>12, GoOK DEF SaveTsig, TypeOK
  <2> QED BY <1>12, <2>1, <2>2, OtherConfigs DEF SaveTsig, SameSalt, WithPublish, Saved
<1>13. CASE Publish
  BY <1>13, GoOK DEF Publish, Commands, TypeOK
<1>14. CASE Rotate
  BY <1>14, GoOK DEF Rotate, TypeOK
<1>15. CASE Renew
  BY <1>15, GoOK DEF Renew, TypeOK
<1>16. CASE Delete
  BY <1>16 DEF Delete, Commands, TypeOK
<1>17. CASE Swept
  BY <1>17, GoOK DEF Swept, TypeOK
<1>18. CASE Wipe
  BY <1>18, GoOK, OtherConfigs DEF Wipe, TypeOK
<1>19. CASE WipeRest
  BY <1>19, GoOK DEF WipeRest, TypeOK
<1>20. CASE Kill
  BY <1>20, NoneOK, OtherConfigs DEF Kill, TypeOK
<1>21. CASE Edit
  BY <1>21 DEF Edit, Saved, TypeOK
<1>22. CASE Reread
  BY <1>22, GoOK DEF Reread, TypeOK
<1> QED BY <1>1, <1>2, <1>3, <1>4, <1>5, <1>6, <1>7, <1>8, <1>9, <1>10, <1>11, <1>12, <1>13, <1>14, <1>15, <1>16, <1>17, <1>18, <1>19, <1>20, <1>21, <1>22 DEF Next

\* A publishing command keeps the database open under its key.
LEMMA PublishStep ==
  ASSUME TypeOK, PublishOpened, [Next]_vars
  PROVE  PublishOpened'
<1> USE CmdFields DEF PublishOpened, Pcs, files
<1>1. CASE UNCHANGED vars
  BY <1>1 DEF vars, MyKey
<1>2. ASSUME NEW op \in Ops, NEW p \in Passwords, NEW q \in Passwords, NEW f \in BOOLEAN,
             Begin(op, p, q, f)
      PROVE  PublishOpened'
  BY <1>2 DEF Begin, None
<1>3. CASE Return
  BY <1>3, NoneOK DEF Return, TypeOK
<1>4. CASE LoadInit
  BY <1>4, GoOK, OtherConfigs DEF LoadInit, Saved, Commands, TypeOK
<1>5. CASE LoadClient
  BY <1>5, GoOK DEF LoadClient, Readable, Commands, TypeOK
<1>6. CASE LoadRegister
  BY <1>6, GoOK DEF LoadRegister, Commands, TypeOK
<1>7. CASE LoadPurge
  BY <1>7, GoOK DEF LoadPurge, TypeOK
<1>8. CASE OpenDb
  <2>1. CASE Go("failed") /\ \E d \in Attempted : db' \in Discard(d)
    BY <1>8, <2>1, GoOK DEF OpenDb, Attempted, Discard, TypeOK
  <2>2. CASE /\ Opens(MyKey) /\ db' = db \cup {MyKey}
             /\ cmd' = [cmd EXCEPT !.pc = AfterOpen, !.todo = Names]
    <3>1. /\ cmd'.op = cmd.op /\ cmd'.pc = AfterOpen /\ cmd'.conf = cmd.conf
          /\ cmd'.pass = cmd.pass /\ cmd'.had = cmd.had
      BY <2>2 DEF TypeOK, Commands
    <3>2. MyKey' = MyKey /\ db' = {MyKey} /\ db \in {{}, {MyKey}}
      BY <2>2, <3>1 DEF MyKey, Opens
    <3> QED BY <1>8, <2>2, <3>1, <3>2 DEF OpenDb, AfterOpen, MyKey, Key
  <2> QED BY <1>8, <2>1, <2>2 DEF OpenDb
<1>9. CASE SaveInit
  BY <1>9, GoOK DEF SaveInit, Discard, TypeOK
<1>10. CASE Confirm
  BY <1>10, GoOK DEF Confirm, TypeOK
<1>11. CASE KeepSecret
  BY <1>11, GoOK DEF KeepSecret, TypeOK
<1>12. CASE SaveTsig
  BY <1>12, GoOK, OtherConfigs DEF SaveTsig, WithPublish, Saved, TypeOK
<1>13. CASE Publish
  <2>1. cmd'.conf = cmd.conf /\ cmd'.pass = cmd.pass /\ UNCHANGED db
    BY <1>13, GoOK DEF Publish, TypeOK, Commands
  <2> QED BY <1>13, <2>1 DEF Publish, MyKey
<1>14. CASE Rotate
  BY <1>14, GoOK DEF Rotate, TypeOK
<1>15. CASE Renew
  BY <1>15, GoOK DEF Renew, TypeOK
<1>16. CASE Delete
  BY <1>16 DEF Delete, Commands, TypeOK
<1>17. CASE Swept
  BY <1>17, GoOK DEF Swept, TypeOK
<1>18. CASE Wipe
  BY <1>18, GoOK DEF Wipe, TypeOK
<1>19. CASE WipeRest
  BY <1>19, GoOK DEF WipeRest, TypeOK
<1>20. CASE Kill
  BY <1>20, NoneOK DEF Kill, TypeOK
<1>21. CASE Edit
  BY <1>21 DEF Edit, MyKey
<1>22. CASE Reread
  BY <1>22, GoOK DEF Reread, TypeOK
<1> QED BY <1>1, <1>2, <1>3, <1>4, <1>5, <1>6, <1>7, <1>8, <1>9, <1>10, <1>11, <1>12, <1>13, <1>14, <1>15, <1>16, <1>17, <1>18, <1>19, <1>20, <1>21, <1>22 DEF Next

\* The initial state.
LEMMA InitOK ==
  ASSUME Init
  PROVE  AccountInv
<1>1. TypeOK
  <2>1. {} \in AtMostOne(Keys)
    BY DEF AtMostOne
  <2>2. secret \in BOOLEAN /\ token \in BOOLEAN
    BY DEF Init
  <2> QED BY <2>1, <2>2, AccountAssumption, NoneOK, OtherConfigs DEF Init, TypeOK
<1>2. LoadedOK /\ InitAlone /\ SameSalt /\ SaltKept /\ PublishOpened
  BY NoneOK, OtherConfigs
     DEF Init, LoadedOK, InitAlone, SameSalt, SaltKept, PublishOpened
<1> QED BY <1>1, <1>2 DEF AccountInv

\* The invariant is inductive.
THEOREM AccountInvariant == Spec => []AccountInv
<1>1. AccountInv /\ [Next]_vars => AccountInv'
  BY TypeStep, LoadedStep, InitStep, SameSaltStep, SaltStep, PublishStep
     DEF AccountInv
<1> QED BY InitOK, <1>1, PTL DEF Spec

\* The config, the database and the records have their shapes; the database is
\* under one key and the node knows one key for the subject.
THEOREM TypeCorrect == Spec => []TypeOK
<1>1. AccountInv => TypeOK
  BY DEF AccountInv
<1> QED BY AccountInvariant, <1>1, PTL

\* The salt in the config is that of the database, and init leaves a database
\* that it finds alone, whatever fails or is killed (init.rs).
THEOREM SaltKeptHolds == Spec => []SaltKept
<1>1. AccountInv => SaltKept
  BY DEF AccountInv
<1> QED BY AccountInvariant, <1>1, PTL

\* identity publish and rotate sign with the key that opens the database.
THEOREM AnnouncesOwnKeyHolds == Spec => AnnouncesOwnKey
<1>1. ASSUME AccountInv, Next, NEW r \in zone' \ zone, cmd.op = "publish" \/ r[1] = Rotation
      PROVE  db = {r[2]}
  <2>1. CASE Publish
    BY <1>1, <2>1 DEF Publish, AccountInv, PublishOpened
  <2>2. CASE Rotate
    <3>1. r = <<Rotation, MyKey>> /\ db = {MyKey}
      BY <1>1, <2>2 DEF Rotate, AccountInv, PublishOpened
    <3> QED BY <3>1
  <2>3. CASE Renew
    <3>1. r = <<Identity, Key(cmd.conf.salt, cmd.new)>> /\ cmd.op = "rotate"
      BY <1>1, <2>3 DEF Renew
    <3> QED BY <1>1, <3>1, AccountAssumption
  <2>4. ASSUME ~Publish, ~Rotate, ~Renew PROVE zone' \subseteq zone
    BY <1>1, <2>4 DEF Next, Begin, Return, LoadInit, LoadClient, LoadRegister, LoadPurge,
       OpenDb, SaveInit, Reread, Confirm, KeepSecret, SaveTsig, Delete, Swept, Wipe,
       WipeRest, Kill, Edit
  <2> QED BY <1>1, <2>1, <2>2, <2>3, <2>4
<1>2. AccountInv /\ [Next]_vars =>
        [\A r \in zone' \ zone :
            cmd.op = "publish" \/ r[1] = Rotation => db = {r[2]}]_vars
  BY <1>1
<1> QED BY AccountInvariant, <1>2, PTL DEF Spec, AnnouncesOwnKey
=============================================================================
