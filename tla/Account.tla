------------------------------ MODULE Account ------------------------------
(***************************************************************************)
(* The life of an identity on one machine: what "dnsmesh init", "register",*)
(* "tsig register", "identity publish / rotate / unpublish" and "purge" do *)
(* to the config file, the encrypted database, the TSIG secret, the saved  *)
(* token, the node and the zone.                                           *)
(*                                                                         *)
(* One command runs at a time, in steps: a step may fail, the process may  *)
(* be killed between two of them or in the middle of a write, and the      *)
(* operator may edit the destinations in config.yaml at any moment.  A key *)
(* stands for everything derived from a salt and a passphrase: the signing *)
(* key and the key of the database.                                        *)
(***************************************************************************)
EXTENDS Naturals, FiniteSets

CONSTANTS
    Passwords,   \* passphrases the user may type
    Names,       \* the names an identity publishes under
    Announced,   \* those of them that hold its identity record and its prekeys
    Identity,    \* the name of the identity record
    Rotation,    \* the name of the rotations and revocations
    MaxSalts,    \* bound on the inits that get as far as a salt
    MaxFaults    \* bound on failing steps and on kills

ASSUME AccountAssumption ==
    /\ Announced \subseteq Names /\ Identity \in Announced /\ Rotation \in Names \ Announced
    /\ MaxSalts \in Nat /\ MaxFaults \in Nat

VARIABLES
    cfg,      \* config.yaml
    db,       \* the key of the sqlite file, if there is one
    salts,    \* salts generated so far
    secret,   \* the tsig-<host>.key file is there
    token,    \* a token of the node is saved
    holder,   \* the key the node has registered for the subject, if any
    zone,     \* the records published: <<name, key>>
    told,     \* the passphrase init took or the tool last told the user to use
    cmd,      \* the command that is running
    faults

vars == <<cfg, db, salts, secret, token, holder, zone, told, cmd, faults>>

\* What an operator can write: no destination, one of two, or both.
Dests == SUBSET {"publish", "cloudflare"}
Absent == [state |-> "absent", salt |-> 0, dests |-> {}]
Torn == [state |-> "torn", salt |-> 0, dests |-> {}]
Saved(s, d) == [state |-> "saved", salt |-> s, dests |-> d]

Key(s, p) == <<s, p>>
NoPassword == ""
None == [op |-> "none", pc |-> "idle", pass |-> NoPassword, new |-> NoPassword,
         force |-> FALSE, conf |-> Absent, had |-> {}, todo |-> {}, swept |-> 0]

Init ==
    /\ cfg = Absent /\ db = {} /\ salts = 0 /\ secret = FALSE /\ token = FALSE
    /\ holder = {} /\ zone = {} /\ told = NoPassword /\ cmd = None /\ faults = 0

files == <<cfg, db, secret, token>>
Fault == faults < MaxFaults /\ faults' = faults + 1
Go(pc) == cmd' = [cmd EXCEPT !.pc = pc]
MyKey == Key(cmd.conf.salt, cmd.pass)

ClientOps == {"publish", "rotate", "unpublish", "sweep"}
Ops == {"init", "register", "tsig", "purge"} \cup ClientOps

\* The user types a command and, when it asks, a passphrase.  "sweep" is purge
\* --remote, with or without --force-local-after-remote-failure.
Begin(op, p, q, f) ==
    /\ cmd.pc = "idle"
    /\ op = "rotate" \/ q = p
    /\ op = "sweep" \/ ~f
    /\ op = "init" => salts < MaxSalts \/ cfg # Absent
    /\ cmd' = [None EXCEPT !.op = op, !.pc = "load", !.pass = p, !.new = q, !.force = f]
    /\ UNCHANGED <<files, salts, holder, zone, told, faults>>

\* The prompt returns.
Return ==
    /\ cmd.pc \in {"done", "failed"} /\ cmd' = None
    /\ UNCHANGED <<files, salts, holder, zone, told, faults>>

(***************************************************************************)
(* Reading the configuration and choosing a writer.                        *)
(***************************************************************************)
\* Mutant: init saves the config, with the new salt, before it opens the database.
LoadInitSaving ==
    /\ cmd.op = "init" /\ cmd.pc = "load"
    /\ IF cfg # Absent THEN Go("failed") /\ UNCHANGED <<salts, cfg>>
       ELSE /\ salts' = salts + 1 /\ cfg' = Saved(salts', {})
            /\ cmd' = [cmd EXCEPT !.pc = "open", !.conf = Saved(salts', {}), !.had = db]
    /\ UNCHANGED <<db, secret, token, holder, zone, told, faults>>

\* init refuses an existing file, and draws a salt otherwise.
LoadInit ==
    /\ cmd.op = "init" /\ cmd.pc = "load"
    /\ IF cfg # Absent THEN Go("failed") /\ UNCHANGED salts
       ELSE /\ salts' = salts + 1
            /\ cmd' = [cmd EXCEPT !.pc = "open", !.conf = Saved(salts', {}), !.had = db]
    /\ UNCHANGED <<files, holder, zone, told, faults>>

\* ConfigFile::resolve(): both blocks are refused.
Readable == cfg.state = "saved" /\ cfg.dests # {"publish", "cloudflare"}

\* The publishing commands refuse a config without a destination; unpublish
\* asks the writer that was built, a saved token included.
Configured ==
    CASE cmd.op \in {"publish", "rotate"} -> cfg.dests # {}
      [] cmd.op = "unpublish" -> cfg.dests # {} \/ token
      [] OTHER -> TRUE

\* build_writer(): the TSIG secret must be there to be read.
WriterBuilds == "publish" \in cfg.dests => secret

\* Mutant: identity publish derives the key as register does, without the database.
LoadClientUnopened ==
    /\ cmd.op \in ClientOps /\ cmd.pc = "load"
    /\ IF ~(Readable /\ Configured /\ WriterBuilds) THEN Go("failed")
       ELSE cmd' = [cmd EXCEPT !.pc = "announce", !.conf = cfg, !.todo = Names]
    /\ UNCHANGED <<files, salts, holder, zone, told, faults>>

LoadClient ==
    /\ cmd.op \in ClientOps /\ cmd.pc = "load"
    /\ IF ~Readable THEN Go("failed")
       ELSE IF cmd.op = "sweep" /\ cfg.dests = {} THEN Go("wipe")
       ELSE IF ~(Configured /\ WriterBuilds) THEN Go("failed")
       ELSE cmd' = [cmd EXCEPT !.pc = "open", !.conf = cfg]
    /\ UNCHANGED <<files, salts, holder, zone, told, faults>>

\* register and tsig register read the raw file; the latter refuses a
\* cloudflare block.  They do not open the database.
LoadRegister ==
    /\ cmd.op \in {"register", "tsig"} /\ cmd.pc = "load"
    /\ IF cfg.state # "saved" \/ (cmd.op = "tsig" /\ "cloudflare" \in cfg.dests)
       THEN Go("failed")
       ELSE cmd' = [cmd EXCEPT !.pc = "confirm", !.conf = cfg]
    /\ UNCHANGED <<files, salts, holder, zone, told, faults>>

\* purge without --remote needs no passphrase.
LoadPurge ==
    /\ cmd.op = "purge" /\ cmd.pc = "load"
    /\ IF cfg = Absent THEN Go("failed") ELSE Go("wipe")
    /\ UNCHANGED <<files, salts, holder, zone, told, faults>>

(***************************************************************************)
(* DmpClient::new(): the database opens under the derived key or not.      *)
(***************************************************************************)
\* What is left of database d when a step fails: init removes the one it made,
\* and goes on when it cannot.
Discard(d) == IF cmd.op = "init" /\ cmd.had = {} THEN {{}, d} ELSE {d}

\* What comes after the database is open.
AfterOpen == CASE cmd.op = "init" -> "save" [] cmd.op \in {"unpublish", "sweep"} -> "delete"
               [] OTHER -> "announce"

\* A missing file is created under the key, a present one is probed with it.
Opens(k) == db \in {{}, {k}}

\* A step that fails may have created it.
Attempted == IF Opens(MyKey) THEN {db, {MyKey}} ELSE {db}

OpenDb ==
    /\ cmd.pc = "open"
    /\ \/ /\ Opens(MyKey)
          /\ db' = db \cup {MyKey}
          /\ cmd' = [cmd EXCEPT !.pc = AfterOpen, !.todo = Names]
          /\ UNCHANGED faults
       \/ /\ IF Opens(MyKey) THEN Fault ELSE UNCHANGED faults
          /\ \E d \in Attempted : db' \in Discard(d)
          /\ Go("failed")
    /\ UNCHANGED <<cfg, secret, token, salts, holder, zone, told>>

\* ConfigFile::save() writes the file in place: a failure may leave it cut.
SaveInit ==
    /\ cmd.op = "init" /\ cmd.pc = "save"
    /\ \/ /\ cfg' = cmd.conf /\ told' = cmd.pass /\ Go("reread")
          /\ UNCHANGED <<db, faults>>
       \/ /\ Fault
          /\ cfg' \in {cfg, Torn} /\ db' \in Discard(db) /\ Go("failed")
          /\ UNCHANGED told
    /\ UNCHANGED <<secret, token, salts, holder, zone>>

\* The saved file is read back.  If that fails, init reports an error, and the
\* config and the database stay.
Reread ==
    /\ cmd.op = "init" /\ cmd.pc = "reread"
    /\ \/ Readable /\ Go("done") /\ UNCHANGED faults
       \/ (IF Readable THEN Fault ELSE UNCHANGED faults) /\ Go("failed")
    /\ UNCHANGED <<files, salts, holder, zone, told>>

(***************************************************************************)
(* Registration with the node.                                             *)
(***************************************************************************)
\* Challenge and confirm, signed with the derived key: the node gives the
\* subject to the first key that asks.
Confirm ==
    /\ cmd.op \in {"register", "tsig"} /\ cmd.pc = "confirm"
    /\ \/ /\ holder \subseteq {MyKey}
          /\ holder' \in {holder, {MyKey}} /\ Fault /\ Go("failed")
       \/ /\ holder \subseteq {MyKey}
          /\ holder' = {MyKey} /\ Go("keep") /\ UNCHANGED faults
       \/ ~(holder \subseteq {MyKey}) /\ Go("failed") /\ UNCHANGED <<holder, faults>>
    /\ UNCHANGED <<files, salts, zone, told>>

\* The token or the secret is written to a temporary file that is renamed; the
\* chmod after the rename may fail.
KeepSecret ==
    /\ cmd.op \in {"register", "tsig"} /\ cmd.pc = "keep"
    /\ \/ /\ UNCHANGED faults
          /\ IF cmd.op = "tsig" THEN secret' = TRUE /\ Go("save") /\ UNCHANGED token
             ELSE token' = TRUE /\ Go("done") /\ UNCHANGED secret
       \/ /\ Fault /\ Go("failed")
          /\ IF cmd.op = "tsig" THEN secret' \in {secret, TRUE} /\ UNCHANGED token
             ELSE token' \in {token, TRUE} /\ UNCHANGED secret
    /\ UNCHANGED <<cfg, db, salts, holder, zone, told>>

\* tsig register saves the config as it read it, with the publish block; the
\* chmod after the save may fail.
WithPublish == Saved(cmd.conf.salt, cmd.conf.dests \cup {"publish"})

SaveTsig ==
    /\ cmd.op = "tsig" /\ cmd.pc = "save"
    /\ \/ cfg' = WithPublish /\ Go("done") /\ UNCHANGED faults
       \/ Fault /\ cfg' \in {cfg, Torn, WithPublish} /\ Go("failed")
    /\ UNCHANGED <<db, secret, token, salts, holder, zone, told>>

(***************************************************************************)
(* Publishing, rotating, withdrawing.                                      *)
(***************************************************************************)
\* identity publish and refresh-prekeys: the records of the identity that is
\* unlocked, one name after the other; a refused one ends the command.
Publish ==
    /\ cmd.op = "publish" /\ cmd.pc = "announce"
    /\ \/ /\ UNCHANGED faults
          /\ \E n \in cmd.todo \cap Announced :
                /\ zone' = zone \cup {<<n, MyKey>>}
                /\ cmd' = [cmd EXCEPT !.todo = @ \ {n}]
       \/ cmd.todo \cap Announced = {} /\ Go("done") /\ UNCHANGED <<zone, faults>>
       \/ cmd.todo \cap Announced # {} /\ Fault /\ Go("failed") /\ UNCHANGED zone
    /\ UNCHANGED <<files, salts, holder, told>>

\* rotate_identity(): the rotation record must be accepted; the identity record
\* of the new key may be refused.  Either way the user is told to go on with
\* the new passphrase.
Rotate ==
    /\ cmd.op = "rotate" /\ cmd.pc = "announce"
    /\ \/ /\ IF cmd.new = cmd.pass THEN UNCHANGED faults ELSE Fault
          /\ Go("failed") /\ UNCHANGED zone
       \/ /\ cmd.new # cmd.pass
          /\ zone' = zone \cup {<<Rotation, MyKey>>} /\ Go("renew") /\ UNCHANGED faults
    /\ UNCHANGED <<files, salts, holder, told>>

Renew ==
    /\ cmd.op = "rotate" /\ cmd.pc = "renew"
    /\ \/ /\ zone' = zone \cup {<<Identity, Key(cmd.conf.salt, cmd.new)>>}
          /\ UNCHANGED faults /\ Go("done")
       \/ UNCHANGED zone /\ Fault /\ Go("failed")
    /\ told' = cmd.new
    /\ UNCHANGED <<files, salts, holder>>

\* unpublish_identity(): every name is tried, and what each delete answered is
\* counted; a name without records may answer either way.
Delete ==
    /\ cmd.op \in {"unpublish", "sweep"} /\ cmd.pc = "delete"
    /\ \E n \in cmd.todo :
          \/ /\ zone' = {r \in zone : r[1] # n} /\ UNCHANGED faults
             /\ cmd' = [cmd EXCEPT !.todo = @ \ {n}, !.swept = @ + 1]
          \/ /\ IF \E r \in zone : r[1] = n THEN Fault ELSE UNCHANGED faults
             /\ cmd' = [cmd EXCEPT !.todo = @ \ {n}] /\ UNCHANGED zone
    /\ UNCHANGED <<files, salts, holder, told>>

\* purge goes on if any delete was accepted, or if it is forced to.
Swept ==
    /\ cmd.op \in {"unpublish", "sweep"} /\ cmd.pc = "delete" /\ cmd.todo = {}
    /\ Go(IF cmd.op = "unpublish" THEN "done"
          ELSE IF cmd.swept > 0 \/ cmd.force THEN "wipe" ELSE "failed")
    /\ UNCHANGED <<files, salts, holder, zone, told, faults>>

\* wipe_local(): the config, then the database; either may fail and end it.
Wipe ==
    /\ cmd.op \in {"purge", "sweep"} /\ cmd.pc = "wipe"
    /\ \/ cfg' = Absent /\ Go("wipedb") /\ UNCHANGED faults
       \/ Fault /\ Go("failed") /\ UNCHANGED cfg
    /\ UNCHANGED <<db, secret, token, salts, holder, zone, told>>

\* The secret and the tokens are removed as far as that is possible.
WipeRest ==
    /\ cmd.op \in {"purge", "sweep"} /\ cmd.pc = "wipedb"
    /\ \/ /\ db' = {} /\ Go("done")
          /\ \/ secret' = FALSE /\ token' = FALSE /\ UNCHANGED faults
             \/ Fault /\ secret' \in {secret, FALSE} /\ token' \in {token, FALSE}
       \/ Fault /\ Go("failed") /\ UNCHANGED <<db, secret, token>>
    /\ UNCHANGED <<cfg, salts, holder, zone, told>>

(***************************************************************************)
(* Around the commands.                                                    *)
(***************************************************************************)
\* The process is killed; a config being written may be cut.
Kill ==
    /\ cmd.pc \notin {"idle", "done", "failed"} /\ Fault
    /\ cfg' \in {cfg} \cup (IF cmd.pc = "save" THEN {Torn} ELSE {})
    /\ cmd' = None
    /\ UNCHANGED <<db, secret, token, salts, holder, zone, told>>

\* The operator edits the destinations.
Edit ==
    /\ cfg.state = "saved"
    /\ \E d \in Dests \ {cfg.dests} : cfg' = Saved(cfg.salt, d)
    /\ UNCHANGED <<db, secret, token, salts, holder, zone, told, cmd, faults>>

Next ==
    \/ \E op \in Ops, p, q \in Passwords, f \in BOOLEAN : Begin(op, p, q, f)
    \/ Return \/ LoadInit \/ LoadClient \/ LoadRegister \/ LoadPurge
    \/ OpenDb \/ SaveInit \/ Reread \/ Confirm \/ KeepSecret \/ SaveTsig
    \/ Publish \/ Rotate \/ Renew \/ Delete \/ Swept \/ Wipe \/ WipeRest
    \/ Kill \/ Edit

Spec == Init /\ [][Next]_vars

Pcs == {"idle", "load", "open", "save", "reread", "confirm", "keep", "announce", "renew",
        "delete", "wipe", "wipedb", "done", "failed"}
Keys == (1..MaxSalts) \X Passwords
AtMostOne(S) == {{}} \cup {{x} : x \in S}
Configs == {Absent, Torn} \cup {Saved(s, d) : s \in 1..MaxSalts, d \in Dests}
Commands == [op : Ops \cup {"none"}, pc : Pcs, pass : Passwords \cup {NoPassword},
             new : Passwords \cup {NoPassword}, force : BOOLEAN, conf : Configs,
             had : AtMostOne(Keys), todo : SUBSET Names, swept : Nat]

\* One database under one key, one key per subject at the node, and records
\* under the names an identity has, each signed by a key of a salt in use.
TypeOK ==
    /\ cfg \in Configs /\ db \in AtMostOne(Keys)
    /\ salts \in 0..MaxSalts /\ secret \in BOOLEAN /\ token \in BOOLEAN
    /\ holder \in AtMostOne(Keys)
    /\ zone \subseteq Names \X Keys /\ told \in Passwords \cup {NoPassword}
    /\ cmd \in Commands
    /\ faults \in 0..MaxFaults

\* The salt that keys the database is the one in config.yaml whenever there is
\* both: no failure, kill, purge or second init leaves a database whose salt
\* another has replaced (init.rs: "builds the client first", save()).  And a
\* database that init finds is not touched by it, however it ends (init.rs, the
\* test leaves_a_preexisting_db_alone).
SaltKept ==
    /\ cfg.state = "saved" => \A k \in db : k[1] = cfg.salt
    /\ cmd.op = "init" /\ cmd.had # {} => db = cmd.had

\* A mistyped passphrase announces nothing: what publish puts under a name, and
\* the rotation that rotate announces, is signed by the key that opens the local
\* database at that moment.
AnnouncesOwnKey ==
    [][\A r \in zone' \ zone :
          cmd.op = "publish" \/ r[1] = Rotation => db = {r[2]}]_vars

\* As the tool says at the end of a rotation, the next commands need the new
\* passphrase: the passphrase the user was last told to use opens the database
\* (identity.rs:253, "future commands need the NEW passphrase").
ToldOpens ==
    cfg.state = "saved" /\ cmd.pc = "idle" => db \in {{}, {Key(cfg.salt, told)}}
=============================================================================
