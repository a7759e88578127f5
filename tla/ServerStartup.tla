---------------------------- MODULE ServerStartup ----------------------------
(***************************************************************************)
(* What runs before a server serves: migrate-db, and init-db with the      *)
(* schema's baseline, the first administrator and the deployment's API     *)
(* key.  Several containers may start at once and each may stop between    *)
(* two statements; MySQL commits every DDL statement at once.  Versions    *)
(* are numbered, and the migration that ends at version v has the          *)
(* statements <<v, 1>> .. <<v, Length>>.                                   *)
(***************************************************************************)
EXTENDS Naturals, FiniteSets

CONSTANTS
  Starters,       \* runs of init-db or migrate-db that may overlap
  MaxSchema,      \* newest schema version
  Length,         \* statements of one migration
  ApiKeys,        \* the values that API_KEY takes in the deployment, when it is set
  MaxSecrets,     \* bounds the keys that are generated
  MaxStartFaults

NoSecret == 0
EnvSecret == 1        \* API_KEY as the server trims it
PaddedSecret == 2     \* API_KEY with blanks around it, which init-db does not trim
ApiKey == {NoSecret} \cup ApiKeys     \* what init-db reads, NoSecret if unset

ASSUME StartupAssumption ==
  /\ ApiKeys \subseteq {EnvSecret, PaddedSecret}
  /\ IsFiniteSet(Starters) /\ MaxSchema \in Nat /\ Length \in Nat
  /\ MaxSecrets \in Nat \ {0, 1} /\ MaxStartFaults \in Nat

VARIABLES
  objects,     \* statements whose table or column exists
  recorded,    \* schema_migrations
  lock,        \* the runs that hold GET_LOCK
  admin,       \* an administrator exists
  keys,        \* active rows of api_keys: id -> secret
  plaintext,   \* .api-key-plaintext
  issued,      \* secrets generated so far
  settled,     \* what the last init-db to end left: "unknown", "file", "env" or "padded"
  starter,     \* per run: the tool, its step and what it has read
  startFaults
startVars == <<objects, recorded, lock, admin, keys, plaintext, issued, settled, starter, startFaults>>
Schema == <<objects, recorded>>
Keys == <<admin, keys, plaintext, issued>>

Schemas == 1 .. MaxSchema
StatementsTo(v) == (1 .. v) \X (1 .. Length)
KeyIds == 1 .. Cardinality(Starters)
Newest == CHOOSE v \in recorded : \A u \in recorded : u <= v

Idle == [at |-> "out"]
StartupInit ==
  /\ objects = {} /\ recorded = {} /\ lock = {}
  /\ admin = FALSE /\ keys = [id \in {} |-> NoSecret] /\ plaintext = NoSecret /\ issued = PaddedSecret
  /\ settled = "unknown"
  /\ starter = [s \in Starters |-> Idle] /\ startFaults = 0

Step(s, place) == starter[s].at = place
Go(s, place) == starter' = [starter EXCEPT ![s].at = place]
Stop(s) == starter' = [starter EXCEPT ![s] = Idle]
---------------------------------------------------------------------------
(* init-db.  "alone" stays true while no other init-db is running.         *)
Initialising(s) == ~Step(s, "out") /\ starter[s].tool = "init"

BeginInit(s, target, env) ==
  /\ Step(s, "out")
  /\ starter' = [t \in Starters |->
       IF t = s THEN [at |-> "schema", tool |-> "init", target |-> target, env |-> env,
                      id |-> 0, alone |-> \A u \in Starters : ~Initialising(u)]
       ELSE IF Initialising(t) THEN [starter[t] EXCEPT !.alone = FALSE] ELSE starter[t]]
  /\ settled' = "unknown"
  /\ UNCHANGED <<Schema, lock, Keys, startFaults>>

(* initializeSchema: only a database without a recorded version is built.  *)
InitializeSchema(s) ==
  /\ Step(s, "schema")
  /\ \/ recorded = {} /\ Go(s, "baseline")
     \/ recorded # {} /\ Newest = starter[s].target /\ Go(s, "admin")
     \/ recorded # {} /\ Newest # starter[s].target /\ Stop(s)
  /\ UNCHANGED <<Schema, lock, Keys, settled, startFaults>>

(* The baseline of a version has all that its migrations would add; every  *)
(* statement does nothing when its object exists.                          *)
RunBaseline(s) ==
  /\ Step(s, "baseline")
  /\ LET missing == StatementsTo(starter[s].target) \ objects
     IN  IF missing = {} THEN Go(s, "recordBaseline") /\ UNCHANGED objects
         ELSE /\ objects' = objects \cup {CHOOSE m \in missing : TRUE}
              /\ UNCHANGED starter
  /\ UNCHANGED <<recorded, lock, Keys, settled, startFaults>>

EnsureSchemaBaseline(s) ==
  /\ Step(s, "recordBaseline")
  /\ recorded' = recorded \cup {starter[s].target}
  /\ Go(s, "admin")
  /\ UNCHANGED <<objects, lock, Keys, settled, startFaults>>

(* ensureDefaultAdmin: counted, then inserted; the name is unique.         *)
CountAdmins(s) ==
  /\ Step(s, "admin") /\ Go(s, IF admin THEN "key" ELSE "seed")
  /\ UNCHANGED <<Schema, lock, Keys, settled, startFaults>>

SeedAdmin(s) ==
  /\ Step(s, "seed")
  /\ IF admin THEN Stop(s) /\ UNCHANGED admin ELSE admin' = TRUE /\ Go(s, "key")
  /\ UNCHANGED <<Schema, lock, keys, plaintext, issued, settled, startFaults>>
---------------------------------------------------------------------------
(* ensureApiKey.  With API_KEY set: its row, else the oldest active row is *)
(* given that key, else a row is inserted.  It is hashed as it is set.     *)
Holders(secret) == {id \in DOMAIN keys : keys[id] = secret}
Oldest == CHOOSE id \in DOMAIN keys : \A other \in DOMAIN keys : id <= other
Chosen(s, id) == starter' = [starter EXCEPT ![s].at = "write", ![s].id = id]

FindKeyForEnv(s) ==
  /\ Step(s, "key") /\ starter[s].env # NoSecret
  /\ IF Holders(starter[s].env) # {} THEN Go(s, "done") ELSE Go(s, "active")
  /\ UNCHANGED <<Schema, lock, Keys, settled, startFaults>>

FindActiveForEnv(s) ==
  /\ Step(s, "active") /\ Chosen(s, IF DOMAIN keys = {} THEN 0 ELSE Oldest)
  /\ UNCHANGED <<Schema, lock, Keys, settled, startFaults>>

(* Without API_KEY: any active row; it is kept when the file has its key.  *)
KeepAnyPlaintext(s, id) == plaintext # NoSecret
KeepKey(s, id) == keys[id] = plaintext

FindKey(s) ==
  /\ Step(s, "key") /\ starter[s].env = NoSecret
  /\ \/ DOMAIN keys = {} /\ Chosen(s, 0)
     \/ \E id \in DOMAIN keys :
          IF KeepKey(s, id) THEN Go(s, "done") ELSE Chosen(s, id)
  /\ UNCHANGED <<Schema, lock, Keys, settled, startFaults>>

(* UPDATE of the chosen row, or INSERT; key_id is derived from API_KEY and *)
(* unique, so a second row cannot get that key.                            *)
WriteKey(s) ==
  /\ Step(s, "write")
  /\ LET env == starter[s].env # NoSecret
         id == IF starter[s].id # 0 THEN starter[s].id ELSE Cardinality(DOMAIN keys) + 1
         secret == IF env THEN starter[s].env ELSE issued + 1
     IN  IF env /\ Holders(secret) \ {id} # {}
         THEN Stop(s) /\ UNCHANGED <<keys, issued>>
         ELSE /\ issued < MaxSecrets \/ env
              /\ issued' = IF env THEN issued ELSE secret
              /\ keys' = [k \in DOMAIN keys \cup {id} |-> IF k = id THEN secret ELSE keys[k]]
              /\ starter' = [starter EXCEPT ![s].at = IF env THEN "done" ELSE "persist", ![s].id = secret]
  /\ UNCHANGED <<Schema, lock, admin, plaintext, settled, startFaults>>

(* persistPlaintext: a failure is only logged.                             *)
PersistPlaintext(s) ==
  /\ Step(s, "persist")
  /\ \/ plaintext' = starter[s].id /\ Go(s, "done")
     \/ /\ starter' = [starter EXCEPT ![s].at = "done", ![s].alone = FALSE]
        /\ UNCHANGED plaintext
  /\ UNCHANGED <<Schema, lock, admin, keys, issued, settled, startFaults>>

(* The keys without an owner are bound, and the server starts.             *)
Source(env) ==
  CASE env = NoSecret -> "file" [] env = EnvSecret -> "env" [] env = PaddedSecret -> "padded"

EndInit(s) ==
  /\ Step(s, "done") /\ Stop(s)
  /\ settled' = IF starter[s].alone THEN Source(starter[s].env) ELSE "unknown"
  /\ UNCHANGED <<Schema, lock, Keys, startFaults>>
---------------------------------------------------------------------------
(* migrate-db: the lock is not waited for.                                 *)
BeginMigration(s, target) ==
  /\ Step(s, "out")
  /\ starter' = [starter EXCEPT ![s] = [at |-> "lock", tool |-> "migrate", target |-> target,
                                        step |-> 0, next |-> 1]]
  /\ UNCHANGED <<Schema, lock, Keys, settled, startFaults>>

AcquireMigrationLock(s) ==
  /\ Step(s, "lock")
  /\ IF lock = {} THEN lock' = {s} /\ Go(s, "version") ELSE Stop(s) /\ UNCHANGED lock
  /\ UNCHANGED <<Schema, Keys, settled, startFaults>>

(* currentSchemaVersion and discoverMigrationPath.                         *)
PlanMigration(s) ==
  /\ Step(s, "version")
  /\ IF recorded # {} /\ Newest < starter[s].target
     THEN starter' = [starter EXCEPT ![s].at = "apply", ![s].step = Newest + 1]
     ELSE Go(s, "release")
  /\ UNCHANGED <<Schema, lock, Keys, settled, startFaults>>

(* The statements of a step, each guarded by a look at the schema.         *)
ApplyStatement(s) ==
  /\ Step(s, "apply") /\ starter[s].next <= Length
  /\ objects' = objects \cup {<<starter[s].step, starter[s].next>>}
  /\ starter' = [starter EXCEPT ![s].next = @ + 1]
  /\ UNCHANGED <<recorded, lock, Keys, settled, startFaults>>

RecordMigrationFirst(s) ==
  /\ Step(s, "apply")
  /\ recorded' = recorded \cup {starter[s].step}
  /\ IF starter[s].next <= Length THEN UNCHANGED starter
     ELSE starter' = IF starter[s].step = starter[s].target THEN [starter EXCEPT ![s].at = "release"]
                     ELSE [starter EXCEPT ![s].step = @ + 1, ![s].next = 1]
  /\ UNCHANGED <<objects, lock, Keys, settled, startFaults>>

RecordMigration(s) ==
  /\ Step(s, "apply") /\ starter[s].next > Length
  /\ recorded' = recorded \cup {starter[s].step}
  /\ starter' = IF starter[s].step = starter[s].target THEN [starter EXCEPT ![s].at = "release"]
                ELSE [starter EXCEPT ![s].step = @ + 1, ![s].next = 1]
  /\ UNCHANGED <<objects, lock, Keys, settled, startFaults>>

ReleaseMigrationLock(s) ==
  /\ Step(s, "release") /\ lock' = lock \ {s} /\ Stop(s)
  /\ UNCHANGED <<Schema, Keys, settled, startFaults>>

(* A run stops, or a statement fails; its connection's lock goes with it.  *)
StarterFails(s) ==
  /\ ~Step(s, "out") /\ startFaults < MaxStartFaults
  /\ startFaults' = startFaults + 1
  /\ lock' = lock \ {s} /\ Stop(s)
  /\ UNCHANGED <<Schema, Keys, settled>>

MigrationStep(s) ==
  \/ AcquireMigrationLock(s) \/ PlanMigration(s) \/ ApplyStatement(s)
  \/ RecordMigration(s) \/ ReleaseMigrationLock(s)

InitStep(s) ==
  \/ InitializeSchema(s) \/ RunBaseline(s) \/ EnsureSchemaBaseline(s)
  \/ CountAdmins(s) \/ SeedAdmin(s) \/ FindKeyForEnv(s) \/ FindActiveForEnv(s)
  \/ FindKey(s) \/ WriteKey(s) \/ PersistPlaintext(s) \/ EndInit(s)

StartupNext == \E s \in Starters :
  \/ MigrationStep(s) \/ InitStep(s) \/ StarterFails(s)
  \/ \E target \in Schemas : BeginMigration(s, target) \/ \E env \in ApiKey : BeginInit(s, target, env)

StartupSpec == StartupInit /\ [][StartupNext]_startVars
---------------------------------------------------------------------------
StartupTypeOK ==
  /\ objects \subseteq StatementsTo(MaxSchema) /\ recorded \subseteq Schemas
  /\ Cardinality(lock) <= 1 /\ DOMAIN keys \subseteq KeyIds
  /\ plaintext \in NoSecret .. MaxSecrets /\ \A id \in DOMAIN keys : keys[id] \in EnvSecret .. MaxSecrets

\* A version that is recorded has all its objects, and so have the versions
\* before it, wherever a baseline or a migration was interrupted or overlapped.
SchemaRecorded == \A v \in recorded : StatementsTo(v) \subseteq objects

\* Once an init-db ran to its end with no other beside it and wrote its file,
\* the key that the server hands to its pages (ApiKeyService) is an active one,
\* whatever interrupted and overlapping runs have left before.  Of an API_KEY
\* with blanks around it nothing is said: init-db hashes it as it is, the server
\* hands out the trimmed one, which need not be active.
KeyServes ==
  settled \in {"file", "env"} => Holders(IF settled = "env" THEN EnvSecret ELSE plaintext) # {}
=============================================================================
