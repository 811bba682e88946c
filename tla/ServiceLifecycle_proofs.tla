------------------------ MODULE ServiceLifecycle_proofs ------------------------
(***************************************************************************)
(* Proofs about SchemaMigrations and ServiceLifecycle, for any replicas,   *)
(* builds, deployments and callers of Shutdown.                            *)
(***************************************************************************)
EXTENDS ServiceLifecycle, TLAPS

Steps == {"idle", "locking", "checking", "applying", "open", "failed"}
Errors == {"none", "database", "checksum", "duplicate", "record"}

OpeningType ==
  opening \in [Replicas -> [step : Steps, file : Nat \ {0}, error : Errors]]

(* The files a replica is past are the first migrations in effect.          *)
Matched(r) ==
  /\ opening[r].file <= Len(Files[r]) + 1
  /\ \A i \in 1 .. opening[r].file - 1 : i <= Len(applied) /\ applied[i] = Files[r][i]

Working(r) == At(r, "checking") \/ At(r, "applying")

(* The schema: what is in effect is numbered, recorded and of one build.    *)
SchemaInv ==
  /\ applied \in Seq(Migrations)
  /\ \A i \in 1 .. Len(applied) : applied[i].version = i
  /\ ledger = {applied[i] : i \in DOMAIN applied}
  /\ \E r \in Replicas : IsPrefixOf(applied, Files[r])

(* The advisory lock is what makes the look at the ledger last until the    *)
(* file is applied.                                                         *)
ReplicaInv(r) ==
  /\ opening[r].error # "record"
  /\ lock = r <=> Working(r)
  /\ At(r, "idle") \/ At(r, "locking") => opening[r].file = 1
  /\ Working(r) => Matched(r)
  /\ At(r, "applying") =>
       /\ opening[r].file <= Len(Files[r])
       /\ ~Duplicated(r)
       /\ Recorded(File(r).version) = {}
  /\ At(r, "open") => IsPrefixOf(Files[r], applied)

MigrationInv == OpeningType /\ SchemaInv /\ \A r \in Replicas : ReplicaInv(r)

(* The files of a build are a finite sequence.                              *)
LEMMA FilesAreSequences ==
  ASSUME NEW r \in Replicas
  PROVE  /\ Files[r] \in Seq(Migrations) /\ Len(Files[r]) \in Nat
         /\ DOMAIN Files[r] = 1 .. Len(Files[r])
BY FilesAssumption

(* A file that repeats no version has its position for its version.         *)
LEMMA NumberOfFile ==
  ASSUME NEW r \in Replicas, OpeningType, opening[r].file <= Len(Files[r]), ~Duplicated(r)
  PROVE  File(r).version = opening[r].file
BY FilesAreSequences, NumberingAssumption DEF Duplicated, File, OpeningType

(* An empty database that nobody has opened satisfies the invariant.        *)
LEMMA MigrationInit == MigrationsInit => MigrationInv
<1> SUFFICES ASSUME MigrationsInit PROVE MigrationInv
  BY Zenon
<1>1. OpeningType
  BY DEF MigrationsInit, OpeningType, Closed, Steps, Errors
<1>2. SchemaInv
  BY FilesAssumption DEF MigrationsInit, SchemaInv, IsPrefixOf
<1>3. ASSUME NEW r \in Replicas PROVE ReplicaInv(r)
  BY Zenon, <1>3, ReplicasAssumption DEF MigrationsInit, ReplicaInv, Closed, At, Working
<1> QED BY Zenon, <1>1, <1>2, <1>3 DEF MigrationInv

(* A step that leaves the schema, and the lock as far as q is concerned,    *)
(* alone keeps what holds of q.                                             *)
LEMMA OthersUntouched ==
  ASSUME MigrationInv, NEW q \in Replicas,
         opening'[q] = opening[q], applied' = applied, ledger' = ledger,
         lock' = q <=> lock = q
  PROVE  ReplicaInv(q)'
BY DEF MigrationInv, ReplicaInv, At, Working, Matched, Duplicated, File, Recorded, IsPrefixOf

(* A step that applies no file keeps the schema as it is.                   *)
LEMMA SchemaUntouched ==
  ASSUME MigrationInv, applied' = applied, ledger' = ledger
  PROVE  SchemaInv'
BY Zenon DEF MigrationInv, SchemaInv, IsPrefixOf

(* An error or the death of the process: the lock goes, nothing is claimed. *)
LEMMA FailKeeps ==
  ASSUME MigrationInv, NEW r \in Replicas, NEW e \in Errors \ {"record"}, Fail(r, e),
         applied' = applied, ledger' = ledger
  PROVE  MigrationInv'
<1>1. OpeningType'
  BY Zenon DEF MigrationInv, OpeningType, Fail, Steps, Errors
<1>2. ReplicaInv(r)'
  BY ReplicasAssumption DEF MigrationInv, OpeningType, Fail, Unlocked, ReplicaInv, At, Working
<1>3. ASSUME NEW q \in Replicas, q # r PROVE ReplicaInv(q)'
  <2>1. opening'[q] = opening[q]
    BY Zenon, <1>3 DEF MigrationInv, OpeningType, Fail
  <2>2. lock' = q <=> lock = q
    BY Zenon, <1>3, ReplicasAssumption DEF Fail, Unlocked
  <2> QED BY Zenon, <1>3, <2>1, <2>2, OthersUntouched
<1> QED BY Zenon, <1>1, <1>2, <1>3, SchemaUntouched DEF MigrationInv

(* Connecting keeps the invariant.                                          *)
LEMMA ConnectKeeps ==
  ASSUME MigrationInv, NEW r \in Replicas, Connect(r)
  PROVE  MigrationInv'
<1>1. OpeningType'
  BY Zenon DEF MigrationInv, OpeningType, Connect, Steps
<1>2. ReplicaInv(r)'
  BY Zenon DEF MigrationInv, OpeningType, Connect, ReplicaInv, At, Working
<1>3. ASSUME NEW q \in Replicas, q # r PROVE ReplicaInv(q)'
  BY Zenon, <1>3, OthersUntouched DEF MigrationInv, OpeningType, Connect
<1> QED BY Zenon, <1>1, <1>2, <1>3, SchemaUntouched DEF MigrationInv, Connect

(* Taking the advisory lock keeps the invariant: nobody else was between a  *)
(* check and its application.                                               *)
LEMMA LockKeeps ==
  ASSUME MigrationInv, NEW r \in Replicas, LockMigrations(r)
  PROVE  MigrationInv'
<1>1. OpeningType'
  BY Zenon DEF MigrationInv, OpeningType, LockMigrations, Steps
<1>2. ReplicaInv(r)'
  BY FilesAreSequences
  DEF MigrationInv, OpeningType, LockMigrations, ReplicaInv, At, Working, Matched
<1>3. ASSUME NEW q \in Replicas, q # r PROVE ReplicaInv(q)'
  BY Zenon, <1>3, OthersUntouched, ReplicasAssumption DEF MigrationInv, OpeningType, LockMigrations
<1> QED BY Zenon, <1>1, <1>2, <1>3, SchemaUntouched DEF MigrationInv, LockMigrations

(* Looking a file up in the ledger keeps the invariant, whether it is       *)
(* known, edited, repeated or new.                                          *)
LEMMA CheckKeeps ==
  ASSUME MigrationInv, NEW r \in Replicas, CheckMigration(r)
  PROVE  MigrationInv'
<1> DEFINE k == opening[r].file
<1>1. At(r, "checking") /\ k <= Len(Files[r]) /\ applied' = applied /\ ledger' = ledger
  BY Zenon DEF CheckMigration
<1>2. CASE Fail(r, "duplicate") \/ Fail(r, "checksum")
  BY Zenon, <1>1, <1>2, FailKeeps DEF Errors
<1>3. CASE /\ ~Duplicated(r) /\ NextFile(r) /\ lock' = lock
           /\ \E row \in Recorded(File(r).version) : row.checksum = File(r).checksum
  <2>1. OpeningType'
    BY <1>3 DEF MigrationInv, OpeningType, NextFile, Steps
  <2>2. k \in Nat \ {0} /\ Matched(r)
    BY Zenon, <1>1 DEF MigrationInv, OpeningType, ReplicaInv, Working
  <2>3. k <= Len(applied) /\ applied[k] = Files[r][k]
    <3>1. PICK row \in ledger : row.version = File(r).version /\ row.checksum = File(r).checksum
      BY Zenon, <1>3 DEF Recorded
    <3>2. PICK i \in 1 .. Len(applied) : applied[i] = row
      BY DEF MigrationInv, SchemaInv
    <3>3. i = k
      BY Zenon, <1>1, <1>3, <3>1, <3>2, NumberOfFile DEF MigrationInv, SchemaInv
    <3>4. row \in Migrations /\ File(r) \in Migrations
      BY <1>1, <2>2, <3>2, FilesAreSequences DEF MigrationInv, SchemaInv, File
    <3> QED BY <3>1, <3>2, <3>3, <3>4, FilesAssumption DEF File
  <2>4. ReplicaInv(r)'
    BY <1>1, <1>3, <2>2, <2>3
    DEF MigrationInv, OpeningType, NextFile, ReplicaInv, At, Working, Matched
  <2>5. ASSUME NEW q \in Replicas, q # r PROVE ReplicaInv(q)'
    BY Zenon, <1>1, <1>3, <2>5, OthersUntouched DEF MigrationInv, OpeningType, NextFile
  <2> QED BY Zenon, <1>1, <2>1, <2>4, <2>5, SchemaUntouched DEF MigrationInv
<1>4. CASE /\ ~Duplicated(r) /\ Recorded(File(r).version) = {}
           /\ opening' = [opening EXCEPT ![r].step = "applying"]
           /\ lock' = lock
  <2>1. OpeningType'
    BY Zenon, <1>4 DEF MigrationInv, OpeningType, Steps
  <2>2. ReplicaInv(r)'
    BY <1>1, <1>4
    DEF MigrationInv, OpeningType, ReplicaInv, At, Working, Matched, Duplicated, File, Recorded
  <2>3. ASSUME NEW q \in Replicas, q # r PROVE ReplicaInv(q)'
    BY Zenon, <1>1, <1>4, <2>3, OthersUntouched DEF MigrationInv, OpeningType
  <2> QED BY Zenon, <1>1, <2>1, <2>2, <2>3, SchemaUntouched DEF MigrationInv
<1> QED BY Zenon, <1>2, <1>3, <1>4 DEF CheckMigration

(* The file that is applied is the next of its build and of the schema: the *)
(* schema has no migration of its number, and all that come before it.      *)
LEMMA AppliedIsNext ==
  ASSUME MigrationInv, NEW r \in Replicas, At(r, "applying")
  PROVE  /\ File(r) \in Migrations
         /\ File(r).version = Len(applied) + 1
         /\ Len(applied) + 1 = opening[r].file
<1> DEFINE k == opening[r].file
<1>1. /\ k \in Nat \ {0} /\ k <= Len(Files[r]) /\ ~Duplicated(r) /\ Recorded(File(r).version) = {}
      /\ Matched(r)
  BY Zenon DEF MigrationInv, OpeningType, ReplicaInv, Working
<1>2. File(r).version = k
  BY Zenon, <1>1, NumberOfFile DEF MigrationInv
<1>3. applied \in Seq(Migrations) /\ Len(applied) \in Nat
  BY DEF MigrationInv, SchemaInv
<1>4. ~(k <= Len(applied))
  <2> SUFFICES ASSUME k <= Len(applied) PROVE FALSE
    BY Zenon
  <2>1. applied[k] \in ledger /\ applied[k].version = k
    BY <1>1, <1>3 DEF MigrationInv, SchemaInv
  <2> QED BY Zenon, <1>1, <1>2, <2>1 DEF Recorded
<1>5. k - 1 <= Len(applied)
  BY <1>1, <1>3 DEF Matched
<1>6. File(r) \in Migrations
  BY <1>1, FilesAreSequences DEF File
<1> QED BY <1>1, <1>2, <1>3, <1>4, <1>5, <1>6

(* Applying the file that was checked extends the schema by the next        *)
(* version of the same build.                                               *)
LEMMA ApplySchema ==
  ASSUME MigrationInv, NEW r \in Replicas, At(r, "applying"),
         ledger' = ledger \cup {File(r)}, applied' = Append(applied, File(r))
  PROVE  /\ SchemaInv'
         /\ Len(applied') = Len(applied) + 1 /\ Len(applied) \in Nat
         /\ applied'[Len(applied) + 1] = File(r)
         /\ \A i \in 1 .. Len(applied) : applied'[i] = applied[i]
<1>1. /\ File(r) \in Migrations /\ File(r).version = Len(applied) + 1
      /\ Len(applied) + 1 = opening[r].file
  BY Zenon, AppliedIsNext
<1>2. applied \in Seq(Migrations) /\ Len(applied) \in Nat
  BY DEF MigrationInv, SchemaInv
<1>3. /\ applied' \in Seq(Migrations) /\ Len(applied') = Len(applied) + 1
      /\ applied'[Len(applied) + 1] = File(r)
      /\ \A i \in 1 .. Len(applied) : applied'[i] = applied[i]
      /\ DOMAIN applied = 1 .. Len(applied) /\ DOMAIN applied' = 1 .. Len(applied) + 1
  BY <1>1, <1>2
<1>4. \A i \in 1 .. Len(applied') : applied'[i].version = i
  BY <1>1, <1>2, <1>3 DEF MigrationInv, SchemaInv
<1>5. ledger' = {applied'[i] : i \in DOMAIN applied'}
  BY <1>2, <1>3 DEF MigrationInv, SchemaInv
<1>6. IsPrefixOf(applied', Files[r])
  <2>1. /\ opening[r].file \in Nat /\ opening[r].file <= Len(Files[r])
        /\ \A i \in 1 .. Len(applied) : applied[i] = Files[r][i]
    BY <1>1, <1>2 DEF MigrationInv, OpeningType, ReplicaInv, Working, Matched
  <2> QED BY <1>1, <1>2, <1>3, <2>1 DEF IsPrefixOf, File
<1> QED BY Zenon, <1>2, <1>3, <1>4, <1>5, <1>6 DEF SchemaInv, IsPrefixOf

(* Applying a file keeps the invariant, that of the replicas waiting for    *)
(* the lock included.                                                       *)
LEMMA ApplyKeeps ==
  ASSUME MigrationInv, NEW r \in Replicas, ApplyMigration(r)
  PROVE  MigrationInv'
<1>1. At(r, "applying") /\ Recorded(File(r).version) = {} /\ lock = r
  BY Zenon DEF ApplyMigration, MigrationInv, ReplicaInv, Working
<1>2. ledger' = ledger \cup {File(r)} /\ applied' = Append(applied, File(r))
  BY Zenon, <1>1 DEF ApplyMigration
<1>3. (NextFile(r) /\ lock' = lock) \/ Fail(r, "database")
  BY Zenon, <1>1 DEF ApplyMigration
<1>4. OpeningType'
  BY <1>3 DEF MigrationInv, OpeningType, NextFile, Fail, Steps, Errors
<1>5. ReplicaInv(r)'
  <2>1. CASE Fail(r, "database")
    BY <2>1, ReplicasAssumption
    DEF MigrationInv, OpeningType, Fail, Unlocked, ReplicaInv, At, Working
  <2>2. CASE NextFile(r) /\ lock' = lock
    <3>1. /\ opening'[r].step = "checking" /\ opening'[r].file = opening[r].file + 1
          /\ opening'[r].error = opening[r].error
      BY Zenon, <2>2 DEF MigrationInv, OpeningType, NextFile
    <3>2. /\ opening[r].file \in Nat \ {0} /\ opening[r].file <= Len(Files[r])
          /\ \A i \in 1 .. Len(applied) : applied[i] = Files[r][i]
          /\ opening[r].error # "record"
      <4>1. opening[r].file \in Nat \ {0}
        BY Zenon DEF MigrationInv, OpeningType
      <4>2. opening[r].file <= Len(Files[r]) /\ Matched(r) /\ opening[r].error # "record"
        BY Zenon, <1>1 DEF MigrationInv, ReplicaInv, Working
      <4>3. Len(applied) + 1 = opening[r].file /\ Len(applied) \in Nat
        BY <1>1, AppliedIsNext DEF MigrationInv, SchemaInv
      <4> QED BY <4>1, <4>2, <4>3 DEF Matched
    <3>3. Matched(r)'
      BY <1>1, <1>2, <3>1, <3>2, AppliedIsNext, ApplySchema, FilesAreSequences DEF Matched, File
    <3> QED BY Zenon, <1>1, <2>2, <3>1, <3>2, <3>3 DEF ReplicaInv, At, Working
  <2> QED BY Zenon, <1>3, <2>1, <2>2
<1>6. ASSUME NEW q \in Replicas, q # r PROVE ReplicaInv(q)'
  <2>1. opening'[q] = opening[q]
    BY Zenon, <1>3, <1>6 DEF MigrationInv, OpeningType, NextFile, Fail
  <2>2. lock # q /\ lock' # q
    BY <1>1, <1>3, <1>6, ReplicasAssumption DEF Fail, Unlocked
  <2>3. ~Working(q) /\ ~Working(q)'
    BY Zenon, <2>1, <2>2 DEF MigrationInv, ReplicaInv, Working, At
  <2>4. IsPrefixOf(Files[q], applied) => IsPrefixOf(Files[q], applied')
    BY <1>1, <1>2, ApplySchema, FilesAreSequences DEF IsPrefixOf
  <2> QED BY Zenon, <2>1, <2>2, <2>3, <2>4 DEF MigrationInv, ReplicaInv, At, Working, IsPrefixOf
<1>7. SchemaInv'
  BY Zenon, <1>1, <1>2, ApplySchema
<1> QED BY Zenon, <1>4, <1>5, <1>6, <1>7 DEF MigrationInv

(* Releasing the lock after the last file keeps the invariant.              *)
LEMMA OpenedKeeps ==
  ASSUME MigrationInv, NEW r \in Replicas, Opened(r)
  PROVE  MigrationInv'
<1>1. OpeningType'
  BY Zenon DEF MigrationInv, OpeningType, Opened, Steps
<1>2. ReplicaInv(r)'
  <2>1. IsPrefixOf(Files[r], applied)
    <3>1. opening[r].file = Len(Files[r]) + 1 /\ Matched(r)
      BY FilesAreSequences
      DEF MigrationInv, OpeningType, Opened, ReplicaInv, Working, Matched
    <3>2. Len(Files[r]) \in Nat /\ Len(applied) \in Nat
      BY FilesAreSequences DEF MigrationInv, SchemaInv
    <3> QED BY <3>1, <3>2 DEF Matched, IsPrefixOf
  <2> QED BY <2>1, ReplicasAssumption
    DEF MigrationInv, OpeningType, Opened, Unlocked, ReplicaInv, At, Working, IsPrefixOf
<1>3. ASSUME NEW q \in Replicas, q # r PROVE ReplicaInv(q)'
  BY Zenon, <1>3, OthersUntouched, ReplicasAssumption DEF MigrationInv, OpeningType, Opened, Unlocked
<1> QED BY Zenon, <1>1, <1>2, <1>3, SchemaUntouched DEF MigrationInv, Opened

(* A process that dies at any step gives up its lock and keeps the          *)
(* invariant.                                                               *)
LEMMA CrashKeeps ==
  ASSUME MigrationInv, NEW r \in Replicas, Crash(r)
  PROVE  MigrationInv'
<1>1. OpeningType'
  BY DEF MigrationInv, OpeningType, Crash, Closed, Steps, Errors
<1>2. ReplicaInv(r)'
  BY Zenon, ReplicasAssumption
  DEF MigrationInv, OpeningType, Crash, Closed, Unlocked, ReplicaInv, At, Working
<1>3. ASSUME NEW q \in Replicas, q # r PROVE ReplicaInv(q)'
  BY Zenon, <1>3, OthersUntouched, ReplicasAssumption DEF MigrationInv, OpeningType, Crash, Unlocked
<1> QED BY Zenon, <1>1, <1>2, <1>3, SchemaUntouched DEF MigrationInv, Crash

(* Every step of Open keeps the invariant.                                  *)
LEMMA OpenNextKeeps ==
  ASSUME MigrationInv, NEW r \in Replicas, OpenNext(r)
  PROVE  MigrationInv'
<1>1. CASE DatabaseFails(r)
  BY Zenon, <1>1, FailKeeps DEF DatabaseFails, Errors
<1> QED
  BY Zenon, <1>1, ConnectKeeps, LockKeeps, CheckKeeps, ApplyKeeps, OpenedKeeps, CrashKeeps
  DEF OpenNext, OpenStep

-----------------------------------------------------------------------------
(* The service *)

(* What New has opened when it makes a part, or when it has failed.         *)
OpenedBefore(part) ==
  CASE part \in {"credentials", "store", "failed"} -> {}
    [] part = "reader" -> {"store"}
    [] part \in {"handler", "connection"} -> {"store", "reader"}
    [] part \in {"publisher", "evaluator", "worker"} -> {"store", "reader", "connection"}

Stages == {"idle", "management", "grpc", "stopping", "clients", "draining", "done"}

ServiceInv ==
  /\ built \in Parts \cup {"serving", "failed"}
  /\ shutdown \in [stage : Stages, timeout : BOOLEAN, error : BOOLEAN]
  /\ callers \in [Callers \cup {"Run"} -> {"none", "in", "ok", "error"}]
  /\ built # "serving" => resources = OpenedBefore(built)
  /\ run # "new" => built = "serving"
  /\ shutdown.stage # "idle" => built = "serving"
  /\ Opening(Main) => built = "store"
  /\ shutdown.stage \in {"draining", "done"} => resources = {}
  /\ shutdown.stage = "done" => using = {}
  /\ \A c \in Callers \cup {"Run"} :
       callers[c] \in {"ok", "error"} => shutdown.stage = "done" /\ callers[c] = Outcome

Inv == MigrationInv /\ ServiceInv

(* The inductive invariant holds before the first process starts.           *)
LEMMA ServiceStart == Init => Inv
<1> SUFFICES ASSUME Init PROVE Inv
  BY Zenon
<1>1. MigrationInv
  BY Zenon, MigrationInit DEF Init
<1>2. ServiceInv
  BY Zenon, MainAssumption
  DEF Init, ServiceInit, MigrationsInit, ServiceInv, Parts, Stages, OpenedBefore, Opening, At, Closed
<1> QED BY Zenon, <1>1, <1>2 DEF Inv

(* No step of the service disturbs the migrations.                          *)
LEMMA MigrationStep == Inv /\ [Next]_vars => MigrationInv'
<1> SUFFICES ASSUME Inv, [Next]_vars PROVE MigrationInv'
  BY Zenon
<1>1. CASE \E r \in Replicas : OpenStore(r)
  BY Zenon, <1>1, OpenNextKeeps DEF OpenStore, Inv
<1>2. CASE UNCHANGED migrationVars
  BY <1>2
  DEF Inv, MigrationInv, OpeningType, SchemaInv, ReplicaInv, migrationVars, IsPrefixOf, At, Working,
      Matched, Duplicated, File, Recorded
<1>3. \/ \E r \in Replicas : OpenStore(r)
      \/ UNCHANGED migrationVars
  BY Zenon DEF Next, vars, Build, Signal, StartRun, Listen, Select, CallShutdown, LeaveShutdown,
         ShutdownStep, Work
<1> QED BY Zenon, <1>1, <1>2, <1>3

(* Each part that New builds, or fails to build, keeps account of what is   *)
(* open.                                                                    *)
LEMMA BuildKeeps == Inv /\ Build => ServiceInv'
<1> SUFFICES ASSUME Inv, Build PROVE ServiceInv'
  BY Zenon
<1>1. built \in Parts /\ resources = OpenedBefore(built)
  BY Zenon DEF Build, Inv, ServiceInv, Parts
<1>2. built' \in Parts \cup {"serving", "failed"}
  BY Zenon, <1>1 DEF Build, NextPart, FailNew, Parts
<1>3. built' # "serving" => resources' = OpenedBefore(built')
  <2>1. CASE FailNew(built)
    BY Zenon, <1>1, <2>1 DEF FailNew, ClosedOnError, OpenedBefore, Parts
  <2>2. CASE built' = NextPart(built) /\ resources' = resources \cup Opens(built)
    BY Zenon, <1>1, <2>2 DEF NextPart, Opens, OpenedBefore, Parts
  <2> QED BY Zenon, <2>1, <2>2 DEF Build
<1>4. ~Opening(Main)'
  BY Zenon DEF Build, Inv, ServiceInv, Opening, At, migrationVars
<1>5. run' = "new" /\ shutdown' = shutdown /\ shutdown.stage = "idle" /\ callers' = callers
  BY Zenon, <1>1 DEF Build, Inv, ServiceInv, Parts
<1> QED BY Zenon, <1>2, <1>3, <1>4, <1>5 DEF Inv, ServiceInv, Stages

(* So does opening the store, with the migrations that belong to it.        *)
LEMMA OpenStoreKeeps ==
  ASSUME Inv, NEW r \in Replicas, OpenStore(r)
  PROVE  ServiceInv'
<1>1. Opening(Main)' => built = "store"
  <2>1. CASE r = Main
    BY Zenon, <2>1 DEF OpenStore
  <2>2. CASE r # Main
    <3>1. opening'[Main] = opening[Main]
      BY Zenon, <2>2, MainAssumption
      DEF Inv, MigrationInv, OpeningType, OpenStore, OpenNext, OpenStep, Connect, LockMigrations,
          CheckMigration, ApplyMigration, Opened, DatabaseFails, Crash, Fail, NextFile
    <3> QED BY Zenon, <3>1 DEF Inv, ServiceInv, Opening, At
  <2> QED BY Zenon, <2>1, <2>2
<1> QED BY Zenon, <1>1 DEF OpenStore, Inv, ServiceInv, serviceVars, Outcome

(* A call of Shutdown from a service that was built.                        *)
LEMMA EnterKeeps ==
  ASSUME Inv, NEW c \in Callers \cup {"Run"}, EnterShutdown(c),
         built = "serving", UNCHANGED <<migrationVars, built, resources, using>>
  PROVE  ServiceInv'
<1>1. shutdown' \in [stage : Stages, timeout : BOOLEAN, error : BOOLEAN]
  BY Zenon DEF Inv, ServiceInv, EnterShutdown, Stages
<1>2. callers' \in [Callers \cup {"Run"} -> {"none", "in", "ok", "error"}]
  BY Zenon DEF Inv, ServiceInv, EnterShutdown
<1>3. /\ shutdown'.stage \in {"draining", "done"} => shutdown' = shutdown
      /\ shutdown.stage = "done" => shutdown' = shutdown
  BY Zenon DEF Inv, ServiceInv, EnterShutdown, Stages
<1>4. ASSUME NEW d \in Callers \cup {"Run"}, callers'[d] \in {"ok", "error"}
      PROVE  shutdown'.stage = "done" /\ callers'[d] = Outcome'
  <2>1. d # c /\ callers'[d] = callers[d]
    BY Zenon, <1>4 DEF Inv, ServiceInv, EnterShutdown
  <2> QED BY Zenon, <1>3, <1>4, <2>1 DEF Inv, ServiceInv, Outcome
<1>5. Opening(Main)' = Opening(Main)
  BY Zenon DEF Opening, At, migrationVars
<1> QED BY Zenon, <1>1, <1>2, <1>3, <1>4, <1>5 DEF Inv, ServiceInv

(* Each step of Shutdown keeps account of what is still open.               *)
LEMMA ShutdownStepKeeps == Inv /\ ShutdownStep => ServiceInv'
<1> SUFFICES ASSUME Inv, ShutdownStep PROVE ServiceInv'
  BY Zenon
<1>1. shutdown.stage \notin {"idle", "done"} /\ built = "serving"
  BY Zenon DEF Inv, ServiceInv, ShutdownStep, ShutdownTimeout, StopManagement, GracefulStop, Stop, Stage,
         CloseClients, CloseStore
<1>2. shutdown' \in [stage : Stages, timeout : BOOLEAN, error : BOOLEAN]
  <2>1. shutdown \in [stage : Stages, timeout : BOOLEAN, error : BOOLEAN]
    BY Zenon DEF Inv, ServiceInv
  <2>2. CASE ShutdownTimeout
    BY Zenon, <2>1, <2>2 DEF ShutdownTimeout
  <2>3. CASE StopManagement
    BY Zenon, <2>1, <2>3 DEF StopManagement, Stages
  <2>4. CASE GracefulStop \/ Stop \/ CloseStore
    BY Zenon, <2>1, <2>4 DEF GracefulStop, Stop, CloseStore, Stage, Stages
  <2>5. CASE CloseClients
    BY Zenon, <2>1, <2>5 DEF CloseClients, Stages
  <2> QED BY Zenon, <2>2, <2>3, <2>4, <2>5 DEF ShutdownStep
<1>3. /\ shutdown'.stage \in {"draining", "done"} => resources' = {}
      /\ shutdown'.stage = "done" => using' = {}
  BY Zenon DEF Inv, ServiceInv, ShutdownStep, ShutdownTimeout, StopManagement, GracefulStop, Stop, Stage,
         CloseClients, CloseStore, Stages
<1>4. \A c \in Callers \cup {"Run"} : callers'[c] \notin {"ok", "error"}
  BY Zenon, <1>1 DEF Inv, ServiceInv, ShutdownStep
<1>5. Opening(Main)' = Opening(Main)
  BY Zenon DEF ShutdownStep, Opening, At, migrationVars
<1> QED BY Zenon, <1>1, <1>2, <1>3, <1>4, <1>5 DEF Inv, ServiceInv, ShutdownStep

(* A caller that leaves Shutdown has its result and everything is released. *)
LEMMA LeaveKeeps ==
  ASSUME Inv, NEW c \in Callers \cup {"Run"}, LeaveShutdown(c)
  PROVE  ServiceInv'
<1>1. shutdown.stage = "done" /\ built = "serving" /\ shutdown' = shutdown /\ Outcome' = Outcome
  BY Zenon DEF Inv, ServiceInv, LeaveShutdown, Outcome
<1>2. Outcome \in {"ok", "error"}
  BY Zenon DEF Outcome
<1>3. callers' \in [Callers \cup {"Run"} -> {"none", "in", "ok", "error"}]
  BY Zenon, <1>2 DEF Inv, ServiceInv, LeaveShutdown
<1>4. ASSUME NEW d \in Callers \cup {"Run"}, callers'[d] \in {"ok", "error"}
      PROVE  callers'[d] = Outcome
  BY Zenon, <1>4 DEF Inv, ServiceInv, LeaveShutdown
<1>5. Opening(Main)' = Opening(Main)
  BY Zenon DEF LeaveShutdown, Opening, At, migrationVars
<1> QED BY Zenon, <1>1, <1>3, <1>4, <1>5 DEF Inv, ServiceInv, LeaveShutdown

(* Goroutines, probes and RPCs that go on meanwhile open nothing.           *)
LEMMA WorkKeeps == Inv /\ Work => ServiceInv'
<1> SUFFICES ASSUME Inv, Work PROVE ServiceInv'
  BY Zenon
<1>1. shutdown.stage = "done" => using' = {}
  <2> SUFFICES ASSUME shutdown.stage = "done" PROVE using' = {}
    BY Zenon
  <2>1. using = {} /\ resources = {}
    BY Zenon DEF Inv, ServiceInv
  <2>2. \A u \in PoolUsers : ~Acquire(u) /\ ~Release(u)
    BY Zenon, <2>1 DEF Acquire, Release
  <2> QED BY Zenon, <2>1, <2>2 DEF Work, Break, Report, End, Arrive, Finish
<1>2. Opening(Main)' = Opening(Main)
  BY Zenon DEF Work, Opening, At, migrationVars
<1> QED BY Zenon, <1>1, <1>2 DEF Inv, ServiceInv, Work, Outcome

(* Every step keeps account of what the process holds.                      *)
LEMMA ServiceStep == Inv /\ [Next]_vars => ServiceInv'
<1> SUFFICES ASSUME Inv, [Next]_vars PROVE ServiceInv'
  BY Zenon
<1>1. CASE \E r \in Replicas : OpenStore(r)
  BY Zenon, <1>1, OpenStoreKeeps
<1>2. CASE Signal \/ StartRun \/ UNCHANGED vars
  <2>1. Opening(Main)' = Opening(Main)
    BY Zenon, <1>2 DEF Signal, StartRun, vars, migrationVars, Opening, At
  <2> QED BY Zenon, <1>2, <2>1 DEF Signal, StartRun, vars, serviceVars, Inv, ServiceInv, Outcome
<1>3. CASE Listen
  <2>1. built = "serving" /\ run = "listening"
    BY Zenon, <1>3 DEF Listen, Inv, ServiceInv
  <2>2. CASE EnterShutdown("Run")
    BY Zenon, <1>3, <2>1, <2>2, EnterKeeps DEF Listen
  <2>3. CASE UNCHANGED <<runCancelled, shutdown, callers>>
    <3>1. Opening(Main)' = Opening(Main)
      BY Zenon, <1>3 DEF Listen, migrationVars, Opening, At
    <3> QED BY Zenon, <1>3, <2>1, <2>3, <3>1 DEF Listen, Inv, ServiceInv, Outcome
  <2> QED BY Zenon, <1>3, <2>2, <2>3 DEF Listen
<1>4. CASE Select
  <2>1. built = "serving"
    BY Zenon, <1>4 DEF Select, Inv, ServiceInv
  <2> QED BY Zenon, <1>4, <2>1, EnterKeeps DEF Select
<1>5. CASE \E c \in Callers : CallShutdown(c)
  BY Zenon, <1>5, EnterKeeps DEF CallShutdown
<1>6. CASE \E c \in Callers \cup {"Run"} : LeaveShutdown(c)
  BY Zenon, <1>6, LeaveKeeps
<1> QED BY Zenon, <1>1, <1>2, <1>3, <1>4, <1>5, <1>6, BuildKeeps, ShutdownStepKeeps, WorkKeeps DEF Next

(* Every step keeps the inductive invariant.                                *)
LEMMA InvStep == Inv /\ [Next]_vars => Inv'
BY Zenon, MigrationStep, ServiceStep DEF Inv

-----------------------------------------------------------------------------

(* The inductive invariant: the schema under the advisory lock, and what    *)
(* New and Shutdown have opened and closed.                                 *)
THEOREM ServiceCorrect == Spec => []Inv
BY ServiceStart, InvStep, PTL DEF Spec

(* However replicas of different builds, each with its files numbered 1, 2, *)
(* ..., start, fail and die in Open, what is in effect is what the ledger   *)
(* records, and every replica whose Open succeeded runs on the migrations   *)
(* of its own build (migrations.go).                                        *)
THEOREM OneSchemaCorrect == Spec => []OneSchema
<1>1. Inv => OneSchema
  BY Zenon DEF Inv, MigrationInv, SchemaInv, ReplicaInv, OneSchema
<1> QED BY <1>1, ServiceCorrect, PTL

(* The advisory lock keeps two replicas from recording the same version     *)
(* (migrations.go:30-33).                                                   *)
THEOREM StartsNeverCollideCorrect == Spec => []StartsNeverCollide
<1>1. Inv => StartsNeverCollide
  BY Zenon DEF Inv, MigrationInv, ReplicaInv, StartsNeverCollide
<1> QED BY <1>1, ServiceCorrect, PTL

(* New that fails and Shutdown that returns leave nothing open, for any     *)
(* number of callers of Shutdown (conformance.go:74-153, 239-272).          *)
THEOREM ReturnedMeansReleasedCorrect == Spec => []ReturnedMeansReleased
<1>1. Inv => ReturnedMeansReleased
  <2> SUFFICES ASSUME Inv PROVE ReturnedMeansReleased
    BY Zenon
  <2>1. DOMAIN callers = Callers \cup {"Run"}
    BY Zenon DEF Inv, ServiceInv
  <2>2. built = "failed" => resources = {}
    BY Zenon DEF Inv, ServiceInv, OpenedBefore
  <2>3. built = "failed" => lock # Main
    BY Zenon, MainAssumption DEF Inv, ServiceInv, MigrationInv, ReplicaInv, Working, Opening, At
  <2> QED BY Zenon, <2>1, <2>2, <2>3 DEF Inv, ServiceInv, ReturnedMeansReleased
<1> QED BY <1>1, ServiceCorrect, PTL

====
