--------------------------- MODULE SchemaMigrations ---------------------------
(***************************************************************************)
(* Opening the store (store.go Open, migrations.go migrate): replicas of   *)
(* possibly different builds start on one database and bring its schema    *)
(* up to date under a session-level advisory lock, each migration and its  *)
(* ledger row in one transaction.                                          *)
(*                                                                         *)
(* The SQL of a migration is its checksum; what it does to the schema is   *)
(* that it is appended to `applied'.  Reading the ledger and applying the  *)
(* file are two steps of one transaction, between which other sessions run *)
(* if nothing keeps them out.                                              *)
(***************************************************************************)
EXTENDS Integers, Sequences, FiniteSets

CONSTANTS
  Replicas,
  Files,        \* per replica, its build's migrations in the order of their names
  Deployments,  \* the sets of replicas that may be started together
  NoReplica,
  Mortal,       \* bound: the replicas that may die while they open the store
  MaxCrashes    \* bound: how often that happens

(* A migration is a record of a version and a checksum.                     *)
Migrations == UNION {{Files[r][i] : i \in 1 .. Len(Files[r])} : r \in Replicas}

ASSUME FilesAssumption ==
  /\ Replicas # {} /\ Files \in [Replicas -> Seq(Migrations)]
  /\ \A m, n \in Migrations : m.version = n.version /\ m.checksum = n.checksum => m = n

(* Builds number their files 1, 2, ...; a build may repeat a number.        *)
ASSUME NumberingAssumption ==
  \A r \in Replicas : \A i \in 1 .. Len(Files[r]) :
    \/ Files[r][i].version = i
    \/ \E j \in 1 .. i - 1 : Files[r][j].version = Files[r][i].version

ASSUME ReplicasAssumption ==
  /\ NoReplica \notin Replicas /\ Deployments \subseteq SUBSET Replicas
  /\ Mortal \subseteq Replicas /\ MaxCrashes \in Nat

VARIABLES
  deployed,  \* the replicas of this behaviour
  ledger,    \* schema_migrations: [version, checksum]
  applied,   \* the migrations whose statements are in effect, oldest first
  lock,      \* the replica whose session holds the advisory lock
  opening,   \* per replica, where its call of Open is: [step, file, error]
  crashes

migrationVars == <<deployed, ledger, applied, lock, opening, crashes>>

Closed == [step |-> "idle", file |-> 1, error |-> "none"]

MigrationsInit ==
  /\ deployed \in Deployments
  /\ ledger = {}
  /\ applied = <<>>
  /\ lock = NoReplica
  /\ opening = [r \in Replicas |-> Closed]
  /\ crashes = 0

-----------------------------------------------------------------------------

At(r, step) == opening[r].step = step
Opening(r) == At(r, "locking") \/ At(r, "checking") \/ At(r, "applying")
File(r) == Files[r][opening[r].file]
Recorded(version) == {row \in ledger : row.version = version}

(* The session gives up the lock, by unlocking it or by ending.             *)
Unlocked(r) == IF lock = r THEN NoReplica ELSE lock

(* migrate returns an error: its deferred calls unlock and release the      *)
(* connection, and Open closes the pool.                                    *)
Fail(r, error) ==
  /\ opening' = [opening EXCEPT ![r].step = "failed", ![r].error = error]
  /\ lock' = Unlocked(r)

NextFile(r) ==
  opening' = [opening EXCEPT ![r].step = "checking", ![r].file = opening[r].file + 1]

(* The pool is made, the database answers, and a connection is acquired.    *)
Connect(r) ==
  /\ At(r, "idle") /\ r \in deployed
  /\ opening' = [opening EXCEPT ![r].step = "locking"]
  /\ UNCHANGED <<deployed, ledger, applied, lock, crashes>>

(* Mutant: the lock is not exclusive.                                       *)
LockMigrations_Shared(r) ==
  /\ At(r, "locking")
  /\ lock' = r
  /\ opening' = [opening EXCEPT ![r].step = "checking"]
  /\ UNCHANGED <<deployed, ledger, applied, crashes>>

(* pg_advisory_lock waits for the session that holds it; then the ledger is *)
(* created if it is missing.                                                *)
LockMigrations(r) ==
  /\ At(r, "locking")
  /\ lock = NoReplica
  /\ lock' = r
  /\ opening' = [opening EXCEPT ![r].step = "checking"]
  /\ UNCHANGED <<deployed, ledger, applied, crashes>>

(* The version of this file was met before in the same build.               *)
Duplicated(r) ==
  \E i \in 1 .. opening[r].file - 1 : Files[r][i].version = File(r).version

(* Mutant: an applied migration is not compared with the file.              *)
CheckMigration_NoChecksum(r) ==
  /\ At(r, "checking") /\ opening[r].file <= Len(Files[r])
  /\ \/ Duplicated(r) /\ Fail(r, "duplicate")
     \/ ~Duplicated(r) /\ Recorded(File(r).version) # {} /\ NextFile(r) /\ UNCHANGED lock
     \/ /\ ~Duplicated(r) /\ Recorded(File(r).version) = {}
        /\ opening' = [opening EXCEPT ![r].step = "applying"]
        /\ UNCHANGED lock
  /\ UNCHANGED <<deployed, ledger, applied, crashes>>

CheckMigration(r) ==
  /\ At(r, "checking") /\ opening[r].file <= Len(Files[r])
  /\ \/ Duplicated(r) /\ Fail(r, "duplicate")
     \/ /\ ~Duplicated(r)
        /\ \E row \in Recorded(File(r).version) : row.checksum # File(r).checksum
        /\ Fail(r, "checksum")
     \/ /\ ~Duplicated(r)
        /\ \E row \in Recorded(File(r).version) : row.checksum = File(r).checksum
        /\ NextFile(r) /\ UNCHANGED lock
     \/ /\ ~Duplicated(r) /\ Recorded(File(r).version) = {}
        /\ opening' = [opening EXCEPT ![r].step = "applying"]
        /\ UNCHANGED lock
  /\ UNCHANGED <<deployed, ledger, applied, crashes>>

(* The statements of the file and its ledger row commit together.  The row  *)
(* may be there by now, and the answer to the commit may be lost.           *)
ApplyMigration(r) ==
  /\ At(r, "applying")
  /\ \/ /\ Recorded(File(r).version) # {}
        /\ Fail(r, "record")
        /\ UNCHANGED <<ledger, applied>>
     \/ /\ Recorded(File(r).version) = {}
        /\ ledger' = ledger \cup {File(r)}
        /\ applied' = Append(applied, File(r))
        /\ \/ NextFile(r) /\ UNCHANGED lock
           \/ Fail(r, "database")
  /\ UNCHANGED <<deployed, crashes>>

(* Mutant: the connection goes back to the pool with the lock.              *)
Opened_Locked(r) ==
  /\ At(r, "checking") /\ opening[r].file > Len(Files[r])
  /\ opening' = [opening EXCEPT ![r].step = "open"]
  /\ UNCHANGED <<deployed, ledger, applied, lock, crashes>>

Opened(r) ==
  /\ At(r, "checking") /\ opening[r].file > Len(Files[r])
  /\ opening' = [opening EXCEPT ![r].step = "open"]
  /\ lock' = Unlocked(r)
  /\ UNCHANGED <<deployed, ledger, applied, crashes>>

(* A statement fails or the context is cancelled: the transaction, if any,  *)
(* is rolled back.                                                          *)
DatabaseFails(r) ==
  /\ Opening(r)
  /\ Fail(r, "database")
  /\ UNCHANGED <<deployed, ledger, applied, crashes>>

(* The process dies; the server ends its session.  It may be started again. *)
Crash(r) ==
  /\ Opening(r) /\ r \in Mortal
  /\ crashes < MaxCrashes
  /\ crashes' = crashes + 1
  /\ opening' = [opening EXCEPT ![r] = Closed]
  /\ lock' = Unlocked(r)
  /\ UNCHANGED <<deployed, ledger, applied>>

(* What Open does by itself, without a fault.                               *)
OpenStep(r) ==
  LockMigrations(r) \/ CheckMigration(r) \/ ApplyMigration(r) \/ Opened(r)

OpenNext(r) == Connect(r) \/ OpenStep(r) \/ DatabaseFails(r) \/ Crash(r)

-----------------------------------------------------------------------------
(* Properties                                                              *)

IsPrefixOf(s, t) == Len(s) <= Len(t) /\ \A i \in 1 .. Len(s) : s[i] = t[i]

(* Mixed builds never make a mixed schema: the statements in effect are the *)
(* first migrations of one build, each once and in order, whatever replicas *)
(* started, failed or died on the way; the ledger says exactly that; and a  *)
(* replica whose store is open has every migration of its own build in      *)
(* effect (migrations.go:63-91, "checksum changed after application").      *)
OneSchema ==
  /\ \E r \in Replicas : IsPrefixOf(applied, Files[r])
  /\ ledger = {applied[i] : i \in DOMAIN applied}
  /\ \A r \in Replicas : At(r, "open") => IsPrefixOf(Files[r], applied)

(* Opening the store ends, whatever other replicas do with the lock: it is  *)
(* given up by success, error and death alike (migrations.go:29, 33).       *)
StartsComplete == (\E r \in Replicas : Opening(r)) ~> (\A r \in Replicas : ~Opening(r))

(* Starting together costs no replica its start: none meets the ledger row  *)
(* another one inserted after it looked (docs/deployment.md:6, "designed    *)
(* for multiple replicas: advisory-locked migrations").                     *)
StartsNeverCollide == \A r \in Replicas : opening[r].error # "record"

=============================================================================
