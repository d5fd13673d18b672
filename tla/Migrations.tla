----------------------------- MODULE Migrations -----------------------------
(***************************************************************************)
(* scripts/db-migrate.ts, as run by several deployments at once: no lock   *)
(* is taken, and whether a file is done is read before its transaction     *)
(* begins.  The statements of a file run in one transaction with the row   *)
(* that records it.  Every file creates objects without IF NOT EXISTS, so  *)
(* a second transaction in the same file waits for the first, fails if it  *)
(* commits and goes on if it rolls back.                                   *)
(***************************************************************************)
EXTENDS Naturals, FiniteSets

CONSTANTS Migrators, \* processes running the script
          MaxFile,   \* bound: files, by their place in the sorted directory
          MaxStarts  \* bound: times a process is started

ASSUME MigrationAssumption == MaxFile \in Nat

VARIABLES
    done,     \* names in schema_migrations
    applied,  \* history: times the statements of a file were committed
    migrator, \* [at, step, mine]: the file, the next statement, applied but not committed
    starts    \* [migrator -> times started]

migrationVars == <<done, applied, migrator, starts>>

Files == 1 .. MaxFile
Stopped == [at |-> 0, step |-> "stopped", mine |-> {}]

MigrationInit ==
    /\ done = {}
    /\ applied = [f \in Files |-> 0]
    /\ migrator = [m \in Migrators |-> Stopped]
    /\ starts = [m \in Migrators |-> 0]

Moved(m, at, step, mine) == [migrator EXCEPT ![m] = [at |-> at, step |-> step, mine |-> mine]]
Ended(m) == [migrator EXCEPT ![m] = Stopped]

StartMigrator(m) ==
    /\ migrator[m].step = "stopped" /\ starts[m] < MaxStarts
    /\ starts' = [starts EXCEPT ![m] = @ + 1]
    /\ migrator' = Moved(m, 1, "select", {})
    /\ UNCHANGED <<done, applied>>

\* A file that is done is passed over; the end of the list closes the connection.
Select(m) ==
    LET file == migrator[m].at
    IN  /\ migrator[m].step = "select"
        /\ \/ file > MaxFile /\ migrator' = Ended(m)
           \/ file \in done /\ migrator' = Moved(m, file + 1, "select", {})
           \/ file \in Files \ done /\ migrator' = Moved(m, file, "begin", {})
        /\ UNCHANGED <<done, applied, starts>>

\* Another transaction holds the objects the file creates.
Blocked(m) == \E other \in Migrators \ {m} : migrator[m].at \in migrator[other].mine

\* Mutant: each statement commits on its own.
ApplyWithoutBegin(m) ==
    LET file == migrator[m].at
    IN  /\ migrator[m].step = "begin" /\ applied[file] = 0
        /\ applied' = [applied EXCEPT ![file] = @ + 1]
        /\ migrator' = Moved(m, file, "insert", {})
        /\ UNCHANGED <<done, starts>>

\* BEGIN and the file; what it creates may have been committed since the SELECT.
Apply(m) ==
    LET file == migrator[m].at
    IN  /\ migrator[m].step = "begin" /\ ~Blocked(m)
        /\ migrator' = IF applied[file] > 0 THEN Ended(m) ELSE Moved(m, file, "insert", {file})
        /\ UNCHANGED <<done, applied, starts>>

\* The row and COMMIT; name is the primary key.
Record(m) ==
    LET file == migrator[m].at
    IN  /\ migrator[m].step = "insert" /\ file \notin done
        /\ done' = done \union {file}
        /\ applied' = [f \in Files |-> applied[f] + IF f \in migrator[m].mine THEN 1 ELSE 0]
        /\ migrator' = Moved(m, file + 1, "select", {})
        /\ UNCHANGED starts

\* A statement fails or the process dies: the transaction is rolled back.
StopMigrator(m) ==
    /\ migrator[m].step # "stopped"
    /\ migrator' = Ended(m)
    /\ UNCHANGED <<done, applied, starts>>

MigrationNext ==
    \E m \in Migrators : StartMigrator(m) \/ Select(m) \/ Apply(m) \/ Record(m) \/ StopMigrator(m)

-----------------------------------------------------------------------------
(***************************************************************************)
(* Whatever deployments run, die and run again, a migration is committed   *)
(* once, exactly when it is recorded, and never before an earlier one.     *)
(***************************************************************************)
MigratedOnce ==
    /\ \A f \in Files : applied[f] = IF f \in done THEN 1 ELSE 0
    /\ \A f \in done : 1 .. f \subseteq done
=============================================================================
