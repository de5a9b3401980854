----------------------------- MODULE Migrations -----------------------------
(***************************************************************************)
(* The migration runner, in several processes that start together: servers *)
(* of different releases, which go on to serve, and `npm run migrate`,     *)
(* which exits.  Nothing keeps two of them apart but what PostgreSQL does  *)
(* about it: DDL locks its table to the end of the transaction, a unique   *)
(* name waits for the transaction that inserted it, and both then fail.    *)
(*                                                                         *)
(* A file is its number; a table is known by the last file applied to it.  *)
(* A release has the files up to a number: later ones add to the end.      *)
(***************************************************************************)
EXTENDS Naturals, Sequences, FiniteSetsExt

CONSTANTS
    Servers,        \* processes that run index.ts
    Tools,          \* processes that run run-migrations.ts
    Release         \* the number of migration files each has in its directory

Runners == Servers \cup Tools

\* migrations/*.sql: the table each creates or alters, and whether its SQL can be
\* applied again (DROP CONSTRAINT IF EXISTS, ADD CONSTRAINT) or fails then (CREATE
\* TABLE, ADD COLUMN).
Migration == <<
    [table |-> "email_verifications", repeatable |-> FALSE],
    [table |-> "email_verifications", repeatable |-> FALSE],
    [table |-> "identities",          repeatable |-> FALSE],
    [table |-> "credentials",         repeatable |-> FALSE],
    [table |-> "accounts",            repeatable |-> FALSE],
    [table |-> "accounts",            repeatable |-> TRUE],
    [table |-> "accounts",            repeatable |-> TRUE] >>

Tables == {Migration[f].table : f \in DOMAIN Migration}

Files(r) == 1 .. Release[r]

ASSUME ReleaseAssumption ==
    /\ Servers \cap Tools = {}
    /\ Release \in [Runners -> DOMAIN Migration]

VARIABLES
    schema,     \* committed: the last file applied to each table, 0 if none
    applied,    \* committed: the names in _migrations
    pc,         \* what each runner waits for
    todo,       \* its pendingMigrations, as far as they are left
    done        \* those its transaction has applied and recorded

migrationVars == <<schema, applied, pc, todo, done>>

Pc == {"down", "list", "apply", "record", "commit", "up"}

MigrationsTypeOK ==
    /\ schema \in [Tables -> 0 .. Len(Migration)]
    /\ applied \subseteq DOMAIN Migration
    /\ pc \in [Runners -> Pc]
    /\ todo \in [Runners -> SUBSET (DOMAIN Migration)]
    /\ done \in [Runners -> SUBSET (DOMAIN Migration)]

-----------------------------------------------------------------------------
(* What the first n migrations make of an empty database.                  *)

LastOn(t, files) == Max({0} \cup {f \in files : Migration[f].table = t})

Database(n) == [schema |-> [t \in Tables |-> LastOn(t, 1 .. n)], applied |-> 1 .. n]

-----------------------------------------------------------------------------
(* Transactions.                                                           *)

\* Mutant: no sort(), and a directory that lists 4 before 3 where the tools run.
NextFileUnsorted(r) == Min(IF r \in Tools /\ 4 \in todo[r] THEN todo[r] \ {3} ELSE todo[r])

\* pendingMigrations.sort()
NextFile(r) == Min(todo[r])

\* The files whose SQL the open transaction of r has executed.
Executed(r) == done[r] \cup (IF pc[r] = "record" THEN {NextFile(r)} ELSE {})

\* The tables it has locked, to its end.
LockedBy(r) == {Migration[f].table : f \in Executed(r)}

\* What r sees of a table: what is committed or what it has done itself.
Seen(r, t) == Max({schema[t]} \cup {f \in Executed(r) : Migration[f].table = t})

Succeeds(r, f) ==
    LET t == Migration[f].table
        before == LastOn(t, 1 .. f - 1) IN
    IF Migration[f].repeatable THEN Seen(r, t) # 0 ELSE Seen(r, t) = before

Move(r, to, left, did) ==
    /\ pc' = [pc EXCEPT ![r] = to]
    /\ todo' = [todo EXCEPT ![r] = left]
    /\ done' = [done EXCEPT ![r] = did]

\* Mutant: the catch of MigrationRunner.run logs and returns.
RollbackAndServe(r) == Move(r, "up", {}, {})

\* ROLLBACK, throw, process.exit(1); or the death of the process, or of its
\* connection, of which the database makes the same.
Rollback(r) == Move(r, "down", {}, {})

Ready(r) == Move(r, IF r \in Tools THEN "down" ELSE "up", {}, {})

MigrationsInit ==
    /\ \E n \in 0 .. Len(Migration) :        \* left by earlier releases
        schema = Database(n).schema /\ applied = Database(n).applied
    /\ pc = [r \in Runners |-> "down"]
    /\ todo = [r \in Runners |-> {}]
    /\ done = [r \in Runners |-> {}]

\* The process starts; _migrations is created if it does not exist.
Start(r) ==
    /\ pc[r] = "down"
    /\ Move(r, "list", {}, {})
    /\ UNCHANGED <<schema, applied>>

\* getAppliedMigrations, getAllMigrationFiles, and BEGIN if there is any to apply.
List(r) ==
    /\ pc[r] = "list"
    /\ IF Files(r) \subseteq applied THEN Ready(r) ELSE Move(r, "apply", Files(r) \ applied, {})
    /\ UNCHANGED <<schema, applied>>

\* client.query(sql) waits for the lock of its table.
Apply(r) ==
    /\ pc[r] = "apply"
    /\ \A q \in Runners \ {r} : Migration[NextFile(r)].table \notin LockedBy(q)
    /\ IF Succeeds(r, NextFile(r)) THEN Move(r, "record", todo[r], done[r]) ELSE Rollback(r)
    /\ UNCHANGED <<schema, applied>>

AfterRecord(r) ==
    LET f == NextFile(r) IN
    Move(r, IF todo[r] = {f} THEN "commit" ELSE "apply", todo[r] \ {f}, done[r] \cup {f})

\* Mutant: INSERT ... ON CONFLICT (name) DO NOTHING.
RecordTolerant(r) ==
    /\ pc[r] = "record"
    /\ \A q \in Runners \ {r} : NextFile(r) \notin done[q]
    /\ AfterRecord(r)
    /\ UNCHANGED <<schema, applied>>

\* INSERT INTO _migrations: UNIQUE (name) waits for a transaction that has inserted
\* the same name, and is violated by a committed one.
Record(r) ==
    /\ pc[r] = "record"
    /\ \A q \in Runners \ {r} : NextFile(r) \notin done[q]
    /\ IF NextFile(r) \in applied THEN Rollback(r) ELSE AfterRecord(r)
    /\ UNCHANGED <<schema, applied>>

\* The answer of the COMMIT may be lost: then the run fails, what it did stays.
Commit(r) ==
    /\ pc[r] = "commit"
    /\ applied' = applied \cup done[r]
    /\ schema' = [t \in Tables |-> IF t \in LockedBy(r) THEN LastOn(t, done[r]) ELSE schema[t]]
    /\ Ready(r) \/ Rollback(r)

\* An awaited call rejects, or the process dies.
MigrationFails(r) ==
    /\ pc[r] \notin {"down", "up"}
    /\ Rollback(r)
    /\ UNCHANGED <<schema, applied>>

MigrationStep(r) == List(r) \/ Apply(r) \/ Record(r) \/ Commit(r)

\* PostgreSQL grants a lock to those who wait for it in turn.
MigrationFairness ==
    \A r \in Runners :
        WF_migrationVars(List(r) \/ Commit(r)) /\ SF_migrationVars(Apply(r) \/ Record(r))

-----------------------------------------------------------------------------
(* What makes the properties inductive.                                    *)

Version == 0 .. Len(Migration)

At(n) == schema = Database(n).schema /\ applied = Database(n).applied

\* Over version n, r has recorded its files up to k, all in its open transaction or
\* none; a list that starts before n is one the database has left behind.
Reached(r, n, k) ==
    /\ todo[r] = k + 1 .. Release[r]
    /\ (k <= n /\ done[r] = {}) \/ (n < k /\ done[r] = n + 1 .. k)
    /\ pc[r] = "commit" => k = Release[r] /\ n < k
    /\ pc[r] \in {"apply", "record"} => k < Release[r]

RunnerOk(r, n) ==
    /\ pc[r] \in {"down", "list", "up"} => todo[r] = {} /\ done[r] = {}
    /\ pc[r] \in {"apply", "record", "commit"} => \E k \in 0 .. Release[r] : Reached(r, n, k)
    /\ pc[r] = "up" => Release[r] <= n

OneWriter == \A q, r \in Runners : done[q] # {} /\ done[r] # {} => q = r

MigrationsInv ==
    /\ MigrationsTypeOK
    /\ OneWriter
    /\ \E n \in Version : At(n) /\ \A r \in Runners : RunnerOk(r, n)

-----------------------------------------------------------------------------
(* Properties.                                                             *)

Upgrade == INSTANCE SchemaUpgrade
    WITH Versions <- Version,
         database <- [schema |-> schema, applied |-> applied]

\* Whatever releases start together and whatever fails, the tables are those of a
\* version, the names recorded are those of that version, and no late runner of an
\* older release, with a list it read before, takes the database back.
ImplementsSchemaUpgrade == Upgrade!Spec

\* Two runners never wait for each other: every run comes to an end.
RunsEnd == \A r \in Runners : pc[r] \notin {"down", "up"} ~> pc[r] \in {"down", "up"}
=============================================================================
