------------------------------ MODULE Migrate -------------------------------
(***************************************************************************)
(* Schema migrations (src/internal/storage/migrate.go, src/cmd/migrate):   *)
(* MigrateUp and MigrateDown, run by any number of deployments at once.    *)
(*                                                                         *)
(* withTx opens a transaction around the SQL file and its bookkeeping row. *)
(* The files in src/migrations begin and commit a transaction themselves,  *)
(* and a COMMIT inside the simple query protocol ends the one withTx has   *)
(* opened: the file takes effect with its own COMMIT, the statement on     *)
(* schema_migrations is executed on its own, and withTx has nothing left   *)
(* to commit or to roll back.                                              *)
(***************************************************************************)
EXTENDS Integers, FiniteSets

CONSTANTS Migrators,   \* processes that run cmd/migrate
          Versions,    \* the embedded migrations
          MaxFaults    \* bound on failures and crashes

VARIABLES schema,     \* the versions whose tables and triggers exist
          recorded,   \* schema_migrations
          pc,         \* by migrator, what it does next
          direction,  \* by migrator, "up" or "down"
          todo,       \* by migrator, the versions it still has to run
          faults

vars == <<schema, recorded, pc, direction, todo, faults>>

Init ==
    /\ schema = {}
    /\ recorded = {}
    /\ pc = [m \in Migrators |-> "idle"]
    /\ direction = [m \in Migrators |-> "up"]
    /\ todo = [m \in Migrators |-> {}]
    /\ faults = 0

Goto(m, label) == pc' = [pc EXCEPT ![m] = label]

\* The command ends, with or without an error; nothing is undone.
Exit(m) ==
    /\ Goto(m, "idle")
    /\ todo' = [todo EXCEPT ![m] = {}]

\* The newest n of a set of versions, all of them when n is 0.
Newest(S, n) ==
    IF n = 0 THEN S ELSE {v \in S : Cardinality({u \in S : u > v}) < n}

\* The command starts: the bookkeeping table exists, and appliedVersions reads
\* it once, before the first migration is run.
Start(m, dir, steps) ==
    LET left == IF dir = "up" THEN Versions \ recorded
                ELSE Newest(Versions \cap recorded, steps)
    IN
    /\ pc[m] = "idle"
    /\ direction' = [direction EXCEPT ![m] = dir]
    /\ todo' = [todo EXCEPT ![m] = left]
    /\ Goto(m, IF left = {} THEN "idle" ELSE "file")
    /\ UNCHANGED <<schema, recorded, faults>>

\* The version a migrator works on: the oldest on the way up, else the newest.
Current(m, v) ==
    /\ v \in todo[m]
    /\ \A u \in todo[m] : IF direction[m] = "up" THEN v <= u ELSE u <= v

\* tx.Exec of the SQL file, up to the COMMIT it contains.  CREATE TABLE fails
\* when the tables exist; DROP TABLE IF EXISTS never does.
RunFile(m, v) ==
    /\ pc[m] = "file"
    /\ Current(m, v)
    /\ \/ /\ direction[m] = "up" /\ v \in schema
          /\ Exit(m)
          /\ UNCHANGED schema
       \/ /\ direction[m] = "up" => v \notin schema
          /\ schema' = IF direction[m] = "up" THEN schema \cup {v} ELSE schema \ {v}
          /\ Goto(m, "record")
          /\ UNCHANGED todo
    /\ UNCHANGED <<recorded, direction, faults>>

\* INSERT INTO, or DELETE FROM, schema_migrations; an INSERT of a version
\* another migrator has recorded violates the primary key.
Record(m, v) ==
    /\ pc[m] = "record"
    /\ Current(m, v)
    /\ \/ /\ direction[m] = "up" /\ v \in recorded
          /\ Exit(m)
          /\ UNCHANGED recorded
       \/ /\ direction[m] = "up" => v \notin recorded
          /\ recorded' = IF direction[m] = "up" THEN recorded \cup {v}
                         ELSE recorded \ {v}
          /\ todo' = [todo EXCEPT ![m] = @ \ {v}]
          /\ Goto(m, IF todo[m] = {v} THEN "idle" ELSE "file")
    /\ UNCHANGED <<schema, direction, faults>>

\* The process dies, its two minutes are over, or PostgreSQL goes away.  The
\* Rollback of withTx undoes a file that has not reached its COMMIT, no other.
Fail(m) ==
    /\ pc[m] # "idle"
    /\ faults < MaxFaults
    /\ faults' = faults + 1
    /\ Exit(m)
    /\ UNCHANGED <<schema, recorded, direction>>

Next ==
    \E m \in Migrators :
        \/ \E dir \in {"up", "down"}, steps \in 0..Cardinality(Versions) :
              Start(m, dir, steps)
        \/ \E v \in Versions : RunFile(m, v) \/ Record(m, v)
        \/ Fail(m)

Spec == Init /\ [][Next]_vars

\* Each migration runs in one transaction with its bookkeeping row: when no
\* migrator is running, exactly the recorded migrations are in the schema.
MigrationsAreAtomic ==
    (\A m \in Migrators : pc[m] = "idle") => schema = recorded
=============================================================================
