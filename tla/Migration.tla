----------------------------- MODULE Migration -----------------------------
(***************************************************************************)
(* migrateSQLite on a database of any age (web/internal/storage/sqlite.go):*)
(* a file without tables, one whose environments have no application, one  *)
(* whose environments have the column but not its constraints, and a       *)
(* current one.  The server may be killed between any two statements and   *)
(* started again; what the transaction had not committed is undone.        *)
(* Server composes this module with the rest of the process.               *)
(***************************************************************************)
EXTENDS Naturals

CONSTANTS EnvIds, VarIds, Apps \* ids of rows of an old database

ASSUME MigrationAssumption == 1 \in Apps /\ Apps \subseteq Nat \ {0}

VARIABLES schema,  \* of environments: "none", "bare", "column" or "current"
          envs,    \* id -> app_id of the environments (0: no column)
          vars,    \* id -> env_id of the variables
          defaultApp, \* the row of application 1 exists
          stmt,    \* the next statement
          fk,      \* PRAGMA foreign_keys of the connection that ran the pragma
          tx,      \* the tables as the open transaction sees them
          scratch, \* a committed environments_new exists
          old      \* the database the first start found

tables == <<schema, envs, vars, scratch>>
state  == <<schema, envs, vars, scratch, defaultApp, stmt, fk, tx, old>>

NoRows == [i \in {} |-> 0]
NoTx   == [envs |-> NoRows, new |-> NoRows, vars |-> NoRows, made |-> FALSE]

OldDatabase ==
  /\ schema \in {"none", "bare", "column", "current"}
  /\ \E E \in SUBSET EnvIds, V \in SUBSET VarIds :
       /\ schema = "none" => E = {}
       /\ E = {} => V = {}
       /\ envs \in [E -> IF schema \in {"none", "bare"} THEN {0} ELSE Apps]
       /\ vars \in [V -> E]
  /\ defaultApp \in BOOLEAN
  /\ stmt = "pragma" /\ fk = FALSE /\ tx = NoTx /\ scratch = FALSE
  /\ old = [schema |-> schema, envs |-> envs, vars |-> vars]

\* openSQLite: PRAGMA foreign_keys = ON.
Pragma ==
  /\ stmt = "pragma"
  /\ fk' = TRUE
  /\ stmt' = "default"
  /\ UNCHANGED <<tables, defaultApp, tx, old>>

EnsureDefaultApp ==
  /\ stmt = "default"
  /\ defaultApp' = TRUE
  /\ stmt' = "inspect"
  /\ UNCHANGED <<tables, fk, tx, old>>

\* tableExists, tableHasColumn, tableSQL.  The error of tableSQL is ignored:
\* then a current schema is migrated once more.
Inspect ==
  /\ stmt = "inspect"
  /\ \/ schema = "none"    /\ schema' = "current" /\ stmt' = "done"
     \/ schema = "current" /\ UNCHANGED schema    /\ stmt' = "done"
     \/ schema # "none"    /\ UNCHANGED schema    /\ stmt' = "off"
  /\ UNCHANGED <<envs, vars, scratch, defaultApp, fk, tx, old>>

\* Mutant: the migration leaves the foreign keys on.
KeepOn  == fk' = TRUE
TurnOff == fk' = FALSE

Off ==
  /\ stmt = "off"
  /\ TurnOff
  /\ stmt' = "create"
  /\ UNCHANGED <<tables, defaultApp, tx, old>>

\* BEGIN; CREATE TABLE environments_new.
Create ==
  /\ stmt = "create"
  /\ ~scratch
  /\ tx' = [envs |-> envs, new |-> NoRows, vars |-> vars, made |-> TRUE]
  /\ stmt' = "copy"
  /\ UNCHANGED <<tables, defaultApp, fk, old>>

\* Mutants: every environment goes to the default application; none does.
AllToDefault == [i \in DOMAIN tx.envs |-> 1]
CopyAsTheyAre == tx.envs
CopyRows     == [i \in DOMAIN tx.envs |-> IF schema = "bare" THEN 1 ELSE tx.envs[i]]

Copy ==
  /\ stmt = "copy"
  /\ tx' = [tx EXCEPT !.new = CopyRows]
  /\ stmt' = "drop"
  /\ UNCHANGED <<tables, defaultApp, fk, old>>

\* DROP TABLE deletes the table's rows first: with foreign keys on, their
\* variables go with them.
Drop ==
  /\ stmt = "drop"
  /\ tx' = [tx EXCEPT !.envs = NoRows, !.vars = IF fk THEN NoRows ELSE @]
  /\ stmt' = "commit"
  /\ UNCHANGED <<tables, defaultApp, fk, old>>

\* ALTER TABLE environments_new RENAME TO environments; COMMIT.
Commit ==
  /\ stmt = "commit"
  /\ envs' = tx.new /\ vars' = tx.vars /\ schema' = "current"
  /\ tx' = NoTx
  /\ stmt' = "on"
  /\ UNCHANGED <<scratch, defaultApp, fk, old>>

TurnOn   == fk' = TRUE

On ==
  /\ stmt = "on"
  /\ TurnOn
  /\ stmt' = "done"
  /\ UNCHANGED <<tables, defaultApp, tx, old>>

\* ConnMaxLifetime: between two statements the pool replaces the connection, and
\* the new one is without the pragma.  A transaction keeps its connection.
Renew ==
  /\ fk /\ stmt \notin {"copy", "drop", "commit"}
  /\ fk' = FALSE
  /\ UNCHANGED <<tables, defaultApp, stmt, tx, old>>

\* A kill, or an error of any statement, which ends the process: the
\* connection's transaction and pragma are gone; the next start begins again.
\* Mutant: the copy is not in a transaction with the drop.
Torn     == IF tx.made THEN envs' = tx.envs /\ vars' = tx.vars /\ scratch' = TRUE
            ELSE UNCHANGED <<envs, vars, scratch>>
Rollback == UNCHANGED <<envs, vars, scratch>>

Kill ==
  /\ Rollback
  /\ tx' = NoTx /\ fk' = FALSE
  /\ stmt' = "pragma"
  /\ UNCHANGED <<schema, defaultApp, old>>

Open == Pragma \/ EnsureDefaultApp \/ Inspect \/ Off \/ Create \/ Copy
               \/ Drop \/ Commit \/ On

MigrationNext == Open \/ Renew \/ Kill

MigrationSpec == OldDatabase /\ [][MigrationNext]_state

-----------------------------------------------------------------------------
(* Properties *)

Steps == {"pragma", "default", "inspect", "off", "create", "copy", "drop",
          "commit", "on", "done"}

MigrationTypeOK ==
  /\ schema \in {"none", "bare", "column", "current"}
  /\ DOMAIN envs \subseteq EnvIds /\ \A i \in DOMAIN envs : envs[i] \in Apps \cup {0}
  /\ DOMAIN vars \subseteq VarIds /\ \A i \in DOMAIN vars : vars[i] \in EnvIds
  /\ stmt \in Steps
  /\ fk \in BOOLEAN /\ defaultApp \in BOOLEAN /\ scratch \in BOOLEAN
  /\ schema = "current" => \A i \in DOMAIN envs : envs[i] # 0

\* Whatever the interruptions, no row is ever lost: the environments keep
\* their ids and the variables theirs.
NothingLost == DOMAIN envs = DOMAIN old.envs /\ vars = old.vars

\* An environment keeps its application; one that had none is the default's,
\* and by then the default application exists.
AppsKept ==
  \A i \in DOMAIN envs :
    \/ envs[i] = old.envs[i]
    \/ old.envs[i] = 0 /\ envs[i] = 1 /\ defaultApp
=============================================================================
