------------------------------ MODULE Catalog ------------------------------
(***************************************************************************)
(* Applications, their environments, the environments' variables and the   *)
(* variables' history: four tables chained by foreign keys declared        *)
(* ON DELETE CASCADE (web/internal/storage/sqlite.go).                     *)
(*                                                                         *)
(* Every operation is one statement, or one transaction that VarStore      *)
(* shows to be atomic, on a connection the pool chooses.  Postgres always  *)
(* enforces foreign keys.  SQLite enforces them per connection, and        *)
(* openSQLite executes the pragma once: on one connection of the pool.     *)
(***************************************************************************)
EXTENDS Naturals, FiniteSets

CONSTANTS Dialects, \* the databases considered: "sqlite", "postgres"
          Conns,    \* connections of the pool
          Names,    \* names of applications and environments
          Keys,     \* variable keys
          MaxId     \* bound on the ids of each table

ASSUME CatalogAssumption ==
  /\ Dialects \subseteq {"sqlite", "postgres"}
  /\ Conns # {}
  /\ MaxId \in Nat \ {0}

VARIABLES dialect,  \* DB_DRIVER
          apps,     \* applications: [id, name]
          envs,     \* environments: [id, app, name]
          vars,     \* variables: [id, env, key]
          history,  \* variable_versions, one record per variable: [var, env, key]
          next,     \* next id of each table
          enforcing \* SQLite connections with PRAGMA foreign_keys = ON

tables == <<dialect, apps, envs, vars, history, next>>
state  == <<dialect, apps, envs, vars, history, next, enforcing>>

Ids  == 1 .. MaxId
Apps == [id : Ids, name : Names \cup {"default"}]
Envs == [id : Ids, app : Ids, name : Names]
Vars == [id : Ids, env : Ids, key : Keys]
Hist == [var : Ids, env : Ids, key : Keys]

IdsOf(table) == {r.id : r \in table}

\* Mutant: Postgres, too, would need the pragma.
EnforcesPragma(c) == c \in enforcing
Enforces(c)       == dialect = "postgres" \/ c \in enforcing

\* Mutant: the foreign key compares the wrong column.
VarsOfWrongColumn(es) == {v \in vars : v.id \in IdsOf(es)}

\* The rows the cascades reach from a set of applications, environments or
\* variables that is deleted.
EnvsOf(as) == {e \in envs : e.app \in IdsOf(as)}
VarsOf(es) == {v \in vars : v.env \in IdsOf(es)}
HistOf(vs) == {h \in history : h.var \in IdsOf(vs)}

\* Deletes applications as, or environments es, or variables vs.
Remove(c, as, es, vs) ==
  LET es2 == IF Enforces(c) THEN es \cup EnvsOf(as) ELSE es
      vs2 == IF Enforces(c) THEN vs \cup VarsOf(es2) ELSE vs
      hs2 == IF Enforces(c) THEN HistOf(vs2) ELSE {}
  IN  /\ apps' = apps \ as
      /\ envs' = envs \ es2
      /\ vars' = vars \ vs2
      /\ history' = history \ hs2

\* ensureDefaultApp has run; one connection has executed the pragma.
Init ==
  /\ dialect \in Dialects
  /\ apps = {[id |-> 1, name |-> "default"]}
  /\ envs = {} /\ vars = {} /\ history = {}
  /\ next = [app |-> 2, env |-> 1, var |-> 1]
  /\ \E c \in Conns : enforcing = {c}

NewApp(n) == [id |-> next.app, name |-> n]

\* UNIQUE(name): a name that is taken is answered with 409.
CreateApp(n) ==
  /\ next.app \in Ids
  /\ \A a \in apps : a.name # n
  /\ apps' = apps \cup {NewApp(n)}
  /\ next' = [next EXCEPT !.app = @ + 1]
  /\ UNCHANGED <<dialect, envs, vars, history, enforcing>>

\* The default application stays: app_id 0 and the migration of old databases
\* stand for it.
Deletable(a) == a.id # 1

DeleteApp(c, a) ==
  /\ a \in apps
  /\ Deletable(a)
  /\ Remove(c, {a}, {}, {})
  /\ UNCHANGED <<dialect, next, enforcing>>

\* app_id 0 means the default application; any other id is taken as it is.
\* Mutant: 0 is taken as it is, too.
AppAsIs(appId) == appId
AppOf(appId)   == IF appId = 0 THEN 1 ELSE appId

CreateEnv(c, appId, n) ==
  LET app == AppOf(appId) IN
  /\ next.env \in Ids
  /\ Enforces(c) => app \in IdsOf(apps)
  /\ \A e \in envs : ~(e.app = app /\ e.name = n)
  /\ envs' = envs \cup {[id |-> next.env, app |-> app, name |-> n]}
  /\ next' = [next EXCEPT !.env = @ + 1]
  /\ UNCHANGED <<dialect, apps, vars, history, enforcing>>

DeleteEnv(c, e) ==
  /\ e \in envs
  /\ Remove(c, {}, {e}, {})
  /\ UNCHANGED <<dialect, next, enforcing>>

\* Mutant: a table without AUTOINCREMENT takes the largest id plus one.
RowidVar  == CHOOSE i \in 1 .. MaxId + 1 :
               /\ \A j \in IdsOf(vars) : j < i
               /\ \A m \in 1 .. MaxId + 1 : (\A j \in IdsOf(vars) : j < m) => i <= m
NewVarId  == next.var

\* SetVar of a key that is new to the environment; the handlers do not check
\* that the environment exists.
SetVar(c, e, k) ==
  /\ next.var \in Ids
  /\ Enforces(c) => e \in IdsOf(envs)
  /\ \A v \in vars : ~(v.env = e /\ v.key = k)
  /\ vars' = vars \cup {[id |-> NewVarId, env |-> e, key |-> k]}
  /\ history' = history \cup {[var |-> NewVarId, env |-> e, key |-> k]}
  /\ next' = [next EXCEPT !.var = @ + 1]
  /\ UNCHANGED <<dialect, apps, envs, enforcing>>

\* An INSERT on Postgres that is refused (the name is taken, the parent missing)
\* or cut off has used up a value of the table's sequence, and leaves a gap in
\* its ids; SQLite takes the value back.
InsertFails(table) ==
  /\ dialect = "postgres"
  /\ next[table] \in Ids
  /\ next' = [next EXCEPT ![table] = @ + 1]
  /\ UNCHANGED <<dialect, apps, envs, vars, history, enforcing>>

DeleteVar(c, v) ==
  /\ v \in vars
  /\ Remove(c, {}, {}, {v})
  /\ UNCHANGED <<dialect, next, enforcing>>

\* ConnMaxLifetime, or the idle limit: the pool closes the connection and
\* opens another one in its place, without any pragma.
Renew(c) ==
  /\ c \in enforcing
  /\ enforcing' = enforcing \ {c}
  /\ UNCHANGED tables

\* A restart of the server runs the pragmas on the first connection of SQLite
\* and sets the sequence of the applications of Postgres to their largest id:
\* the id of an application that was deleted may be given out again.  (An INSERT
\* in progress at that moment is SequenceRepair's subject.)
RepairSequence ==
  \E i \in IdsOf(apps) : /\ \A j \in IdsOf(apps) : j <= i
                         /\ next' = [next EXCEPT !.app = i + 1]

Restart(c) ==
  /\ enforcing' = {c}
  /\ IF dialect = "postgres" THEN RepairSequence ELSE UNCHANGED next
  /\ UNCHANGED <<dialect, apps, envs, vars, history>>

Next ==
  \/ \E n \in Names : CreateApp(n)
  \/ \E table \in {"app", "env", "var"} : InsertFails(table)
  \/ \E c \in Conns : \/ \E a \in apps : DeleteApp(c, a)
                      \/ \E i \in 0 .. MaxId, n \in Names : CreateEnv(c, i, n)
                      \/ \E e \in envs : DeleteEnv(c, e)
                      \/ \E i \in Ids, k \in Keys : SetVar(c, i, k)
                      \/ \E v \in vars : DeleteVar(c, v)
                      \/ Renew(c)
                      \/ Restart(c)

Spec == Init /\ [][Next]_state

-----------------------------------------------------------------------------
(* Properties *)

TypeOK ==
  /\ dialect \in Dialects
  /\ apps \subseteq Apps /\ envs \subseteq Envs
  /\ vars \subseteq Vars /\ history \subseteq Hist
  /\ next \in [{"app", "env", "var"} -> 1 .. MaxId + 1]
  /\ enforcing \subseteq Conns

\* What the schema declares: every environment has its application, every
\* variable its environment, every history entry its variable.
NoOrphans ==
  /\ \A e \in envs : e.app \in IdsOf(apps)
  /\ \A v \in vars : v.env \in IdsOf(envs)
  /\ \A h \in history : h.var \in IdsOf(vars)

\* On Postgres that holds, whatever is created and deleted.
Chained == dialect = "postgres" => NoOrphans

\* On Postgres a new application has no environments and a new environment no
\* variables left over from, or created ahead for, their ids, although the ids
\* of applications are used again.
StartEmpty ==
  [][dialect = "postgres" =>
     /\ \A a \in apps' \ apps : \A e \in envs' : e.app # a.id
     /\ \A e \in envs' \ envs : \A v \in vars' : v.env # e.id]_state

\* A row whose parent stays disappears only by its own deletion, which leaves
\* every other row of its table and the tables above alone: no cascade follows
\* ids that coincide.
SparesOthers ==
  /\ \A e \in envs \ envs' :
       e.app \in IdsOf(apps') => apps' = apps /\ envs' = envs \ {e}
  /\ \A v \in vars \ vars' :
       v.env \in IdsOf(envs') => apps' = apps /\ envs' = envs /\ vars' = vars \ {v}

NoCollateral == [][SparesOthers]_state

\* A history entry whose variable is gone (SQLite may keep it) never becomes
\* the history of a later variable: ids are not used again.
HistoryOwn ==
  \A v \in vars, h \in history : h.var = v.id => h.env = v.env /\ h.key = v.key
=============================================================================
