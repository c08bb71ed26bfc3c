--------------------------- MODULE CatalogProofs ---------------------------
(* Proofs about Catalog, for every pool, name, key and bound, about        *)
(* CatalogApi, for any number of handlers, and about Cli, for every        *)
(* command.                                                                *)
EXTENDS CatalogApi, Cli, FiniteSetTheorems, SequenceTheorems, TLAPS

-----------------------------------------------------------------------------
(* The tables.                                                             *)

\* Ids are given out once: no row or history entry is ahead of its counter.
IdsBehind ==
  /\ \A v \in vars : v.id < next.var
  /\ \A h \in history : h.var < next.var

HistoryInv == TypeOK /\ IdsBehind /\ HistoryOwn

LEMMA RemoveShrinks ==
  ASSUME NEW c, NEW as, NEW es, NEW vs, Remove(c, as, es, vs)
  PROVE  /\ apps' = apps \ as
         /\ envs' \subseteq envs
         /\ vars' \subseteq vars
         /\ history' \subseteq history
  BY DEF Remove

LEMMA TypeInit == Init => TypeOK
  BY CatalogAssumption DEF Init, TypeOK, Apps, Ids

LEMMA TypeNext == TypeOK /\ [Next]_state => TypeOK'
  <1> USE CatalogAssumption
  <1> SUFFICES ASSUME TypeOK, [Next]_state PROVE TypeOK'
    OBVIOUS
  <1>1. ASSUME NEW n \in Names, CreateApp(n) PROVE TypeOK'
    BY <1>1 DEF CreateApp, NewApp, TypeOK, Apps, Ids
  <1>2. ASSUME NEW c, NEW as, NEW es, NEW vs, Remove(c, as, es, vs),
               UNCHANGED <<dialect, next, enforcing>>
        PROVE  TypeOK'
    BY <1>2, RemoveShrinks DEF TypeOK
  <1>3. ASSUME NEW c \in Conns, NEW i \in 0 .. MaxId, NEW n \in Names,
               CreateEnv(c, i, n)
        PROVE  TypeOK'
    <2>1. AppOf(i) \in Ids
      BY DEF AppOf, Ids
    <2> QED BY <1>3, <2>1 DEF CreateEnv, TypeOK, Envs, Ids
  <1>4. ASSUME NEW c \in Conns, NEW i \in Ids, NEW k \in Keys, SetVar(c, i, k)
        PROVE  TypeOK'
    BY <1>4 DEF SetVar, NewVarId, TypeOK, Vars, Hist, Ids
  <1>5. ASSUME NEW c \in Conns, Renew(c) \/ Restart(c) PROVE TypeOK'
    <2>1. CASE Renew(c)
      BY <2>1 DEF Renew, tables, TypeOK
    <2>2. CASE Restart(c)
      <3>1. CASE dialect = "postgres"
        <4>1. PICK i \in IdsOf(apps) : next' = [next EXCEPT !.app = i + 1]
          BY <2>2, <3>1 DEF Restart, RepairSequence
        <4>2. i \in Ids
          BY DEF TypeOK, IdsOf, Apps
        <4> QED BY <2>2, <4>1, <4>2 DEF Restart, TypeOK, Ids
      <3>2. CASE dialect # "postgres"
        BY <2>2, <3>2 DEF Restart, TypeOK
      <3> QED BY <3>1, <3>2
    <2> QED BY <1>5, <2>1, <2>2
  <1>6. CASE UNCHANGED state
    BY <1>6 DEF state, TypeOK
  <1>7. ASSUME NEW t \in {"app", "env", "var"}, InsertFails(t) PROVE TypeOK'
    BY <1>7 DEF InsertFails, TypeOK, Ids
  <1> QED BY <1>1, <1>2, <1>3, <1>4, <1>5, <1>6, <1>7
          DEF Next, DeleteApp, DeleteEnv, DeleteVar

\* Every row of the four tables keeps its shape.
THEOREM TypeCorrect == Spec => []TypeOK
  BY TypeInit, TypeNext, PTL DEF Spec

\* One deletion: the cascades take every row whose parent goes.
LEMMA RemoveChained ==
  ASSUME dialect = "postgres", NoOrphans, NEW c, NEW as, NEW es, NEW vs,
         as \subseteq apps, es \subseteq envs, vs \subseteq vars,
         Remove(c, as, es, vs)
  PROVE  NoOrphans'
  <1> DEFINE es2 == es \cup EnvsOf(as)
             vs2 == vs \cup VarsOf(es2)
  <1>1. /\ apps' = apps \ as
        /\ envs' = envs \ es2
        /\ vars' = vars \ vs2
        /\ history' = history \ HistOf(vs2)
    BY DEF Remove, Enforces
  <1>2. ASSUME NEW e \in envs' PROVE e.app \in IdsOf(apps')
    <2>1. e \in envs /\ e \notin EnvsOf(as)
      BY <1>1
    <2>2. PICK a \in apps : a.id = e.app
      BY <2>1 DEF NoOrphans, IdsOf
    <2>3. a \notin as
      BY <2>1, <2>2 DEF EnvsOf, IdsOf
    <2> QED BY <1>1, <2>2, <2>3 DEF IdsOf
  <1>3. ASSUME NEW v \in vars' PROVE v.env \in IdsOf(envs')
    <2>1. v \in vars /\ v \notin VarsOf(es2)
      BY <1>1
    <2>2. PICK e \in envs : e.id = v.env
      BY <2>1 DEF NoOrphans, IdsOf
    <2>3. e \notin es2
      BY <2>1, <2>2 DEF VarsOf, IdsOf
    <2> QED BY <1>1, <2>2, <2>3 DEF IdsOf
  <1>4. ASSUME NEW h \in history' PROVE h.var \in IdsOf(vars')
    <2>1. h \in history /\ h \notin HistOf(vs2)
      BY <1>1
    <2>2. PICK v \in vars : v.id = h.var
      BY <2>1 DEF NoOrphans, IdsOf
    <2>3. v \notin vs2
      BY <2>1, <2>2 DEF HistOf, IdsOf
    <2> QED BY <1>1, <2>2, <2>3 DEF IdsOf
  <1> QED BY <1>2, <1>3, <1>4 DEF NoOrphans

LEMMA ChainedNext == Chained /\ [Next]_state => Chained'
  <1> SUFFICES ASSUME dialect = "postgres", NoOrphans, [Next]_state
               PROVE  NoOrphans'
    <2>1. [Next]_state => dialect' = dialect
      BY DEF Next, CreateApp, DeleteApp, CreateEnv, DeleteEnv, SetVar, DeleteVar,
             InsertFails, Renew, Restart, tables, state
    <2> QED BY <2>1 DEF Chained
  <1>1. ASSUME NEW n \in Names, CreateApp(n) PROVE NoOrphans'
    BY <1>1 DEF CreateApp, NoOrphans, IdsOf
  <1>2. ASSUME NEW c \in Conns, NEW a \in apps, DeleteApp(c, a) PROVE NoOrphans'
    <2>1. Remove(c, {a}, {}, {})
      BY <1>2 DEF DeleteApp
    <2> QED BY <2>1, RemoveChained
  <1>3. ASSUME NEW c \in Conns, NEW i \in 0 .. MaxId, NEW n \in Names,
               CreateEnv(c, i, n)
        PROVE  NoOrphans'
    <2>1. AppOf(i) \in IdsOf(apps)
      BY <1>3 DEF CreateEnv, Enforces
    <2> QED BY <1>3, <2>1 DEF CreateEnv, NoOrphans, IdsOf
  <1>4. ASSUME NEW c \in Conns, NEW e \in envs, DeleteEnv(c, e) PROVE NoOrphans'
    <2>1. Remove(c, {}, {e}, {})
      BY <1>4 DEF DeleteEnv
    <2> QED BY <2>1, RemoveChained
  <1>5. ASSUME NEW c \in Conns, NEW i \in Ids, NEW k \in Keys, SetVar(c, i, k)
        PROVE  NoOrphans'
    <2>1. i \in IdsOf(envs)
      BY <1>5 DEF SetVar, Enforces
    <2> DEFINE new == [id |-> next.var, env |-> i, key |-> k]
               ent == [var |-> next.var, env |-> i, key |-> k]
    <2>2. /\ vars' = vars \cup {new}
          /\ history' = history \cup {ent}
          /\ UNCHANGED <<apps, envs>>
      BY <1>5 DEF SetVar, NewVarId
    <2>3. new.id = next.var /\ new.env = i /\ ent.var = next.var
      OBVIOUS
    <2> HIDE DEF new, ent
    <2>4. \A e \in envs' : e.app \in IdsOf(apps')
      BY <2>2 DEF NoOrphans, IdsOf
    <2>5. \A v \in vars' : v.env \in IdsOf(envs')
      BY <2>1, <2>2, <2>3 DEF NoOrphans, IdsOf
    <2>6. \A h \in history' : h.var \in IdsOf(vars')
      BY <2>2, <2>3 DEF NoOrphans, IdsOf
    <2> QED BY <2>4, <2>5, <2>6 DEF NoOrphans
  <1>6. ASSUME NEW c \in Conns, NEW v \in vars, DeleteVar(c, v) PROVE NoOrphans'
    <2>1. Remove(c, {}, {}, {v})
      BY <1>6 DEF DeleteVar
    <2> QED BY <2>1, RemoveChained
  <1>7. ASSUME NEW c \in Conns, Renew(c) \/ Restart(c) PROVE NoOrphans'
    BY <1>7 DEF Renew, Restart, tables, NoOrphans
  <1>8. CASE UNCHANGED state
    BY <1>8 DEF state, NoOrphans
  <1>9. ASSUME NEW t \in {"app", "env", "var"}, InsertFails(t) PROVE NoOrphans'
    BY <1>9 DEF InsertFails, NoOrphans
  <1> QED BY <1>1, <1>2, <1>3, <1>4, <1>5, <1>6, <1>7, <1>8, <1>9 DEF Next

\* On Postgres no row of the four tables ever loses its parent.
THEOREM ChainedCorrect == Spec => []Chained
  <1>1. Init => Chained
    BY DEF Init, Chained, NoOrphans
  <1> QED BY <1>1, ChainedNext, PTL DEF Spec

LEMMA HistoryNext == HistoryInv /\ [Next]_state => HistoryInv'
  <1> USE CatalogAssumption DEF HistoryInv
  <1> SUFFICES ASSUME HistoryInv, [Next]_state PROVE IdsBehind' /\ HistoryOwn'
    BY TypeNext
  <1>1. ASSUME NEW c, NEW as, NEW es, NEW vs, Remove(c, as, es, vs),
               UNCHANGED <<dialect, next, enforcing>>
        PROVE  IdsBehind' /\ HistoryOwn'
    BY <1>1, RemoveShrinks DEF IdsBehind, HistoryOwn
  <1>2. ASSUME UNCHANGED <<vars, history>>, next'.var = next.var
        PROVE  IdsBehind' /\ HistoryOwn'
    BY <1>2 DEF IdsBehind, HistoryOwn
  <1>3. ASSUME NEW n \in Names, CreateApp(n) PROVE next'.var = next.var
    BY <1>3 DEF CreateApp, TypeOK
  <1>4. ASSUME NEW c \in Conns, NEW i \in 0 .. MaxId, NEW n \in Names,
               CreateEnv(c, i, n)
        PROVE  next'.var = next.var
    BY <1>4 DEF CreateEnv, TypeOK
  <1>5. ASSUME NEW c \in Conns, NEW i \in Ids, NEW k \in Keys, SetVar(c, i, k)
        PROVE  IdsBehind' /\ HistoryOwn'
    <2>1. next.var \in Nat /\ next'.var = next.var + 1
      BY <1>5 DEF SetVar, TypeOK
    <2>2. /\ vars' = vars \cup {[id |-> next.var, env |-> i, key |-> k]}
          /\ history' = history \cup {[var |-> next.var, env |-> i, key |-> k]}
      BY <1>5 DEF SetVar, NewVarId
    <2>3. (\A v \in vars : v.id \in Nat) /\ (\A h \in history : h.var \in Nat)
      BY DEF TypeOK, Vars, Hist, Ids
    <2>4. IdsBehind'
      BY <2>1, <2>2, <2>3 DEF IdsBehind
    <2>5. HistoryOwn'
      BY <2>1, <2>2, <2>3 DEF IdsBehind, HistoryOwn
    <2> QED BY <2>4, <2>5
  <1>6. ASSUME NEW c \in Conns, Renew(c) \/ Restart(c)
        PROVE  UNCHANGED <<vars, history>> /\ next'.var = next.var
    BY <1>6 DEF Renew, Restart, RepairSequence, tables, TypeOK
  <1>7. ASSUME NEW t \in {"app", "env", "var"}, InsertFails(t)
        PROVE  IdsBehind' /\ HistoryOwn'
    <2>1. UNCHANGED <<vars, history>>
      BY <1>7 DEF InsertFails
    <2>2. next.var \in Nat /\ next'.var \in {next.var, next.var + 1}
      BY <1>7 DEF InsertFails, TypeOK
    <2>3. (\A v \in vars : v.id \in Nat) /\ (\A h \in history : h.var \in Nat)
      BY DEF TypeOK, Vars, Hist, Ids
    <2> QED BY <2>1, <2>2, <2>3 DEF IdsBehind, HistoryOwn
  <1> QED BY <1>1, <1>2, <1>3, <1>4, <1>5, <1>6, <1>7
          DEF Next, DeleteApp, DeleteEnv, DeleteVar, CreateApp, CreateEnv,
              tables, state

\* A history entry never becomes the history of a later variable, on either
\* database and whatever the pragma does.
THEOREM HistoryOwnCorrect == Spec => []HistoryOwn
  <1>1. Init => HistoryInv
    BY TypeInit DEF Init, HistoryInv, IdsBehind, HistoryOwn
  <1>2. Spec => []HistoryInv
    BY <1>1, HistoryNext, PTL DEF Spec
  <1> QED BY <1>2, PTL DEF HistoryInv

-----------------------------------------------------------------------------
(* Ids of applications and environments: given out upwards, held once.     *)

Behind == /\ \A a \in apps : a.id < next.app
          /\ \A e \in envs : e.id < next.env

Unique == /\ \A a, b \in apps : a.id = b.id => a = b
          /\ \A d, e \in envs : d.id = e.id => d = e

\* The default application is there: the guard of DeleteApp spares it.
DefaultStays == [id |-> 1, name |-> "default"] \in apps

IdsInv == TypeOK /\ DefaultStays /\ Behind /\ Unique

LEMMA IdsInit == Init => IdsInv
  <1> SUFFICES ASSUME Init PROVE DefaultStays /\ Behind /\ Unique
    BY TypeInit DEF IdsInv
  <1>1. apps = {[id |-> 1, name |-> "default"]} /\ envs = {}
    BY DEF Init
  <1>2. next.app = 2
    BY DEF Init
  <1> QED BY <1>1, <1>2 DEF DefaultStays, Behind, Unique

LEMMA IdsNext == IdsInv /\ [Next]_state => IdsInv'
  <1> USE CatalogAssumption
  <1> SUFFICES ASSUME IdsInv, [Next]_state PROVE DefaultStays' /\ Behind' /\ Unique'
    BY TypeNext DEF IdsInv
  <1>t. TypeOK
    BY DEF IdsInv
  <1>n. /\ next.app \in Nat /\ next.env \in Nat
        /\ \A a \in apps : a.id \in Nat
        /\ \A e \in envs : e.id \in Nat
    BY <1>t DEF TypeOK, Apps, Envs, Ids
  <1>1. ASSUME NEW as, NEW c, NEW es, NEW vs, Remove(c, as, es, vs),
               \A a \in as : a.id # 1, UNCHANGED next
        PROVE  DefaultStays' /\ Behind' /\ Unique'
    <2>1. apps' = apps \ as /\ envs' \subseteq envs /\ next' = next
      BY <1>1, RemoveShrinks
    <2>2. [id |-> 1, name |-> "default"] \notin as
      BY <1>1
    <2>3. DefaultStays'
      BY <2>1, <2>2 DEF IdsInv, DefaultStays
    <2>4. Behind' /\ Unique'
      BY <2>1 DEF IdsInv, Behind, Unique
    <2> QED BY <2>3, <2>4
  <1>2. ASSUME NEW n \in Names, CreateApp(n) PROVE DefaultStays' /\ Behind' /\ Unique'
    <2> DEFINE new == [id |-> next.app, name |-> n]
    <2>1. apps' = apps \cup {new} /\ envs' = envs
      BY <1>2 DEF CreateApp, NewApp
    <2>2. next'.app = next.app + 1 /\ next'.env = next.env
      BY <1>2, <1>t DEF CreateApp, TypeOK
    <2>3. new.id = next.app
      OBVIOUS
    <2> HIDE DEF new
    <2> QED BY <2>1, <2>2, <2>3, <1>n DEF IdsInv, DefaultStays, Behind, Unique
  <1>3. ASSUME NEW c \in Conns, NEW i \in 0 .. MaxId, NEW n \in Names, CreateEnv(c, i, n)
        PROVE  DefaultStays' /\ Behind' /\ Unique'
    <2> DEFINE new == [id |-> next.env, app |-> AppOf(i), name |-> n]
    <2>1. envs' = envs \cup {new} /\ apps' = apps
      BY <1>3 DEF CreateEnv
    <2>2. next'.env = next.env + 1 /\ next'.app = next.app
      BY <1>3, <1>t DEF CreateEnv, TypeOK
    <2>3. new.id = next.env
      OBVIOUS
    <2> HIDE DEF new
    <2> QED BY <2>1, <2>2, <2>3, <1>n DEF IdsInv, DefaultStays, Behind, Unique
  <1>4. ASSUME NEW c \in Conns, NEW i \in Ids, NEW k \in Keys, SetVar(c, i, k)
        PROVE  DefaultStays' /\ Behind' /\ Unique'
    <2>1. UNCHANGED <<apps, envs>> /\ next'.app = next.app /\ next'.env = next.env
      BY <1>4, <1>t DEF SetVar, TypeOK
    <2> QED BY <2>1 DEF IdsInv, DefaultStays, Behind, Unique
  <1>5. ASSUME NEW c \in Conns, Restart(c) PROVE DefaultStays' /\ Behind' /\ Unique'
    <2>1. UNCHANGED <<apps, envs>>
      BY <1>5 DEF Restart
    <2>2. CASE dialect = "postgres"
      <3>1. PICK i \in IdsOf(apps) :
              (\A j \in IdsOf(apps) : j <= i) /\ next' = [next EXCEPT !.app = i + 1]
        BY <1>5, <2>2 DEF Restart, RepairSequence
      <3>2. next'.app = i + 1 /\ next'.env = next.env
        BY <3>1, <1>t DEF TypeOK
      <3>3. \A a \in apps : a.id \in IdsOf(apps)
        BY DEF IdsOf
      <3>4. i \in Nat
        BY <1>n DEF IdsOf
      <3>5. \A a \in apps : a.id < next'.app
        BY <3>1, <3>2, <3>3, <3>4, <1>n
      <3> QED BY <2>1, <3>2, <3>5 DEF IdsInv, DefaultStays, Behind, Unique
    <2>3. CASE dialect # "postgres"
      BY <1>5, <2>1, <2>3 DEF Restart, IdsInv, DefaultStays, Behind, Unique
    <2> QED BY <2>2, <2>3
  <1>6. CASE UNCHANGED <<apps, envs, next>>
    BY <1>6 DEF IdsInv, DefaultStays, Behind, Unique
  <1>7. ASSUME NEW c \in Conns, NEW a \in apps, DeleteApp(c, a)
        PROVE  DefaultStays' /\ Behind' /\ Unique'
    <2>1. Remove(c, {a}, {}, {}) /\ a.id # 1 /\ UNCHANGED next
      BY <1>7 DEF DeleteApp, Deletable
    <2> QED BY <1>1, <2>1
  <1>8. ASSUME NEW c \in Conns, NEW e \in envs, DeleteEnv(c, e)
        PROVE  DefaultStays' /\ Behind' /\ Unique'
    <2>1. Remove(c, {}, {e}, {}) /\ UNCHANGED next
      BY <1>8 DEF DeleteEnv
    <2> QED BY <1>1, <2>1
  <1>9. ASSUME NEW c \in Conns, NEW v \in vars, DeleteVar(c, v)
        PROVE  DefaultStays' /\ Behind' /\ Unique'
    <2>1. Remove(c, {}, {}, {v}) /\ UNCHANGED next
      BY <1>9 DEF DeleteVar
    <2> QED BY <1>1, <2>1
  <1>10. ASSUME NEW t \in {"app", "env", "var"}, InsertFails(t)
         PROVE  DefaultStays' /\ Behind' /\ Unique'
    <2>1. UNCHANGED <<apps, envs>>
      BY <1>10 DEF InsertFails
    <2>2. /\ next'.app \in {next.app, next.app + 1}
          /\ next'.env \in {next.env, next.env + 1}
      BY <1>10, <1>t DEF InsertFails, TypeOK
    <2> QED BY <2>1, <2>2, <1>n DEF IdsInv, DefaultStays, Behind, Unique
  <1> QED BY <1>2, <1>3, <1>4, <1>5, <1>6, <1>7, <1>8, <1>9, <1>10
          DEF Next, Renew, tables, state

-----------------------------------------------------------------------------
(* What a step may not do.                                                 *)

\* On Postgres a new row's id is not in use in the tables below.
LEMMA StartsEmpty ==
  ASSUME IdsInv, Chained, [Next]_state, dialect = "postgres"
  PROVE  /\ \A a \in apps' \ apps : \A e \in envs' : e.app # a.id
         /\ \A e \in envs' \ envs : \A v \in vars' : v.env # e.id
  <1>1. ASSUME NEW n \in Names, CreateApp(n), NEW a \in apps' \ apps, NEW e \in envs'
        PROVE  e.app # a.id
    <2>1. a.id = next.app /\ e \in envs
      BY <1>1 DEF CreateApp, NewApp
    <2>2. PICK b \in apps : b.id = e.app
      BY <2>1 DEF Chained, NoOrphans, IdsOf
    <2>3. b.id < next.app /\ b.id \in Nat /\ next.app \in Nat
      BY DEF IdsInv, Behind, TypeOK, Apps, Ids
    <2> QED BY <2>1, <2>2, <2>3
  <1>2. ASSUME NEW c \in Conns, NEW i \in 0 .. MaxId, NEW n \in Names, CreateEnv(c, i, n),
               NEW e \in envs' \ envs, NEW v \in vars'
        PROVE  v.env # e.id
    <2>1. e.id = next.env /\ v \in vars
      BY <1>2 DEF CreateEnv
    <2>2. PICK d \in envs : d.id = v.env
      BY <2>1 DEF Chained, NoOrphans, IdsOf
    <2>3. d.id < next.env /\ d.id \in Nat /\ next.env \in Nat
      BY DEF IdsInv, Behind, TypeOK, Envs, Ids
    <2> QED BY <2>1, <2>2, <2>3
  <1>3. ASSUME NEW n \in Names, CreateApp(n) PROVE envs' = envs
    BY <1>3 DEF CreateApp
  <1>4. ASSUME NEW c \in Conns, NEW i \in 0 .. MaxId, NEW n \in Names, CreateEnv(c, i, n)
        PROVE  apps' = apps
    BY <1>4 DEF CreateEnv
  <1>5. ASSUME NEW c \in Conns, NEW as, NEW es, NEW vs, Remove(c, as, es, vs)
        PROVE  apps' \subseteq apps /\ envs' \subseteq envs
    BY <1>5, RemoveShrinks
  <1>6. \/ \E n \in Names : CreateApp(n)
        \/ \E c \in Conns, i \in 0 .. MaxId, n \in Names : CreateEnv(c, i, n)
        \/ apps' \subseteq apps /\ envs' \subseteq envs
    BY <1>5 DEF Next, DeleteApp, DeleteEnv, DeleteVar, SetVar, InsertFails, Renew, Restart,
                tables, state
  <1> QED BY <1>1, <1>2, <1>3, <1>4, <1>6

\* On Postgres nothing is left over for the ids given to new applications and
\* environments.
THEOREM StartEmptyCorrect == Spec => StartEmpty
  <1>1. Init => Chained
    BY DEF Init, Chained, NoOrphans
  <1>2. IdsInv /\ Chained /\ [Next]_state =>
          [dialect = "postgres" =>
             /\ \A a \in apps' \ apps : \A e \in envs' : e.app # a.id
             /\ \A e \in envs' \ envs : \A v \in vars' : v.env # e.id]_state
    BY StartsEmpty
  <1> QED BY <1>1, <1>2, IdsInit, IdsNext, ChainedNext, PTL DEF Spec, StartEmpty

\* The rows a deletion takes along have lost their parent.
LEMMA RemoveFollows ==
  ASSUME Unique, NEW c, NEW as \in SUBSET apps, NEW es \in SUBSET envs, NEW vs \in SUBSET vars,
         Remove(c, as, es, vs)
  PROVE  /\ \A e \in envs \ envs' : e \in es \/ e.app \notin IdsOf(apps')
         /\ \A v \in vars \ vars' : v \in vs \/ v.env \notin IdsOf(envs')
  <1> DEFINE es2 == IF Enforces(c) THEN es \cup EnvsOf(as) ELSE es
             vs2 == IF Enforces(c) THEN vs \cup VarsOf(es2) ELSE vs
  <1>1. apps' = apps \ as /\ envs' = envs \ es2 /\ vars' = vars \ vs2
    BY DEF Remove
  <1>2. ASSUME NEW e \in envs \ envs', e \notin es PROVE e.app \notin IdsOf(apps')
    <2>1. e \in EnvsOf(as)
      BY <1>1, <1>2
    <2>2. PICK a \in as : a.id = e.app
      BY <2>1 DEF EnvsOf, IdsOf
    <2> QED BY <1>1, <2>2 DEF Unique, IdsOf
  <1>3. ASSUME NEW v \in vars \ vars', v \notin vs PROVE v.env \notin IdsOf(envs')
    <2>1. v \in VarsOf(es2)
      BY <1>1, <1>3
    <2>2. PICK e \in es2 : e.id = v.env
      BY <2>1 DEF VarsOf, IdsOf
    <2>3. e \in envs
      BY <2>2 DEF EnvsOf
    <2> QED BY <1>1, <2>2, <2>3 DEF Unique, IdsOf
  <1> QED BY <1>2, <1>3

LEMMA SparesTheRest == IdsInv /\ [Next]_state => SparesOthers
  <1> SUFFICES ASSUME IdsInv, [Next]_state PROVE SparesOthers
    OBVIOUS
  <1>u. Unique
    BY DEF IdsInv
  <1>1. ASSUME NEW c \in Conns, NEW a \in apps, DeleteApp(c, a)
        PROVE  /\ \A e \in envs \ envs' : e.app \notin IdsOf(apps')
               /\ \A v \in vars \ vars' : v.env \notin IdsOf(envs')
    <2>1. Remove(c, {a}, {}, {}) /\ {a} \in SUBSET apps /\ {} \in SUBSET envs /\ {} \in SUBSET vars
      BY <1>1 DEF DeleteApp
    <2> QED BY <2>1, <1>u, RemoveFollows
  <1>2. ASSUME NEW c \in Conns, NEW d \in envs, DeleteEnv(c, d)
        PROVE  /\ apps' = apps /\ envs' = envs \ {d}
               /\ \A v \in vars \ vars' : v.env \notin IdsOf(envs')
    <2>1. Remove(c, {}, {d}, {}) /\ {} \in SUBSET apps /\ {d} \in SUBSET envs /\ {} \in SUBSET vars
      BY <1>2 DEF DeleteEnv
    <2>2. apps' = apps /\ envs' = envs \ {d}
      BY <2>1 DEF Remove, EnvsOf, IdsOf
    <2> QED BY <2>1, <2>2, <1>u, RemoveFollows
  <1>3. ASSUME NEW c \in Conns, NEW v \in vars, DeleteVar(c, v)
        PROVE  apps' = apps /\ envs' = envs /\ vars' = vars \ {v}
    BY <1>3 DEF DeleteVar, Remove, EnvsOf, VarsOf, IdsOf
  <1>5. \/ \E c \in Conns, a \in apps : DeleteApp(c, a)
        \/ \E c \in Conns, e \in envs : DeleteEnv(c, e)
        \/ \E c \in Conns, v \in vars : DeleteVar(c, v)
        \/ envs \subseteq envs' /\ vars \subseteq vars'
    BY DEF Next, CreateApp, CreateEnv, SetVar, InsertFails, Renew, Restart, tables, state
  <1> QED BY <1>1, <1>2, <1>3, <1>5 DEF SparesOthers

\* No cascade follows ids that coincide: a row whose parent stays disappears
\* only by its own deletion.
THEOREM NoCollateralCorrect == Spec => NoCollateral
  BY SparesTheRest, IdsInit, IdsNext, PTL DEF Spec, NoCollateral

-----------------------------------------------------------------------------
(* The handlers and the audit trail.                                       *)

Typed == /\ job \in [Reqs -> Entries \cup {Idle}]
         /\ trail \in [Entries -> Nat] /\ missed \in [Entries -> Nat]
         /\ silent \in [Entries -> Nat]

LEMMA IdleIsNone == Idle \notin Entries
  BY DEF Idle, Entry, Entries

LEMMA EntryIn ==
  /\ \A i \in Ids : /\ Entry("app.create", i, 0) \in Entries
                    /\ Entry("app.delete", i, 0) \in Entries
                    /\ Entry("env.delete", i, 0) \in Entries
  /\ \A i \in Ids, own \in 0 .. MaxId : Entry("env.create", i, own) \in Entries
  BY CatalogAssumption DEF Entry, Entries, Ids

Holders(e) == {q \in Reqs : job[q] = e}

LEMMA HoldersFinite == \A e : IsFiniteSet(Holders(e)) /\ Pending(e) \in Nat
  <1> TAKE e
  <1>1. Holders(e) \subseteq Reqs
    BY DEF Holders
  <1>2. IsFiniteSet(Holders(e))
    BY <1>1, CatalogApiAssumption, FS_Subset
  <1>3. Pending(e) = Cardinality(Holders(e))
    BY DEF Pending, Holders
  <1> QED BY <1>2, <1>3, FS_CardinalityType

\* The terms of Accounted are numbers.
LEMMA Numbers ==
  ASSUME Typed
  PROVE  \A f \in Entries : /\ trail[f] \in Nat /\ missed[f] \in Nat
                             /\ silent[f] \in Nat /\ Pending(f) \in Nat
  BY HoldersFinite DEF Typed

LEMMA AccountedIn == ASSUME Typed PROVE \A e \in Entries : Accounted(e) \in Nat
  BY Numbers DEF Accounted

LEMMA OneMore ==
  ASSUME NEW f, NEW r, r \notin Holders(f), Holders(f)' = Holders(f) \cup {r}
  PROVE  Pending(f)' = Pending(f) + 1
  <1>1. IsFiniteSet(Holders(f))
    BY HoldersFinite
  <1>2. Cardinality(Holders(f) \cup {r}) = Cardinality(Holders(f)) + 1
    BY <1>1, FS_AddElement
  <1> QED BY <1>2 DEF Pending, Holders

LEMMA OneLess ==
  ASSUME NEW f, NEW r, r \in Holders(f), Holders(f)' = Holders(f) \ {r}
  PROVE  Pending(f)' = Pending(f) - 1
  <1>1. IsFiniteSet(Holders(f))
    BY HoldersFinite
  <1>2. Cardinality(Holders(f) \ {r}) = Cardinality(Holders(f)) - 1
    BY <1>1, FS_RemoveElement
  <1> QED BY <1>2 DEF Pending, Holders

LEMMA AsMany ==
  ASSUME NEW f, Holders(f)' = Holders(f)
  PROVE  Pending(f)' = Pending(f)
  BY DEF Pending, Holders

\* A change is accounted for once, in the moment it is made.
LEMMA ChangedAccounts ==
  ASSUME Typed, NEW r \in Reqs, NEW e \in Entries, Changed(r, e)
  PROVE  /\ Typed'
         /\ \A f \in Entries : Accounted(f)' = Accounted(f) + (IF f = e THEN 1 ELSE 0)
  <1>1. job[r] = Idle /\ UNCHANGED trail
    BY DEF Changed
  <1>2. CASE job' = [job EXCEPT ![r] = e] /\ UNCHANGED <<missed, silent>>
    <2>1. Typed'
      BY <1>1, <1>2 DEF Typed
    <2>2. ASSUME NEW f \in Entries
          PROVE  Accounted(f)' = Accounted(f) + (IF f = e THEN 1 ELSE 0)
      <3>1. CASE f = e
        <4>1. Holders(f)' = Holders(f) \cup {r}
          BY <1>2, <3>1 DEF Typed, Holders
        <4>2. r \notin Holders(f)
          BY <1>1, IdleIsNone DEF Holders
        <4>3. Pending(f)' = Pending(f) + 1
          BY <4>1, <4>2, OneMore
        <4> QED BY <1>1, <1>2, <3>1, <4>3, Numbers DEF Accounted
      <3>2. CASE f # e
        <4>1. Holders(f)' = Holders(f)
          BY <1>1, <1>2, <3>2, IdleIsNone DEF Typed, Holders
        <4> QED BY <1>1, <1>2, <3>2, <4>1, AsMany, Numbers DEF Accounted
      <3> QED BY <3>1, <3>2
    <2> QED BY <2>1, <2>2
  <1>3. CASE Misses(e) /\ UNCHANGED job
    <2>1. missed' = [missed EXCEPT ![e] = @ + 1] /\ UNCHANGED silent
      BY <1>3 DEF Misses
    <2>2. Typed'
      BY <1>1, <1>3, <2>1 DEF Typed
    <2>3. ASSUME NEW f \in Entries
          PROVE  Accounted(f)' = Accounted(f) + (IF f = e THEN 1 ELSE 0)
      <3>1. Pending(f)' = Pending(f)
        BY <1>3, AsMany DEF Holders
      <3>2. missed'[f] = missed[f] + (IF f = e THEN 1 ELSE 0)
        BY <2>1 DEF Typed
      <3> QED BY <1>1, <2>1, <3>1, <3>2, Numbers DEF Accounted
    <2> QED BY <2>2, <2>3
  <1>4. CASE Drops(e) /\ UNCHANGED job
    <2>1. silent' = [silent EXCEPT ![e] = @ + 1] /\ UNCHANGED missed
      BY <1>4 DEF Drops
    <2>2. Typed'
      BY <1>1, <1>4, <2>1 DEF Typed
    <2>3. ASSUME NEW f \in Entries
          PROVE  Accounted(f)' = Accounted(f) + (IF f = e THEN 1 ELSE 0)
      <3>1. Pending(f)' = Pending(f)
        BY <1>4, AsMany DEF Holders
      <3>2. silent'[f] = silent[f] + (IF f = e THEN 1 ELSE 0)
        BY <2>1 DEF Typed
      <3> QED BY <1>1, <2>1, <3>1, <3>2, Numbers DEF Accounted
    <2> QED BY <2>2, <2>3
  <1> QED BY <1>2, <1>3, <1>4 DEF Changed

\* An entry that reaches the trail, or is warned of, is no longer pending.
LEMMA RecordedLeaves ==
  ASSUME Typed, NEW r \in Reqs, job[r] # Idle, Recorded(r)
  PROVE  /\ job[r] \in Entries
         /\ job' \in [Reqs -> Entries \cup {Idle}]
         /\ \A f \in Entries : Pending(f)' = Pending(f) - (IF f = job[r] THEN 1 ELSE 0)
  <1>1. job[r] \in Entries
    BY DEF Typed
  <1>2. job' = [job EXCEPT ![r] = Idle]
    BY DEF Recorded
  <1>3. job' \in [Reqs -> Entries \cup {Idle}]
    BY <1>2 DEF Typed
  <1>4. ASSUME NEW f \in Entries PROVE Pending(f)' = Pending(f) - (IF f = job[r] THEN 1 ELSE 0)
    <2>1. CASE f = job[r]
      <3>1. Holders(f)' = Holders(f) \ {r}
        BY <1>2, IdleIsNone DEF Typed, Holders
      <3>2. r \in Holders(f)
        BY <2>1 DEF Holders
      <3> QED BY <2>1, <3>1, <3>2, OneLess
    <2>2. CASE f # job[r]
      <3>1. Holders(f)' = Holders(f)
        BY <1>2, <2>2, IdleIsNone DEF Typed, Holders
      <3>2. Pending(f)' = Pending(f)
        BY <3>1, AsMany
      <3> QED BY <2>2, <3>2, HoldersFinite
    <2> QED BY <2>1, <2>2
  <1> QED BY <1>1, <1>3, <1>4

LEMMA AuditAccounts ==
  ASSUME Typed, NEW r \in Reqs, Audit(r) \/ AuditFails(r)
  PROVE  Typed' /\ \A f \in Entries : Accounted(f)' = Accounted(f)
  <1>1. job[r] # Idle /\ Recorded(r)
    BY DEF Audit, AuditFails
  <1>2. /\ job[r] \in Entries
        /\ job' \in [Reqs -> Entries \cup {Idle}]
        /\ \A f \in Entries : Pending(f)' = Pending(f) - (IF f = job[r] THEN 1 ELSE 0)
    BY <1>1, RecordedLeaves
  <1>3. \/ trail' = [trail EXCEPT ![job[r]] = @ + 1] /\ missed' = missed
        \/ missed' = [missed EXCEPT ![job[r]] = @ + 1] /\ trail' = trail
    BY DEF Audit, AuditFails, Warns, Misses
  <1>s. silent' = silent
    BY DEF Audit, AuditFails, Warns, Misses
  <1>4. Typed'
    BY <1>2, <1>3, <1>s DEF Typed
  <1>5. ASSUME NEW f \in Entries PROVE Accounted(f)' = Accounted(f)
    <2>1. trail'[f] + missed'[f] = trail[f] + missed[f] + (IF f = job[r] THEN 1 ELSE 0)
      BY <1>2, <1>3 DEF Typed
    <2>2. /\ trail[f] \in Nat /\ missed[f] \in Nat
          /\ trail'[f] \in Nat /\ missed'[f] \in Nat
          /\ silent[f] \in Nat /\ Pending(f) \in Nat
      BY <1>4, Numbers DEF Typed
    <2> QED BY <1>2, <1>s, <2>1, <2>2 DEF Accounted
  <1> QED BY <1>4, <1>5

LEMMA RestartAccounts ==
  ASSUME Typed, NEW c \in Conns, Restarted(c)
  PROVE  Typed' /\ \A f \in Entries : Accounted(f)' = Accounted(f)
  <1>1. /\ missed' = [e \in Entries |-> missed[e] + Pending(e)]
        /\ job' = [r \in Reqs |-> Idle] /\ trail' = trail /\ silent' = silent
    BY DEF Restarted
  <1>2. Typed'
    BY <1>1, Numbers DEF Typed
  <1>3. ASSUME NEW f \in Entries PROVE Accounted(f)' = Accounted(f)
    <2>1. Holders(f)' = {}
      BY <1>1, IdleIsNone DEF Holders
    <2>2. Pending(f)' = 0
      BY <2>1, FS_EmptySet DEF Pending, Holders
    <2> QED BY <1>1, <2>2, Numbers DEF Accounted
  <1> QED BY <1>2, <1>3

-----------------------------------------------------------------------------
(* The handlers do nothing to the tables but what Catalog says.            *)

LEMMA ApiStep == [ApiNext]_<<state, audits>> => [Next]_state
  BY DEF ApiNext, Handle, HandleCreateApp, HandleDeleteApp, HandleCreateEnv, HandleDeleteEnv,
         Audit, AuditFails, Restarted, Next

\* What is proved of Catalog holds with the handlers around it.
THEOREM ApiImplementsCatalog == ApiSpec => Spec
  <1>1. ApiInit => Init
    BY DEF ApiInit
  <1> QED BY <1>1, ApiStep, PTL DEF ApiSpec, Spec

-----------------------------------------------------------------------------
(* The trail and the tables.                                               *)

\* An entry is that of one change.
LEMMA EntriesDiffer ==
  /\ \A i, j, a, b : Entry("app.create", i, a) # Entry("app.delete", j, b)
  /\ \A i, j, a, b, x \in {"app.create", "app.delete"}, y \in {"env.create", "env.delete"} :
       Entry(x, i, a) # Entry(y, j, b)
  /\ \A i, j, a, b : Entry("env.create", i, a) # Entry("env.delete", j, b)
  /\ \A x, i, j, a, b : Entry(x, i, a) = Entry(x, j, b) <=> i = j /\ a = b
  BY DEF Entry

\* The steps of the tables, by what becomes of the applications and the
\* environments, and of the entries.
TablesStay == UNCHANGED <<apps, envs>> /\ next'.env >= next.env

Records(e) == \A f \in Entries : Accounted(f)' = Accounted(f) + (IF f = e THEN 1 ELSE 0)

AppCreated ==
  /\ next.app \in Ids \ {1} /\ next.app \notin IdsOf(apps)
  /\ IdsOf(apps') = IdsOf(apps) \cup {next.app}
  /\ UNCHANGED envs /\ next'.env = next.env
  /\ Records(Entry("app.create", next.app, 0))

AppDeleted(a) ==
  /\ a \in apps /\ a.id \in Ids \ {1}
  /\ IdsOf(apps') = IdsOf(apps) \ {a.id}
  /\ envs' \in {envs, envs \ EnvsOf({a})} /\ next'.env = next.env
  /\ Records(Entry("app.delete", a.id, 0))

EnvCreated(own, n) ==
  /\ next.env \in Ids /\ next'.env = next.env + 1
  /\ envs' = envs \cup {[id |-> next.env, app |-> AppOf(own), name |-> n]}
  /\ UNCHANGED apps
  /\ Records(Entry("env.create", next.env, own))

EnvDeleted(e) ==
  /\ e \in envs /\ e.id \in Ids
  /\ envs' = envs \ {e} /\ next'.env = next.env
  /\ UNCHANGED apps
  /\ Records(Entry("env.delete", e.id, 0))

LEMMA IdsFacts ==
  ASSUME IdsInv
  PROVE  /\ \A a \in apps : a.id \in Ids
         /\ \A e \in envs : e.id \in Ids /\ e.app \in Ids
         /\ next.app \in Nat /\ next.env \in Nat
         /\ next.app \notin IdsOf(apps) /\ next.app # 1
         /\ 1 \in IdsOf(apps)
  <1>1. /\ \A a \in apps : a.id \in Ids
        /\ \A e \in envs : e.id \in Ids /\ e.app \in Ids
        /\ next.app \in Nat /\ next.env \in Nat
    BY CatalogAssumption DEF IdsInv, TypeOK, Apps, Envs, Ids
  <1>2. 1 \in IdsOf(apps)
    BY DEF IdsInv, DefaultStays, IdsOf
  <1>3. \A i \in IdsOf(apps) : i \in Nat /\ i < next.app
    BY <1>1, CatalogAssumption DEF IdsInv, Behind, IdsOf, Ids
  <1> QED BY <1>1, <1>2, <1>3

LEMMA CreateAppRecords ==
  ASSUME IdsInv, Typed, NEW r \in Reqs, NEW n \in Names, HandleCreateApp(r, n)
  PROVE  Typed' /\ AppCreated
  <1>1. next.app \in Ids /\ apps' = apps \cup {NewApp(n)} /\ UNCHANGED envs
    BY DEF HandleCreateApp, CreateApp
  <1>2. next'.env = next.env
    BY DEF HandleCreateApp, CreateApp, IdsInv, TypeOK
  <1>3. IdsOf(apps') = IdsOf(apps) \cup {next.app}
    <2> DEFINE new == NewApp(n)
    <2>1. new.id = next.app
      BY DEF NewApp
    <2>2. apps' = apps \cup {new}
      BY <1>1
    <2> HIDE DEF new
    <2> QED BY <2>1, <2>2 DEF IdsOf
  <1>4. Changed(r, Entry("app.create", next.app, 0))
    BY DEF HandleCreateApp
  <1>5. Typed' /\ Records(Entry("app.create", next.app, 0))
    BY <1>1, <1>4, EntryIn, ChangedAccounts DEF Records
  <1> QED BY <1>1, <1>2, <1>3, <1>5, IdsFacts DEF AppCreated

LEMMA DeleteAppRecords ==
  ASSUME IdsInv, Typed, NEW r \in Reqs, NEW c \in Conns, NEW a \in apps, HandleDeleteApp(r, c, a)
  PROVE  Typed' /\ AppDeleted(a)
  <1>1. a.id # 1 /\ Remove(c, {a}, {}, {}) /\ next' = next
    BY DEF HandleDeleteApp, DeleteApp, Deletable
  <1>2. apps' = apps \ {a} /\ envs' \in {envs, envs \ EnvsOf({a})}
    BY <1>1 DEF Remove
  <1>3. IdsOf(apps') = IdsOf(apps) \ {a.id}
    BY <1>2 DEF IdsInv, Unique, IdsOf
  <1>4. a.id \in Ids
    BY IdsFacts
  <1>5. Typed' /\ Records(Entry("app.delete", a.id, 0))
    BY <1>4, EntryIn, ChangedAccounts DEF HandleDeleteApp, Records
  <1> QED BY <1>1, <1>2, <1>3, <1>4, <1>5 DEF AppDeleted

LEMMA CreateEnvRecords ==
  ASSUME IdsInv, Typed, NEW r \in Reqs, NEW c \in Conns, NEW own \in 0 .. MaxId, NEW n \in Names,
         HandleCreateEnv(r, c, own, n)
  PROVE  Typed' /\ EnvCreated(own, n)
  <1>1. /\ next.env \in Ids /\ UNCHANGED apps
        /\ envs' = envs \cup {[id |-> next.env, app |-> AppOf(own), name |-> n]}
    BY DEF HandleCreateEnv, CreateEnv
  <1>2. next'.env = next.env + 1
    BY DEF HandleCreateEnv, CreateEnv, IdsInv, TypeOK
  <1>3. Typed' /\ Records(Entry("env.create", next.env, own))
    BY <1>1, EntryIn, ChangedAccounts DEF HandleCreateEnv, AppInEntry, Records
  <1> QED BY <1>1, <1>2, <1>3 DEF EnvCreated

LEMMA DeleteEnvRecords ==
  ASSUME IdsInv, Typed, NEW r \in Reqs, NEW c \in Conns, NEW e \in envs, HandleDeleteEnv(r, c, e)
  PROVE  Typed' /\ EnvDeleted(e)
  <1>1. Remove(c, {}, {e}, {}) /\ next' = next
    BY DEF HandleDeleteEnv, DeleteEnv
  <1>2. apps' = apps /\ envs' = envs \ {e}
    BY <1>1 DEF Remove, EnvsOf, IdsOf
  <1>3. e.id \in Ids
    BY IdsFacts
  <1>4. Typed' /\ Records(Entry("env.delete", e.id, 0))
    BY <1>3, EntryIn, ChangedAccounts DEF HandleDeleteEnv, Records
  <1> QED BY <1>1, <1>2, <1>3, <1>4 DEF EnvDeleted

LEMMA TablesRecordNothing ==
  ASSUME IdsInv, Typed, UNCHANGED audits,
         \/ \E c \in Conns : Renew(c)
         \/ \E t \in {"app", "env"} : InsertFails(t)
         \/ UNCHANGED state
  PROVE  Typed' /\ TablesStay /\ \A f \in Entries : Accounted(f)' = Accounted(f)
  <1>1. Typed' /\ \A f \in Entries : Accounted(f)' = Accounted(f)
    BY DEF audits, Typed, Accounted, Pending
  <1>n. next.env \in Nat
    BY IdsFacts
  <1>2. \A c \in Conns : Renew(c) => TablesStay
    BY <1>n DEF Renew, tables, TablesStay
  <1>3. UNCHANGED state => TablesStay
    BY <1>n DEF state, TablesStay
  <1>4. \A t \in {"app", "env"} : InsertFails(t) => TablesStay
    BY <1>n DEF InsertFails, TablesStay, IdsInv, TypeOK
  <1> QED BY <1>1, <1>2, <1>3, <1>4

\* Every step is one of these.
LEMMA StepKinds ==
  ASSUME IdsInv, Typed, [ApiNext]_<<state, audits>>
  PROVE  /\ Typed'
         /\ \/ AppCreated
            \/ \E a \in apps : AppDeleted(a)
            \/ \E own \in 0 .. MaxId, n \in Names : EnvCreated(own, n)
            \/ \E e \in envs : EnvDeleted(e)
            \/ TablesStay /\ \A f \in Entries : Accounted(f)' = Accounted(f)
  <1> DEFINE Same == TablesStay /\ \A f \in Entries : Accounted(f)' = Accounted(f)
  <1>n. next.env \in Nat
    BY IdsFacts
  <1>1. ASSUME NEW r \in Reqs, Audit(r) \/ AuditFails(r) PROVE Typed' /\ Same
    BY <1>1, <1>n, AuditAccounts DEF Audit, AuditFails, TablesStay, state
  <1>2. ASSUME NEW c \in Conns, Restarted(c) PROVE Typed' /\ Same
    <2>1. TablesStay
      BY <1>2, <1>n DEF Restarted, Restart, RepairSequence, TablesStay, IdsInv, TypeOK
    <2> QED BY <1>2, <2>1, RestartAccounts
  <1>3. ASSUME UNCHANGED audits,
               \/ \E c \in Conns : Renew(c)
               \/ \E t \in {"app", "env"} : InsertFails(t)
        PROVE  Typed' /\ Same
    BY <1>3, TablesRecordNothing
  <1>4. ASSUME UNCHANGED <<state, audits>> PROVE Typed' /\ Same
    BY <1>4, TablesRecordNothing DEF audits
  <1>5. ASSUME NEW r \in Reqs, NEW n \in Names, HandleCreateApp(r, n) PROVE Typed' /\ AppCreated
    BY <1>5, CreateAppRecords
  <1>6. ASSUME NEW r \in Reqs, NEW c \in Conns, NEW a \in apps, HandleDeleteApp(r, c, a)
        PROVE  Typed' /\ AppDeleted(a)
    BY <1>6, DeleteAppRecords
  <1>7. ASSUME NEW r \in Reqs, NEW c \in Conns, NEW own \in 0 .. MaxId, NEW n \in Names,
               HandleCreateEnv(r, c, own, n)
        PROVE  Typed' /\ EnvCreated(own, n)
    BY <1>7, CreateEnvRecords
  <1>8. ASSUME NEW r \in Reqs, NEW c \in Conns, NEW e \in envs, HandleDeleteEnv(r, c, e)
        PROVE  Typed' /\ EnvDeleted(e)
    BY <1>8, DeleteEnvRecords
  <1> HIDE DEF Same
  <1> DEFINE Kind == \/ AppCreated
                     \/ \E a \in apps : AppDeleted(a)
                     \/ \E own \in 0 .. MaxId, n \in Names : EnvCreated(own, n)
                     \/ \E e \in envs : EnvDeleted(e)
                     \/ Same
  <1>9. ASSUME NEW r \in Reqs, Handle(r) PROVE Typed' /\ Kind
    <2>1. CASE Audit(r) \/ AuditFails(r)
      BY <2>1, <1>1
    <2>2. ASSUME NEW n \in Names, HandleCreateApp(r, n) PROVE Typed' /\ Kind
      BY <2>2, <1>5
    <2>3. ASSUME NEW c \in Conns, NEW a \in apps, HandleDeleteApp(r, c, a) PROVE Typed' /\ Kind
      BY <2>3, <1>6
    <2>4. ASSUME NEW c \in Conns, NEW own \in 0 .. MaxId, NEW n \in Names,
                 HandleCreateEnv(r, c, own, n)
          PROVE  Typed' /\ Kind
      BY <2>4, <1>7
    <2>5. ASSUME NEW c \in Conns, NEW e \in envs, HandleDeleteEnv(r, c, e) PROVE Typed' /\ Kind
      BY <2>5, <1>8
    <2> HIDE DEF Kind
    <2> QED BY <1>9, <2>1, <2>2, <2>3, <2>4, <2>5 DEF Handle
  <1>10. ASSUME UNCHANGED <<state, audits>> PROVE Typed' /\ Kind
    BY <1>10, <1>4
  <1>11. ASSUME NEW c \in Conns, Restarted(c) PROVE Typed' /\ Kind
    BY <1>11, <1>2
  <1>12. ASSUME UNCHANGED audits,
                \/ \E c \in Conns : Renew(c)
                \/ \E t \in {"app", "env"} : InsertFails(t)
         PROVE  Typed' /\ Kind
    BY <1>12, <1>3
  <1>13. Typed' /\ Kind
    <2> HIDE DEF Kind
    <2>1. CASE ApiNext
      BY <2>1, <1>9, <1>11, <1>12 DEF ApiNext
    <2>2. CASE UNCHANGED <<state, audits>>
      BY <2>2, <1>10
    <2> QED BY <2>1, <2>2
  <1> QED BY <1>13 DEF Same

AccountInv == IdsInv /\ Typed /\ AppsAccounted

LEMMA AppsAccountedNext ==
  ASSUME AccountInv, [ApiNext]_<<state, audits>>
  PROVE  AccountInv'
  <1> USE EntryIn, EntriesDiffer
  <1>1. IdsInv /\ Typed /\ AppsAccounted
    BY DEF AccountInv
  <1>2. IdsInv' /\ Typed'
    BY <1>1, ApiStep, IdsNext, StepKinds
  <1>3. ASSUME NEW i \in Ids \ {1}
        PROVE  /\ Accounted(Entry("app.create", i, 0)) \in Nat
               /\ Accounted(Entry("app.delete", i, 0)) \in Nat
               /\ Accounted(Entry("app.create", i, 0)) =
                    Accounted(Entry("app.delete", i, 0)) + (IF i \in IdsOf(apps) THEN 1 ELSE 0)
    BY <1>1, AccountedIn DEF AppsAccounted
  <1>4. ASSUME AppCreated PROVE AppsAccounted'
    BY <1>3, <1>4 DEF AppCreated, Records, AppsAccounted
  <1>5. ASSUME NEW a \in apps, AppDeleted(a) PROVE AppsAccounted'
    <2>1. a.id \in IdsOf(apps)
      BY DEF IdsOf
    <2> QED BY <1>3, <1>5, <2>1 DEF AppDeleted, Records, AppsAccounted
  <1>6. ASSUME NEW own \in 0 .. MaxId, NEW n \in Names, EnvCreated(own, n) PROVE AppsAccounted'
    <2>1. UNCHANGED apps
      BY <1>6 DEF EnvCreated
    <2>2. IdsOf(apps') = IdsOf(apps)
      BY <2>1
    <2>3. ASSUME NEW f \in Entries, f # Entry("env.create", next.env, own), Accounted(f) \in Nat
          PROVE  Accounted(f)' = Accounted(f)
      BY <1>6, <2>3 DEF EnvCreated, Records
    <2>4. \A i \in Ids \ {1} :
            /\ Entry("app.create", i, 0) # Entry("env.create", next.env, own)
            /\ Entry("app.delete", i, 0) # Entry("env.create", next.env, own)
      BY DEF Entry
    <2> QED BY <1>3, <2>2, <2>3, <2>4 DEF AppsAccounted
  <1>7. ASSUME NEW e \in envs, EnvDeleted(e) PROVE AppsAccounted'
    <2>1. UNCHANGED apps
      BY <1>7 DEF EnvDeleted
    <2>2. IdsOf(apps') = IdsOf(apps)
      BY <2>1
    <2>3. ASSUME NEW f \in Entries, f # Entry("env.delete", e.id, 0), Accounted(f) \in Nat
          PROVE  Accounted(f)' = Accounted(f)
      BY <1>7, <2>3 DEF EnvDeleted, Records
    <2>4. \A i \in Ids \ {1} :
            /\ Entry("app.create", i, 0) # Entry("env.delete", e.id, 0)
            /\ Entry("app.delete", i, 0) # Entry("env.delete", e.id, 0)
      BY DEF Entry
    <2> QED BY <1>3, <2>2, <2>3, <2>4 DEF AppsAccounted
  <1>8. ASSUME TablesStay, \A f \in Entries : Accounted(f)' = Accounted(f) PROVE AppsAccounted'
    BY <1>3, <1>8 DEF TablesStay, AppsAccounted, IdsOf
  <1> QED BY <1>1, <1>2, <1>4, <1>5, <1>6, <1>7, <1>8, StepKinds DEF AccountInv

LEMMA ApiInits == ApiInit => /\ IdsInv /\ Typed
                             /\ \A e \in Entries : Accounted(e) = 0
  <1> SUFFICES ASSUME ApiInit
               PROVE  IdsInv /\ Typed /\ \A e \in Entries : Accounted(e) = 0
    OBVIOUS
  <1>1. IdsInv /\ Typed
    <2>1. \A f : f = [e \in Entries |-> 0] => f \in [Entries -> Nat]
      OBVIOUS
    <2> QED BY IdsInit, <2>1 DEF ApiInit, Typed
  <1>2. ASSUME NEW e \in Entries PROVE Pending(e) = 0
    <2>1. Holders(e) = {}
      BY IdleIsNone DEF Holders, ApiInit
    <2> QED BY <2>1, FS_EmptySet DEF Pending, Holders
  <1> QED BY <1>1, <1>2 DEF ApiInit, Accounted

\* The trail, what it is known to lack and what a dashboard dropped make one
\* creation more than deletions of an application that exists, and as many of
\* one that does not.
THEOREM AppsAccountedCorrect == ApiSpec => []AppsAccounted
  <1>1. ApiInit => AccountInv
    <2> SUFFICES ASSUME ApiInit PROVE AppsAccounted
      BY ApiInits DEF AccountInv
    <2>1. IdsOf(apps) = {1}
      BY DEF ApiInit, Init, IdsOf
    <2> QED BY <2>1, ApiInits, EntryIn DEF AppsAccounted
  <1>2. AccountInv /\ [ApiNext]_<<state, audits>> => AccountInv'
    BY AppsAccountedNext
  <1> QED BY <1>1, <1>2, PTL DEF ApiSpec, AccountInv

-----------------------------------------------------------------------------
(* The same of environments, which may also go with their application.     *)

Deletions(own) == Accounted(Entry("app.delete", AppOf(own), 0))

Explained(i, own) ==
  /\ Accounted(Entry("env.create", i, own)) = 1
  /\ IF i \in IdsOf(envs)
     THEN /\ \E e \in envs : e.id = i /\ e.app = AppOf(own)
          /\ Accounted(Entry("env.delete", i, 0)) = 0
     ELSE Accounted(Entry("env.delete", i, 0)) = 1 \/ Deletions(own) > 0

\* What EnvsAccounted says of one id.
Settled(i) == \/ i \notin IdsOf(envs) /\ Unrecorded(i)
              \/ \E own \in 0 .. MaxId : Explained(i, own)

\* Nothing is recorded of an environment that is yet to be created.
Unused == \A i \in Ids : i >= next.env => Unrecorded(i)

EnvAccountInv == IdsInv /\ Typed /\ Unused /\ EnvsAccounted

LEMMA EachSettled == EnvsAccounted <=> \A i \in Ids : Settled(i)
  BY DEF EnvsAccounted, Settled, Explained, Deletions

LEMMA EntryNumbers ==
  ASSUME Typed
  PROVE  \A i \in Ids, own \in 0 .. MaxId :
           /\ Entry("env.create", i, own) \in Entries /\ Entry("env.delete", i, 0) \in Entries
           /\ Entry("app.delete", AppOf(own), 0) \in Entries
           /\ Accounted(Entry("env.create", i, own)) \in Nat
           /\ Accounted(Entry("env.delete", i, 0)) \in Nat
           /\ Deletions(own) \in Nat
  <1>1. \A own \in 0 .. MaxId : AppOf(own) \in Ids
    BY CatalogAssumption DEF AppOf, Ids
  <1> QED BY <1>1, EntryIn, AccountedIn DEF Deletions

\* An environment stays explained while nothing happens to it.
LEMMA StaysExplained ==
  ASSUME NEW i \in Ids, NEW own \in 0 .. MaxId, Explained(i, own),
         Accounted(Entry("env.create", i, own))' = Accounted(Entry("env.create", i, own)),
         Accounted(Entry("env.delete", i, 0))' = Accounted(Entry("env.delete", i, 0)),
         Deletions(own) > 0 => Deletions(own)' > 0,
         \A e \in envs : e.id = i => e \in envs',
         \A e \in envs' : e.id = i => e \in envs
  PROVE  Explained(i, own)'
  <1>1. i \in IdsOf(envs') <=> i \in IdsOf(envs)
    BY DEF IdsOf
  <1> QED BY <1>1 DEF Explained, IdsOf

LEMMA EnvAccountNext ==
  ASSUME EnvAccountInv, [ApiNext]_<<state, audits>>
  PROVE  EnvAccountInv'
  <1>1. IdsInv /\ Typed /\ Unused /\ EnvsAccounted
    BY DEF EnvAccountInv
  <1>2. IdsInv' /\ Typed'
    BY <1>1, ApiStep, IdsNext, StepKinds
  <1>3. \A i \in Ids : Settled(i)
    BY <1>1, EachSettled
  <1>4. SUFFICES Unused' /\ \A i \in Ids : Settled(i)'
    <2>1. (\A i \in Ids : Settled(i)') => EnvsAccounted'
      BY DEF EnvsAccounted, Settled, Explained, Deletions
    <2> QED BY <1>2, <2>1 DEF EnvAccountInv
  <1>n. /\ next.env \in Nat /\ next'.env \in Nat /\ Unique /\ Behind
        /\ \A i \in Ids : i \in Nat
        /\ \A e \in envs : e.id \in Ids /\ e.app \in Ids
    BY <1>1, <1>2, IdsFacts, CatalogAssumption DEF IdsInv, TypeOK, Ids
  <1>5. ASSUME next'.env >= next.env, UNCHANGED envs,
               \A i \in Ids, own \in 0 .. MaxId :
                 /\ Accounted(Entry("env.create", i, own))' = Accounted(Entry("env.create", i, own))
                 /\ Accounted(Entry("env.delete", i, 0))' = Accounted(Entry("env.delete", i, 0))
                 /\ Deletions(own) > 0 => Deletions(own)' > 0
        PROVE  Unused' /\ \A i \in Ids : Settled(i)'
    <2>1. \A i \in Ids : Unrecorded(i) => Unrecorded(i)'
      BY <1>5, CatalogAssumption DEF Unrecorded
    <2>2. Unused'
      BY <1>1, <1>n, <1>5, <2>1 DEF Unused
    <2>3. ASSUME NEW i \in Ids, NEW own \in 0 .. MaxId, Explained(i, own)
          PROVE  Explained(i, own)'
      BY <1>5, <2>3, StaysExplained
    <2> QED BY <1>3, <1>5, <2>1, <2>2, <2>3 DEF Settled, IdsOf
  <1>6. ASSUME AppCreated
        PROVE  Unused' /\ \A i \in Ids : Settled(i)'
    <2>1. \A f \in Entries : f # Entry("app.create", next.app, 0) =>
            Accounted(f) \in Nat /\ Accounted(f)' = Accounted(f)
      BY <1>1, <1>6, AccountedIn DEF AppCreated, Records
    <2>2. \A i, own : /\ Entry("env.create", i, own) # Entry("app.create", next.app, 0)
                      /\ Entry("env.delete", i, 0) # Entry("app.create", next.app, 0)
                      /\ Entry("app.delete", AppOf(own), 0) # Entry("app.create", next.app, 0)
      BY DEF Entry
    <2>3. next'.env >= next.env /\ UNCHANGED envs
      BY <1>n, <1>6 DEF AppCreated
    <2> QED BY <1>1, <1>5, <2>1, <2>2, <2>3, EntryNumbers DEF Deletions
  <1>7. ASSUME TablesStay, \A f \in Entries : Accounted(f)' = Accounted(f)
        PROVE  Unused' /\ \A i \in Ids : Settled(i)'
    <2>3. next'.env >= next.env /\ UNCHANGED envs
      BY <1>7 DEF TablesStay
    <2> QED BY <1>1, <1>5, <1>7, <2>3, EntryNumbers DEF Deletions
  <1>8. ASSUME NEW a \in apps, AppDeleted(a)
        PROVE  Unused' /\ \A i \in Ids : Settled(i)'
    <2>1. /\ next'.env = next.env /\ a.id \in Ids
          /\ envs' \in {envs, envs \ EnvsOf({a})} /\ envs' \subseteq envs
          /\ Records(Entry("app.delete", a.id, 0))
      BY <1>8 DEF AppDeleted
    <2>2. \A i, own : /\ Entry("env.create", i, own) # Entry("app.delete", a.id, 0)
                      /\ Entry("env.delete", i, 0) # Entry("app.delete", a.id, 0)
      BY DEF Entry
    <2>3. \A i \in Ids, own \in 0 .. MaxId :
            /\ Accounted(Entry("env.create", i, own))' = Accounted(Entry("env.create", i, own))
            /\ Accounted(Entry("env.delete", i, 0))' = Accounted(Entry("env.delete", i, 0))
      BY <1>1, <2>1, <2>2, EntryNumbers DEF Records
    <2>4. \A own \in 0 .. MaxId : /\ Deletions(own) > 0 => Deletions(own)' > 0
                                  /\ AppOf(own) = a.id => Deletions(own)' > 0
      BY <1>1, <2>1, EntryNumbers DEF Records, Deletions
    <2>u. \A i \in Ids : Unrecorded(i) => Unrecorded(i)'
      BY <2>3, CatalogAssumption DEF Unrecorded
    <2>5. Unused'
      BY <1>1, <2>1, <2>u DEF Unused
    <2>6. ASSUME NEW i \in Ids, NEW own \in 0 .. MaxId, Explained(i, own) PROVE Explained(i, own)'
      <3>1. Explained(i, own)
        BY <2>6
      <3>2. CASE \A e \in envs : e.id = i => e \in envs'
        BY <2>1, <2>3, <2>4, <3>1, <3>2, StaysExplained
      <3>3. ASSUME NEW e \in envs, e.id = i, e \notin envs' PROVE Explained(i, own)'
        <4>1. e.app = a.id
          BY <2>1, <3>3 DEF EnvsOf, IdsOf
        <4>2. i \in IdsOf(envs)
          BY <3>3 DEF IdsOf
        <4>3. e.app = AppOf(own)
          BY <1>n, <3>1, <3>3, <4>2 DEF Explained, Unique
        <4>4. i \notin IdsOf(envs')
          BY <1>n, <2>1, <3>3 DEF Unique, IdsOf
        <4>5. Deletions(own)' > 0
          BY <2>4, <4>1, <4>3
        <4> QED BY <2>3, <3>1, <4>4, <4>5 DEF Explained
      <3> QED BY <3>2, <3>3
    <2> QED BY <1>3, <2>1, <2>u, <2>5, <2>6 DEF Settled, IdsOf
  <1>9. ASSUME NEW app0 \in 0 .. MaxId, NEW n \in Names, EnvCreated(app0, n)
        PROVE  Unused' /\ \A i \in Ids : Settled(i)'
    <2> DEFINE new == [id |-> next.env, app |-> AppOf(app0), name |-> n]
    <2>1. /\ next.env \in Ids /\ next'.env = next.env + 1
          /\ envs' = envs \cup {new}
          /\ Records(Entry("env.create", next.env, app0))
      BY <1>9 DEF EnvCreated
    <2>2. new.id = next.env /\ new.app = AppOf(app0)
      OBVIOUS
    <2> HIDE DEF new
    <2>3. \A i, own : /\ Entry("env.create", i, own) = Entry("env.create", next.env, app0)
                           => i = next.env /\ own = app0
                      /\ Entry("env.delete", i, 0) # Entry("env.create", next.env, app0)
                      /\ Entry("app.delete", AppOf(own), 0) # Entry("env.create", next.env, app0)
      BY DEF Entry
    <2>4. \A i \in Ids, own \in 0 .. MaxId :
            /\ i # next.env =>
                 Accounted(Entry("env.create", i, own))' = Accounted(Entry("env.create", i, own))
            /\ Accounted(Entry("env.delete", i, 0))' = Accounted(Entry("env.delete", i, 0))
            /\ Deletions(own)' = Deletions(own)
      BY <1>1, <2>1, <2>3, EntryNumbers DEF Records, Deletions
    <2>5. ASSUME NEW i \in Ids, i = next.env PROVE Accounted(Entry("env.create", i, app0))' = 1
      <3>1. Accounted(Entry("env.create", i, app0)) = 0
        BY <1>1, <1>n, <2>5 DEF Unused, Unrecorded
      <3>2. Entry("env.create", i, app0) \in Entries
        BY EntryIn
      <3> QED BY <2>1, <2>5, <3>1, <3>2 DEF Records
    <2>u. \A i \in Ids : i # next.env /\ Unrecorded(i) => Unrecorded(i)'
      BY <2>4 DEF Unrecorded
    <2>6. Unused'
      BY <1>1, <1>n, <2>1, <2>u DEF Unused
    <2>7. ASSUME NEW i \in Ids PROVE Settled(i)'
      <3>1. CASE i = next.env
        <4>1. i \in IdsOf(envs') /\ \E e \in envs' : e.id = i /\ e.app = AppOf(app0)
          BY <2>1, <2>2, <3>1 DEF IdsOf
        <4>2. Accounted(Entry("env.delete", i, 0))' = 0
          BY <1>1, <1>n, <2>1, <2>4, <3>1 DEF Unused, Unrecorded
        <4>3. Explained(i, app0)'
          BY <2>5, <3>1, <4>1, <4>2 DEF Explained
        <4> QED BY <4>3 DEF Settled
      <3>2. CASE i # next.env
        <4>1. ASSUME NEW own \in 0 .. MaxId, Explained(i, own) PROVE Explained(i, own)'
          BY <2>1, <2>2, <2>4, <3>2, <4>1, StaysExplained
        <4>2. i \notin IdsOf(envs) => i \notin IdsOf(envs')
          BY <2>1, <2>2, <3>2 DEF IdsOf
        <4> QED BY <1>3, <2>u, <3>2, <4>1, <4>2 DEF Settled
      <3> QED BY <3>1, <3>2
    <2> QED BY <2>6, <2>7
  <1>10. ASSUME NEW d \in envs, EnvDeleted(d)
         PROVE  Unused' /\ \A i \in Ids : Settled(i)'
    <2>1. /\ d.id \in Ids /\ next'.env = next.env /\ envs' = envs \ {d}
          /\ Records(Entry("env.delete", d.id, 0))
      BY <1>10 DEF EnvDeleted
    <2>2. \A i, own : /\ Entry("env.delete", i, 0) = Entry("env.delete", d.id, 0) => i = d.id
                      /\ Entry("env.create", i, own) # Entry("env.delete", d.id, 0)
                      /\ Entry("app.delete", AppOf(own), 0) # Entry("env.delete", d.id, 0)
      BY DEF Entry
    <2>3. \A i \in Ids, own \in 0 .. MaxId :
            /\ Accounted(Entry("env.create", i, own))' = Accounted(Entry("env.create", i, own))
            /\ Accounted(Entry("env.delete", i, 0))' =
                 Accounted(Entry("env.delete", i, 0)) + (IF i = d.id THEN 1 ELSE 0)
            /\ Deletions(own)' = Deletions(own)
      BY <1>1, <2>1, <2>2, EntryNumbers DEF Records, Deletions
    <2>u. \A i \in Ids : i # d.id /\ Unrecorded(i) => Unrecorded(i)'
      BY <1>1, <2>3, EntryNumbers, CatalogAssumption DEF Unrecorded
    <2>4. Unused'
      <3>1. d.id < next.env
        BY <1>n DEF Behind
      <3>2. \A i \in Ids : i >= next.env => i # d.id
        BY <1>n, <2>1, <3>1
      <3> QED BY <1>1, <2>1, <2>u, <3>2 DEF Unused
    <2>5. ASSUME NEW i \in Ids, NEW own \in 0 .. MaxId, Explained(i, own) PROVE Explained(i, own)'
      <3>1. Explained(i, own)
        BY <2>5
      <3>2. CASE i # d.id
        <4>1. Accounted(Entry("env.delete", i, 0)) \in Nat
          BY <1>1, EntryNumbers
        <4>2. Accounted(Entry("env.delete", i, 0))' = Accounted(Entry("env.delete", i, 0))
          BY <2>3, <3>2, <4>1
        <4> QED BY <2>1, <2>3, <3>1, <3>2, <4>2, StaysExplained
      <3>3. CASE i = d.id
        <4>1. i \in IdsOf(envs) /\ i \notin IdsOf(envs')
          BY <1>n, <2>1, <3>3 DEF IdsOf, Unique
        <4>2. Accounted(Entry("env.delete", i, 0))' = 1
          BY <2>3, <3>1, <3>3, <4>1 DEF Explained
        <4> QED BY <2>3, <3>1, <4>1, <4>2 DEF Explained
      <3> QED BY <3>2, <3>3
    <2>6. d.id \in IdsOf(envs) /\ \A i : i \in IdsOf(envs') => i \in IdsOf(envs)
      BY <2>1 DEF IdsOf
    <2> QED BY <1>3, <2>u, <2>4, <2>5, <2>6 DEF Settled
  <1> QED BY <1>1, <1>6, <1>7, <1>8, <1>9, <1>10, StepKinds

\* The trail, what it is known to lack and what a dashboard dropped make one
\* creation of every environment there is and no deletion; of any other id
\* nothing, or a creation and a deletion, its own or its application's.
THEOREM EnvsAccountedCorrect == ApiSpec => []EnvsAccounted
  <1>1. ApiInit => EnvAccountInv
    <2> SUFFICES ASSUME ApiInit PROVE Unused /\ EnvsAccounted
      BY ApiInits DEF EnvAccountInv
    <2>1. IdsOf(envs) = {}
      BY DEF ApiInit, Init, IdsOf
    <2>2. \A i \in Ids : Unrecorded(i)
      BY ApiInits, EntryIn DEF Unrecorded
    <2> QED BY <2>1, <2>2 DEF Unused, EnvsAccounted
  <1>2. EnvAccountInv /\ [ApiNext]_<<state, audits>> => EnvAccountInv'
    BY EnvAccountNext
  <1> QED BY <1>1, <1>2, PTL DEF ApiSpec, EnvAccountInv

-----------------------------------------------------------------------------
(* A command of the CLI next to all of that.                               *)

\* Ids are unique, and behind the counters.
RowsBehind ==
  /\ \A e \in envs : e.id < next.env
  /\ \A a \in apps : a.id < next.app
  /\ \A e, f \in envs : e.id = f.id => e = f
  /\ \A a, b \in apps : a.id = b.id => a = b

\* The application the command has resolved by name: if its row still exists,
\* it is the one of that name.
AppNamed ==
  dialect = "sqlite" /\ cmd.appId = 0 /\ cmd.appName # NoName /\ pc \in {"env", "set", "ok"} =>
    /\ app # 0 /\ app < next.app
    /\ \A a \in apps : a.id = app => a.name = cmd.appName

\* The environment it has resolved by name: likewise, and in its scope.
EnvNamed ==
  cmd.envId = 0 /\ pc \in {"set", "ok"} =>
    /\ target < next.env
    /\ \A e \in envs : e.id = target => e.name = cmd.envName /\ InScope(e)

\* A line is sent to the environment that was resolved, never to id 0.
CmdOK ==
  /\ CliTypeOK
  /\ target \in 0 .. MaxId
  /\ late => pc = "failed" /\ target # 0 /\ acked < Len(cmd.keys)

TargetInv == TypeOK /\ CmdOK /\ RowsBehind /\ AppNamed /\ EnvNamed

\* The catalog may lose rows and gain rows with new ids, and only those; but
\* Postgres sets the counter of the applications back.
Ages ==
  /\ dialect' = dialect
  /\ next.env <= next'.env
  /\ dialect = "sqlite" => next.app <= next'.app
  /\ \A e \in envs' : e \in envs \/ next.env <= e.id
  /\ \A a \in apps' : a \in apps \/ (dialect = "sqlite" => next.app <= a.id)

LEMMA CatalogAges ==
  ASSUME TypeOK, RowsBehind, Next PROVE RowsBehind' /\ Ages
  <1> USE CatalogAssumption
  <1>0. next.app \in Nat /\ next.env \in Nat /\ next.var \in Nat
    BY DEF TypeOK
  <1>1. ASSUME NEW n \in Names, CreateApp(n) PROVE RowsBehind' /\ Ages
    BY <1>0, <1>1 DEF CreateApp, NewApp, RowsBehind, Ages, TypeOK, Apps, Envs, Ids
  <1>2. ASSUME NEW c, NEW as, NEW es, NEW vs, Remove(c, as, es, vs),
               UNCHANGED <<dialect, next, enforcing>>
        PROVE  RowsBehind' /\ Ages
    <2>1. apps' \subseteq apps /\ envs' \subseteq envs
      BY <1>2, RemoveShrinks
    <2>2. next' = next /\ dialect' = dialect
      BY <1>2
    <2> QED BY <1>0, <2>1, <2>2 DEF RowsBehind, Ages
  <1>3. ASSUME NEW c \in Conns, NEW i \in 0 .. MaxId, NEW n \in Names,
               CreateEnv(c, i, n)
        PROVE  RowsBehind' /\ Ages
    BY <1>0, <1>3 DEF CreateEnv, RowsBehind, Ages, TypeOK, Apps, Envs, Ids
  <1>4. ASSUME NEW c \in Conns, NEW i \in Ids, NEW k \in Keys, SetVar(c, i, k)
        PROVE  RowsBehind' /\ Ages
    BY <1>0, <1>4 DEF SetVar, RowsBehind, Ages, TypeOK
  <1>5. ASSUME NEW c \in Conns, Renew(c) PROVE RowsBehind' /\ Ages
    BY <1>0, <1>5 DEF Renew, tables, RowsBehind, Ages
  <1>6. ASSUME NEW c \in Conns, Restart(c) PROVE RowsBehind' /\ Ages
    <2>1. CASE dialect = "postgres"
      <3>1. PICK i \in IdsOf(apps) : /\ \A j \in IdsOf(apps) : j <= i
                                     /\ next' = [next EXCEPT !.app = i + 1]
        BY <1>6, <2>1 DEF Restart, RepairSequence
      <3>2. i \in Nat /\ \A a \in apps : a.id \in Nat /\ a.id <= i
        BY <3>1 DEF IdsOf, TypeOK, Apps, Ids
      <3> QED BY <1>0, <1>6, <2>1, <3>1, <3>2 DEF Restart, RowsBehind, Ages, TypeOK
    <2>2. CASE dialect # "postgres"
      BY <1>0, <1>6, <2>2 DEF Restart, RowsBehind, Ages
    <2> QED BY <2>1, <2>2
  <1>7. ASSUME NEW t \in {"app", "env", "var"}, InsertFails(t) PROVE RowsBehind' /\ Ages
    <2>1. UNCHANGED <<dialect, apps, envs>>
      BY <1>7 DEF InsertFails
    <2>2. /\ next'.app \in {next.app, next.app + 1}
          /\ next'.env \in {next.env, next.env + 1}
      BY <1>7 DEF InsertFails, TypeOK
    <2>3. (\A a \in apps : a.id \in Nat) /\ (\A e \in envs : e.id \in Nat)
      BY DEF TypeOK, Apps, Envs, Ids
    <2> QED BY <1>0, <2>1, <2>2, <2>3 DEF RowsBehind, Ages
  <1> QED BY <1>1, <1>2, <1>3, <1>4, <1>5, <1>6, <1>7
          DEF Next, DeleteApp, DeleteEnv, DeleteVar

\* A command's own writes are steps of the catalog, or none.
LEMMA StoreIsNext ==
  ASSUME NEW c \in Conns, NEW k \in Keys, target \in Ids, Store(c, k)
  PROVE  Next \/ UNCHANGED state
  BY DEF Store, Next

\* The names stay those of the ids while others work on the catalog.
LEMMA AgesKeepsTarget ==
  ASSUME TargetInv, TypeOK', CmdOK', RowsBehind', Ages, UNCHANGED <<cmd, app, target>>,
         pc' = pc \/ pc' \notin {"env", "set", "ok"}
  PROVE  TargetInv'
  <1>0. next.app \in Nat /\ next.env \in Nat /\ next'.app \in Nat /\ next'.env \in Nat
    BY DEF TargetInv, TypeOK
  <1>1. app \in Nat /\ target \in Nat
    BY CatalogAssumption DEF TargetInv, CmdOK, CliTypeOK
  <1>2. AppNamed'
    <2> SUFFICES ASSUME dialect = "sqlite", cmd.appId = 0, cmd.appName # NoName,
                        pc' = pc, pc \in {"env", "set", "ok"}
                 PROVE  /\ app # 0 /\ app < next'.app
                        /\ \A a \in apps' : a.id = app => a.name = cmd.appName
      BY DEF AppNamed, Ages
    <2>1. app \in Nat /\ app # 0 /\ app < next.app
      BY <1>1 DEF TargetInv, AppNamed
    <2>2. ASSUME NEW a \in apps', a.id = app PROVE a \in apps
      BY <1>0, <2>1, <2>2 DEF Ages
    <2> QED BY <1>0, <2>1, <2>2 DEF Ages, TargetInv, AppNamed
  <1>3. EnvNamed'
    <2> SUFFICES ASSUME cmd.envId = 0, pc' = pc, pc \in {"set", "ok"}
                 PROVE  /\ target < next'.env
                        /\ \A e \in envs' : e.id = target => e.name = cmd.envName
                                                             /\ InScope(e)
      BY DEF EnvNamed, InScope
    <2>1. target \in Nat /\ target < next.env
      BY <1>1 DEF TargetInv, EnvNamed
    <2>2. ASSUME NEW e \in envs', e.id = target PROVE e \in envs
      BY <1>0, <2>1, <2>2 DEF Ages
    <2> QED BY <1>0, <2>1, <2>2 DEF Ages, TargetInv, EnvNamed
  <1> QED BY <1>2, <1>3 DEF TargetInv

\* The steps of the command that leave the catalog alone.
LEMMA LookupKeepsTarget ==
  ASSUME TargetInv, UNCHANGED <<state, cmd>>,
         Start \/ FindApp \/ AppNotFound \/ FindEnv \/ EnvNotFound \/ ListFails \/ Finish
  PROVE  TargetInv'
  <1> USE CliAssumption, CatalogAssumption DEF CliTypeOK, progress
  <1>1. TypeOK' /\ RowsBehind'
    BY DEF TargetInv, TypeOK, RowsBehind, state
  <1>2. CASE Start
    BY <1>1, <1>2 DEF Start, TargetInv, CmdOK, AppNamed, EnvNamed
  <1>3. CASE FindApp
    <2>1. PICK i \in Nat :
            /\ Resolved(i)
            /\ cmd.appId = 0 /\ cmd.appName # NoName =>
                 \E a \in apps : a.id = i /\ a.name = cmd.appName
      BY <1>3 DEF FindApp, TargetInv, CmdOK, TypeOK, Apps, Ids
    <2>2. CmdOK'
      BY <1>3, <2>1 DEF FindApp, Resolved, TargetInv, CmdOK
    <2>3. AppNamed'
      BY <2>1 DEF Resolved, AppNamed, TargetInv, RowsBehind, state, TypeOK, Apps, Ids
    <2>4. EnvNamed'
      BY <2>1 DEF Resolved, EnvNamed
    <2> QED BY <1>1, <2>2, <2>3, <2>4 DEF TargetInv
  <1>4. CASE FindEnv
    <2>1. PICK i \in Ids :
            /\ Chosen(i)
            /\ cmd.envId = 0 =>
                 \E e \in envs : e.id = i /\ e.name = cmd.envName /\ InScope(e)
      BY <1>4 DEF FindEnv, Matches, TargetInv, CmdOK, TypeOK, Envs, Ids
    <2>2. CmdOK' /\ app' = app /\ pc = "env"
      BY <1>4, <2>1 DEF FindEnv, Chosen, TargetInv, CmdOK, Ids
    <2>3. AppNamed'
      BY <2>1, <2>2 DEF Chosen, AppNamed, TargetInv, state
    <2>4. EnvNamed'
      BY <2>1, <2>2 DEF Chosen, EnvNamed, InScope, TargetInv, RowsBehind, state, TypeOK, Ids
    <2> QED BY <1>1, <2>2, <2>3, <2>4 DEF TargetInv
  <1>5. CASE AppNotFound \/ EnvNotFound \/ ListFails
    BY <1>1, <1>5 DEF AppNotFound, EnvNotFound, ListFails, Fails, TargetInv, CmdOK, AppNamed,
          EnvNamed
  <1>6. CASE Finish
    BY <1>1, <1>6 DEF Finish, TargetInv, CmdOK, AppNamed, EnvNamed, InScope, state
  <1> QED BY <1>2, <1>3, <1>4, <1>5, <1>6

\* Its requests: a line is stored, or not, and counted, or not.
LEMMA RequestKeepsTarget ==
  ASSUME TargetInv, NEW c \in Conns, SetLine(c) \/ LineFails(c) \/ Late(c)
  PROVE  TargetInv'
  <1> USE CliAssumption, CatalogAssumption
  <1>1. /\ target \in Ids /\ Line \in Keys
        /\ acked < Len(cmd.keys)
    BY DEF SetLine, LineFails, Late, TargetInv, CmdOK, CliTypeOK, Line, Ids
  <1>2. /\ Store(c, Line) \/ UNCHANGED <<state, applied>>
        /\ UNCHANGED <<cmd, app, target>>
        /\ pc' = pc \/ pc' = "failed"
    BY DEF SetLine, LineFails, Late, Abort
  <1>3. TypeOK' /\ RowsBehind' /\ Ages
    <2>1. Next \/ UNCHANGED state
      BY <1>1, <1>2, StoreIsNext
    <2>2. CASE UNCHANGED state
      BY <2>2 DEF state, TargetInv, TypeOK, RowsBehind, Ages
    <2> QED BY <2>1, <2>2, CatalogAges, TypeNext DEF TargetInv
  <1>4. applied' \in Seq(Keys)
    <2>1. applied \in Seq(Keys)
      BY DEF TargetInv, CmdOK, CliTypeOK
    <2>2. applied' = applied \/ applied' = Append(applied, Line)
      BY <1>2 DEF Store
    <2> QED BY <1>1, <2>1, <2>2, AppendProperties
  <1>5. CmdOK'
    <2>1. /\ acked' \in 0 .. Len(cmd.keys)
          /\ late' \in BOOLEAN
          /\ late' => pc' = "failed" /\ acked' < Len(cmd.keys)
      <3>1. CASE SetLine(c)
        BY <1>1, <3>1 DEF SetLine, TargetInv, CmdOK, CliTypeOK
      <3>2. CASE LineFails(c) \/ Late(c)
        BY <1>1, <3>2 DEF LineFails, Late, Abort, TargetInv, CmdOK, CliTypeOK
      <3> QED BY <3>1, <3>2
    <2> QED BY <1>1, <1>2, <1>4, <2>1 DEF TargetInv, CmdOK, CliTypeOK, Ids
  <1> QED BY <1>2, <1>3, <1>5, AgesKeepsTarget

LEMMA TargetInvariance == CliSpec => []TargetInv
  <1> USE CliAssumption, CatalogAssumption
  <1>1. CliInit => TargetInv
    <2> SUFFICES ASSUME CliInit PROVE TargetInv
      OBVIOUS
    <2>1. TypeOK
      BY TypeInit DEF CliInit
    <2>2. RowsBehind
      BY DEF CliInit, Init, RowsBehind
    <2>3. Len(cmd.keys) \in Nat /\ applied \in Seq(Keys)
      BY DEF CliInit
    <2>4. ~late /\ late \in BOOLEAN
      BY Zenon DEF CliInit
    <2>5. CmdOK
      BY <2>3, <2>4 DEF CliInit, CmdOK, CliTypeOK
    <2> QED BY <2>1, <2>2, <2>5 DEF CliInit, TargetInv, AppNamed, EnvNamed
  <1>2. TargetInv /\ [CliNext]_<<state, cli>> => TargetInv'
    <2> SUFFICES ASSUME TargetInv, [CliNext]_<<state, cli>> PROVE TargetInv'
      OBVIOUS
    <2>1. CASE Command
      <3>1. CASE \E c \in Conns : SetLine(c) \/ LineFails(c) \/ Late(c)
        BY <3>1, RequestKeepsTarget
      <3>2. CASE Start \/ FindApp \/ AppNotFound \/ FindEnv \/ EnvNotFound \/ ListFails \/ Finish
        <4>1. UNCHANGED <<state, cmd>>
          BY <3>2 DEF Start, FindApp, AppNotFound, FindEnv, EnvNotFound, ListFails, Finish
        <4> QED BY <3>2, <4>1, LookupKeepsTarget
      <3> QED BY <2>1, <3>1, <3>2 DEF Command
    <2>2. CASE (Next \/ UNCHANGED state) /\ UNCHANGED cli
      <3>1. TypeOK' /\ RowsBehind' /\ Ages
        <4>1. CASE UNCHANGED state
          BY <4>1 DEF state, TargetInv, TypeOK, RowsBehind, Ages
        <4> QED BY <2>2, <4>1, CatalogAges, TypeNext DEF TargetInv
      <3>2. CmdOK' /\ UNCHANGED <<cmd, app, target, pc>>
        BY <2>2 DEF cli, TargetInv, CmdOK, CliTypeOK
      <3> QED BY <3>1, <3>2, AgesKeepsTarget
    <2> QED BY <2>1, <2>2 DEF CliNext
  <1> QED BY <1>1, <1>2, PTL DEF CliSpec

\* Every line goes to an environment that was resolved, and no command ends
\* in a state its code does not have.
THEOREM CliTypeCorrect == CliSpec => []CliTypeOK
  BY TargetInvariance, PTL DEF TargetInv, CmdOK

\* Whatever others delete and create between the requests of a command, and
\* whichever of them fail, it writes to an environment of the name it was
\* given, in the application of the name it was given on SQLite.
THEOREM RightTargetCorrect == CliSpec => []RightTarget
  <1>1. TargetInv => RightTarget
    BY DEF TargetInv, AppNamed, EnvNamed, InScope, RightTarget
  <1> QED BY <1>1, TargetInvariance, PTL

\* What has been stored is what has been counted, except for the one line
\* whose answer was not seen.
ExitInv ==
  /\ CmdOK
  /\ pc # "failed" \/ late => applied = SubSeq(cmd.keys, 1, acked)
  /\ \E n \in {acked, acked + 1} : applied = SubSeq(cmd.keys, 1, n)
  /\ pc = "ok" => acked = Len(cmd.keys)

LEMMA OneMoreLine ==
  ASSUME NEW s \in Seq(Keys), NEW n \in Nat, n < Len(s)
  PROVE  Append(SubSeq(s, 1, n), s[n + 1]) = SubSeq(s, 1, n + 1)
  <1>1. s[n + 1] \in Keys
    OBVIOUS
  <1>2. SubSeq(s, 1, n) \in Seq(Keys)
    BY SubSeqProperties
  <1>3. 1 \in 1 .. Len(s) /\ n + 1 \in 1 .. Len(s) /\ (n + 1) - 1 = n
    OBVIOUS
  <1>4. SubSeq(s, 1, n + 1) = SubSeq(s, 1, (n + 1) - 1) \o <<s[n + 1]>>
    BY <1>3, SubSeqRecursiveSecond
  <1> QED BY <1>1, <1>2, <1>3, <1>4, AppendIsConcat

LEMMA ExitNext ==
  ASSUME TargetInv, TargetInv', ExitInv, [CliNext]_<<state, cli>>
  PROVE  ExitInv'
  <1> USE CliAssumption DEF ExitInv
  <1>0. /\ CmdOK /\ CmdOK'
        /\ acked \in Nat /\ Len(cmd.keys) \in Nat /\ cmd.keys \in Seq(Keys)
    BY DEF TargetInv, CmdOK, CliTypeOK
  <1>1. ASSUME NEW c \in Conns, SetLine(c) PROVE ExitInv'
    <2>1. /\ pc = "set" /\ pc' = pc /\ late' = late /\ cmd' = cmd
          /\ acked < Len(cmd.keys) /\ acked' = acked + 1
          /\ applied' = Append(applied, cmd.keys[acked + 1])
      BY <1>1 DEF SetLine, Store, Line
    <2>2. applied' = SubSeq(cmd.keys, 1, acked + 1)
      BY <1>0, <2>1, OneMoreLine
    <2> QED BY <1>0, <2>1, <2>2
  <1>2. ASSUME NEW c \in Conns, LineFails(c) PROVE ExitInv'
    <2>1. /\ pc = "set" /\ pc' = "failed" /\ cmd' = cmd
          /\ acked < Len(cmd.keys) /\ acked' = acked
          /\ \/ applied' = applied
             \/ applied' = Append(applied, cmd.keys[acked + 1]) /\ late' = late
      BY <1>2 DEF LineFails, Abort, Store, Line
    <2>2. late = FALSE
      BY <1>0, <2>1 DEF CmdOK, CliTypeOK
    <2>3. \/ applied' = SubSeq(cmd.keys, 1, acked)
          \/ applied' = SubSeq(cmd.keys, 1, acked + 1) /\ late' = late
      BY <1>0, <2>1, OneMoreLine
    <2> QED BY <1>0, <2>1, <2>2, <2>3
  <1>3. ASSUME NEW c \in Conns, Late(c) PROVE ExitInv'
    <2>1. /\ late /\ late' = FALSE /\ pc' = pc /\ cmd' = cmd /\ acked' = acked
          /\ applied' = applied \/ applied' = Append(applied, cmd.keys[acked + 1])
      BY <1>3 DEF Late, Store, Line
    <2>2. pc = "failed" /\ acked < Len(cmd.keys)
      BY <1>0, <2>1 DEF CmdOK
    <2>3. \/ applied' = SubSeq(cmd.keys, 1, acked)
          \/ applied' = SubSeq(cmd.keys, 1, acked + 1)
      BY <1>0, <2>1, <2>2, OneMoreLine
    <2> QED BY <1>0, <2>1, <2>2, <2>3
  <1>4. CASE Start \/ FindApp \/ FindEnv
    BY <1>0, <1>4 DEF Start, FindApp, FindEnv, Resolved, Chosen, progress
  <1>5. CASE AppNotFound \/ EnvNotFound \/ ListFails
    BY <1>0, <1>5 DEF AppNotFound, EnvNotFound, Fails, ListFails, progress
  <1>6. CASE Finish
    BY <1>0, <1>6 DEF Finish, progress
  <1>7. CASE UNCHANGED cli
    BY <1>0, <1>7 DEF cli
  <1> QED BY <1>1, <1>2, <1>3, <1>4, <1>5, <1>6, <1>7 DEF CliNext, Command

\* The exit status of a command is true, whichever of its requests fail, get
\* lost or are served late: success means that every line was stored, failure
\* that none after the first error was.
THEOREM ExitIsTrueCorrect == CliSpec => []ExitIsTrue
  <1>1. CliInit /\ TargetInv => ExitInv
    <2> SUFFICES ASSUME CliInit, TargetInv PROVE ExitInv
      OBVIOUS
    <2>1. SubSeq(cmd.keys, 1, 0) = <<>>
      BY SubSeqEmpty
    <2> QED BY <2>1 DEF CliInit, TargetInv, ExitInv
  <1>2. ExitInv => ExitIsTrue
    <2> SUFFICES ASSUME ExitInv PROVE ExitIsTrue
      OBVIOUS
    <2>1. cmd.keys \in Seq(Keys)
      BY CliAssumption DEF ExitInv, CmdOK, CliTypeOK
    <2>2. SubSeq(cmd.keys, 1, Len(cmd.keys)) = cmd.keys
      BY <2>1, SubSeqFull
    <2> QED BY <2>2 DEF ExitInv, ExitIsTrue
  <1> QED BY <1>1, <1>2, ExitNext, TargetInvariance, PTL DEF CliSpec
=============================================================================
