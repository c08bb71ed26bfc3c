----------------------------- MODULE CatalogApi -----------------------------
(***************************************************************************)
(* The handlers that create and delete applications and environments, of   *)
(* the REST API and of the dashboard (web/internal/api/server.go): each    *)
(* executes its statement on the tables of Catalog and then, as a step of  *)
(* its own, records it in the audit trail.  Either may fail, and the       *)
(* process may end in between.  VarApi does the same for variables.        *)
(***************************************************************************)
EXTENDS Catalog

CONSTANTS Reqs,    \* handlers at work at a time
          MaxTwice \* bound on how often one entry is recorded: Postgres gives
                   \* out the id of a deleted application again

ASSUME CatalogApiAssumption == IsFiniteSet(Reqs) /\ MaxTwice \in Nat

VARIABLES job,    \* the entry a handler is going to record, or Idle
          trail,  \* activity_logs: how often it holds each entry
          missed, \* changes it lacks: audit_write_failed was logged, the request
                  \* was answered with an error, or the process ended first
          silent  \* changes it lacks although nothing was logged and the request
                  \* was answered like any other

audits == <<job, trail, missed, silent>>

Entry(action, id, app) == [action |-> action, id |-> id, app |-> app]
Idle    == Entry("none", 0, 0)
Entries == [action : {"app.create", "app.delete", "env.create", "env.delete"},
            id : Ids, app : 0 .. MaxId] \* app: the detail's app_id=, or 0

Pending(e)   == Cardinality({r \in Reqs : job[r] = e})
Accounted(e) == trail[e] + missed[e] + silent[e] + Pending(e)

ApiInit ==
  /\ Init
  /\ job = [r \in Reqs |-> Idle]
  /\ trail = [e \in Entries |-> 0]
  /\ missed = trail /\ silent = trail

Misses(e) == missed' = [missed EXCEPT ![e] = @ + 1] /\ UNCHANGED silent

\* The dashboard's handlers redirect whether or not their statement failed; its
\* creation of an environment alone shows the error, on a page of status 200.
Redirects(e) == e.action # "env.create"
Drops(e)     == silent' = [silent EXCEPT ![e] = @ + 1] /\ UNCHANGED missed

\* A statement has taken effect and the handler is going to record it; or the
\* database's answer was lost: the API answers 500 (400 for the deletion of an
\* application), the dashboard with its redirect.
Changed(r, e) ==
  /\ job[r] = Idle
  /\ Accounted(e) < MaxTwice
  /\ \/ job' = [job EXCEPT ![r] = e] /\ UNCHANGED <<missed, silent>>
     \/ Misses(e) /\ UNCHANGED job
     \/ Redirects(e) /\ Drops(e) /\ UNCHANGED job
  /\ UNCHANGED trail

HandleCreateApp(r, n) == CreateApp(n) /\ Changed(r, Entry("app.create", next.app, 0))

HandleDeleteApp(r, c, a) == DeleteApp(c, a) /\ Changed(r, Entry("app.delete", a.id, 0))

\* The entry has the app_id of the request, which may be 0.
\* Mutant: handleCreateEnvInApp leaves it out.
AppLeftOut(app) == 0
AppInEntry(app) == app

HandleCreateEnv(r, c, app, n) ==
  /\ CreateEnv(c, app, n)
  /\ Changed(r, Entry("env.create", next.env, AppInEntry(app)))

HandleDeleteEnv(r, c, e) == DeleteEnv(c, e) /\ Changed(r, Entry("env.delete", e.id, 0))

Recorded(r) == job' = [job EXCEPT ![r] = Idle]

Audit(r) ==
  /\ job[r] # Idle
  /\ trail' = [trail EXCEPT ![job[r]] = @ + 1]
  /\ Recorded(r)
  /\ UNCHANGED <<state, missed, silent>>

\* Mutant: the failure is not logged.
Silent(r) == UNCHANGED <<missed, silent>>
Warns(r)  == Misses(job[r])

AuditFails(r) ==
  /\ job[r] # Idle
  /\ Warns(r)
  /\ Recorded(r)
  /\ UNCHANGED <<state, trail>>

\* The process ends, and what its handlers were going to record with it.
Restarted(c) ==
  /\ Restart(c)
  /\ missed' = [e \in Entries |-> missed[e] + Pending(e)]
  /\ job' = [r \in Reqs |-> Idle]
  /\ UNCHANGED <<trail, silent>>

Handle(r) ==
  \/ Audit(r) \/ AuditFails(r)
  \/ \E n \in Names : HandleCreateApp(r, n)
  \/ \E c \in Conns :
       \/ \E a \in apps : HandleDeleteApp(r, c, a)
       \/ \E app \in 0 .. MaxId, n \in Names : HandleCreateEnv(r, c, app, n)
       \/ \E e \in envs : HandleDeleteEnv(r, c, e)

\* The variables' own handlers (VarApi) write neither these tables nor these
\* entries.
ApiNext ==
  \/ \E r \in Reqs : Handle(r)
  \/ \E c \in Conns :
       \/ Restarted(c)
       \/ Renew(c) /\ UNCHANGED audits
  \/ \E table \in {"app", "env"} : InsertFails(table) /\ UNCHANGED audits

ApiSpec == ApiInit /\ [][ApiNext]_<<state, audits>>

-----------------------------------------------------------------------------
(* Properties *)

ApiTypeOK ==
  /\ job \in [Reqs -> Entries \cup {Idle}]
  /\ {trail, missed, silent} \subseteq [Entries -> 0 .. MaxTwice]

\* Every change of an application is accounted for once, in the trail, among
\* those it is known to lack, among those a dashboard dropped, or on its way: one
\* creation more than deletions of an application that exists, as many of one
\* that does not.
AppsAccounted ==
  \A i \in Ids \ {1} :
    Accounted(Entry("app.create", i, 0)) =
      Accounted(Entry("app.delete", i, 0)) + (IF i \in IdsOf(apps) THEN 1 ELSE 0)

\* No change of environment i is accounted for.
Unrecorded(i) ==
  /\ \A app \in 0 .. MaxId : Accounted(Entry("env.create", i, app)) = 0
  /\ Accounted(Entry("env.delete", i, 0)) = 0

\* An environment that exists has one creation, under its application, and no
\* deletion.  Any other id has no entry, or one creation and a deletion, its own
\* or, because the cascade is not recorded, that of the application it names.
EnvsAccounted ==
  \A i \in Ids :
    IF i \in IdsOf(envs)
    THEN \E app \in 0 .. MaxId :
           /\ Accounted(Entry("env.create", i, app)) = 1
           /\ \E e \in envs : e.id = i /\ e.app = AppOf(app)
           /\ Accounted(Entry("env.delete", i, 0)) = 0
    ELSE \/ Unrecorded(i)
         \/ \E app \in 0 .. MaxId :
              /\ Accounted(Entry("env.create", i, app)) = 1
              /\ \/ Accounted(Entry("env.delete", i, 0)) = 1
                 \/ Accounted(Entry("app.delete", AppOf(app), 0)) > 0

-----------------------------------------------------------------------------
(* What the documentation says and TLC refutes: see README.md.  No run      *)
(* checks this.                                                            *)

\* "Every mutation ... lands in the audit trail" (docs/documentation.html:164), or
\* somebody is told that it did not ("Storage failures are logged",
\* server.go:186): no application exists whose creation is in neither.
NothingSilent ==
  \A i \in IdsOf(apps) \ {1} :
    LET e == Entry("app.create", i, 0) IN trail[e] + missed[e] + Pending(e) > 0
=============================================================================
