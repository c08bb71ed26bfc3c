------------------------------ MODULE VarStore ------------------------------
(***************************************************************************)
(* Storage.SetVar and Storage.DeleteVar under concurrent callers, on both  *)
(* database backends (web/internal/storage/sqlite.go).                     *)
(*                                                                         *)
(* A SetVar call takes writeMu (SQLite only), then makes up to MaxAttempts *)
(* attempts.  An attempt is one transaction: a SELECT that fixes its       *)
(* snapshot, an INSERT or UPDATE that takes the write lock, the history    *)
(* INSERT with the commit.  The databases detect conflicts differently:    *)
(*  - SQLite (WAL, deferred BEGIN) refuses to turn a read transaction into *)
(*    a writer, at once and whatever busy_timeout says, when another       *)
(*    connection has committed since the snapshot or holds the write lock; *)
(*  - Postgres (serializable) makes a writer wait for the uncommitted      *)
(*    writer of the same row, fails it with 40001 or 23505 if the row has  *)
(*    changed since its snapshot, and may fail any commit with 40001.      *)
(***************************************************************************)
EXTENDS Naturals, FiniteSets

CONSTANTS Dialect,      \* "sqlite" or "postgres"
          Procs,        \* request goroutines (of all replicas, on Postgres)
          Keys,         \* (environment, key) pairs
          Values,
          Ids,          \* ids the AUTOINCREMENT / BIGSERIAL counter may reach
          MaxAttempts,  \* 20 in the code
          MaxRequests,  \* bound on the SetVar calls of a behaviour
          NoProc, NoValue

ASSUME VarStoreAssumption ==
  /\ Dialect \in {"sqlite", "postgres"}
  /\ NoProc \notin Procs
  /\ NoValue \notin Values
  /\ Ids \subseteq Nat \ {0}
  /\ MaxAttempts \in Nat \ {0}
  /\ MaxRequests \in Nat

VARIABLES variables,  \* committed rows of table variables, by key
          versions,   \* committed rows of table variable_versions
          nextId,     \* next id of table variables
          writeMu,    \* Storage.writeMu: its holder, or NoProc
          pc, arg, attempt, seen, row, err, \* locals of each SetVar call
          stale,      \* SQLite: somebody committed since the call's snapshot
          replies,    \* what successful SetVar calls returned
          requests    \* number of SetVar calls so far

db    == <<variables, versions, nextId>>
vars  == <<variables, versions, nextId, writeMu, pc, arg, attempt, seen, row,
           err, stale, replies, requests>>

Sqlite == Dialect = "sqlite"

NoRow == [id |-> 0, version |-> 0, value |-> NoValue]
Rows  == [id : Nat \ {0}, version : Nat \ {0}, value : Values]

NoArg == [key |-> NoValue, value |-> NoValue]
Args  == [key : Keys, value : Values]

\* A history entry is a row as one call wrote it; "by" is not a column.
Entry(r, p) == [id |-> r.id, version |-> r.version, value |-> r.value, by |-> p]
Entries == [id : Nat \ {0}, version : Nat \ {0}, value : Values, by : Procs]

Live(i) == \E k \in Keys : variables[k].id = i

Open(p)  == pc[p] \in {"write", "commit"}  \* a transaction with a snapshot
Dirty(p) == pc[p] = "commit"               \* it has written: it holds the lock

Init ==
  /\ variables = [k \in Keys |-> NoRow]
  /\ versions = {}
  /\ nextId = 1
  /\ writeMu = NoProc
  /\ pc = [p \in Procs |-> "idle"]
  /\ arg = [p \in Procs |-> NoArg]
  /\ attempt = [p \in Procs |-> 0]
  /\ seen = [p \in Procs |-> NoRow]
  /\ row = [p \in Procs |-> NoRow]
  /\ err = [p \in Procs |-> "none"]
  /\ stale = [p \in Procs |-> FALSE]
  /\ replies = {}
  /\ requests = 0

-----------------------------------------------------------------------------
(* The steps of a SetVar call. *)

SetVar(p, k, v) ==
  /\ pc[p] = "idle"
  /\ requests < MaxRequests
  /\ requests' = requests + 1
  /\ arg' = [arg EXCEPT ![p] = [key |-> k, value |-> v]]
  /\ pc' = [pc EXCEPT ![p] = "lock"]
  /\ UNCHANGED <<db, writeMu, attempt, seen, row, err, stale, replies>>

NoMutex(p)  == TRUE  \* mutant: SQLite writers do not queue
CanLock(p)  == Sqlite => writeMu = NoProc

Lock(p) ==
  /\ pc[p] = "lock"
  /\ CanLock(p)
  /\ writeMu' = IF Sqlite THEN p ELSE writeMu
  /\ pc' = [pc EXCEPT ![p] = "begin"]
  /\ UNCHANGED <<db, arg, attempt, seen, row, err, stale, replies, requests>>

\* BeginTx is deferred: the SELECT takes the snapshot.
Read(p) ==
  /\ pc[p] = "begin"
  /\ seen' = [seen EXCEPT ![p] = variables[arg[p].key]]
  /\ row' = [row EXCEPT ![p] = NoRow]
  /\ stale' = [stale EXCEPT ![p] = FALSE]
  /\ pc' = [pc EXCEPT ![p] = "write"]
  /\ UNCHANGED <<db, writeMu, arg, attempt, err, replies, requests>>

\* Mutant: the transaction asks for read committed instead of serializable.
ConflictIgnored(p) == FALSE

Conflict(p) ==
  IF Sqlite THEN stale[p] \/ \E q \in Procs \ {p} : Dirty(q)
            ELSE variables[arg[p].key] # seen[p]

\* Postgres: an uncommitted write of the same row makes this one wait.
Blocked(p) == /\ ~Sqlite
              /\ \E q \in Procs \ {p} : Dirty(q) /\ arg[q].key = arg[p].key

Inserts(p) == seen[p] = NoRow

\* A Postgres INSERT takes an id that a rollback does not give back.
TakeId(p) == IF Inserts(p) /\ ~Sqlite
             THEN nextId \in Ids /\ nextId' = nextId + 1
             ELSE nextId' = nextId

\* Mutant: an update keeps the version it has read.
SameVersion(p) == [id      |-> IF Inserts(p) THEN nextId ELSE seen[p].id,
                   version |-> IF Inserts(p) THEN 1 ELSE seen[p].version,
                   value   |-> arg[p].value]

NewRow(p) == [id      |-> IF Inserts(p) THEN nextId ELSE seen[p].id,
              version |-> seen[p].version + 1,
              value   |-> arg[p].value]

Write(p) ==
  /\ pc[p] = "write"
  /\ ~Conflict(p) /\ ~Blocked(p)
  /\ Inserts(p) => nextId \in Ids
  /\ TakeId(p)
  /\ row' = [row EXCEPT ![p] = NewRow(p)]
  /\ pc' = [pc EXCEPT ![p] = "commit"]
  /\ UNCHANGED <<variables, versions, writeMu, arg, attempt, seen, err, stale,
                 replies, requests>>

AnyError(e)  == e # "none"  \* mutant: everything is worth another attempt
Retriable(e) == e \in {"busy", "duplicate"}

\* The attempt ends with error e (or "none").
Ends(p, e) ==
  /\ err' = [err EXCEPT ![p] = e]
  /\ pc' = [pc EXCEPT ![p] = IF Retriable(e) THEN "backoff" ELSE "return"]

\* 23505 becomes ErrDuplicateKey; "busy" is SQLITE_BUSY or 40001.
WriteConflicts(p) ==
  /\ pc[p] = "write"
  /\ Conflict(p)
  /\ TakeId(p)
  /\ Ends(p, "busy") \/ (Inserts(p) /\ ~Sqlite /\ Ends(p, "duplicate"))
  /\ UNCHANGED <<variables, versions, writeMu, arg, attempt, seen, row, stale,
                 replies, requests>>

\* SQLite: every other open transaction can no longer become a writer.
Outdate(p) == stale' = [q \in Procs |-> stale[q] \/ (Sqlite /\ q # p /\ Open(q))]

NoHistory(p)   == versions  \* mutant: the history INSERT is left out
AddHistory(p)  == versions \cup {Entry(row[p], p)}

\* The history INSERT and COMMIT.  Postgres can lose the connection between
\* the commit and its acknowledgement: the call fails, the write stays.
Commit(p) ==
  /\ pc[p] = "commit"
  /\ variables' = [variables EXCEPT ![arg[p].key] = row[p]]
  /\ versions' = AddHistory(p)
  /\ nextId' = IF Inserts(p) /\ Sqlite THEN row[p].id + 1 ELSE nextId
  /\ Outdate(p)
  /\ Ends(p, "none") \/ (~Sqlite /\ Ends(p, "failed"))
  /\ UNCHANGED <<writeMu, arg, attempt, seen, row, replies, requests>>

\* Postgres' serializability check may abort any transaction with 40001.
CommitConflicts(p) ==
  /\ ~Sqlite
  /\ pc[p] = "commit"
  /\ Ends(p, "busy")
  /\ UNCHANGED <<db, writeMu, arg, attempt, seen, row, stale, replies, requests>>

\* Mutants: one attempt too many, one too few.
OneMore(p) == attempt[p] < MaxAttempts
OneLess(p) == attempt[p] + 2 < MaxAttempts
Again(p)   == attempt[p] + 1 < MaxAttempts

\* Mutant: the attempts are not counted.
BackoffUncounted(p) ==
  /\ pc[p] = "backoff"
  /\ pc' = [pc EXCEPT ![p] = "begin"]
  /\ UNCHANGED <<db, writeMu, arg, attempt, seen, row, err, stale, replies, requests>>

\* After a retriable error: sleep, then another attempt, if one is left.
Backoff(p) ==
  /\ pc[p] = "backoff"
  /\ attempt' = [attempt EXCEPT ![p] = @ + 1]
  /\ pc' = [pc EXCEPT ![p] = IF Again(p) THEN "begin" ELSE "return"]
  /\ UNCHANGED <<db, writeMu, arg, seen, row, err, stale, replies, requests>>

\* Mutant: the error of COMMIT is dropped.
GiveUpSilently(p) ==
  /\ pc[p] \in {"begin", "write", "commit", "backoff"}
  /\ err' = [err EXCEPT ![p] = IF pc[p] = "commit" THEN "none" ELSE "failed"]
  /\ pc' = [pc EXCEPT ![p] = "return"]
  /\ UNCHANGED <<db, writeMu, arg, attempt, seen, row, stale, replies, requests>>

\* A cancelled request context or an error that is not retriable: the open
\* transaction is rolled back and the call returns the error.
GiveUp(p) ==
  /\ pc[p] \in {"begin", "write", "commit", "backoff"}
  /\ err' = [err EXCEPT ![p] = "failed"]
  /\ pc' = [pc EXCEPT ![p] = "return"]
  /\ UNCHANGED <<db, writeMu, arg, attempt, seen, row, stale, replies, requests>>

Held(S)     == writeMu  \* mutant: no deferred Unlock
Unlocked(S) == IF writeMu \in S THEN NoProc ELSE writeMu

\* The calls of S are over.
Forget(S) ==
  /\ pc' = [p \in Procs |-> IF p \in S THEN "idle" ELSE pc[p]]
  /\ arg' = [p \in Procs |-> IF p \in S THEN NoArg ELSE arg[p]]
  /\ attempt' = [p \in Procs |-> IF p \in S THEN 0 ELSE attempt[p]]
  /\ seen' = [p \in Procs |-> IF p \in S THEN NoRow ELSE seen[p]]
  /\ row' = [p \in Procs |-> IF p \in S THEN NoRow ELSE row[p]]
  /\ err' = [p \in Procs |-> IF p \in S THEN "none" ELSE err[p]]
  /\ stale' = [p \in Procs |-> IF p \in S THEN FALSE ELSE stale[p]]
  /\ writeMu' = Unlocked(S)

Return(p) ==
  /\ pc[p] = "return"
  /\ replies' = replies \cup (IF err[p] = "none" THEN {Entry(row[p], p)} ELSE {})
  /\ Forget({p})
  /\ UNCHANGED <<db, requests>>

-----------------------------------------------------------------------------
(* The rest of the system. *)

\* One autocommit DELETE.  foreign_keys is ON only on the SQLite connection
\* that ran the pragma: on the others the history of the variable stays.
DeleteVar(k, cascades) ==
  /\ Sqlite => \A q \in Procs : ~Dirty(q)
  /\ ~Sqlite => cascades
  /\ variables[k] # NoRow
  /\ \A q \in Procs : ~(Dirty(q) /\ arg[q].key = k)
  /\ variables' = [variables EXCEPT ![k] = NoRow]
  /\ versions' = IF cascades THEN {h \in versions : h.id # variables[k].id}
                             ELSE versions
  /\ stale' = [q \in Procs |-> stale[q] \/ (Sqlite /\ Open(q))]
  /\ UNCHANGED <<nextId, writeMu, pc, arg, attempt, seen, row, err, replies, requests>>

\* SQLite: any autocommit write outside writeMu (audit entry, app, env...).
OtherWrite ==
  /\ Sqlite
  /\ \A q \in Procs : ~Dirty(q)
  /\ \E q \in Procs : Open(q) /\ ~stale[q]
  /\ stale' = [q \in Procs |-> stale[q] \/ Open(q)]
  /\ UNCHANGED <<db, writeMu, pc, arg, attempt, seen, row, err, replies, requests>>

\* The server process dies: all callers of the SQLite server, one replica's
\* callers on Postgres.  The database rolls their transactions back.
Crash(S) ==
  /\ S # {} /\ (Sqlite => S = Procs)
  /\ \E p \in S : pc[p] # "idle"
  /\ Forget(S)
  /\ UNCHANGED <<db, replies, requests>>

Step(p) == \/ Lock(p) \/ Read(p) \/ Write(p) \/ WriteConflicts(p)
           \/ Commit(p) \/ CommitConflicts(p) \/ Backoff(p) \/ Return(p)

Next ==
  \/ \E p \in Procs, k \in Keys, v \in Values : SetVar(p, k, v)
  \/ \E p \in Procs : Step(p) \/ GiveUp(p)
  \/ \E k \in Keys, c \in BOOLEAN : DeleteVar(k, c)
  \/ OtherWrite
  \/ \E S \in SUBSET Procs : Crash(S)

\* Goroutines are scheduled fairly and a Go mutex does not starve a waiter.
Fairness == \A p \in Procs : WF_vars(Step(p)) /\ SF_vars(Lock(p))

Spec == Init /\ [][Next]_vars /\ Fairness

-----------------------------------------------------------------------------
(* Properties *)

TypeOK ==
  /\ variables \in [Keys -> Rows \cup {NoRow}]
  /\ versions \subseteq Entries
  /\ nextId \in Nat \ {0}
  /\ writeMu \in Procs \cup {NoProc}
  /\ pc \in [Procs -> {"idle", "lock", "begin", "write", "commit", "backoff", "return"}]
  /\ arg \in [Procs -> Args \cup {NoArg}]
  /\ attempt \in [Procs -> 0 .. MaxAttempts]
  /\ seen \in [Procs -> Rows \cup {NoRow}]
  /\ row \in [Procs -> Rows \cup {NoRow}]
  /\ err \in [Procs -> {"none", "busy", "duplicate", "failed"}]
  /\ stale \in [Procs -> BOOLEAN]
  /\ replies \subseteq Entries
  /\ requests \in 0 .. MaxRequests

\* SQLite: a call works on the database only while it holds writeMu, and no
\* return path (error, cancellation, last attempt) leaves it locked.
Queued ==
  Sqlite => /\ \A p \in Procs : (pc[p] \notin {"idle", "lock"}) <=> (writeMu = p)

\* A transaction that has written still sees the latest committed row of its
\* key, and it is the only one: the write is based on current data although
\* the SELECT, the write and the commit are separate statements.
WritesCurrent ==
  \A p \in Procs : Dirty(p) =>
    /\ variables[arg[p].key] = seen[p]
    /\ \A q \in Procs \ {p} : ~(Dirty(q) /\ arg[q].key = arg[p].key)

\* The history of every live variable is exactly versions 1 .. version, each
\* once, and the last one is the value the row holds.
HistoryComplete ==
  \A k \in Keys : LET r == variables[k]
                      H == {h \in versions : h.id = r.id}
                  IN  r # NoRow =>
    /\ {h.version : h \in H} = 1 .. r.version
    /\ \A h \in H : h.version = r.version => h.value = r.value

\* No two calls ever wrote the same version of a variable (no lost update),
\* not even across a delete: an id is never used again.
NoLostUpdate ==
  \A g, h \in versions \cup replies :
    g.id = h.id /\ g.version = h.version => g = h

\* What a call has acknowledged stays in the history as long as the variable
\* lives: across failures of other calls and crashes of the server.
AckedDurable == \A a \in replies : Live(a.id) => a \in versions

\* An attempt that is followed by another one left nothing behind.
RetriesUncommitted ==
  \A p \in Procs : pc[p] = "backoff" => Entry(row[p], p) \notin versions

\* A reported failure: busy and duplicate only once the attempts are used up,
\* and a duplicate key (HTTP 409) never on SQLite, where the lost insert race
\* shows up as a stale snapshot.
FailsLate ==
  \A p \in Procs : pc[p] = "return" =>
    /\ err[p] \in {"busy", "duplicate"} => attempt[p] = MaxAttempts
    /\ err[p] = "duplicate" => ~Sqlite

\* Every SetVar call returns, whatever the other callers do.
Returns == \A p \in Procs : pc[p] = "lock" ~> pc[p] = "idle"

\* The store implements the atomic store of VersionedStore.
Abstract == INSTANCE VersionedStore WITH
  table   <- variables,
  history <- {[id |-> h.id, version |-> h.version, value |-> h.value] :
                h \in {g \in versions : Live(g.id)}}

Refines == Abstract!Spec

-----------------------------------------------------------------------------
(* What the documentation says and TLC refutes: see README.md.  No run      *)
(* checks it.                                                              *)

\* What the comment on writeMu says: writers queue instead of being retried.
QueuesInsteadOfRetries == Sqlite => \A p \in Procs : attempt[p] = 0
=============================================================================
