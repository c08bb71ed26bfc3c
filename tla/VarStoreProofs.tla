--------------------------- MODULE VarStoreProofs ---------------------------
(* Proofs about VarStore, for every value of its constants. *)
EXTENDS VarStoreInv, TLAPS

TypeInv == TypeOK /\ LocalsOK

LEMMA RowFacts == NoRow \notin Rows /\ NoRow.id = 0 /\ NoRow.version = 0
  BY DEF NoRow, Rows

LEMMA InitTypeInv == Init => TypeInv
  <1> USE VarStoreAssumption
  <1> SUFFICES ASSUME Init PROVE TypeInv
    OBVIOUS
  <1>1. TypeOK
    BY DEF Init, TypeOK
  <1>2. LocalsOK
    BY DEF Init, LocalsOK, Dirty, Committed
  <1> QED BY <1>1, <1>2 DEF TypeInv

LEMMA NextTypeInv == TypeInv /\ [Next]_vars => TypeInv'
  <1> USE VarStoreAssumption
  <1> SUFFICES ASSUME TypeInv, [Next]_vars PROVE TypeInv'
    OBVIOUS
  <1> USE DEF TypeInv
  <1>1. ASSUME NEW p \in Procs, NEW k \in Keys, NEW v \in Values, SetVar(p, k, v) PROVE TypeInv'
    <2>1. TypeOK'
      BY <1>1 DEF SetVar, TypeOK, Args, db
    <2>2. LocalsOK'
      BY <1>1 DEF SetVar, LocalsOK, TypeOK, Args, Dirty, Committed, Inserts, Sqlite, db
    <2> QED BY <2>1, <2>2
  <1>2. ASSUME NEW p \in Procs, Lock(p) PROVE TypeInv'
    <2>1. TypeOK'
      BY <1>2 DEF Lock, TypeOK, db
    <2>2. LocalsOK'
      BY <1>2 DEF Lock, LocalsOK, TypeOK, Dirty, Committed, Inserts, Sqlite, db
    <2> QED BY <2>1, <2>2
  <1>3. ASSUME NEW p \in Procs, Read(p) PROVE TypeInv'
    <2>1. arg[p].key \in Keys
      BY <1>3 DEF Read, LocalsOK, Args
    <2>2. TypeOK'
      BY <1>3, <2>1 DEF Read, TypeOK, db
    <2>3. LocalsOK'
      BY <1>3 DEF Read, LocalsOK, TypeOK, Dirty, Committed, Inserts, Sqlite, db
    <2> QED BY <2>2, <2>3
  <1>4. ASSUME NEW p \in Procs, Write(p) PROVE TypeInv'
    <2>1. NewRow(p) \in Rows
      BY <1>4 DEF Write, NewRow, Inserts, LocalsOK, TypeOK, Args, Rows, NoRow
    <2>2. nextId' \in Nat \ {0}
      BY <1>4 DEF Write, TakeId, TypeOK
    <2>3. TypeOK'
      BY <1>4, <2>1, <2>2 DEF Write, TypeOK
    <2>4. LocalsOK'
      <3>1. row' = [row EXCEPT ![p] = NewRow(p)] /\ UNCHANGED <<arg, attempt, seen, err>>
        BY <1>4 DEF Write
      <3>2. NewRow(p).value = arg[p].value /\ (Inserts(p) => NewRow(p).id \in Ids)
        BY <1>4 DEF Write, NewRow
      <3>3. pc[p] = "write" /\ pc' = [pc EXCEPT ![p] = "commit"]
        BY <1>4 DEF Write
      <3> QED BY <2>1, <3>1, <3>2, <3>3
              DEF LocalsOK, TypeOK, Dirty, Committed, Inserts, Sqlite
    <2> QED BY <2>3, <2>4
  <1>5. ASSUME NEW p \in Procs, WriteConflicts(p) PROVE TypeInv'
    <2>1. nextId' \in Nat \ {0}
      BY <1>5 DEF WriteConflicts, TakeId, TypeOK
    <2>2. TypeOK'
      BY <1>5, <2>1 DEF WriteConflicts, Ends, Retriable, TypeOK
    <2>3. LocalsOK'
      BY <1>5 DEF WriteConflicts, Ends, Retriable, LocalsOK, TypeOK, Dirty, Committed, Inserts, Sqlite
    <2> QED BY <2>2, <2>3
  <1>6. ASSUME NEW p \in Procs, Commit(p) PROVE TypeInv'
    <2>1. row[p] \in Rows /\ Entry(row[p], p) \in Entries
      BY <1>6 DEF Commit, LocalsOK, Dirty, Entry, Entries, Rows
    <2>2. nextId' \in Nat \ {0}
      BY <1>6, <2>1 DEF Commit, TypeOK, Rows
    <2>3. stale' \in [Procs -> BOOLEAN]
      BY <1>6 DEF Commit, Outdate, TypeOK
    <2>4. TypeOK'
      BY <1>6, <2>1, <2>2, <2>3 DEF Commit, AddHistory, Ends, Retriable, TypeOK
    <2>5. LocalsOK'
      BY <1>6, <2>1 DEF Commit, Ends, Retriable, LocalsOK, TypeOK, Dirty, Committed, Inserts, Sqlite
    <2> QED BY <2>4, <2>5
  <1>7. ASSUME NEW p \in Procs, CommitConflicts(p) PROVE TypeInv'
    <2>1. TypeOK'
      BY <1>7 DEF CommitConflicts, Ends, Retriable, TypeOK, db
    <2>2. LocalsOK'
      BY <1>7 DEF CommitConflicts, Ends, Retriable, LocalsOK, TypeOK, Dirty, Committed, Inserts, Sqlite, db
    <2> QED BY <2>1, <2>2
  <1>8. ASSUME NEW p \in Procs, Backoff(p) PROVE TypeInv'
    <2>1. attempt[p] < MaxAttempts /\ attempt[p] \in 0 .. MaxAttempts
      BY <1>8 DEF Backoff, LocalsOK, TypeOK
    <2>2. TypeOK'
      BY <1>8, <2>1 DEF Backoff, Again, TypeOK, db
    <2>3. LocalsOK'
      BY <1>8, <2>1 DEF Backoff, Again, LocalsOK, TypeOK, Dirty, Committed, Inserts, Sqlite, db
    <2> QED BY <2>2, <2>3
  <1>9. ASSUME NEW p \in Procs, GiveUp(p) PROVE TypeInv'
    <2>1. TypeOK'
      BY <1>9 DEF GiveUp, TypeOK, db
    <2>2. LocalsOK'
      BY <1>9 DEF GiveUp, LocalsOK, TypeOK, Dirty, Committed, Inserts, Sqlite, db
    <2> QED BY <2>1, <2>2
  <1>10. ASSUME NEW S \in SUBSET Procs, Forget(S), TypeOK PROVE
              /\ writeMu' \in Procs \cup {NoProc}
              /\ pc' \in [Procs -> {"idle", "lock", "begin", "write", "commit", "backoff", "return"}]
              /\ arg' \in [Procs -> Args \cup {NoArg}]
              /\ attempt' \in [Procs -> 0 .. MaxAttempts]
              /\ seen' \in [Procs -> Rows \cup {NoRow}]
              /\ row' \in [Procs -> Rows \cup {NoRow}]
              /\ err' \in [Procs -> {"none", "busy", "duplicate", "failed"}]
              /\ stale' \in [Procs -> BOOLEAN]
    <2>1. pc' \in [Procs -> {"idle", "lock", "begin", "write", "commit", "backoff", "return"}]
      BY <1>10 DEF Forget, TypeOK
    <2>2. arg' \in [Procs -> Args \cup {NoArg}]
      BY <1>10 DEF Forget, TypeOK
    <2>3. attempt' \in [Procs -> 0 .. MaxAttempts]
      BY <1>10 DEF Forget, TypeOK
    <2>4. seen' \in [Procs -> Rows \cup {NoRow}] /\ row' \in [Procs -> Rows \cup {NoRow}]
      BY <1>10 DEF Forget, TypeOK
    <2>5. err' \in [Procs -> {"none", "busy", "duplicate", "failed"}]
      BY <1>10 DEF Forget, TypeOK
    <2>6. stale' \in [Procs -> BOOLEAN]
      BY <1>10, Zenon DEF Forget, TypeOK
    <2>7. writeMu' \in Procs \cup {NoProc}
      BY <1>10 DEF Forget, Unlocked, TypeOK
    <2> QED BY <2>1, <2>2, <2>3, <2>4, <2>5, <2>6, <2>7
  <1>11. ASSUME NEW S \in SUBSET Procs, Forget(S) PROVE LocalsOK'
    BY <1>11 DEF Forget, LocalsOK, TypeOK, Dirty, Committed, Inserts, Sqlite
  <1>12. ASSUME NEW p \in Procs, Return(p) PROVE TypeInv'
    <2>1. err[p] = "none" => Entry(row[p], p) \in Entries
      BY <1>12 DEF Return, LocalsOK, Committed, Entry, Entries, Rows
    <2>2. replies' \subseteq Entries
      BY <1>12, <2>1 DEF Return, TypeOK
    <2>3. Forget({p}) /\ {p} \in SUBSET Procs
      BY <1>12 DEF Return
    <2>4. TypeOK'
      BY <1>12, <1>10, <2>2, <2>3 DEF Return, TypeOK, db
    <2> QED BY <1>11, <2>3, <2>4
  <1>13. ASSUME NEW k \in Keys, NEW c \in BOOLEAN, DeleteVar(k, c) PROVE TypeInv'
    <2>1. TypeOK'
      BY <1>13 DEF DeleteVar, TypeOK
    <2>2. LocalsOK'
      BY <1>13 DEF DeleteVar, LocalsOK, Dirty, Committed, Inserts, Sqlite
    <2> QED BY <2>1, <2>2
  <1>14. ASSUME OtherWrite PROVE TypeInv'
    <2>1. TypeOK'
      BY <1>14 DEF OtherWrite, TypeOK, db
    <2>2. LocalsOK'
      BY <1>14 DEF OtherWrite, LocalsOK, Dirty, Committed, Inserts, Sqlite, db
    <2> QED BY <2>1, <2>2
  <1>15. ASSUME NEW S \in SUBSET Procs, Crash(S) PROVE TypeInv'
    <2>1. TypeOK'
      BY <1>15, <1>10 DEF Crash, TypeOK, db
    <2> QED BY <1>15, <1>11, <2>1 DEF Crash
  <1>16. CASE UNCHANGED vars
    BY <1>16 DEF vars, TypeOK, LocalsOK, Dirty, Committed, Inserts, Sqlite
  <1> QED
    BY <1>1, <1>2, <1>3, <1>4, <1>5, <1>6, <1>7, <1>8, <1>9, <1>12, <1>13,
       <1>14, <1>15, <1>16 DEF Next, Step

\* Type correctness: whatever the callers, the database and crashes do, every
\* table row, lock and local keeps its shape.
THEOREM TypeCorrect == Spec => []TypeOK
  <1>1. TypeInv /\ [Next]_vars => TypeInv'
    BY NextTypeInv
  <1>2. TypeInv => TypeOK
    BY DEF TypeInv
  <1> QED BY InitTypeInv, <1>1, <1>2, PTL DEF Spec

-----------------------------------------------------------------------------
(* Mutual exclusion on SQLite. *)

LEMMA NextQueued == TypeInv /\ Queued /\ [Next]_vars => Queued'
  <1> USE VarStoreAssumption
  <1> SUFFICES ASSUME TypeInv, Queued, [Next]_vars, Sqlite
               PROVE  \A p \in Procs : (pc'[p] \notin {"idle", "lock"}) <=> (writeMu' = p)
    BY DEF Queued, Sqlite
  <1>0. \A p \in Procs : (pc[p] \notin {"idle", "lock"}) <=> (writeMu = p)
    BY DEF Queued
  <1> USE DEF TypeInv, TypeOK
  <1>1. ASSUME NEW p \in Procs, NEW k \in Keys, NEW v \in Values, SetVar(p, k, v)
        PROVE  \A q \in Procs : (pc'[q] \notin {"idle", "lock"}) <=> (writeMu' = q)
    BY <1>0, <1>1 DEF SetVar
  <1>2. ASSUME NEW p \in Procs, Lock(p)
        PROVE  \A q \in Procs : (pc'[q] \notin {"idle", "lock"}) <=> (writeMu' = q)
    BY <1>0, <1>2 DEF Lock, CanLock
  <1>3. ASSUME NEW p \in Procs,
               Read(p) \/ Write(p) \/ WriteConflicts(p) \/ Commit(p)
                 \/ CommitConflicts(p) \/ Backoff(p) \/ GiveUp(p)
        PROVE  \A q \in Procs : (pc'[q] \notin {"idle", "lock"}) <=> (writeMu' = q)
    <2>1. pc[p] \notin {"idle", "lock"} /\ writeMu' = writeMu
      BY <1>3 DEF Read, Write, WriteConflicts, Commit, CommitConflicts, Backoff, GiveUp
    <2>2. \E c \in {"begin", "write", "commit", "backoff", "return"} : pc' = [pc EXCEPT ![p] = c]
      BY <1>3 DEF Read, Write, WriteConflicts, Commit, CommitConflicts, Backoff, GiveUp,
                  Ends, Retriable
    <2> QED BY <1>0, <2>1, <2>2
  <1>4. ASSUME NEW S \in SUBSET Procs, Forget(S)
        PROVE  \A q \in Procs : (pc'[q] \notin {"idle", "lock"}) <=> (writeMu' = q)
    BY <1>0, <1>4 DEF Forget, Unlocked
  <1>5. ASSUME UNCHANGED <<pc, writeMu>>
        PROVE  \A q \in Procs : (pc'[q] \notin {"idle", "lock"}) <=> (writeMu' = q)
    BY <1>0, <1>5
  <1>6. ASSUME NEW p \in Procs, Return(p)
        PROVE  \A q \in Procs : (pc'[q] \notin {"idle", "lock"}) <=> (writeMu' = q)
    BY <1>4, <1>6 DEF Return
  <1>7. ASSUME NEW S \in SUBSET Procs, Crash(S)
        PROVE  \A q \in Procs : (pc'[q] \notin {"idle", "lock"}) <=> (writeMu' = q)
    BY <1>4, <1>7 DEF Crash
  <1> QED
    BY <1>1, <1>2, <1>3, <1>5, <1>6, <1>7
       DEF Next, Step, vars, DeleteVar, OtherWrite

\* On SQLite the calls work on the database one at a time, and every return
\* path and the crash leave writeMu unlocked.
THEOREM QueueCorrect == Spec => []Queued
  <1>1. Init => Queued
    BY VarStoreAssumption DEF Init, Queued
  <1>2. TypeInv /\ Queued /\ [Next]_vars => (TypeInv /\ Queued)'
    BY NextTypeInv, NextQueued
  <1> QED BY InitTypeInv, <1>1, <1>2, PTL DEF Spec

-----------------------------------------------------------------------------
(* The steps that touch neither the tables nor an uncommitted row. *)

Quiet ==
  /\ UNCHANGED <<variables, versions>>
  /\ nextId' \in Nat /\ nextId' >= nextId /\ (Sqlite => nextId' = nextId)
  /\ Writes' \subseteq Writes
  /\ \A p \in Procs : Dirty(p)' =>
       Dirty(p) /\ seen'[p] = seen[p] /\ row'[p] = row[p] /\ arg'[p] = arg[p]

LEMMA QuietSteps ==
  ASSUME TypeInv, [Next]_vars
  PROVE  \/ Quiet
         \/ \E p \in Procs : Write(p) \/ Commit(p)
         \/ \E k \in Keys, c \in BOOLEAN : DeleteVar(k, c)
  <1> USE VarStoreAssumption DEF TypeInv, TypeOK
  <1>1. ASSUME NEW p \in Procs,
               (\E k \in Keys, v \in Values : SetVar(p, k, v)) \/ Lock(p) \/ Read(p)
                 \/ WriteConflicts(p) \/ CommitConflicts(p) \/ Backoff(p) \/ GiveUp(p)
        PROVE  Quiet
    <2>1. /\ UNCHANGED <<variables, versions, replies>>
          /\ nextId' \in Nat /\ nextId' >= nextId /\ (Sqlite => nextId' = nextId)
      BY <1>1 DEF SetVar, Lock, Read, WriteConflicts, CommitConflicts, Backoff, GiveUp,
                  TakeId, Sqlite, db
    <2>2. \A q \in Procs \ {p} : /\ pc'[q] = pc[q] /\ seen'[q] = seen[q] /\ row'[q] = row[q]
                                 /\ arg'[q] = arg[q] /\ err'[q] = err[q]
      BY <1>1 DEF SetVar, Lock, Read, WriteConflicts, CommitConflicts, Backoff, GiveUp, Ends
    <2>3. ~Dirty(p)' /\ ~Committed(p)'
      BY <1>1 DEF SetVar, Lock, Read, WriteConflicts, CommitConflicts, Backoff, GiveUp,
                  Ends, Retriable, Dirty, Committed, LocalsOK
    <2>4. Writes' \subseteq Writes
      BY <2>1, <2>2, <2>3 DEF Writes, Committed, Entry
    <2> QED BY <2>1, <2>2, <2>3, <2>4 DEF Quiet, Dirty
  <1>2. ASSUME NEW S \in SUBSET Procs, Forget(S)
        PROVE  /\ \A p \in Procs : Dirty(p)' =>
                    Dirty(p) /\ seen'[p] = seen[p] /\ row'[p] = row[p] /\ arg'[p] = arg[p]
               /\ \A p \in Procs : Committed(p)' =>
                    p \notin S /\ Committed(p) /\ row'[p] = row[p]
    BY <1>2 DEF Forget, Dirty, Committed
  <1>3. ASSUME NEW p \in Procs, Return(p) PROVE Quiet
    <2>1. Writes' \subseteq Writes
      BY <1>2, <1>3 DEF Return, Writes, Committed, Entry, db
    <2> QED BY <1>2, <1>3, <2>1 DEF Return, Quiet, db
  <1>4. ASSUME NEW S \in SUBSET Procs, Crash(S) PROVE Quiet
    <2>1. Writes' \subseteq Writes
      BY <1>2, <1>4 DEF Crash, Writes, Entry, db
    <2> QED BY <1>2, <1>4, <2>1 DEF Crash, Quiet, db
  <1>5. ASSUME OtherWrite \/ UNCHANGED vars PROVE Quiet
    <2>1. UNCHANGED <<variables, versions, nextId, replies, pc, seen, row, arg, err>>
      BY <1>5 DEF OtherWrite, vars, db
    <2>2. Writes' \subseteq Writes
      BY <2>1 DEF Writes, Committed, Entry
    <2> QED BY <2>1, <2>2 DEF Quiet, Dirty
  <1> QED BY <1>1, <1>3, <1>4, <1>5 DEF Next, Step

-----------------------------------------------------------------------------
(* A transaction that writes has read current data. *)

CurrentInv == TypeInv /\ Queued /\ SnapshotCurrent /\ WritesCurrent /\ PendingOK

LEMMA NextSnapshot == CurrentInv /\ [Next]_vars => SnapshotCurrent'
  <1> USE VarStoreAssumption DEF CurrentInv, TypeInv, TypeOK
  <1> SUFFICES ASSUME CurrentInv, [Next]_vars, Sqlite, NEW p \in Procs,
                      pc'[p] = "write", ~stale'[p]
               PROVE  variables'[arg'[p].key] = seen'[p]
    BY DEF SnapshotCurrent, Sqlite
  <1>1. ASSUME pc[p] = "write", ~stale[p], UNCHANGED <<variables, arg[p], seen[p]>>
        PROVE  variables'[arg'[p].key] = seen'[p]
    BY <1>1 DEF SnapshotCurrent
  <1>2. ASSUME NEW q \in Procs, Read(q) PROVE variables'[arg'[p].key] = seen'[p]
    <2>1. CASE q = p
      BY <1>2, <2>1 DEF Read, db
    <2>2. CASE q # p
      BY <1>1, <1>2, <2>2 DEF Read, db
    <2> QED BY <2>1, <2>2
  <1>3. ASSUME NEW q \in Procs,
               \/ \E k \in Keys, v \in Values : SetVar(q, k, v)
               \/ Lock(q) \/ Write(q) \/ WriteConflicts(q) \/ Backoff(q) \/ GiveUp(q)
        PROVE  variables'[arg'[p].key] = seen'[p]
    <2>1. q # p
      BY <1>3 DEF SetVar, Lock, Write, WriteConflicts, Backoff, GiveUp, Ends, Retriable
    <2>2. /\ pc'[p] = pc[p] /\ arg'[p] = arg[p]
          /\ UNCHANGED <<variables, stale, seen>>
      BY <1>3, <2>1 DEF SetVar, Lock, Write, WriteConflicts, Backoff, GiveUp, Ends, db
    <2> QED BY <1>1, <2>2
  <1>4. ASSUME NEW q \in Procs, Commit(q) PROVE variables'[arg'[p].key] = seen'[p]
    <2>1. q # p
      BY <1>4 DEF Commit, Ends, Retriable
    <2>2. pc[p] = "write"
      BY <1>4, <2>1 DEF Commit, Ends
    <2>3. stale'[p]
      BY <1>4, <2>1, <2>2 DEF Commit, Outdate, Open
    <2> QED BY <2>3
  <1>5. ASSUME NEW q \in Procs, CommitConflicts(q) PROVE FALSE
    BY <1>5 DEF CommitConflicts
  <1>6. ASSUME NEW S \in SUBSET Procs, Forget(S), UNCHANGED variables
        PROVE  variables'[arg'[p].key] = seen'[p]
    <2>1. p \notin S
      BY <1>6 DEF Forget
    <2>2. pc[p] = "write" /\ ~stale[p] /\ arg'[p] = arg[p] /\ seen'[p] = seen[p]
      BY <1>6, <2>1 DEF Forget
    <2> QED BY <1>1, <1>6, <2>2
  <1>7. ASSUME NEW k \in Keys, NEW c \in BOOLEAN, DeleteVar(k, c) PROVE FALSE
    BY <1>7 DEF DeleteVar, Open
  <1>8. ASSUME OtherWrite PROVE FALSE
    BY <1>8 DEF OtherWrite, Open
  <1>9. CASE UNCHANGED vars
    BY <1>1, <1>9 DEF vars
  <1>10. ASSUME NEW q \in Procs, Return(q) PROVE variables'[arg'[p].key] = seen'[p]
    BY <1>6, <1>10 DEF Return, db
  <1>11. ASSUME NEW S \in SUBSET Procs, Crash(S) PROVE variables'[arg'[p].key] = seen'[p]
    BY <1>6, <1>11 DEF Crash, db
  <1> QED
    BY <1>2, <1>3, <1>4, <1>5, <1>7, <1>8, <1>9, <1>10, <1>11 DEF Next, Step

LEMMA NextWritesCurrent == CurrentInv /\ [Next]_vars => WritesCurrent' /\ PendingOK'
  <1> USE VarStoreAssumption DEF CurrentInv, TypeInv, TypeOK
  <1> SUFFICES ASSUME CurrentInv, [Next]_vars PROVE WritesCurrent' /\ PendingOK'
    OBVIOUS
  <1>1. CASE Quiet
    BY <1>1 DEF Quiet, WritesCurrent, PendingOK, Inserts
  <1>2. ASSUME NEW p \in Procs, Write(p) PROVE WritesCurrent' /\ PendingOK'
    <2>1. /\ \A q \in Procs \ {p} : Dirty(q)' = Dirty(q) /\ row'[q] = row[q]
          /\ UNCHANGED <<variables, seen, arg>>
      BY <1>2 DEF Write, Dirty
    <2>2. variables[arg[p].key] = seen[p]
      BY <1>2 DEF Write, Conflict, SnapshotCurrent
    <2>3. \A q \in Procs \ {p} : ~(Dirty(q) /\ arg[q].key = arg[p].key)
      BY <1>2 DEF Write, Conflict, Blocked
    <2>4. WritesCurrent'
      BY <2>1, <2>2, <2>3 DEF WritesCurrent
    <2>5. row'[p] = NewRow(p)
      BY <1>2 DEF Write
    <2>6. PendingOK'
      BY <2>1, <2>5 DEF PendingOK, NewRow, Inserts
    <2> QED BY <2>4, <2>6
  <1>3. ASSUME NEW p \in Procs, Commit(p) PROVE WritesCurrent' /\ PendingOK'
    <2>1. /\ ~Dirty(p)' /\ Dirty(p)
          /\ \A q \in Procs \ {p} : Dirty(q)' = Dirty(q)
          /\ UNCHANGED <<seen, arg, row>>
      BY <1>3 DEF Commit, Ends, Retriable, Dirty
    <2>2. \A q \in Procs \ {p} : Dirty(q) => variables'[arg[q].key] = variables[arg[q].key]
      BY <1>3, <2>1 DEF Commit, WritesCurrent
    <2> QED BY <2>1, <2>2 DEF WritesCurrent, PendingOK, Inserts
  <1>4. ASSUME NEW k \in Keys, NEW c \in BOOLEAN, DeleteVar(k, c)
        PROVE  WritesCurrent' /\ PendingOK'
    <2>1. UNCHANGED <<pc, seen, arg, row>>
      BY <1>4 DEF DeleteVar
    <2>2. \A q \in Procs : Dirty(q) => variables'[arg[q].key] = variables[arg[q].key]
      BY <1>4 DEF DeleteVar
    <2> QED BY <2>1, <2>2 DEF WritesCurrent, PendingOK, Inserts, Dirty
  <1> QED BY <1>1, <1>2, <1>3, <1>4, QuietSteps

\* No transaction of SetVar ever commits on outdated data.
THEOREM CurrentCorrect == Spec => []WritesCurrent
  <1>1. Init => CurrentInv
    BY InitTypeInv, VarStoreAssumption
       DEF Init, CurrentInv, Queued, SnapshotCurrent, WritesCurrent, PendingOK, Dirty
  <1>2. CurrentInv /\ [Next]_vars => CurrentInv'
    BY NextTypeInv, NextQueued, NextSnapshot, NextWritesCurrent DEF CurrentInv
  <1>3. CurrentInv => WritesCurrent
    BY DEF CurrentInv
  <1> QED BY <1>1, <1>2, <1>3, PTL DEF Spec

-----------------------------------------------------------------------------
(* Ids are never used twice, and no version is written twice. *)

Shapes ==
  /\ Writes \subseteq Entries
  /\ \A h \in Writes : h.id \in Nat \ {0} /\ h.version \in Nat \ {0}
  /\ \A k \in Keys :
       /\ variables[k].id \in Nat /\ variables[k].version \in Nat
       /\ (variables[k].id = 0) <=> (variables[k] = NoRow)
  /\ \A p \in Procs :
       /\ seen[p].id \in Nat /\ seen[p].version \in Nat
       /\ (seen[p].id = 0) <=> (seen[p] = NoRow)
       /\ row[p].id \in Nat /\ row[p].version \in Nat
       /\ Dirty(p) => arg[p].key \in Keys

LEMMA RowTypes == TypeInv => Shapes
  <1> SUFFICES ASSUME TypeInv PROVE Shapes
    OBVIOUS
  <1> USE DEF TypeInv, TypeOK, Rows, NoRow
  <1>1. Writes \subseteq Entries
    BY DEF Writes, Entries, Entry, LocalsOK
  <1>2. \A h \in Writes : h.id \in Nat \ {0} /\ h.version \in Nat \ {0}
    BY <1>1 DEF Entries
  <1>3. \A p \in Procs : Dirty(p) => arg[p].key \in Keys
    BY DEF LocalsOK, Dirty, Args
  <1>4. \A k \in Keys :
          /\ variables[k].id \in Nat /\ variables[k].version \in Nat
          /\ (variables[k].id = 0) <=> (variables[k] = NoRow)
    OBVIOUS
  <1>5. \A p \in Procs :
          /\ seen[p].id \in Nat /\ seen[p].version \in Nat
          /\ (seen[p].id = 0) <=> (seen[p] = NoRow)
          /\ row[p].id \in Nat /\ row[p].version \in Nat
    OBVIOUS
  <1> HIDE DEF TypeInv, TypeOK, Rows, NoRow
  <1> QED BY <1>1, <1>2, <1>3, <1>4, <1>5 DEF Shapes

\* What a commit does to the tables, in terms of the row it writes.
LEMMA CommitFacts ==
  ASSUME IInv, NEW p \in Procs, Commit(p)
  PROVE  /\ Dirty(p) /\ ~Dirty(p)' /\ arg[p].key \in Keys /\ row[p] \in Rows
         /\ variables[arg[p].key] = seen[p]
         /\ variables' = [variables EXCEPT ![arg[p].key] = row[p]]
         /\ versions' = versions \cup {Entry(row[p], p)}
         /\ Writes' \subseteq Writes \cup {Entry(row[p], p)}
         /\ \A q \in Procs \ {p} : Dirty(q)' = Dirty(q)
         /\ UNCHANGED <<seen, arg, row>>
         /\ nextId' = IF Inserts(p) /\ Sqlite THEN row[p].id + 1 ELSE nextId
         /\ row[p].version = seen[p].version + 1
  <1> USE DEF IInv, TypeOK
  <1>1. /\ Dirty(p) /\ ~Dirty(p)' /\ arg[p].key \in Keys /\ row[p] \in Rows
        /\ variables[arg[p].key] = seen[p]
        /\ row[p].version = seen[p].version + 1
    BY DEF Commit, Ends, Retriable, Dirty, LocalsOK, Args, WritesCurrent, PendingOK
  <1>2. /\ variables' = [variables EXCEPT ![arg[p].key] = row[p]]
        /\ versions' = versions \cup {Entry(row[p], p)}
        /\ UNCHANGED <<seen, arg, row, replies>>
        /\ nextId' = IF Inserts(p) /\ Sqlite THEN row[p].id + 1 ELSE nextId
    BY DEF Commit, AddHistory
  <1>3. \A q \in Procs \ {p} : Dirty(q)' = Dirty(q) /\ Committed(q)' = Committed(q)
    BY DEF Commit, Ends, Dirty, Committed
  <1>4. Writes' \subseteq Writes \cup {Entry(row[p], p)}
    BY <1>2, <1>3 DEF Writes, Entry
  <1> QED BY <1>1, <1>2, <1>3, <1>4

\* The write that commits was not made before, and no live row but the one
\* of its key has its id.
LEMMA CommitIsNew ==
  ASSUME IInv, NEW p \in Procs, Commit(p)
  PROVE  /\ \A h \in Writes : h.id = row[p].id => h.version < row[p].version
         /\ \A k \in Keys \ {arg[p].key} : variables[k].id # row[p].id
         /\ ~Inserts(p) => row[p].id = variables[arg[p].key].id
         /\ row[p].id \in Nat \ {0} /\ row[p].version \in Nat \ {0}
  <1>0. Shapes
    BY RowTypes DEF IInv, TypeInv
  <1> USE CommitFacts, <1>0 DEF Shapes
  <1>1. row[p].id \in Nat \ {0} /\ row[p].version \in Nat \ {0}
    BY DEF Rows
  <1>2. CASE Inserts(p)
    BY <1>1, <1>2 DEF IInv, FreshInserts
  <1>3. CASE ~Inserts(p)
    <2>1. row[p].id = variables[arg[p].key].id
      BY <1>3 DEF IInv, PendingOK
    <2>2. \A k \in Keys \ {arg[p].key} : variables[k].id # row[p].id
      BY <1>1, <2>1 DEF IInv, IdsOK
    <2>3. ASSUME NEW h \in Writes, h.id = row[p].id PROVE h.version < row[p].version
      <3>1. h \in versions
        BY <2>1, <2>3 DEF IInv, HistoryOK, Live
      <3>2. h.version <= seen[p].version
        BY <2>1, <2>3, <3>1 DEF IInv, HistoryOK
      <3>3. h.version \in Nat /\ seen[p].version \in Nat
        BY <2>3
      <3>4. row[p].version = seen[p].version + 1
        OBVIOUS
      <3> HIDE CommitFacts, <1>0
      <3> QED BY <3>2, <3>3, <3>4
    <2> QED BY <1>1, <1>3, <2>1, <2>2, <2>3
  <1> QED BY <1>2, <1>3

LEMMA NextIds == IInv /\ [Next]_vars => IdsOK' /\ FreshInserts'
  <1> USE VarStoreAssumption
  <1> SUFFICES ASSUME IInv, [Next]_vars PROVE IdsOK' /\ FreshInserts'
    OBVIOUS
  <1>0. TypeInv /\ nextId \in Nat \ {0} /\ Shapes
    BY RowTypes DEF IInv, TypeInv, TypeOK
  <1> USE DEF Shapes
  <1>1. CASE Quiet
    <2>1. IdsOK'
      <3>1. \A k \in Keys : variables'[k].id < nextId'
        <4> SUFFICES ASSUME NEW k \in Keys PROVE variables'[k].id < nextId'
          OBVIOUS
        <4>1. variables'[k] = variables[k] /\ nextId' >= nextId /\ nextId' \in Nat
          BY <1>1 DEF Quiet
        <4>2. variables[k].id < nextId /\ variables[k].id \in Nat
          BY <1>0 DEF IInv, IdsOK
        <4> QED BY <1>0, <4>1, <4>2
      <3>2. \A h \in Writes' : h.id < nextId'
        <4> SUFFICES ASSUME NEW h \in Writes' PROVE h.id < nextId'
          OBVIOUS
        <4>1. h \in Writes /\ nextId' >= nextId /\ nextId' \in Nat
          BY <1>1 DEF Quiet
        <4>2. h.id < nextId /\ h.id \in Nat
          BY <1>0, <4>1 DEF IInv, IdsOK
        <4> QED BY <1>0, <4>1, <4>2
      <3> QED BY <1>1, <3>1, <3>2 DEF Quiet, IInv, IdsOK
    <2>2. FreshInserts'
      <3> SUFFICES ASSUME NEW p \in Procs, Dirty(p)', Inserts(p)'
                   PROVE  /\ IF Sqlite THEN row'[p].id = nextId' ELSE row'[p].id < nextId'
                          /\ (\A k \in Keys : variables'[k].id # row'[p].id)
                          /\ \A h \in Writes' : h.id # row'[p].id
                          /\ \A q \in Procs \ {p} : Dirty(q)' => row'[q].id # row'[p].id
        BY DEF FreshInserts, Sqlite
      <3>1. Dirty(p) /\ Inserts(p) /\ row'[p] = row[p]
        BY <1>1 DEF Quiet, Inserts
      <3>2. IF Sqlite THEN row'[p].id = nextId' ELSE row'[p].id < nextId'
        <4>1. IF Sqlite THEN row[p].id = nextId ELSE row[p].id < nextId
          BY <3>1 DEF IInv, FreshInserts
        <4>2. nextId' \in Nat /\ nextId' >= nextId /\ (Sqlite => nextId' = nextId)
          BY <1>1 DEF Quiet
        <4>3. row[p].id \in Nat
          BY <1>0
        <4> QED BY <1>0, <3>1, <4>1, <4>2, <4>3
      <3>3. (\A k \in Keys : variables'[k].id # row'[p].id)
        BY <1>1, <3>1 DEF Quiet, IInv, FreshInserts
      <3>4. /\ \A h \in Writes' : h.id # row'[p].id
            /\ \A q \in Procs \ {p} : Dirty(q)' => row'[q].id # row'[p].id
        BY <1>1, <3>1 DEF Quiet, IInv, FreshInserts
      <3> QED BY <3>2, <3>3, <3>4
    <2> QED BY <2>1, <2>2
  <1>2. ASSUME NEW p \in Procs, Write(p) PROVE IdsOK' /\ FreshInserts'
    <2>1. /\ UNCHANGED <<variables, versions, replies, seen, err>>
          /\ \A q \in Procs \ {p} : /\ Dirty(q)' = Dirty(q) /\ row'[q] = row[q]
                                    /\ Committed(q)' = Committed(q)
          /\ ~Committed(p)' /\ row'[p] = NewRow(p)
      BY <1>2, <1>0 DEF TypeInv, TypeOK, Write, Dirty, Committed
    <2>2. Writes' \subseteq Writes
      BY <2>1 DEF Writes, Entry
    <2>3. nextId' = IF Inserts(p) /\ ~Sqlite THEN nextId + 1 ELSE nextId
      BY <1>2 DEF Write, TakeId
    <2>4. IdsOK'
      <3>1. nextId' \in Nat /\ nextId' >= nextId
        BY <1>0, <2>3
      <3>2. ASSUME NEW k \in Keys PROVE variables'[k].id < nextId'
        <4>1. variables'[k].id < nextId /\ variables'[k].id \in Nat
          BY <1>0, <2>1 DEF IInv, IdsOK
        <4> QED BY <1>0, <3>1, <4>1
      <3>3. ASSUME NEW h \in Writes' PROVE h.id < nextId'
        <4>1. h.id < nextId /\ h.id \in Nat
          BY <1>0, <2>2 DEF IInv, IdsOK
        <4> QED BY <1>0, <3>1, <4>1
      <3> QED BY <2>1, <3>2, <3>3 DEF IInv, IdsOK
    <2>5. ASSUME Sqlite PROVE \A q \in Procs \ {p} : ~Dirty(q)
      BY <1>2, <2>5 DEF Write, Conflict
    <2>6. seen[p] = variables[arg[p].key] /\ arg[p].key \in Keys
      BY <1>0, <1>2 DEF TypeInv, Write, Conflict, IInv, SnapshotCurrent, LocalsOK, Args
    <2>7. \A q \in Procs : Dirty(q) => row[q].id < nextId \/ (Sqlite /\ q = p)
      <3> SUFFICES ASSUME NEW q \in Procs, Dirty(q), ~Sqlite PROVE row[q].id < nextId
        BY <1>2, <2>5 DEF Write, Dirty
      <3>1. CASE Inserts(q)
        BY <3>1 DEF IInv, FreshInserts
      <3>2. CASE ~Inserts(q)
        <4>1. row[q].id = variables[arg[q].key].id /\ arg[q].key \in Keys
          BY <1>0, <3>2 DEF IInv, PendingOK, WritesCurrent
        <4> QED BY <4>1 DEF IInv, IdsOK
      <3> QED BY <3>1, <3>2
    <2>8. FreshInserts'
      <3> SUFFICES ASSUME NEW q \in Procs, Dirty(q)', Inserts(q)'
                   PROVE  /\ IF Sqlite THEN row'[q].id = nextId' ELSE row'[q].id < nextId'
                          /\ (\A k \in Keys : variables'[k].id # row'[q].id)
                          /\ \A h \in Writes' : h.id # row'[q].id
                          /\ \A r \in Procs \ {q} : Dirty(r)' => row'[r].id # row'[q].id
        BY DEF FreshInserts, Sqlite
      <3>1. CASE q = p
        <4>1. Inserts(p) /\ row'[p].id = nextId
          BY <2>1, <3>1 DEF Inserts, NewRow
        <4>2. IF Sqlite THEN row'[q].id = nextId' ELSE row'[q].id < nextId'
          BY <1>0, <2>3, <3>1, <4>1
        <4>3. (\A k \in Keys : variables'[k].id # row'[q].id)
          BY <1>0, <2>1, <3>1, <4>1 DEF IInv, IdsOK
        <4>4. \A h \in Writes' : h.id # row'[q].id
          BY <1>0, <2>2, <3>1, <4>1 DEF IInv, IdsOK
        <4>5. \A r \in Procs \ {q} : Dirty(r)' => row'[r].id # row'[q].id
          BY <1>0, <2>1, <2>5, <2>7, <3>1, <4>1
        <4> QED BY <4>2, <4>3, <4>4, <4>5
      <3>2. CASE q # p
        <4>1. Dirty(q) /\ Inserts(q) /\ row'[q] = row[q] /\ ~Sqlite /\ row[q].id < nextId
          BY <2>1, <2>5, <2>7, <3>2 DEF Inserts
        <4>2. row'[q].id < nextId'
          <5>1. row[q].id \in Nat
            BY <1>0
          <5> QED BY <1>0, <2>3, <4>1, <5>1
        <4>3. (\A k \in Keys : variables'[k].id # row'[q].id) /\ \A h \in Writes' : h.id # row'[q].id
          BY <2>1, <2>2, <4>1 DEF IInv, FreshInserts
        <4>4. row'[p].id # row'[q].id
          <5>1. CASE Inserts(p)
            BY <1>0, <2>1, <4>1, <5>1 DEF NewRow, Inserts
          <5>2. CASE ~Inserts(p)
            BY <2>1, <2>6, <4>1, <5>2 DEF NewRow, Inserts, IInv, FreshInserts, Live
          <5> QED BY <5>1, <5>2
        <4>5. \A r \in Procs \ {q} : Dirty(r)' => row'[r].id # row'[q].id
          BY <2>1, <4>1, <4>4 DEF IInv, FreshInserts
        <4> QED BY <4>1, <4>2, <4>3, <4>5
      <3> QED BY <3>1, <3>2
    <2> QED BY <2>4, <2>8
  <1>3. ASSUME NEW p \in Procs, Commit(p) PROVE IdsOK' /\ FreshInserts'
    <2> USE CommitFacts, CommitIsNew, <1>3
    <2>1. row[p].id < nextId' /\ nextId' >= nextId /\ nextId' \in Nat
      <3>1. CASE Inserts(p)
        BY <1>0, <3>1 DEF IInv, FreshInserts
      <3>2. CASE ~Inserts(p)
        BY <1>0, <3>2 DEF IInv, IdsOK
      <3> QED BY <3>1, <3>2
    <2>2. IdsOK'
      <3>1. \A k \in Keys : variables'[k].id < nextId'
        <4> SUFFICES ASSUME NEW k \in Keys PROVE variables'[k].id < nextId'
          OBVIOUS
        <4>1. CASE k = arg[p].key
          BY <2>1, <4>1 DEF IInv, TypeOK
        <4>2. CASE k # arg[p].key
          <5>1. variables'[k] = variables[k]
            BY <4>2 DEF IInv, TypeOK
          <5>2. variables[k].id < nextId /\ variables[k].id \in Nat
            BY <1>0 DEF IInv, IdsOK
          <5> QED BY <1>0, <2>1, <5>1, <5>2
        <4> QED BY <4>1, <4>2
      <3>2. \A k, l \in Keys : variables'[k].id = variables'[l].id /\ k # l => variables'[k].id = 0
        BY <1>0 DEF IInv, IdsOK, TypeOK
      <3>3. \A h \in Writes' : h.id < nextId'
        BY <1>0, <2>1 DEF IInv, IdsOK, Entry, Entries
      <3> QED BY <3>1, <3>2, <3>3 DEF IdsOK
    <2>3. FreshInserts'
      <3> SUFFICES ASSUME NEW q \in Procs, Dirty(q)', Inserts(q)'
                   PROVE  /\ IF Sqlite THEN row'[q].id = nextId' ELSE row'[q].id < nextId'
                          /\ (\A k \in Keys : variables'[k].id # row'[q].id)
                          /\ \A h \in Writes' : h.id # row'[q].id
                          /\ \A r \in Procs \ {q} : Dirty(r)' => row'[r].id # row'[q].id
        BY DEF FreshInserts, Sqlite
      <3>1. q # p /\ Dirty(q) /\ Inserts(q) /\ row'[q] = row[q]
        BY DEF Inserts
      <3>2. ~Sqlite
        BY <1>0, <3>1 DEF IInv, Queued, Dirty
      <3>3. row[q].id # row[p].id
        BY <3>1 DEF IInv, FreshInserts
      <3>4. row'[q].id < nextId'
        BY <1>0, <2>1, <3>1, <3>2 DEF IInv, FreshInserts
      <3>5. (\A k \in Keys : variables'[k].id # row'[q].id)
        BY <1>0, <3>1, <3>3 DEF IInv, FreshInserts, TypeOK
      <3>6. \A h \in Writes' : h.id # row'[q].id
        BY <3>1, <3>3 DEF IInv, FreshInserts, Entry
      <3>7. \A r \in Procs \ {q} : Dirty(r)' => row'[r].id # row'[q].id
        BY <3>1 DEF IInv, FreshInserts
      <3> QED BY <3>2, <3>4, <3>5, <3>6, <3>7
    <2> QED BY <2>2, <2>3
  <1>4. ASSUME NEW k \in Keys, NEW c \in BOOLEAN, DeleteVar(k, c) PROVE IdsOK' /\ FreshInserts'
    <2>1. /\ UNCHANGED <<nextId, pc, seen, row, err, replies>>
          /\ versions' \subseteq versions
          /\ variables' = [variables EXCEPT ![k] = NoRow]
      BY <1>4 DEF DeleteVar
    <2>2. Writes' \subseteq Writes
      BY <2>1 DEF Writes, Committed, Entry
    <2>3. \A i \in Nat \ {0} : Live(i)' => Live(i)
      BY <1>0, <2>1, RowFacts DEF Live, TypeInv, TypeOK
    <2>4. IdsOK'
      BY <1>0, <2>1, <2>2, RowFacts DEF IInv, IdsOK, TypeOK, Entries
    <2>5. \A q \in Procs : Dirty(q) => row[q].id \in Nat \ {0}
      BY DEF IInv, LocalsOK, Rows
    <2>6. FreshInserts'
      <3> SUFFICES ASSUME NEW q \in Procs, Dirty(q)', Inserts(q)'
                   PROVE  /\ IF Sqlite THEN row'[q].id = nextId' ELSE row'[q].id < nextId'
                          /\ \A l \in Keys : variables'[l].id # row'[q].id
                          /\ \A h \in Writes' : h.id # row'[q].id
                          /\ \A r \in Procs \ {q} : Dirty(r)' => row'[r].id # row'[q].id
        BY DEF FreshInserts, Sqlite
      <3>1. Dirty(q) /\ Inserts(q) /\ \A r \in Procs : Dirty(r)' = Dirty(r) /\ row'[r] = row[r]
        BY <2>1 DEF Dirty, Inserts
      <3>2. \A l \in Keys : variables'[l].id # row'[q].id
        BY <1>0, <2>1, <2>5, <3>1, RowFacts DEF IInv, FreshInserts, TypeOK
      <3> QED BY <2>1, <2>2, <3>1, <3>2 DEF IInv, FreshInserts
    <2> QED BY <2>4, <2>6
  <1> QED BY <1>0, <1>1, <1>2, <1>3, <1>4, QuietSteps

LEMMA NextHistory == IInv /\ [Next]_vars => HistoryOK' /\ WritesUnique'
  <1> USE VarStoreAssumption
  <1> SUFFICES ASSUME IInv, [Next]_vars PROVE HistoryOK' /\ WritesUnique'
    OBVIOUS
  <1>0. TypeInv /\ Shapes
    BY RowTypes DEF IInv, TypeInv
  <1>1. ASSUME UNCHANGED <<variables, versions>>, Writes' \subseteq Writes
        PROVE  HistoryOK' /\ WritesUnique'
    BY <1>1 DEF IInv, HistoryOK, WritesUnique, Live
  <1>2. ASSUME NEW p \in Procs, Write(p) PROVE HistoryOK' /\ WritesUnique'
    <2>1. UNCHANGED <<variables, versions, replies, err>>
      BY <1>2 DEF Write
    <2>2. \A q \in Procs : Committed(q)' => Committed(q) /\ row'[q] = row[q]
      BY <1>0, <1>2 DEF TypeInv, TypeOK, Write, Committed
    <2>3. Writes' \subseteq Writes
      BY <2>1, <2>2 DEF Writes, Entry
    <2> QED BY <1>1, <2>1, <2>3
  <1>3. ASSUME NEW p \in Procs, Commit(p) PROVE HistoryOK' /\ WritesUnique'
    <2> DEFINE K == arg[p].key
               e == Entry(row[p], p)
    <2>1. /\ K \in Keys /\ row[p] \in Rows /\ variables[K] = seen[p]
          /\ variables' = [variables EXCEPT ![K] = row[p]]
          /\ versions' = versions \cup {e}
          /\ Writes' \subseteq Writes \cup {e}
          /\ row[p].version = seen[p].version + 1
      BY <1>3, CommitFacts
    <2>2. /\ \A h \in Writes : h.id = row[p].id => h.version < row[p].version
          /\ \A k \in Keys \ {K} : variables[k].id # row[p].id
          /\ ~Inserts(p) => row[p].id = variables[K].id
          /\ row[p].id \in Nat \ {0} /\ row[p].version \in Nat \ {0}
      BY <1>3, CommitIsNew
    <2>3. e.id = row[p].id /\ e.version = row[p].version /\ e.value = row[p].value
      BY DEF Entry
    <2>4. variables'[K] = row[p] /\ \A k \in Keys \ {K} : variables'[k] = variables[k]
      BY <2>1 DEF IInv, TypeOK
    <2> HIDE DEF K, e
    <2>5. versions \subseteq Writes
      BY DEF Writes
    <2>6. \A h \in Writes : h.id \in Nat \ {0} /\ h.version \in Nat \ {0}
      BY <1>0 DEF Shapes
    <2>7. \A h \in Writes' : Live(h.id)' => h \in versions'
      <3> SUFFICES ASSUME NEW h \in Writes', NEW k \in Keys, variables'[k].id = h.id, h # e
                   PROVE  h \in versions
        BY <2>1 DEF Live
      <3>1. h \in Writes
        BY <2>1
      <3>2. CASE k # K
        BY <2>4, <3>1, <3>2 DEF IInv, HistoryOK, Live
      <3>3. CASE k = K
        <4>1. h.id = row[p].id
          BY <2>4, <3>3
        <4>2. CASE ~Inserts(p)
          BY <2>1, <2>2, <3>1, <4>1, <4>2 DEF IInv, HistoryOK, Live
        <4>3. CASE Inserts(p)
          BY <1>3, <3>1, <4>1, <4>3, CommitFacts DEF IInv, FreshInserts
        <4> QED BY <4>2, <4>3
      <3> QED BY <3>2, <3>3
    <2>8. ASSUME NEW k \in Keys, NEW h \in versions', h.id = variables'[k].id
          PROVE  /\ h.version <= variables'[k].version
                 /\ h.version = variables'[k].version => h.value = variables'[k].value
      <3>1. CASE k # K
        <4>1. h \in versions
          BY <2>1, <2>2, <2>3, <2>4, <2>8, <3>1
        <4> QED BY <2>4, <2>8, <3>1, <4>1 DEF IInv, HistoryOK
      <3>2. CASE k = K /\ h = e
        BY <2>2, <2>3, <2>4, <3>2
      <3>3. CASE k = K /\ h # e
        <4>1. h \in Writes /\ h.id = row[p].id
          BY <2>1, <2>4, <2>5, <2>8, <3>3
        <4>2. h.version < row[p].version /\ h.version \in Nat /\ row[p].version \in Nat
          BY <2>2, <2>6, <4>1
        <4> QED BY <2>4, <3>3, <4>2
      <3> QED BY <3>1, <3>2, <3>3
    <2>9. ASSUME NEW k \in Keys, NEW n \in 1 .. variables'[k].version
          PROVE  \E h \in versions' : h.id = variables'[k].id /\ h.version = n
      <3>1. CASE k # K
        BY <2>1, <2>4, <2>9, <3>1 DEF IInv, HistoryOK
      <3>2. CASE k = K /\ n = row[p].version
        BY <2>1, <2>3, <2>4, <3>2
      <3>3. CASE k = K /\ n # row[p].version
        <4>1. n \in 1 .. seen[p].version /\ seen[p].version \in Nat
          BY <1>0, <2>1, <2>4, <2>9, <3>3 DEF Shapes
        <4>2. row[p].id = variables[K].id
          <5>1. seen[p] # NoRow
            BY <4>1, RowFacts
          <5> QED BY <2>2, <5>1 DEF Inserts
        <4>3. \E h \in versions : h.id = variables[K].id /\ h.version = n
          BY <2>1, <4>1 DEF IInv, HistoryOK
        <4> QED BY <2>1, <2>4, <3>3, <4>2, <4>3
      <3> QED BY <3>1, <3>2, <3>3
    <2>10. WritesUnique'
      <3> SUFFICES ASSUME NEW g \in Writes', NEW h \in Writes',
                          g.id = h.id, g.version = h.version, g # h
                   PROVE  FALSE
        BY DEF WritesUnique
      <3>1. CASE g \in Writes /\ h \in Writes
        BY <3>1 DEF IInv, WritesUnique
      <3>2. CASE g = e /\ h \in Writes
        <4>1. h.version < row[p].version /\ h.version = row[p].version
          BY <2>2, <2>3, <3>2
        <4> QED BY <2>2, <4>1
      <3>3. CASE h = e /\ g \in Writes
        <4>1. g.version < row[p].version /\ g.version = row[p].version
          BY <2>2, <2>3, <3>3
        <4> QED BY <2>2, <4>1
      <3> QED BY <2>1, <3>1, <3>2, <3>3
    <2> QED BY <2>7, <2>8, <2>9, <2>10 DEF HistoryOK
  <1>4. ASSUME NEW k \in Keys, NEW c \in BOOLEAN, DeleteVar(k, c)
        PROVE  HistoryOK' /\ WritesUnique'
    <2>1. /\ UNCHANGED <<pc, row, err, replies>>
          /\ variables' = [variables EXCEPT ![k] = NoRow]
          /\ versions' = versions \/ versions' = {h \in versions : h.id # variables[k].id}
      BY <1>4 DEF DeleteVar
    <2>2. Writes' \subseteq Writes /\ versions' \subseteq versions
      BY <2>1 DEF Writes, Committed, Entry
    <2>3. /\ variables'[k] = NoRow
          /\ \A l \in Keys \ {k} : variables'[l] = variables[l]
      BY <1>0, <2>1 DEF TypeInv, TypeOK
    <2>4. \A h \in Writes : h.id \in Nat \ {0} /\ h.version \in Nat \ {0}
      BY <1>0 DEF Shapes
    <2>5. ASSUME NEW l \in Keys, variables'[l].id # 0
          PROVE  /\ l # k /\ variables'[l] = variables[l]
                 /\ variables[l].id # variables[k].id
      BY <2>3, <2>5, RowFacts DEF IInv, IdsOK
    <2>6. \A l \in Keys : \A h \in versions :
            variables'[l].id # 0 /\ h.id = variables'[l].id => h \in versions'
      BY <2>1, <2>5
    <2>7. \A h \in Writes' : Live(h.id)' => h \in versions'
      <3> SUFFICES ASSUME NEW h \in Writes', NEW l \in Keys, variables'[l].id = h.id
                   PROVE  h \in versions'
        BY DEF Live
      <3>1. h \in Writes /\ variables'[l].id # 0
        BY <2>2, <2>4
      <3>2. h \in versions
        BY <2>5, <3>1 DEF IInv, HistoryOK, Live
      <3> QED BY <2>6, <3>1, <3>2
    <2>8. ASSUME NEW l \in Keys, NEW h \in versions', h.id = variables'[l].id
          PROVE  /\ h.version <= variables'[l].version
                 /\ h.version = variables'[l].version => h.value = variables'[l].value
      <3>1. h \in versions /\ h.id # 0
        BY <2>2, <2>4 DEF Writes
      <3> QED BY <2>5, <2>8, <3>1 DEF IInv, HistoryOK
    <2>9. ASSUME NEW l \in Keys, NEW n \in 1 .. variables'[l].version
          PROVE  \E h \in versions' : h.id = variables'[l].id /\ h.version = n
      <3>1. variables'[l].id # 0
        <4>1. variables'[l].version # 0
          BY <2>9
        <4> QED BY <1>0, <2>3, <4>1, RowFacts DEF Shapes
      <3>2. variables'[l] = variables[l]
        BY <2>5, <3>1
      <3>3. PICK h \in versions : h.id = variables[l].id /\ h.version = n
        BY <2>9, <3>2 DEF IInv, HistoryOK
      <3> QED BY <2>6, <3>1, <3>2, <3>3
    <2>10. WritesUnique'
      BY <2>2 DEF IInv, WritesUnique
    <2> QED BY <2>7, <2>8, <2>9, <2>10 DEF HistoryOK
  <1>5. CASE Quiet
    BY <1>1, <1>5 DEF Quiet
  <1> QED BY <1>0, <1>2, <1>3, <1>4, <1>5, QuietSteps

-----------------------------------------------------------------------------
(* The inductive invariant and what follows from it. *)

LEMMA InitIInv == Init => IInv
  <1> USE VarStoreAssumption
  <1> SUFFICES ASSUME Init PROVE IInv
    OBVIOUS
  <1>1. TypeInv
    BY InitTypeInv
  <1>2. Writes = {}
    BY DEF Init, Writes, Committed
  <1>3. Queued /\ SnapshotCurrent /\ WritesCurrent /\ PendingOK /\ FreshInserts
    BY DEF Init, Queued, SnapshotCurrent, WritesCurrent, PendingOK, FreshInserts, Dirty
  <1>4. IdsOK /\ HistoryOK /\ WritesUnique
    BY <1>2 DEF Init, IdsOK, HistoryOK, WritesUnique, NoRow
  <1> QED BY <1>1, <1>3, <1>4 DEF IInv, TypeInv

\* The inductive invariant holds of every behaviour on either backend.
THEOREM Invariance == Spec => []IInv
  <1>1. IInv /\ [Next]_vars => IInv'
    <2> SUFFICES ASSUME IInv, [Next]_vars PROVE IInv'
      OBVIOUS
    <2>1. TypeInv /\ CurrentInv
      BY DEF IInv, TypeInv, CurrentInv
    <2> QED BY <2>1, NextTypeInv, NextQueued, NextSnapshot, NextWritesCurrent,
               NextIds, NextHistory DEF IInv, TypeInv
  <1> QED BY InitIInv, <1>1, PTL DEF Spec

\* No lost update: no two SetVar calls ever write the same version of a
\* variable, and no id is used by two variables, deleted ones included.
THEOREM NoLostUpdateCorrect == Spec => []NoLostUpdate
  <1>1. IInv => NoLostUpdate
    BY DEF IInv, WritesUnique, NoLostUpdate, Writes
  <1> QED BY Invariance, <1>1, PTL

\* The history of a live variable is exactly versions 1 .. version and ends
\* with the value the row holds.
THEOREM HistoryCorrect == Spec => []HistoryComplete
  <1>1. IInv => HistoryComplete
    <2> SUFFICES ASSUME IInv, NEW k \in Keys, variables[k] # NoRow
                 PROVE  LET H == {h \in versions : h.id = variables[k].id}
                        IN  /\ {h.version : h \in H} = 1 .. variables[k].version
                            /\ \A h \in H : h.version = variables[k].version
                                              => h.value = variables[k].value
      BY DEF HistoryComplete
    <2> DEFINE H == {h \in versions : h.id = variables[k].id}
    <2>1. Shapes
      BY RowTypes DEF IInv, TypeInv
    <2>2. \A h \in versions : h.version \in Nat \ {0}
      BY <2>1 DEF Shapes, Writes
    <2>3. \A h \in H : h.version \in 1 .. variables[k].version
      BY <2>1, <2>2 DEF IInv, HistoryOK, Shapes
    <2>4. \A n \in 1 .. variables[k].version : \E h \in H : h.version = n
      BY DEF IInv, HistoryOK
    <2>5. \A h \in H : h.version = variables[k].version => h.value = variables[k].value
      BY DEF IInv, HistoryOK
    <2> HIDE DEF H
    <2>6. {h.version : h \in H} = 1 .. variables[k].version
      BY <2>3, <2>4
    <2> QED BY <2>5, <2>6 DEF H
  <1> QED BY Invariance, <1>1, PTL

\* What a call has acknowledged stays in the history while the variable lives.
THEOREM AckedCorrect == Spec => []AckedDurable
  <1>1. IInv => AckedDurable
    BY DEF IInv, HistoryOK, AckedDurable, Writes
  <1> QED BY Invariance, <1>1, PTL

\* A retriable error reaches the caller only after the last attempt, and a
\* duplicate key never on SQLite.
THEOREM FailsLateCorrect == Spec => []FailsLate
  <1>1. IInv => FailsLate
    BY DEF IInv, LocalsOK, FailsLate
  <1> QED BY Invariance, <1>1, PTL

-----------------------------------------------------------------------------
(* An attempt that is repeated has left nothing behind. *)

\* An attempt has no row before it writes one.
Unwritten == \A p \in Procs : pc[p] = "write" => row[p] = NoRow

LEMMA DirtyIsNew == ASSUME IInv, NEW p \in Procs, Dirty(p) PROVE Entry(row[p], p) \notin versions
  <1>0. Shapes
    BY RowTypes DEF IInv, TypeInv
  <1>1. /\ row[p] \in Rows /\ arg[p].key \in Keys
        /\ variables[arg[p].key] = seen[p] /\ row[p].version = seen[p].version + 1
    BY DEF IInv, LocalsOK, TypeOK, Args, WritesCurrent, PendingOK, Dirty
  <1>2. SUFFICES ASSUME NEW h \in versions, h.id = row[p].id, h.version = row[p].version PROVE FALSE
    BY DEF Entry
  <1>3. CASE Inserts(p)
    BY <1>2, <1>3 DEF IInv, FreshInserts, Writes
  <1>4. CASE ~Inserts(p)
    <2>1. h.id = variables[arg[p].key].id
      BY <1>1, <1>2, <1>4 DEF IInv, PendingOK
    <2>2. h.version <= seen[p].version
      BY <1>1, <2>1 DEF IInv, HistoryOK
    <2>3. seen[p].version \in Nat
      BY <1>0, <1>1 DEF Shapes
    <2> QED BY <1>1, <1>2, <2>2, <2>3
  <1> QED BY <1>3, <1>4

LEMMA NextRetries == IInv /\ Unwritten /\ RetriesUncommitted /\ [Next]_vars
                       => Unwritten' /\ RetriesUncommitted'
  <1> SUFFICES ASSUME IInv, Unwritten, RetriesUncommitted, [Next]_vars
               PROVE  Unwritten' /\ RetriesUncommitted'
    OBVIOUS
  <1> USE DEF Unwritten, RetriesUncommitted
  <1>t. TypeOK
    BY DEF IInv
  <1>1. ASSUME NEW p \in Procs, Read(p) PROVE Unwritten' /\ RetriesUncommitted'
    BY <1>1, <1>t DEF Read, TypeOK, db
  <1>2. ASSUME NEW p \in Procs, Write(p) PROVE Unwritten' /\ RetriesUncommitted'
    BY <1>2, <1>t DEF Write, TypeOK
  <1>3. ASSUME NEW p \in Procs, WriteConflicts(p) PROVE Unwritten' /\ RetriesUncommitted'
    <2>1. Entry(NoRow, p) \notin versions
      BY <1>t, VarStoreAssumption DEF TypeOK, Entry, Entries, NoRow
    <2> QED BY <1>3, <1>t, <2>1 DEF WriteConflicts, Ends, TypeOK
  <1>4. ASSUME NEW p \in Procs, Commit(p) PROVE Unwritten' /\ RetriesUncommitted'
    <2>1. /\ pc[p] = "commit" /\ pc'[p] = "return" /\ UNCHANGED row
          /\ \A q \in Procs \ {p} : pc'[q] = pc[q]
          /\ versions' = versions \cup {Entry(row[p], p)}
      BY <1>4, <1>t DEF Commit, AddHistory, Ends, Retriable, TypeOK
    <2>2. \A q \in Procs \ {p} : Entry(row[q], q) # Entry(row[p], p)
      BY DEF Entry
    <2> QED BY <2>1, <2>2 DEF Entry
  <1>5. ASSUME NEW p \in Procs, CommitConflicts(p) PROVE Unwritten' /\ RetriesUncommitted'
    <2>1. Entry(row[p], p) \notin versions
      BY <1>5, DirtyIsNew DEF CommitConflicts, Dirty
    <2> QED BY <1>5, <1>t, <2>1 DEF CommitConflicts, Ends, TypeOK, db
  <1>6. ASSUME NEW p \in Procs, Backoff(p) \/ Lock(p) \/ GiveUp(p)
        PROVE  Unwritten' /\ RetriesUncommitted'
    BY <1>6, <1>t DEF Backoff, Lock, GiveUp, TypeOK, db
  <1>7. ASSUME NEW S \in SUBSET Procs, Forget(S), UNCHANGED versions
        PROVE  Unwritten' /\ RetriesUncommitted'
    BY <1>7, <1>t DEF Forget, TypeOK
  <1>8. ASSUME NEW p \in Procs, Return(p) PROVE Unwritten' /\ RetriesUncommitted'
    BY <1>7, <1>8 DEF Return, db
  <1>9. ASSUME NEW S \in SUBSET Procs, Crash(S) PROVE Unwritten' /\ RetriesUncommitted'
    BY <1>7, <1>9 DEF Crash, db
  <1>10. ASSUME NEW p \in Procs, NEW k \in Keys, NEW v \in Values, SetVar(p, k, v)
         PROVE  Unwritten' /\ RetriesUncommitted'
    BY <1>10, <1>t DEF SetVar, TypeOK, db
  <1>11. ASSUME UNCHANGED <<pc, row>>, versions' \subseteq versions
         PROVE  Unwritten' /\ RetriesUncommitted'
    BY <1>11
  <1>12. ASSUME NEW k \in Keys, NEW c \in BOOLEAN, DeleteVar(k, c)
         PROVE  UNCHANGED <<pc, row>> /\ versions' \subseteq versions
    BY <1>12 DEF DeleteVar
  <1>13. OtherWrite \/ UNCHANGED vars => UNCHANGED <<pc, row>> /\ versions' = versions
    BY DEF OtherWrite, vars, db
  <1> QED BY <1>1, <1>2, <1>3, <1>4, <1>5, <1>6, <1>8, <1>9, <1>10, <1>11, <1>12, <1>13
          DEF Next, Step

\* An attempt that is followed by another one left nothing in the history.
THEOREM RetriesCorrect == Spec => []RetriesUncommitted
  <1>1. Init => Unwritten /\ RetriesUncommitted
    BY DEF Init, Unwritten, RetriesUncommitted
  <1> QED BY <1>1, NextRetries, Invariance, PTL DEF Spec

-----------------------------------------------------------------------------
(* The store implements the atomic store of VersionedStore. *)

LEMMA InitAbstract == Init => Abstract!Init
  BY DEF Init, Abstract!Init, NoRow, Abstract!NoRow

\* A step that leaves the tables alone is a stutter of the atomic store.
LEMMA StutterAbstract ==
  ASSUME UNCHANGED <<variables, versions>>
  PROVE  UNCHANGED Abstract!vars
  BY DEF Abstract!vars, Live

Strip(h) == [id |-> h.id, version |-> h.version, value |-> h.value]

LEMMA CommitAbstract ==
  ASSUME IInv, NEW p \in Procs, Commit(p)
  PROVE  Abstract!Next
  <1>0. PICK k \in Keys, v \in Values : arg[p].key = k /\ arg[p].value = v
    BY CommitFacts DEF IInv, LocalsOK, Commit, Args
  <1> DEFINE H == {Strip(h) : h \in {g \in versions : Live(g.id)}}
             e == Entry(row[p], p)
  <1>1. /\ row[p] \in Rows /\ variables[k] = seen[p]
        /\ variables' = [variables EXCEPT ![k] = row[p]]
        /\ versions' = versions \cup {e}
        /\ row[p].version = seen[p].version + 1
    BY <1>0, CommitFacts
  <1>2. /\ \A l \in Keys \ {k} : variables[l].id # row[p].id
        /\ ~Inserts(p) => row[p].id = variables[k].id
        /\ row[p].id \in Nat \ {0}
    BY <1>0, CommitIsNew
  <1>3. row[p].value = v /\ (Inserts(p) => row[p].id \in Ids)
    BY <1>0 DEF Commit, Dirty, IInv, LocalsOK
  <1>4. Strip(e) = row[p]
    BY <1>1 DEF Strip, Entry, Rows
  <1>5. e.id = row[p].id
    BY DEF Entry
  <1>6. variables'[k] = row[p] /\ \A l \in Keys \ {k} : variables'[l] = variables[l]
    BY <1>1 DEF IInv, TypeOK
  <1>7. \A h \in versions : h.id \in Nat \ {0}
    BY DEF IInv, TypeOK, Entries
  <1>8. \A h \in versions : Live(h.id)' <=> Live(h.id)
    <2>1. CASE Inserts(p)
      <3>1. variables[k].id = 0
        BY <1>1, <2>1, RowFacts DEF Inserts
      <3>2. \A h \in versions : h.id # row[p].id
        BY <2>1 DEF IInv, FreshInserts, Commit, Dirty, Writes
      <3> QED BY <1>6, <1>7, <3>1, <3>2 DEF Live
    <2>2. CASE ~Inserts(p)
      BY <1>2, <1>6, <2>2 DEF Live
    <2> QED BY <2>1, <2>2
  <1>9. \E l \in Keys : variables'[l].id = row[p].id
    BY <1>1, <1>6
  <1>10. H' = H \cup {row[p]}
    <2>1. \A h \in versions' : h = e \/ h \in versions
      BY <1>1
    <2>2. \E l \in Keys : variables'[l].id = e.id
      BY <1>5, <1>9
    <2>3. e \in versions' /\ versions \subseteq versions'
      BY <1>1
    <2>4. ASSUME NEW x \in H' PROVE x \in H \cup {row[p]}
      <3>1. PICK h \in versions' : Live(h.id)' /\ x = Strip(h)
        OBVIOUS
      <3>2. CASE h = e
        BY <1>4, <3>1, <3>2
      <3>3. CASE h \in versions
        BY <1>8, <3>1, <3>3
      <3> QED BY <2>1, <3>2, <3>3
    <2>5. ASSUME NEW x \in H \cup {row[p]} PROVE x \in H'
      <3>1. CASE x = row[p]
        BY <1>4, <2>2, <2>3, <3>1 DEF Live
      <3>2. CASE x \in H
        <4>1. PICK h \in versions : Live(h.id) /\ x = Strip(h)
          BY <3>2
        <4> QED BY <1>8, <2>3, <4>1
      <3> QED BY <3>1, <3>2
    <2> QED BY <2>4, <2>5
  <1>12. row[p] = [id |-> row[p].id, version |-> seen[p].version + 1, value |-> v]
    BY <1>1, <1>3 DEF Rows
  <1>13. CASE Inserts(p)
    <2>1. row[p] = [id |-> row[p].id, version |-> 1, value |-> v]
      BY <1>12, <1>13, RowFacts DEF Inserts
    <2>2. ~Abstract!Live(row[p].id) /\ ~Abstract!Present(k)
      BY <1>1, <1>2, <1>13, RowFacts DEF Inserts, Abstract!Live, Abstract!Present
    <2>3. /\ variables' = [variables EXCEPT ![k] = [id |-> row[p].id, version |-> 1, value |-> v]]
          /\ H' = H \cup {[id |-> row[p].id, version |-> 1, value |-> v]}
      BY <1>1, <1>10, <2>1
    <2>4. Abstract!Create(k, v)
      BY <1>3, <1>13, <2>2, <2>3 DEF Abstract!Create, Abstract!Put, Strip
    <2> QED BY <2>4 DEF Abstract!Next
  <1>14. CASE ~Inserts(p)
    <2>1. Abstract!Present(k)
      BY <1>2, <1>14 DEF Abstract!Present
    <2>2. row[p] = [id |-> variables[k].id, version |-> variables[k].version + 1, value |-> v]
      BY <1>1, <1>2, <1>12, <1>14
    <2> DEFINE r == [id |-> variables[k].id, version |-> variables[k].version + 1,
                     value |-> v]
    <2>3. variables' = [variables EXCEPT ![k] = r] /\ H' = H \cup {r}
      BY <1>1, <1>10, <2>2
    <2>4. Abstract!Update(k, v)
      BY <2>1, <2>3 DEF Abstract!Update, Abstract!Put, Strip
    <2> QED BY <2>4 DEF Abstract!Next
  <1> QED BY <1>13, <1>14

LEMMA DeleteAbstract ==
  ASSUME IInv, NEW k \in Keys, NEW c \in BOOLEAN, DeleteVar(k, c)
  PROVE  Abstract!Next
  <1> DEFINE H == {Strip(h) : h \in {g \in versions : Live(g.id)}}
             i == variables[k].id
  <1>1. /\ variables' = [variables EXCEPT ![k] = NoRow] /\ variables[k] # NoRow
        /\ versions' = versions \/ versions' = {h \in versions : h.id # i}
    BY DEF DeleteVar
  <1>2. variables'[k] = NoRow /\ \A l \in Keys \ {k} : variables'[l] = variables[l]
    BY <1>1 DEF IInv, TypeOK
  <1>3. i # 0
    BY <1>1, RowTypes DEF IInv, TypeInv, Shapes
  <1>4. \A h \in versions : h.id \in Nat \ {0}
    BY DEF IInv, TypeOK, Entries
  <1>5. \A h \in versions : Live(h.id)' <=> Live(h.id) /\ h.id # i
    BY <1>2, <1>3, <1>4, RowFacts DEF IInv, IdsOK, Live
  <1>6. H' = {h \in H : h.id # i}
    BY <1>1, <1>5 DEF Strip
  <1>7. Abstract!Delete(k)
    BY <1>1, <1>3, <1>6 DEF Abstract!Delete, Abstract!Present, NoRow, Abstract!NoRow, Strip
  <1> QED BY <1>7 DEF Abstract!Next

\* Every behaviour of SetVar and DeleteVar, on either backend and with any
\* crashes, is one of the atomic store: a call takes effect at its COMMIT.
THEOREM Refinement == Spec => Refines
  <1>1. IInv /\ [Next]_vars => [Abstract!Next]_(Abstract!vars)
    <2> SUFFICES ASSUME IInv, [Next]_vars
                 PROVE  Abstract!Next \/ UNCHANGED Abstract!vars
      OBVIOUS
    <2>1. ASSUME NEW p \in Procs, Write(p) PROVE UNCHANGED <<variables, versions>>
      BY <2>1 DEF Write
    <2>2. ASSUME Quiet PROVE UNCHANGED <<variables, versions>>
      BY <2>2 DEF Quiet
    <2> QED BY <2>1, <2>2, QuietSteps, StutterAbstract, CommitAbstract, DeleteAbstract
            DEF IInv, TypeInv
  <1> QED BY InitAbstract, Invariance, <1>1, PTL DEF Spec, Refines, Abstract!Spec
=============================================================================
