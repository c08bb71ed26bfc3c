---------------------------- MODULE VarStoreInv ----------------------------
(***************************************************************************)
(* The inductive invariant behind the safety properties of VarStore.       *)
(***************************************************************************)
EXTENDS VarStore

Committed(p) == pc[p] = "return" /\ err[p] = "none"

\* Everything a call has written, as seen by the tables or by a caller.
Writes == versions \cup replies \cup {Entry(row[p], p) : p \in {q \in Procs : Committed(q)}}

\* What the program counter says of a call's other locals.
LocalsOK ==
  \A p \in Procs :
    /\ pc[p] # "idle" => arg[p] \in Args
    /\ pc[p] # "return" => attempt[p] < MaxAttempts
    /\ pc[p] = "backoff" => err[p] \in {"busy", "duplicate"}
    /\ Dirty(p) \/ Committed(p) => row[p] \in Rows
    /\ Dirty(p) => row[p].value = arg[p].value
    /\ Dirty(p) /\ Inserts(p) => row[p].id \in Ids
    /\ err[p] = "duplicate" => ~Sqlite
    /\ pc[p] = "return" /\ err[p] \in {"busy", "duplicate"} => attempt[p] = MaxAttempts

\* SQLite: a snapshot nobody has overtaken shows the committed row.
SnapshotCurrent ==
  Sqlite => \A p \in Procs :
    pc[p] = "write" /\ ~stale[p] => variables[arg[p].key] = seen[p]

\* An uncommitted row continues the row its transaction has read.
PendingOK ==
  \A p \in Procs : Dirty(p) =>
    /\ row[p].version = seen[p].version + 1
    /\ ~Inserts(p) => row[p].id = seen[p].id

\* The id of an uncommitted insert belongs to no other row, past or present.
FreshInserts ==
  \A p \in Procs : Dirty(p) /\ Inserts(p) =>
    /\ IF Sqlite THEN row[p].id = nextId ELSE row[p].id < nextId
    /\ \A k \in Keys : variables[k].id # row[p].id
    /\ \A h \in Writes : h.id # row[p].id
    /\ \A q \in Procs \ {p} : Dirty(q) => row[q].id # row[p].id

IdsOK ==
  /\ \A k \in Keys : variables[k].id < nextId
  /\ \A k, l \in Keys : variables[k].id = variables[l].id /\ k # l => variables[k].id = 0
  /\ \A h \in Writes : h.id < nextId

\* Of a live variable, every acknowledged write is in the history, and the
\* history goes up to the row's version without a gap.
HistoryOK ==
  /\ \A h \in Writes : Live(h.id) => h \in versions
  /\ \A k \in Keys, h \in versions : h.id = variables[k].id =>
       /\ h.version <= variables[k].version
       /\ h.version = variables[k].version => h.value = variables[k].value
  /\ \A k \in Keys : \A n \in 1 .. variables[k].version :
       \E h \in versions : h.id = variables[k].id /\ h.version = n

WritesUnique ==
  \A g, h \in Writes : g.id = h.id /\ g.version = h.version => g = h

IInv == /\ TypeOK /\ LocalsOK /\ Queued
        /\ SnapshotCurrent /\ WritesCurrent /\ PendingOK
        /\ FreshInserts /\ IdsOK /\ HistoryOK /\ WritesUnique
=============================================================================
