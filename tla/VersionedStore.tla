--------------------------- MODULE VersionedStore ---------------------------
(***************************************************************************)
(* What the variables table promises to its callers: a variable is created *)
(* under a fresh id at version 1, every later write adds one to its        *)
(* version and one entry to its history, and a delete removes the variable *)
(* with its history.  Each operation happens at one instant.               *)
(***************************************************************************)
EXTENDS Naturals

CONSTANTS Keys,     \* (environment, key) pairs: the UNIQUE(env_id, key) domain
          Values,   \* variable values
          Ids,      \* primary keys of the variables table
          NoValue   \* the value of a row that is not there

VARIABLES table,    \* [Keys -> row], NoRow where the key has no row
          history   \* the variable_versions entries of the live rows

NoRow == [id |-> 0, version |-> 0, value |-> NoValue]
Rows  == [id : Ids, version : Nat \ {0}, value : Values]

Present(k) == table[k].id # 0
Live(i)    == \E k \in Keys : table[k].id = i

TypeOK == /\ table \in [Keys -> Rows \cup {NoRow}]
          /\ history \subseteq Rows

Init == /\ table = [k \in Keys |-> NoRow]
        /\ history = {}

Put(k, row) == /\ table' = [table EXCEPT ![k] = row]
               /\ history' = history \cup {row}

Create(k, v) == /\ ~Present(k)
                /\ \E i \in Ids : /\ ~Live(i)
                                  /\ Put(k, [id |-> i, version |-> 1, value |-> v])

Update(k, v) == /\ Present(k)
                /\ Put(k, [id      |-> table[k].id,
                           version |-> table[k].version + 1,
                           value   |-> v])

Delete(k) == /\ Present(k)
             /\ table' = [table EXCEPT ![k] = NoRow]
             /\ history' = {h \in history : h.id # table[k].id}

Next == \E k \in Keys : \/ Delete(k)
                        \/ \E v \in Values : Create(k, v) \/ Update(k, v)

vars == <<table, history>>

Spec == Init /\ [][Next]_vars
=============================================================================
