------------------------------- MODULE VarApi -------------------------------
(***************************************************************************)
(* The handlers that change the variables of one environment, of the REST  *)
(* API and of the dashboard (web/internal/api/server.go), as interleaved   *)
(* steps over an atomic store (VarStore shows that SetVar and DeleteVar    *)
(* are): a lookup by id, the write, the audit entry in the database, the   *)
(* entry in the log, the answer.                                           *)
(***************************************************************************)
EXTENDS Naturals, Sequences, FiniteSets

CONSTANTS Reqs,   \* requests
          Keys,   \* variable keys
          Files,  \* .env files a dashboard user imports: sequences of keys
          MaxId   \* bound on the ids the model gives out

ASSUME VarApiAssumption == MaxId \in Nat /\ Files \subseteq Seq(Keys)

VARIABLES row,     \* variables: the id of the key's row, 0 if there is none
          owner,   \* the key each id was given to
          pc,      \* what each request does next
          op,      \* its kind, its id and the keys still to write
          result,  \* id of the row its last write touched
          count,   \* writes that succeeded
          wrote,   \* the ids its writes set or deleted, in order
          status,  \* its HTTP status, 0 until it is answered
          trail,   \* activity_logs
          stream,  \* audit=true entries of the structured log
          warned   \* requests with an audit_write_failed entry in the log

store == <<row, owner, wrote>>
audits == <<trail, stream, warned>>
vars == <<row, owner, pc, op, result, count, wrote, status, trail, stream, warned>>

Ids    == 1 .. MaxId
ById   == {"update", "delete"}
Sets   == {"set", "update", "dashSet", "import"}
Dash   == {"dashSet", "dashDelete", "import"}
NoOp   == [kind |-> "none", id |-> 0, keys |-> <<>>]
Live   == {row[k] : k \in Keys} \ {0}

Requests ==
  [kind : {"set", "dashSet", "dashDelete"}, id : {0}, keys : {<<k>> : k \in Keys}]
    \cup [kind : ById, id : Ids, keys : {<<>>}]
    \cup [kind : {"import"}, id : {0}, keys : Files]

Init ==
  /\ \E n \in 0 .. Cardinality(Keys) :
       owner \in {s \in [1 .. n -> Keys] : \A i, j \in 1 .. n : s[i] = s[j] => i = j}
  /\ row = [k \in Keys |-> IF \E i \in DOMAIN owner : owner[i] = k
                           THEN CHOOSE i \in DOMAIN owner : owner[i] = k ELSE 0]
  /\ pc = [r \in Reqs |-> "idle"]
  /\ op = [r \in Reqs |-> NoOp]
  /\ result = [r \in Reqs |-> 0] /\ count = [r \in Reqs |-> 0]
  /\ status = [r \in Reqs |-> 0]
  /\ wrote = [r \in Reqs |-> <<>>]
  /\ trail = {} /\ stream = {} /\ warned = {}

Answer(r, code) ==
  /\ pc' = [pc EXCEPT ![r] = "done"]
  /\ status' = [status EXCEPT ![r] = code]

\* The dashboard redirects whatever happened.
Succeeded(r) == CASE op[r].kind \in Dash   -> 302
                  [] op[r].kind = "delete" -> 204
                  [] OTHER                 -> 200
Failed(r)    == IF op[r].kind \in Dash THEN 302 ELSE 500

Receive(r, o) ==
  /\ pc[r] = "idle"
  /\ op' = [op EXCEPT ![r] = o]
  /\ pc' = [pc EXCEPT ![r] = IF o.kind \in ById THEN "lookup"
                               ELSE IF o.keys = <<>> THEN "audit" ELSE "write"]
  /\ UNCHANGED <<store, audits, result, count, status>>

\* SELECT env_id, key FROM variables WHERE id = ?
Lookup(r) ==
  /\ pc[r] = "lookup"
  /\ op[r].id \in Live
  /\ op' = [op EXCEPT ![r].keys = <<owner[op[r].id]>>]
  /\ pc' = [pc EXCEPT ![r] = "write"]
  /\ UNCHANGED <<store, audits, result, count, status>>

Missing(r) ==
  /\ pc[r] = "lookup"
  /\ op[r].id \notin Live
  /\ Answer(r, 404)
  /\ UNCHANGED <<store, audits, op, result, count>>

\* The lookup itself fails: handleDeleteVarByID answers every error with 404.
LookupFails(r) ==
  /\ pc[r] = "lookup"
  /\ Answer(r, IF op[r].kind = "delete" THEN 404 ELSE 500)
  /\ UNCHANGED <<store, audits, op, result, count>>

\* Mutants: a sequence that skips, a table without AUTOINCREMENT.
SkipId  == Len(owner) + 2
RowidId == IF Live = {} THEN 1 ELSE 1 + CHOOSE i \in Live : \A j \in Live : j <= i
NewId   == Len(owner) + 1

\* SetVar keeps the id of a row; DeleteVar does not ask whether there was one.
Apply(r) ==
  LET k    == Head(op[r].keys)
      sets == op[r].kind \in Sets
      id   == IF sets /\ row[k] = 0 THEN NewId ELSE row[k]
  IN  /\ id \in 0 .. MaxId
      /\ row' = [row EXCEPT ![k] = IF sets THEN id ELSE 0]
      /\ owner' = IF id > Len(owner) THEN Append(owner, k) ELSE owner
      /\ wrote' = IF id = 0 THEN wrote ELSE [wrote EXCEPT ![r] = Append(@, id)]
      /\ result' = [result EXCEPT ![r] = id]

\* The next line of an import, or the audit entry.
Proceed(r) ==
  /\ op' = [op EXCEPT ![r].keys = Tail(@)]
  /\ pc' = [pc EXCEPT ![r] = IF Tail(op[r].keys) = <<>> THEN "audit" ELSE "write"]
  /\ UNCHANGED status

Write(r) ==
  /\ pc[r] = "write"
  /\ Apply(r)
  /\ count' = [count EXCEPT ![r] = @ + 1]
  /\ Proceed(r)
  /\ UNCHANGED audits

\* An error, which on Postgres may hide a commit whose answer was lost.  The
\* import goes on with the next line.
\* Mutant: and counts every line.
CountLine(r)   == count' = [count EXCEPT ![r] = @ + 1]
CountNothing(r) == UNCHANGED count

WriteFails(r) ==
  /\ pc[r] = "write"
  /\ Apply(r) \/ UNCHANGED <<store, result>>
  /\ CountNothing(r)
  /\ IF op[r].kind = "import" THEN Proceed(r)
     ELSE Answer(r, Failed(r)) /\ UNCHANGED op
  /\ UNCHANGED audits

\* handleSetVar answers 409 when all attempts lost the race to insert the key.
Duplicate(r) ==
  /\ pc[r] = "write" /\ op[r].kind = "set"
  /\ Answer(r, 409)
  /\ UNCHANGED <<store, audits, op, result, count>>

\* What audit is called with.
Entry(r) == [req  |-> r, action |-> op[r].kind,
             id   |-> IF op[r].kind \in {"set", "dashSet"} THEN result[r] ELSE op[r].id,
             vars |-> count[r]]

Audit(r) ==
  /\ pc[r] = "audit"
  /\ trail' = trail \cup {Entry(r)}
  /\ pc' = [pc EXCEPT ![r] = "stream"]
  /\ UNCHANGED <<store, op, result, count, status, stream, warned>>

\* The client has gone and the context is cancelled, or the database is busy.
\* Mutants: the entry is streamed nevertheless; nothing is logged.
GoesOn(r)      == pc' = [pc EXCEPT ![r] = "stream"] /\ warned' = warned \cup {r}
Silent(r)      == pc' = [pc EXCEPT ![r] = "reply"] /\ UNCHANGED warned
WarnsAndStops(r) == pc' = [pc EXCEPT ![r] = "reply"] /\ warned' = warned \cup {r}

AuditFails(r) ==
  /\ pc[r] = "audit"
  /\ WarnsAndStops(r)
  /\ UNCHANGED <<store, op, result, count, status, trail, stream>>

Stream(r) ==
  /\ pc[r] = "stream"
  /\ stream' = stream \cup {Entry(r)}
  /\ pc' = [pc EXCEPT ![r] = "reply"]
  /\ UNCHANGED <<store, op, result, count, status, trail, warned>>

Reply(r) ==
  /\ pc[r] = "reply"
  /\ Answer(r, Succeeded(r))
  /\ UNCHANGED <<store, audits, op, result, count>>

\* The process ends; what it had begun is never answered.
Crash ==
  /\ \E r \in Reqs : pc[r] \notin {"idle", "done", "dead"}
  /\ pc' = [r \in Reqs |-> IF pc[r] \in {"idle", "done"} THEN pc[r] ELSE "dead"]
  /\ UNCHANGED <<store, audits, op, result, count, status>>

Step(r) ==
  \/ \E o \in Requests : Receive(r, o)
  \/ Lookup(r) \/ Missing(r) \/ LookupFails(r)
  \/ Write(r) \/ WriteFails(r) \/ Duplicate(r)
  \/ Audit(r) \/ AuditFails(r) \/ Stream(r) \/ Reply(r)

Next == Crash \/ \E r \in Reqs : Step(r)

Spec == Init /\ [][Next]_vars

-----------------------------------------------------------------------------
(* Properties *)

TypeOK ==
  /\ owner \in Seq(Keys)
  /\ row \in [Keys -> 0 .. Len(owner)]
  /\ pc \in [Reqs -> {"idle", "lookup", "write", "audit", "stream", "reply",
                      "done", "dead"}]
  /\ \A r \in Reqs : op[r] = NoOp \/ /\ op[r].id \in 0 .. MaxId
                                     /\ op[r].keys \in Seq(Keys)
  /\ result \in [Reqs -> 0 .. Len(owner)] /\ count \in [Reqs -> Nat]
  /\ status \in [Reqs -> {0, 200, 204, 302, 404, 409, 500}]
  /\ warned \subseteq Reqs

\* A variable whose deletion by id was acknowledged never exists again, even
\* when its key was deleted and recreated between the lookup and the delete.
DeletedStaysGone ==
  \A r \in Reqs : status[r] = 204 => op[r].id \notin Live

\* What was streamed was stored first.
StreamedIsStored == stream \subseteq trail

\* The trail claims no write that did not happen: a set names the row it
\* wrote, an import counts no more lines than it wrote.
SetsAreTrue ==
  \A e \in trail :
    /\ e.action \in {"set", "dashSet"} => \E n \in DOMAIN wrote[e.req] : wrote[e.req][n] = e.id
    /\ e.action = "import" => e.vars <= Len(wrote[e.req])

\* A write the API acknowledged is in the trail, or the log says it is not.
AuditedOrWarned ==
  \A r \in Reqs : status[r] \in {200, 204} =>
    r \in warned \/ \E e \in trail : e.req = r

\* A delete by id deletes that variable and no other one.
DeletesOnlyItsId ==
  \A r \in Reqs : op[r].kind = "delete" =>
    \A n \in DOMAIN wrote[r] : wrote[r][n] = op[r].id

-----------------------------------------------------------------------------
(* What the documentation says and TLC refutes: see README.md.  No run      *)
(* checks these.                                                           *)

\* USER_GUIDE.md, section 15: every mutation is stored in the trail.
AuditedEach ==
  \A r \in Reqs : status[r] \in {200, 204} =>
    \E e \in trail : e.req = r

\* README.md, line 89: a delete of what is missing is no success.  Two
\* deletions of one variable must not both be acknowledged.
TrueDelete ==
  \A r, s \in Reqs :
    status[r] = 204 /\ status[s] = 204 /\ op[r].id = op[s].id => r = s

\* USER_GUIDE.md, section 7: 404 stands for what is missing.
MissingIsGone ==
  [][\A r \in Reqs : status[r] = 0 /\ status'[r] = 404 => op[r].id \notin Live]_vars
=============================================================================
