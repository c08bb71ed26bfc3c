---------------------------- MODULE VarApiProofs ----------------------------
(* Proofs about VarApi, for any number of requests, keys, files and ids.   *)
EXTENDS VarApi, SequenceTheorems, TLAPS

Ops == [kind : {"none", "set", "update", "delete", "dashSet", "dashDelete", "import"},
        id : 0 .. MaxId, keys : Seq(Keys)]

Steps == {"idle", "lookup", "write", "audit", "stream", "reply", "done", "dead"}

\* TypeOK, with the shape of what it leaves open.
Shape ==
  /\ owner \in Seq(Keys)
  /\ row \in [Keys -> 0 .. Len(owner)]
  /\ pc \in [Reqs -> Steps]
  /\ op \in [Reqs -> Ops]
  /\ \A r \in Reqs : pc[r] = "write" => op[r].keys # <<>>
  /\ result \in [Reqs -> 0 .. Len(owner)] /\ count \in [Reqs -> Nat]
  /\ wrote \in [Reqs -> Seq(Ids)]
  /\ status \in [Reqs -> {0, 200, 204, 302, 404, 409, 500}]
  /\ warned \subseteq Reqs /\ \A e \in trail : e.req \in Reqs /\ e.vars \in Nat

\* An id names one key for ever: a row that lives is its key's.
OwnersOK == \A k \in Keys : row[k] # 0 => owner[row[k]] = k

LEMMA ShapeIsTypeOK == Shape => TypeOK
  BY DEF Shape, TypeOK, Ops, Steps

\* What a write does to the table, whoever makes it.
LEMMA ApplyOK ==
  ASSUME Shape, OwnersOK, NEW r \in Reqs, pc[r] = "write", Apply(r)
  PROVE  /\ owner' \in Seq(Keys) /\ Len(owner) <= Len(owner')
         /\ \A i \in 1 .. Len(owner) : owner'[i] = owner[i]
         /\ row' \in [Keys -> 0 .. Len(owner')]
         /\ \A k \in Keys : row'[k] # 0 => owner'[row'[k]] = k
         /\ \A k \in Keys : row'[k] \in {0, row[k], Len(owner) + 1}
         /\ result' \in [Reqs -> 0 .. Len(owner')]
         /\ wrote' \in [Reqs -> Seq(Ids)]
         /\ op[r].kind \in Sets => /\ result'[r] # 0
                                   /\ wrote'[r] = Append(wrote[r], result'[r])
         /\ op[r].kind \notin Sets => row'[Head(op[r].keys)] = 0
         /\ wrote'[r] = wrote[r] \/ \E i \in Ids : wrote'[r] = Append(wrote[r], i)
         /\ \A s \in Reqs \ {r} : wrote'[s] = wrote[s] /\ result'[s] = result[s]
  <1> USE VarApiAssumption
  <1> DEFINE k  == Head(op[r].keys)
             id == IF op[r].kind \in Sets /\ row[k] = 0 THEN Len(owner) + 1 ELSE row[k]
  <1>1. k \in Keys
    BY HeadTailProperties DEF Shape, Ops
  <1>2. row[k] \in 0 .. Len(owner) /\ Len(owner) \in Nat
    BY <1>1 DEF Shape
  <1>3. /\ id \in 0 .. MaxId
        /\ row' = [row EXCEPT ![k] = IF op[r].kind \in Sets THEN id ELSE 0]
        /\ owner' = IF id > Len(owner) THEN Append(owner, k) ELSE owner
        /\ wrote' = IF id = 0 THEN wrote ELSE [wrote EXCEPT ![r] = Append(@, id)]
        /\ result' = [result EXCEPT ![r] = id]
    BY DEF Apply, NewId
  <1> HIDE DEF k, id
  <1>4. \/ id = Len(owner) + 1 /\ op[r].kind \in Sets /\ row[k] = 0
        \/ id = row[k] /\ (op[r].kind \in Sets => id # 0)
    BY <1>2 DEF id
  <1>5. /\ owner' \in Seq(Keys) /\ Len(owner) <= Len(owner')
        /\ \A i \in 1 .. Len(owner) : owner'[i] = owner[i]
        /\ id <= Len(owner')
        /\ id = Len(owner) + 1 => owner'[id] = k
    <2>1. CASE id = Len(owner) + 1
      BY <1>1, <1>2, <1>3, <2>1, AppendProperties DEF Shape
    <2>2. CASE id # Len(owner) + 1
      BY <1>2, <1>3, <1>4, <2>2 DEF Shape
    <2> QED BY <2>1, <2>2
  <1>6. row' \in [Keys -> 0 .. Len(owner')]
    BY <1>1, <1>2, <1>3, <1>5 DEF Shape
  <1>7. \A j \in Keys : row'[j] # 0 => owner'[row'[j]] = j
    <2> SUFFICES ASSUME NEW j \in Keys, row'[j] # 0 PROVE owner'[row'[j]] = j
      OBVIOUS
    <2>1. CASE j = k /\ id = Len(owner) + 1
      BY <1>1, <1>3, <1>5, <2>1 DEF Shape
    <2>2. CASE j = k /\ id # Len(owner) + 1
      BY <1>1, <1>2, <1>3, <1>4, <1>5, <2>2 DEF Shape, OwnersOK
    <2>3. CASE j # k
      <3>1. row'[j] = row[j] /\ row[j] \in 1 .. Len(owner)
        BY <1>2, <1>3, <2>3 DEF Shape
      <3> QED BY <1>5, <3>1 DEF OwnersOK
    <2> QED BY <2>1, <2>2, <2>3
  <1>8. \A j \in Keys : row'[j] \in {0, row[j], Len(owner) + 1}
    BY <1>1, <1>2, <1>3, <1>4 DEF Shape
  <1>9. result' \in [Reqs -> 0 .. Len(owner')]
    BY <1>2, <1>3, <1>5 DEF Shape
  <1>10. id # 0 => id \in Ids /\ wrote[r] \in Seq(Ids)
    BY <1>3 DEF Ids, Shape
  <1>11. wrote' \in [Reqs -> Seq(Ids)]
    BY <1>3, <1>10, AppendProperties DEF Shape
  <1>12. op[r].kind \in Sets => result'[r] # 0 /\ wrote'[r] = Append(wrote[r], result'[r])
    BY <1>2, <1>3, <1>4 DEF Shape
  <1>13. op[r].kind \notin Sets => row'[k] = 0
    BY <1>1, <1>3 DEF Shape
  <1>14. wrote'[r] = wrote[r] \/ \E i \in Ids : wrote'[r] = Append(wrote[r], i)
    BY <1>3, <1>10 DEF Shape
  <1>15. \A s \in Reqs \ {r} : wrote'[s] = wrote[s] /\ result'[s] = result[s]
    BY <1>3 DEF Shape
  <1> QED BY <1>5, <1>6, <1>7, <1>8, <1>9, <1>11, <1>12, <1>13, <1>14, <1>15 DEF k

-----------------------------------------------------------------------------
(* The inductive invariant. *)

\* A deletion works on the key of its id until the id is gone.
Gone ==
  \A r \in Reqs :
    /\ op[r].kind = "delete" /\ pc[r] = "write" =>
         op[r].id \in 1 .. Len(owner) /\ op[r].keys = <<owner[op[r].id]>>
    /\ op[r].kind = "delete" /\ pc[r] \in {"audit", "stream", "reply"} =>
         op[r].id \in 1 .. Len(owner) /\ op[r].id \notin Live
    /\ status[r] = 204 => op[r].id \in 1 .. Len(owner) /\ op[r].id \notin Live

\* What a request is going to say in the trail.
Counted ==
  \A r \in Reqs :
    /\ pc[r] = "idle" => count[r] = 0
    /\ op[r].kind = "import" => count[r] <= Len(wrote[r])
    /\ op[r].kind \in {"set", "dashSet"} /\ pc[r] = "audit" =>
         \E n \in DOMAIN wrote[r] : wrote[r][n] = result[r]

\* An entry is streamed after it was stored; a request is answered with
\* success after one or the other of its reports.
Reported ==
  \A r \in Reqs :
    /\ pc[r] = "stream" => Entry(r) \in trail
    /\ pc[r] = "reply" \/ status[r] \in {200, 204} =>
         r \in warned \/ \E e \in trail : e.req = r

ApiInv == /\ Shape /\ OwnersOK /\ Gone /\ Counted /\ Reported
          /\ StreamedIsStored /\ SetsAreTrue
          /\ \A r \in Reqs : status[r] # 0 => pc[r] = "done"

LEMMA InitInv == Init => ApiInv
  <1> SUFFICES ASSUME Init PROVE ApiInv
    OBVIOUS
  <1> USE VarApiAssumption
  <1>1. PICK n \in 0 .. Cardinality(Keys) :
          owner \in {s \in [1 .. n -> Keys] : \A i, j \in 1 .. n : s[i] = s[j] => i = j}
    BY DEF Init
  <1>2. n \in Nat /\ owner \in [1 .. n -> Keys]
    BY <1>1
  <1>3. owner \in Seq(Keys) /\ Len(owner) = n /\ DOMAIN owner = 1 .. n
    BY <1>2
  <1>4. ASSUME NEW k \in Keys
        PROVE  row[k] \in 0 .. n /\ (row[k] # 0 => owner[row[k]] = k)
    <2>1. row[k] = IF \E i \in DOMAIN owner : owner[i] = k
                   THEN CHOOSE i \in DOMAIN owner : owner[i] = k ELSE 0
      BY DEF Init
    <2>2. CASE \E i \in DOMAIN owner : owner[i] = k
      BY <1>3, <2>1, <2>2
    <2>3. CASE ~ \E i \in DOMAIN owner : owner[i] = k
      BY <1>2, <2>1, <2>3
    <2> QED BY <2>2, <2>3
  <1>5. row \in [Keys -> 0 .. n]
    BY <1>4 DEF Init
  <1>6. NoOp \in Ops
    BY EmptySeq DEF NoOp, Ops
  <1>7. <<>> \in Seq(Ids)
    BY EmptySeq
  <1>8. Shape /\ OwnersOK
    BY <1>2, <1>3, <1>4, <1>5, <1>6, <1>7 DEF Init, Shape, OwnersOK, Steps
  <1> QED BY <1>8 DEF Init, ApiInv, NoOp, Gone, Counted, Reported, StreamedIsStored, SetsAreTrue

-----------------------------------------------------------------------------
(* The steps that leave the tables alone. *)

\* A request is a record with these fields.
LEMMA OpInOps ==
  \A kind \in {"none", "set", "update", "delete", "dashSet", "dashDelete", "import"},
     id \in 0 .. MaxId, keys \in Seq(Keys) :
       [kind |-> kind, id |-> id, keys |-> keys] \in Ops
  BY DEF Ops

LEMMA LookupStep ==
  ASSUME ApiInv, NEW r \in Reqs,
         (\E o \in Requests : Receive(r, o)) \/ Lookup(r) \/ Missing(r) \/ LookupFails(r) \/ Duplicate(r)
  PROVE  ApiInv'
  <1> USE VarApiAssumption DEF ApiInv, store, audits
  <1>1. ASSUME NEW o \in Requests, Receive(r, o) PROVE ApiInv'
    <2>1. o \in Ops /\ (o.kind \in {"set", "dashSet"} => o.keys # <<>>)
      <3>1. CASE o \in [kind : {"set", "dashSet", "dashDelete"}, id : {0},
                        keys : {<<k>> : k \in Keys}]
        <4>1. PICK k \in Keys : o.keys = <<k>>
          BY <3>1
        <4>2. <<k>> \in Seq(Keys) /\ <<k>> # <<>>
          OBVIOUS
        <4>3. o.kind \in {"set", "dashSet", "dashDelete"} /\ o.id = 0
          BY <3>1
        <4>4. o = [kind |-> o.kind, id |-> o.id, keys |-> o.keys]
          BY <3>1
        <4>5. o.id \in 0 .. MaxId /\ o.keys \in Seq(Keys)
          <5> HIDE DEF ApiInv
          <5> QED BY <4>1, <4>2, <4>3
        <4>6. o.kind \in {"none", "set", "update", "delete", "dashSet", "dashDelete", "import"}
          BY <4>3
        <4>7. o \in Ops
          BY <4>4, <4>5, <4>6, OpInOps
        <4> QED BY <4>1, <4>2, <4>7
      <3>2. CASE o \in [kind : ById, id : Ids, keys : {<<>>}]
        <4>1. <<>> \in Seq(Keys)
          BY EmptySeq
        <4>2. o.kind \in {"update", "delete"} /\ o.id \in 1 .. MaxId /\ o.keys = <<>>
          BY <3>2 DEF ById, Ids
        <4>3. o = [kind |-> o.kind, id |-> o.id, keys |-> o.keys]
          BY <3>2
        <4>4. o.id \in 0 .. MaxId
          BY <4>2
        <4>5. o.kind \in {"none", "set", "update", "delete", "dashSet", "dashDelete", "import"}
          BY <4>2
        <4> QED BY <4>1, <4>2, <4>3, <4>4, <4>5, OpInOps
      <3>3. CASE o \in [kind : {"import"}, id : {0}, keys : Files]
        BY <3>3 DEF Ops
      <3> QED BY <3>1, <3>2, <3>3 DEF Requests
    <2>2. Shape' /\ OwnersOK'
      BY <1>1, <2>1 DEF Receive, Shape, OwnersOK, Steps
    <2>3. Gone'
      <3>1. /\ status' = status /\ status[r] = 0 /\ UNCHANGED <<row, owner>>
            /\ o.kind = "delete" => pc'[r] = "lookup"
            /\ op'[r] = o
        <4>1. pc[r] = "idle" /\ UNCHANGED <<row, owner, status>>
          BY <1>1 DEF Receive
        <4>2. status[r] = 0
          BY <4>1
        <4>3. op' = [op EXCEPT ![r] = o] /\ op \in [Reqs -> Ops]
          BY <1>1 DEF Receive, Shape
        <4>4. o.kind = "delete" => pc'[r] = "lookup"
          <5>1. SUFFICES ASSUME o.kind \in ById PROVE pc'[r] = "lookup"
            BY DEF ById
          <5>2. pc' = [pc EXCEPT ![r] = "lookup"] /\ pc \in [Reqs -> Steps]
            BY <1>1, <5>1 DEF Receive, Shape
          <5> QED BY <5>2
        <4> QED BY <4>1, <4>2, <4>3, <4>4
      <3>2. \A s \in Reqs \ {r} : pc'[s] = pc[s] /\ op'[s] = op[s]
        BY <1>1 DEF Receive, Shape
      <3> QED BY <3>1, <3>2 DEF Gone, Live
    <2>4. Counted'
      BY <1>1, <2>1 DEF Receive, Shape, Counted, ById
    <2>5. Reported'
      <3>1. /\ pc[r] = "idle" /\ pc'[r] \in {"lookup", "audit", "write"}
            /\ \A s \in Reqs \ {r} : pc'[s] = pc[s] /\ op'[s] = op[s]
            /\ UNCHANGED <<trail, warned, result, count, status>>
        BY <1>1 DEF Receive, Shape
      <3>2. \A s \in Reqs \ {r} : Entry(s)' = Entry(s)
        BY <3>1 DEF Entry
      <3>3. status[r] = 0
        BY <3>1
      <3> QED BY <3>1, <3>2, <3>3 DEF Reported
    <2> QED BY <1>1, <2>2, <2>3, <2>4, <2>5 DEF Receive, Shape, StreamedIsStored, SetsAreTrue
  <1>2. CASE Lookup(r)
    <2>1. op[r].id \in 1 .. Len(owner)
      BY <1>2 DEF Lookup, Live, Shape
    <2>2. owner[op[r].id] \in Keys
      BY <2>1 DEF Shape
    <2>3. Shape' /\ OwnersOK'
      <3>1. <<owner[op[r].id]>> \in Seq(Keys) /\ <<owner[op[r].id]>> # <<>>
        BY <2>2
      <3>2. [op[r] EXCEPT !.keys = <<owner[op[r].id]>>] \in Ops
        <4>1. op[r] \in Ops
          BY DEF Shape
        <4> HIDE DEF ApiInv
        <4> QED BY <3>1, <4>1 DEF Ops
      <3>3. op' = [op EXCEPT ![r] = [op[r] EXCEPT !.keys = <<owner[op[r].id]>>]]
        BY <1>2 DEF Lookup, Shape
      <3> QED BY <1>2, <3>1, <3>2, <3>3 DEF Lookup, Shape, OwnersOK, Steps, Ops
    <2>4. Gone'
      <3>1. /\ pc' = [pc EXCEPT ![r] = "write"] /\ pc[r] = "lookup"
            /\ UNCHANGED <<row, owner, status>>
        BY <1>2 DEF Lookup
      <3>2. \A s \in Reqs \ {r} : pc'[s] = pc[s] /\ op'[s] = op[s]
        BY <1>2, <3>1 DEF Lookup, Shape
      <3>3. op'[r].id = op[r].id /\ op'[r].keys = <<owner[op[r].id]>> /\ pc'[r] = "write"
        <4>1. op[r] \in Ops /\ op \in [Reqs -> Ops] /\ pc \in [Reqs -> Steps]
          BY DEF Shape
        <4> QED BY <1>2, <3>1, <4>1 DEF Lookup, Ops
      <3>4. Live' = Live /\ status[r] = 0
        BY <3>1 DEF Live
      <3> QED BY <2>1, <3>1, <3>2, <3>3, <3>4 DEF Gone
    <2>5. Counted' /\ Reported'
      BY <1>2 DEF Lookup, Shape, Counted, Reported, Entry, Ops
    <2> QED BY <1>2, <2>3, <2>4, <2>5 DEF Lookup, Shape, StreamedIsStored, SetsAreTrue
  <1>3. CASE Missing(r) \/ LookupFails(r) \/ Duplicate(r)
    <2>1. /\ pc[r] \in {"lookup", "write"}
          /\ pc' = [pc EXCEPT ![r] = "done"]
          /\ \E code \in {404, 409, 500} : status' = [status EXCEPT ![r] = code]
          /\ UNCHANGED <<store, audits, op, result, count>>
      BY <1>3 DEF Missing, LookupFails, Duplicate, Answer
    <2>2. Shape' /\ OwnersOK'
      BY <2>1 DEF Shape, OwnersOK, Steps
    <2>3. Gone' /\ Counted' /\ Reported'
      BY <2>1 DEF Shape, Gone, Counted, Reported, Live, Entry
    <2> QED BY <2>1, <2>2, <2>3 DEF Shape, StreamedIsStored, SetsAreTrue
  <1> QED BY <1>1, <1>2, <1>3

-----------------------------------------------------------------------------
(* The steps that write. *)

\* A write gives no id a second key and no dead id a second life, and only
\* adds to what a request wrote.
LEMMA TablesOK ==
  ASSUME Shape, OwnersOK, NEW r \in Reqs, pc[r] = "write",
         Apply(r) \/ UNCHANGED <<store, result>>
  PROVE  /\ owner' \in Seq(Keys) /\ row' \in [Keys -> 0 .. Len(owner')] /\ OwnersOK'
         /\ result' \in [Reqs -> 0 .. Len(owner')] /\ wrote' \in [Reqs -> Seq(Ids)]
         /\ \A i \in 1 .. Len(owner) : /\ i \in 1 .. Len(owner') /\ owner'[i] = owner[i]
                                       /\ i \notin Live => i \notin Live'
         /\ \A q \in Reqs : /\ Len(wrote[q]) <= Len(wrote'[q])
                            /\ \A n \in DOMAIN wrote[q] : n \in DOMAIN wrote'[q] /\ wrote'[q][n] = wrote[q][n]
         /\ \A q \in Reqs \ {r} : result'[q] = result[q] /\ wrote'[q] = wrote[q]
  <1>1. CASE Apply(r)
    <2>1. \A i \in 1 .. Len(owner) : i \notin Live => i \notin Live'
      <3> SUFFICES ASSUME NEW i \in 1 .. Len(owner), NEW k \in Keys, row'[k] = i
                   PROVE  row[k] = i
        BY DEF Live
      <3>1. row'[k] \in {0, row[k], Len(owner) + 1}
        BY <1>1, ApplyOK
      <3>2. Len(owner) \in Nat
        BY DEF Shape
      <3> QED BY <3>1, <3>2
    <2>2. \A i \in 1 .. Len(owner) : i \in 1 .. Len(owner') /\ owner'[i] = owner[i]
      BY <1>1, ApplyOK DEF Shape
    <2>3. /\ Len(wrote[r]) <= Len(wrote'[r])
          /\ \A n \in DOMAIN wrote[r] : n \in DOMAIN wrote'[r] /\ wrote'[r][n] = wrote[r][n]
      <3>1. wrote[r] \in Seq(Ids)
        BY DEF Shape
      <3>2. wrote'[r] = wrote[r] \/ \E i \in Ids : wrote'[r] = Append(wrote[r], i)
        BY <1>1, ApplyOK
      <3> QED BY <3>1, <3>2, AppendProperties
    <2>4. \A q \in Reqs \ {r} : result'[q] = result[q] /\ wrote'[q] = wrote[q]
      BY <1>1, ApplyOK
    <2>5. \A q \in Reqs :
            /\ Len(wrote[q]) <= Len(wrote'[q])
            /\ \A n \in DOMAIN wrote[q] : n \in DOMAIN wrote'[q] /\ wrote'[q][n] = wrote[q][n]
      <3> TAKE q \in Reqs
      <3>1. Len(wrote[q]) \in Nat
        BY DEF Shape
      <3>2. CASE q = r
        BY <2>3, <3>2
      <3>3. CASE q # r
        BY <2>4, <3>1, <3>3
      <3> QED BY <3>2, <3>3
    <2>6. /\ owner' \in Seq(Keys) /\ row' \in [Keys -> 0 .. Len(owner')] /\ OwnersOK'
          /\ result' \in [Reqs -> 0 .. Len(owner')] /\ wrote' \in [Reqs -> Seq(Ids)]
      BY <1>1, ApplyOK DEF OwnersOK
    <2> QED BY <2>1, <2>2, <2>4, <2>5, <2>6
  <1>2. CASE UNCHANGED <<store, result>>
    <2>1. Live' = Live
      BY <1>2 DEF store, Live
    <2>2. \A q \in Reqs : Len(wrote[q]) \in Nat
      BY DEF Shape
    <2> QED BY <1>2, <2>1, <2>2 DEF store, Shape, OwnersOK
  <1> QED BY <1>1, <1>2

\* What holds of the other requests, and of the trail, after a write.
LEMMA OthersOK ==
  ASSUME ApiInv, NEW r \in Reqs, pc[r] = "write",
         Apply(r) \/ UNCHANGED <<store, result>>, UNCHANGED audits,
         \A q \in Reqs \ {r} : /\ pc'[q] = pc[q] /\ op'[q] = op[q]
                               /\ count'[q] = count[q] /\ status'[q] = status[q]
  PROVE  /\ \A q \in Reqs \ {r} :
              /\ op'[q].kind = "delete" /\ pc'[q] = "write" =>
                   op'[q].id \in 1 .. Len(owner') /\ op'[q].keys = <<owner'[op'[q].id]>>
              /\ op'[q].kind = "delete" /\ pc'[q] \in {"audit", "stream", "reply"} =>
                   op'[q].id \in 1 .. Len(owner') /\ op'[q].id \notin Live'
              /\ status'[q] = 204 => op'[q].id \in 1 .. Len(owner') /\ op'[q].id \notin Live'
              /\ pc'[q] = "idle" => count'[q] = 0
              /\ op'[q].kind = "import" => count'[q] <= Len(wrote'[q])
              /\ op'[q].kind \in {"set", "dashSet"} /\ pc'[q] = "audit" =>
                   \E n \in DOMAIN wrote'[q] : wrote'[q][n] = result'[q]
              /\ pc'[q] = "stream" => Entry(q)' \in trail'
              /\ pc'[q] = "reply" \/ status'[q] \in {200, 204} =>
                   q \in warned' \/ \E e \in trail' : e.req = q
              /\ status'[q] # 0 => pc'[q] = "done"
         /\ StreamedIsStored' /\ SetsAreTrue'
  <1>1. /\ \A i \in 1 .. Len(owner) : /\ i \in 1 .. Len(owner') /\ owner'[i] = owner[i]
                                      /\ i \notin Live => i \notin Live'
        /\ \A q \in Reqs : /\ Len(wrote[q]) <= Len(wrote'[q])
                           /\ \A n \in DOMAIN wrote[q] : n \in DOMAIN wrote'[q] /\ wrote'[q][n] = wrote[q][n]
        /\ \A q \in Reqs \ {r} : result'[q] = result[q] /\ wrote'[q] = wrote[q]
    BY TablesOK DEF ApiInv
  <1>2. StreamedIsStored'
    BY DEF ApiInv, StreamedIsStored, audits
  <1>3. SetsAreTrue'
    <2> SUFFICES ASSUME NEW e \in trail
                 PROVE  /\ e.action \in {"set", "dashSet"} =>
                              \E n \in DOMAIN wrote'[e.req] : wrote'[e.req][n] = e.id
                        /\ e.action = "import" => e.vars <= Len(wrote'[e.req])
      BY DEF SetsAreTrue, audits
    <2>1. e.req \in Reqs
      BY DEF ApiInv, Shape
    <2>2. e.action \in {"set", "dashSet"} => \E n \in DOMAIN wrote[e.req] : wrote[e.req][n] = e.id
      BY DEF ApiInv, SetsAreTrue
    <2>3. e.action = "import" => e.vars <= Len(wrote[e.req])
      BY DEF ApiInv, SetsAreTrue
    <2>4. Len(wrote[e.req]) \in Nat /\ Len(wrote'[e.req]) \in Nat /\ e.vars \in Nat
      <3>1. Shape /\ OwnersOK
        BY DEF ApiInv
      <3>2. wrote[e.req] \in Seq(Ids) /\ wrote'[e.req] \in Seq(Ids)
        BY <2>1, <3>1, TablesOK DEF Shape
      <3>3. e.vars \in Nat
        BY <3>1 DEF Shape
      <3> QED BY <3>2, <3>3, LenProperties
    <2>5. e.action = "import" => e.vars <= Len(wrote'[e.req])
      BY <1>1, <2>1, <2>3, <2>4
    <2> QED BY <1>1, <2>1, <2>2, <2>5
  <1>4. ASSUME NEW q \in Reqs \ {r}
        PROVE  /\ op'[q] = op[q] /\ pc'[q] = pc[q] /\ status'[q] = status[q] /\ count'[q] = count[q]
               /\ wrote'[q] = wrote[q] /\ result'[q] = result[q] /\ trail' = trail /\ warned' = warned
               /\ Entry(q)' = Entry(q)
    BY <1>1 DEF Entry, audits
  <1>5. ASSUME NEW q \in Reqs \ {r}
        PROVE  /\ op'[q].kind = "delete" /\ pc'[q] = "write" =>
                    op'[q].id \in 1 .. Len(owner') /\ op'[q].keys = <<owner'[op'[q].id]>>
               /\ op'[q].kind = "delete" /\ pc'[q] \in {"audit", "stream", "reply"} =>
                    op'[q].id \in 1 .. Len(owner') /\ op'[q].id \notin Live'
               /\ status'[q] = 204 => op'[q].id \in 1 .. Len(owner') /\ op'[q].id \notin Live'
    BY <1>1, <1>4 DEF ApiInv, Gone
  <1>6. ASSUME NEW q \in Reqs \ {r}
        PROVE  /\ pc'[q] = "idle" => count'[q] = 0
               /\ op'[q].kind = "import" => count'[q] <= Len(wrote'[q])
               /\ op'[q].kind \in {"set", "dashSet"} /\ pc'[q] = "audit" =>
                    \E n \in DOMAIN wrote'[q] : wrote'[q][n] = result'[q]
    BY <1>4 DEF ApiInv, Counted
  <1>7. ASSUME NEW q \in Reqs \ {r}
        PROVE  /\ pc'[q] = "stream" => Entry(q)' \in trail'
               /\ pc'[q] = "reply" \/ status'[q] \in {200, 204} =>
                    q \in warned' \/ \E e \in trail' : e.req = q
               /\ status'[q] # 0 => pc'[q] = "done"
    BY <1>4 DEF ApiInv, Reported
  <1> QED BY <1>2, <1>3, <1>5, <1>6, <1>7

\* Going on to the next line, or to the report.
LEMMA ProceedOK ==
  ASSUME Shape, NEW r \in Reqs, pc[r] = "write", Proceed(r)
  PROVE  /\ op' \in [Reqs -> Ops] /\ pc' \in [Reqs -> Steps]
         /\ \A q \in Reqs : pc'[q] = "write" => op'[q].keys # <<>>
         /\ op'[r].kind = op[r].kind /\ op'[r].id = op[r].id
         /\ pc'[r] \in {"write", "audit"}
         /\ Len(op[r].keys) = 1 => pc'[r] = "audit"
         /\ \A q \in Reqs \ {r} : op'[q] = op[q] /\ pc'[q] = pc[q]
  <1>1. op[r] \in Ops /\ op[r].keys \in Seq(Keys) /\ op[r].keys # <<>>
    BY DEF Shape, Ops
  <1>2. /\ Tail(op[r].keys) \in Seq(Keys)
        /\ Len(op[r].keys) = 1 => Tail(op[r].keys) = <<>>
    <2>1. Tail(op[r].keys) \in Seq(Keys) /\ Len(Tail(op[r].keys)) = Len(op[r].keys) - 1
      BY <1>1, HeadTailProperties
    <2>2. Len(op[r].keys) = 1 => Len(Tail(op[r].keys)) = 0
      BY <2>1
    <2> QED BY <2>1, <2>2, EmptySeq
  <1>3. op' = [op EXCEPT ![r] = [op[r] EXCEPT !.keys = Tail(op[r].keys)]]
    BY DEF Proceed, Shape
  <1>4. [op[r] EXCEPT !.keys = Tail(op[r].keys)] \in Ops
    BY <1>1, <1>2 DEF Ops
  <1>5. /\ op'[r].kind = op[r].kind /\ op'[r].id = op[r].id
        /\ op'[r].keys = Tail(op[r].keys)
    BY <1>1, <1>3 DEF Shape, Ops
  <1>6. op' \in [Reqs -> Ops] /\ \A q \in Reqs \ {r} : op'[q] = op[q]
    BY <1>3, <1>4 DEF Shape
  <1>7. /\ pc' = [pc EXCEPT ![r] = IF Tail(op[r].keys) = <<>> THEN "audit" ELSE "write"]
        /\ pc \in [Reqs -> Steps]
    BY DEF Proceed, Shape
  <1>8. \A q \in Reqs \ {r} : pc'[q] = "write" => op'[q].keys # <<>>
    BY <1>6, <1>7 DEF Shape
  <1> QED BY <1>2, <1>5, <1>6, <1>7, <1>8 DEF Steps

LEMMA WriteStep ==
  ASSUME ApiInv, NEW r \in Reqs, Write(r) PROVE ApiInv'
  <1>1. pc[r] = "write" /\ Apply(r) /\ Proceed(r) /\ UNCHANGED audits /\ status' = status
    BY DEF Write, Proceed
  <1>2. count' = [count EXCEPT ![r] = @ + 1] /\ count \in [Reqs -> Nat]
    BY DEF Write, ApiInv, Shape
  <1>3. Shape /\ OwnersOK /\ status[r] = 0
    BY <1>1 DEF ApiInv
  <1>4. /\ op' \in [Reqs -> Ops] /\ pc' \in [Reqs -> Steps]
        /\ \A q \in Reqs : pc'[q] = "write" => op'[q].keys # <<>>
        /\ op'[r].kind = op[r].kind /\ op'[r].id = op[r].id
        /\ pc'[r] \in {"write", "audit"}
        /\ Len(op[r].keys) = 1 => pc'[r] = "audit"
        /\ \A q \in Reqs \ {r} : op'[q] = op[q] /\ pc'[q] = pc[q]
    BY <1>1, <1>3, ProceedOK
  <1>5. /\ owner' \in Seq(Keys) /\ row' \in [Keys -> 0 .. Len(owner')] /\ OwnersOK'
        /\ result' \in [Reqs -> 0 .. Len(owner')] /\ wrote' \in [Reqs -> Seq(Ids)]
        /\ \A i \in 1 .. Len(owner) : /\ i \in 1 .. Len(owner') /\ owner'[i] = owner[i]
                                      /\ i \notin Live => i \notin Live'
    BY <1>1, <1>3, TablesOK
  <1>6. Shape'
    BY <1>1, <1>2, <1>3, <1>4, <1>5 DEF Shape, audits
  <1>7. op[r].kind = "delete" =>
          op'[r].id \in 1 .. Len(owner') /\ op'[r].id \notin Live' /\ pc'[r] = "audit"
    <2> SUFFICES ASSUME op[r].kind = "delete"
                 PROVE  op[r].id \in 1 .. Len(owner') /\ op[r].id \notin Live' /\ pc'[r] = "audit"
      BY <1>4
    <2> DEFINE i == op[r].id
    <2>1. i \in 1 .. Len(owner) /\ op[r].keys = <<owner[i]>>
      BY <1>1 DEF ApiInv, Gone
    <2>2. row'[owner[i]] = 0
      <3>1. op[r].kind \notin Sets /\ Head(op[r].keys) = owner[i]
        BY <2>1 DEF Sets
      <3> QED BY <1>1, <1>3, <3>1, ApplyOK
    <2>3. i \in 1 .. Len(owner') /\ owner'[i] = owner[i]
      BY <1>5, <2>1
    <2>4. i \notin Live'
      BY <2>2, <2>3, <1>5 DEF Live, OwnersOK
    <2>5. Len(op[r].keys) = 1
      BY <2>1
    <2> QED BY <1>4, <2>3, <2>4, <2>5
  <1>8. /\ op[r].kind = "import" => count'[r] <= Len(wrote'[r])
        /\ op[r].kind \in {"set", "dashSet"} =>
             \E n \in DOMAIN wrote'[r] : wrote'[r][n] = result'[r]
    <2> SUFFICES ASSUME op[r].kind \in Sets
                 PROVE  /\ op[r].kind = "import" => count'[r] <= Len(wrote'[r])
                        /\ \E n \in DOMAIN wrote'[r] : wrote'[r][n] = result'[r]
      BY DEF Sets
    <2>1. result'[r] # 0 /\ wrote'[r] = Append(wrote[r], result'[r])
      BY <1>1, <1>3, ApplyOK
    <2>2. wrote[r] \in Seq(Ids) /\ Len(wrote[r]) \in Nat
      BY <1>3 DEF Shape
    <2>3. /\ Len(wrote'[r]) = Len(wrote[r]) + 1
          /\ Len(wrote'[r]) \in DOMAIN wrote'[r] /\ wrote'[r][Len(wrote'[r])] = result'[r]
      BY <2>1, <2>2, AppendProperties, <1>5
    <2>4. op[r].kind = "import" => count[r] <= Len(wrote[r])
      BY DEF ApiInv, Counted
    <2>5. count'[r] = count[r] + 1 /\ count[r] \in Nat
      BY <1>2
    <2> QED BY <2>2, <2>3, <2>4, <2>5
  <1>9. /\ \A q \in Reqs \ {r} : count'[q] = count[q] /\ status'[q] = status[q]
        /\ status'[r] = 0
    BY <1>1, <1>2, <1>3
  <1>10. Gone' /\ Counted' /\ Reported' /\ StreamedIsStored' /\ SetsAreTrue'
         /\ \A q \in Reqs : status'[q] # 0 => pc'[q] = "done"
    BY <1>1, <1>4, <1>7, <1>8, <1>9, OthersOK DEF Gone, Counted, Reported
  <1> QED BY <1>5, <1>6, <1>10 DEF ApiInv

LEMMA WriteFailsStep ==
  ASSUME ApiInv, NEW r \in Reqs, WriteFails(r) PROVE ApiInv'
  <1>1. /\ pc[r] = "write" /\ count' = count /\ UNCHANGED audits
        /\ Apply(r) \/ UNCHANGED <<store, result>>
        /\ IF op[r].kind = "import" THEN Proceed(r)
           ELSE Answer(r, Failed(r)) /\ UNCHANGED op
    BY DEF WriteFails, CountNothing
  <1>2. Shape /\ OwnersOK /\ status[r] = 0
    BY <1>1 DEF ApiInv
  <1>3. /\ op' \in [Reqs -> Ops] /\ pc' \in [Reqs -> Steps]
        /\ \A q \in Reqs : pc'[q] = "write" => op'[q].keys # <<>>
        /\ op'[r].kind = op[r].kind
        /\ \A q \in Reqs \ {r} : op'[q] = op[q] /\ pc'[q] = pc[q] /\ status'[q] = status[q]
        /\ status' \in [Reqs -> {0, 200, 204, 302, 404, 409, 500}]
        /\ status'[r] \in {0, 302, 500} /\ (status'[r] # 0 => pc'[r] = "done")
        /\ op[r].kind = "import" => pc'[r] \in {"write", "audit"}
        /\ op[r].kind # "import" => pc'[r] = "done"
    <2>1. CASE op[r].kind = "import"
      <3>1. Proceed(r) /\ status' = status
        BY <1>1, <2>1 DEF Proceed
      <3> QED BY <1>1, <1>2, <2>1, <3>1, ProceedOK DEF Shape
    <2>2. CASE op[r].kind # "import"
      <3>1. /\ pc' = [pc EXCEPT ![r] = "done"] /\ op' = op
            /\ \E code \in {302, 500} : status' = [status EXCEPT ![r] = code]
        BY <1>1, <2>2 DEF Answer, Failed
      <3> QED BY <1>2, <2>2, <3>1 DEF Shape, Steps
    <2> QED BY <2>1, <2>2
  <1>4. /\ owner' \in Seq(Keys) /\ row' \in [Keys -> 0 .. Len(owner')] /\ OwnersOK'
        /\ result' \in [Reqs -> 0 .. Len(owner')] /\ wrote' \in [Reqs -> Seq(Ids)]
        /\ Len(wrote[r]) <= Len(wrote'[r])
    BY <1>1, <1>2, TablesOK
  <1>5. Shape'
    BY <1>1, <1>2, <1>3, <1>4 DEF Shape, audits
  <1>6. op[r].kind = "import" => count'[r] <= Len(wrote'[r])
    <2>1. count[r] \in Nat /\ Len(wrote[r]) \in Nat /\ Len(wrote'[r]) \in Nat
      BY <1>2, <1>4 DEF Shape
    <2> QED BY <1>1, <1>4, <2>1 DEF ApiInv, Counted
  <1>7. \A q \in Reqs \ {r} : count'[q] = count[q]
    BY <1>1
  <1>8. Gone' /\ Counted' /\ Reported' /\ StreamedIsStored' /\ SetsAreTrue'
        /\ \A q \in Reqs : status'[q] # 0 => pc'[q] = "done"
    BY <1>1, <1>3, <1>6, <1>7, OthersOK DEF Gone, Counted, Reported
  <1> QED BY <1>4, <1>5, <1>8 DEF ApiInv

-----------------------------------------------------------------------------
(* The steps that report, and the crash. *)

LEMMA ReportStep ==
  ASSUME ApiInv, NEW r \in Reqs,
         Audit(r) \/ AuditFails(r) \/ Stream(r) \/ Reply(r)
  PROVE  ApiInv'
  <1>1. /\ UNCHANGED <<store, op, result, count>> /\ pc[r] \in {"audit", "stream", "reply"}
        /\ \A q \in Reqs : Entry(q)' = Entry(q)
    BY DEF Audit, AuditFails, Stream, Reply, WarnsAndStops, Answer, Entry
  <1>2. Shape /\ OwnersOK /\ status[r] = 0
    BY <1>1 DEF ApiInv
  <1>3. Live' = Live
    BY <1>1 DEF store, Live
  <1>4. CASE Audit(r)
    <2>1. /\ pc[r] = "audit" /\ pc' = [pc EXCEPT ![r] = "stream"]
          /\ trail' = trail \cup {Entry(r)} /\ UNCHANGED <<status, stream, warned>>
      BY <1>4 DEF Audit
    <2>2. /\ Entry(r).req = r /\ Entry(r).action = op[r].kind /\ Entry(r).vars = count[r]
          /\ op[r].kind \in {"set", "dashSet"} => Entry(r).id = result[r]
      BY DEF Entry
    <2>3. count[r] \in Nat
      BY <1>2 DEF Shape
    <2>4. Shape' /\ OwnersOK'
      BY <1>1, <1>2, <2>1, <2>2, <2>3 DEF Shape, OwnersOK, Steps, store
    <2>5. Gone' /\ Counted'
      BY <1>1, <1>2, <1>3, <2>1 DEF ApiInv, Gone, Counted, Shape, store
    <2>6. Reported'
      BY <1>1, <1>2, <2>1, <2>2 DEF ApiInv, Reported, Shape
    <2>7. StreamedIsStored'
      BY <2>1 DEF ApiInv, StreamedIsStored
    <2>8. SetsAreTrue'
      BY <1>1, <2>1, <2>2 DEF ApiInv, SetsAreTrue, Counted, store
    <2> QED BY <1>2, <2>1, <2>4, <2>5, <2>6, <2>7, <2>8 DEF ApiInv, Shape
  <1>5. CASE AuditFails(r)
    <2>1. /\ pc[r] = "audit" /\ pc' = [pc EXCEPT ![r] = "reply"]
          /\ warned' = warned \cup {r} /\ UNCHANGED <<status, trail, stream>>
      BY <1>5 DEF AuditFails, WarnsAndStops
    <2>2. Shape' /\ OwnersOK'
      BY <1>1, <1>2, <2>1 DEF Shape, OwnersOK, Steps, store
    <2>3. Gone' /\ Counted'
      BY <1>1, <1>2, <1>3, <2>1 DEF ApiInv, Gone, Counted, Shape, store
    <2>4. Reported'
      BY <1>1, <1>2, <2>1 DEF ApiInv, Reported, Shape
    <2> QED BY <1>1, <1>2, <2>1, <2>2, <2>3, <2>4
            DEF ApiInv, Shape, StreamedIsStored, SetsAreTrue, store
  <1>6. CASE Stream(r)
    <2>1. /\ pc[r] = "stream" /\ pc' = [pc EXCEPT ![r] = "reply"]
          /\ stream' = stream \cup {Entry(r)} /\ UNCHANGED <<status, trail, warned>>
      BY <1>6 DEF Stream
    <2>2. Entry(r) \in trail /\ Entry(r).req = r
      BY <2>1 DEF ApiInv, Reported, Entry
    <2>3. Shape' /\ OwnersOK'
      BY <1>1, <1>2, <2>1 DEF Shape, OwnersOK, Steps, store
    <2>4. Gone' /\ Counted'
      BY <1>1, <1>2, <1>3, <2>1 DEF ApiInv, Gone, Counted, Shape, store
    <2>5. Reported'
      BY <1>1, <1>2, <2>1, <2>2 DEF ApiInv, Reported, Shape
    <2> QED BY <1>1, <1>2, <2>1, <2>2, <2>3, <2>4, <2>5
            DEF ApiInv, Shape, StreamedIsStored, SetsAreTrue, store
  <1>7. CASE Reply(r)
    <2>1. /\ pc[r] = "reply" /\ pc' = [pc EXCEPT ![r] = "done"]
          /\ status' = [status EXCEPT ![r] = Succeeded(r)] /\ UNCHANGED audits
      BY <1>7 DEF Reply, Answer
    <2>2. Succeeded(r) \in {200, 204, 302} /\ (Succeeded(r) = 204 => op[r].kind = "delete")
      BY DEF Succeeded, Dash
    <2>3. Shape' /\ OwnersOK'
      BY <1>1, <1>2, <2>1, <2>2 DEF Shape, OwnersOK, Steps, store, audits
    <2>4. Gone' /\ Counted'
      BY <1>1, <1>2, <1>3, <2>1, <2>2 DEF ApiInv, Gone, Counted, Shape, store
    <2>5. Reported'
      BY <1>1, <1>2, <2>1, <2>2 DEF ApiInv, Reported, Shape, audits
    <2> QED BY <1>1, <1>2, <2>1, <2>2, <2>3, <2>4, <2>5
            DEF ApiInv, Shape, StreamedIsStored, SetsAreTrue, store, audits
  <1> QED BY <1>4, <1>5, <1>6, <1>7

LEMMA CrashStep == ApiInv /\ Crash => ApiInv'
  <1> SUFFICES ASSUME ApiInv, Crash PROVE ApiInv'
    OBVIOUS
  <1>1. /\ UNCHANGED <<store, audits, op, result, count, status>>
        /\ pc' = [r \in Reqs |-> IF pc[r] \in {"idle", "done"} THEN pc[r] ELSE "dead"]
        /\ Live' = Live /\ \A q \in Reqs : Entry(q)' = Entry(q)
    BY DEF Crash, Live, Entry, store
  <1>2. Shape' /\ OwnersOK'
    BY <1>1 DEF ApiInv, Shape, OwnersOK, Steps, store, audits
  <1>3. Gone' /\ Counted' /\ Reported'
    BY <1>1 DEF ApiInv, Gone, Counted, Reported, store, audits
  <1> QED BY <1>1, <1>2, <1>3 DEF ApiInv, StreamedIsStored, SetsAreTrue, store, audits

LEMMA StepInv == ApiInv /\ [Next]_vars => ApiInv'
  <1> SUFFICES ASSUME ApiInv, [Next]_vars PROVE ApiInv'
    OBVIOUS
  <1>1. CASE Crash
    BY <1>1, CrashStep
  <1>2. ASSUME NEW r \in Reqs, Step(r) PROVE ApiInv'
    BY <1>2, LookupStep, WriteStep, WriteFailsStep, ReportStep DEF Step
  <1>3. CASE UNCHANGED vars
    BY <1>3 DEF vars, ApiInv, Shape, OwnersOK, Gone, Counted, Reported, Entry, Live,
                StreamedIsStored, SetsAreTrue
  <1> QED BY <1>1, <1>2, <1>3 DEF Next

THEOREM ApiInvariance == Spec => []ApiInv
  BY InitInv, StepInv, PTL DEF Spec

-----------------------------------------------------------------------------
(* What follows. *)

\* Type correctness of the handlers' state.
THEOREM VarApiTypeCorrect == Spec => []TypeOK
  <1>1. ApiInv => TypeOK
    BY ShapeIsTypeOK DEF ApiInv
  <1> QED BY <1>1, ApiInvariance, PTL

\* A variable whose deletion by id was acknowledged never exists again,
\* however lookups, deletes and sets of its key interleave.
THEOREM DeletedStaysGoneCorrect == Spec => []DeletedStaysGone
  <1>1. ApiInv => DeletedStaysGone
    BY DEF ApiInv, Gone, DeletedStaysGone
  <1> QED BY <1>1, ApiInvariance, PTL

\* What was streamed was stored first.
THEOREM StreamedIsStoredCorrect == Spec => []StreamedIsStored
  <1>1. ApiInv => StreamedIsStored
    BY DEF ApiInv
  <1> QED BY <1>1, ApiInvariance, PTL

\* The trail names only rows that were written and counts only lines that
\* were stored, whatever fails.
THEOREM SetsAreTrueCorrect == Spec => []SetsAreTrue
  <1>1. ApiInv => SetsAreTrue
    BY DEF ApiInv
  <1> QED BY <1>1, ApiInvariance, PTL

\* A write the API acknowledged is in the trail or in the warnings.
THEOREM AuditedOrWarnedCorrect == Spec => []AuditedOrWarned
  <1>1. ApiInv => AuditedOrWarned
    BY DEF ApiInv, Reported, AuditedOrWarned
  <1> QED BY <1>1, ApiInvariance, PTL
=============================================================================
