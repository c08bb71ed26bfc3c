------------------------ MODULE SequenceRepairProofs ------------------------
(* Proofs about SequenceRepair, for any number of replicas and calls.      *)
EXTENDS SequenceRepair, TLAPS

\* Id i is behind the sequence, or one the last repair overlooked.
Covered(i) == i = 1 \/ i <= seq \/ i \in spanned

\* The sequence is in use once a replica has repaired it, and id 1 is never
\* given out.
InUse ==
  /\ \A r \in Replicas : open[r] = "up" => seq >= 1
  /\ \A c \in Creates : taken[c] # 1

\* What a repair that is under way has not read has been held by an INSERT since.
UnderWay ==
  \A r \in Replicas : open[r] = "repair" =>
    /\ max[r] >= 1
    /\ \A c \in Creates : taken[c] # None => taken[c] \in spanning[r]
    /\ \A i \in apps : i <= max[r] \/ i \in spanning[r]

RepairInv ==
  /\ TypeOK
  /\ InUse
  /\ UnderWay
  /\ \A i \in apps : Covered(i)
  /\ \A c \in Creates : taken[c] # None => Covered(taken[c])
  /\ Phantoms

LEMMA InitInv == Init => RepairInv
  BY SequenceAssumption
     DEF Init, RepairInv, TypeOK, InUse, UnderWay, Covered, Phantoms, None

LEMMA MigrateInv ==
  ASSUME RepairInv, NEW r \in Replicas, Migrate(r) PROVE RepairInv'
  <1> USE SequenceAssumption DEF None
  <1>1. PICK m \in apps' : /\ \A i \in apps' : i <= m
                           /\ max' = [max EXCEPT ![r] = m]
    BY DEF Migrate
  <1>2. /\ open[r] = "migrate" /\ open' = [open EXCEPT ![r] = "repair"]
        /\ apps' = apps \cup {1} /\ UNCHANGED <<seq, taken, at, reply, spanned>>
        /\ spanning' = [spanning EXCEPT ![r] = Held]
    BY DEF Migrate
  <1>3. m \in 1 .. MaxId /\ Held \subseteq 1 .. MaxId
    BY <1>1, <1>2 DEF RepairInv, TypeOK, Held
  <1>4. TypeOK'
    BY <1>1, <1>2, <1>3 DEF RepairInv, TypeOK
  <1>5. InUse'
    BY <1>2 DEF RepairInv, TypeOK, InUse
  <1>6. UnderWay'
    <2> SUFFICES ASSUME NEW q \in Replicas, open'[q] = "repair"
                 PROVE  /\ max'[q] >= 1
                        /\ \A c \in Creates : taken'[c] # None => taken'[c] \in spanning'[q]
                        /\ \A i \in apps' : i <= max'[q] \/ i \in spanning'[q]
      BY DEF UnderWay
    <2>1. CASE q = r
      BY <1>1, <1>2, <1>3, <2>1 DEF RepairInv, TypeOK, Held
    <2>2. CASE q # r
      BY <1>1, <1>2, <1>3, <2>2 DEF RepairInv, TypeOK, UnderWay
    <2> QED BY <2>1, <2>2
  <1>7. Phantoms'
    BY <1>2 DEF RepairInv, InUse, Phantoms
  <1> QED BY <1>2, <1>4, <1>5, <1>6, <1>7 DEF RepairInv, Covered

LEMMA RepairEndInv ==
  ASSUME RepairInv, NEW r \in Replicas, Repair(r) PROVE RepairInv'
  <1> USE SequenceAssumption DEF None
  <1>1. /\ open[r] = "repair" /\ open' = [open EXCEPT ![r] = "up"]
        /\ seq' = max[r] /\ UNCHANGED <<apps, max, taken, at, reply>>
        /\ spanned' = spanning[r] /\ spanning' = [spanning EXCEPT ![r] = {}]
    BY DEF Repair, SetVal
  <1>2. /\ max[r] >= 1 /\ max[r] \in 0 .. MaxId
        /\ \A c \in Creates : taken[c] # None => taken[c] \in spanning[r]
        /\ \A i \in apps : i <= max[r] \/ i \in spanning[r]
    BY <1>1 DEF RepairInv, UnderWay, TypeOK
  <1>3. TypeOK'
    BY <1>1, <1>2 DEF RepairInv, TypeOK
  <1>4. InUse'
    BY <1>1, <1>2 DEF RepairInv, TypeOK, InUse
  <1>5. UnderWay'
    BY <1>1 DEF RepairInv, TypeOK, UnderWay
  <1>6. /\ \A i \in apps' : Covered(i)'
        /\ \A c \in Creates : taken'[c] # None => Covered(taken[c])'
    BY <1>1, <1>2 DEF Covered
  <1>7. Phantoms'
    BY <1>1, <1>2 DEF RepairInv, TypeOK, Phantoms
  <1> QED BY <1>1, <1>3, <1>4, <1>5, <1>6, <1>7 DEF RepairInv

LEMMA NextValInv ==
  ASSUME RepairInv, NEW c \in Creates, NextVal(c) PROVE RepairInv'
  <1> USE SequenceAssumption DEF None
  <1>1. /\ taken[c] = 0 /\ seq < MaxId /\ seq' = seq + 1
        /\ taken' = [taken EXCEPT ![c] = seq + 1]
        /\ reply' = [reply EXCEPT ![c] = "none"]
        /\ spanning' = [r \in Replicas |->
                          IF open[r] = "repair" THEN spanning[r] \cup {seq + 1} ELSE spanning[r]]
        /\ UNCHANGED <<apps, open, max, spanned>>
    BY DEF NextVal
  <1>2. PICK r \in Replicas : open[r] = "up" /\ at' = [at EXCEPT ![c] = r]
    BY DEF NextVal
  <1>3. seq \in Nat /\ seq >= 1 /\ seq + 1 \in 1 .. MaxId /\ seq + 1 # 1
    BY <1>1, <1>2 DEF RepairInv, TypeOK, InUse
  <1>4. TypeOK'
    BY <1>1, <1>2, <1>3 DEF RepairInv, TypeOK
  <1>5. \A d \in Creates : taken'[d] = IF d = c THEN seq + 1 ELSE taken[d]
    BY <1>1 DEF RepairInv, TypeOK
  <1>6. InUse'
    BY <1>1, <1>3, <1>5 DEF RepairInv, TypeOK, InUse
  <1>7. UnderWay'
    <2> SUFFICES ASSUME NEW q \in Replicas, open[q] = "repair"
                 PROVE  /\ max[q] >= 1
                        /\ \A d \in Creates : taken'[d] # None => taken'[d] \in spanning'[q]
                        /\ \A i \in apps : i <= max[q] \/ i \in spanning'[q]
      BY <1>1 DEF UnderWay
    <2>1. spanning'[q] = spanning[q] \cup {seq + 1}
      BY <1>1
    <2> QED BY <1>5, <2>1 DEF RepairInv, UnderWay
  <1>8. \A i \in apps : i \in Nat
    BY DEF RepairInv, TypeOK
  <1>9. /\ \A i \in apps' : Covered(i)'
        /\ \A d \in Creates : taken'[d] # None => Covered(taken[d])'
    <2>1. ASSUME NEW i \in Nat, Covered(i) PROVE Covered(i)'
      BY <1>1, <1>3, <2>1 DEF Covered
    <2>3. ASSUME NEW d \in Creates, taken'[d] # None PROVE Covered(taken[d])'
      <3>1. CASE d = c
        BY <1>1, <1>3, <1>5, <3>1 DEF Covered
      <3>2. CASE d # c
        <4>1. taken'[d] = taken[d] /\ taken[d] \in Nat /\ Covered(taken[d])
          BY <1>5, <2>3, <3>2 DEF RepairInv, TypeOK
        <4> QED BY <1>1, <1>3, <4>1 DEF Covered
      <3> QED BY <3>1, <3>2
    <2> QED BY <1>1, <1>8, <2>1, <2>3 DEF RepairInv
  <1>10. Phantoms'
    \* An id that exists or is held, and is the next of the sequence, is not
    \* behind it: the last repair overlooked it.
    <2>1. seq + 1 \in apps => seq + 1 \in spanned
      BY <1>3 DEF RepairInv, Covered
    <2>2. ASSUME NEW d \in Creates, taken[d] = seq + 1 PROVE seq + 1 \in spanned
      <3>1. Covered(taken[d])
        BY <1>3, <2>2 DEF RepairInv
      <3> QED BY <1>3, <2>2, <3>1 DEF Covered
    <2>3. ASSUME NEW d \in Creates,
                 \/ taken'[d] \in apps
                 \/ \E e \in Creates \ {d} : taken'[d] # 0 /\ taken'[d] = taken'[e]
          PROVE  taken'[d] \in spanned
      <3>1. CASE taken'[d] = seq + 1
        BY <1>5, <2>1, <2>2, <2>3, <3>1
      <3>2. CASE taken'[d] # seq + 1
        <4>1. d # c /\ taken'[d] = taken[d]
          BY <1>5, <3>2
        <4> QED BY <1>5, <2>3, <3>2, <4>1 DEF RepairInv, Phantoms
      <3> QED BY <3>1, <3>2
    <2> QED BY <1>1, <2>3 DEF Phantoms
  <1> QED BY <1>4, <1>6, <1>7, <1>9, <1>10 DEF RepairInv

\* An INSERT ends: its id is held no more, and may exist now.
LEMMA InsertEndInv ==
  ASSUME RepairInv, NEW c \in Creates, Insert(c) \/ InsertFails(c) PROVE RepairInv'
  <1> USE SequenceAssumption DEF None
  <1>1. /\ taken[c] # 0 /\ taken' = [taken EXCEPT ![c] = 0]
        /\ UNCHANGED <<seq, open, max, at, spanning, spanned>>
        /\ apps' \in {apps, apps \cup {taken[c]}}
        /\ \E what \in {"created", "duplicate", "error"} : Answers(c, what)
    BY DEF Insert, InsertFails, ghosts
  <1>2. taken[c] \in 1 .. MaxId /\ taken[c] # 1
    BY <1>1 DEF RepairInv, TypeOK, InUse
  <1>3. \A d \in Creates : taken'[d] = IF d = c THEN 0 ELSE taken[d]
    BY <1>1 DEF RepairInv, TypeOK
  <1>4. TypeOK'
    <2>1. reply' \in [Creates -> {"none", "created", "duplicate", "error", "lost"}]
      BY <1>1 DEF Answers, RepairInv, TypeOK
    <2>2. taken' \in [Creates -> 0 .. MaxId]
      BY <1>1 DEF RepairInv, TypeOK
    <2>3. apps' \subseteq 1 .. MaxId /\ (1 \in apps => 1 \in apps')
      BY <1>1, <1>2 DEF RepairInv, TypeOK
    <2> QED BY <1>1, <2>1, <2>2, <2>3 DEF RepairInv, TypeOK
  <1>5. InUse'
    BY <1>1, <1>3 DEF RepairInv, InUse
  <1>6. UnderWay'
    BY <1>1, <1>3 DEF RepairInv, UnderWay
  <1>7. /\ \A i \in apps' : Covered(i)'
        /\ \A d \in Creates : taken'[d] # None => Covered(taken[d])'
    BY <1>1, <1>3 DEF RepairInv, Covered
  <1>8. Phantoms'
    \* Whoever holds the same id is in Phantoms already.
    <2> SUFFICES ASSUME NEW d \in Creates, d # c,
                        \/ taken[d] \in apps'
                        \/ \E e \in Creates \ {d} : taken[d] # None /\ taken[d] = taken'[e]
                 PROVE  taken[d] \in spanned
      <3>1. 0 \notin apps'
        BY <1>4 DEF TypeOK
      <3> QED BY <1>1, <1>3, <3>1 DEF Phantoms
    <2>1. CASE taken[d] \in apps
      BY <2>1 DEF RepairInv, Phantoms
    <2>2. CASE taken[d] = taken[c]
      BY <1>1, <2>2 DEF RepairInv, Phantoms
    <2>3. CASE \E e \in Creates \ {d} : taken[d] # None /\ taken[d] = taken'[e]
      <3>1. PICK e \in Creates \ {d} : taken[d] # None /\ taken[d] = taken[e]
        BY <1>3, <2>3
      <3> QED BY <3>1 DEF RepairInv, Phantoms
    <2>4. taken[d] \in apps' => taken[d] \in apps \/ taken[d] = taken[c]
      BY <1>1
    <2> QED BY <2>1, <2>2, <2>3, <2>4
  <1> QED BY <1>4, <1>5, <1>6, <1>7, <1>8 DEF RepairInv

LEMMA RepairInvNext == RepairInv /\ [Next]_vars => RepairInv'
  <1> USE SequenceAssumption DEF None
  <1> SUFFICES ASSUME RepairInv, [Next]_vars PROVE RepairInv'
    OBVIOUS
  <1>1. ASSUME NEW r \in Replicas, Start(r) PROVE RepairInv'
    <2>1. /\ open' = [open EXCEPT ![r] = "migrate"]
          /\ UNCHANGED <<apps, seq, max, taken, at, reply, spanning, spanned>>
      BY <1>1 DEF Start, ghosts
    <2>2. TypeOK' /\ InUse' /\ UnderWay'
      BY <2>1 DEF RepairInv, TypeOK, InUse, UnderWay
    <2> QED BY <2>1, <2>2 DEF RepairInv, Covered, Phantoms
  <1>2. ASSUME NEW r \in Replicas, End(r) PROVE RepairInv'
    <2>1. /\ open' = [open EXCEPT ![r] = "down"]
          /\ spanning' = [spanning EXCEPT ![r] = {}]
          /\ reply' = [c \in Creates |-> IF at[c] = r /\ taken[c] # None
                                         THEN "lost" ELSE reply[c]]
          /\ UNCHANGED <<apps, seq, max, taken, at, spanned>>
      BY <1>2 DEF End
    <2>2. TypeOK'
      BY <2>1 DEF RepairInv, TypeOK
    <2>3. InUse' /\ UnderWay'
      BY <2>1 DEF RepairInv, TypeOK, InUse, UnderWay
    <2> QED BY <2>1, <2>2, <2>3 DEF RepairInv, Covered, Phantoms
  <1>3. ASSUME NEW i \in apps, DeleteApp(i) PROVE RepairInv'
    <2>1. /\ i # 1 /\ apps' = apps \ {i}
          /\ UNCHANGED <<seq, open, max, taken, at, reply, spanning, spanned>>
      BY <1>3 DEF DeleteApp, Deletable, ghosts
    <2>2. TypeOK' /\ InUse' /\ UnderWay'
      BY <2>1 DEF RepairInv, TypeOK, InUse, UnderWay
    <2> QED BY <2>1, <2>2 DEF RepairInv, Covered, Phantoms
  <1>4. ASSUME UNCHANGED vars PROVE RepairInv'
    BY <1>4 DEF vars, ghosts, RepairInv, TypeOK, InUse, UnderWay, Covered, Phantoms
  <1> QED BY <1>1, <1>2, <1>3, <1>4, MigrateInv, RepairEndInv, NextValInv, InsertEndInv DEF Next

\* With any number of replicas, started and killed at any moment, an INSERT meets
\* an id that exists, or that another INSERT holds, only if an INSERT held this id
\* while the last repair was under way.
THEOREM PhantomsCorrect == Spec => []Phantoms
  <1>1. RepairInv => Phantoms
    BY DEF RepairInv
  <1> QED BY <1>1, InitInv, RepairInvNext, PTL DEF Spec
=============================================================================
