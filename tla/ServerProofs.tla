---------------------------- MODULE ServerProofs ----------------------------
(* Proofs about AdminKey, Migration and Server, which composes the two, for *)
(* any number of replicas of the first and, of the others, databases of    *)
(* any size and any number of requests, failures and starts.               *)
EXTENDS Server, TLAPS

-----------------------------------------------------------------------------
(* AdminKey by itself, for any number of replicas.                         *)

LEMMA TypeInit == Init => TypeOK
  BY AdminKeyAssumption DEF Init, TypeOK

LEMMA TypeNext == TypeOK /\ [Next]_keyVars => TypeOK'
  <1> USE AdminKeyAssumption DEF TypeOK, Go
  <1> SUFFICES ASSUME TypeOK, [Next]_keyVars PROVE TypeOK'
    OBVIOUS
  <1>1. ASSUME NEW r \in Replicas, Start(r) \/ Check(r) \/ CheckFails(r) PROVE TypeOK'
    BY <1>1 DEF Start, Check, CheckFails, Found
  <1>2. ASSUME NEW r \in Replicas, Make(r) PROVE TypeOK'
    BY <1>2 DEF Make, NewKey
  <1>3. ASSUME NEW r \in Replicas, Set(r) PROVE TypeOK'
    BY <1>3 DEF Set
  <1>4. ASSUME NEW r \in Replicas, SetFails(r) PROVE TypeOK'
    BY <1>4 DEF SetFails, Abort
  <1>5. ASSUME NEW r \in Replicas, WriteFile(r) PROVE TypeOK'
    BY <1>5 DEF WriteFile
  <1>6. ASSUME NEW r \in Replicas, WriteFileFails(r) PROVE TypeOK'
    BY <1>6 DEF WriteFileFails, PrintAnyway
  <1>7. ASSUME NEW r \in Replicas, Show(r) PROVE TypeOK'
    BY <1>7 DEF Show
  <1>8. ASSUME NEW r \in Replicas, Crash(r) PROVE TypeOK'
    BY <1>8 DEF Crash
  <1>9. ASSUME Rotate PROVE TypeOK'
    BY <1>9 DEF Rotate
  <1>10. CASE UNCHANGED keyVars
    BY <1>10 DEF keyVars
  <1> QED BY <1>1, <1>2, <1>3, <1>4, <1>5, <1>6, <1>7, <1>8, <1>9, <1>10 DEF Next

LEMMA ShownNext == TypeOK /\ ShownOrPending /\ [Next]_keyVars => ShownOrPending'
  <1> USE DEF TypeOK, Go, ShownOrPending
  <1> SUFFICES ASSUME TypeOK, ShownOrPending, [Next]_keyVars PROVE ShownOrPending'
    OBVIOUS
  <1>1. ASSUME NEW r \in Replicas, Start(r) \/ Check(r) \/ CheckFails(r) \/ Make(r)
        PROVE  ShownOrPending'
    BY <1>1 DEF Start, Check, CheckFails, Found, Make, NewKey
  <1>2. ASSUME NEW r \in Replicas, Set(r) PROVE ShownOrPending'
    BY <1>2 DEF Set
  <1>3. ASSUME NEW r \in Replicas, SetFails(r) PROVE ShownOrPending'
    BY <1>3 DEF SetFails, Abort
  <1>4. ASSUME NEW r \in Replicas, WriteFile(r) \/ WriteFileFails(r)
        PROVE  ShownOrPending'
    BY <1>4 DEF WriteFile, WriteFileFails, PrintAnyway
  <1>5. ASSUME NEW r \in Replicas, Show(r) PROVE ShownOrPending'
    BY <1>5 DEF Show
  <1>6. ASSUME NEW r \in Replicas, Crash(r) PROVE ShownOrPending'
    BY <1>6 DEF Crash
  <1>7. CASE Rotate \/ UNCHANGED keyVars
    BY <1>7 DEF Rotate, keyVars
  <1> QED BY <1>1, <1>2, <1>3, <1>4, <1>5, <1>6, <1>7 DEF Next

\* However many replicas race, the key that stays has been printed or is about
\* to be, unless its replica ended in between.
THEOREM ShownOrPendingCorrect == Spec => []ShownOrPending
  <1>1. Init => ShownOrPending
    BY DEF Init, ShownOrPending
  <1> QED BY <1>1, TypeInit, TypeNext, ShownNext, PTL DEF Spec

\* What a sole replica r maintains: it makes a key only while there is none.
Alone(r) ==
  /\ TypeOK
  /\ pc[r] \in {"make", "set"} => row = 0
  /\ pc[r] \in {"file", "print"} => row = mine[r] \/ mine[r] \in revoked
  /\ PrintedIsValid

LEMMA AloneNext ==
  ASSUME NEW r, Replicas = {r}, Alone(r), [Next]_keyVars
  PROVE  Alone(r)'
  <1> USE DEF Go, Alone, PrintedIsValid
  <1>1. TypeOK /\ TypeOK'
    BY TypeNext
  <1>2. 0 \notin printed /\ pc \in [Replicas -> {"down", "check", "make", "set", "file", "print", "up"}]
    BY <1>1 DEF TypeOK
  <1>3. CASE Start(r)
    BY <1>1, <1>2, <1>3 DEF Start
  <1>4. CASE Check(r) \/ CheckFails(r)
    BY <1>1, <1>2, <1>4 DEF Check, CheckFails, Found
  <1>5. CASE Make(r)
    BY <1>1, <1>2, <1>5 DEF Make
  <1>6. CASE Set(r)
    BY <1>1, <1>2, <1>6 DEF Set
  <1>7. CASE SetFails(r)
    BY <1>1, <1>2, <1>7 DEF SetFails, Abort
  <1>8. CASE WriteFile(r) \/ WriteFileFails(r)
    BY <1>1, <1>2, <1>8 DEF WriteFile, WriteFileFails, PrintAnyway
  <1>9. CASE Show(r)
    BY <1>1, <1>2, <1>9 DEF Show
  <1>10. CASE Crash(r)
    BY <1>1, <1>2, <1>10 DEF Crash
  <1>11. CASE Rotate
    BY <1>1, <1>2, <1>11 DEF Rotate
  <1>12. CASE UNCHANGED keyVars
    BY <1>1, <1>12 DEF keyVars
  <1> QED BY <1>3, <1>4, <1>5, <1>6, <1>7, <1>8, <1>9, <1>10, <1>11, <1>12 DEF Next

\* A sole replica never prints a key that it, or a later start, replaces.
THEOREM PrintedIsValidAlone ==
  ASSUME NEW r, Replicas = {r} PROVE Spec => []PrintedIsValid
  <1>1. Init => Alone(r)
    BY TypeInit DEF Init, Alone, PrintedIsValid
  <1>2. Alone(r) /\ [Next]_keyVars => Alone(r)'
    BY AloneNext
  <1>3. Alone(r) => PrintedIsValid
    BY DEF Alone
  <1> QED BY <1>1, <1>2, <1>3, PTL DEF Spec

-----------------------------------------------------------------------------
(* The process.                                                            *)

-----------------------------------------------------------------------------
(* The migration *)

\* The table the transaction is building.
Migrated == [i \in DOMAIN envs |-> IF schema = "bare" THEN 1 ELSE envs[i]]

\* What the transaction has done so far.
TxOK ==
  /\ stmt = "copy"   => tx = [envs |-> envs, new |-> NoRows, vars |-> vars, made |-> TRUE]
  /\ stmt = "drop"   => tx = [envs |-> envs, new |-> Migrated, vars |-> vars, made |-> TRUE]
  /\ stmt = "commit" => tx.new = Migrated /\ tx.vars = vars

\* Foreign keys are off for as long as the transaction is open, and the
\* default application exists before it begins.
Prepared ==
  /\ stmt \in {"create", "copy", "drop", "commit"} => fk = FALSE
  /\ stmt \notin {"pragma", "default"} => defaultApp
  /\ schema = "none" => DOMAIN envs = {}
  /\ schema = "bare" => \A i \in DOMAIN envs : envs[i] = 0
  /\ schema = "column" => \A i \in DOMAIN envs : envs[i] # 0

MigrationInv == MigrationTypeOK /\ NothingLost /\ AppsKept /\ TxOK /\ Prepared

LEMMA OldDatabaseOK == OldDatabase => MigrationInv
  <1> SUFFICES ASSUME OldDatabase PROVE MigrationInv
    OBVIOUS
  <1> USE DEF OldDatabase
  <1>1. MigrationTypeOK
    BY MigrationAssumption DEF MigrationTypeOK, Steps
  <1>2. NothingLost /\ AppsKept
    BY DEF NothingLost, AppsKept
  <1>3. TxOK /\ Prepared
    BY MigrationAssumption DEF TxOK, Prepared
  <1> QED BY <1>1, <1>2, <1>3 DEF MigrationInv

LEMMA MigrationStep ==
  ASSUME MigrationInv, [MigrationNext]_state
  PROVE  MigrationInv'
  <1> USE DEF MigrationInv, MigrationTypeOK, NothingLost, AppsKept, TxOK, Prepared, Steps
  <1>1. CASE Pragma
    BY <1>1 DEF Pragma, tables, Migrated
  <1>2. CASE EnsureDefaultApp
    BY <1>2 DEF EnsureDefaultApp, tables, Migrated
  <1>3. CASE Inspect
    BY <1>3 DEF Inspect, Migrated
  <1>4. CASE Off
    BY <1>4 DEF Off, TurnOff, tables, Migrated
  <1>5. CASE Create
    BY <1>5 DEF Create, tables, Migrated
  <1>6. CASE Copy
    <2>0. tx = [envs |-> envs, new |-> NoRows, vars |-> vars, made |-> TRUE]
      BY <1>6 DEF Copy
    <2>1. tx' = [envs |-> envs, new |-> CopyRows, vars |-> vars, made |-> TRUE]
      <3>1. tx' = [tx EXCEPT !.new = CopyRows]
        BY <1>6 DEF Copy
      <3> HIDE DEF TxOK
      <3> QED BY <2>0, <3>1
    <2>2. CopyRows = Migrated
      BY <1>6 DEF Copy, CopyRows, Migrated
    <2>3. Migrated' = Migrated
      BY <1>6 DEF Copy, tables, Migrated
    <2> QED BY <1>6, <2>1, <2>2, <2>3 DEF Copy, tables
  <1>7. CASE Drop
    <2>0. tx = [envs |-> envs, new |-> Migrated, vars |-> vars, made |-> TRUE] /\ fk = FALSE
      BY <1>7 DEF Drop
    <2>1. tx' = [envs |-> NoRows, new |-> Migrated, vars |-> vars, made |-> TRUE]
      <3>1. tx' = [tx EXCEPT !.envs = NoRows, !.vars = vars]
        BY <1>7, <2>0 DEF Drop
      <3> HIDE DEF TxOK
      <3> QED BY <2>0, <3>1
    <2>2. Migrated' = Migrated
      BY <1>7 DEF Drop, tables, Migrated
    <2>3. stmt' = "commit" /\ tx'.new = Migrated' /\ tx'.vars = vars'
      BY <1>7, <2>1, <2>2 DEF Drop, tables
    <2>4. TxOK'
      BY <2>3
    <2>5. UNCHANGED <<tables, defaultApp, fk, old>>
      BY <1>7 DEF Drop
    <2>6. UNCHANGED <<schema, envs, vars, scratch, defaultApp, fk, old>>
      BY <2>5 DEF tables
    <2>7. MigrationTypeOK'
      BY <2>3, <2>6
    <2>8. (NothingLost /\ AppsKept)'
      BY <2>6
    <2>9. Prepared'
      <3>1. defaultApp /\ fk = FALSE /\ Prepared
        BY <1>7, <2>0 DEF Drop
      <3> HIDE DEF TxOK, MigrationTypeOK, NothingLost, AppsKept, MigrationInv
      <3> QED BY <2>3, <2>6, <3>1
    <2> QED BY <2>4, <2>7, <2>8, <2>9
  <1>8. CASE Commit
    <2>1. envs' = Migrated /\ vars' = vars /\ schema' = "current" /\ stmt' = "on"
      BY <1>8 DEF Commit
    <2>2. DOMAIN envs' = DOMAIN envs
      BY <2>1 DEF Migrated
    <2>3. \A i \in DOMAIN envs : envs'[i] = IF schema = "bare" THEN 1 ELSE envs[i]
      BY <2>1 DEF Migrated
    <2>4. UNCHANGED <<old, defaultApp, fk, scratch>> /\ defaultApp
      BY <1>8 DEF Commit
    <2>5. AppsKept'
      BY <2>2, <2>3, <2>4
    <2>6. schema \in {"none", "bare", "column", "current"}
      OBVIOUS
    <2>7. \A i \in DOMAIN envs : envs'[i] \in Apps \cup {0}
      BY <2>3, MigrationAssumption
    <2>8. \A i \in DOMAIN envs : envs'[i] # 0
      BY <2>3
    <2> QED BY <2>1, <2>2, <2>4, <2>5, <2>7, <2>8
  <1>9. CASE On
    BY <1>9 DEF On, TurnOn, tables, Migrated
  <1>10. CASE Kill
    BY <1>10 DEF Kill, Rollback, Migrated
  <1>11. CASE UNCHANGED state
    BY <1>11 DEF state, Migrated
  <1>12. CASE Renew
    BY <1>12 DEF Renew, tables, Migrated
  <1> QED
    BY <1>1, <1>2, <1>3, <1>4, <1>5, <1>6, <1>7, <1>8, <1>9, <1>10, <1>11, <1>12
    DEF MigrationNext, Open

\* A migration alone, interrupted wherever it may be.
THEOREM MigrationCorrect == MigrationSpec => [](MigrationTypeOK /\ NothingLost /\ AppsKept)
  <1>1. MigrationInv => MigrationTypeOK /\ NothingLost /\ AppsKept
    BY DEF MigrationInv
  <1> QED BY <1>1, OldDatabaseOK, MigrationStep, PTL DEF MigrationSpec

-----------------------------------------------------------------------------
(* The process *)

\* What the process does to the key's state is a step of AdminKey, and what it
\* does to the database is a step of Migration.
LEMMA Composed ==
  ASSUME [ServerNext]_all
  PROVE  [Next]_keyVars /\ [MigrationNext]_state
  <1> USE DEF Next, MigrationNext
  <1>1. CASE Launch \/ Serve \/ Listen \/ ListenFails \/ Signal \/ Probe \/ TenSeconds \/ CloseStore
    BY <1>1 DEF Launch, Serve, Listen, ListenFails, Signal, Probe, Stop, TenSeconds, CloseStore
  <1>2. CASE OpenStep
    BY <1>2 DEF OpenStep
  <1>3. CASE Opened \/ KeyStep
    BY <1>3 DEF Opened, KeyStep
  <1>4. CASE Exit \/ KeyFails
    BY <1>4 DEF Exit, KeyFails, Ends
  <1>5. CASE Die
    BY <1>5 DEF Die, Ends
  <1>6. CASE NewKeyNeeded
    BY <1>6 DEF NewKeyNeeded
  <1>7. ASSUME NEW q \in Requests, Accept(q) \/ Store(q) \/ Refuse(q) \/ Answer(q)
        PROVE  UNCHANGED keyVars /\ UNCHANGED state
    BY <1>7 DEF Accept, Store, Refuse, Answer, Becomes
  <1>8. CASE UNCHANGED all
    BY <1>8 DEF all
  <1>9. CASE Renewed
    BY <1>9 DEF Renewed
  <1> QED
    BY <1>1, <1>2, <1>3, <1>4, <1>5, <1>6, <1>7, <1>8, <1>9 DEF ServerNext, Progress

\* Whatever interrupts it, at any of its starts, the server loses no row.
THEOREM NothingLostServed == ServerSpec => []NothingLost
  <1>1. ServerInit => MigrationInv
    BY OldDatabaseOK DEF ServerInit
  <1>2. MigrationInv /\ [ServerNext]_all => MigrationInv'
    BY Composed, MigrationStep
  <1>3. MigrationInv => NothingLost
    BY DEF MigrationInv
  <1> QED BY <1>1, <1>2, <1>3, PTL DEF ServerSpec

\* Every environment keeps its application, or becomes the default's.
THEOREM AppsKeptServed == ServerSpec => []AppsKept
  <1>1. ServerInit => MigrationInv
    BY OldDatabaseOK DEF ServerInit
  <1>2. MigrationInv /\ [ServerNext]_all => MigrationInv'
    BY Composed, MigrationStep
  <1>3. MigrationInv => AppsKept
    BY DEF MigrationInv
  <1> QED BY <1>1, <1>2, <1>3, PTL DEF ServerSpec

\* A key that some start printed is accepted until an operator deletes it.
THEOREM PrintedIsValidServed == ServerSpec => []PrintedIsValid
  <1>1. PICK r \in Replicas : Replicas = {r}
    BY ServerAssumption
  <1>2. ServerInit => Alone(r)
    BY <1>1, TypeInit DEF ServerInit, Init, Alone, PrintedIsValid
  <1>3. Alone(r) /\ [ServerNext]_all => Alone(r)'
    BY <1>1, Composed, AloneNext
  <1>4. Alone(r) => PrintedIsValid
    BY DEF Alone
  <1> QED BY <1>2, <1>3, <1>4, PTL DEF ServerSpec

\* The stored key has been printed, is about to be, or was lost with the
\* process that made it.
THEOREM ShownOrPendingServed == ServerSpec => []ShownOrPending
  <1>1. ServerInit => TypeOK /\ ShownOrPending
    BY TypeInit DEF ServerInit, Init, ShownOrPending
  <1>2. TypeOK /\ ShownOrPending /\ [ServerNext]_all => (TypeOK /\ ShownOrPending)'
    BY Composed, TypeNext, ShownNext
  <1> QED BY <1>1, <1>2, PTL DEF ServerSpec

\* Only main's wait for a signal has a listener; the store is closed when the
\* handlers have ended or the time is up.
GracefulInv ==
  /\ request \in [Requests -> {"new", "active", "stored", "answered", "refused", "cut"}]
  /\ listener = "open" => phase = "run"
  /\ phase \in {"down", "open", "key"} => listener = "none"
  /\ Graceful

\* A handler meets a closed store only ten seconds after the signal.
THEOREM GracefulServed == ServerSpec => []Graceful
  <1>1. ServerInit => GracefulInv
    BY DEF ServerInit, GracefulInv, Graceful
  <1>2. ASSUME GracefulInv, [ServerNext]_all PROVE GracefulInv'
    <2> USE <1>2 DEF GracefulInv, Graceful, Busy, Moves
    <2>1. CASE Launch \/ Opened \/ Serve
      BY <2>1 DEF Launch, Opened, Serve
    <2>2. CASE OpenStep \/ Renewed \/ KeyStep \/ NewKeyNeeded
      BY <2>2 DEF OpenStep, Renewed, KeyStep, NewKeyNeeded, process
    <2>3. CASE Listen \/ ListenFails
      BY <2>3 DEF Listen, Listens, ListenFails
    <2>4. CASE Signal \/ Probe \/ TenSeconds
      BY <2>4 DEF Signal, Probe, Stop, TenSeconds
    <2>5. CASE CloseStore
      BY <2>5 DEF CloseStore, Returns
    <2>6. CASE Exit \/ KeyFails \/ Die
      BY <2>6 DEF Exit, KeyFails, Die, Ends
    <2>7. ASSUME NEW q \in Requests, Accept(q) PROVE GracefulInv'
      BY <2>7 DEF Accept, Becomes, process
    <2>8. ASSUME NEW q \in Requests, Store(q) \/ Refuse(q) \/ Answer(q)
          PROVE  GracefulInv'
      <3>1. Busy' \subseteq Busy
        BY <2>8 DEF Store, Refuse, Answer, Becomes
      <3> QED BY <2>8, <3>1 DEF Store, Refuse, Answer, Becomes, process
    <2>9. CASE UNCHANGED all
      BY <2>9 DEF all, process
    <2> QED
      BY <2>1, <2>2, <2>3, <2>4, <2>5, <2>6, <2>7, <2>8, <2>9 DEF ServerNext, Progress
  <1>3. GracefulInv => Graceful
    BY DEF GracefulInv
  <1> QED BY <1>1, <1>2, <1>3, PTL DEF ServerSpec
=============================================================================
