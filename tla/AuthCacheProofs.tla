-------------------------- MODULE AuthCacheProofs --------------------------
(* Proofs about AuthCache, for every TTL, delay and number of requests.    *)
EXTENDS AuthCache, TLAPS

\* The clock, the current key and the keys before it.
Times ==
  /\ key <= newest
  /\ key # 0 => last[key] = now
  /\ \A k \in Keys : last[k] <= now /\ (k # key => last[k] <= since)

\* What is cached, or about to be, is not older than MaxDelay.
Behind ==
  /\ cache.hash # 0 => cache.at <= last[cache.hash] + MaxDelay
  /\ \A s \in Slots : pc[s] = "store" => /\ got[s] \in Keys
                                         /\ readAt[s] <= last[got[s]]
                                         /\ now <= readAt[s] + MaxDelay

DecidedPast == \A s \in Slots : decided[s] <= now

LagInv ==
  /\ TypeOK /\ Times /\ Behind /\ DecidedPast
  /\ OldKeyExpires /\ NewKeyArrives

LEMMA LagType == Lag \in Nat /\ MaxDelay <= Lag /\ (TTL > 0 => Lag = MaxDelay + TTL - 1)
  BY AuthAssumption DEF Lag

LEMMA InitLag == Init => LagInv
  <1> USE AuthAssumption
  <1> SUFFICES ASSUME Init PROVE LagInv
    OBVIOUS
  <1>1. TypeOK
    BY DEF Init, TypeOK, Keys
  <1>2. Times /\ Behind /\ DecidedPast
    BY DEF Init, Times, Behind, DecidedPast, Keys
  <1>3. OldKeyExpires /\ NewKeyArrives
    BY DEF Init, OldKeyExpires, NewKeyArrives
  <1> QED BY <1>1, <1>2, <1>3 DEF LagInv

\* A decision by a hash that was current within Lag is right within Lag.
LEMMA Decision ==
  ASSUME LagInv, NEW s \in Slots, NEW k \in Keys, NEW hash \in Keys,
         Decide(s, k, hash), offered' = [offered EXCEPT ![s] = k],
         now <= last[hash] + Lag, UNCHANGED <<now, db>>
  PROVE  DecidedPast' /\ OldKeyExpires' /\ NewKeyArrives'
  <1> USE AuthAssumption, LagType DEF LagInv
  <1>1. /\ decided' = [decided EXCEPT ![s] = now]
        /\ verdict' = [verdict EXCEPT ![s] =
                         IF k = hash THEN "accepted" ELSE "rejected"]
    BY DEF Decide
  <1>2. UNCHANGED <<now, key, since, last>>
    BY DEF db
  <1>3. now \in Nat /\ since \in Nat /\ last[hash] \in Nat
    BY DEF TypeOK
  <1>4. hash # key => now <= since + Lag
    BY <1>3 DEF Times
  <1>5. DecidedPast'
    BY <1>1, <1>2, <1>3 DEF DecidedPast, TypeOK
  <1>6. OldKeyExpires'
    BY <1>1, <1>2 DEF OldKeyExpires, TypeOK
  <1>7. NewKeyArrives'
    BY <1>1, <1>2, <1>4 DEF NewKeyArrives, TypeOK
  <1> QED BY <1>5, <1>6, <1>7

LEMMA LookLag ==
  ASSUME LagInv, NEW s \in Slots, NEW k \in Keys, Look(s, k)
  PROVE  LagInv'
  <1> USE AuthAssumption, LagType DEF LagInv
  <1>1. UNCHANGED <<now, key, newest, since, last, cache, got, readAt>>
    BY DEF Look, db
  <1>2. TypeOK'
    BY <1>1 DEF Look, Decide, TypeOK
  <1>3. Times' /\ Behind'
    BY <1>1 DEF Look, Decide, Times, Behind, TypeOK
  <1>4. CASE Fresh /\ Decide(s, k, cache.hash)
    <2>1. cache.hash \in Keys /\ cache.at \in Nat /\ last[cache.hash] \in Nat
      BY <1>4 DEF Fresh, TypeOK, Keys
    <2>2. now <= last[cache.hash] + Lag
      BY <1>4, <2>1 DEF Fresh, Behind, TypeOK
    <2>3. DecidedPast' /\ OldKeyExpires' /\ NewKeyArrives'
      BY <1>4, <2>1, <2>2, Decision DEF Look
    <2> QED BY <1>2, <1>3, <2>3
  <1>5. CASE ~Fresh
    <2>1. /\ verdict' = [verdict EXCEPT ![s] = "none"]
          /\ offered' = [offered EXCEPT ![s] = k]
          /\ UNCHANGED decided
      BY <1>5 DEF Look
    <2>2. DecidedPast' /\ OldKeyExpires' /\ NewKeyArrives'
      BY <1>1, <2>1 DEF DecidedPast, OldKeyExpires, NewKeyArrives, TypeOK
    <2> QED BY <1>2, <1>3, <2>2
  <1> QED BY <1>4, <1>5 DEF Look

LEMMA StoreLag ==
  ASSUME LagInv, NEW s \in Slots, Store(s)
  PROVE  LagInv'
  <1> USE AuthAssumption, LagType DEF LagInv
  <1>1. /\ UNCHANGED <<now, key, newest, since, last, offered>>
        /\ pc[s] = "store" /\ Decide(s, offered[s], got[s])
        /\ got' = [got EXCEPT ![s] = 0] /\ readAt' = [readAt EXCEPT ![s] = 0]
        /\ pc' = [pc EXCEPT ![s] = "idle"]
    BY DEF Store, Decide, db
  <1>2. /\ got[s] \in Keys /\ offered[s] \in Keys
        /\ now <= last[got[s]] + MaxDelay /\ last[got[s]] \in Nat
    BY <1>1 DEF Behind, TypeOK
  <1>3. /\ cache'.hash # 0 => cache'.hash \in Keys /\ cache'.at <= last[cache'.hash] + MaxDelay
        /\ cache' \in [hash : IF TTL > 0 THEN 0 .. MaxKey ELSE {0}, at : 0 .. now]
    BY <1>2 DEF Store, Cached, Behind, TypeOK, Keys
  <1>4. TypeOK'
    BY <1>1, <1>3 DEF Decide, TypeOK
  <1>5. Times' /\ Behind'
    BY <1>1, <1>3 DEF Times, Behind, TypeOK
  <1>6. offered' = [offered EXCEPT ![s] = offered[s]]
    BY <1>1 DEF TypeOK
  <1>7. now <= last[got[s]] + Lag
    BY <1>2 DEF TypeOK
  <1>8. DecidedPast' /\ OldKeyExpires' /\ NewKeyArrives'
    BY <1>1, <1>2, <1>6, <1>7, Decision DEF Store
  <1> QED BY <1>4, <1>5, <1>8

LEMMA NextLag == LagInv /\ [Next]_vars => LagInv'
  <1> USE AuthAssumption, LagType DEF LagInv
  <1> SUFFICES ASSUME LagInv, [Next]_vars PROVE LagInv'
    OBVIOUS
  <1>1. ASSUME NEW s \in Slots, Read(s) PROVE LagInv'
    <2>1. /\ UNCHANGED <<now, key, newest, since, last, cache, offered, verdict, decided>>
          /\ got' = [got EXCEPT ![s] = key] /\ readAt' = [readAt EXCEPT ![s] = now]
          /\ pc' = [pc EXCEPT ![s] = "store"] /\ key # 0
      BY <1>1 DEF Read, db
    <2>2. key \in Keys /\ last[key] = now
      BY <2>1 DEF Times, TypeOK, Keys
    <2>3. TypeOK'
      BY <2>1 DEF TypeOK
    <2>4. Times' /\ DecidedPast' /\ OldKeyExpires' /\ NewKeyArrives'
      BY <2>1 DEF Times, DecidedPast, OldKeyExpires, NewKeyArrives
    <2>5. Behind'
      BY <2>1, <2>2 DEF Behind, TypeOK
    <2> QED BY <2>3, <2>4, <2>5
  <1>2. ASSUME NEW s \in Slots, ReadFails(s) PROVE LagInv'
    <2>1. /\ UNCHANGED <<now, key, newest, since, last, cache, offered, got, readAt>>
          /\ verdict' = [verdict EXCEPT ![s] = "failed"]
          /\ decided' = [decided EXCEPT ![s] = now]
          /\ pc' = [pc EXCEPT ![s] = "idle"]
      BY <1>2 DEF ReadFails, UseNone, db
    <2>2. TypeOK'
      BY <2>1 DEF TypeOK
    <2>3. Times' /\ Behind'
      BY <2>1 DEF Times, Behind, TypeOK
    <2>4. DecidedPast' /\ OldKeyExpires' /\ NewKeyArrives'
      BY <2>1 DEF DecidedPast, OldKeyExpires, NewKeyArrives, TypeOK
    <2> QED BY <2>2, <2>3, <2>4
  <1>3. ASSUME Rotate PROVE LagInv'
    <2>1. /\ newest < MaxKey /\ newest' = newest + 1 /\ key' = newest + 1
          /\ since' = now /\ last' = [last EXCEPT ![newest + 1] = now]
          /\ UNCHANGED <<now, cache, pc, offered, got, readAt, verdict, decided>>
      BY <1>3 DEF Rotate, slots
    <2>2. newest + 1 \in Keys /\ now \in Nat
      BY <2>1 DEF TypeOK, Keys
    <2>3. TypeOK'
      BY <2>1, <2>2 DEF TypeOK, Keys
    <2>4. \A k \in Keys : last[k] <= last'[k] /\ last'[k] <= now
      BY <2>1, <2>2 DEF Times, TypeOK
    <2>5. Times'
      BY <2>1, <2>2, <2>4 DEF Times, TypeOK
    <2>6. Behind'
      BY <2>1, <2>3, <2>4 DEF Behind, TypeOK, Keys
    <2>7. DecidedPast' /\ OldKeyExpires'
      BY <2>1, <2>3, <2>4 DEF DecidedPast, OldKeyExpires, TypeOK
    <2>8. NewKeyArrives'
      BY <2>1, <2>2 DEF NewKeyArrives, DecidedPast, TypeOK
    <2> QED BY <2>3, <2>5, <2>6, <2>7, <2>8
  <1>4. ASSUME Delete PROVE LagInv'
    <2>1. /\ key' = 0 /\ since' = now
          /\ UNCHANGED <<now, newest, last, cache, pc, offered, got, readAt, verdict, decided>>
      BY <1>4 DEF Delete, slots
    <2>2. TypeOK'
      BY <2>1 DEF TypeOK
    <2>3. Times' /\ Behind' /\ DecidedPast' /\ OldKeyExpires'
      BY <2>1 DEF Times, Behind, DecidedPast, OldKeyExpires, TypeOK, Keys
    <2>4. NewKeyArrives'
      BY <2>1 DEF NewKeyArrives, TypeOK, Keys
    <2> QED BY <2>2, <2>3, <2>4
  <1>5. ASSUME Tick PROVE LagInv'
    <2>1. /\ now' = now + 1
          /\ \A s \in Slots : pc[s] = "store" => now < readAt[s] + MaxDelay
          /\ last' = [k \in Keys |-> IF k = key THEN now + 1 ELSE last[k]]
          /\ UNCHANGED <<key, newest, since, cache, pc, offered, got, readAt, verdict, decided>>
      BY <1>5 DEF Tick, slots
    <2>2. TypeOK'
      BY <2>1 DEF TypeOK
    <2>3. \A k \in Keys : last[k] <= last'[k] /\ last'[k] <= now'
      BY <2>1 DEF Times, TypeOK
    <2>4. Times'
      BY <2>1, <2>3 DEF Times, TypeOK, Keys
    <2>5. Behind'
      <3>1. cache.hash # 0 => cache.at <= last'[cache.hash] + MaxDelay
        <4>1. /\ cache.hash # 0 => cache.hash \in Keys
              /\ cache.at \in Nat
              /\ \A k \in Keys : last[k] \in Nat /\ last'[k] \in Nat
          BY <2>2 DEF TypeOK, Keys
        <4> QED BY <2>3, <4>1 DEF Behind
      <3>2. ASSUME NEW s \in Slots, pc[s] = "store"
            PROVE  /\ got[s] \in Keys /\ readAt[s] <= last'[got[s]]
                   /\ now' <= readAt[s] + MaxDelay
        <4>1. readAt[s] \in Nat /\ now \in Nat /\ now < readAt[s] + MaxDelay
          BY <2>1, <3>2 DEF TypeOK
        <4>2. got[s] \in Keys /\ readAt[s] <= last[got[s]]
          BY <3>2 DEF Behind
        <4>3. last[got[s]] \in Nat /\ last'[got[s]] \in Nat
          BY <2>2, <4>2 DEF TypeOK
        <4> QED BY <2>1, <2>3, <4>1, <4>2, <4>3
      <3> QED BY <2>1, <3>1, <3>2 DEF Behind
    <2>6. DecidedPast' /\ OldKeyExpires' /\ NewKeyArrives'
      BY <2>1, <2>2, <2>3 DEF DecidedPast, OldKeyExpires, NewKeyArrives, TypeOK
    <2> QED BY <2>2, <2>4, <2>5, <2>6
  <1>6. CASE UNCHANGED vars
    BY <1>6 DEF vars, TypeOK, Times, Behind, DecidedPast, OldKeyExpires, NewKeyArrives
  <1> QED BY <1>1, <1>2, <1>3, <1>4, <1>5, <1>6, LookLag, StoreLag DEF Next

LEMMA LagInvariance == Spec => []LagInv
  BY InitLag, NextLag, PTL DEF Spec

\* A key is accepted at most Lag after it was current last.
THEOREM OldKeyExpiresCorrect == Spec => []OldKeyExpires
  BY LagInvariance, PTL DEF LagInv

\* A key that has been current for more than Lag is not rejected.
THEOREM NewKeyArrivesCorrect == Spec => []NewKeyArrives
  BY LagInvariance, PTL DEF LagInv
=============================================================================
