----------------------------- MODULE AuthCache -----------------------------
(***************************************************************************)
(* CachedVerifier (web/internal/auth/auth.go): the API key's hash, kept in *)
(* memory for TTL.  The mutex covers the look at the cache and the write   *)
(* of the cache; the database is read in between, without it.              *)
(*                                                                         *)
(* A hash is named by the number of its key: keys are random, no two are   *)
(* alike.  Time is counted in ticks; a decision takes none.                *)
(***************************************************************************)
EXTENDS Naturals

CONSTANTS Slots,    \* requests verified at a time
          TTL,      \* AUTH_CACHE_TTL_SECONDS; 0 disables the cache
          MaxDelay, \* assumed: ticks between the database's read and its use
          MaxKey,   \* bound on the number of keys
          MaxTime   \* bound on the clock

ASSUME AuthAssumption ==
  /\ TTL \in Nat /\ MaxDelay \in Nat /\ MaxTime \in Nat /\ MaxKey \in Nat \ {0}

VARIABLES now,     \* the clock
          key,     \* api_key: the current key, 0 if the row was deleted
          newest,  \* last key made
          since,   \* when the row changed last
          last,    \* when each key was current last
          cache,   \* CachedVerifier: hash (0 is "") and at
          pc, offered, got, readAt, \* of each slot: what it does, its key, what it read
          verdict, decided          \* and what came of it, and when

db    == <<key, newest, since, last>>
slots == <<pc, offered, got, readAt, verdict, decided>>
vars  == <<now, key, newest, since, last, cache,
           pc, offered, got, readAt, verdict, decided>>

Keys == 1 .. MaxKey

Init ==
  /\ now = 0
  /\ key = 1 /\ newest = 1 /\ since = 0
  /\ last = [k \in Keys |-> 0]
  /\ cache = [hash |-> 0, at |-> 0]
  /\ pc = [s \in Slots |-> "idle"]
  /\ offered = [s \in Slots |-> 1] /\ got = [s \in Slots |-> 0]
  /\ readAt = [s \in Slots |-> 0]
  /\ verdict = [s \in Slots |-> "none"] /\ decided = [s \in Slots |-> 0]

Decide(s, k, hash) ==
  /\ verdict' = [verdict EXCEPT ![s] = IF k = hash THEN "accepted" ELSE "rejected"]
  /\ decided' = [decided EXCEPT ![s] = now]
  /\ pc' = [pc EXCEPT ![s] = "idle"]

\* Mutant: the entry lives through its last tick.
FreshTooLong == TTL > 0 /\ cache.hash # 0 /\ now - cache.at <= TTL
Fresh        == TTL > 0 /\ cache.hash # 0 /\ now - cache.at < TTL

\* A request with key k looks at the cache, under the mutex.
Look(s, k) ==
  /\ pc[s] = "idle"
  /\ offered' = [offered EXCEPT ![s] = k]
  /\ \/ Fresh /\ Decide(s, k, cache.hash)
     \/ /\ ~Fresh
        /\ pc' = [pc EXCEPT ![s] = "read"]
        /\ verdict' = [verdict EXCEPT ![s] = "none"]
        /\ UNCHANGED decided
  /\ UNCHANGED <<now, db, cache, got, readAt>>

\* GetAPIKeyHash, without the mutex.
Read(s) ==
  /\ pc[s] = "read"
  /\ key # 0
  /\ got' = [got EXCEPT ![s] = key]
  /\ readAt' = [readAt EXCEPT ![s] = now]
  /\ pc' = [pc EXCEPT ![s] = "store"]
  /\ UNCHANGED <<now, db, cache, offered, verdict, decided>>

\* An error, or no row: the request is rejected and the cache left alone.
\* Mutant: what was in the cache is used.
UseStale(s)  == Decide(s, offered[s], cache.hash)
UseNone(s)   == /\ verdict' = [verdict EXCEPT ![s] = "failed"]
                /\ decided' = [decided EXCEPT ![s] = now]
                /\ pc' = [pc EXCEPT ![s] = "idle"]

ReadFails(s) ==
  /\ pc[s] = "read"
  /\ UseNone(s)
  /\ UNCHANGED <<now, db, cache, offered, got, readAt>>

\* The cache takes the hash and the time of now, not that of the read.
\* Mutant: the time is that of the entry's end.
CachedUntil(s) == [hash |-> got[s], at |-> now + TTL]
Cached(s)      == IF TTL > 0 THEN [hash |-> got[s], at |-> now] ELSE cache

Store(s) ==
  /\ pc[s] = "store"
  /\ cache' = Cached(s)
  /\ Decide(s, offered[s], got[s])
  /\ got' = [got EXCEPT ![s] = 0] /\ readAt' = [readAt EXCEPT ![s] = 0]
  /\ UNCHANGED <<now, db, offered>>

\* SetAPIKeyHash, or DELETE FROM api_key, by an operator or another replica.
Rotate ==
  /\ newest < MaxKey
  /\ newest' = newest + 1
  /\ key' = newest'
  /\ since' = now
  /\ last' = [last EXCEPT ![newest'] = now]
  /\ UNCHANGED <<now, cache, slots>>

Delete ==
  /\ key # 0
  /\ key' = 0
  /\ since' = now
  /\ UNCHANGED <<now, newest, last, cache, slots>>

Tick ==
  /\ now < MaxTime
  /\ \A s \in Slots : pc[s] = "store" => now < readAt[s] + MaxDelay
  /\ now' = now + 1
  /\ last' = [k \in Keys |-> IF k = key THEN now + 1 ELSE last[k]]
  /\ UNCHANGED <<key, newest, since, cache, slots>>

Next ==
  \/ \E s \in Slots :
       (\E k \in Keys : Look(s, k)) \/ Read(s) \/ ReadFails(s) \/ Store(s)
  \/ Rotate \/ Delete \/ Tick

Spec == Init /\ [][Next]_vars

-----------------------------------------------------------------------------
(* Properties *)

TypeOK ==
  /\ now \in Nat /\ since \in 0 .. now
  /\ key \in 0 .. MaxKey /\ newest \in Keys
  /\ last \in [Keys -> Nat]
  /\ cache \in [hash : IF TTL > 0 THEN 0 .. MaxKey ELSE {0}, at : 0 .. now]
  /\ pc \in [Slots -> {"idle", "read", "store"}]
  /\ offered \in [Slots -> Keys] /\ got \in [Slots -> 0 .. MaxKey]
  /\ readAt \in [Slots -> Nat] /\ decided \in [Slots -> Nat]
  /\ verdict \in [Slots -> {"none", "accepted", "rejected", "failed"}]

\* How far a decision can be behind the database.
Lag == IF TTL = 0 THEN MaxDelay ELSE MaxDelay + TTL - 1

\* A key is accepted no later than Lag after it was current last: the hash
\* that was read before a rotation is stored after it, with a full TTL to go.
OldKeyExpires ==
  \A s \in Slots :
    verdict[s] = "accepted" => decided[s] <= last[offered[s]] + Lag

\* A key that has been current for more than Lag is not rejected.
NewKeyArrives ==
  \A s \in Slots : offered[s] = key /\ verdict[s] = "rejected"
                     => decided[s] <= since + Lag

-----------------------------------------------------------------------------
(* What the documentation says and TLC refutes: see README.md.  No run      *)
(* checks it.                                                              *)

\* auth.go, line 51: a rotation takes effect on reload.  What was reloaded is
\* not followed by an older key.
RotationIsFinal == [][cache'.hash >= cache.hash]_vars
=============================================================================
