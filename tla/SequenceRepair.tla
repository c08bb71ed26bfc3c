--------------------------- MODULE SequenceRepair ---------------------------
(***************************************************************************)
(* The ids of the applications on Postgres: CreateApp takes them from a    *)
(* sequence, ensureDefaultApp does not, and openPostgres repairs the       *)
(* sequence each time a replica starts (web/internal/storage/sqlite.go).   *)
(* A statement's effects are visible to others when it ends, those on a    *)
(* sequence at once.  The names that are created are all different.        *)
(***************************************************************************)
EXTENDS Naturals

CONSTANTS Replicas, Creates, \* replicas; calls of CreateApp at a time
          MaxId              \* bound on the sequence

ASSUME SequenceAssumption == MaxId \in Nat \ {0}

VARIABLES apps,  \* ids of the applications that are committed
          seq,   \* last value of the sequence, 0 before its first use
          open,  \* of each replica: "down", "migrate", "repair" or "up"
          max,   \* MAX(id) the repair of a replica has read
          taken, \* of each call: the id its INSERT took, 0 if there is none
          at,    \* the replica that runs it
          reply, \* what CreateApp returned; "lost" with the replica's process
          spanning, \* of each repair: the ids INSERTs have held since it read MAX(id)
          spanned   \* the same of the repair that set the sequence last

ghosts == <<spanning, spanned>>
vars   == <<apps, seq, open, max, taken, at, reply, ghosts>>

\* No INSERT has begun.
None == 0
Held == {taken[c] : c \in Creates} \ {None}

Init ==
  /\ apps = {} /\ seq = 0
  /\ open = [r \in Replicas |-> "down"]
  /\ max = [r \in Replicas |-> 0]
  /\ taken = [c \in Creates |-> None]
  /\ at \in [Creates -> Replicas]
  /\ reply = [c \in Creates |-> "none"]
  /\ spanning = [r \in Replicas |-> {}] /\ spanned = {}

Start(r) ==
  /\ open[r] = "down"
  /\ open' = [open EXCEPT ![r] = "migrate"]
  /\ UNCHANGED <<apps, seq, max, taken, at, reply, ghosts>>

\* ensureDefaultApp, INSERT .. ON CONFLICT(id) DO NOTHING; then the repair's
\* subquery.
Migrate(r) ==
  /\ open[r] = "migrate"
  /\ apps' = apps \cup {1}
  /\ \E m \in apps' : /\ \A i \in apps' : i <= m
                      /\ max' = [max EXCEPT ![r] = m]
  /\ open' = [open EXCEPT ![r] = "repair"]
  /\ spanning' = [spanning EXCEPT ![r] = Held]
  /\ UNCHANGED <<seq, taken, at, reply, spanned>>

\* Mutant: setval(.., false), after which nextval returns m itself.
RepairLess(m) == seq' = m - 1
SetVal(m)     == seq' = m

Repair(r) ==
  /\ open[r] = "repair"
  /\ SetVal(max[r])
  /\ open' = [open EXCEPT ![r] = "up"]
  /\ spanned' = spanning[r]
  /\ spanning' = [spanning EXCEPT ![r] = {}]
  /\ UNCHANGED <<apps, max, taken, at, reply>>

\* A replica may end at any moment: killed, or ten seconds after a signal although
\* requests are in progress.  The database goes on with their INSERTs, which
\* nobody hears of.
End(r) ==
  /\ open[r] # "down"
  /\ open' = [open EXCEPT ![r] = "down"]
  /\ reply' = [c \in Creates |-> IF at[c] = r /\ taken[c] # None THEN "lost" ELSE reply[c]]
  /\ spanning' = [spanning EXCEPT ![r] = {}]
  /\ UNCHANGED <<apps, seq, max, taken, at, spanned>>

\* CreateApp: nextval ..
NextVal(c) ==
  /\ taken[c] = None
  /\ \E r \in Replicas : open[r] = "up" /\ at' = [at EXCEPT ![c] = r]
  /\ seq < MaxId
  /\ seq' = seq + 1
  /\ taken' = [taken EXCEPT ![c] = seq + 1]
  /\ reply' = [reply EXCEPT ![c] = "none"]
  /\ spanning' = [r \in Replicas |->
                    IF open[r] = "repair" THEN spanning[r] \cup {seq + 1} ELSE spanning[r]]
  /\ UNCHANGED <<apps, open, max, spanned>>

Answers(c, what) == reply' = [reply EXCEPT ![c] = IF @ = "lost" THEN @ ELSE what]

\* .. and the end of the INSERT: 23505 if the id exists.
Insert(c) ==
  /\ taken[c] # None
  /\ taken' = [taken EXCEPT ![c] = None]
  /\ IF taken[c] \in apps
     THEN Answers(c, "duplicate") /\ UNCHANGED apps
     ELSE Answers(c, "created") /\ apps' = apps \cup {taken[c]}
  /\ UNCHANGED <<seq, open, max, at, ghosts>>

\* The INSERT fails for another reason; the sequence keeps its value.
InsertFails(c) ==
  /\ taken[c] # None
  /\ taken' = [taken EXCEPT ![c] = None]
  /\ Answers(c, "error")
  /\ UNCHANGED <<apps, seq, open, max, at, ghosts>>

Deletable(i) == i # 1

DeleteApp(i) ==
  /\ \E r \in Replicas : open[r] = "up"
  /\ i \in apps /\ Deletable(i)
  /\ apps' = apps \ {i}
  /\ UNCHANGED <<seq, open, max, taken, at, reply, ghosts>>

Next ==
  \/ \E r \in Replicas : Start(r) \/ Migrate(r) \/ Repair(r) \/ End(r)
  \/ \E c \in Creates : NextVal(c) \/ Insert(c) \/ InsertFails(c)
  \/ \E i \in apps : DeleteApp(i)

Spec == Init /\ [][Next]_vars

-----------------------------------------------------------------------------
(* Properties *)

TypeOK ==
  /\ apps \subseteq 1 .. MaxId /\ seq \in 0 .. MaxId
  /\ \A r \in Replicas : open[r] \in {"repair", "up"} => 1 \in apps
  /\ open \in [Replicas -> {"down", "migrate", "repair", "up"}]
  /\ max \in [Replicas -> 0 .. MaxId]
  /\ taken \in [Creates -> 0 .. MaxId] /\ at \in [Creates -> Replicas]
  /\ reply \in [Creates -> {"none", "created", "duplicate", "error", "lost"}]
  /\ spanning \in [Replicas -> SUBSET (1 .. MaxId)] /\ spanned \subseteq 1 .. MaxId

\* sqlite.go, lines 124 to 127: the repair keeps phantom duplicate-key errors
\* away.  No new name is refused as a duplicate.
NoPhantom == \A c \in Creates : reply[c] # "duplicate"

\* What the repair does achieve, with any number of replicas that are started
\* and killed at any moment: an INSERT holds an id that exists, or that another
\* one holds, only if an INSERT held it while the last repair was under way.
Phantoms ==
  \A c \in Creates :
    \/ taken[c] \in apps
    \/ \E d \in Creates \ {c} : taken[c] # None /\ taken[c] = taken[d]
    => taken[c] \in spanned
=============================================================================
