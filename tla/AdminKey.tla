------------------------------ MODULE AdminKey ------------------------------
(***************************************************************************)
(* The API key's birth: every replica runs InitAdminKey when it starts     *)
(* (web/internal/auth/auth.go), then writes the key file and prints the    *)
(* key (web/cmd/server/main.go).  Only the hash is stored.  Replicas share *)
(* the database (Postgres); each has a directory of its own.               *)
(***************************************************************************)
EXTENDS Naturals

CONSTANTS Replicas,
          MaxKey    \* bound on the keys generated

ASSUME AdminKeyAssumption == MaxKey \in Nat

VARIABLES row,     \* api_key: the key whose hash is stored, 0 if there is none
          made,    \* last key generated: keys are random, no two are alike
          revoked, \* keys an operator deleted
          pc, mine, \* of each replica: what it does next, the key it generated
          file,    \* envious_api_key.txt in its directory, 0 if there is none
          logged,  \* the key its auth_keyfile_written entry stands for, or 0
          printed, \* keys shown on some replica's output
          lost     \* keys whose replica ended before it printed them

keyVars == <<row, made, revoked, pc, mine, file, logged, printed, lost>>

Keys    == 1 .. MaxKey
Partial == MaxKey + 1   \* a file that was created and lacks its key

Init ==
  /\ row = 0 /\ made = 0 /\ revoked = {}
  /\ pc = [r \in Replicas |-> "down"] /\ mine = [r \in Replicas |-> 0]
  /\ file = [r \in Replicas |-> 0] /\ logged = [r \in Replicas |-> 0]
  /\ printed = {} /\ lost = {}

Go(r, step) == pc' = [pc EXCEPT ![r] = step]

Start(r) ==
  /\ pc[r] = "down"
  /\ Go(r, "check")
  /\ mine' = [mine EXCEPT ![r] = 0] /\ logged' = [logged EXCEPT ![r] = 0]
  /\ UNCHANGED <<row, made, revoked, file, printed, lost>>

\* GetAPIKeyHash; ErrNotFound alone leads to a new key.
\* Mutant: any error does.
TakenForMissing(r) == Go(r, "make") \/ (row # 0 /\ Go(r, "up"))
Found(r)           == Go(r, IF row = 0 THEN "make" ELSE "up")

Check(r) ==
  /\ pc[r] = "check"
  /\ Found(r)
  /\ UNCHANGED <<row, made, revoked, mine, file, logged, printed, lost>>

\* Any other error ends the process.
CheckFails(r) ==
  /\ pc[r] = "check"
  /\ Go(r, "down")
  /\ UNCHANGED <<row, made, revoked, mine, file, logged, printed, lost>>

\* Mutant: generateAPIKey returns an empty key.
EmptyKey == 0
NewKey   == made + 1

Make(r) ==
  /\ pc[r] = "make"
  /\ made < MaxKey
  /\ made' = made + 1
  /\ mine' = [mine EXCEPT ![r] = NewKey]
  /\ Go(r, "set")
  /\ UNCHANGED <<row, revoked, file, logged, printed, lost>>

\* SetAPIKeyHash: ON CONFLICT(id) DO UPDATE.
Set(r) ==
  /\ pc[r] = "set"
  /\ row' = mine[r]
  /\ Go(r, "file")
  /\ UNCHANGED <<made, revoked, mine, file, logged, printed, lost>>

\* An error, which may hide a commit, ends the process.
\* Mutant: the key is announced nevertheless.
Announce(r) == Go(r, "file") /\ UNCHANGED lost
Abort(r)    == Go(r, "down") /\ lost' = lost \cup {mine[r]}

SetFails(r) ==
  /\ pc[r] = "set"
  /\ row' \in {row, mine[r]}
  /\ Abort(r)
  /\ UNCHANGED <<made, revoked, mine, file, logged, printed>>

\* writeInitialAPIKeyFile: O_EXCL; a file that exists is taken for written.
WriteFile(r) ==
  /\ pc[r] = "file"
  /\ file' = [file EXCEPT ![r] = IF @ = 0 THEN mine[r] ELSE @]
  /\ logged' = [logged EXCEPT ![r] = mine[r]]
  /\ Go(r, "print")
  /\ UNCHANGED <<row, made, revoked, mine, printed, lost>>

\* A failure to write it is logged; the server goes on.
\* Mutant: and forgets to print the key.
SkipPrint(r) == Go(r, "up")
PrintAnyway(r) == Go(r, "print")

WriteFileFails(r) ==
  /\ pc[r] = "file"
  /\ file' = [file EXCEPT ![r] = IF @ = 0 THEN Partial ELSE @] \/ UNCHANGED file
  /\ PrintAnyway(r)
  /\ UNCHANGED <<row, made, revoked, mine, logged, printed, lost>>

Show(r) ==
  /\ pc[r] = "print"
  /\ printed' = printed \cup {mine[r]}
  /\ Go(r, "up")
  /\ UNCHANGED <<row, made, revoked, mine, file, logged, lost>>

Crash(r) ==
  /\ pc[r] # "down"
  /\ Go(r, "down")
  /\ lost' = IF pc[r] \in {"file", "print"} THEN lost \cup {mine[r]} ELSE lost
  /\ UNCHANGED <<row, made, revoked, mine, file, logged, printed>>

\* DELETE FROM api_key: the first half of a rotation; a restart is the second.
Rotate ==
  /\ row # 0
  /\ revoked' = revoked \cup {row}
  /\ row' = 0
  /\ UNCHANGED <<made, pc, mine, file, logged, printed, lost>>

Next ==
  \/ Rotate
  \/ \E r \in Replicas :
       \/ Start(r) \/ Check(r) \/ CheckFails(r) \/ Make(r) \/ Set(r) \/ SetFails(r)
       \/ WriteFile(r) \/ WriteFileFails(r) \/ Show(r) \/ Crash(r)

Spec == Init /\ [][Next]_keyVars

-----------------------------------------------------------------------------
(* Properties *)

TypeOK ==
  /\ row \in 0 .. made /\ made \in 0 .. MaxKey
  /\ pc \in [Replicas -> {"down", "check", "make", "set", "file", "print", "up"}]
  /\ mine \in [Replicas -> 0 .. made]
  /\ \A r \in Replicas : pc[r] \in {"set", "file", "print"} => mine[r] # 0
  /\ file \in [Replicas -> (0 .. made) \cup {Partial}] /\ logged \in [Replicas -> 0 .. made]
  /\ revoked \cup printed \cup lost \subseteq 1 .. made

\* A key that was printed is accepted until an operator deletes it.
PrintedIsValid == \A k \in printed : row = k \/ k \in revoked

\* Whoever wins, the key that is stored has been printed or is about to be,
\* unless its replica ended in between.
ShownOrPending ==
  row = 0 \/ row \in printed \cup lost
          \/ \E r \in Replicas : mine[r] = row /\ pc[r] \in {"file", "print"}

-----------------------------------------------------------------------------
(* What the documentation says and TLC refutes: see README.md.  No run      *)
(* checks these.                                                           *)

\* auth.go, lines 16 and 17: the key is returned for one-time display.  Once
\* every replica is up, the key that is stored has been displayed.
KeyDisplayed ==
  (\A r \in Replicas : pc[r] = "up") => row = 0 \/ row \in printed

\* USER_GUIDE.md, section 18: after a rotation the fresh key is in the file.
FileIsFresh == \A r \in Replicas : logged[r] # 0 => file[r] = logged[r]
=============================================================================
