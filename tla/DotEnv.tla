------------------------------- MODULE DotEnv -------------------------------
(***************************************************************************)
(* The .env text that variable export writes (cli/cmd/vars.go) and that    *)
(* variable import and the dashboard's import (web/internal/api/server.go) *)
(* read.  A text is a sequence of characters; " " stands for every blank   *)
(* but the line break.                                                     *)
(***************************************************************************)
EXTENDS Integers, Sequences, SequencesExt

Break  == "\n"
Blanks == {" ", Break}

\* strings.TrimSpace
Trim(s) ==
  LET kept == {i \in DOMAIN s : s[i] \notin Blanks}
  IN IF kept = {} THEN <<>> ELSE SubSeq(s, Min(kept), Max(kept))

\* The export: one line for each variable, the value as it is.
Format(vars) == FlattenSeq([n \in DOMAIN vars |->
                              vars[n].key \o <<"=">> \o vars[n].value \o <<Break>>])

\* A finite set of numbers in ascending order.  It says what SetToSortSeq does
\* without a choice of permutations.
Sorted(S) == [n \in 1 .. Cardinality(S) |->
                CHOOSE i \in S : Cardinality({j \in S : j <= i}) = n]

\* bufio.ScanLines: a line ends before its break, the last one perhaps without.
Ends(text) == {i \in 1 .. Len(text) + 1 : IF i <= Len(text) THEN text[i] = Break
                                          ELSE text # <<>> /\ Last(text) # Break}

Lines(text) ==
  LET ends == Sorted(Ends(text))
  IN [n \in DOMAIN ends |->
        SubSeq(text, IF n = 1 THEN 1 ELSE ends[n - 1] + 1, ends[n] - 1)]

\* Where a line is divided: at its first "=".
Signs(l) == {i \in DOMAIN l : l[i] = "="}
At(l)    == Min(Signs(l))

\* Empty lines, comments and lines without a key are passed over.
Assigns(l) == l # <<>> /\ Head(l) # "#" /\ Signs(l) # {} /\ At(l) > 1

\* Mutant: the value is trimmed, too.
Trimmed(l)    == [key |-> Trim(SubSeq(l, 1, At(l) - 1)), value |-> Trim(SubSeq(l, At(l) + 1, Len(l)))]
Assignment(l) == [key |-> Trim(SubSeq(l, 1, At(l) - 1)), value |-> SubSeq(l, At(l) + 1, Len(l))]

\* What the imports store, in the order of the lines: each line is trimmed first.
Parse(text) ==
  LET lines == Lines(text)
      kept  == Sorted({n \in DOMAIN lines : Assigns(Trim(lines[n]))})
  IN [n \in DOMAIN kept |-> Assignment(Trim(lines[kept[n]]))]

\* A variable that comes back from export and import as it was.
Clean(v) ==
  /\ v.key = Trim(v.key) /\ Head(v.key) # "#" /\ Signs(v.key) = {}
  /\ \A i \in DOMAIN v.key : v.key[i] # Break
  /\ \A i \in DOMAIN v.value : v.value[i] # Break
  /\ v.value # <<>> => v.value[Len(v.value)] \notin Blanks
=============================================================================
