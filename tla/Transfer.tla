------------------------------ MODULE Transfer ------------------------------
(***************************************************************************)
(* envious variable export > file, then an import of the file by the CLI   *)
(* (cli/cmd/vars.go) or on the dashboard (handleAdminImportVars), often on *)
(* another server: logins change the configuration, others write, servers  *)
(* are restarted and requests fail in between.                             *)
(***************************************************************************)
EXTENDS Contents, CliConfig

ASSUME TransferAssumption == Bases = Servers

VARIABLE move \* the export and import under way

\* For the properties: the server of the export, those whose environment others
\* have changed since, whether the import's was empty and has not been restarted.
Unmoved == [at |-> "rest", via |-> "cli", client |-> Default, vars |-> <<>>, left |-> <<>>,
            source |-> Local, touched |-> {}, fresh |-> FALSE, steady |-> FALSE]

Target == move.client.base

TransferInit == ContentsInit /\ ConfigInit /\ move = Unmoved

Idle == UNCHANGED <<config, server>>

\* loadClient, once for a command: a configuration that does not load, or has no
\* key, is an error.
Client == Loaded(file)
Usable == Decodes(file) /\ Client.base # NotGiven /\ Client.key # NotGiven

Starts(from, to) ==
  /\ move.at = from
  /\ Usable
  /\ move' = [move EXCEPT !.at = to, !.via = "cli", !.client = Client]

ExportStarts == Starts("rest", "list") /\ Idle

\* The server accepts its own key only.
Accepts(c) == c.key = c.base

\* ListVars: all the variables, in order, or an error when one does not open.
Export ==
  /\ move.at = "list"
  /\ LET s == move.client.base
     IN \/ /\ Accepts(move.client)
           /\ \A k \in Stored(s) : Opens(secret[s], rows[s][k])
           /\ LET Given(k) == [key |-> k, value |-> Opened(secret[s], rows[s][k])]
                  vars     == [n \in DOMAIN Order(s) |-> Given(Order(s)[n])]
              IN move' = [move EXCEPT !.at = "file", !.vars = vars, !.source = s]
        \/ /\ ~Accepts(move.client) \/ \E k \in Stored(s) : ~Opens(secret[s], rows[s][k])
           /\ move' = [move EXCEPT !.at = "failed"]
  /\ Idle

\* The file is opened and read line by line.
Imports(m, s) == [m EXCEPT !.at = "import", !.left = Parse(Format(m.vars)),
                           !.fresh = Stored(s) = {}, !.steady = TRUE]

ImportStarts ==
  /\ move.at = "file"
  /\ Usable
  /\ move' = Imports([move EXCEPT !.client = Client], Client.base)
  /\ Idle

Upload(s) ==
  /\ move.at = "file"
  /\ move' = Imports([move EXCEPT !.via = "dashboard", !.client = [base |-> s, key |-> s]], s)
  /\ Idle

\* SetVar
Line ==
  /\ move.at = "import" /\ move.left # <<>>
  /\ IF Accepts(move.client)
        THEN /\ Put(Target, Head(move.left).key, Head(move.left).value)
             /\ move' = [move EXCEPT !.left = Tail(@)]
        ELSE UNCHANGED rows /\ move' = [move EXCEPT !.at = "failed"]
  /\ UNCHANGED <<config, secret, bared, walk, events>>

\* A line is refused or its answer lost: the CLI ends with an error, the
\* dashboard goes on with the next line.
LineFails ==
  /\ move.at = "import" /\ move.left # <<>>
  /\ Counted
  /\ move' = IF move.via = "cli" THEN [move EXCEPT !.at = "failed"]
             ELSE [move EXCEPT !.left = Tail(@), !.touched = @ \cup {Target}]
  /\ \/ Put(Target, Head(move.left).key, Head(move.left).value)
     \/ UNCHANGED rows
  /\ UNCHANGED <<config, secret, bared, walk>>

ImportEnds ==
  /\ move.at = "import" /\ move.left = <<>>
  /\ move' = [move EXCEPT !.at = "done"]
  /\ Idle

\* Another one can begin.
MoveEnds ==
  /\ move.at \in {"done", "failed"}
  /\ Counted
  /\ move' = Unmoved
  /\ UNCHANGED <<config, data, walk>>

Moves == ExportStarts \/ Export \/ ImportStarts \/ (\E s \in Servers : Upload(s))
         \/ Line \/ LineFails \/ ImportEnds \/ MoveEnds

Others(s) ==
  /\ Changes(s)
  /\ move' = [move EXCEPT !.touched = IF move.at \in {"rest", "list"} THEN {} ELSE @ \cup {s}]
  /\ UNCHANGED config

\* The dashboard's import is one request: it ends with the server.
ServerRestarts(s) ==
  /\ Restarts(s)
  /\ move' = [move EXCEPT !.at = IF @ = "import" /\ move.via = "dashboard" /\ s = Target
                                 THEN "failed" ELSE @,
                          !.steady = @ /\ s # Target]
  /\ UNCHANGED config

\* A walk changes nothing and takes an import's writes for those of others, so
\* the commands of the CLI and a walk are not under way at the same time.
Commands ==
  \/ Moves
  \/ LoginSteps /\ UNCHANGED <<server, move>>
  \/ \E l \in Logins, new \in Configs : LoginLoads(l, new) /\ Counted /\ UNCHANGED <<data, walk, move>>

TransferNext ==
  \/ walk.at = "rest" /\ Commands
  \/ move.at = "rest" /\ (\A l \in Logins : login[l] = NoLogin) /\ Browses /\ UNCHANGED <<config, move>>
  \/ \E s \in Servers : Others(s) \/ ServerRestarts(s)

TransferSpec == TransferInit /\ [][TransferNext]_<<config, server, move>>

\* The import has stored every line, and others have left its environment alone.
Complete == move.at = "done" /\ Target \notin move.touched

Holds(v)  == v.key \in Stored(Target) /\ rows[Target][v.key].text = v.value
Vars      == ToSet(move.vars)
AllClean  == \A v \in Vars : Clean(v)

\* What was exported is what a complete import stores into an environment that
\* was empty, if every variable is one the format can hold: README.md:88 calls
\* the round trip familiar, vars.go:264-266 and 313-334 write and read it.
RoundTrip ==
  Complete /\ move.fresh /\ AllClean
    => (\A v \in Vars : Holds(v)) /\ Stored(Target) = {v.key : v \in Vars}

\* USER_GUIDE.md:350-353: ENCRYPTION_KEY is changed in a window of export,
\* restart and import.  The import, into the environment of the export, seals
\* every value anew, so that all can be read and are what they were
\* (sqlite.go:818-875, 936-961).
RotationWindow ==
  Complete /\ move.steady /\ Target = move.source /\ AllClean
    => /\ \A v \in Vars : Holds(v)
       /\ \A k \in Stored(Target) : Opens(secret[Target], rows[Target][k])

\* README.md:88 without the condition: values with a line break, or with blanks
\* at their end, come back changed.  No run checks it.
FamiliarRoundTrip == Complete /\ move.fresh => \A v \in Vars : Holds(v)
=============================================================================
