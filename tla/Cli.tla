-------------------------------- MODULE Cli --------------------------------
(***************************************************************************)
(* A command of the CLI that writes variables, set or import               *)
(* (cli/cmd/vars.go), on a server whose catalog others change meanwhile:   *)
(* it resolves the application's name, then the environment's, then sends  *)
(* one request per variable (cli/internal/client).  Every request may fail *)
(* or time out, with or without having taken effect.                       *)
(***************************************************************************)
EXTENDS Catalog, Sequences

CONSTANTS Commands, \* [appId, appName, envId, envName, keys]; 0 and NoName: not given
          NoName,
          WideApp, WideEnv \* 10^6: fmt.Sprint prints an id from there on, which
                           \* JSON decoding has made a float64, with an exponent.
                           \* The tables count apart, so small ids may differ.

ASSUME CliAssumption ==
  /\ WideApp \in Nat /\ WideEnv \in Nat
  /\ NoName \notin Names \cup {"default"}
  /\ Commands \subseteq [appId : 0 .. MaxId, appName : Names \cup {"default", NoName},
                         envId : 0 .. MaxId, envName : Names \cup {NoName}, keys : Seq(Keys)]

VARIABLES cmd,     \* the command
          pc,      \* "idle", "app", "env", "set", and its exit: "ok", "failed"
          app,     \* application it resolved, 0 for all
          target,  \* environment it resolved
          acked,   \* lines the server has acknowledged
          applied, \* keys the server has stored for it
          late     \* the server still works on the line the client gave up on

progress == <<acked, applied, late>>
cli      == <<cmd, pc, app, target, acked, applied, late>>

CliInit ==
  /\ Init
  /\ cmd \in Commands
  /\ pc = "idle" /\ app = 0 /\ target = 0
  /\ acked = 0 /\ applied = <<>> /\ late = FALSE

Start ==
  /\ pc = "idle"
  /\ pc' = "app"
  /\ UNCHANGED <<state, cmd, app, target, progress>>

Resolved(i) == app' = i /\ pc' = "env"

\* resolveAppID: --app-id, no application at all, or GET /api/apps.
FindApp ==
  /\ pc = "app"
  /\ \/ cmd.appId > 0 /\ Resolved(cmd.appId)
     \/ cmd.appId = 0 /\ cmd.appName = NoName /\ Resolved(0)
     \/ /\ cmd.appId = 0
        /\ \E a \in apps : a.name = cmd.appName /\ a.id < WideApp /\ Resolved(a.id)
  /\ UNCHANGED <<state, cmd, target, progress>>

AppNotFound ==
  /\ pc = "app"
  /\ cmd.appId = 0 /\ cmd.appName # NoName
  /\ \A a \in apps : a.name = cmd.appName => a.id >= WideApp
  /\ pc' = "failed"
  /\ UNCHANGED <<state, cmd, app, target, progress>>

\* GET /api/envs?app_id=; without the parameter, the environments of all.
\* Mutant: the request loses its query.
AnyApp(e)  == TRUE
InScope(e) == app = 0 \/ e.app = app

Matches == {e \in envs : InScope(e) /\ e.name = cmd.envName}

Chosen(i) == target' = i /\ pc' = "set"

FindEnv ==
  /\ pc = "env"
  /\ \/ cmd.envId > 0 /\ Chosen(cmd.envId)
     \/ /\ cmd.envId = 0
        /\ \E e \in Matches : Matches = {e} /\ e.id < WideEnv /\ Chosen(e.id)
  /\ UNCHANGED <<state, cmd, app, progress>>

\* No environment of that name, or an ambiguous one.
\* Mutant: the id stays 0.
ZeroId == pc' = "set"
Fails  == pc' = "failed"

EnvNotFound ==
  /\ pc = "env"
  /\ cmd.envId = 0
  /\ \A e \in Matches : Matches = {e} => e.id >= WideEnv
  /\ Fails
  /\ UNCHANGED <<state, cmd, app, target, progress>>

ListFails ==
  /\ pc \in {"app", "env"}
  /\ pc' = "failed"
  /\ UNCHANGED <<state, cmd, app, target, progress>>

Line == cmd.keys[acked + 1]

\* The server's SetVar: a new variable, or a new version of one that exists.
Store(c, k) ==
  /\ \/ SetVar(c, target, k)
     \/ (\E v \in vars : v.env = target /\ v.key = k) /\ UNCHANGED state
  /\ applied' = Append(applied, k)

SetLine(c) ==
  /\ pc = "set"
  /\ acked < Len(cmd.keys)
  /\ Store(c, Line)
  /\ acked' = acked + 1
  /\ UNCHANGED <<cmd, pc, app, target, late>>

\* The first error ends the import.
\* Mutant: it goes on with the next line, as the dashboard does.
NextLine == acked' = acked + 1 /\ UNCHANGED pc
Abort    == pc' = "failed" /\ UNCHANGED acked

\* An error response, a lost answer, 15 seconds without one, or a line the
\* scanner cannot read.
LineFails(c) ==
  /\ pc = "set"
  /\ acked < Len(cmd.keys)
  /\ \/ UNCHANGED <<state, applied, late>>
     \/ Store(c, Line) /\ UNCHANGED late
     \/ late' = TRUE /\ UNCHANGED <<state, applied>>
  /\ Abort
  /\ UNCHANGED <<cmd, app, target>>

\* The server ends the request the client has given up on.
Late(c) ==
  /\ late
  /\ late' = FALSE
  /\ Store(c, Line) \/ UNCHANGED <<state, applied>>
  /\ UNCHANGED <<cmd, pc, app, target, acked>>

Finish ==
  /\ pc = "set"
  /\ acked = Len(cmd.keys)
  /\ pc' = "ok"
  /\ UNCHANGED <<state, cmd, app, target, progress>>

Command ==
  \/ Start \/ FindApp \/ AppNotFound \/ FindEnv \/ EnvNotFound \/ ListFails \/ Finish
  \/ \E c \in Conns : SetLine(c) \/ LineFails(c) \/ Late(c)

CliNext == Command \/ (Next /\ UNCHANGED cli)

CliSpec == CliInit /\ [][CliNext]_<<state, cli>>

-----------------------------------------------------------------------------
(* Properties *)

CliTypeOK ==
  /\ cmd \in Commands
  /\ pc \in {"idle", "app", "env", "set", "ok", "failed"}
  /\ app \in Nat /\ target \in Nat
  /\ acked \in 0 .. Len(cmd.keys) /\ applied \in Seq(Keys) /\ late \in BOOLEAN
  /\ pc = "set" => target # 0

\* Between the two lookups and the writes anything may be deleted and created
\* anew: the environment that is written to still is the one of that name,
\* and on SQLite also of the application of that name.
RightTarget ==
  pc \in {"set", "ok"} /\ cmd.envId = 0 =>
    \A e \in envs : e.id = target =>
      /\ e.name = cmd.envName
      /\ dialect = "sqlite" /\ cmd.appId = 0 /\ cmd.appName # NoName =>
           \A a \in apps : a.id = e.app => a.name = cmd.appName

\* A command that exits with 0 has stored every line of its file, in order;
\* one that failed has stored the lines before the error and none after it.
ExitIsTrue ==
  /\ \E n \in {acked, acked + 1} : applied = SubSeq(cmd.keys, 1, n)
  /\ pc = "ok" => applied = cmd.keys
=============================================================================
