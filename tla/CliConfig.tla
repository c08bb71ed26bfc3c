----------------------------- MODULE CliConfig -----------------------------
(***************************************************************************)
(* The CLI's configuration file (cli/internal/config/config.go): envious   *)
(* login (cli/cmd/login.go) reads it, replaces what it was given, truncates *)
(* the file and writes it, with nothing to keep other commands out.        *)
(* Encode writes the file at once; Decode reads the first JSON value, so   *)
(* the rest of a longer, earlier file does no harm.                        *)
(***************************************************************************)
EXTENDS Integers, Sequences

CONSTANTS Bases,    \* base URLs; the API key of a server is called by its URL
          Local,    \* the base URL of Default
          NotGiven, \* a flag left out, or a key never set
          Logins    \* logins under way at a time

ASSUME CliConfigAssumption == Local \in Bases /\ NotGiven \notin Bases

VARIABLES file,    \* the configuration file
          login,   \* the logins: where they are, what they will save
          lastKey, \* the API key given last to a login that succeeded
          upset    \* logins have overlapped, or one ended before it wrote, and
                   \* none was given a key since, alone

config == <<file, login, lastKey, upset>>

Field   == Bases \cup {NotGiven}
Configs == [base : Field, key : Field]
Files   == [exists : BOOLEAN, text : {<<>>} \cup {<<c>> : c \in Configs}]
Whole(c) == [exists |-> TRUE, text |-> <<c>>]
NoFile  == [exists |-> FALSE, text |-> <<>>]
Default == [base |-> Local, key |-> NotGiven]

Over(new, old) == IF new = NotGiven THEN old ELSE new
With(cfg, new) == [base |-> Over(new.base, cfg.base), key |-> Over(new.key, cfg.key)]

NoLogin == [at |-> "rest", cfg |-> Default, new |-> Default]

\* Load: the default without a file, an error when it does not decode.
Decodes(f) == f.exists => f.text # <<>>
Loaded(f)  == IF f.exists THEN Head(f.text) ELSE Default

\* At first, no file or that of a complete login.
ConfigInit ==
  /\ file \in {NoFile} \cup {Whole(c) : c \in {[base |-> b, key |-> b] : b \in Bases}}
  /\ login = [l \in Logins |-> NoLogin]
  /\ lastKey = Loaded(file).key
  /\ upset = FALSE

\* A login falls back on the default when Load fails.
\* Mutant: it always starts from the default.
FromDefault  == Default
StartingFrom == IF Decodes(file) THEN Loaded(file) ELSE Default

\* No other login is under way.
Alone(l) == \A o \in Logins \ {l} : login[o] = NoLogin

LoginLoads(l, new) ==
  /\ login[l].at = "rest"
  /\ login' = [login EXCEPT ![l] = [at |-> "save", cfg |-> With(StartingFrom, new), new |-> new]]
  /\ upset' = (upset \/ ~Alone(l))
  /\ UNCHANGED <<file, lastKey>>

\* Save: O_TRUNC
LoginTruncates(l) ==
  /\ login[l].at = "save"
  /\ file' = [exists |-> TRUE, text |-> <<>>]
  /\ login' = [login EXCEPT ![l].at = "write"]
  /\ UNCHANGED <<lastKey, upset>>

LoginWrites(l) ==
  /\ login[l].at = "write"
  /\ file' = Whole(login[l].cfg)
  /\ lastKey' = Over(login[l].new.key, lastKey)
  /\ login' = [login EXCEPT ![l] = NoLogin]
  /\ upset' = (upset /\ ~(Alone(l) /\ login[l].new.key # NotGiven))

\* The file cannot be opened or written, or the process ends.
LoginFails(l) ==
  /\ login[l].at \in {"save", "write"}
  /\ upset' = (upset \/ login[l].at = "write")
  /\ login' = [login EXCEPT ![l] = NoLogin]
  /\ UNCHANGED <<file, lastKey>>

LoginSteps == \E l \in Logins : LoginTruncates(l) \/ LoginWrites(l) \/ LoginFails(l)

ConfigTypeOK ==
  /\ file \in Files
  /\ login \in [Logins -> [at : {"rest", "save", "write"}, cfg : Configs, new : Configs]]
  /\ lastKey \in Field
  /\ upset \in BOOLEAN

\* A login without --api-key keeps the key the one before it had: the file has
\* the key given last, unless logins have overlapped or one ended between the
\* truncation and the write; one given the key, alone, puts that right
\* (login.go:20-31, config.go:61-79).
KeyKept == file.text # <<>> /\ ~upset => Head(file.text).key = lastKey
=============================================================================
