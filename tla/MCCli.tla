------------------------------- MODULE MCCli -------------------------------
(* Cli on a small catalog. *)
EXTENDS Cli

CONSTANTS c1, n1, n2, k1, k2

OneConn  == {c1}
TwoNames == {n1, n2}
TwoKeys  == {k1, k2}

None    == [appId |-> 0, appName |-> NoName, envId |-> 0, envName |-> NoName,
            keys |-> <<k1, k2>>]
ByNames == [None EXCEPT !.appName = n1, !.envName = n1]
ByEnv   == [None EXCEPT !.envName = n1]
ByApp   == [None EXCEPT !.appId = 2, !.envName = n1]
ById    == [None EXCEPT !.envId = 1]

FiveCommands == {None, ByNames, ByEnv, ByApp, ById}
=============================================================================
