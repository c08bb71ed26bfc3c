------------------------------- MODULE Server -------------------------------
(***************************************************************************)
(* The life of the server process on SQLite (web/cmd/server/main.go): it   *)
(* opens and migrates the database (Migration), makes the API key if there *)
(* is none (AdminKey), serves requests until it is told to stop, shuts     *)
(* down, and is started again.  It may be killed at any step.              *)
(***************************************************************************)
EXTENDS AdminKey, Migration

CONSTANTS Requests,
          MaxFaults \* bound on failures, kills, stops and rotations

ASSUME ServerAssumption == MaxFaults \in Nat /\ \E r \in Replicas : Replicas = {r}

VARIABLES phase,    \* what main does: "down" (no process), "open", "key", "run",
                    \* "stop" (in Shutdown), "close" (in the deferred store.Close)
          listener, \* the goroutine of ListenAndServe: "none", "starting", "open",
                    \* "failed", "closed"
          late,     \* the ten seconds of Shutdown's context are over
          request,  \* "new", "active", "stored", "answered", "refused", "cut"
          faults    \* so far

process == <<phase, listener, late>>
all     == <<keyVars, state, process, request, faults>>

ServerInit ==
  /\ Init /\ OldDatabase
  /\ phase = "down" /\ listener = "none" /\ late = FALSE
  /\ request = [q \in Requests |-> "new"]
  /\ faults = 0

Busy == {q \in Requests : request[q] \in {"active", "stored"}}

Fault == faults < MaxFaults /\ faults' = faults + 1

Moves(p) == phase' = p /\ UNCHANGED <<listener, late>>

\* The supervisor (docker, Kubernetes, systemd) starts a process that ended.
Launch ==
  /\ phase = "down"
  /\ Moves("open")
  /\ UNCHANGED <<keyVars, state, request, faults>>

OpenStep ==
  /\ phase = "open"
  /\ Open
  /\ UNCHANGED <<keyVars, process, request, faults>>

Opened ==
  /\ phase = "open" /\ stmt = "done"
  /\ \E r \in Replicas : Start(r)
  /\ Moves("key")
  /\ UNCHANGED <<state, request, faults>>

KeyStep ==
  /\ phase = "key"
  /\ \E r \in Replicas :
       Check(r) \/ Make(r) \/ Set(r) \/ WriteFile(r) \/ WriteFileFails(r) \/ Show(r)
  /\ UNCHANGED <<state, process, request, faults>>

\* The pool replaces its connection every five minutes, whatever main does.
Renewed ==
  /\ phase # "down"
  /\ Renew
  /\ UNCHANGED <<keyVars, process, request, faults>>

Serve ==
  /\ phase = "key" /\ \A r \in Replicas : pc[r] = "up"
  /\ phase' = "run" /\ listener' = "starting"
  /\ UNCHANGED <<keyVars, state, late, request, faults>>

\* ListenAndServe; after Shutdown it returns ErrServerClosed at once.
\* Mutant: it does not look.
ListensAnyway == listener' = "open"
Listens       == listener' = IF phase = "run" THEN "open" ELSE "closed"

Listen ==
  /\ listener = "starting"
  /\ Listens
  /\ UNCHANGED <<keyVars, state, phase, late, request, faults>>

\* The port is taken, say: the error is logged, and main goes on waiting.
ListenFails ==
  /\ listener = "starting" /\ phase = "run"
  /\ Fault
  /\ listener' = "failed"
  /\ UNCHANGED <<keyVars, state, phase, late, request>>

\* SIGTERM or an interrupt: Shutdown closes the listener.
Stop ==
  /\ phase = "run"
  /\ phase' = "stop" /\ late' = FALSE
  /\ listener' = IF listener = "open" THEN "closed" ELSE listener
  /\ UNCHANGED <<keyVars, state, request>>

Signal == Stop /\ Fault

\* Kubernetes: nothing answers /healthz, so the process is stopped.
Probe == listener = "failed" /\ Stop /\ UNCHANGED faults

TenSeconds ==
  /\ phase = "stop" /\ ~late
  /\ late' = TRUE
  /\ UNCHANGED <<keyVars, state, phase, listener, request, faults>>

\* Shutdown returns when no request is in progress, or after ten seconds.
\* Mutant: it has no deadline.
NoDeadline == Busy = {}
Returns    == Busy = {} \/ late

CloseStore ==
  /\ phase = "stop"
  /\ Returns
  /\ Moves("close")
  /\ UNCHANGED <<keyVars, state, request, faults>>

\* What the end of the process leaves behind.
Ends ==
  /\ phase' = "down" /\ listener' = "none" /\ UNCHANGED late
  /\ Kill
  /\ request' = [q \in Requests |-> IF q \in Busy THEN "cut" ELSE request[q]]

Exit ==
  /\ phase = "close"
  /\ Ends
  /\ \E r \in Replicas : Crash(r)
  /\ UNCHANGED faults

\* The key cannot be read or stored: os.Exit(1).
KeyFails ==
  /\ phase = "key"
  /\ Fault
  /\ \E r \in Replicas : CheckFails(r) \/ SetFails(r)
  /\ Ends

\* Killed, at any step; a failure of Open ends the process as well.
Die ==
  /\ phase # "down"
  /\ Fault
  /\ Ends
  /\ IF phase = "open" THEN UNCHANGED keyVars ELSE \E r \in Replicas : Crash(r)

NewKeyNeeded == Rotate /\ Fault /\ UNCHANGED <<state, process, request>>

Becomes(q, s) ==
  /\ request' = [request EXCEPT ![q] = s]
  /\ UNCHANGED <<keyVars, state, process, faults>>

Accept(q) == listener = "open" /\ request[q] = "new" /\ Becomes(q, "active")

\* The handler's write; a closed store, like any other error, is answered 500.
Store(q)  == request[q] = "active" /\ phase # "close" /\ Becomes(q, "stored")
Refuse(q) == request[q] = "active" /\ Becomes(q, "refused")
Answer(q) == request[q] = "stored" /\ Becomes(q, "answered")

\* What the process and its supervisor do by themselves.
Progress == \/ Launch \/ OpenStep \/ Opened \/ KeyStep \/ Serve \/ Listen
            \/ Probe \/ TenSeconds \/ CloseStore \/ Exit

ServerNext ==
  \/ Progress
  \/ Renewed \/ ListenFails \/ Signal \/ KeyFails \/ Die \/ NewKeyNeeded
  \/ \E q \in Requests : Accept(q) \/ Store(q) \/ Refuse(q) \/ Answer(q)

\* Handlers need not end: a client may be slow to send or to read for thirty
\* seconds.
ServerSpec == ServerInit /\ [][ServerNext]_all /\ WF_all(Progress)

-----------------------------------------------------------------------------
(* Properties *)

ServerTypeOK ==
  /\ phase \in {"down", "open", "key", "run", "stop", "close"}
  /\ listener \in {"none", "starting", "open", "failed", "closed"}
  /\ late \in BOOLEAN /\ faults \in 0 .. MaxFaults
  /\ request \in [Requests ->
                    {"new", "active", "stored", "answered", "refused", "cut"}]
  /\ phase = "open" => \A r \in Replicas : pc[r] = "down"

\* However the signal, the listener's goroutine and the requests interleave, a
\* request meets a closed store only after the ten seconds.
Graceful == phase = "close" => late \/ Busy = {}

\* A process that was told to stop ends, although its handlers may not.
Stops == phase = "stop" ~> phase = "down"

\* However often the process fails, is killed or stopped while it migrates,
\* makes its key or serves, in the end one serves, with the current schema and a
\* default application, if the supervisor watches /healthz.  Not with foreign keys
\* on: the pool's next connection is without the pragma (Renewed).
ServesAgain ==
  <>[](phase = "run" /\ listener = "open" /\ schema = "current" /\ defaultApp)

-----------------------------------------------------------------------------
(* What a comment says and TLC refutes: see README.md.  No run checks this. *)

\* server.go, line 208: the liveness probe is always answered 200 when the
\* process runs (and has started to listen).
AlwaysHealthy == phase = "run" /\ listener # "starting" => listener = "open"
=============================================================================
