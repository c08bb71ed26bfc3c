------------------------------ MODULE Contents ------------------------------
(***************************************************************************)
(* What clients are given of an environment's variables: values sealed in  *)
(* the database under the server's ENCRYPTION_KEY                          *)
(* (web/internal/storage/sqlite.go), servers restarted with another one,   *)
(* and a browser that walks an environment page by page on the dashboard   *)
(* (web/internal/api/server.go) while others write and delete.  Each       *)
(* server has one environment; a write is one step (VarStore).             *)
(***************************************************************************)
EXTENDS DotEnv, TLC

CONSTANTS Servers,
          KeyOrder, \* the keys variables may have, in the order of the database
          Texts,    \* the texts their values may be
          Values,   \* those that users set them to
          Secrets,  \* ENCRYPTION_KEYs, as normalizeKey pads or cuts them
          Bare,     \* the server has none
          PageSize,
          Initially, \* what environments may hold at first: [key -> value]
          MaxEvents \* bound on the changes, restarts and failures

ASSUME ContentsAssumption ==
  /\ Bare \notin Secrets
  /\ PageSize \in Nat \ {0} /\ MaxEvents \in Nat
  /\ Values \subseteq Texts
  /\ \A c \in Initially : c \in [DOMAIN c -> Texts] /\ DOMAIN c \subseteq ToSet(KeyOrder)

VARIABLES rows,   \* the environment of each server: [key -> sealed value]
          secret, \* the secret each server runs with
          bared,  \* some server has lost its secret
          walk,   \* the browser's walk through one environment
          events

data   == <<rows, secret, bared>>
server == <<data, walk, events>>

Keys   == ToSet(KeyOrder)
Cipher == <<"~">> \* the bytes of a sealed value, taken for a text

\* What an import finds in the line, or lines, of an exported variable.
Found(k, v) == ToSet(Parse(Format(<<[key |-> k, value |-> v]>>)))

\* No user sets what reads as sealed, and with what users set Keys and Texts
\* have all that exports and imports make of it.
ASSUME TextsAssumption ==
  /\ KeyOrder \in Seq(Seq(STRING) \ {<<>>}) /\ IsInjective(KeyOrder)
  /\ Texts \subseteq Seq(STRING) \ {Cipher}
  /\ \A k \in Keys : /\ \A v \in Texts : Found(k, v) \subseteq [key : Keys, value : Texts]
                     /\ Found(k, Cipher) \subseteq [key : Keys, value : Texts \cup {Cipher}]

Sealed(k, v) == [by |-> k, text |-> v]

\* decrypt: without a secret, the bytes as they are.  Those sealed with another
\* secret, or with none, do not open.
\* Mutant: the bytes as they are when they do not open.
OpensAll(k, r) == TRUE
Opens(k, r)    == k = Bare \/ k = r.by
Opened(k, r)   == IF k = r.by THEN r.text ELSE Cipher

Stored(s) == DOMAIN rows[s]
Order(s)  == LET places == Sorted({n \in DOMAIN KeyOrder : KeyOrder[n] \in Stored(s)})
             IN [n \in DOMAIN places |-> KeyOrder[places[n]]]

NoWalk == [at |-> "rest", of |-> CHOOSE s \in Servers : TRUE, page |-> 1, total |-> 0,
            seen |-> {}, stayed |-> {}, slipped |-> {}]

ContentsInit ==
  /\ secret \in [Servers -> Secrets \cup {Bare}]
  /\ \E c \in [Servers -> Initially] :
        rows = [s \in Servers |-> [k \in DOMAIN c[s] |-> Sealed(secret[s], c[s][k])]]
  /\ bared = FALSE
  /\ walk = NoWalk
  /\ events = 0

Counted == events < MaxEvents /\ events' = events + 1

Walking(s) == walk.at # "rest" /\ walk.of = s

\* INSERT or UPDATE
Written(env, k, sealed) == [o \in DOMAIN env \cup {k} |-> IF o = k THEN sealed ELSE env[o]]

\* SetVar seals the value anew, whatever the row holds.
\* Mutant: a value that stays the same is not written.
PutChanged(s, k, v) == rows' = IF k \in Stored(s) /\ rows[s][k].text = v THEN rows
                               ELSE [rows EXCEPT ![s] = Written(@, k, Sealed(secret[s], v))]
Put(s, k, v)        == rows' = [rows EXCEPT ![s] = Written(@, k, Sealed(secret[s], v))]

Set(s, k, v) ==
  /\ Counted
  /\ Put(s, k, v)
  /\ UNCHANGED <<secret, bared, walk>>

\* The variables on the pages the browser has gone past, and those after the
\* first n.
Passed    == (walk.page - 1) * PageSize
Behind(n) == LET o == Order(walk.of) IN {o[m] : m \in {i \in DOMAIN o : i > n}}

\* A deletion there moves the first variable of the page to come onto a page
\* that the browser does not see again.
Slips(k) == LET o == Order(walk.of)
            IN {o[n] : n \in {m \in DOMAIN o : m = Passed + 1 /\ \E i \in 1 .. Passed : o[i] = k}}

Delete(s, k) ==
  /\ Counted
  /\ k \in Stored(s)
  /\ rows' = [rows EXCEPT ![s] = [o \in Stored(s) \ {k} |-> @[o]]]
  /\ walk' = IF Walking(s) THEN [walk EXCEPT !.stayed = @ \ {k}, !.slipped = @ \cup Slips(k)] ELSE walk
  /\ UNCHANGED <<secret, bared>>

\* The server ends and is started with another ENCRYPTION_KEY or the same; a
\* page it was preparing is asked for again.
Restart(s, k) ==
  /\ Counted
  /\ secret' = [secret EXCEPT ![s] = k]
  /\ bared' = (bared \/ (k = Bare /\ secret[s] # Bare))
  /\ walk' = IF Walking(s) /\ walk.at = "read" THEN [walk EXCEPT !.at = "ask"] ELSE walk
  /\ UNCHANGED rows

WalkStarts(s) ==
  /\ walk.at = "rest"
  /\ walk' = [NoWalk EXCEPT !.at = "ask", !.of = s, !.stayed = Stored(s)]
  /\ UNCHANGED <<data, events>>

\* handleAdminEnv: CountVars, or a total of 0 when it fails.
CountVars ==
  /\ walk.at = "ask"
  /\ \/ /\ walk' = [walk EXCEPT !.at = "read", !.total = Cardinality(Stored(walk.of))]
        /\ UNCHANGED events
     \/ /\ walk' = [walk EXCEPT !.at = "read", !.total = 0]
        /\ Counted
  /\ UNCHANGED data

\* Mutant: the number of pages is rounded down.
RoundedDown(total) == total \div PageSize
Rounded(total)     == (total + PageSize - 1) \div PageSize
TotalPages(total)  == Max({1, Rounded(total)})

Page(s, page) == LET from == (page - 1) * PageSize
                 IN ToSet(SubSeq(Order(s), from + 1, Min({from + PageSize, Len(Order(s))})))

\* The page asked for, or the last one when there are fewer by now.
Current == Min({walk.page, TotalPages(walk.total)})
Due     == Page(walk.of, Current)

\* HasNext leads to the next page.  Those that slip: a page due that is not
\* shown, and behind the last page those that its count lacked.
Shows(vars) ==
  LET more == Current < TotalPages(walk.total)
  IN walk' = [walk EXCEPT !.at = IF more THEN "ask" ELSE "done",
                          !.page = Current + 1, !.seen = @ \cup vars,
                          !.slipped = @ \cup (Due \ vars) \cup IF more THEN {} ELSE Behind(walk.total)]

\* ListVarsPage gives no variable when one of the page does not open, or when
\* the statement fails, and the handler then shows none.
ReadPage ==
  /\ walk.at = "read"
  /\ LET opens == \A k \in Due : Opens(secret[walk.of], rows[walk.of][k])
     IN \/ Shows(IF opens THEN Due ELSE {}) /\ UNCHANGED events
        \/ Shows({}) /\ Counted
  /\ UNCHANGED data

WalkEnds ==
  /\ walk.at = "done"
  /\ walk' = NoWalk
  /\ UNCHANGED <<data, events>>

Changes(s)  == \E k \in Keys : Delete(s, k) \/ \E v \in Values : Set(s, k, v)
Restarts(s) == \E k \in Secrets \cup {Bare} : Restart(s, k)
Browses     == (\E s \in Servers : WalkStarts(s)) \/ CountVars \/ ReadPage \/ WalkEnds

\* A browser that follows Next to the end has been shown every variable that
\* existed throughout, but for those that slipped: for each deletion of one on a
\* page already shown, the one that moved across the page's end; the variables
\* behind those that the last page's count found, by as many as were created
\* between count and read, or all of them when the count failed; and the whole of
\* a page whose statement failed or that holds a value that does not open, which
\* the handler shows as an empty one (server.go:605-622).
WalkComplete == walk.at = "done" => walk.stayed \subseteq walk.seen \cup walk.slipped

\* No value is stored that is the sealed form of another: a client is given one
\* only by a server that runs without the secret it once had, whatever secrets
\* are changed and whatever is exported and imported (sqlite.go:936-960).
NoCiphertext == ~bared => \A s \in Servers : \A k \in Stored(s) : rows[s][k].text # Cipher
=============================================================================
