----------------------------- MODULE MCTransfer -----------------------------
(* Transfer on two servers with short texts. *)
EXTENDS Transfer

CONSTANTS near, far, bare, k1, k2, none, l1, l2

TwoServers == {near, far}
TwoSecrets == {k1, k2}
TwoLogins  == {l1, l2}
OneLogin   == {l1}

a == <<"a">>
b == <<"b">>
c == <<"c">>
ThreeKeys == <<a, b, c>>

\* Values the format holds: with the sign of an assignment in it, empty, with a
\* blank at its beginning.  And one it does not: its second line assigns b.
Sign  == <<"x", "=">>
Empty == <<>>
Blank == <<" ", "x">>
Two   == <<"x", Break, "b", "=">>

SomeValues   == {Two}
SomeTexts    == {Two, <<"x">>, Sign, Empty, Blank}
SomeContents == {<<>>, (a :> Sign) @@ (b :> Empty) @@ (c :> Blank)}

Symmetry == Permutations(TwoSecrets) \cup Permutations(TwoLogins)
=============================================================================
