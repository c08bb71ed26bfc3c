---------------------------- MODULE DotEnvProofs ----------------------------
(* Proofs about DotEnv, for texts and lists of variables of any length.    *)
EXTENDS DotEnv, FunctionTheorems, FiniteSetTheorems, SequenceTheorems, TLAPS

-----------------------------------------------------------------------------
(* Induction, with a set for the property.                                 *)

LEMMA SetInduction ==
  ASSUME NEW S, 0 \in S, \A n \in Nat : n \in S => n + 1 \in S
  PROVE  Nat \subseteq S
  <1> DEFINE T == Nat \ S
  <1> SUFFICES ASSUME T # {} PROVE FALSE
    OBVIOUS
  <1>1. PICK n \in T : \A m \in T : <<m, n>> \notin OpToRel(<, Nat)
    BY NatLessThanWellFounded, WFMin
  <1>2. n - 1 \in T
    OBVIOUS
  <1>3. <<n - 1, n>> \in OpToRel(<, Nat)
    BY <1>2 DEF OpToRel
  <1> QED BY <1>1, <1>2, <1>3

-----------------------------------------------------------------------------
(* Numbers in ascending order.                                             *)

\* f lists the n members of S.
Lists(f, n, S) ==
  /\ f \in [1 .. n -> S]
  /\ \A i, j \in 1 .. n : i < j => f[i] < f[j]
  /\ \A x \in S : \E i \in 1 .. n : f[i] = x

\* The i-th number of a list has i - 1 before it.
LEMMA ListRank ==
  ASSUME NEW S \in SUBSET Int, NEW n \in Nat, NEW f, Lists(f, n, S)
  PROVE  /\ Cardinality(S) = n
         /\ \A i \in 1 .. n : Cardinality({x \in S : x <= f[i]}) = i
  <1> USE DEF Lists
  <1>0. \A i \in 1 .. n : f[i] \in S /\ f[i] \in Int
    OBVIOUS
  <1>a. ASSUME NEW i \in 1 .. n, NEW j \in 1 .. n, f[i] = f[j] PROVE i = j
    <2>1. ~(f[i] < f[j]) /\ ~(f[j] < f[i])
      BY <1>a, <1>0
    <2> QED BY <2>1
  <1>1. f \in Bijection(1 .. n, S)
    BY <1>a, Fun_IsBij
  <1>2. Cardinality(S) = n
    BY <1>1, FS_CountingElements DEF ExistsBijection
  <1>3. ASSUME NEW i \in 1 .. n PROVE Cardinality({x \in S : x <= f[i]}) = i
    <2> DEFINE P == {x \in S : x <= f[i]}
               g == [k \in 1 .. i |-> f[k]]
    <2>0. \A k \in 1 .. n : k <= i <=> f[k] <= f[i]
      <3> SUFFICES ASSUME NEW k \in 1 .. n PROVE k <= i <=> f[k] <= f[i]
        OBVIOUS
      <3>1. /\ k < i => f[k] < f[i]
            /\ i < k => f[i] < f[k]
            /\ f[i] \in Int /\ f[k] \in Int
        BY <1>0
      <3> QED BY <3>1
    <2>1. g \in [1 .. i -> P]
      BY <2>0
    <2>2. \A x \in P : \E k \in 1 .. i : g[k] = x
      BY <2>0
    <2>3. \A k, l \in 1 .. i : g[k] = g[l] => k = l
      BY <1>a
    <2>4. g \in Bijection(1 .. i, P)
      BY <2>1, <2>2, <2>3, Fun_IsBij
    <2> QED BY <2>4, FS_CountingElements DEF ExistsBijection
  <1> QED BY <1>2, <1>3

\* There is one list of a set: the one Sorted gives.
LEMMA SortedIs ==
  ASSUME NEW S \in SUBSET Int, NEW n \in Nat, NEW f, Lists(f, n, S)
  PROVE  Cardinality(S) = n /\ Sorted(S) = f
  <1>1. ASSUME NEW i \in 1 .. n
        PROVE  (CHOOSE x \in S : Cardinality({j \in S : j <= x}) = i) = f[i]
    <2>1. ASSUME NEW x \in S, Cardinality({j \in S : j <= x}) = i PROVE x = f[i]
      <3>1. PICK k \in 1 .. n : f[k] = x
        BY DEF Lists
      <3>2. Cardinality({j \in S : j <= f[k]}) = k
        BY ListRank
      <3>3. k = i
        BY <2>1, <3>1, <3>2
      <3> QED BY <3>1, <3>3
    <2>2. f[i] \in S /\ Cardinality({j \in S : j <= f[i]}) = i
      BY ListRank DEF Lists
    <2> QED BY <2>1, <2>2
  <1>2. Cardinality(S) = n
    BY ListRank
  <1>3. f = [i \in 1 .. n |-> f[i]]
    BY DEF Lists
  <1> QED BY <1>1, <1>2, <1>3 DEF Sorted

LEMMA ListExists ==
  ASSUME NEW n \in Nat, NEW S \in SUBSET (1 .. n)
  PROVE  \E m \in 0 .. n : \E f : Lists(f, m, S)
  <1> DEFINE I == {k \in Nat : \A T \in SUBSET (1 .. k) : \E m \in 0 .. k : \E f : Lists(f, m, T)}
  <1>1. 0 \in I
    <2>1. Lists([i \in 1 .. 0 |-> 0], 0, {})
      BY DEF Lists
    <2>2. ASSUME NEW T \in SUBSET (1 .. 0) PROVE \E m \in 0 .. 0 : \E f : Lists(f, m, T)
      <3>1. T = {}
        OBVIOUS
      <3>2. \E f : Lists(f, 0, T)
        BY <2>1, <3>1
      <3> QED BY <3>2
    <2> QED BY <2>2
  <1>2. ASSUME NEW k \in Nat, k \in I PROVE k + 1 \in I
    <2> SUFFICES ASSUME NEW T \in SUBSET (1 .. k + 1)
                 PROVE  \E m \in 0 .. k + 1 : \E f : Lists(f, m, T)
      OBVIOUS
    <2>1. T \ {k + 1} \in SUBSET (1 .. k)
      OBVIOUS
    <2>0. PICK m \in 0 .. k : \E f : Lists(f, m, T \ {k + 1})
      BY <1>2, <2>1
    <2>2. PICK f : Lists(f, m, T \ {k + 1})
      BY <2>0
    <2>3. CASE k + 1 \notin T
      BY <2>2, <2>3
    <2>4. CASE k + 1 \in T
      <3> DEFINE g == [i \in 1 .. m + 1 |-> IF i = m + 1 THEN k + 1 ELSE f[i]]
      <3>a. g \in [1 .. m + 1 -> T] /\ g[m + 1] = k + 1 /\ \A i \in 1 .. m : g[i] = f[i]
        BY <2>2, <2>4 DEF Lists
      <3>b. \A i \in 1 .. m : f[i] \in 1 .. k
        BY <2>1, <2>2 DEF Lists
      <3> HIDE DEF g
      <3>c. \A x \in T : \E i \in 1 .. m + 1 : g[i] = x
        BY <2>2, <3>a DEF Lists
      <3>1. Lists(g, m + 1, T)
        BY <2>2, <3>a, <3>b, <3>c DEF Lists
      <3> QED BY <3>1
    <2> QED BY <2>3, <2>4
  <1>3. n \in I
    BY <1>1, <1>2, SetInduction
  <1> QED BY <1>3

\* What Sorted does.
LEMMA SortedLists ==
  ASSUME NEW n \in Nat, NEW S \in SUBSET (1 .. n)
  PROVE  /\ Cardinality(S) \in 0 .. n
         /\ Lists(Sorted(S), Cardinality(S), S)
         /\ Sorted(S) \in Seq(S) /\ Len(Sorted(S)) = Cardinality(S)
  <1>0. PICK m \in 0 .. n : \E f : Lists(f, m, S)
    BY ListExists
  <1>1. PICK f : Lists(f, m, S)
    BY <1>0
  <1>2. Cardinality(S) = m /\ Sorted(S) = f
    BY <1>1, SortedIs
  <1> QED BY <1>1, <1>2 DEF Lists

\* Those of two ranges, one after the other.
LEMMA SortedConcat ==
  ASSUME NEW c \in Nat, NEW d \in Nat, NEW S \in SUBSET (1 .. c), NEW T \in SUBSET (1 .. d)
  PROVE  Sorted(S \cup {c + j : j \in T}) =
           Sorted(S) \o [i \in 1 .. Len(Sorted(T)) |-> c + Sorted(T)[i]]
  <1> DEFINE f == Sorted(S)
             g == Sorted(T)
             h == f \o [i \in 1 .. Len(g) |-> c + g[i]]
             U == S \cup {c + j : j \in T}
  <1>1. /\ Lists(f, Len(f), S) /\ f \in Seq(S) /\ Len(f) \in Nat
        /\ Lists(g, Len(g), T) /\ g \in Seq(T) /\ Len(g) \in Nat
    <2>1. Lists(f, Len(f), S) /\ f \in Seq(S)
      BY SortedLists
    <2>2. Lists(g, Len(g), T) /\ g \in Seq(T)
      BY SortedLists
    <2> QED BY <2>1, <2>2
  <1> HIDE DEF f, g
  <1> DEFINE gg == [i \in 1 .. Len(g) |-> c + g[i]]
  <1>a. /\ f \in Seq(Int) /\ \A i \in 1 .. Len(f) : f[i] \in S /\ f[i] \in 1 .. c
        /\ \A i \in 1 .. Len(g) : g[i] \in T /\ g[i] \in 1 .. d
    <2>b. \A i \in 1 .. Len(f) : f[i] \in S
      BY <1>1 DEF Lists
    <2>2. \A i \in 1 .. Len(f) : f[i] \in S /\ f[i] \in 1 .. c /\ f[i] \in Int
      <3> HIDE DEF h, U, gg
      <3> TAKE i \in 1 .. Len(f)
      <3>1. f[i] \in S
        BY <2>b
      <3>2. f[i] \in 1 .. c
        BY <3>1
      <3> QED BY <3>1, <3>2
    <2>a. f \in [1 .. Len(f) -> Int]
      BY <1>1, <2>2
    <2>1. f \in Seq(Int)
      BY <1>1, <2>a
    <2>3. \A i \in 1 .. Len(g) : g[i] \in T
      BY <1>1 DEF Lists
    <2> QED BY <2>1, <2>2, <2>3, <1>1
  <1>2. gg \in Seq(Int) /\ Len(gg) = Len(g) /\ \A i \in 1 .. Len(g) : gg[i] = c + g[i]
    <2>1. \A i \in 1 .. Len(g) : c + g[i] \in Int
      BY <1>a
    <2> QED BY <1>1, <2>1
  <1>3. /\ h \in [1 .. Len(f) + Len(g) -> U]
        /\ \A i \in 1 .. Len(f) + Len(g) :
              h[i] = IF i <= Len(f) THEN f[i] ELSE c + g[i - Len(f)]
    <2> HIDE DEF gg
    <2>2. /\ Len(h) = Len(f) + Len(g) /\ h \in Seq(Int)
          /\ \A i \in 1 .. Len(f) + Len(g) :
              h[i] = IF i <= Len(f) THEN f[i] ELSE gg[i - Len(f)]
      <3>1. h = f \o gg
        BY DEF gg
      <3>a. f \in Seq(Int) /\ gg \in Seq(Int)
        BY <1>2, <1>a
      <3>2. f \o gg \in Seq(Int) /\ Len(f \o gg) = Len(f) + Len(gg)
        BY <3>a, ConcatProperties
      <3>3. \A i \in 1 .. Len(f) + Len(gg) : (f \o gg)[i] = IF i <= Len(f) THEN f[i] ELSE gg[i - Len(f)]
        BY <1>2, <1>a
      <3> QED BY <1>2, <3>1, <3>2, <3>3
    <2>3. ASSUME NEW i \in 1 .. Len(f) + Len(g)
          PROVE h[i] \in U /\ h[i] = IF i <= Len(f) THEN f[i] ELSE c + g[i - Len(f)]
      <3>1. CASE i <= Len(f)
        BY <3>1, <2>2, <1>1, <1>a
      <3>2. CASE ~(i <= Len(f))
        <4>1. i - Len(f) \in 1 .. Len(g)
          BY <3>2, <1>1
        <4> QED BY <4>1, <3>2, <2>2, <1>2, <1>a
      <3> QED BY <3>1, <3>2
    <2> QED BY <2>2, <2>3, LenProperties
  <1>4. Lists(h, Len(f) + Len(g), U)
    <2> HIDE DEF h
    <2>1. ASSUME NEW i \in 1 .. Len(f) + Len(g), NEW j \in 1 .. Len(f) + Len(g), i < j
          PROVE  h[i] < h[j]
      <3>2. CASE j <= Len(f)
        BY <1>1, <1>3, <2>1, <3>2 DEF Lists
      <3>3. CASE i > Len(f)
        <4>1. i - Len(f) \in 1 .. Len(g) /\ j - Len(f) \in 1 .. Len(g)
          BY <2>1, <3>3, <1>1
        <4>2. g[i - Len(f)] < g[j - Len(f)]
          BY <4>1, <1>1, <2>1 DEF Lists
        <4>3. h[i] = c + g[i - Len(f)] /\ h[j] = c + g[j - Len(f)]
          BY <1>1, <1>3, <2>1, <3>3
        <4> QED BY <1>a, <4>1, <4>2, <4>3
      <3>4. CASE i <= Len(f) /\ j > Len(f)
        <4>1. j - Len(f) \in 1 .. Len(g)
          BY <3>4, <1>1
        <4>2. h[i] = f[i] /\ h[j] = c + g[j - Len(f)]
          BY <1>1, <1>3, <2>1, <3>4
        <4>3. f[i] <= c /\ g[j - Len(f)] \in 1 .. d /\ f[i] \in Int
          BY <1>a, <4>1, <3>4, <1>1
        <4> QED BY <4>2, <4>3
      <3> QED BY <3>2, <3>3, <3>4, <1>1
    <2>2. \A x \in S : \E i \in 1 .. Len(f) + Len(g) : h[i] = x
      BY <1>1, <1>3 DEF Lists
    <2>3. ASSUME NEW j \in T PROVE \E i \in 1 .. Len(f) + Len(g) : h[i] = c + j
      <3>1. PICK i \in 1 .. Len(g) : g[i] = j
        BY <1>1 DEF Lists
      <3>2. h[i + Len(f)] = c + j
        BY <1>1, <1>3, <3>1
      <3> QED BY <3>2, <1>1
    <2> QED BY <1>3, <2>1, <2>2, <2>3 DEF Lists
  <1>5. U \in SUBSET Int /\ Len(f) + Len(g) \in Nat
    <2>1. \A x \in U : x \in Int
      OBVIOUS
    <2> HIDE DEF U
    <2> QED BY <1>1, <2>1
  <1>6. Sorted(U) = h
    <2> HIDE DEF h, U
    <2> QED BY <1>4, <1>5, SortedIs
  <1> QED BY <1>6 DEF f, g

-----------------------------------------------------------------------------
(* Texts joined into one.                                                  *)

\* f[i] is the first i texts of ss, joined.
Joins(f, ss, n) == f = [i \in 1 .. n |-> IF i = 1 THEN ss[i] ELSE f[i - 1] \o ss[i]]

LEMMA JoinStep ==
  ASSUME NEW n \in Nat, NEW ss, NEW f, Joins(f, ss, n)
  PROVE  /\ 1 \in 1 .. n => f[1] = ss[1]
         /\ \A k \in 1 .. n : k # n => f[k + 1] = f[k] \o ss[k + 1]
  <1>1. \A i \in 1 .. n : f[i] = IF i = 1 THEN ss[i] ELSE f[i - 1] \o ss[i]
    BY Zenon DEF Joins
  <1>2. ASSUME NEW k \in 1 .. n, k # n PROVE f[k + 1] = f[k] \o ss[k + 1]
    <2>1. (k + 1) - 1 = k /\ k + 1 # 1 /\ k + 1 \in 1 .. n
      BY <1>2
    <2>2. f[k + 1] = f[(k + 1) - 1] \o ss[k + 1]
      BY <1>1, <2>1, Zenon
    <2> QED BY <2>1, <2>2
  <1>3. 1 \in 1 .. n => f[1] = ss[1]
    BY <1>1, Zenon
  <1> QED BY <1>2, <1>3

LEMMA JoinExists ==
  ASSUME NEW n \in Nat, NEW ss
  PROVE  \E f : Joins(f, ss, n)
  <1> DEFINE I == {k \in Nat : \E f : Joins(f, ss, k)}
  <1>1. 0 \in I
    <2>1. Joins([i \in 1 .. 0 |-> 0], ss, 0)
      BY DEF Joins
    <2> QED BY <2>1
  <1>2. ASSUME NEW k \in Nat, k \in I PROVE k + 1 \in I
    <2>1. PICK f : Joins(f, ss, k)
      BY <1>2
    <2> DEFINE last == IF k = 0 THEN ss[k + 1] ELSE f[k] \o ss[k + 1]
               g == [i \in 1 .. k + 1 |-> IF i = k + 1 THEN last ELSE f[i]]
    <2>2. \A i \in 1 .. k : f[i] = IF i = 1 THEN ss[i] ELSE f[i - 1] \o ss[i]
      BY <2>1, Zenon DEF Joins
    <2>3. ASSUME NEW i \in 1 .. k + 1
          PROVE  g[i] = IF i = 1 THEN ss[i] ELSE g[i - 1] \o ss[i]
      <3>1. CASE i = 1
        BY <3>1, <2>2
      <3>2. CASE i # 1
        <4>1. i - 1 \in 1 .. k /\ i - 1 # k + 1
          BY <3>2
        <4>2. g[i - 1] = f[i - 1]
          BY <4>1
        <4>3. CASE i = k + 1
          <5>1. i - 1 = k /\ k # 0
            BY <4>3, <3>2
          <5>2. g[i] = f[i - 1] \o ss[i]
            BY <5>1, <4>3
          <5> QED BY <3>2, <4>2, <5>2
        <4>4. CASE i # k + 1
          <5>1. i \in 1 .. k /\ g[i] = f[i]
            BY <4>4
          <5>2. g[i] = f[i - 1] \o ss[i]
            BY <5>1, <2>2, <3>2, Zenon
          <5> QED BY <3>2, <4>2, <5>2
        <4> QED BY <4>3, <4>4
      <3> QED BY <3>1, <3>2
    <2> DEFINE h == [i \in 1 .. k + 1 |-> IF i = 1 THEN ss[i] ELSE g[i - 1] \o ss[i]]
    <2>4. g = h
      <3>1. g = [i \in 1 .. k + 1 |-> g[i]]
        OBVIOUS
      <3> QED BY <2>3, <3>1
    <2>5. Joins(g, ss, k + 1)
      BY <2>4, Zenon DEF Joins
    <2> QED BY <2>5
  <1>3. n \in I
    BY <1>1, <1>2, SetInduction
  <1> QED BY <1>3

LEMMA JoinAgrees ==
  ASSUME NEW f, NEW g, NEW ss, NEW tt, NEW m \in Nat, NEW n \in Nat,
         Joins(f, ss, m), Joins(g, tt, n)
  PROVE  \A c \in Nat \ {0} : c <= m /\ c <= n /\ (\A i \in 1 .. c : ss[i] = tt[i]) => f[c] = g[c]
  <1>2. /\ 1 \in 1 .. m => f[1] = ss[1]
        /\ \A k \in 1 .. m : k # m => f[k + 1] = f[k] \o ss[k + 1]
        /\ 1 \in 1 .. n => g[1] = tt[1]
        /\ \A k \in 1 .. n : k # n => g[k + 1] = g[k] \o tt[k + 1]
    <2>1. /\ 1 \in 1 .. m => f[1] = ss[1]
          /\ \A k \in 1 .. m : k # m => f[k + 1] = f[k] \o ss[k + 1]
      BY JoinStep
    <2>2. /\ 1 \in 1 .. n => g[1] = tt[1]
          /\ \A k \in 1 .. n : k # n => g[k + 1] = g[k] \o tt[k + 1]
      BY JoinStep
    <2> QED BY <2>1, <2>2
  <1> SUFFICES ASSUME NEW c \in Nat \ {0}, c <= m, c <= n, \A i \in 1 .. c : ss[i] = tt[i]
               PROVE  f[c] = g[c]
    OBVIOUS
  <1> DEFINE I == {k \in Nat : k \in 1 .. c => f[k] = g[k]}
  <1>1. 0 \in I
    OBVIOUS
  <1>3. ASSUME NEW k \in Nat, k \in I PROVE k + 1 \in I
    <2> SUFFICES ASSUME k + 1 \in 1 .. c PROVE f[k + 1] = g[k + 1]
      OBVIOUS
    <2>1. CASE k = 0
      <3>1. 1 \in 1 .. m /\ 1 \in 1 .. n /\ 1 \in 1 .. c
        OBVIOUS
      <3>2. f[1] = ss[1] /\ g[1] = tt[1]
        BY <3>1, <1>2, Zenon
      <3> QED BY <2>1, <3>1, <3>2
    <2>2. CASE k # 0
      <3>1. k \in 1 .. m /\ k # m /\ k \in 1 .. n /\ k # n /\ k \in 1 .. c
        BY <2>2
      <3>2. f[k] = g[k]
        BY <1>3, <3>1
      <3>3. f[k + 1] = f[k] \o ss[k + 1]
        BY <3>1, <1>2, Zenon
      <3>4. g[k + 1] = g[k] \o tt[k + 1]
        BY <3>1, <1>2, Zenon
      <3> QED BY <3>2, <3>3, <3>4
    <2> QED BY <2>1, <2>2
  <1>4. c \in I
    BY <1>1, <1>3, SetInduction
  <1> QED BY <1>4

LEMMA FlattenIs ==
  ASSUME NEW ss, NEW f, Len(ss) \in Nat, Len(ss) # 0, Joins(f, ss, Len(ss))
  PROVE  FlattenSeq(ss) = f[Len(ss)]
  <1> DEFINE g == CHOOSE h : Joins(h, ss, Len(ss))
  <1>1. Joins(g, ss, Len(ss))
    BY Zenon
  <1>2. FlattenSeq(ss) = g[Len(ss)]
    BY Zenon DEF FlattenSeq, Joins
  <1> QED BY <1>1, <1>2, JoinAgrees

LEMMA FlattenAppend ==
  ASSUME NEW A, NEW ss \in Seq(Seq(A)), NEW t \in Seq(A)
  PROVE  /\ FlattenSeq(<<>>) = <<>>
         /\ FlattenSeq(ss) \in Seq(A)
         /\ FlattenSeq(Append(ss, t)) = FlattenSeq(ss) \o t
  <1>1. FlattenSeq(<<>>) = <<>>
    BY DEF FlattenSeq
  <1>2. CASE ss = <<>>
    <2> DEFINE g == [i \in 1 .. 1 |-> t]
    <2>1. Append(ss, t) = <<t>> /\ Len(<<t>>) = 1 /\ <<t>>[1] = t
      BY <1>2
    <2>2. Joins(g, <<t>>, 1)
      BY <2>1 DEF Joins
    <2>3. FlattenSeq(<<t>>) = t
      <3> DEFINE u == <<t>>
      <3>1. Len(u) \in Nat /\ Len(u) # 0 /\ Joins(g, u, Len(u)) /\ Len(u) = 1
        BY <2>1, <2>2
      <3>2. g[1] = t
        OBVIOUS
      <3> HIDE DEF u, g
      <3>3. FlattenSeq(u) = g[Len(u)]
        BY <3>1, FlattenIs, Zenon
      <3> QED BY <3>1, <3>2, <3>3, Zenon DEF u
    <2>4. <<>> \o t = t /\ <<>> \in Seq(A)
      BY ConcatEmptySeq, EmptySeq
    <2>5. FlattenSeq(Append(ss, t)) = t
      BY <2>1, <2>3, Zenon
    <2> QED BY <1>1, <1>2, <2>5, <2>4
  <1>3. CASE ss # <<>>
    <2> DEFINE n == Len(ss)
               tt == Append(ss, t)
    <2>1. n \in Nat /\ n # 0 /\ \A i \in 1 .. n : ss[i] \in Seq(A)
      BY <1>3
    <2>2. Len(tt) = n + 1 /\ tt[n + 1] = t /\ \A i \in 1 .. n : tt[i] = ss[i]
      BY AppendProperties
    <2> HIDE DEF tt, n
    <2>3. PICK f : Joins(f, ss, n)
      BY <2>1, JoinExists
    <2>a. n + 1 \in Nat
      BY <2>1
    <2>4. PICK g : Joins(g, tt, n + 1)
      BY <2>a, JoinExists, Zenon
    <2>5. FlattenSeq(ss) = f[n]
      BY <2>1, <2>3, FlattenIs DEF n
    <2>6. FlattenSeq(tt) = g[n + 1]
      BY <2>1, <2>2, <2>4, FlattenIs
    <2>7. f[n] = g[n]
      BY <2>1, <2>2, <2>3, <2>4, JoinAgrees
    <2>8. g[n + 1] = g[n] \o t
      <3>1. n \in 1 .. n + 1 /\ n # n + 1
        BY <2>1
      <3>2. g[n + 1] = g[n] \o tt[n + 1]
        BY <2>a, <2>4, <3>1, JoinStep
      <3> QED BY <2>2, <3>2
    <2>9. f[n] \in Seq(A)
      <3> DEFINE I == {k \in Nat : k \in 1 .. n => f[k] \in Seq(A)}
      <3>1. /\ 1 \in 1 .. n => f[1] = ss[1]
            /\ \A k \in 1 .. n : k # n => f[k + 1] = f[k] \o ss[k + 1]
        BY <2>1, <2>3, JoinStep
      <3>2. 0 \in I
        OBVIOUS
      <3>3. ASSUME NEW k \in Nat, k \in I PROVE k + 1 \in I
        <4> SUFFICES ASSUME k + 1 \in 1 .. n PROVE f[k + 1] \in Seq(A)
          OBVIOUS
        <4>1. CASE k = 0
          <5>1. 1 \in 1 .. n /\ ss[1] \in Seq(A)
            BY <2>1
          <5>2. f[1] = ss[1]
            BY <3>1, <5>1, Zenon
          <5> QED BY <4>1, <5>1, <5>2
        <4>2. CASE k # 0
          <5>1. k \in 1 .. n /\ k # n
            BY <4>2, <2>1
          <5>2. f[k + 1] = f[k] \o ss[k + 1]
            BY <3>1, <5>1, Zenon
          <5>3. f[k] \in Seq(A) /\ ss[k + 1] \in Seq(A)
            BY <3>3, <5>1, <2>1
          <5> QED BY <5>2, <5>3, ConcatProperties
        <4> QED BY <4>1, <4>2
      <3>4. n \in I
        BY <2>1, <3>2, <3>3, SetInduction
      <3> QED BY <2>1, <3>4
    <2> QED BY <1>1, <2>5, <2>6, <2>7, <2>8, <2>9 DEF tt
  <1> QED BY <1>2, <1>3

\* A character is a string; the provers do not know that a literal is one.
Letters == STRING \cup {"=", "~", Break}
Text    == Seq(Letters)

-----------------------------------------------------------------------------
(* Parts of texts.                                                         *)

LEMMA SubSeqs1 ==
  ASSUME NEW A, NEW x \in Seq(A), NEW y \in Seq(A), NEW i \in Nat \ {0}, NEW j \in Int, j <= Len(x)
  PROVE  SubSeq(x \o y, i, j) = SubSeq(x, i, j)
  <1> DEFINE z == x \o y
  <1>1. /\ Len(x) \in Nat /\ Len(y) \in Nat /\ \A k \in 1 .. Len(x) : x[k] \in A /\ z[k] = x[k]
    <2>1. \A k \in 1 .. Len(x) : x[k] \in A
      BY ElementOfSeq
    <2>2. Len(x) \in Nat /\ Len(y) \in Nat
      BY LenProperties
    <2>3. \A k \in 1 .. Len(x) + Len(y) : z[k] = IF k <= Len(x) THEN x[k] ELSE y[k - Len(x)]
      BY ConcatProperties
    <2> QED BY <2>1, <2>2, <2>3
  <1> HIDE DEF z
  <1>2. \A k \in i .. j : x[k] \in A /\ z[k] = x[k]
    BY <1>1
  <1> DEFINE s == SubSeq(z, i, j)
             t == SubSeq(x, i, j)
  <1>3. /\ s \in Seq(A) /\ Len(s) = IF i <= j THEN j - i + 1 ELSE 0
        /\ \A k \in 1 .. j - i + 1 : s[k] = z[i + k - 1]
    BY <1>2, SubSeqProperties
  <1>4. /\ t \in Seq(A) /\ Len(t) = IF i <= j THEN j - i + 1 ELSE 0
        /\ \A k \in 1 .. j - i + 1 : t[k] = x[i + k - 1]
    BY <1>2, SubSeqProperties
  <1> HIDE DEF s, t
  <1>5. ASSUME NEW k \in 1 .. Len(s) PROVE s[k] = t[k]
    <2>1. k \in 1 .. j - i + 1 /\ i + k - 1 \in i .. j
      BY <1>3
    <2> QED BY <2>1, <1>2, <1>3, <1>4
  <1>6. s = t
    BY <1>3, <1>4, <1>5, SeqEqual
  <1> QED BY <1>6 DEF s, t, z

LEMMA SubSeqs2 ==
  ASSUME NEW A, NEW x \in Seq(A), NEW y \in Seq(A), NEW i \in Nat \ {0}, NEW j \in Int, j <= Len(y)
  PROVE  SubSeq(x \o y, Len(x) + i, Len(x) + j) = SubSeq(y, i, j)
  <1> DEFINE z == x \o y
             c == Len(x)
  <1>1. /\ c \in Nat /\ Len(y) \in Nat /\ \A k \in 1 .. Len(y) : y[k] \in A /\ z[c + k] = y[k]
    <2>1. \A k \in 1 .. Len(y) : y[k] \in A
      BY ElementOfSeq
    <2>2. c \in Nat /\ Len(y) \in Nat
      BY LenProperties
    <2>3. \A k \in 1 .. Len(x) + Len(y) : z[k] = IF k <= Len(x) THEN x[k] ELSE y[k - Len(x)]
      BY ConcatProperties
    <2> HIDE DEF z
    <2>4. ASSUME NEW k \in 1 .. Len(y) PROVE z[c + k] = y[k]
      <3>1. c + k \in 1 .. Len(x) + Len(y) /\ ~(c + k <= Len(x)) /\ (c + k) - Len(x) = k
        BY <2>2
      <3>2. z[c + k] = y[(c + k) - Len(x)]
        BY <2>3, <3>1
      <3> QED BY <3>1, <3>2
    <2> QED BY <2>1, <2>2, <2>4
  <1> HIDE DEF z, c
  <1>2. \A k \in i .. j : y[k] \in A /\ z[c + k] = y[k]
    BY <1>1
  <1> DEFINE s == SubSeq(z, c + i, c + j)
             t == SubSeq(y, i, j)
  <1>3. /\ s \in Seq(A) /\ Len(s) = IF i <= j THEN j - i + 1 ELSE 0
        /\ \A k \in 1 .. j - i + 1 : s[k] = z[c + (i + k - 1)]
    <2>1. \A k \in c + i .. c + j : z[k] \in A
      <3> TAKE k \in c + i .. c + j
      <3>1. k - c \in i .. j /\ c + (k - c) = k
        BY <1>1
      <3>2. z[c + (k - c)] \in A
        BY <1>2, <3>1
      <3> QED BY <3>1, <3>2
    <2>2. c + i \in Int /\ c + j \in Int
      BY <1>1
    <2>3. /\ s \in Seq(A) /\ Len(s) = IF c + i <= c + j THEN (c + j) - (c + i) + 1 ELSE 0
          /\ \A k \in 1 .. (c + j) - (c + i) + 1 : s[k] = z[(c + i) + k - 1]
      BY <2>1, <2>2, SubSeqProperties
    <2>4. (c + j) - (c + i) + 1 = j - i + 1 /\ (c + i <= c + j <=> i <= j)
      BY <1>1
    <2>5. \A k \in 1 .. j - i + 1 : (c + i) + k - 1 = c + (i + k - 1)
      BY <1>1
    <2> HIDE DEF s
    <2> QED BY <2>3, <2>4, <2>5
  <1>4. /\ t \in Seq(A) /\ Len(t) = IF i <= j THEN j - i + 1 ELSE 0
        /\ \A k \in 1 .. j - i + 1 : t[k] = y[i + k - 1]
    BY <1>2, SubSeqProperties
  <1> HIDE DEF s, t
  <1>5. ASSUME NEW k \in 1 .. Len(s) PROVE s[k] = t[k]
    <2>1. k \in 1 .. j - i + 1 /\ i + k - 1 \in i .. j
      BY <1>3
    <2>2. s[k] = z[c + (i + k - 1)] /\ t[k] = y[i + k - 1]
      BY <2>1, <1>3, <1>4
    <2>3. z[c + (i + k - 1)] = y[i + k - 1]
      BY <2>1, <1>2
    <2> QED BY <2>2, <2>3
  <1>6. s = t
    BY <1>3, <1>4, <1>5, SeqEqual
  <1> QED BY <1>6 DEF s, t, z, c

LEMMA SortedOne ==
  ASSUME NEW e \in Int
  PROVE  Sorted({e}) = <<e>> /\ Sorted({}) = <<>>
  <1>1. Lists([i \in 1 .. 1 |-> e], 1, {e})
    BY DEF Lists
  <1>2. Lists([i \in 1 .. 0 |-> e], 0, {})
    BY DEF Lists
  <1>3. Sorted({e}) = [i \in 1 .. 1 |-> e] /\ Sorted({}) = [i \in 1 .. 0 |-> e]
    BY <1>1, <1>2, SortedIs
  <1>4. [i \in 1 .. 1 |-> e] = <<e>> /\ [i \in 1 .. 0 |-> e] = <<>>
    OBVIOUS
  <1> QED BY <1>3, <1>4

LEMMA Extremes ==
  ASSUME NEW n \in Nat, NEW S \in SUBSET (1 .. n), S # {}
  PROVE  /\ Min(S) \in S /\ \A i \in S : Min(S) <= i
         /\ Max(S) \in S /\ \A i \in S : i <= Max(S)
  <1>0. PICK m \in 0 .. n : \E f : Lists(f, m, S)
    BY ListExists
  <1>1. PICK f : Lists(f, m, S)
    BY <1>0
  <1>2. m # 0 /\ 1 \in 1 .. m /\ m \in 1 .. m
    <2>1. PICK x \in S : TRUE
      OBVIOUS
    <2>2. PICK i \in 1 .. m : f[i] = x
      BY <1>1, <2>1 DEF Lists
    <2> QED BY <2>2
  <1>3. f[1] \in S /\ f[m] \in S /\ \A i \in 1 .. m : f[i] \in 1 .. n
    BY <1>1, <1>2 DEF Lists
  <1>4. \A i \in 1 .. m : f[1] <= f[i] /\ f[i] <= f[m]
    <2> TAKE i \in 1 .. m
    <2>1. CASE i = 1
      BY <2>1, <1>1, <1>2, <1>3 DEF Lists
    <2>2. CASE i = m
      BY <2>2, <1>1, <1>2, <1>3 DEF Lists
    <2>3. CASE i # 1 /\ i # m
      <3>1. 1 < i /\ i < m
        BY <2>3
      <3>2. f[1] < f[i] /\ f[i] < f[m]
        BY <1>1, <1>2, <3>1 DEF Lists
      <3> QED BY <3>2, <1>2, <1>3
    <2> QED BY <2>1, <2>2, <2>3
  <1>5. \A x \in S : f[1] <= x /\ x <= f[m]
    BY <1>1, <1>4 DEF Lists
  <1>6. \A x \in S : x \in Int
    OBVIOUS
  <1>7. \E x \in S : \A y \in S : x <= y
    BY <1>3, <1>5
  <1>8. \E x \in S : \A y \in S : x >= y
    BY <1>3, <1>5, <1>6
  <1>9. Min(S) \in S /\ \A y \in S : Min(S) <= y
    BY <1>7 DEF Min
  <1>10. Max(S) \in S /\ \A y \in S : Max(S) >= y
    BY <1>8 DEF Max
  <1> QED BY <1>6, <1>9, <1>10

-----------------------------------------------------------------------------
(* The lines of a text, and what an import stores of them.                 *)

\* Every line of x has its end.
Ended(x) == x = <<>> \/ x[Len(x)] = Break

LEMMA EndsType ==
  ASSUME NEW x \in Text
  PROVE  /\ Len(x) \in Nat
         /\ Ends(x) \in SUBSET (1 .. Len(x) + 1)
         /\ Ended(x) => /\ Ends(x) \in SUBSET (1 .. Len(x))
                        /\ x # <<>> => Len(x) \in Ends(x)
                        /\ Ends(x) = {} <=> x = <<>>
  <1>1. Len(x) \in Nat /\ (x # <<>> => Len(x) # 0)
    BY EmptySeq, LenProperties DEF Text
  <1>2. Ends(x) \in SUBSET (1 .. Len(x) + 1)
    BY DEF Ends
  <1>3. ASSUME Ended(x) PROVE Len(x) + 1 \notin Ends(x)
    <2>1. ~(Len(x) + 1 <= Len(x))
      BY <1>1
    <2>2. Last(x) = x[Len(x)]
      BY DEF Last
    <2> QED BY <1>3, <2>1, <2>2 DEF Ends, Ended
  <1>4. ASSUME Ended(x), x # <<>> PROVE Len(x) \in Ends(x)
    BY <1>1, <1>4 DEF Ends, Ended
  <1>5. ASSUME x = <<>> PROVE Ends(x) = {}
    <2>1. Ended(x) /\ Len(x) = 0
      BY <1>5 DEF Ended
    <2> QED BY <1>2, <1>3, <2>1
  <1> QED BY <1>1, <1>2, <1>3, <1>4, <1>5

LEMMA EndsConcat ==
  ASSUME NEW x \in Text, NEW y \in Text, Ended(x)
  PROVE  Ends(x \o y) = Ends(x) \cup {Len(x) + j : j \in Ends(y)}
  <1> DEFINE z == x \o y
             c == Len(x)
             d == Len(y)
  <1>1. /\ c \in Nat /\ d \in Nat /\ Len(z) = c + d /\ z \in Text
        /\ \A i \in 1 .. c + d : z[i] = IF i <= c THEN x[i] ELSE y[i - c]
    BY ConcatProperties, LenProperties DEF Text
  <1>2. /\ Ends(x) \in SUBSET (1 .. c) /\ Ends(y) \in SUBSET (1 .. d + 1)
        /\ Ends(z) \in SUBSET (1 .. c + d + 1)
    BY <1>1, EndsType
  <1>3. z # <<>> /\ Last(z) # Break <=> y # <<>> /\ Last(y) # Break
    <2>1. Last(z) = z[c + d] /\ Last(y) = y[d]
      BY <1>1 DEF Last
    <2>2. CASE y = <<>>
      <3>1. z = x
        BY <2>2, ConcatEmptySeq DEF Text
      <3> QED BY <2>2, <3>1, <2>1, <1>1 DEF Ended, Last
    <2>3. CASE y # <<>>
      <3>1. d \in Nat \ {0}
        BY <2>3, EmptySeq DEF Text
      <3>2. c + d \in 1 .. c + d /\ ~(c + d <= c) /\ (c + d) - c = d
        BY <1>1, <3>1
      <3>3. z[c + d] = y[d]
        BY <1>1, <3>2
      <3>4. z # <<>>
        BY <1>1, <3>1
      <3> QED BY <2>1, <2>3, <3>3, <3>4
    <2> QED BY <2>2, <2>3
  <1> HIDE DEF z, c, d
  <1>4. ASSUME NEW i \in 1 .. c PROVE i \in Ends(z) <=> i \in Ends(x)
    <2>1. i \in 1 .. Len(z) /\ i <= Len(z) /\ i <= Len(x) /\ z[i] = x[i]
      BY <1>1 DEF c
    <2> QED BY <2>1, <1>1 DEF Ends, c
  <1>5. ASSUME NEW j \in 1 .. d + 1 PROVE c + j \in Ends(z) <=> j \in Ends(y)
    <2>1. c + j \in 1 .. Len(z) + 1 /\ j \in 1 .. Len(y) + 1 /\ (c + j <= Len(z) <=> j <= Len(y))
      BY <1>1 DEF d
    <2>2. j <= Len(y) => z[c + j] = y[j]
      <3> SUFFICES ASSUME j <= Len(y) PROVE z[c + j] = y[j]
        OBVIOUS
      <3>1. c + j \in 1 .. c + d /\ ~(c + j <= c) /\ (c + j) - c = j
        BY <1>1 DEF d
      <3> QED BY <1>1, <3>1
    <2> QED BY <2>1, <2>2, <1>3 DEF Ends
  <1>6. ASSUME NEW i \in Ends(z) PROVE i \in Ends(x) \cup {c + j : j \in Ends(y)}
    <2>1. i \in 1 .. c + d + 1
      BY <1>2
    <2>2. CASE i <= c
      BY <2>1, <2>2, <1>1, <1>4
    <2>3. CASE ~(i <= c)
      <3>1. i - c \in 1 .. d + 1 /\ c + (i - c) = i
        BY <2>1, <2>3, <1>1
      <3>2. i - c \in Ends(y)
        BY <3>1, <1>5
      <3> QED BY <3>1, <3>2
    <2> QED BY <2>2, <2>3
  <1>7. ASSUME NEW i \in Ends(x) \cup {c + j : j \in Ends(y)} PROVE i \in Ends(z)
    <2>1. CASE i \in Ends(x)
      BY <2>1, <1>2, <1>4
    <2>2. CASE i \in {c + j : j \in Ends(y)}
      BY <2>2, <1>2, <1>5
    <2> QED BY <2>1, <2>2
  <1>8. Ends(z) = Ends(x) \cup {c + j : j \in Ends(y)}
    BY <1>6, <1>7
  <1> QED BY <1>8 DEF z, c

\* The n-th line of a text lies between two ends.
Begins(x, ends, n) == IF n = 1 THEN 1 ELSE ends[n - 1] + 1

LEMMA LinesAre ==
  ASSUME NEW x \in Text
  PROVE  LET e == Sorted(Ends(x))
         IN /\ Len(e) \in Nat /\ e \in Seq(Int)
            /\ Lists(e, Len(e), Ends(x))
            /\ Lines(x) \in Seq(Text) /\ Len(Lines(x)) = Len(e)
            /\ \A n \in 1 .. Len(e) :
                  /\ e[n] \in 1 .. Len(x) + 1
                  /\ Begins(x, e, n) \in Nat \ {0}
                  /\ Lines(x)[n] = SubSeq(x, Begins(x, e, n), e[n] - 1)
  <1> DEFINE e == Sorted(Ends(x))
             m == Len(e)
             s(n) == SubSeq(x, Begins(x, e, n), e[n] - 1)
  <1>1. Len(x) \in Nat /\ Len(x) + 1 \in Nat /\ Ends(x) \in SUBSET (1 .. Len(x) + 1)
    BY EndsType
  <1>2. Lists(e, m, Ends(x)) /\ e \in Seq(Ends(x)) /\ m \in Nat /\ DOMAIN e = 1 .. m
    <2>1. Lists(e, m, Ends(x)) /\ e \in Seq(Ends(x))
      BY <1>1, SortedLists
    <2> QED BY <2>1, LenProperties
  <1>3. Lines(x) = [n \in 1 .. m |-> s(n)]
    BY <1>2 DEF Lines, Begins
  <1> HIDE DEF e, m
  <1>4. \A n \in 1 .. m : e[n] \in 1 .. Len(x) + 1
    BY <1>1, <1>2 DEF Lists
  <1>5. ASSUME NEW n \in 1 .. m PROVE Begins(x, e, n) \in Nat \ {0}
    <2>1. CASE n = 1
      BY <2>1 DEF Begins
    <2>2. CASE n # 1
      <3>1. n - 1 \in 1 .. m
        BY <2>2, <1>2
      <3>2. e[n - 1] \in 1 .. Len(x) + 1
        BY <3>1, <1>4
      <3> QED BY <2>2, <3>2 DEF Begins
    <2> QED BY <2>1, <2>2
  <1>6. ASSUME NEW n \in 1 .. m PROVE s(n) \in Text
    <2>1. \A k \in Begins(x, e, n) .. e[n] - 1 : x[k] \in Letters
      <3> TAKE k \in Begins(x, e, n) .. e[n] - 1
      <3>1. e[n] \in 1 .. Len(x) + 1 /\ Begins(x, e, n) \in Nat \ {0}
        BY <1>4, <1>5
      <3>2. k \in 1 .. Len(x)
        BY <3>1, <1>1
      <3> QED BY <3>2, ElementOfSeq DEF Text
    <2>2. Begins(x, e, n) \in Int /\ e[n] - 1 \in Int
      BY <1>4, <1>5
    <2> QED BY <2>1, <2>2, SubSeqProperties DEF Text
  <1> HIDE DEF s
  <1>7. Lines(x) \in Seq(Text) /\ Len(Lines(x)) = m /\ \A n \in 1 .. m : Lines(x)[n] = s(n)
    BY <1>2, <1>3, <1>6
  <1>8. e \in Seq(Int)
    <2>1. \A n \in 1 .. m : e[n] \in Int
      BY <1>4, <1>1
    <2>2. e \in [1 .. m -> Int]
      BY <2>1, <1>2, LenProperties
    <2> QED BY <1>2, <2>2
  <1> QED BY <1>2, <1>4, <1>5, <1>7, <1>8 DEF e, m, s

\* A text whose lines have their ends is read before what follows it.
LEMMA LinesConcat ==
  ASSUME NEW x \in Text, NEW y \in Text, Ended(x)
  PROVE  Lines(x \o y) = Lines(x) \o Lines(y)
  <1> DEFINE z == x \o y
             c == Len(x)
             e == Sorted(Ends(x))
             f == Sorted(Ends(y))
             g == Sorted(Ends(z))
             m == Len(e)
             k == Len(f)
  <1>1. z \in Text /\ c \in Nat /\ Len(y) \in Nat
    BY ConcatProperties, LenProperties DEF Text
  <1>2. /\ m \in Nat /\ Lists(e, m, Ends(x)) /\ e \in Seq(Int)
        /\ Lines(x) \in Seq(Text) /\ Len(Lines(x)) = m
        /\ \A n \in 1 .. m : /\ e[n] \in 1 .. c + 1
                             /\ Begins(x, e, n) \in Nat \ {0}
                             /\ Lines(x)[n] = SubSeq(x, Begins(x, e, n), e[n] - 1)
    BY LinesAre
  <1>3. /\ k \in Nat /\ f \in Seq(Int)
        /\ Lines(y) \in Seq(Text) /\ Len(Lines(y)) = k
        /\ \A n \in 1 .. k : /\ f[n] \in 1 .. Len(y) + 1
                             /\ Begins(y, f, n) \in Nat \ {0}
                             /\ Lines(y)[n] = SubSeq(y, Begins(y, f, n), f[n] - 1)
    BY LinesAre
  <1>4. /\ Lines(z) \in Seq(Text) /\ Len(Lines(z)) = Len(g)
        /\ \A n \in 1 .. Len(g) : Lines(z)[n] = SubSeq(z, Begins(z, g, n), g[n] - 1)
    <2> HIDE DEF z
    <2> QED BY <1>1, LinesAre
  <1>5. Len(g) = m + k /\ \A n \in 1 .. m + k : g[n] = IF n <= m THEN e[n] ELSE c + f[n - m]
    <2> DEFINE ff == [i \in 1 .. k |-> c + f[i]]
    <2>1. /\ Ends(x) \in SUBSET (1 .. c) /\ Ends(y) \in SUBSET (1 .. Len(y) + 1) /\ Len(y) + 1 \in Nat
      BY EndsType
    <2>2. Sorted(Ends(x) \cup {c + j : j \in Ends(y)}) = e \o ff
      BY <1>1, <2>1, SortedConcat
    <2>3. Ends(z) = Ends(x) \cup {c + j : j \in Ends(y)}
      BY EndsConcat
    <2>4. g = e \o ff
      BY <2>2, <2>3
    <2>5. ff \in Seq(Int) /\ Len(ff) = k /\ \A i \in 1 .. k : ff[i] = c + f[i]
      <3>1. \A i \in 1 .. k : c + f[i] \in Int
        <4> TAKE i \in 1 .. k
        <4>1. f[i] \in 1 .. Len(y) + 1
          BY <1>3
        <4> QED BY <4>1, <1>1
      <3> HIDE DEF k, c, f
      <3> QED BY <3>1, <1>3
    <2> HIDE DEF ff, e, f, g, m, k, c, z
    <2>6. e \o ff \in Seq(Int) /\ Len(e \o ff) = Len(e) + Len(ff)
          /\ \A n \in 1 .. Len(e) + Len(ff) : (e \o ff)[n] = IF n <= Len(e) THEN e[n] ELSE ff[n - Len(e)]
      BY <1>2, <2>5, ConcatProperties
    <2>7. ASSUME NEW n \in 1 .. m + k PROVE g[n] = IF n <= m THEN e[n] ELSE c + f[n - m]
      <3>1. ~(n <= m) => n - m \in 1 .. k
        BY <1>2, <1>3
      <3> QED BY <2>4, <2>5, <2>6, <3>1 DEF m
    <2> QED BY <2>4, <2>5, <2>6, <2>7 DEF m
  <1>6. m # 0 => m \in 1 .. m /\ e[m] = c
    <2> SUFFICES ASSUME m # 0 PROVE m \in 1 .. m /\ e[m] = c
      OBVIOUS
    <2> HIDE DEF e, m
    <2>1. m \in 1 .. m
      BY <1>2
    <2>2. e[m] \in Ends(x)
      BY <2>1, <1>2 DEF Lists
    <2>3. x # <<>> /\ c \in Ends(x) /\ e[m] \in 1 .. c
      BY <2>2, EndsType
    <2>4. PICK i \in 1 .. m : e[i] = c
      BY <2>3, <1>2 DEF Lists
    <2>5. CASE i = m
      BY <2>1, <2>4, <2>5
    <2>6. CASE i # m
      <3>1. i < m
        BY <2>6, <1>2
      <3>2. e[i] < e[m]
        BY <3>1, <2>1, <1>2 DEF Lists
      <3> QED BY <2>3, <2>4, <3>2, <1>1
    <2> QED BY <2>5, <2>6
  <1>7. m = 0 => c = 0
    <2> SUFFICES ASSUME m = 0, x # <<>> PROVE FALSE
      BY EmptySeq
    <2>1. c \in Ends(x)
      BY EndsType
    <2> HIDE DEF e, m
    <2> QED BY <2>1, <1>2 DEF Lists
  <1>8. ASSUME NEW n \in 1 .. m PROVE Lines(z)[n] = Lines(x)[n]
    <2> HIDE DEF z, c, e, f, g, m, k
    <2>1. n \in 1 .. m + k /\ n <= m
      BY <1>2, <1>3
    <2>2. g[n] = e[n] /\ Begins(z, g, n) = Begins(x, e, n)
      <3>1. CASE n = 1
        BY <3>1, <2>1, <1>5 DEF Begins
      <3>2. CASE n # 1
        <4>1. n - 1 \in 1 .. m + k /\ n - 1 <= m
          BY <3>2, <1>2, <1>3
        <4> QED BY <4>1, <3>2, <2>1, <1>5 DEF Begins
      <3> QED BY <3>1, <3>2
    <2>3. Lines(z)[n] = SubSeq(z, Begins(x, e, n), e[n] - 1)
      BY <2>1, <2>2, <1>4, <1>5
    <2>4. e[n] - 1 \in Int /\ e[n] - 1 <= Len(x) /\ Begins(x, e, n) \in Nat \ {0}
      BY <1>1, <1>2 DEF c
    <2>5. SubSeq(z, Begins(x, e, n), e[n] - 1) = SubSeq(x, Begins(x, e, n), e[n] - 1)
      BY <2>4, SubSeqs1 DEF z, Text
    <2> QED BY <2>3, <2>5, <1>2
  <1>9. ASSUME NEW n \in 1 .. k PROVE Lines(z)[m + n] = Lines(y)[n]
    <2> HIDE DEF z, c, e, f, g, m, k
    <2>1. m + n \in 1 .. m + k /\ ~(m + n <= m) /\ (m + n) - m = n
      BY <1>2, <1>3
    <2>2. g[m + n] = c + f[n]
      BY <2>1, <1>5
    <2>3. Begins(z, g, m + n) = c + Begins(y, f, n)
      <3>1. CASE n = 1 /\ m = 0
        BY <3>1, <1>7 DEF Begins
      <3>2. CASE n = 1 /\ m # 0
        <4>1. m + n # 1 /\ (m + n) - 1 = m /\ m \in 1 .. m + k /\ m <= m
          BY <3>2, <1>2, <1>3
        <4>2. g[m] = c
          BY <4>1, <3>2, <1>5, <1>6
        <4> QED BY <4>1, <4>2, <3>2 DEF Begins
      <3>3. CASE n # 1
        <4>1. /\ m + n # 1 /\ (m + n) - 1 \in 1 .. m + k /\ ~((m + n) - 1 <= m)
              /\ ((m + n) - 1) - m = n - 1 /\ n - 1 \in 1 .. k
          BY <3>3, <1>2, <1>3
        <4>2. g[(m + n) - 1] = c + f[n - 1]
          BY <4>1, <1>5
        <4>3. f[n - 1] \in Int
          BY <4>1, <1>3
        <4>4. (c + f[n - 1]) + 1 = c + (f[n - 1] + 1)
          BY <4>3, <1>1
        <4> QED BY <4>1, <4>2, <4>4, <3>3 DEF Begins
      <3> QED BY <3>1, <3>2, <3>3
    <2>4. f[n] - 1 \in Int /\ f[n] - 1 <= Len(y) /\ Begins(y, f, n) \in Nat \ {0} /\ f[n] \in Int
      BY <1>1, <1>3
    <2>5. (c + f[n]) - 1 = c + (f[n] - 1)
      BY <2>4, <1>1
    <2>6. Lines(z)[m + n] = SubSeq(z, c + Begins(y, f, n), c + (f[n] - 1))
      BY <2>1, <2>2, <2>3, <2>5, <1>4, <1>5
    <2>7. SubSeq(z, c + Begins(y, f, n), c + (f[n] - 1)) = SubSeq(y, Begins(y, f, n), f[n] - 1)
      BY <2>4, SubSeqs2 DEF z, c, Text
    <2> QED BY <2>6, <2>7, <1>3
  <1> HIDE DEF z, e, f, g, m, k, c
  <1> DEFINE w == Lines(x) \o Lines(y)
  <1>10. /\ w \in Seq(Text) /\ Len(w) = m + k
         /\ \A n \in 1 .. m + k : w[n] = IF n <= m THEN Lines(x)[n] ELSE Lines(y)[n - m]
    <2> DEFINE u == Lines(x)
               v == Lines(y)
    <2>1. u \in Seq(Text) /\ v \in Seq(Text) /\ Len(u) = m /\ Len(v) = k
      BY <1>2, <1>3
    <2> HIDE DEF u, v
    <2>2. /\ u \o v \in Seq(Text) /\ Len(u \o v) = Len(u) + Len(v)
          /\ \A n \in 1 .. Len(u) + Len(v) : (u \o v)[n] = IF n <= Len(u) THEN u[n] ELSE v[n - Len(u)]
      BY <2>1, ConcatProperties
    <2>3. /\ u \o v \in Seq(Text) /\ Len(u \o v) = m + k
          /\ \A n \in 1 .. m + k : (u \o v)[n] = IF n <= m THEN u[n] ELSE v[n - m]
      BY <2>1, <2>2
    <2> QED BY <2>3 DEF u, v
  <1> HIDE DEF w
  <1>11. ASSUME NEW n \in 1 .. m + k PROVE Lines(z)[n] = w[n]
    <2>1. CASE n <= m
      <3>1. n \in 1 .. m
        BY <2>1, <1>2, <1>3
      <3> QED BY <3>1, <2>1, <1>8, <1>10
    <2>2. CASE ~(n <= m)
      <3>1. n - m \in 1 .. k /\ m + (n - m) = n
        BY <2>2, <1>2, <1>3
      <3> QED BY <3>1, <2>2, <1>9, <1>10
    <2> QED BY <2>1, <2>2
  <1>12. Lines(z) = w
    <2>1. Len(Lines(z)) = m + k
      BY <1>4, <1>5
    <2> QED BY <2>1, <1>4, <1>10, <1>11, SeqEqual
  <1> QED BY <1>12 DEF z, w

\* The lines an import takes an assignment from.
Kept(text) == {n \in DOMAIN Lines(text) : Assigns(Trim(Lines(text)[n]))}

LEMMA ParseIs ==
  ASSUME NEW x \in Text
  PROVE  /\ Len(Lines(x)) \in Nat
         /\ Kept(x) \in SUBSET (1 .. Len(Lines(x)))
         /\ Sorted(Kept(x)) \in Seq(Kept(x))
         /\ Len(Parse(x)) = Len(Sorted(Kept(x))) /\ DOMAIN Parse(x) = 1 .. Len(Sorted(Kept(x)))
         /\ Parse(x) = [n \in 1 .. Len(Sorted(Kept(x))) |-> Assignment(Trim(Lines(x)[Sorted(Kept(x))[n]]))]
  <1>1. Len(Lines(x)) \in Nat /\ DOMAIN Lines(x) = 1 .. Len(Lines(x))
    BY LinesAre, LenProperties
  <1>2. Kept(x) \in SUBSET (1 .. Len(Lines(x)))
    BY <1>1 DEF Kept
  <1>3. Sorted(Kept(x)) \in Seq(Kept(x))
    BY <1>1, <1>2, SortedLists
  <1>4. DOMAIN Sorted(Kept(x)) = 1 .. Len(Sorted(Kept(x))) /\ Len(Sorted(Kept(x))) \in Nat
    BY <1>3, LenProperties
  <1>5. Parse(x) = [n \in DOMAIN Sorted(Kept(x)) |-> Assignment(Trim(Lines(x)[Sorted(Kept(x))[n]]))]
    BY Zenon DEF Parse, Kept
  <1> HIDE DEF Kept
  <1>6. Len(Parse(x)) = Len(Sorted(Kept(x))) /\ DOMAIN Parse(x) = 1 .. Len(Sorted(Kept(x)))
    BY <1>4, <1>5
  <1>7. Parse(x) = [n \in 1 .. Len(Sorted(Kept(x))) |-> Assignment(Trim(Lines(x)[Sorted(Kept(x))[n]]))]
    BY <1>4, <1>5, Zenon
  <1> QED BY <1>1, <1>2, <1>3, <1>6, <1>7

LEMMA ParseType ==
  ASSUME NEW x \in Text
  PROVE  Parse(x) \in Seq(ToSet(Parse(x)))
  <1> DEFINE p == Parse(x)
             n == Len(Sorted(Kept(x)))
  <1>1. n \in Nat /\ DOMAIN p = 1 .. n
    BY ParseIs, LenProperties
  <1>2. p = [i \in 1 .. n |-> Assignment(Trim(Lines(x)[Sorted(Kept(x))[i]]))]
    BY ParseIs
  <1> HIDE DEF p, n
  <1>3. \A i \in 1 .. n : p[i] \in ToSet(p)
    BY <1>1 DEF ToSet
  <1>4. p \in [1 .. n -> ToSet(p)]
    BY <1>2, <1>3
  <1> QED BY <1>1, <1>4 DEF p

LEMMA ParseConcat ==
  ASSUME NEW x \in Text, NEW y \in Text, Ended(x)
  PROVE  /\ Len(Parse(x)) \in Nat /\ Len(Parse(y)) \in Nat
         /\ Len(Parse(x \o y)) = Len(Parse(x)) + Len(Parse(y))
         /\ \A n \in 1 .. Len(Parse(x)) : Parse(x \o y)[n] = Parse(x)[n]
         /\ \A n \in 1 .. Len(Parse(y)) : Parse(x \o y)[Len(Parse(x)) + n] = Parse(y)[n]
         /\ ToSet(Parse(x \o y)) = ToSet(Parse(x)) \cup ToSet(Parse(y))
  <1> DEFINE z == x \o y
             c == Len(Lines(x))
             d == Len(Lines(y))
             A(w, n) == Assignment(Trim(Lines(w)[n]))
             f == Sorted(Kept(x))
             g == Sorted(Kept(y))
             h == Sorted(Kept(z))
  <1>1. z \in Text
    BY ConcatProperties DEF Text
  <1>2. /\ c \in Nat /\ Kept(x) \in SUBSET (1 .. c) /\ f \in Seq(Kept(x))
        /\ Len(Parse(x)) = Len(f) /\ DOMAIN Parse(x) = 1 .. Len(f)
        /\ Parse(x) = [n \in 1 .. Len(f) |-> A(x, f[n])]
    BY ParseIs
  <1>3. /\ d \in Nat /\ Kept(y) \in SUBSET (1 .. d) /\ g \in Seq(Kept(y))
        /\ Len(Parse(y)) = Len(g) /\ DOMAIN Parse(y) = 1 .. Len(g)
        /\ Parse(y) = [n \in 1 .. Len(g) |-> A(y, g[n])]
    BY ParseIs
  <1>4. /\ Len(Parse(z)) = Len(h) /\ DOMAIN Parse(z) = 1 .. Len(h)
        /\ Parse(z) = [n \in 1 .. Len(h) |-> A(z, h[n])]
    <2> HIDE DEF z
    <2> QED BY <1>1, ParseIs
  <1>5. /\ Lines(x) \in Seq(Text) /\ Lines(y) \in Seq(Text) /\ Lines(z) = Lines(x) \o Lines(y)
    BY LinesAre, LinesConcat
  <1>6. /\ Lines(z) \in Seq(Text) /\ Len(Lines(z)) = c + d
        /\ \A n \in 1 .. c + d : Lines(z)[n] = IF n <= c THEN Lines(x)[n] ELSE Lines(y)[n - c]
    <2> DEFINE u == Lines(x)
               v == Lines(y)
    <2>1. u \in Seq(Text) /\ v \in Seq(Text) /\ Len(u) = c /\ Len(v) = d
      BY <1>5
    <2> HIDE DEF u, v
    <2>2. /\ u \o v \in Seq(Text) /\ Len(u \o v) = Len(u) + Len(v)
          /\ \A n \in 1 .. Len(u) + Len(v) : (u \o v)[n] = IF n <= Len(u) THEN u[n] ELSE v[n - Len(u)]
      BY <2>1, ConcatProperties
    <2> HIDE DEF z, c, d
    <2>3. /\ u \o v \in Seq(Text) /\ Len(u \o v) = c + d
          /\ \A n \in 1 .. c + d : (u \o v)[n] = IF n <= c THEN u[n] ELSE v[n - c]
      BY <2>1, <2>2
    <2>4. Lines(z) = u \o v
      BY <1>5 DEF u, v
    <2> QED BY <2>3, <2>4 DEF u, v
  <1>a. /\ \A n \in 1 .. Len(f) : f[n] \in 1 .. c /\ f[n] \in Kept(x)
        /\ \A n \in 1 .. Len(g) : g[n] \in 1 .. d /\ g[n] \in Kept(y)
        /\ Len(f) \in Nat /\ Len(g) \in Nat
    <2> HIDE DEF f, g, c, d, z
    <2>1. \A n \in 1 .. Len(f) : f[n] \in Kept(x)
      BY <1>2, ElementOfSeq
    <2>2. \A n \in 1 .. Len(g) : g[n] \in Kept(y)
      BY <1>3, ElementOfSeq
    <2> QED BY <2>1, <2>2, <1>2, <1>3, LenProperties
  <1> HIDE DEF z, c, d, f, g, h
  <1>7. ASSUME NEW n \in 1 .. c PROVE Lines(z)[n] = Lines(x)[n] /\ (n \in Kept(z) <=> n \in Kept(x))
    <2>1. n \in 1 .. c + d /\ n <= c
      BY <1>2, <1>3
    <2>2. Lines(z)[n] = Lines(x)[n]
      BY <2>1, <1>6
    <2>3. n \in DOMAIN Lines(z) /\ n \in DOMAIN Lines(x)
      BY <2>1, <1>5, <1>6 DEF c
    <2> QED BY <2>2, <2>3, Zenon DEF Kept
  <1>8. ASSUME NEW n \in 1 .. d
        PROVE  Lines(z)[c + n] = Lines(y)[n] /\ (c + n \in Kept(z) <=> n \in Kept(y))
    <2>1. c + n \in 1 .. c + d /\ ~(c + n <= c) /\ (c + n) - c = n
      BY <1>2, <1>3
    <2>2. Lines(z)[c + n] = Lines(y)[n]
      BY <2>1, <1>6
    <2>3. c + n \in DOMAIN Lines(z) /\ n \in DOMAIN Lines(y)
      BY <2>1, <1>5, <1>6 DEF d
    <2> QED BY <2>2, <2>3, Zenon DEF Kept
  <1>9. Kept(z) = Kept(x) \cup {c + j : j \in Kept(y)}
    <2>1. ASSUME NEW n \in Kept(z) PROVE n \in Kept(x) \cup {c + j : j \in Kept(y)}
      <3>1. n \in 1 .. c + d
        <4>1. n \in DOMAIN Lines(z)
          BY DEF Kept
        <4> QED BY <4>1, <1>6
      <3>2. CASE n <= c
        <4>1. n \in 1 .. c
          BY <3>1, <3>2, <1>2
        <4> QED BY <4>1, <1>7
      <3>3. CASE ~(n <= c)
        <4>1. n - c \in 1 .. d /\ c + (n - c) = n
          BY <3>1, <3>3, <1>2, <1>3
        <4>2. n - c \in Kept(y)
          BY <4>1, <1>8
        <4> QED BY <4>1, <4>2
      <3> QED BY <3>2, <3>3
    <2>2. ASSUME NEW n \in Kept(x) \cup {c + j : j \in Kept(y)} PROVE n \in Kept(z)
      <3>1. CASE n \in Kept(x)
        BY <3>1, <1>2, <1>7
      <3>2. CASE n \in {c + j : j \in Kept(y)}
        BY <3>2, <1>3, <1>8
      <3> QED BY <3>1, <3>2
    <2> QED BY <2>1, <2>2
  <1>10. Len(h) = Len(f) + Len(g) /\ \A n \in 1 .. Len(f) + Len(g) : h[n] = IF n <= Len(f) THEN f[n] ELSE c + g[n - Len(f)]
    <2> DEFINE gg == [i \in 1 .. Len(g) |-> c + g[i]]
    <2>1. h = f \o gg
      <3>1. Sorted(Kept(x) \cup {c + j : j \in Kept(y)}) = f \o gg
        BY <1>2, <1>3, SortedConcat DEF f, g
      <3> QED BY <3>1, <1>9 DEF h
    <2>2. gg \in Seq(Int) /\ Len(gg) = Len(g) /\ \A i \in 1 .. Len(g) : gg[i] = c + g[i]
      <3>1. \A i \in 1 .. Len(g) : c + g[i] \in Int
        <4> TAKE i \in 1 .. Len(g)
        <4>1. g[i] \in 1 .. d
          BY <1>a
        <4> QED BY <4>1, <1>2, <1>3
      <3> QED BY <3>1, <1>a
    <2>3. f \in Seq(Int)
      <3>1. \A n \in 1 .. Len(f) : f[n] \in Int
        <4> TAKE n \in 1 .. Len(f)
        <4>1. f[n] \in 1 .. c
          BY <1>a
        <4> QED BY <4>1, <1>2
      <3>2. f \in [1 .. Len(f) -> Int]
        BY <3>1, <1>2, LenProperties
      <3> QED BY <3>2, <1>a
    <2> HIDE DEF gg
    <2>4. /\ Len(f \o gg) = Len(f) + Len(gg)
          /\ \A n \in 1 .. Len(f) + Len(gg) : (f \o gg)[n] = IF n <= Len(f) THEN f[n] ELSE gg[n - Len(f)]
      <3>1. f \in Seq(Int) /\ gg \in Seq(Int)
        BY <2>2, <2>3
      <3> QED BY <3>1, ConcatProperties
    <2>5. ASSUME NEW n \in 1 .. Len(f) + Len(g) PROVE h[n] = IF n <= Len(f) THEN f[n] ELSE c + g[n - Len(f)]
      <3>1. ~(n <= Len(f)) => n - Len(f) \in 1 .. Len(g)
        BY <1>a
      <3> QED BY <3>1, <2>1, <2>2, <2>4
    <2> QED BY <2>1, <2>2, <2>4, <2>5
  <1>11. ASSUME NEW n \in 1 .. Len(f) PROVE Parse(z)[n] = Parse(x)[n]
    <2>1. n \in 1 .. Len(h) /\ n \in 1 .. Len(f) + Len(g) /\ n <= Len(f)
      BY <1>a, <1>10
    <2>2. h[n] = f[n] /\ f[n] \in 1 .. c
      BY <2>1, <1>10, <1>a
    <2>3. Lines(z)[h[n]] = Lines(x)[f[n]]
      BY <2>2, <1>7
    <2>4. Parse(z)[n] = A(z, h[n])
      BY <2>1, <1>4, Zenon
    <2>5. Parse(x)[n] = A(x, f[n])
      BY <1>2, Zenon
    <2> QED BY <2>3, <2>4, <2>5, Zenon
  <1>12. ASSUME NEW n \in 1 .. Len(g) PROVE Parse(z)[Len(f) + n] = Parse(y)[n]
    <2>1. /\ Len(f) + n \in 1 .. Len(h) /\ Len(f) + n \in 1 .. Len(f) + Len(g)
          /\ ~(Len(f) + n <= Len(f)) /\ (Len(f) + n) - Len(f) = n
      BY <1>a, <1>10
    <2>2. h[Len(f) + n] = c + g[n] /\ g[n] \in 1 .. d
      BY <2>1, <1>10, <1>a
    <2>3. Lines(z)[h[Len(f) + n]] = Lines(y)[g[n]]
      BY <2>2, <1>8
    <2>4. Parse(z)[Len(f) + n] = A(z, h[Len(f) + n])
      BY <2>1, <1>4, Zenon
    <2>5. Parse(y)[n] = A(y, g[n])
      BY <1>3, Zenon
    <2> QED BY <2>3, <2>4, <2>5, Zenon
  <1>13. ToSet(Parse(z)) = ToSet(Parse(x)) \cup ToSet(Parse(y))
    <2> DEFINE p == Parse(z)
               q == Parse(x)
               r == Parse(y)
    <2>1. /\ DOMAIN p = 1 .. Len(f) + Len(g) /\ DOMAIN q = 1 .. Len(f) /\ DOMAIN r = 1 .. Len(g)
          /\ \A n \in 1 .. Len(f) : p[n] = q[n]
          /\ \A n \in 1 .. Len(g) : p[Len(f) + n] = r[n]
      BY <1>2, <1>3, <1>4, <1>10, <1>11, <1>12
    <2> HIDE DEF p, q, r
    <2>2. ASSUME NEW n \in 1 .. Len(f) + Len(g)
          PROVE  p[n] \in {q[i] : i \in 1 .. Len(f)} \cup {r[i] : i \in 1 .. Len(g)}
      <3>1. CASE n <= Len(f)
        <4>1. n \in 1 .. Len(f)
          BY <3>1, <1>a
        <4> QED BY <4>1, <2>1
      <3>2. CASE ~(n <= Len(f))
        <4>1. n - Len(f) \in 1 .. Len(g) /\ Len(f) + (n - Len(f)) = n
          BY <3>2, <1>a
        <4>2. p[n] = r[n - Len(f)]
          BY <4>1, <2>1
        <4> QED BY <4>1, <4>2
      <3> QED BY <3>1, <3>2
    <2>3. ASSUME NEW i \in 1 .. Len(f) PROVE q[i] \in {p[n] : n \in 1 .. Len(f) + Len(g)}
      <3>1. i \in 1 .. Len(f) + Len(g)
        BY <1>a
      <3> QED BY <3>1, <2>1
    <2>4. ASSUME NEW i \in 1 .. Len(g) PROVE r[i] \in {p[n] : n \in 1 .. Len(f) + Len(g)}
      <3>1. Len(f) + i \in 1 .. Len(f) + Len(g)
        BY <1>a
      <3> QED BY <3>1, <2>1
    <2>5. ToSet(p) = ToSet(q) \cup ToSet(r)
      BY <2>1, <2>2, <2>3, <2>4 DEF ToSet
    <2> QED BY <2>5 DEF p, q, r
  <1>14. Len(Parse(x)) = Len(f) /\ Len(Parse(y)) = Len(g) /\ Len(Parse(z)) = Len(f) + Len(g)
    BY <1>2, <1>3, <1>4, <1>10
  <1> QED BY <1>a, <1>11, <1>12, <1>13, <1>14 DEF z

-----------------------------------------------------------------------------
(* The line of one variable.                                               *)

Variable == [key : Text \ {<<>>}, value : Text]
Row(v)   == v.key \o <<"=">> \o v.value \o <<Break>>

LEMMA RowIs ==
  ASSUME NEW v \in Variable
  PROVE  LET l == v.key \o <<"=">> \o v.value
             k == Len(v.key)
             m == Len(v.value)
         IN /\ l \in Text /\ Row(v) \in Text /\ Row(v) = l \o <<Break>>
            /\ k \in Nat \ {0} /\ m \in Nat /\ Len(l) = k + 1 + m /\ Len(Row(v)) = k + m + 2
            /\ \A i \in 1 .. k : l[i] = v.key[i]
            /\ l[k + 1] = "="
            /\ \A i \in 1 .. m : l[k + 1 + i] = v.value[i]
            /\ \A i \in 1 .. k + 1 + m : Row(v)[i] = l[i]
            /\ Row(v)[k + m + 2] = Break
            /\ Ended(Row(v))
  <1> DEFINE a == v.key
             b == v.value
             k == Len(a)
             m == Len(b)
             p == a \o <<"=">>
             l == p \o b
             r == l \o <<Break>>
  <1>1. a \in Text /\ b \in Text /\ k \in Nat \ {0} /\ m \in Nat
    <2>1. a \in Text /\ b \in Text /\ a # <<>>
      BY DEF Variable
    <2> HIDE DEF a, b
    <2> QED BY <2>1, EmptySeq, LenProperties DEF Text
  <1>2. "=" \in Letters /\ Break \in Letters
    BY DEF Letters
  <1> HIDE DEF a, b
  <1>3. /\ <<"=">> \in Text /\ Len(<<"=">>) = 1 /\ <<"=">>[1] = "="
        /\ <<Break>> \in Text /\ Len(<<Break>>) = 1 /\ <<Break>>[1] = Break
    BY <1>2 DEF Text
  <1>4. p \in Text /\ Len(p) = k + 1 /\ (\A i \in 1 .. k : p[i] = a[i]) /\ p[k + 1] = "="
    <2>1. /\ p \in Text /\ Len(p) = k + 1
          /\ \A i \in 1 .. k + 1 : p[i] = IF i <= k THEN a[i] ELSE <<"=">>[i - k]
      BY <1>1, <1>3, ConcatProperties DEF Text
    <2> HIDE DEF p, k
    <2>2. \A i \in 1 .. k : p[i] = a[i]
      BY <2>1, <1>1
    <2>3. k + 1 \in 1 .. k + 1 /\ ~(k + 1 <= k) /\ (k + 1) - k = 1
      BY <1>1
    <2>4. p[k + 1] = <<"=">>[1]
      BY <2>1, <2>3
    <2> QED BY <2>1, <2>2, <2>4, <1>3
  <1> HIDE DEF p
  <1>5. /\ l \in Text /\ Len(l) = k + 1 + m /\ \A i \in 1 .. k + 1 : l[i] = p[i]
        /\ \A i \in 1 .. m : l[k + 1 + i] = b[i]
    <2>1. /\ l \in Text /\ Len(l) = k + 1 + m
          /\ \A i \in 1 .. k + 1 + m : l[i] = IF i <= k + 1 THEN p[i] ELSE b[i - (k + 1)]
      <3>1. /\ l \in Text /\ Len(l) = Len(p) + Len(b)
            /\ \A i \in 1 .. Len(p) + Len(b) : l[i] = IF i <= Len(p) THEN p[i] ELSE b[i - Len(p)]
        BY <1>1, <1>4, ConcatProperties DEF Text
      <3> HIDE DEF l
      <3> QED BY <3>1, <1>4
    <2> HIDE DEF l, k, m
    <2>2. \A i \in 1 .. k + 1 : l[i] = p[i]
      BY <2>1, <1>1
    <2>3. ASSUME NEW i \in 1 .. m PROVE l[k + 1 + i] = b[i]
      <3>1. k + 1 + i \in 1 .. k + 1 + m /\ ~(k + 1 + i <= k + 1) /\ (k + 1 + i) - (k + 1) = i
        BY <1>1
      <3> QED BY <2>1, <3>1
    <2> QED BY <2>1, <2>2, <2>3
  <1> HIDE DEF l
  <1>6. /\ r \in Text /\ Len(r) = k + m + 2 /\ \A i \in 1 .. k + 1 + m : r[i] = l[i]
        /\ r[k + m + 2] = Break
    <2> DEFINE n == Len(l)
    <2>1. /\ r \in Text /\ Len(r) = n + 1
          /\ \A i \in 1 .. n + 1 : r[i] = IF i <= n THEN l[i] ELSE <<Break>>[i - n]
      BY <1>3, <1>5, ConcatProperties DEF Text
    <2>2. n = k + 1 + m /\ n + 1 = k + m + 2 /\ n \in Nat
      BY <1>1, <1>5
    <2> HIDE DEF r, n, k, m
    <2>3. \A i \in 1 .. n : r[i] = l[i]
      BY <2>1, <2>2
    <2>4. n + 1 \in 1 .. n + 1 /\ ~(n + 1 <= n) /\ (n + 1) - n = 1
      BY <2>2
    <2>5. r[n + 1] = Break
      BY <1>3, <2>1, <2>4
    <2> QED BY <2>1, <2>2, <2>3, <2>5
  <1>7. Row(v) = r
    BY DEF Row, l, p, a, b
  <1> HIDE DEF r
  <1>8. Ended(Row(v))
    BY <1>6, <1>7 DEF Ended
  <1>9. \A i \in 1 .. k : i \in 1 .. k + 1
    BY <1>1
  <1>10. k + 1 \in 1 .. k + 1
    BY <1>1
  <1> USE DEF l, p, a, b
  <1>11. /\ \A i \in 1 .. Len(v.key) : (v.key \o <<"=">> \o v.value)[i] = v.key[i]
         /\ (v.key \o <<"=">> \o v.value)[Len(v.key) + 1] = "="
    BY <1>4, <1>5, <1>9, <1>10
  <1> QED BY <1>1, <1>5, <1>6, <1>7, <1>8, <1>11, Zenon DEF r

\* A text without blanks around it is trimmed to itself.
LEMMA TrimSame ==
  ASSUME NEW l \in Text, l # <<>>
  PROVE  /\ l[1] \notin Blanks /\ l[Len(l)] \notin Blanks => Trim(l) = l
         /\ Trim(l) = l => l[1] \notin Blanks
  <1> DEFINE K == {i \in DOMAIN l : l[i] \notin Blanks}
             n == Len(l)
             a == Min(K)
             b == Max(K)
  <1>1. n \in Nat \ {0} /\ DOMAIN l = 1 .. n /\ K \in SUBSET (1 .. n) /\ 1 \in 1 .. n /\ n \in 1 .. n
    BY EmptySeq, LenProperties DEF Text
  <1>2. K # {} => a \in K /\ b \in K /\ (\A i \in K : a <= i /\ i <= b) /\ Trim(l) = SubSeq(l, a, b)
    <2> SUFFICES ASSUME K # {}
                 PROVE  a \in K /\ b \in K /\ (\A i \in K : a <= i /\ i <= b) /\ Trim(l) = SubSeq(l, a, b)
      OBVIOUS
    <2>1. a \in K /\ b \in K /\ \A i \in K : a <= i /\ i <= b
      <3> HIDE DEF K
      <3> QED BY <1>1, Extremes
    <2>2. Trim(l) = SubSeq(l, a, b)
      BY DEF Trim
    <2> QED BY <2>1, <2>2
  <1>3. K = {} => Trim(l) = <<>>
    BY DEF Trim
  <1>4. /\ 1 \in K <=> l[1] \notin Blanks
        /\ n \in K <=> l[n] \notin Blanks
    BY <1>1
  <1> HIDE DEF K, a, b, n
  <1>5. ASSUME 1 \in K, n \in K PROVE Trim(l) = l
    <2>1. a \in 1 .. n /\ b \in 1 .. n /\ a <= 1 /\ n <= b /\ Trim(l) = SubSeq(l, a, b)
      BY <1>1, <1>2, <1>5
    <2>2. a = 1 /\ b = n
      BY <1>1, <2>1
    <2> QED BY <2>1, <2>2, SubSeqFull DEF Text, n
  <1>6. ASSUME Trim(l) = l PROVE 1 \in K
    <2>1. K # {}
      BY <1>3, <1>6
    <2>2. a \in K /\ a \in 1 .. n /\ b \in 1 .. n /\ l = SubSeq(l, a, b)
      BY <1>1, <1>2, <1>6, <2>1
    <2>3. \A i \in a .. b : l[i] \in Letters
      <3> TAKE i \in a .. b
      <3>1. i \in 1 .. Len(l)
        BY <1>1, <2>2 DEF n
      <3> QED BY <3>1, ElementOfSeq DEF Text
    <2>4. n = IF a <= b THEN b - a + 1 ELSE 0
      <3>1. Len(SubSeq(l, a, b)) = IF a <= b THEN b - a + 1 ELSE 0
        BY <2>2, <2>3, SubSeqProperties
      <3> QED BY <2>2, <3>1 DEF n
    <2>5. a = 1
      BY <1>1, <2>2, <2>4
    <2> QED BY <2>2, <2>5
  <1> QED BY <1>4, <1>5, <1>6 DEF n

\* A clean variable is read from its line as it was.
LEMMA ParseRow ==
  ASSUME NEW v \in Variable, Clean(v)
  PROVE  Parse(Row(v)) = <<v>>
  <1> DEFINE l == v.key \o <<"=">> \o v.value
             k == Len(v.key)
             m == Len(v.value)
             r == Row(v)
  <1>1. /\ l \in Text /\ r \in Text /\ k \in Nat \ {0} /\ m \in Nat
        /\ Len(l) = k + 1 + m /\ Len(r) = k + m + 2 /\ r = l \o <<Break>>
        /\ \A i \in 1 .. k : l[i] = v.key[i]
        /\ l[k + 1] = "="
        /\ \A i \in 1 .. m : l[k + 1 + i] = v.value[i]
        /\ \A i \in 1 .. k + 1 + m : r[i] = l[i]
        /\ r[k + m + 2] = Break
        /\ Ended(r)
    BY RowIs
  <1>2. v.key \in Text /\ v.value \in Text /\ v.key # <<>> /\ DOMAIN v.key = 1 .. k /\ DOMAIN v.value = 1 .. m
    BY LenProperties DEF Variable, Text
  <1>3. /\ v.key = Trim(v.key) /\ Head(v.key) # "#"
        /\ \A i \in 1 .. k : v.key[i] # "=" /\ v.key[i] # Break
        /\ \A i \in 1 .. m : v.value[i] # Break
        /\ v.value # <<>> => v.value[m] \notin Blanks
    BY <1>2 DEF Clean, Signs
  <1>a. v = [key |-> v.key, value |-> v.value]
    BY DEF Variable
  <1>b. "=" # Break /\ "=" \notin Blanks
    BY DEF Break, Blanks
  <1> HIDE DEF l, r, k, m
  <1>4. ASSUME NEW i \in 1 .. k + 1 + m
        PROVE  l[i] = IF i <= k THEN v.key[i] ELSE IF i = k + 1 THEN "=" ELSE v.value[i - (k + 1)]
    <2>1. CASE i <= k
      <3>1. i \in 1 .. k
        BY <2>1, <1>1
      <3> QED BY <3>1, <2>1, <1>1
    <2>2. CASE i = k + 1
      BY <2>2, <1>1
    <2>3. CASE ~(i <= k) /\ i # k + 1
      <3>1. i - (k + 1) \in 1 .. m /\ k + 1 + (i - (k + 1)) = i
        BY <2>3, <1>1
      <3>2. l[k + 1 + (i - (k + 1))] = v.value[i - (k + 1)]
        BY <3>1, <1>1
      <3> QED BY <3>1, <3>2, <2>3
    <2> QED BY <2>1, <2>2, <2>3
  <1>5. \A i \in 1 .. k + 1 + m : l[i] # Break
    <2> TAKE i \in 1 .. k + 1 + m
    <2>1. CASE i <= k
      <3>1. i \in 1 .. k
        BY <2>1, <1>1
      <3> QED BY <3>1, <2>1, <1>4, <1>3
    <2>2. CASE i = k + 1
      BY <2>2, <1>1, <1>b
    <2>3. CASE ~(i <= k) /\ i # k + 1
      <3>1. i - (k + 1) \in 1 .. m
        BY <2>3, <1>1
      <3> QED BY <3>1, <2>3, <1>4, <1>3
    <2> QED BY <2>1, <2>2, <2>3
  <1>6. Ends(r) = {k + m + 2}
    <2>1. Ends(r) \in SUBSET (1 .. k + m + 2) /\ r # <<>> /\ k + m + 2 \in Ends(r)
      <3>1. r # <<>>
        <4>1. Len(r) # 0
          BY <1>1
        <4> QED BY <4>1
      <3> QED BY <3>1, <1>1, EndsType
    <2>2. ASSUME NEW i \in Ends(r), i # k + m + 2 PROVE FALSE
      <3>1. i \in 1 .. k + 1 + m /\ i <= Len(r)
        BY <1>1, <2>1, <2>2
      <3>2. r[i] = Break
        BY <3>1 DEF Ends
      <3> QED BY <3>1, <3>2, <1>1, <1>5
    <2> QED BY <2>1, <2>2
  <1>7. Lines(r) = <<l>>
    <2> DEFINE e == Sorted(Ends(r))
    <2>0. k + m + 2 \in Int
      BY <1>1
    <2>1. e = <<k + m + 2>>
      BY <2>0, <1>6, SortedOne
    <2>2. Len(e) = 1 /\ e[1] = k + m + 2
      BY <2>1
    <2> HIDE DEF e
    <2>3. /\ Lines(r) \in Seq(Text) /\ Len(Lines(r)) = Len(e)
          /\ \A n \in 1 .. Len(e) : Lines(r)[n] = SubSeq(r, Begins(r, e, n), e[n] - 1)
      BY <1>1, LinesAre DEF e
    <2>4. Begins(r, e, 1) = 1
      BY DEF Begins
    <2>5. e[1] - 1 = Len(l) /\ 1 \in 1 .. Len(e)
      BY <2>2, <1>1
    <2>6. Lines(r)[1] = SubSeq(r, 1, Len(l))
      BY <2>3, <2>4, <2>5
    <2>7. SubSeq(l \o <<Break>>, 1, Len(l)) = SubSeq(l, 1, Len(l))
      <3>1. <<Break>> \in Text
        BY DEF Text, Letters
      <3>2. Len(l) \in Int /\ Len(l) <= Len(l) /\ 1 \in Nat \ {0}
        BY <1>1
      <3> QED BY <1>1, <3>1, <3>2, SubSeqs1 DEF Text
    <2>8. SubSeq(l, 1, Len(l)) = l
      BY <1>1, SubSeqFull DEF Text
    <2>9. Lines(r)[1] = l
      BY <2>6, <2>7, <2>8, <1>1
    <2> QED BY <2>2, <2>3, <2>9
  <1>8. Trim(l) = l
    <2>1. l # <<>>
      <3>1. Len(l) # 0
        BY <1>1
      <3> QED BY <3>1
    <2>2. l[1] \notin Blanks
      <3>1. v.key[1] \notin Blanks
        BY <1>2, <1>3, TrimSame
      <3>2. 1 \in 1 .. k
        BY <1>1
      <3> QED BY <3>1, <3>2, <1>1
    <2>3. l[Len(l)] \notin Blanks
      <3>1. CASE m = 0
        <4>1. Len(l) = k + 1
          BY <3>1, <1>1
        <4> QED BY <4>1, <1>1, <1>b
      <3>2. CASE m # 0
        <4>1. m \in 1 .. m /\ Len(l) = k + 1 + m
          BY <3>2, <1>1
        <4>2. v.value # <<>>
          BY <3>2, EmptySeq DEF m
        <4> QED BY <4>1, <4>2, <1>1, <1>3
      <3> QED BY <3>1, <3>2
    <2> QED BY <2>1, <2>2, <2>3, <1>1, TrimSame
  <1>9. At(l) = k + 1 /\ Signs(l) # {}
    <2>1. DOMAIN l = 1 .. k + 1 + m
      BY <1>1, LenProperties DEF Text
    <2>2. Signs(l) \in SUBSET (1 .. k + 1 + m) /\ k + 1 + m \in Nat
      BY <1>1, <2>1 DEF Signs
    <2>3. k + 1 \in Signs(l)
      <3>1. k + 1 \in 1 .. k + 1 + m
        BY <1>1
      <3> QED BY <3>1, <2>1, <1>1 DEF Signs
    <2>4. Min(Signs(l)) \in Signs(l) /\ Min(Signs(l)) <= k + 1
      BY <2>2, <2>3, Extremes
    <2>5. ASSUME Min(Signs(l)) # k + 1 PROVE FALSE
      <3>1. Min(Signs(l)) \in 1 .. k /\ l[Min(Signs(l))] = "="
        BY <2>2, <2>4, <2>5, <1>1 DEF Signs
      <3> QED BY <3>1, <1>1, <1>3
    <2> QED BY <2>3, <2>5 DEF At
  <1>10. Assigns(l)
    <2>1. l # <<>>
      <3>1. Len(l) # 0
        BY <1>1
      <3> QED BY <3>1
    <2>2. Head(l) # "#"
      <3>1. Head(l) = l[1] /\ Head(v.key) = v.key[1]
        BY <2>1, <1>1, <1>2 DEF Text
      <3>2. 1 \in 1 .. k
        BY <1>1
      <3> QED BY <3>1, <3>2, <1>1, <1>3
    <2>3. At(l) > 1
      BY <1>1, <1>9
    <2> QED BY <2>1, <2>2, <2>3, <1>9 DEF Assigns
  <1>11. Assignment(l) = v
    <2>1. SubSeq(l, 1, At(l) - 1) = v.key
      <3> DEFINE s == SubSeq(l, 1, k)
      <3>1. At(l) - 1 = k
        BY <1>1, <1>9
      <3>2. \A i \in 1 .. k : l[i] \in Letters
        <4> TAKE i \in 1 .. k
        <4>1. i \in 1 .. Len(l)
          BY <1>1
        <4> QED BY <4>1, <1>1, ElementOfSeq DEF Text
      <3>3. s \in Text /\ Len(s) = k /\ \A i \in 1 .. k : s[i] = l[1 + i - 1]
        <4>1. 1 <= k /\ k - 1 + 1 = k /\ 1 \in Int /\ k \in Int
          BY <1>1
        <4>2. /\ s \in Text /\ Len(s) = IF 1 <= k THEN k - 1 + 1 ELSE 0
              /\ \A i \in 1 .. k - 1 + 1 : s[i] = l[1 + i - 1]
          BY <3>2, <4>1, SubSeqProperties DEF Text
        <4> QED BY <4>1, <4>2
      <3> HIDE DEF s
      <3>4. ASSUME NEW i \in 1 .. k PROVE s[i] = v.key[i]
        <4>1. 1 + i - 1 = i
          BY <1>1
        <4> QED BY <4>1, <3>3, <1>1
      <3>5. Len(v.key) = k
        BY DEF k
      <3>6. s = v.key
        BY <3>3, <3>4, <3>5, <1>2, SeqEqual DEF Text
      <3> QED BY <3>1, <3>6 DEF s
    <2>2. SubSeq(l, At(l) + 1, Len(l)) = v.value
      <3> DEFINE s == SubSeq(l, k + 2, k + 1 + m)
      <3>1. At(l) + 1 = k + 2 /\ Len(l) = k + 1 + m
        BY <1>1, <1>9
      <3>2. \A i \in k + 2 .. k + 1 + m : l[i] \in Letters
        <4> TAKE i \in k + 2 .. k + 1 + m
        <4>1. i \in 1 .. Len(l)
          BY <1>1
        <4> QED BY <4>1, <1>1, ElementOfSeq DEF Text
      <3>3. s \in Text /\ Len(s) = m /\ \A i \in 1 .. m : s[i] = l[k + 2 + i - 1]
        <4>1. /\ (k + 1 + m) - (k + 2) + 1 = m /\ k + 2 \in Int /\ k + 1 + m \in Int
              /\ (k + 2 <= k + 1 + m <=> m # 0)
          BY <1>1
        <4>2. /\ s \in Text /\ Len(s) = IF k + 2 <= k + 1 + m THEN (k + 1 + m) - (k + 2) + 1 ELSE 0
              /\ \A i \in 1 .. (k + 1 + m) - (k + 2) + 1 : s[i] = l[k + 2 + i - 1]
          BY <3>2, <4>1, SubSeqProperties DEF Text
        <4> HIDE DEF s
        <4> QED BY <4>1, <4>2
      <3> HIDE DEF s
      <3>4. ASSUME NEW i \in 1 .. m PROVE s[i] = v.value[i]
        <4>1. k + 2 + i - 1 = k + 1 + i
          BY <1>1
        <4> QED BY <4>1, <3>3, <1>1
      <3>5. Len(v.value) = m
        BY DEF m
      <3>6. s = v.value
        BY <3>3, <3>4, <3>5, <1>2, SeqEqual DEF Text
      <3> QED BY <3>1, <3>6 DEF s
    <2>3. Assignment(l) = [key |-> Trim(v.key), value |-> v.value]
      BY <2>1, <2>2 DEF Assignment
    <2> QED BY <2>3, <1>3, <1>a
  <1>12. Kept(r) = {1}
    <2>1. DOMAIN Lines(r) = {1} /\ Lines(r)[1] = l
      BY <1>7
    <2> QED BY <2>1, <1>8, <1>10 DEF Kept
  <1>13. Sorted(Kept(r)) = <<1>>
    BY <1>12, SortedOne
  <1>14. Parse(r) = [n \in 1 .. 1 |-> v]
    <2> DEFINE g == Sorted(Kept(r))
    <2>1. Len(g) = 1 /\ g[1] = 1 /\ Lines(r)[1] = l
      BY <1>13, <1>7
    <2>2. Parse(r) = [n \in 1 .. Len(g) |-> Assignment(Trim(Lines(r)[g[n]]))]
      BY <1>1, ParseIs
    <2> HIDE DEF g
    <2>3. \A n \in 1 .. 1 : Assignment(Trim(Lines(r)[g[n]])) = v
      <3> TAKE n \in 1 .. 1
      <3>1. n = 1
        OBVIOUS
      <3> QED BY <3>1, <2>1, <1>8, <1>11
    <2> QED BY <2>1, <2>2, <2>3
  <1>15. [n \in 1 .. 1 |-> v] = <<v>>
    OBVIOUS
  <1> QED BY <1>14, <1>15 DEF r

-----------------------------------------------------------------------------
(* The text of an export, and the import of it.                            *)

LEMMA SortedNone == Sorted({}) = <<>> /\ Len(Sorted({})) = 0
  <1>1. \A e \in Int : Sorted({}) = <<>>
    BY SortedOne
  <1>2. Sorted({}) = <<>>
    BY <1>1
  <1> QED BY <1>2

LEMMA FormatAppend ==
  ASSUME NEW vars \in Seq(Variable), NEW v \in Variable
  PROVE  /\ Format(<<>>) = <<>>
         /\ Format(vars) \in Text
         /\ Format(Append(vars, v)) = Format(vars) \o Row(v)
         /\ Format(<<v>>) = Row(v)
  <1> DEFINE all(w) == [n \in DOMAIN w |-> Row(w[n])]
             new == Append(vars, v)
  <1>1. \A w : Format(w) = FlattenSeq(all(w))
    BY Zenon DEF Format, Row
  <1>2. \A w \in Seq(Variable) : all(w) \in Seq(Text) /\ Len(all(w)) = Len(w)
                                 /\ \A n \in 1 .. Len(w) : all(w)[n] = Row(w[n])
    <2> TAKE w \in Seq(Variable)
    <2>1. DOMAIN w = 1 .. Len(w) /\ Len(w) \in Nat
      BY LenProperties
    <2>2. \A n \in 1 .. Len(w) : Row(w[n]) \in Text
      BY RowIs, ElementOfSeq
    <2> QED BY <2>1, <2>2
  <1>3. all(<<>>) = <<>> /\ <<>> \in Seq(Variable)
    <2>1. DOMAIN <<>> = {}
      OBVIOUS
    <2> QED BY <2>1
  <1>4. all(new) = Append(all(vars), Row(v))
    <2>1. /\ new \in Seq(Variable) /\ Len(new) = Len(vars) + 1 /\ Len(vars) \in Nat
          /\ (\A n \in 1 .. Len(vars) : new[n] = vars[n]) /\ new[Len(vars) + 1] = v
      BY AppendProperties, LenProperties
    <2> DEFINE s == all(new)
               u == all(vars)
               t == Append(u, Row(v))
    <2>2. s \in Seq(Text) /\ Len(s) = Len(new) /\ \A n \in 1 .. Len(new) : s[n] = Row(new[n])
      BY <1>2, <2>1
    <2>3. u \in Seq(Text) /\ Len(u) = Len(vars) /\ \A n \in 1 .. Len(vars) : u[n] = Row(vars[n])
      BY <1>2
    <2>4. Row(v) \in Text
      BY RowIs
    <2> HIDE DEF all, u, s, new
    <2>5. /\ t \in Seq(Text) /\ Len(t) = Len(u) + 1
          /\ (\A n \in 1 .. Len(u) : t[n] = u[n]) /\ t[Len(u) + 1] = Row(v)
      BY <2>3, <2>4, AppendProperties
    <2> HIDE DEF t
    <2>6. ASSUME NEW n \in 1 .. Len(s) PROVE s[n] = t[n]
      <3>1. n \in 1 .. Len(new) /\ (n = Len(vars) + 1 \/ n \in 1 .. Len(vars))
        BY <2>1, <2>2
      <3>2. CASE n = Len(vars) + 1
        BY <3>1, <3>2, <2>1, <2>2, <2>3, <2>5
      <3>3. CASE n \in 1 .. Len(vars)
        BY <3>1, <3>3, <2>1, <2>2, <2>3, <2>5
      <3> QED BY <3>1, <3>2, <3>3
    <2>7. s = t
      <3>1. Len(s) = Len(t)
        BY <2>1, <2>2, <2>3, <2>5
      <3> QED BY <3>1, <2>2, <2>5, <2>6, SeqEqual
    <2> QED BY <2>7 DEF s, t, u
  <1>5. all(vars) \in Seq(Text)
    BY <1>2
  <1>6. Row(v) \in Text
    BY RowIs
  <1> HIDE DEF all
  <1>7. /\ FlattenSeq(<<>>) = <<>>
        /\ FlattenSeq(all(vars)) \in Text
        /\ FlattenSeq(Append(all(vars), Row(v))) = FlattenSeq(all(vars)) \o Row(v)
    BY <1>5, <1>6, FlattenAppend DEF Text
  <1>8. Format(<<v>>) = Row(v)
    <2>1. all(<<v>>) = Append(<<>>, Row(v))
      <3>1. DOMAIN <<v>> = 1 .. 1 /\ <<v>>[1] = v
        OBVIOUS
      <3>2. all(<<v>>) = [n \in 1 .. 1 |-> Row(v)]
        BY <3>1 DEF all
      <3>3. Append(<<>>, Row(v)) = <<Row(v)>> /\ [n \in 1 .. 1 |-> Row(v)] = <<Row(v)>>
        OBVIOUS
      <3> QED BY <3>2, <3>3
    <2>2. <<>> \in Seq(Text)
      BY EmptySeq
    <2>3. FlattenSeq(Append(<<>>, Row(v))) = FlattenSeq(<<>>) \o Row(v)
      BY <2>2, <1>6, FlattenAppend DEF Text
    <2>4. <<>> \o Row(v) = Row(v)
      BY <1>6, ConcatEmptySeq DEF Text
    <2> QED BY <2>1, <2>3, <2>4, <1>1, <1>7
  <1> QED BY <1>1, <1>3, <1>4, <1>7, <1>8 DEF new

\* What an import finds in the text of an export.
LEMMA Imported ==
  ASSUME NEW vars \in Seq(Variable)
  PROVE  /\ Format(vars) \in Text /\ Ended(Format(vars))
         /\ ToSet(Parse(Format(vars))) = UNION {ToSet(Parse(Row(vars[i]))) : i \in 1 .. Len(vars)}
         /\ (\A i \in 1 .. Len(vars) : Clean(vars[i])) => Parse(Format(vars)) = vars
  <1> DEFINE All(w) == UNION {ToSet(Parse(Row(w[i]))) : i \in 1 .. Len(w)}
             Cleaned(w) == \A i \in 1 .. Len(w) : Clean(w[i])
             C(w) == /\ Format(w) \in Text /\ Ended(Format(w))
                     /\ ToSet(Parse(Format(w))) = All(w)
                     /\ Cleaned(w) => Parse(Format(w)) = w
             I == {n \in Nat : \A w \in Seq(Variable) : Len(w) = n => C(w)}
  <1>1. 0 \in I
    <2> SUFFICES ASSUME NEW w \in Seq(Variable), Len(w) = 0 PROVE C(w)
      OBVIOUS
    <2>1. w = <<>> /\ 1 .. Len(w) = {}
      BY EmptySeq
    <2>2. Variable # {}
      <3>1. [key |-> <<"=">>, value |-> <<>>] \in Variable
        BY DEF Variable, Text, Letters
      <3> QED BY <3>1
    <2>3. Format(w) = <<>>
      BY <2>1, <2>2, FormatAppend
    <2>4. <<>> \in Text /\ Ended(<<>>)
      BY EmptySeq DEF Text, Ended
    <2>5. Parse(<<>>) = <<>>
      <3>1. Len(Lines(<<>>)) = 0
        <4>1. Ends(<<>>) = {}
          BY <2>4, EndsType
        <4>2. Len(Sorted(Ends(<<>>))) = 0
          BY <4>1, SortedNone
        <4> QED BY <2>4, <4>2, LinesAre
      <3>2. Kept(<<>>) = {}
        <4>1. Kept(<<>>) \in SUBSET (1 .. 0)
          BY <2>4, <3>1, ParseIs
        <4> QED BY <4>1
      <3>3. Sorted(Kept(<<>>)) = <<>>
        BY <3>2, SortedNone
      <3>4. Len(Sorted(Kept(<<>>))) = 0
        BY <3>3
      <3>5. Parse(<<>>) = [n \in 1 .. 0 |-> Assignment(Trim(Lines(<<>>)[Sorted(Kept(<<>>))[n]]))]
        BY <2>4, <3>4, ParseIs
      <3> QED BY <3>5
    <2>6. ToSet(<<>>) = {}
      BY DEF ToSet
    <2>7. All(w) = {}
      BY <2>1
    <2> HIDE DEF All, Cleaned
    <2> QED BY <2>1, <2>3, <2>4, <2>5, <2>6, <2>7
  <1>2. ASSUME NEW n \in Nat, n \in I PROVE n + 1 \in I
    <2> SUFFICES ASSUME NEW u \in Seq(Variable), Len(u) = n + 1 PROVE C(u)
      OBVIOUS
    <2>1. u # <<>>
      BY EmptySeq
    <2>2. PICK w \in Seq(Variable), v \in Variable : u = Append(w, v)
      BY <2>1, SequenceEmptyOrAppend
    <2>3. /\ Len(w) = n /\ Len(u) = n + 1 /\ (\A i \in 1 .. n : u[i] = w[i]) /\ u[n + 1] = v
      <3>1. /\ Len(u) = Len(w) + 1 /\ Len(w) \in Nat
            /\ (\A i \in 1 .. Len(w) : u[i] = w[i]) /\ u[Len(w) + 1] = v
        BY <2>2, AppendProperties, LenProperties
      <3>2. Len(w) = n
        BY <3>1
      <3> QED BY <3>1, <3>2
    <2>4. C(w)
      BY <1>2, <2>3
    <2> DEFINE x == Format(w)
               y == Row(v)
    <2>5. x \in Text /\ Ended(x) /\ ToSet(Parse(x)) = All(w) /\ (Cleaned(w) => Parse(x) = w)
      BY <2>4
    <2>6. y \in Text /\ Ended(y) /\ y # <<>>
      <3> DEFINE a == Len(v.key)
                 b == Len(v.value)
      <3>1. y \in Text /\ Ended(y) /\ Len(y) = a + b + 2 /\ a \in Nat /\ b \in Nat
        BY RowIs
      <3> HIDE DEF y, a, b
      <3>2. y # <<>>
        BY <3>1, EmptySeq
      <3> QED BY <3>1, <3>2
    <2>7. Format(u) = x \o y
      BY <2>2, FormatAppend
    <2> HIDE DEF x, y, All, Cleaned
    <2>8. x \o y \in Text /\ Ended(x \o y)
      <3>1. /\ x \o y \in Text /\ Len(x \o y) = Len(x) + Len(y) /\ Len(x) \in Nat /\ Len(y) \in Nat \ {0}
            /\ \A i \in 1 .. Len(x) + Len(y) : (x \o y)[i] = IF i <= Len(x) THEN x[i] ELSE y[i - Len(x)]
        BY <2>5, <2>6, ConcatProperties, EmptySeq, LenProperties DEF Text
      <3>2. /\ Len(x) + Len(y) \in 1 .. Len(x) + Len(y) /\ ~(Len(x) + Len(y) <= Len(x))
            /\ (Len(x) + Len(y)) - Len(x) = Len(y)
        BY <3>1
      <3>3. (x \o y)[Len(x) + Len(y)] = y[Len(y)]
        BY <3>1, <3>2
      <3> QED BY <3>1, <3>3, <2>6 DEF Ended
    <2>9. /\ Len(Parse(x)) \in Nat /\ Len(Parse(y)) \in Nat
          /\ Len(Parse(x \o y)) = Len(Parse(x)) + Len(Parse(y))
          /\ \A i \in 1 .. Len(Parse(x)) : Parse(x \o y)[i] = Parse(x)[i]
          /\ \A i \in 1 .. Len(Parse(y)) : Parse(x \o y)[Len(Parse(x)) + i] = Parse(y)[i]
          /\ ToSet(Parse(x \o y)) = ToSet(Parse(x)) \cup ToSet(Parse(y))
      BY <2>5, <2>6, ParseConcat
    <2>10. All(u) = All(w) \cup ToSet(Parse(y))
      <3>1. \A i \in 1 .. n + 1 : i \in 1 .. n \/ i = n + 1
        OBVIOUS
      <3>2. n + 1 \in 1 .. n + 1 /\ \A i \in 1 .. n : i \in 1 .. n + 1
        OBVIOUS
      <3> DEFINE P(z) == ToSet(Parse(Row(z)))
      <3>3. All(u) = UNION {P(u[i]) : i \in 1 .. n + 1} /\ All(w) = UNION {P(w[i]) : i \in 1 .. n} /\ ToSet(Parse(y)) = P(v)
        BY <2>3 DEF All, y
      <3> HIDE DEF P
      <3>4. {P(u[i]) : i \in 1 .. n + 1} = {P(w[i]) : i \in 1 .. n} \cup {P(v)}
        <4>1. ASSUME NEW i \in 1 .. n + 1 PROVE P(u[i]) \in {P(w[j]) : j \in 1 .. n} \cup {P(v)}
          BY <3>1, <2>3
        <4>2. ASSUME NEW i \in 1 .. n PROVE P(w[i]) \in {P(u[j]) : j \in 1 .. n + 1}
          <5>1. P(w[i]) = P(u[i]) /\ i \in 1 .. n + 1
            BY <2>3, <3>2
          <5> QED BY <5>1
        <4>3. P(v) \in {P(u[j]) : j \in 1 .. n + 1}
          <5>1. P(v) = P(u[n + 1])
            BY <2>3
          <5> QED BY <5>1, <3>2
        <4> QED BY <4>1, <4>2, <4>3
      <3> QED BY <3>3, <3>4
    <2>11. ASSUME Cleaned(u) PROVE Parse(x \o y) = u
      <3>1. Cleaned(w) /\ Clean(v)
        <4>1. \A i \in 1 .. n : i \in 1 .. n + 1
          OBVIOUS
        <4>2. n + 1 \in 1 .. n + 1
          OBVIOUS
        <4> QED BY <4>1, <4>2, <2>3, <2>11 DEF Cleaned
      <3>2. Parse(x) = w /\ Parse(y) = <<v>>
        BY <3>1, <2>5, ParseRow DEF y
      <3>3. Len(Parse(y)) = 1 /\ Parse(y)[1] = v /\ Len(Parse(x)) = n
        BY <3>2, <2>3
      <3> DEFINE p == Parse(x \o y)
      <3>4. Len(p) = n + 1 /\ (\A i \in 1 .. n : p[i] = w[i]) /\ p[n + 1] = v
        <4>1. 1 \in 1 .. Len(Parse(y))
          BY <3>3
        <4> QED BY <4>1, <2>9, <3>2, <3>3
      <3>5. DOMAIN p = 1 .. n + 1 /\ p = [i \in 1 .. n + 1 |-> p[i]]
        <4>1. p \in Seq(ToSet(p))
          BY <2>8, ParseType
        <4> HIDE DEF p
        <4>2. DOMAIN p = 1 .. n + 1
          BY <4>1, <3>4, LenProperties
        <4>3. p \in [1 .. n + 1 -> ToSet(p)]
          BY <4>1, <3>4, LenProperties
        <4> QED BY <4>2, <4>3
      <3>6. u = [i \in 1 .. n + 1 |-> u[i]]
        BY <2>3, LenProperties
      <3>7. \A i \in 1 .. n + 1 : p[i] = u[i]
        BY <3>4, <2>3
      <3> HIDE DEF p
      <3>8. p = u
        BY <3>5, <3>6, <3>7
      <3> QED BY <3>8 DEF p
    <2> QED BY <2>5, <2>7, <2>8, <2>9, <2>10, <2>11
  <1>3. Len(vars) \in I
    <2> HIDE DEF C
    <2>1. Len(vars) \in Nat
      BY LenProperties
    <2>2. Nat \subseteq I
      BY <1>1, <1>2, SetInduction
    <2> QED BY <2>1, <2>2
  <1>4. C(vars)
    BY <1>3
  <1> QED BY <1>4

-----------------------------------------------------------------------------
\* Variables that are clean, whatever their number and order and however often
\* a key is repeated, come back from export and import as they were:
\* vars.go:264-266 writes what vars.go:313-334 and server.go:746-765 read.
THEOREM CodecRoundTrip ==
  ASSUME NEW vars \in Seq(Variable), \A i \in 1 .. Len(vars) : Clean(vars[i])
  PROVE  Parse(Format(vars)) = vars
  BY Imported

=============================================================================
