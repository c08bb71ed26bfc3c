--------------------------- MODULE TransferProofs ---------------------------
(* Proofs about Contents, CliConfig and Transfer, for any number of        *)
(* servers, secrets, keys, texts, logins and events, for any pages.        *)
EXTENDS Transfer, DotEnvProofs

-----------------------------------------------------------------------------
(* The configuration file.                                                 *)

\* What a login will save, if no other changes the file meanwhile.
LoginOK(l) ==
  /\ login[l].at = "rest" => login[l] = NoLogin
  /\ login[l].new.key # NotGiven => login[l].cfg.key = login[l].new.key
  /\ ~upset /\ login[l] # NoLogin =>
       /\ Alone(l)
       /\ login[l].cfg.key = Over(login[l].new.key, lastKey)
       /\ login[l].at = "write" => file.text = <<>>

KeyInv ==
  /\ ConfigTypeOK
  /\ \A l \in Logins : LoginOK(l)
  /\ file.text # <<>> => file.exists
  /\ ~upset /\ (\A l \in Logins : login[l].at # "write") =>
       Decodes(file) /\ Loaded(file).key = lastKey

LEMMA FilesAre ==
  /\ \A f \in Files : /\ f.exists \in BOOLEAN
                      /\ f.text = <<>> \/ (f.text # <<>> /\ Len(f.text) = 1 /\ Head(f.text) \in Configs)
  /\ \A c \in Configs : Whole(c) \in Files /\ Whole(c).exists /\ Whole(c).text # <<>>
                        /\ Loaded(Whole(c)) = c /\ Decodes(Whole(c))
  /\ NoFile \in Files /\ NoFile.text = <<>> /\ ~NoFile.exists /\ Decodes(NoFile) /\ Loaded(NoFile) = Default
  /\ Default \in Configs /\ Default.key = NotGiven
  <1>1. \A c \in Configs : <<c>> # <<>> /\ Head(<<c>>) = c /\ Len(<<c>>) = 1
    OBVIOUS
  <1>2. Default \in Configs /\ Default.key = NotGiven
    BY CliConfigAssumption DEF Default, Configs, Field
  <1>3. NoFile \in Files /\ NoFile.text = <<>> /\ ~NoFile.exists /\ Decodes(NoFile) /\ Loaded(NoFile) = Default
    BY DEF NoFile, Files, Decodes, Loaded
  <1>4. ASSUME NEW c \in Configs
        PROVE  /\ Whole(c) \in Files /\ Whole(c).exists /\ Whole(c).text # <<>>
               /\ Loaded(Whole(c)) = c /\ Decodes(Whole(c))
    BY <1>1 DEF Whole, Files, Decodes, Loaded
  <1>5. ASSUME NEW f \in Files
        PROVE  /\ f.exists \in BOOLEAN
               /\ f.text = <<>> \/ (f.text # <<>> /\ Len(f.text) = 1 /\ Head(f.text) \in Configs)
    BY <1>1 DEF Files
  <1> QED BY <1>2, <1>3, <1>4, <1>5

LEMMA KeyInit == ConfigInit => KeyInv
  <1> SUFFICES ASSUME ConfigInit PROVE KeyInv
    OBVIOUS
  <1>1. /\ login = [l \in Logins |-> NoLogin] /\ lastKey = Loaded(file).key /\ upset = FALSE
        /\ file \in {NoFile} \cup {Whole(c) : c \in {[base |-> b, key |-> b] : b \in Bases}}
    BY DEF ConfigInit
  <1>2. file = NoFile \/ \E c \in Configs : file = Whole(c)
    BY <1>1 DEF Configs, Field
  <1>3. /\ file \in Files /\ (file.text # <<>> => file.exists) /\ Decodes(file) /\ Loaded(file) \in Configs
    BY <1>2, FilesAre
  <1>4. lastKey \in Field
    BY <1>1, <1>3 DEF Configs
  <1>5. NoLogin.at = "rest" /\ NoLogin.new.key = NotGiven /\ NoLogin \in [at : {"rest", "save", "write"}, cfg : Configs, new : Configs]
    BY FilesAre DEF NoLogin
  <1>6. ConfigTypeOK
    BY <1>1, <1>3, <1>4, <1>5 DEF ConfigTypeOK
  <1>7. \A l \in Logins : LoginOK(l)
    BY <1>1, <1>5 DEF LoginOK
  <1> QED BY <1>1, <1>3, <1>6, <1>7 DEF KeyInv

\* A step of the logins, whatever else the action changes.
ConfigNext == LoginSteps \/ \E l \in Logins, new \in Configs : LoginLoads(l, new)

LEMMA KeyNext ==
  ASSUME KeyInv, [ConfigNext]_config
  PROVE  KeyInv'
  <1> DEFINE Login == [at : {"rest", "save", "write"}, cfg : Configs, new : Configs]
  <1>0. /\ file \in Files /\ login \in [Logins -> Login]
        /\ lastKey \in Field /\ upset \in BOOLEAN /\ ConfigTypeOK
    BY DEF KeyInv, ConfigTypeOK
  <1>1. ASSUME NEW l \in Logins, NEW new \in Configs, LoginLoads(l, new) PROVE KeyInv'
    <2> DEFINE cfg == With(StartingFrom, new)
               m == [at |-> "save", cfg |-> cfg, new |-> new]
    <2>1. /\ login[l].at = "rest" /\ file' = file /\ lastKey' = lastKey
          /\ login' = [login EXCEPT ![l] = m] /\ upset' = (upset \/ ~Alone(l))
      BY <1>1 DEF LoginLoads
    <2>2. StartingFrom \in Configs
      <3>1. file.exists /\ Decodes(file) => Head(file.text) \in Configs
        BY <1>0, FilesAre DEF Decodes
      <3> QED BY <3>1, FilesAre DEF StartingFrom, Loaded
    <2>3. cfg \in Configs /\ m \in Login /\ cfg.key = Over(new.key, StartingFrom.key)
      BY <2>2 DEF With, Over, Configs
    <2>4. ConfigTypeOK'
      BY <1>0, <2>1, <2>3 DEF ConfigTypeOK
    <2>5. ASSUME NEW k \in Logins PROVE LoginOK(k)'
      <3>1. CASE k = l
        <4>1. login'[k] = m /\ m.at = "save" /\ m.new = new /\ m.cfg = cfg
          BY <1>0, <2>1, <3>1
        <4>2. new.key # NotGiven => cfg.key = new.key
          BY <2>3 DEF Over
        <4>3. ASSUME ~upset' PROVE Alone(k)' /\ cfg.key = Over(new.key, lastKey')
          <5>1. ~upset /\ Alone(l)
            BY <2>1, <4>3
          <5>2. Alone(k)'
            BY <1>0, <2>1, <3>1, <5>1 DEF Alone
          <5>3. \A j \in Logins : login[j].at # "write"
            <6> TAKE j \in Logins
            <6>1. j # l => login[j] = NoLogin
              BY <5>1 DEF Alone
            <6> QED BY <2>1, <6>1 DEF NoLogin
          <5>4. Decodes(file) /\ Loaded(file).key = lastKey
            BY <5>1, <5>3 DEF KeyInv
          <5> QED BY <2>1, <2>3, <5>2, <5>4 DEF StartingFrom
        <4> QED BY <4>1, <4>2, <4>3 DEF LoginOK
      <3>2. CASE k # l
        <4>1. login'[k] = login[k] /\ LoginOK(k)
          BY <1>0, <2>1, <3>2 DEF KeyInv
        <4>2. ~upset' => ~upset /\ login[k] = NoLogin
          BY <2>1, <3>2 DEF Alone
        <4> QED BY <2>1, <4>1, <4>2 DEF LoginOK
      <3> QED BY <3>1, <3>2
    <2>6. ASSUME ~upset', \A k \in Logins : login'[k].at # "write"
          PROVE  Decodes(file)' /\ (Loaded(file).key = lastKey)'
      <3>1. ~upset
        BY <2>1, <2>6
      <3>2. \A k \in Logins : login[k].at # "write"
        BY <1>0, <2>1, <2>6
      <3> QED BY <3>1, <3>2, <2>1 DEF KeyInv, Decodes, Loaded
    <2> QED BY <2>1, <2>4, <2>5, <2>6 DEF KeyInv
  <1>2. ASSUME NEW l \in Logins, LoginTruncates(l) PROVE KeyInv'
    <2>1. /\ login[l].at = "save" /\ file' = [exists |-> TRUE, text |-> <<>>]
          /\ login' = [login EXCEPT ![l].at = "write"] /\ lastKey' = lastKey /\ upset' = upset
      BY <1>2 DEF LoginTruncates
    <2>2. /\ login' \in [Logins -> Login] /\ login'[l].at = "write" /\ login'[l].cfg = login[l].cfg
          /\ login'[l].new = login[l].new /\ \A k \in Logins \ {l} : login'[k] = login[k]
      BY <1>0, <2>1
    <2>3. file' \in Files /\ file'.text = <<>>
      BY <2>1 DEF Files
    <2>4. ConfigTypeOK'
      BY <1>0, <2>1, <2>2, <2>3 DEF ConfigTypeOK
    <2>5. login[l] # NoLogin
      BY <2>1 DEF NoLogin
    <2>6. ASSUME NEW k \in Logins PROVE LoginOK(k)'
      <3>1. CASE k = l
        <4>1. ~upset => Alone(k)'
          BY <2>2, <2>5, <3>1 DEF KeyInv, LoginOK, Alone
        <4> QED BY <2>1, <2>2, <2>3, <2>5, <3>1, <4>1 DEF KeyInv, LoginOK
      <3>2. CASE k # l
        <4>1. ~upset => login[k] = NoLogin
          BY <2>5, <3>2 DEF KeyInv, LoginOK, Alone
        <4>2. login'[k] = login[k] /\ LoginOK(k)
          BY <2>2, <3>2 DEF KeyInv
        <4> QED BY <2>1, <4>1, <4>2 DEF LoginOK
      <3> QED BY <3>1, <3>2
    <2> QED BY <2>2, <2>3, <2>4, <2>6 DEF KeyInv
  <1>3. ASSUME NEW l \in Logins, LoginWrites(l) PROVE KeyInv'
    <2>1. /\ login[l].at = "write" /\ file' = Whole(login[l].cfg)
          /\ lastKey' = Over(login[l].new.key, lastKey) /\ login' = [login EXCEPT ![l] = NoLogin]
          /\ upset' = (upset /\ ~(Alone(l) /\ login[l].new.key # NotGiven))
      BY <1>3 DEF LoginWrites
    <2>2. login[l].cfg \in Configs /\ login[l].new \in Configs /\ login[l] # NoLogin
      BY <1>0, <2>1 DEF NoLogin
    <2>3. NoLogin \in Login /\ NoLogin.at = "rest" /\ NoLogin.new.key = NotGiven
      BY FilesAre DEF NoLogin
    <2>4. /\ file' \in Files /\ file'.exists /\ file'.text # <<>> /\ Decodes(file') /\ Loaded(file') = login[l].cfg
      BY <2>1, <2>2, FilesAre
    <2>5. ConfigTypeOK'
      <3>1. lastKey' \in Field
        BY <1>0, <2>1, <2>2 DEF Over, Configs
      <3> QED BY <1>0, <2>1, <2>3, <2>4, <3>1 DEF ConfigTypeOK
    <2>6. ~upset' => Alone(l) /\ login[l].cfg.key = lastKey'
      <3>1. LoginOK(l)
        BY DEF KeyInv
      <3> QED BY <3>1, <2>1, <2>2 DEF LoginOK, Over
    <2>7. ASSUME NEW k \in Logins PROVE LoginOK(k)'
      <3>1. CASE k = l
        <4>1. login'[k] = NoLogin
          BY <1>0, <2>1, <3>1
        <4> QED BY <2>3, <4>1 DEF LoginOK
      <3>2. CASE k # l
        <4>1. login'[k] = login[k] /\ LoginOK(k)
          BY <1>0, <2>1, <3>2 DEF KeyInv
        <4>2. ~upset' => login[k] = NoLogin
          BY <2>6, <3>2 DEF Alone
        <4> QED BY <4>1, <4>2 DEF LoginOK
      <3> QED BY <3>1, <3>2
    <2> QED BY <2>4, <2>5, <2>6, <2>7 DEF KeyInv, Decodes, Loaded
  <1>4. ASSUME NEW l \in Logins, LoginFails(l) PROVE KeyInv'
    <2>1. /\ login[l].at \in {"save", "write"} /\ upset' = (upset \/ login[l].at = "write")
          /\ login' = [login EXCEPT ![l] = NoLogin] /\ file' = file /\ lastKey' = lastKey
      BY <1>4 DEF LoginFails
    <2>2. login[l] # NoLogin
      BY <2>1 DEF NoLogin
    <2>3. NoLogin \in Login /\ NoLogin.at = "rest" /\ NoLogin.new.key = NotGiven
      BY FilesAre DEF NoLogin
    <2>4. ConfigTypeOK'
      BY <1>0, <2>1, <2>3 DEF ConfigTypeOK
    <2>5. ~upset' => ~upset /\ Alone(l) /\ login[l].at = "save"
      BY <2>1, <2>2 DEF KeyInv, LoginOK
    <2>6. ASSUME NEW k \in Logins PROVE LoginOK(k)'
      <3>1. CASE k = l
        <4>1. login'[k] = NoLogin
          BY <1>0, <2>1, <3>1
        <4> QED BY <2>3, <4>1 DEF LoginOK
      <3>2. CASE k # l
        <4>1. login'[k] = login[k] /\ LoginOK(k)
          BY <1>0, <2>1, <3>2 DEF KeyInv
        <4>2. ~upset' => login[k] = NoLogin
          BY <2>5, <3>2 DEF Alone
        <4> QED BY <4>1, <4>2 DEF LoginOK
      <3> QED BY <3>1, <3>2
    <2>7. ASSUME ~upset' PROVE Decodes(file) /\ Loaded(file).key = lastKey
      <3>1. \A k \in Logins : login[k].at # "write"
        <4> TAKE k \in Logins
        <4>1. k # l => login[k] = NoLogin
          BY <2>5, <2>7 DEF Alone
        <4> QED BY <2>5, <2>7, <2>3, <4>1
      <3> QED BY <2>5, <2>7, <3>1 DEF KeyInv
    <2> QED BY <2>1, <2>4, <2>6, <2>7 DEF KeyInv, Decodes, Loaded
  <1>5. CASE UNCHANGED config
    BY <1>5 DEF config, KeyInv, ConfigTypeOK, LoginOK, Alone, Decodes, Loaded
  <1> QED BY <1>1, <1>2, <1>3, <1>4, <1>5 DEF ConfigNext, LoginSteps

LEMMA KeyInvKeyKept == KeyInv => KeyKept
  <1> SUFFICES ASSUME KeyInv, file.text # <<>>, ~upset PROVE Head(file.text).key = lastKey
    BY DEF KeyKept
  <1>1. \A l \in Logins : login[l].at # "write"
    BY DEF KeyInv, LoginOK, NoLogin
  <1>2. Loaded(file).key = lastKey /\ file.exists
    BY <1>1 DEF KeyInv
  <1> QED BY <1>2 DEF Loaded

-----------------------------------------------------------------------------
(* The keys of an environment in the order of the database.                *)

Places(D)  == {n \in DOMAIN KeyOrder : KeyOrder[n] \in D}
Ordered(D) == [n \in 1 .. Len(Sorted(Places(D))) |-> KeyOrder[Sorted(Places(D))[n]]]

LEMMA PlacesAre ==
  ASSUME NEW D \in SUBSET Keys
  PROVE  /\ Len(KeyOrder) \in Nat /\ Places(D) \in SUBSET (1 .. Len(KeyOrder))
         /\ Len(Sorted(Places(D))) \in Nat
         /\ Lists(Sorted(Places(D)), Len(Sorted(Places(D))), Places(D))
         /\ \A k \in D : \E n \in Places(D) : KeyOrder[n] = k
         /\ \A m, n \in Places(D) : KeyOrder[m] = KeyOrder[n] => m = n
         /\ DOMAIN Sorted(Places(D)) = 1 .. Len(Sorted(Places(D)))
  <1>1. Len(KeyOrder) \in Nat /\ DOMAIN KeyOrder = 1 .. Len(KeyOrder)
    BY TextsAssumption, LenProperties
  <1>2. Places(D) \in SUBSET (1 .. Len(KeyOrder))
    BY <1>1 DEF Places
  <1>3. \A k \in D : \E n \in Places(D) : KeyOrder[n] = k
    BY DEF Places, Keys, ToSet
  <1>4. \A m, n \in Places(D) : KeyOrder[m] = KeyOrder[n] => m = n
    BY TextsAssumption DEF Places, IsInjective
  <1> HIDE DEF Places
  <1>5. Lists(Sorted(Places(D)), Len(Sorted(Places(D))), Places(D)) /\ Sorted(Places(D)) \in Seq(Places(D))
    BY <1>1, <1>2, SortedLists
  <1>6. Len(Sorted(Places(D))) \in Nat /\ DOMAIN Sorted(Places(D)) = 1 .. Len(Sorted(Places(D)))
    BY <1>5, LenProperties
  <1> QED BY <1>1, <1>2, <1>3, <1>4, <1>5, <1>6

\* Every key once.
LEMMA OrderedIs ==
  ASSUME NEW D \in SUBSET Keys
  PROVE  /\ Len(Ordered(D)) \in Nat /\ Len(Ordered(D)) = Cardinality(D) /\ Ordered(D) \in Seq(D)
         /\ DOMAIN Ordered(D) = 1 .. Len(Ordered(D))
         /\ \A i, j \in 1 .. Len(Ordered(D)) : Ordered(D)[i] = Ordered(D)[j] => i = j
         /\ \A k \in D : \E i \in 1 .. Len(Ordered(D)) : Ordered(D)[i] = k
  <1> DEFINE f == Sorted(Places(D))
             m == Len(f)
             o == Ordered(D)
  <1>1. /\ m \in Nat /\ Lists(f, m, Places(D))
        /\ \A k \in D : \E n \in Places(D) : KeyOrder[n] = k
        /\ \A a, b \in Places(D) : KeyOrder[a] = KeyOrder[b] => a = b
        /\ Places(D) \in SUBSET (1 .. Len(KeyOrder))
    BY PlacesAre
  <1>2. o = [n \in 1 .. m |-> KeyOrder[f[n]]]
    BY DEF Ordered
  <1> HIDE DEF o, m, f
  <1>3. \A i \in 1 .. m : f[i] \in Places(D) /\ o[i] = KeyOrder[f[i]]
    BY <1>1, <1>2 DEF Lists
  <1>4. \A i \in 1 .. m : o[i] \in D
    BY <1>3 DEF Places
  <1>5. o \in [1 .. m -> D]
    BY <1>2, <1>3, <1>4
  <1>6. o \in Seq(D) /\ Len(o) = m /\ DOMAIN o = 1 .. m
    BY <1>1, <1>5
  <1>7. ASSUME NEW i \in 1 .. m, NEW j \in 1 .. m, o[i] = o[j] PROVE i = j
    <2>1. f[i] = f[j]
      BY <1>1, <1>3, <1>7
    <2>2. f[i] \in Int /\ f[j] \in Int
      <3>1. f[i] \in 1 .. Len(KeyOrder) /\ f[j] \in 1 .. Len(KeyOrder)
        BY <1>1, <1>3
      <3> QED BY <3>1
    <2>3. ~(f[i] < f[j]) /\ ~(f[j] < f[i])
      BY <2>1, <2>2
    <2>4. ~(i < j) /\ ~(j < i)
      BY <1>1, <2>3 DEF Lists
    <2> QED BY <2>4
  <1>8. ASSUME NEW k \in D PROVE \E i \in 1 .. m : o[i] = k
    <2>1. PICK n \in Places(D) : KeyOrder[n] = k
      BY <1>1
    <2>2. PICK i \in 1 .. m : f[i] = n
      BY <1>1 DEF Lists
    <2> QED BY <2>1, <2>2, <1>3
  <1>9. Cardinality(D) = m
    <2>1. o \in Bijection(1 .. m, D)
      BY <1>5, <1>7, <1>8, Fun_IsBij
    <2> QED BY <1>1, <2>1, FS_CountingElements DEF ExistsBijection
  <1> QED BY <1>1, <1>6, <1>7, <1>8, <1>9 DEF o

\* A key among more of them is not nearer to the beginning.
LEMMA OrderedGrows ==
  ASSUME NEW D \in SUBSET Keys, NEW E \in SUBSET Keys, D \subseteq E,
         NEW i \in 1 .. Len(Ordered(E)), Ordered(E)[i] \in D
  PROVE  \E j \in 1 .. Len(Ordered(D)) : j <= i /\ Ordered(D)[j] = Ordered(E)[i]
  <1> DEFINE f == Sorted(Places(D))
             g == Sorted(Places(E))
             m == Len(f)
             n == Len(g)
             c == Len(KeyOrder)
  <1>1. m \in Nat /\ Lists(f, m, Places(D)) /\ Places(D) \in SUBSET (1 .. c) /\ c \in Nat
    BY PlacesAre
  <1>2. n \in Nat /\ Lists(g, n, Places(E)) /\ Places(E) \in SUBSET (1 .. c)
    BY PlacesAre
  <1>3. Ordered(D) = [k \in 1 .. m |-> KeyOrder[f[k]]] /\ Ordered(E) = [k \in 1 .. n |-> KeyOrder[g[k]]]
    BY DEF Ordered
  <1> HIDE DEF f, g, m, n, c
  <1>4. Len(Ordered(D)) = m /\ Len(Ordered(E)) = n
    BY <1>1, <1>2, <1>3
  <1>5. i \in 1 .. n /\ g[i] \in Places(E) /\ Ordered(E)[i] = KeyOrder[g[i]]
    BY <1>2, <1>3, <1>4 DEF Lists
  <1>6. g[i] \in Places(D)
    BY <1>5 DEF Places
  <1>7. PICK j \in 1 .. m : f[j] = g[i]
    BY <1>1, <1>6 DEF Lists
  <1>8. Ordered(D)[j] = Ordered(E)[i]
    BY <1>3, <1>5, <1>7
  <1>9. j <= i
    <2> DEFINE P == {x \in Places(D) : x <= f[j]}
               Q == {x \in Places(E) : x <= g[i]}
    <2>1. Places(D) \in SUBSET Int /\ Places(E) \in SUBSET Int
      BY <1>1, <1>2
    <2>2. Cardinality(P) = j /\ Cardinality(Q) = i
      <3>1. \A k \in 1 .. m : Cardinality({x \in Places(D) : x <= f[k]}) = k
        BY <1>1, <2>1, ListRank
      <3>2. \A k \in 1 .. n : Cardinality({x \in Places(E) : x <= g[k]}) = k
        BY <1>2, <2>1, ListRank
      <3> QED BY <3>1, <3>2, <1>5
    <2>3. Places(D) \subseteq Places(E)
      BY DEF Places
    <2>4. P \in SUBSET Q
      BY <1>7, <2>3
    <2>5. IsFiniteSet(Q)
      <3>1. IsFiniteSet(1 .. c)
        BY <1>1, FS_Interval
      <3>2. Q \in SUBSET (1 .. c)
        BY <1>2
      <3> HIDE DEF Q
      <3> QED BY <3>1, <3>2, FS_Subset
    <2> HIDE DEF P, Q
    <2>6. Cardinality(P) <= Cardinality(Q)
      BY <2>4, <2>5, FS_Subset
    <2> QED BY <2>2, <2>6
  <1> QED BY <1>4, <1>7, <1>8, <1>9

\* Without k, the keys behind it are one place nearer to the beginning.
LEMMA OrderedShrinks ==
  ASSUME NEW D \in SUBSET Keys, NEW k \in D, NEW i \in 1 .. Len(Ordered(D \ {k}))
  PROVE  \E j \in 1 .. Len(Ordered(D)) :
           /\ Ordered(D)[j] = Ordered(D \ {k})[i]
           /\ j = i \/ (j = i + 1 /\ \E h \in 1 .. i : h \in 1 .. Len(Ordered(D)) /\ Ordered(D)[h] = k)
  <1> DEFINE E == D \ {k}
             f == Sorted(Places(E))
             g == Sorted(Places(D))
             m == Len(f)
             n == Len(g)
             c == Len(KeyOrder)
  <1>0. E \in SUBSET Keys
    OBVIOUS
  <1>1. m \in Nat /\ Lists(f, m, Places(E)) /\ Places(E) \in SUBSET (1 .. c) /\ c \in Nat
    BY <1>0, PlacesAre
  <1>2. /\ n \in Nat /\ Lists(g, n, Places(D)) /\ Places(D) \in SUBSET (1 .. c)
        /\ \E x \in Places(D) : KeyOrder[x] = k
        /\ \A x, y \in Places(D) : KeyOrder[x] = KeyOrder[y] => x = y
    BY PlacesAre
  <1>3. Ordered(E) = [x \in 1 .. m |-> KeyOrder[f[x]]] /\ Ordered(D) = [x \in 1 .. n |-> KeyOrder[g[x]]]
    BY DEF Ordered
  <1>4. PICK p \in Places(D) : KeyOrder[p] = k
    BY <1>2
  <1>5. Places(E) = Places(D) \ {p}
    BY <1>2, <1>4 DEF Places
  <1> HIDE DEF f, g, m, n, c
  <1>6. i \in 1 .. m
    <2>1. Len(Ordered(E)) = m
      BY <1>1, <1>3
    <2> QED BY <2>1
  <1> HIDE DEF E
  <1>7. f[i] \in Places(E) /\ Ordered(E)[i] = KeyOrder[f[i]]
    BY <1>1, <1>3, <1>6 DEF Lists
  <1>8. PICK j \in 1 .. n : g[j] = f[i]
    BY <1>2, <1>5, <1>7 DEF Lists
  <1>9. PICK h \in 1 .. n : g[h] = p
    BY <1>2, <1>4 DEF Lists
  <1>10. Ordered(D)[j] = Ordered(E)[i] /\ Ordered(D)[h] = k /\ Len(Ordered(D)) = n
    BY <1>2, <1>3, <1>4, <1>7, <1>8, <1>9
  <1> DEFINE P == {x \in Places(E) : x <= f[i]}
             Q == {x \in Places(D) : x <= g[j]}
  <1>11. Places(E) \in SUBSET Int /\ Places(D) \in SUBSET Int
    BY <1>1, <1>2
  <1>12. Cardinality(P) = i /\ Cardinality(Q) = j
    <2>1. \A x \in 1 .. m : Cardinality({y \in Places(E) : y <= f[x]}) = x
      BY <1>1, <1>11, ListRank
    <2>2. \A x \in 1 .. n : Cardinality({y \in Places(D) : y <= g[x]}) = x
      BY <1>2, <1>11, ListRank
    <2> QED BY <2>1, <2>2, <1>6
  <1>13. CASE p <= g[j]
    <2>1. Q = P \cup {p} /\ p \notin P
      BY <1>4, <1>5, <1>8, <1>13
    <2>2. IsFiniteSet(P)
      <3>1. IsFiniteSet(1 .. c) /\ P \in SUBSET (1 .. c)
        BY <1>1, FS_Interval
      <3> HIDE DEF P
      <3> QED BY <3>1, FS_Subset
    <2> HIDE DEF P, Q
    <2>3. j = i + 1
      BY <2>1, <2>2, <1>12, FS_AddElement
    <2>4. h # j
      BY <1>5, <1>7, <1>8, <1>9
    <2>5. ~(j < h)
      <3>1. j < h => g[j] < g[h]
        BY <1>2, <1>8, <1>9 DEF Lists
      <3>2. g[j] \in Int /\ g[h] \in Int /\ g[h] <= g[j]
        <4>1. g[j] \in Places(D) /\ g[h] \in Places(D)
          BY <1>5, <1>7, <1>8, <1>9
        <4> QED BY <4>1, <1>11, <1>9, <1>13
      <3> QED BY <3>1, <3>2
    <2>6. h \in 1 .. i
      BY <2>3, <2>4, <2>5, <1>6, <1>8, <1>9
    <2> QED BY <2>3, <2>6, <1>8, <1>9, <1>10 DEF E
  <1>14. CASE ~(p <= g[j])
    <2>1. Q = P
      BY <1>5, <1>8, <1>14
    <2> QED BY <2>1, <1>8, <1>10, <1>12 DEF E
  <1> QED BY <1>13, <1>14

-----------------------------------------------------------------------------
(* What the variables hold.                                                *)

SealedValues == [by : Secrets \cup {Bare}, text : Texts \cup {Cipher}]
Envs         == UNION {[D -> SealedValues] : D \in SUBSET Keys}
Exported     == [key : Keys, value : Texts \cup {Cipher}]

Walks == [at : {"rest", "ask", "read", "done"}, of : Servers, page : Nat \ {0}, total : Nat,
          seen : SUBSET Keys, stayed : SUBSET Keys, slipped : SUBSET Keys]
Stages == {"rest", "list", "file", "import", "done", "failed"}
Transfers == [at : Stages, via : {"cli", "dashboard"}, client : [base : Servers, key : Field],
              vars : Seq(Exported), left : Seq(Exported), source : Servers, touched : SUBSET Servers,
              fresh : BOOLEAN, steady : BOOLEAN]

TypeOK ==
  /\ rows \in [Servers -> Envs]
  /\ secret \in [Servers -> Secrets \cup {Bare}]
  /\ bared \in BOOLEAN
  /\ walk \in Walks
  /\ events \in 0 .. MaxEvents
  /\ ConfigTypeOK
  /\ move \in Transfers

LEMMA EnvsAre ==
  /\ \A e \in Envs : DOMAIN e \in SUBSET Keys /\ \A k \in DOMAIN e : e[k] \in SealedValues
  /\ \A e \in Envs, k \in Keys, v \in SealedValues :
        /\ Written(e, k, v) \in Envs /\ DOMAIN Written(e, k, v) = DOMAIN e \cup {k}
        /\ Written(e, k, v)[k] = v
        /\ \A o \in DOMAIN e : o # k => Written(e, k, v)[o] = e[o]
  /\ \A e \in Envs : \A k : [o \in DOMAIN e \ {k} |-> e[o]] \in Envs
  <1>1. ASSUME NEW e \in Envs
        PROVE  DOMAIN e \in SUBSET Keys /\ e \in [DOMAIN e -> SealedValues]
    <2>1. PICK D \in SUBSET Keys : e \in [D -> SealedValues]
      BY DEF Envs
    <2> QED BY <2>1
  <1>2. ASSUME NEW D \in SUBSET Keys, NEW e \in [D -> SealedValues] PROVE e \in Envs
    BY DEF Envs
  <1>3. ASSUME NEW e \in Envs, NEW k \in Keys, NEW v \in SealedValues
        PROVE  /\ Written(e, k, v) \in Envs /\ DOMAIN Written(e, k, v) = DOMAIN e \cup {k}
               /\ Written(e, k, v)[k] = v
               /\ \A o \in DOMAIN e : o # k => Written(e, k, v)[o] = e[o]
    <2> DEFINE D == DOMAIN e \cup {k}
               w == [o \in D |-> IF o = k THEN v ELSE e[o]]
    <2>1. D \in SUBSET Keys
      BY <1>1
    <2>2. w \in [D -> SealedValues]
      BY <1>1
    <2>3. w \in Envs
      <3> HIDE DEF w, D
      <3> QED BY <1>2, <2>1, <2>2
    <2> QED BY <2>3 DEF Written
  <1>4. ASSUME NEW e \in Envs, NEW k PROVE [o \in DOMAIN e \ {k} |-> e[o]] \in Envs
    <2> DEFINE D == DOMAIN e \ {k}
               w == [o \in D |-> e[o]]
    <2>1. D \in SUBSET Keys
      BY <1>1
    <2>2. w \in [D -> SealedValues]
      BY <1>1
    <2>3. w \in Envs
      <3> HIDE DEF w, D
      <3> QED BY <1>2, <2>1, <2>2
    <2> QED BY <2>3
  <1> QED BY <1>1, <1>3, <1>4

\* What is exported can be a line, and what is imported can be exported again.
LEMMA ExportsAre ==
  /\ Exported \subseteq Variable
  /\ \A vars \in Seq(Exported) :
       /\ vars \in Seq(Variable)
       /\ Parse(Format(vars)) \in Seq(Exported)
       /\ (\A v \in ToSet(vars) : v.value \in Texts) =>
            \A v \in ToSet(Parse(Format(vars))) : v.value \in Texts
       /\ (\A v \in ToSet(vars) : Clean(v)) => Parse(Format(vars)) = vars
  <1>1. Keys \subseteq Text \ {<<>>}
    <2>1. \A n \in DOMAIN KeyOrder : KeyOrder[n] \in Seq(STRING) \ {<<>>}
      BY TextsAssumption, ElementOfSeq, LenProperties
    <2>2. Seq(STRING) \subseteq Text
      BY SeqMonotonic DEF Text, Letters
    <2> QED BY <2>1, <2>2 DEF Keys, ToSet
  <1>2. Texts \cup {Cipher} \subseteq Text
    <2>1. Seq(STRING) \subseteq Text
      BY SeqMonotonic DEF Text, Letters
    <2>2. Cipher \in Text
      BY DEF Cipher, Text, Letters
    <2> QED BY <2>1, <2>2, TextsAssumption
  <1>3. Exported \subseteq Variable
    BY <1>1, <1>2 DEF Exported, Variable
  <1>4. ASSUME NEW v \in Exported
        PROVE  /\ ToSet(Parse(Row(v))) \subseteq Exported
               /\ v.value \in Texts => ToSet(Parse(Row(v))) \subseteq [key : Keys, value : Texts]
    <2>1. v \in Variable /\ v = [key |-> v.key, value |-> v.value] /\ v.key \in Keys /\ v.value \in Texts \cup {Cipher}
      BY <1>3 DEF Exported
    <2>2. <<>> \in Seq(Variable)
      BY EmptySeq
    <2>3. Format(<<v>>) = Row(v)
      BY <2>1, <2>2, FormatAppend
    <2>4. Found(v.key, v.value) = ToSet(Parse(Row(v)))
      BY <2>1, <2>3 DEF Found
    <2>5. v.value \in Texts => Found(v.key, v.value) \subseteq [key : Keys, value : Texts]
      BY <2>1, TextsAssumption
    <2>6. v.value = Cipher => Found(v.key, v.value) \subseteq [key : Keys, value : Texts \cup {Cipher}]
      BY <2>1, TextsAssumption
    <2>7. [key : Keys, value : Texts] \subseteq Exported
      BY DEF Exported
    <2> QED BY <2>1, <2>4, <2>5, <2>6, <2>7 DEF Exported
  <1>5. ASSUME NEW vars \in Seq(Exported)
        PROVE  /\ vars \in Seq(Variable)
               /\ Parse(Format(vars)) \in Seq(Exported)
               /\ (\A v \in ToSet(vars) : v.value \in Texts) =>
                    \A v \in ToSet(Parse(Format(vars))) : v.value \in Texts
               /\ (\A v \in ToSet(vars) : Clean(v)) => Parse(Format(vars)) = vars
    <2>1. vars \in Seq(Variable)
      BY <1>3, SeqMonotonic
    <2>2. DOMAIN vars = 1 .. Len(vars) /\ \A i \in 1 .. Len(vars) : vars[i] \in Exported /\ vars[i] \in ToSet(vars)
      <3>1. DOMAIN vars = 1 .. Len(vars)
        BY LenProperties
      <3>2. \A i \in 1 .. Len(vars) : vars[i] \in Exported
        BY ElementOfSeq
      <3> QED BY <3>1, <3>2 DEF ToSet
    <2> DEFINE x == Format(vars)
               p == Parse(x)
    <2>3. /\ x \in Text /\ ToSet(p) = UNION {ToSet(Parse(Row(vars[i]))) : i \in 1 .. Len(vars)}
          /\ (\A i \in 1 .. Len(vars) : Clean(vars[i])) => p = vars
      BY <2>1, Imported
    <2>4. p \in Seq(ToSet(p))
      <3> HIDE DEF x
      <3> QED BY <2>3, ParseType
    <2> HIDE DEF x, p
    <2>5. ToSet(p) \subseteq Exported
      BY <2>2, <2>3, <1>4
    <2>6. p \in Seq(Exported)
      BY <2>4, <2>5, SeqMonotonic
    <2>7. ASSUME \A v \in ToSet(vars) : v.value \in Texts, NEW v \in ToSet(p) PROVE v.value \in Texts
      <3>1. PICK i \in 1 .. Len(vars) : v \in ToSet(Parse(Row(vars[i])))
        BY <2>3
      <3>2. vars[i] \in Exported /\ vars[i].value \in Texts
        BY <2>2, <2>7
      <3>3. v \in [key : Keys, value : Texts]
        BY <3>1, <3>2, <1>4
      <3> QED BY <3>3
    <2> QED BY <2>1, <2>2, <2>3, <2>6, <2>7 DEF x, p
  <1> QED BY <1>3, <1>5

-----------------------------------------------------------------------------
(* Pages.                                                                  *)

LEMMA PairIs ==
  ASSUME NEW a \in Int, NEW b \in Int
  PROVE  /\ Min({a, b}) = IF a <= b THEN a ELSE b
         /\ Max({a, b}) = IF a >= b THEN a ELSE b
  <1>1. \A x \in {a, b} : (\A y \in {a, b} : x <= y) <=> x = IF a <= b THEN a ELSE b
    OBVIOUS
  <1>2. \A x \in {a, b} : (\A y \in {a, b} : x >= y) <=> x = IF a >= b THEN a ELSE b
    OBVIOUS
  <1>3. Min({a, b}) = IF a <= b THEN a ELSE b
    BY <1>1 DEF Min
  <1>4. Max({a, b}) = IF a >= b THEN a ELSE b
    BY <1>2 DEF Max
  <1> QED BY <1>3, <1>4

LEMMA Times ==
  ASSUME NEW a \in Int, NEW b \in Int
  PROVE  /\ a * PageSize \in Int
         /\ a <= b => a * PageSize <= b * PageSize
         /\ (a - 1) * PageSize + PageSize = a * PageSize
         /\ 0 <= a => 0 <= a * PageSize
  <1>0. PageSize \in Nat \ {0}
    BY ContentsAssumption
  <1>1. a * PageSize \in Int /\ (a - 1) * PageSize + PageSize = a * PageSize /\ b * PageSize \in Int
    BY <1>0
  <1>2. a <= b => a * PageSize <= b * PageSize
    BY <1>0
  <1>3. 0 <= a => 0 <= a * PageSize
    BY <1>0
  <1> QED BY <1>1, <1>2, <1>3

LEMMA PagesAre ==
  ASSUME NEW n \in Nat
  PROVE  TotalPages(n) \in Nat \ {0} /\ n <= TotalPages(n) * PageSize
  <1> DEFINE q == Rounded(n)
             p == PageSize
  <1>0. p \in Nat \ {0}
    BY ContentsAssumption
  <1>1. q \in Int /\ q = (n + p - 1) \div p
    BY <1>0 DEF Rounded
  <1>2. n <= q * p
    <2>1. n + p - 1 < (q + 1) * p
      BY <1>0, <1>1
    <2>2. (q + 1) * p = q * p + p
      BY <1>0, <1>1
    <2> HIDE DEF q, p
    <2> QED BY <2>1, <2>2, <1>0, <1>1
  <1>3. TotalPages(n) = IF 1 >= q THEN 1 ELSE q
    <2>1. TotalPages(n) = Max({1, q})
      BY DEF TotalPages
    <2> HIDE DEF q
    <2> QED BY <1>1, <2>1, PairIs
  <1> HIDE DEF q, p
  <1>4. TotalPages(n) \in Nat \ {0} /\ q <= TotalPages(n)
    BY <1>1, <1>3
  <1>5. q * p <= TotalPages(n) * p /\ TotalPages(n) * p \in Int
    BY <1>1, <1>4, Times DEF p
  <1>6. q * p \in Int
    BY <1>0, <1>1
  <1>7. n <= TotalPages(n) * p
    BY <1>2, <1>5, <1>6
  <1> QED BY <1>4, <1>7 DEF p

LEMMA OrderIs ==
  ASSUME TypeOK, NEW s \in Servers
  PROVE  /\ rows[s] \in Envs /\ Stored(s) \in SUBSET Keys /\ \A k \in Stored(s) : rows[s][k] \in SealedValues
         /\ Order(s) = Ordered(Stored(s))
         /\ Order(s) \in Seq(Stored(s)) /\ Len(Order(s)) \in Nat /\ DOMAIN Order(s) = 1 .. Len(Order(s))
  <1>1. rows[s] \in Envs
    BY DEF TypeOK
  <1>2. Stored(s) \in SUBSET Keys /\ \A k \in Stored(s) : rows[s][k] \in SealedValues
    BY <1>1, EnvsAre DEF Stored
  <1>3. Order(s) = Ordered(Stored(s))
    BY <1>2, PlacesAre DEF Order, Ordered, Places
  <1>4. LET o == Ordered(Stored(s)) IN o \in Seq(Stored(s)) /\ Len(o) \in Nat /\ DOMAIN o = 1 .. Len(o)
    BY <1>2, OrderedIs
  <1> QED BY <1>1, <1>2, <1>3, <1>4

LEMMA DueIs ==
  ASSUME TypeOK
  PROVE  /\ Current \in Nat \ {0} /\ Current <= walk.page /\ Current <= TotalPages(walk.total)
         /\ Current = walk.page \/ Current = TotalPages(walk.total)
         /\ Due \in SUBSET Stored(walk.of)
         /\ \A i \in 1 .. Len(Order(walk.of)) :
              (Current - 1) * PageSize < i /\ i <= Current * PageSize => Order(walk.of)[i] \in Due
  <1> DEFINE o == Order(walk.of)
             c == Current
             from == (c - 1) * PageSize
             to == Min({from + PageSize, Len(o)})
             s == SubSeq(o, from + 1, to)
  <1>1. walk.page \in Nat \ {0} /\ walk.total \in Nat /\ walk.of \in Servers
    BY DEF TypeOK, Walks
  <1>2. TotalPages(walk.total) \in Nat \ {0}
    BY <1>1, PagesAre
  <1>3. /\ c \in Nat \ {0} /\ c <= walk.page /\ c <= TotalPages(walk.total)
        /\ c = walk.page \/ c = TotalPages(walk.total)
    <2> DEFINE t == TotalPages(walk.total)
    <2>1. Current = Min({walk.page, t})
      BY DEF Current
    <2> HIDE DEF t
    <2>2. Current = IF walk.page <= t THEN walk.page ELSE t
      BY <1>1, <1>2, <2>1, PairIs DEF t
    <2> QED BY <1>1, <1>2, <2>2 DEF t
  <1>4. /\ Stored(walk.of) \in SUBSET Keys /\ o \in Seq(Stored(walk.of)) /\ Len(o) \in Nat
    BY <1>1, OrderIs
  <1>5. Due = ToSet(s)
    BY DEF Due, Page
  <1> HIDE DEF c, o
  <1>6. from \in Nat /\ from + PageSize = c * PageSize /\ from + PageSize \in Int /\ PageSize \in Nat \ {0}
    <2>1. c - 1 \in Int /\ 0 <= c - 1 /\ c \in Int
      BY <1>3
    <2>2. from \in Int /\ 0 <= from
      BY <2>1, Times
    <2>3. from + PageSize = c * PageSize
      BY <2>1, Times
    <2> HIDE DEF from
    <2> QED BY <2>2, <2>3, ContentsAssumption
  <1> HIDE DEF from
  <1>7. to = IF from + PageSize <= Len(o) THEN from + PageSize ELSE Len(o)
    BY <1>4, <1>6, PairIs
  <1> HIDE DEF to
  <1>8. /\ s \in Seq(Stored(walk.of)) /\ Len(s) = IF from + 1 <= to THEN to - (from + 1) + 1 ELSE 0
        /\ \A i \in 1 .. to - (from + 1) + 1 : s[i] = o[from + 1 + i - 1]
    <2>1. from + 1 \in Int /\ to \in Int
      BY <1>4, <1>6, <1>7
    <2>2. \A i \in from + 1 .. to : o[i] \in Stored(walk.of)
      <3> TAKE i \in from + 1 .. to
      <3>1. i \in 1 .. Len(o)
        BY <1>4, <1>6, <1>7
      <3> QED BY <1>4, <3>1, ElementOfSeq
    <2> QED BY <2>1, <2>2, SubSeqProperties
  <1> HIDE DEF s
  <1>9. Due \in SUBSET Stored(walk.of)
    <2>1. DOMAIN s = 1 .. Len(s) /\ \A i \in 1 .. Len(s) : s[i] \in Stored(walk.of)
      BY <1>8, LenProperties, ElementOfSeq
    <2> QED BY <1>5, <2>1 DEF ToSet
  <1>10. ASSUME NEW i \in 1 .. Len(o), from < i, i <= c * PageSize PROVE o[i] \in Due
    <2>1. i <= to /\ from + 1 <= to /\ to \in Int
      BY <1>4, <1>6, <1>7, <1>10
    <2>2. i - from \in 1 .. to - (from + 1) + 1 /\ from + 1 + (i - from) - 1 = i
      BY <1>6, <1>10, <2>1
    <2>3. s[i - from] = o[i]
      <3>1. s[i - from] = o[from + 1 + (i - from) - 1]
        BY <1>8, <2>2
      <3> QED BY <3>1, <2>2
    <2>4. i - from \in DOMAIN s
      <3>1. Len(s) = to - (from + 1) + 1
        BY <1>8, <2>1
      <3>2. DOMAIN s = 1 .. Len(s)
        BY <1>8, LenProperties
      <3> QED BY <3>1, <3>2, <2>2
    <2> QED BY <1>5, <2>3, <2>4 DEF ToSet
  <1> QED BY <1>3, <1>9, <1>10 DEF o, c, from

-----------------------------------------------------------------------------
(* Types.                                                                  *)

LEMMA SlipsAre ==
  ASSUME TypeOK
  PROVE  /\ Passed \in Nat
         /\ \A k : Slips(k) \in SUBSET Keys
         /\ \A n : Behind(n) \in SUBSET Keys
  <1> DEFINE o == Order(walk.of)
  <1>1. walk.of \in Servers /\ walk.page \in Nat \ {0}
    BY DEF TypeOK, Walks
  <1>2. Stored(walk.of) \in SUBSET Keys /\ o \in Seq(Stored(walk.of)) /\ DOMAIN o = 1 .. Len(o)
    BY <1>1, OrderIs
  <1>3. \A i \in DOMAIN o : o[i] \in Keys
    BY <1>2, ElementOfSeq
  <1>4. Passed \in Nat
    <2>1. walk.page - 1 \in Int /\ 0 <= walk.page - 1
      BY <1>1
    <2>2. (walk.page - 1) * PageSize \in Int /\ 0 <= (walk.page - 1) * PageSize
      BY <2>1, Times
    <2> QED BY <2>2 DEF Passed
  <1>5. \A k : Slips(k) \in SUBSET Keys
    BY <1>3 DEF Slips
  <1>6. \A n : Behind(n) \in SUBSET Keys
    BY <1>3 DEF Behind
  <1> QED BY <1>4, <1>5, <1>6

LEMMA Puts ==
  ASSUME TypeOK, NEW s \in Servers, NEW k \in Keys, NEW v \in Texts \cup {Cipher}, Put(s, k, v)
  PROVE  /\ rows' \in [Servers -> Envs]
         /\ DOMAIN rows'[s] = Stored(s) \cup {k}
         /\ rows'[s][k] = Sealed(secret[s], v)
         /\ \A o \in Stored(s) : o # k => rows'[s][o] = rows[s][o]
         /\ \A r \in Servers : r # s => rows'[r] = rows[r]
  <1>1. rows \in [Servers -> Envs] /\ rows[s] \in Envs /\ secret[s] \in Secrets \cup {Bare}
    BY DEF TypeOK
  <1>2. Sealed(secret[s], v) \in SealedValues
    BY <1>1 DEF Sealed, SealedValues
  <1> DEFINE e == Written(rows[s], k, Sealed(secret[s], v))
  <1>3. /\ e \in Envs /\ DOMAIN e = Stored(s) \cup {k} /\ e[k] = Sealed(secret[s], v)
        /\ \A o \in Stored(s) : o # k => e[o] = rows[s][o]
    BY <1>1, <1>2, EnvsAre DEF Stored
  <1>4. rows' = [rows EXCEPT ![s] = e]
    BY DEF Put
  <1> HIDE DEF e
  <1> QED BY <1>1, <1>3, <1>4

LEMMA Deletes ==
  ASSUME TypeOK, NEW s \in Servers, NEW k, Delete(s, k)
  PROVE  /\ rows' \in [Servers -> Envs]
         /\ DOMAIN rows'[s] = Stored(s) \ {k}
         /\ \A o \in Stored(s) \ {k} : rows'[s][o] = rows[s][o]
         /\ \A r \in Servers : r # s => rows'[r] = rows[r]
  <1>1. rows \in [Servers -> Envs] /\ rows[s] \in Envs
    BY DEF TypeOK
  <1> DEFINE e == [o \in DOMAIN rows[s] \ {k} |-> rows[s][o]]
  <1>2. e \in Envs
    BY <1>1, EnvsAre
  <1>3. rows' = [rows EXCEPT ![s] = e]
    BY DEF Delete, Stored
  <1>4. DOMAIN e = Stored(s) \ {k} /\ \A o \in Stored(s) \ {k} : e[o] = rows[s][o]
    BY DEF Stored
  <1> HIDE DEF e
  <1> QED BY <1>1, <1>2, <1>3, <1>4

LEMMA TypeInit == TransferInit => TypeOK /\ KeyInv
  <1> SUFFICES ASSUME TransferInit PROVE TypeOK /\ KeyInv
    OBVIOUS
  <1>1. ContentsInit /\ ConfigInit /\ move = Unmoved
    BY DEF TransferInit
  <1>2. KeyInv /\ ConfigTypeOK
    BY <1>1, KeyInit DEF KeyInv
  <1>3. Local \in Servers /\ (CHOOSE s \in Servers : TRUE) \in Servers
    BY CliConfigAssumption, TransferAssumption
  <1>4. walk \in Walks
    BY <1>1, <1>3 DEF ContentsInit, NoWalk, Walks
  <1>5. move \in Transfers
    <2>1. Default \in [base : Servers, key : Field]
      BY <1>3 DEF Default, Field
    <2>2. <<>> \in Seq(Exported)
      BY EmptySeq
    <2> QED BY <1>1, <1>3, <2>1, <2>2 DEF Unmoved, Transfers, Stages
  <1>6. secret \in [Servers -> Secrets \cup {Bare}] /\ bared \in BOOLEAN /\ events \in 0 .. MaxEvents
    <2>1. secret \in [Servers -> Secrets \cup {Bare}] /\ bared = FALSE /\ events = 0
      BY <1>1 DEF ContentsInit
    <2>2. MaxEvents \in Nat
      BY ContentsAssumption
    <2>3. events \in 0 .. MaxEvents
      BY <2>1, <2>2
    <2>4. bared \in BOOLEAN
      BY <2>1, Zenon
    <2> QED BY <2>1, <2>3, <2>4, Zenon
  <1>7. rows \in [Servers -> Envs]
    <2>1. PICK c \in [Servers -> Initially] :
            rows = [s \in Servers |-> [k \in DOMAIN c[s] |-> Sealed(secret[s], c[s][k])]]
      BY <1>1 DEF ContentsInit
    <2>2. ASSUME NEW s \in Servers PROVE [k \in DOMAIN c[s] |-> Sealed(secret[s], c[s][k])] \in Envs
      <3>1. c[s] \in [DOMAIN c[s] -> Texts] /\ DOMAIN c[s] \in SUBSET Keys
        BY ContentsAssumption DEF Keys
      <3>2. \A k \in DOMAIN c[s] : Sealed(secret[s], c[s][k]) \in SealedValues
        BY <1>6, <3>1 DEF Sealed, SealedValues
      <3>3. [k \in DOMAIN c[s] |-> Sealed(secret[s], c[s][k])] \in [DOMAIN c[s] -> SealedValues]
        BY <3>2
      <3> QED BY <3>1, <3>3 DEF Envs
    <2> QED BY <2>1, <2>2
  <1> QED BY <1>2, <1>4, <1>5, <1>6, <1>7 DEF TypeOK

LEMMA ClientIs ==
  ASSUME ConfigTypeOK, Usable
  PROVE  Client \in [base : Servers, key : Field]
  <1>1. file \in Files /\ Decodes(file) /\ Loaded(file).base # NotGiven
    BY DEF ConfigTypeOK, Usable, Client
  <1>2. Loaded(file) \in Configs
    BY <1>1, FilesAre DEF Loaded, Decodes
  <1> QED BY <1>1, <1>2, TransferAssumption DEF Client, Configs, Field

\* What a successful export writes.
LEMMA ExportIs ==
  ASSUME TypeOK, Export, move'.at # "failed"
  PROVE  LET s == move.client.base
             o == Order(s)
         IN /\ s \in Servers /\ \A k \in Stored(s) : Opens(secret[s], rows[s][k])
            /\ move.at = "list" /\ move'.vars \in Seq(Exported) /\ Len(move'.vars) = Len(o)
            /\ move' = [move EXCEPT !.at = "file", !.vars = move'.vars, !.source = s]
            /\ \A i \in 1 .. Len(o) : /\ o[i] \in Stored(s)
                                      /\ move'.vars[i].key = o[i]
                                      /\ move'.vars[i].value = Opened(secret[s], rows[s][o[i]])
  <1> DEFINE s == move.client.base
             o == Order(s)
             Given(k) == [key |-> k, value |-> Opened(secret[s], rows[s][k])]
             vars == [n \in DOMAIN o |-> Given(o[n])]
  <1>1. move \in Transfers /\ s \in Servers
    BY DEF TypeOK, Transfers
  <1>2. /\ \A k \in Stored(s) : Opens(secret[s], rows[s][k])
        /\ move.at = "list" /\ move' = [move EXCEPT !.at = "file", !.vars = vars, !.source = s]
    <2>1. move' # [move EXCEPT !.at = "failed"]
      BY <1>1 DEF Transfers
    <2> QED BY <2>1 DEF Export
  <1>3. /\ o \in Seq(Stored(s)) /\ Len(o) \in Nat /\ DOMAIN o = 1 .. Len(o) /\ Stored(s) \in SUBSET Keys
        /\ \A k \in Stored(s) : rows[s][k] \in SealedValues
    BY <1>1, OrderIs
  <1>4. \A i \in 1 .. Len(o) : o[i] \in Stored(s)
    <2> HIDE DEF o
    <2> QED BY <1>3, ElementOfSeq
  <1>5. \A k \in Stored(s) : Given(k) \in Exported
    BY <1>3 DEF Opened, SealedValues, Exported
  <1>6. vars \in Seq(Exported) /\ Len(vars) = Len(o) /\ \A i \in 1 .. Len(o) : vars[i] = Given(o[i])
    <2> HIDE DEF o, Given
    <2> QED BY <1>3, <1>4, <1>5
  <1>7. move'.vars = vars
    <2> HIDE DEF vars, s
    <2> QED BY <1>1, <1>2 DEF Transfers
  <1>8. \A i \in 1 .. Len(o) : vars[i].key = o[i] /\ vars[i].value = Opened(secret[s], rows[s][o[i]])
    <2>1. \A k : Given(k).key = k /\ Given(k).value = Opened(secret[s], rows[s][k])
      OBVIOUS
    <2> HIDE DEF o, vars, Given
    <2> QED BY <1>6, <2>1
  <1> HIDE DEF vars, o
  <1> QED BY <1>1, <1>2, <1>4, <1>6, <1>7, <1>8 DEF o

\* The actions of the file, whatever goes on besides.
LEMMA TypeMoves ==
  ASSUME TypeOK, Moves
  PROVE  /\ move' \in Transfers /\ rows' \in [Servers -> Envs] /\ events' \in 0 .. MaxEvents
         /\ UNCHANGED <<config, secret, bared, walk>>
  <1>1. /\ move \in Transfers /\ rows \in [Servers -> Envs] /\ events \in 0 .. MaxEvents
        /\ MaxEvents \in Nat /\ ConfigTypeOK
    BY ContentsAssumption DEF TypeOK
  <1>2. Counted => events' \in 0 .. MaxEvents
    BY <1>1 DEF Counted
  <1>3. ASSUME ExportStarts PROVE move' \in Transfers /\ Idle
    <2>1. Client \in [base : Servers, key : Field]
      BY <1>1, <1>3, ClientIs DEF ExportStarts, Starts
    <2> QED BY <1>1, <1>3, <2>1 DEF ExportStarts, Starts, Transfers, Stages
  <1>4. ASSUME Export PROVE move' \in Transfers /\ Idle
    <2>1. CASE move'.at = "failed"
      <3>1. move' = [move EXCEPT !.at = "failed"]
        <4>1. \A x, y : [move EXCEPT !.at = "file", !.vars = x, !.source = y].at = "file"
          BY <1>1 DEF Transfers
        <4>2. \/ \E x, y : move' = [move EXCEPT !.at = "file", !.vars = x, !.source = y]
              \/ move' = [move EXCEPT !.at = "failed"]
          BY <1>4, Zenon DEF Export
        <4> QED BY <2>1, <4>1, <4>2
      <3> QED BY <1>1, <1>4, <3>1 DEF Export, Transfers, Stages
    <2>2. CASE move'.at # "failed"
      <3> DEFINE s == move.client.base
      <3>1. /\ s \in Servers /\ move'.vars \in Seq(Exported)
            /\ move' = [move EXCEPT !.at = "file", !.vars = move'.vars, !.source = s]
        BY <1>4, <2>2, ExportIs
      <3> QED BY <1>1, <1>4, <3>1 DEF Export, Transfers, Stages
    <2> QED BY <2>1, <2>2
  <1>5. ASSUME NEW m \in Transfers, NEW s PROVE Imports(m, s) \in Transfers
    <2>1. m.vars \in Seq(Exported)
      BY DEF Transfers
    <2>2. Parse(Format(m.vars)) \in Seq(Exported)
      BY <2>1, ExportsAre
    <2>3. (Stored(s) = {}) \in BOOLEAN
      OBVIOUS
    <2> QED BY <2>2, <2>3 DEF Imports, Transfers, Stages
  <1>6. ASSUME ImportStarts PROVE move' \in Transfers /\ Idle
    <2>1. Client \in [base : Servers, key : Field]
      BY <1>1, <1>6, ClientIs DEF ImportStarts
    <2> DEFINE m == [move EXCEPT !.client = Client]
    <2>2. m \in Transfers
      BY <1>1, <2>1 DEF Transfers
    <2>3. move' = Imports(m, Client.base)
      BY <1>6 DEF ImportStarts
    <2> HIDE DEF m
    <2> QED BY <1>5, <1>6, <2>2, <2>3 DEF ImportStarts
  <1>7. ASSUME NEW s \in Servers, Upload(s) PROVE move' \in Transfers /\ Idle
    <2> DEFINE m == [move EXCEPT !.via = "dashboard", !.client = [base |-> s, key |-> s]]
    <2>1. m \in Transfers
      BY <1>1, TransferAssumption DEF Transfers, Field
    <2>2. move' = Imports(m, s)
      BY <1>7 DEF Upload
    <2> HIDE DEF m
    <2> QED BY <1>5, <1>7, <2>1, <2>2 DEF Upload
  <1>8. Idle => /\ rows' = rows /\ events' = events /\ UNCHANGED <<config, secret, bared, walk>>
    BY DEF Idle, server, data
  <1>9. move.left # <<>> => /\ Head(move.left) \in Exported /\ Tail(move.left) \in Seq(Exported)
                            /\ Head(move.left).key \in Keys /\ Head(move.left).value \in Texts \cup {Cipher}
    <2>1. move.left \in Seq(Exported)
      BY <1>1 DEF Transfers
    <2>2. ASSUME move.left # <<>> PROVE Head(move.left) \in Exported /\ Tail(move.left) \in Seq(Exported)
      BY <2>1, <2>2, HeadTailProperties
    <2>3. \A v \in Exported : v.key \in Keys /\ v.value \in Texts \cup {Cipher}
      BY DEF Exported
    <2> QED BY <2>2, <2>3
  <1>10. Target \in Servers
    BY <1>1 DEF Transfers, Target
  <1>11. ASSUME Put(Target, Head(move.left).key, Head(move.left).value), move.left # <<>>
         PROVE  rows' \in [Servers -> Envs]
    BY <1>9, <1>10, <1>11, Puts
  <1>12. ASSUME Line PROVE move' \in Transfers /\ rows' \in [Servers -> Envs]
    <2>1. move.left # <<>> /\ (move' = [move EXCEPT !.left = Tail(@)] \/ move' = [move EXCEPT !.at = "failed"])
      BY <1>12 DEF Line
    <2>2. move' \in Transfers
      BY <1>1, <1>9, <2>1 DEF Transfers, Stages
    <2>3. rows' \in [Servers -> Envs]
      BY <1>1, <1>11, <1>12 DEF Line
    <2> QED BY <2>2, <2>3
  <1>13. ASSUME LineFails PROVE move' \in Transfers /\ rows' \in [Servers -> Envs]
    <2>1. /\ move.left # <<>>
          /\ \/ move' = [move EXCEPT !.at = "failed"]
             \/ move' = [move EXCEPT !.left = Tail(@), !.touched = @ \cup {Target}]
      BY <1>13 DEF LineFails
    <2>2. move' \in Transfers
      <3>1. CASE move' = [move EXCEPT !.at = "failed"]
        BY <1>1, <3>1 DEF Transfers, Stages
      <3>2. CASE move' = [move EXCEPT !.left = Tail(@), !.touched = @ \cup {Target}]
        <4>1. move.touched \cup {Target} \in SUBSET Servers /\ Tail(move.left) \in Seq(Exported)
          BY <1>1, <1>9, <1>10, <2>1 DEF Transfers
        <4> QED BY <1>1, <3>2, <4>1 DEF Transfers
      <3> QED BY <2>1, <3>1, <3>2
    <2>3. rows' \in [Servers -> Envs]
      BY <1>1, <1>11, <1>13 DEF LineFails
    <2> QED BY <2>2, <2>3
  <1>14. ASSUME ImportEnds PROVE move' \in Transfers /\ Idle
    BY <1>1, <1>14 DEF ImportEnds, Transfers, Stages
  <1>15. ASSUME MoveEnds PROVE move' \in Transfers
    <2>1. Default \in [base : Servers, key : Field] /\ Local \in Servers
      BY CliConfigAssumption, TransferAssumption DEF Default, Field
    <2>2. <<>> \in Seq(Exported)
      BY EmptySeq
    <2> QED BY <1>15, <2>1, <2>2 DEF MoveEnds, Unmoved, Transfers, Stages
  <1>16. CASE ExportStarts \/ Export \/ ImportStarts \/ (\E s \in Servers : Upload(s)) \/ ImportEnds
    <2>1. move' \in Transfers /\ Idle
      BY <1>3, <1>4, <1>6, <1>7, <1>14, <1>16
    <2> QED BY <1>1, <1>8, <2>1
  <1>17. CASE Line
    BY <1>1, <1>12, <1>17 DEF Line
  <1>18. CASE LineFails
    BY <1>2, <1>13, <1>18 DEF LineFails
  <1>19. CASE MoveEnds
    BY <1>1, <1>2, <1>15, <1>19 DEF MoveEnds, data
  <1> QED BY <1>16, <1>17, <1>18, <1>19 DEF Moves

LEMMA TypeBrowses ==
  ASSUME TypeOK, Browses
  PROVE  /\ walk' \in Walks /\ events' \in 0 .. MaxEvents
         /\ UNCHANGED data
  <1>1. /\ walk \in Walks /\ events \in 0 .. MaxEvents /\ MaxEvents \in Nat /\ walk.of \in Servers
    BY ContentsAssumption DEF TypeOK, Walks
  <1>2. Counted => events' \in 0 .. MaxEvents
    BY <1>1 DEF Counted
  <1>3. ASSUME NEW s \in Servers, WalkStarts(s) PROVE walk' \in Walks /\ events' = events
    <2>1. Stored(s) \in SUBSET Keys
      BY OrderIs
    <2>2. NoWalk \in Walks
      <3>1. (CHOOSE r \in Servers : TRUE) \in Servers
        BY <1>1
      <3> QED BY <3>1 DEF NoWalk, Walks
    <2>3. walk' = [NoWalk EXCEPT !.at = "ask", !.of = s, !.stayed = Stored(s)]
      BY <1>3 DEF WalkStarts
    <2> QED BY <1>3, <2>1, <2>2, <2>3 DEF WalkStarts, Walks
  <1>4. ASSUME CountVars PROVE walk' \in Walks /\ events' \in 0 .. MaxEvents
    <2>1. Cardinality(Stored(walk.of)) \in Nat
      <3>1. Stored(walk.of) \in SUBSET Keys
        BY <1>1, OrderIs
      <3> QED BY <3>1, OrderedIs
    <2>2. CASE walk' = [walk EXCEPT !.at = "read", !.total = Cardinality(Stored(walk.of))] /\ UNCHANGED events
      BY <1>1, <2>1, <2>2 DEF Walks
    <2>3. CASE walk' = [walk EXCEPT !.at = "read", !.total = 0] /\ Counted
      BY <1>1, <1>2, <2>3 DEF Walks
    <2> QED BY <1>4, <2>2, <2>3 DEF CountVars
  <1>5. ASSUME ReadPage PROVE walk' \in Walks /\ events' \in 0 .. MaxEvents
    <2>1. Current \in Nat \ {0} /\ Due \in SUBSET Keys
      <3>1. Stored(walk.of) \in SUBSET Keys
        BY <1>1, OrderIs
      <3> QED BY <3>1, DueIs
    <2>2. ASSUME NEW vars \in SUBSET Keys, Shows(vars) PROVE walk' \in Walks
      <3>1. walk.seen \cup vars \in SUBSET Keys /\ Current + 1 \in Nat \ {0}
        BY <1>1, <2>1 DEF Walks
      <3>2. Behind(walk.total) \in SUBSET Keys
        BY SlipsAre
      <3> DEFINE at == IF Current < TotalPages(walk.total) THEN "ask" ELSE "done"
                 sl == walk.slipped \cup (Due \ vars)
                         \cup IF Current < TotalPages(walk.total) THEN {} ELSE Behind(walk.total)
      <3>3. at \in {"rest", "ask", "read", "done"}
        OBVIOUS
      <3>4. sl \in SUBSET Keys
        BY <1>1, <2>1, <3>2 DEF Walks
      <3>5. walk' = [walk EXCEPT !.at = at, !.page = Current + 1, !.seen = walk.seen \cup vars, !.slipped = sl]
        BY <2>2 DEF Shows
      <3> HIDE DEF at, sl
      <3> QED BY <1>1, <3>1, <3>3, <3>4, <3>5 DEF Walks
    <2>3. /\ Shows(Due) \/ Shows({})
          /\ UNCHANGED events \/ Counted
      BY <1>5 DEF ReadPage
    <2> QED BY <1>1, <1>2, <2>1, <2>2, <2>3
  <1>6. ASSUME WalkEnds PROVE walk' \in Walks /\ events' = events
    <2>1. (CHOOSE r \in Servers : TRUE) \in Servers
      BY <1>1
    <2> QED BY <1>6, <2>1 DEF WalkEnds, NoWalk, Walks
  <1>7. Browses => UNCHANGED data
    BY DEF Browses, WalkStarts, CountVars, ReadPage, WalkEnds
  <1> QED BY <1>1, <1>3, <1>4, <1>5, <1>6, <1>7 DEF Browses

\* Others write, delete and restart.
LEMMA TypeOthers ==
  ASSUME TypeOK, NEW s \in Servers, Others(s) \/ ServerRestarts(s)
  PROVE  /\ rows' \in [Servers -> Envs] /\ secret' \in [Servers -> Secrets \cup {Bare}] /\ bared' \in BOOLEAN
         /\ walk' \in Walks /\ move' \in Transfers /\ events' \in 0 .. MaxEvents /\ UNCHANGED config
  <1>1. /\ walk \in Walks /\ events \in 0 .. MaxEvents /\ MaxEvents \in Nat /\ move \in Transfers
        /\ rows \in [Servers -> Envs] /\ secret \in [Servers -> Secrets \cup {Bare}] /\ bared \in BOOLEAN
    BY ContentsAssumption DEF TypeOK
  <1>2. Counted => events' \in 0 .. MaxEvents
    BY <1>1 DEF Counted
  <1>4. ASSUME NEW k \in Keys, NEW v \in Values, Set(s, k, v)
        PROVE  /\ rows' \in [Servers -> Envs] /\ walk' \in Walks /\ events' \in 0 .. MaxEvents
               /\ UNCHANGED <<secret, bared>>
    <2>1. rows' \in [Servers -> Envs]
      <3>1. v \in Texts \cup {Cipher}
        BY ContentsAssumption
      <3> QED BY <1>4, <3>1, Puts DEF Set
    <2> QED BY <1>1, <1>2, <1>4, <2>1 DEF Set
  <1>5. ASSUME NEW k \in Keys, Delete(s, k)
        PROVE  /\ rows' \in [Servers -> Envs] /\ walk' \in Walks /\ events' \in 0 .. MaxEvents
               /\ UNCHANGED <<secret, bared>>
    <2>1. rows' \in [Servers -> Envs]
      BY <1>5, Deletes
    <2>2. walk.slipped \cup Slips(k) \in SUBSET Keys /\ walk.stayed \ {k} \in SUBSET Keys
      BY <1>1, SlipsAre DEF Walks
    <2>3. walk' \in Walks
      BY <1>1, <1>5, <2>2 DEF Delete, Walks
    <2> QED BY <1>2, <1>5, <2>1, <2>3 DEF Delete
  <1>6. CASE Others(s)
    <2>1. /\ rows' \in [Servers -> Envs] /\ walk' \in Walks /\ events' \in 0 .. MaxEvents
          /\ UNCHANGED <<secret, bared>>
      BY <1>4, <1>5, <1>6 DEF Others, Changes
    <2>2. move' \in Transfers
      <3> DEFINE t == IF move.at \in {"rest", "list"} THEN {} ELSE move.touched \cup {s}
      <3>1. t \in SUBSET Servers /\ move' = [move EXCEPT !.touched = t]
        BY <1>1, <1>6 DEF Others, Transfers
      <3> HIDE DEF t
      <3> QED BY <1>1, <3>1 DEF Transfers
    <2> QED BY <1>1, <1>6, <2>1, <2>2 DEF Others
  <1>7. CASE ServerRestarts(s)
    <2>1. PICK k \in Secrets \cup {Bare} : Restart(s, k)
      BY <1>7 DEF ServerRestarts, Restarts
    <2>2. rows' = rows /\ secret' = [secret EXCEPT ![s] = k] /\ bared' = (bared \/ (k = Bare /\ secret[s] # Bare))
      BY <2>1 DEF Restart
    <2>3. walk' \in Walks
      BY <1>1, <2>1 DEF Restart, Walks
    <2>4. move' \in Transfers
      <3> DEFINE at == IF move.at = "import" /\ move.via = "dashboard" /\ s = Target THEN "failed" ELSE move.at
                 st == move.steady /\ s # Target
      <3>1. at \in Stages /\ st \in BOOLEAN /\ move' = [move EXCEPT !.at = at, !.steady = st]
        BY <1>1, <1>7 DEF ServerRestarts, Transfers, Stages
      <3> HIDE DEF at, st
      <3> QED BY <1>1, <3>1 DEF Transfers
    <2>5. bared' \in BOOLEAN
      BY <2>2
    <2>6. secret' \in [Servers -> Secrets \cup {Bare}]
      BY <1>1, <2>2
    <2> QED BY <1>1, <1>2, <1>7, <2>1, <2>2, <2>3, <2>4, <2>5, <2>6 DEF ServerRestarts, Restart
  <1> QED BY <1>6, <1>7

LEMMA TypeNext ==
  ASSUME TypeOK, KeyInv, [TransferNext]_<<config, server, move>>
  PROVE  TypeOK' /\ KeyInv'
  <1> USE DEF TypeOK
  <1>1. CASE UNCHANGED config
    <2>1. KeyInv' /\ ConfigTypeOK'
      <3>1. KeyInv'
        BY <1>1, KeyNext
      <3> QED BY <3>1 DEF KeyInv
    <2>2. CASE Moves
      BY <2>1, <2>2, TypeMoves
    <2>3. CASE Browses /\ UNCHANGED move
      BY <2>1, <2>3, TypeBrowses DEF data
    <2>4. CASE \E s \in Servers : Others(s) \/ ServerRestarts(s)
      BY <2>1, <2>4, TypeOthers
    <2>5. CASE UNCHANGED <<config, server, move>>
      BY <2>1, <2>5 DEF server, data
    <2>6. CASE ConfigNext /\ UNCHANGED <<data, walk, move>> /\ (events' = events \/ Counted)
      <3>1. events' \in 0 .. MaxEvents
        BY <2>6, ContentsAssumption DEF Counted
      <3> QED BY <2>1, <2>6, <3>1 DEF data
    <2> QED BY <2>2, <2>3, <2>4, <2>5, <2>6 DEF TransferNext, Commands, ConfigNext, server
  <1>2. CASE ~UNCHANGED config
    <2>1. ConfigNext /\ UNCHANGED <<data, walk, move>> /\ (events' = events \/ Counted)
      <3>1. ~Moves
        BY <1>2, TypeMoves
      <3>2. ~\E s \in Servers : Others(s) \/ ServerRestarts(s)
        BY <1>2, TypeOthers
      <3> QED BY <1>2, <3>1, <3>2 DEF TransferNext, Commands, ConfigNext, server
    <2>2. KeyInv' /\ ConfigTypeOK'
      <3>1. KeyInv'
        BY <2>1, KeyNext
      <3> QED BY <3>1 DEF KeyInv
    <2>3. events' \in 0 .. MaxEvents
      BY <2>1, ContentsAssumption DEF Counted
    <2> QED BY <2>1, <2>2, <2>3 DEF data
  <1> QED BY <1>1, <1>2

\* The line an import is about to store, and those after it.
LEMMA LeftIs ==
  ASSUME TypeOK, move.left # <<>>
  PROVE  /\ Head(move.left) \in Exported /\ Head(move.left).key \in Keys
         /\ Head(move.left).value \in Texts \cup {Cipher}
         /\ Head(move.left) = move.left[1] /\ Head(move.left) \in ToSet(move.left)
         /\ Len(move.left) \in Nat \ {0} /\ Tail(move.left) \in Seq(Exported)
         /\ Len(Tail(move.left)) = Len(move.left) - 1
         /\ \A i \in 1 .. Len(move.left) - 1 : Tail(move.left)[i] = move.left[i + 1]
         /\ ToSet(Tail(move.left)) \subseteq ToSet(move.left)
  <1>1. move.left \in Seq(Exported)
    BY DEF TypeOK, Transfers
  <1> DEFINE u == move.left
             t == Tail(u)
  <1>2. u \in Seq(Exported) /\ u # <<>>
    BY <1>1
  <1> HIDE DEF u
  <1>3. /\ Head(u) \in Exported /\ Head(u) = u[1] /\ Len(u) \in Nat \ {0} /\ t \in Seq(Exported)
        /\ Len(t) = Len(u) - 1 /\ \A i \in 1 .. Len(u) - 1 : t[i] = u[i + 1]
    <2>1. Len(u) \in Nat /\ Len(u) # 0
      BY <1>2, LenProperties, EmptySeq
    <2> QED BY <1>2, <2>1, HeadTailProperties
  <1> HIDE DEF t
  <1>4. DOMAIN u = 1 .. Len(u) /\ DOMAIN t = 1 .. Len(t)
    BY <1>2, <1>3, LenProperties
  <1>5. Head(u) \in ToSet(u)
    BY <1>3, <1>4 DEF ToSet
  <1>6. ToSet(t) \subseteq ToSet(u)
    <2>1. ASSUME NEW i \in DOMAIN t PROVE t[i] \in ToSet(u)
      <3>1. i \in 1 .. Len(u) - 1 /\ i + 1 \in DOMAIN u
        BY <1>3, <1>4
      <3> QED BY <1>3, <3>1 DEF ToSet
    <2> QED BY <2>1 DEF ToSet
  <1>7. Head(u).key \in Keys /\ Head(u).value \in Texts \cup {Cipher}
    BY <1>3 DEF Exported
  <1> QED BY <1>3, <1>5, <1>6, <1>7 DEF u, t

-----------------------------------------------------------------------------
(* No value is the sealed form of another.                                 *)

\* A server without a secret never had one, and every text is of a user.
RowsClear ==
  /\ \A s \in Servers : secret[s] = Bare => \A k \in Stored(s) : rows[s][k].by = Bare
  /\ \A s \in Servers : \A k \in Stored(s) : rows[s][k].text \in Texts
Clear(vars) == \A v \in ToSet(vars) : v.value \in Texts

CipherInv == ~bared => RowsClear /\ Clear(move.vars) /\ Clear(move.left)

LEMMA ClearPut ==
  ASSUME TypeOK, RowsClear, NEW s \in Servers, NEW k \in Keys, NEW v \in Texts, Put(s, k, v), secret' = secret
  PROVE  RowsClear'
  <1>1. /\ DOMAIN rows'[s] = Stored(s) \cup {k} /\ rows'[s][k] = Sealed(secret[s], v)
        /\ \A o \in Stored(s) : o # k => rows'[s][o] = rows[s][o]
        /\ \A r \in Servers : r # s => rows'[r] = rows[r]
    BY Puts
  <1>2. Sealed(secret[s], v).by = secret[s] /\ Sealed(secret[s], v).text = v
    BY DEF Sealed
  <1>3. ASSUME NEW r \in Servers, NEW o \in DOMAIN rows'[r]
        PROVE  (secret[r] = Bare => rows'[r][o].by = Bare) /\ rows'[r][o].text \in Texts
    <2>1. CASE r = s /\ o = k
      BY <1>1, <1>2, <2>1
    <2>2. CASE ~(r = s /\ o = k)
      <3>1. o \in Stored(r) /\ rows'[r][o] = rows[r][o]
        BY <1>1, <1>3, <2>2 DEF Stored
      <3> QED BY <3>1 DEF RowsClear
    <2> QED BY <2>1, <2>2
  <1> QED BY <1>3 DEF RowsClear, Stored

LEMMA ClearDelete ==
  ASSUME TypeOK, RowsClear, NEW s \in Servers, NEW k, Delete(s, k)
  PROVE  RowsClear'
  <1>1. /\ DOMAIN rows'[s] = Stored(s) \ {k}
        /\ \A o \in Stored(s) \ {k} : rows'[s][o] = rows[s][o]
        /\ \A r \in Servers : r # s => rows'[r] = rows[r]
        /\ secret' = secret
    BY Deletes DEF Delete
  <1>2. ASSUME NEW r \in Servers, NEW o \in DOMAIN rows'[r]
        PROVE  o \in Stored(r) /\ rows'[r][o] = rows[r][o]
    BY <1>1, <1>2 DEF Stored
  <1>3. ASSUME NEW r \in Servers, NEW o \in DOMAIN rows'[r]
        PROVE  (secret[r] = Bare => rows'[r][o].by = Bare) /\ rows'[r][o].text \in Texts
    BY <1>2, <1>3 DEF RowsClear
  <1> QED BY <1>1, <1>3 DEF RowsClear, Stored

LEMMA ClearInit == TransferInit => CipherInv
  <1> SUFFICES ASSUME TransferInit PROVE CipherInv
    OBVIOUS
  <1>1. PICK c \in [Servers -> Initially] :
          rows = [s \in Servers |-> [k \in DOMAIN c[s] |-> Sealed(secret[s], c[s][k])]]
    BY DEF TransferInit, ContentsInit
  <1>2. ASSUME NEW s \in Servers, NEW k \in Stored(s)
        PROVE  rows[s][k].by = secret[s] /\ rows[s][k].text \in Texts
    <2>1. Stored(s) = DOMAIN c[s] /\ rows[s][k] = Sealed(secret[s], c[s][k])
      BY <1>1, <1>2 DEF Stored
    <2>2. c[s][k] \in Texts
      BY <1>2, <2>1, ContentsAssumption
    <2> QED BY <2>1, <2>2 DEF Sealed
  <1>3. move.vars = <<>> /\ move.left = <<>>
    BY DEF TransferInit, Unmoved
  <1>4. ToSet(<<>>) = {}
    BY DEF ToSet
  <1> QED BY <1>2, <1>3, <1>4 DEF CipherInv, RowsClear, Clear

\* What is exported without an error is what users stored.
LEMMA ClearExport ==
  ASSUME TypeOK, RowsClear, Export, move'.at # "failed"
  PROVE  Clear(move'.vars) /\ move'.left = move.left
  <1> DEFINE s == move.client.base
             o == Order(s)
             w == move'.vars
  <1>1. /\ s \in Servers /\ \A k \in Stored(s) : Opens(secret[s], rows[s][k])
        /\ w \in Seq(Exported) /\ Len(w) = Len(o)
        /\ move' = [move EXCEPT !.at = "file", !.vars = w, !.source = s]
        /\ \A i \in 1 .. Len(o) : o[i] \in Stored(s) /\ w[i].value = Opened(secret[s], rows[s][o[i]])
    BY ExportIs
  <1>2. ASSUME NEW k \in Stored(s) PROVE Opened(secret[s], rows[s][k]) \in Texts
    <2>1. secret[s] = rows[s][k].by
      BY <1>1 DEF Opens, RowsClear
    <2>2. rows[s][k].text \in Texts
      BY <1>1 DEF RowsClear
    <2> QED BY <2>1, <2>2 DEF Opened
  <1>3. move'.left = move.left
    <2> HIDE DEF w, s
    <2> QED BY <1>1 DEF TypeOK, Transfers
  <1> HIDE DEF s, o, w
  <1>4. DOMAIN w = 1 .. Len(o)
    BY <1>1, LenProperties
  <1>5. \A i \in DOMAIN w : w[i].value \in Texts
    BY <1>1, <1>2, <1>4
  <1>6. Clear(w)
    BY <1>5 DEF Clear, ToSet
  <1> QED BY <1>3, <1>6 DEF w

LEMMA ClearMoves ==
  ASSUME TypeOK, RowsClear, Clear(move.vars), Clear(move.left), Moves
  PROVE  RowsClear' /\ Clear(move'.vars) /\ Clear(move'.left)
  <1>1. move \in Transfers /\ Target \in Servers
    BY DEF TypeOK, Transfers, Target
  <1>2. secret' = secret
    BY TypeMoves
  <1>3. rows' = rows => RowsClear'
    BY <1>2 DEF RowsClear, Stored
  <1>4. Idle => rows' = rows
    BY DEF Idle, server, data
  <1>5. ASSUME move.left # <<>>
        PROVE  /\ Clear(Tail(move.left))
               /\ Put(Target, Head(move.left).key, Head(move.left).value) => RowsClear'
    <2>1. /\ Head(move.left).key \in Keys /\ Head(move.left) \in ToSet(move.left)
          /\ ToSet(Tail(move.left)) \subseteq ToSet(move.left)
      BY <1>5, LeftIs
    <2>2. Head(move.left).value \in Texts
      BY <2>1 DEF Clear
    <2>3. Put(Target, Head(move.left).key, Head(move.left).value) => RowsClear'
      BY <1>1, <1>2, <2>1, <2>2, ClearPut
    <2>4. Clear(Tail(move.left))
      BY <2>1 DEF Clear
    <2> QED BY <2>3, <2>4
  <1>6. CASE ExportStarts \/ ImportEnds
    <2>1. move'.vars = move.vars /\ move'.left = move.left
      BY <1>1, <1>6 DEF ExportStarts, Starts, ImportEnds, Transfers
    <2> QED BY <1>3, <1>4, <1>6, <2>1 DEF ExportStarts, ImportEnds
  <1>7. CASE Export
    <2>1. RowsClear'
      BY <1>3, <1>4, <1>7 DEF Export
    <2>2. CASE move'.at # "failed"
      BY <1>7, <2>1, <2>2, ClearExport
    <2>3. CASE move'.at = "failed"
      <3>1. \A x, y : [move EXCEPT !.at = "file", !.vars = x, !.source = y].at = "file"
        BY <1>1 DEF Transfers
      <3>2. \/ \E x, y : move' = [move EXCEPT !.at = "file", !.vars = x, !.source = y]
            \/ move' = [move EXCEPT !.at = "failed"]
        BY <1>7, Zenon DEF Export
      <3>3. move' = [move EXCEPT !.at = "failed"]
        BY <2>3, <3>1, <3>2
      <3>4. move'.vars = move.vars /\ move'.left = move.left
        BY <1>1, <3>3 DEF Transfers
      <3> QED BY <2>1, <3>4
    <2> QED BY <2>2, <2>3
  <1>8. CASE ImportStarts \/ \E s \in Servers : Upload(s)
    <2>1. move'.vars = move.vars /\ move'.left = Parse(Format(move.vars))
      <3>1. CASE ImportStarts
        BY <1>1, <3>1 DEF ImportStarts, Imports, Transfers
      <3>2. CASE \E s \in Servers : Upload(s)
        BY <1>1, <3>2 DEF Upload, Imports, Transfers
      <3> QED BY <1>8, <3>1, <3>2
    <2>2. move.vars \in Seq(Exported)
      BY <1>1 DEF Transfers
    <2>3. Clear(Parse(Format(move.vars)))
      BY <2>2, ExportsAre DEF Clear
    <2>4. Idle
      BY <1>8 DEF ImportStarts, Upload
    <2> QED BY <1>3, <1>4, <2>1, <2>3, <2>4
  <1>9. CASE Line
    <2>1. move.left # <<>>
      BY <1>9 DEF Line
    <2>2. CASE Accepts(move.client)
      <3>1. /\ Put(Target, Head(move.left).key, Head(move.left).value)
            /\ move' = [move EXCEPT !.left = Tail(@)]
        BY <1>9, <2>2 DEF Line
      <3>2. move'.vars = move.vars /\ move'.left = Tail(move.left)
        BY <1>1, <3>1 DEF Transfers
      <3> QED BY <1>5, <2>1, <3>1, <3>2
    <2>3. CASE ~Accepts(move.client)
      <3>1. rows' = rows /\ move' = [move EXCEPT !.at = "failed"]
        BY <1>9, <2>3 DEF Line
      <3>2. move'.vars = move.vars /\ move'.left = move.left
        BY <1>1, <3>1 DEF Transfers
      <3> QED BY <1>3, <3>1, <3>2
    <2> QED BY <2>2, <2>3
  <1>10. CASE LineFails
    <2>1. /\ move.left # <<>>
          /\ \/ Put(Target, Head(move.left).key, Head(move.left).value)
             \/ UNCHANGED rows
          /\ \/ move' = [move EXCEPT !.at = "failed"]
             \/ move' = [move EXCEPT !.left = Tail(@), !.touched = @ \cup {Target}]
      BY <1>10 DEF LineFails
    <2>2. move'.vars = move.vars /\ (move'.left = move.left \/ move'.left = Tail(move.left))
      BY <1>1, <2>1 DEF Transfers
    <2> QED BY <1>3, <1>5, <2>1, <2>2
  <1>11. CASE MoveEnds
    <2>1. move'.vars = <<>> /\ move'.left = <<>> /\ rows' = rows
      BY <1>11 DEF MoveEnds, Unmoved, data
    <2>2. Clear(<<>>)
      BY DEF Clear, ToSet
    <2> QED BY <1>3, <2>1, <2>2
  <1> QED BY <1>6, <1>7, <1>8, <1>9, <1>10, <1>11 DEF Moves

LEMMA ClearNext ==
  ASSUME TypeOK, KeyInv, CipherInv, [TransferNext]_<<config, server, move>>
  PROVE  CipherInv'
  <1> SUFFICES ASSUME ~bared' PROVE RowsClear' /\ Clear(move'.vars) /\ Clear(move'.left)
    BY DEF CipherInv, Clear
  <1>1. CASE Moves
    <2>1. ~bared
      BY <1>1, TypeMoves
    <2> QED BY <1>1, <2>1, ClearMoves DEF CipherInv
  <1>2. CASE UNCHANGED <<data, move>>
    BY <1>2 DEF data, CipherInv, RowsClear, Stored
  <1>3. ASSUME NEW s \in Servers, Others(s) PROVE RowsClear' /\ Clear(move'.vars) /\ Clear(move'.left)
    <2>1. move'.vars = move.vars /\ move'.left = move.left
      BY <1>3 DEF Others, TypeOK, Transfers
    <2>2. bared' = bared /\ secret' = secret
      BY <1>3 DEF Others, Changes, Set, Delete
    <2>3. RowsClear /\ Clear(move.vars) /\ Clear(move.left)
      BY <2>2 DEF CipherInv
    <2>4. ASSUME NEW k \in Keys, NEW v \in Values, Set(s, k, v) PROVE RowsClear'
      <3>1. v \in Texts /\ Put(s, k, v)
        BY <2>4, ContentsAssumption DEF Set
      <3> QED BY <2>2, <2>3, <3>1, ClearPut
    <2>5. RowsClear'
      BY <1>3, <2>3, <2>4, ClearDelete DEF Others, Changes
    <2> QED BY <2>1, <2>3, <2>5
  <1>4. ASSUME NEW s \in Servers, ServerRestarts(s) PROVE RowsClear' /\ Clear(move'.vars) /\ Clear(move'.left)
    <2>1. move'.vars = move.vars /\ move'.left = move.left
      BY <1>4 DEF ServerRestarts, TypeOK, Transfers
    <2>2. PICK k \in Secrets \cup {Bare} : Restart(s, k)
      BY <1>4 DEF ServerRestarts, Restarts
    <2>3. /\ rows' = rows /\ secret' = [secret EXCEPT ![s] = k]
          /\ bared' = (bared \/ (k = Bare /\ secret[s] # Bare))
      BY <2>2 DEF Restart
    <2>4. ~bared /\ (k = Bare => secret[s] = Bare)
      BY <2>3
    <2>5. RowsClear /\ Clear(move.vars) /\ Clear(move.left)
      BY <2>4 DEF CipherInv
    <2>6. \A r \in Servers : secret'[r] = Bare => secret[r] = Bare
      BY <2>3, <2>4 DEF TypeOK
    <2>7. RowsClear'
      BY <2>3, <2>5, <2>6 DEF RowsClear, Stored
    <2> QED BY <2>1, <2>5, <2>7
  <1>5. CASE Browses /\ UNCHANGED move
    BY <1>2, <1>5, TypeBrowses
  <1> QED BY <1>1, <1>2, <1>3, <1>4, <1>5 DEF TransferNext, Commands, server, data

LEMMA ClearNoCiphertext == CipherInv => NoCiphertext
  BY TextsAssumption DEF CipherInv, RowsClear, NoCiphertext

-----------------------------------------------------------------------------
(* A walk through the pages of an environment that now has the keys D.     *)

\* What stayed and is before the page to come has been shown, or slipped.
WalkOK(w, D) ==
  /\ w.stayed \subseteq D
  /\ \A i \in 1 .. Len(Ordered(D)) :
       i <= (w.page - 1) * PageSize /\ Ordered(D)[i] \in w.stayed => Ordered(D)[i] \in w.seen \cup w.slipped
  /\ w.at = "done" => w.stayed \subseteq w.seen \cup w.slipped

WalkInv == walk.at # "rest" => WalkOK(walk, Stored(walk.of))

\* A new key shifts others to later pages only.
LEMMA WalkGrows ==
  ASSUME NEW w \in Walks, NEW D \in SUBSET Keys, NEW E \in SUBSET Keys, D \subseteq E, WalkOK(w, D)
  PROVE  WalkOK(w, E)
  <1>1. ASSUME NEW i \in 1 .. Len(Ordered(E)), i <= (w.page - 1) * PageSize, Ordered(E)[i] \in w.stayed
        PROVE  Ordered(E)[i] \in w.seen \cup w.slipped
    <2>1. Ordered(E)[i] \in D
      BY <1>1 DEF WalkOK
    <2>2. PICK j \in 1 .. Len(Ordered(D)) : j <= i /\ Ordered(D)[j] = Ordered(E)[i]
      BY <2>1, OrderedGrows
    <2>3. j <= (w.page - 1) * PageSize
      <3>1. w.page - 1 \in Int
        BY DEF Walks
      <3>2. (w.page - 1) * PageSize \in Int
        BY <3>1, Times
      <3> QED BY <1>1, <2>2, <3>2
    <2> QED BY <1>1, <2>2, <2>3 DEF WalkOK
  <1>2. w.stayed \subseteq E /\ (w.at = "done" => w.stayed \subseteq w.seen \cup w.slipped)
    BY DEF WalkOK
  <1> QED BY <1>1, <1>2 DEF WalkOK

\* One that is deleted shifts one at most onto the pages before, which slips.
LEMMA WalkShrinks ==
  ASSUME TypeOK, WalkOK(walk, Stored(walk.of)), NEW k \in Stored(walk.of), NEW w \in Walks,
         w = [walk EXCEPT !.stayed = @ \ {k}, !.slipped = @ \cup Slips(k)]
  PROVE  WalkOK(w, Stored(walk.of) \ {k})
  <1> DEFINE D == Stored(walk.of)
             E == D \ {k}
             o == Order(walk.of)
             p == Passed
  <1>1. /\ walk \in Walks /\ D \in SUBSET Keys /\ o = Ordered(D) /\ DOMAIN o = 1 .. Len(o)
        /\ Len(Ordered(D)) \in Nat /\ Len(Ordered(E)) \in Nat
    <2>1. walk \in Walks /\ walk.of \in Servers
      BY DEF TypeOK, Walks
    <2>2. D \in SUBSET Keys /\ o = Ordered(D) /\ DOMAIN o = 1 .. Len(o)
      BY <2>1, OrderIs
    <2> QED BY <2>1, <2>2, OrderedIs
  <1>2. /\ w.at = walk.at /\ w.page = walk.page /\ w.seen = walk.seen
        /\ w.stayed = walk.stayed \ {k} /\ w.slipped = walk.slipped \cup Slips(k)
    BY <1>1 DEF Walks
  <1>3. p \in Nat /\ p = (w.page - 1) * PageSize /\ p = (walk.page - 1) * PageSize
    BY <1>2, SlipsAre DEF Passed
  <1>4. ASSUME NEW i \in 1 .. Len(Ordered(E)), i <= p, Ordered(E)[i] \in w.stayed
        PROVE  Ordered(E)[i] \in w.seen \cup w.slipped
    <2>1. PICK j \in 1 .. Len(Ordered(D)) :
            /\ Ordered(D)[j] = Ordered(E)[i]
            /\ j = i \/ (j = i + 1 /\ \E h \in 1 .. i : h \in 1 .. Len(Ordered(D)) /\ Ordered(D)[h] = k)
      BY <1>1, OrderedShrinks
    <2>2. Ordered(D)[j] \in walk.stayed
      BY <1>2, <1>4, <2>1
    <2>3. CASE j <= p
      <3>1. Ordered(D)[j] \in walk.seen \cup walk.slipped
        BY <1>3, <2>2, <2>3 DEF WalkOK
      <3> QED BY <1>2, <2>1, <3>1
    <2>4. CASE ~(j <= p)
      <3>1. j = p + 1 /\ \E h \in 1 .. p : o[h] = k
        BY <1>1, <1>3, <1>4, <2>1, <2>4
      <3>2. o[j] \in Slips(k)
        BY <1>1, <3>1 DEF Slips
      <3> QED BY <1>1, <1>2, <2>1, <3>2
    <2> QED BY <2>3, <2>4
  <1>5. w.stayed \subseteq E /\ (w.at = "done" => w.stayed \subseteq w.seen \cup w.slipped)
    BY <1>2 DEF WalkOK
  <1> HIDE DEF p, D
  <1> QED BY <1>3, <1>4, <1>5 DEF WalkOK, D

LEMMA WalkStarted ==
  ASSUME TypeOK, NEW s \in Servers, WalkStarts(s)
  PROVE  WalkInv'
  <1>1. /\ walk' = [NoWalk EXCEPT !.at = "ask", !.of = s, !.stayed = Stored(s)] /\ rows' = rows
    BY DEF WalkStarts, data
  <1>2. walk'.at = "ask" /\ walk'.of = s /\ walk'.stayed = Stored(s) /\ walk'.page = 1
    BY <1>1 DEF NoWalk
  <1>3. Stored(s) = Stored(s)'
    BY <1>1 DEF Stored
  <1>4. (1 - 1) * PageSize = 0
    BY ContentsAssumption
  <1> DEFINE D == Stored(s)'
  <1>5. \A i \in 1 .. Len(Ordered(D)) : ~(i <= 0)
    OBVIOUS
  <1>6. (walk'.page - 1) * PageSize = 0
    BY <1>2, <1>4
  <1> HIDE DEF D
  <1>7. WalkOK(walk', D)
    BY <1>2, <1>3, <1>5, <1>6 DEF WalkOK, D
  <1>8. D = Stored(walk.of)'
    BY <1>2 DEF D, Stored
  <1> QED BY <1>7, <1>8 DEF WalkInv, WalkOK

\* The page that is due has what the walk lacks of the places up to its end.
LEMMA WalkRead ==
  ASSUME TypeOK, WalkInv, ReadPage
  PROVE  WalkInv'
  <1> SUFFICES WalkOK(walk', Stored(walk.of)')
    BY DEF WalkInv, WalkOK
  <1> DEFINE D == Stored(walk.of)
             o == Ordered(D)
             c == Current
             t == TotalPages(walk.total)
  <1>1. /\ walk \in Walks /\ walk.at = "read" /\ walk.of \in Servers /\ walk.page \in Nat \ {0} /\ walk.total \in Nat
    BY DEF TypeOK, Walks, ReadPage
  <1>2. PICK vars \in {Due, {}} : Shows(vars)
    BY DEF ReadPage
  <1>3. /\ walk'.at = (IF c < t THEN "ask" ELSE "done") /\ walk'.page = c + 1 /\ walk'.seen = walk.seen \cup vars
        /\ walk'.slipped = walk.slipped \cup (Due \ vars) \cup (IF c < t THEN {} ELSE Behind(walk.total))
        /\ walk'.of = walk.of /\ walk'.stayed = walk.stayed
    BY <1>1, <1>2 DEF Shows, Walks
  <1>4. /\ Due \subseteq walk'.seen \cup walk'.slipped
        /\ walk.seen \cup walk.slipped \subseteq walk'.seen \cup walk'.slipped
    BY <1>3
  <1>5. D = Stored(walk.of)'
    BY <1>3 DEF ReadPage, data, Stored
  <1>6. WalkOK(walk, D)
    BY <1>1 DEF WalkInv
  <1>7. /\ c \in Nat \ {0} /\ c <= walk.page /\ c <= t
        /\ \A i \in 1 .. Len(o) : (c - 1) * PageSize < i /\ i <= c * PageSize => o[i] \in Due
    <2>1. Order(walk.of) = Ordered(D)
      BY <1>1, OrderIs
    <2> QED BY <2>1, DueIs
  <1>8. /\ Len(o) \in Nat /\ \A k \in D : \E i \in 1 .. Len(o) : o[i] = k
        /\ \A i \in 1 .. Len(o) : walk.total < i => o[i] \in Behind(walk.total)
    <2>1. D \in SUBSET Keys /\ Order(walk.of) = o /\ DOMAIN Order(walk.of) = 1 .. Len(Order(walk.of))
      BY <1>1, OrderIs
    <2> QED BY <1>1, <2>1, OrderedIs DEF Behind
  <1>9. t \in Nat \ {0} /\ walk.total <= t * PageSize
    BY <1>1, PagesAre
  <1> HIDE DEF D, o, c, t
  <1>10. /\ (c - 1) * PageSize \in Int /\ c * PageSize \in Int /\ (walk.page - 1) * PageSize \in Int
         /\ (c - 1) * PageSize <= (walk.page - 1) * PageSize
    <2>1. c - 1 \in Int /\ walk.page - 1 \in Int /\ c - 1 <= walk.page - 1 /\ c \in Int
      BY <1>1, <1>7
    <2> QED BY <2>1, Times
  <1>11. ASSUME NEW i \in 1 .. Len(o), i <= c * PageSize, o[i] \in walk.stayed
         PROVE  o[i] \in walk'.seen \cup walk'.slipped
    <2>1. CASE (c - 1) * PageSize < i
      BY <1>4, <1>7, <1>11, <2>1
    <2>2. CASE ~((c - 1) * PageSize < i)
      <3>1. i <= (walk.page - 1) * PageSize
        BY <1>8, <1>10, <2>2
      <3> QED BY <1>4, <1>6, <1>11, <3>1 DEF WalkOK, o
    <2> QED BY <2>1, <2>2
  <1>12. ASSUME walk'.at = "done", NEW k \in walk.stayed PROVE k \in walk'.seen \cup walk'.slipped
    <2>1. c = t /\ ~(c < t)
      BY <1>3, <1>7, <1>9, <1>12
    <2>2. PICK i \in 1 .. Len(o) : o[i] = k
      BY <1>6, <1>8 DEF WalkOK
    <2>3. CASE i <= walk.total
      <3>1. i <= c * PageSize
        BY <1>1, <1>8, <1>9, <1>10, <2>1, <2>3
      <3> QED BY <1>11, <1>12, <2>2, <3>1
    <2>4. CASE ~(i <= walk.total)
      <3>1. k \in Behind(walk.total)
        BY <1>1, <1>8, <2>2, <2>4
      <3> QED BY <1>3, <2>1, <3>1
    <2> QED BY <2>3, <2>4
  <1>13. walk'.page - 1 = c
    BY <1>3, <1>7
  <1>14. walk.stayed \subseteq D
    BY <1>6 DEF WalkOK
  <1>15. WalkOK(walk', D)
    BY <1>3, <1>11, <1>12, <1>13, <1>14 DEF WalkOK, o
  <1> QED BY <1>5, <1>15

LEMMA WalkNext ==
  ASSUME TypeOK, WalkInv, [TransferNext]_<<config, server, move>>
  PROVE  WalkInv'
  <1>1. walk \in Walks /\ walk.of \in Servers /\ Stored(walk.of) \in SUBSET Keys
    <2>1. walk \in Walks /\ walk.of \in Servers
      BY DEF TypeOK, Walks
    <2> QED BY <2>1, OrderIs
  <1>2. ASSUME walk.at = "rest", walk' = walk PROVE WalkInv'
    BY <1>2 DEF WalkInv
  <1>3. ASSUME walk' = walk, rows' = rows PROVE WalkInv'
    BY <1>3 DEF WalkInv, WalkOK, Stored
  <1>4. CASE walk.at = "rest" /\ Commands
    <2>1. walk' = walk
      <3>1. Moves => walk' = walk
        BY TypeMoves
      <3> QED BY <1>4, <3>1 DEF Commands, server
    <2> QED BY <1>2, <1>4, <2>1
  <1>5. CASE Browses
    <2>1. ASSUME CountVars PROVE WalkInv'
      <3>1. rows' = rows
        BY <2>1 DEF CountVars, data
      <3>2. PICK n : walk' = [walk EXCEPT !.at = "read", !.total = n]
        BY <2>1 DEF CountVars
      <3>3. /\ walk'.at = "read" /\ walk'.of = walk.of /\ walk'.stayed = walk.stayed
            /\ walk'.seen = walk.seen /\ walk'.page = walk.page /\ walk'.slipped = walk.slipped
        BY <1>1, <3>2 DEF Walks
      <3>4. Stored(walk.of)' = Stored(walk.of)
        BY <3>1, <3>3 DEF Stored
      <3>5. walk.at # "rest"
        BY <2>1 DEF CountVars
      <3> QED BY <3>3, <3>4, <3>5 DEF WalkInv, WalkOK
    <2>2. ASSUME WalkEnds PROVE WalkInv'
      <3>1. walk'.at = "rest"
        BY <2>2 DEF WalkEnds, NoWalk
      <3> QED BY <3>1 DEF WalkInv
    <2> QED BY <1>5, <2>1, <2>2, WalkStarted, WalkRead DEF Browses
  <1>6. ASSUME NEW s \in Servers, NEW k \in Keys, NEW v \in Values, Set(s, k, v) PROVE WalkInv'
    <2>1. v \in Texts \cup {Cipher} /\ Put(s, k, v)
      BY <1>6, ContentsAssumption DEF Set
    <2>2. DOMAIN rows'[s] = Stored(s) \cup {k} /\ \A r \in Servers : r # s => rows'[r] = rows[r]
      BY <2>1, Puts
    <2>3. walk' = walk
      BY <1>6 DEF Set
    <2>4. Stored(walk.of) \subseteq DOMAIN rows'[walk.of] /\ DOMAIN rows'[walk.of] \in SUBSET Keys
      BY <1>1, <2>2 DEF Stored
    <2>5. ASSUME walk.at # "rest" PROVE WalkOK(walk, Stored(walk.of)')
      <3> DEFINE E == DOMAIN rows'[walk.of]
      <3>1. WalkOK(walk, Stored(walk.of))
        BY <2>5 DEF WalkInv
      <3>2. E = Stored(walk.of)'
        BY <2>3 DEF Stored
      <3> HIDE DEF E
      <3> QED BY <1>1, <2>4, <3>1, <3>2, WalkGrows DEF E
    <2> QED BY <2>3, <2>5 DEF WalkInv, WalkOK
  <1>7. ASSUME NEW s \in Servers, NEW k \in Keys, Delete(s, k) PROVE WalkInv'
    <2>1. CASE Walking(s)
      <3>1. walk.at # "rest" /\ walk.of = s /\ walk' = [walk EXCEPT !.stayed = @ \ {k}, !.slipped = @ \cup Slips(k)]
        BY <1>7, <2>1 DEF Delete, Walking
      <3>2. WalkOK(walk, Stored(walk.of)) /\ k \in Stored(walk.of)
        BY <1>7, <3>1 DEF WalkInv, Delete
      <3>3. walk' \in Walks
        <4>1. walk.slipped \cup Slips(k) \in SUBSET Keys /\ walk.stayed \ {k} \in SUBSET Keys
          BY <1>1, SlipsAre DEF Walks
        <4> QED BY <1>1, <3>1, <4>1 DEF Walks
      <3>4. Stored(walk.of)' = Stored(walk.of) \ {k}
        <4>1. walk'.of = walk.of
          BY <1>1, <3>1 DEF Walks
        <4>2. DOMAIN rows'[s] = Stored(s) \ {k}
          BY <1>7, Deletes
        <4> QED BY <3>1, <4>1, <4>2 DEF Stored
      <3> DEFINE w == walk'
                 E == Stored(walk.of)'
      <3>5. WalkOK(w, E)
        <4>1. \A x \in Walks : x = [walk EXCEPT !.stayed = @ \ {k}, !.slipped = @ \cup Slips(k)]
                 => WalkOK(x, Stored(walk.of) \ {k})
          BY <3>2, WalkShrinks
        <4> QED BY <3>1, <3>3, <3>4, <4>1
      <3> QED BY <3>5 DEF WalkInv, WalkOK
    <2>2. CASE ~Walking(s)
      <3>1. walk' = walk
        BY <1>7, <2>2 DEF Delete
      <3>2. ASSUME walk.of # s PROVE Stored(walk.of)' = Stored(walk.of)
        <4>1. rows'[walk.of] = rows[walk.of]
          BY <1>1, <1>7, <3>2, Deletes
        <4> QED BY <3>1, <4>1 DEF Stored
      <3>3. walk.at = "rest" \/ walk.of # s
        BY <2>2 DEF Walking
      <3> QED BY <3>1, <3>2, <3>3 DEF WalkInv, WalkOK
    <2> QED BY <2>1, <2>2
  <1>8. ASSUME NEW s \in Servers, ServerRestarts(s) PROVE WalkInv'
    <2>1. rows' = rows /\ walk' = IF Walking(s) /\ walk.at = "read" THEN [walk EXCEPT !.at = "ask"] ELSE walk
      BY <1>8 DEF ServerRestarts, Restarts, Restart
    <2>2. CASE Walking(s) /\ walk.at = "read"
      <3>1. /\ walk'.at = "ask" /\ walk'.of = walk.of /\ walk'.slipped = walk.slipped
            /\ walk'.stayed = walk.stayed /\ walk'.seen = walk.seen /\ walk'.page = walk.page
        BY <1>1, <2>1, <2>2 DEF Walks
      <3>2. Stored(walk.of)' = Stored(walk.of)
        BY <2>1, <3>1 DEF Stored
      <3> QED BY <2>2, <3>1, <3>2 DEF WalkInv, WalkOK, Walking
    <2>3. CASE ~(Walking(s) /\ walk.at = "read")
      BY <1>3, <2>1, <2>3
    <2> QED BY <2>2, <2>3
  <1>9. CASE UNCHANGED <<config, server, move>>
    BY <1>3, <1>9 DEF server, data
  <1>10. CASE \E s \in Servers : Others(s)
    BY <1>6, <1>7, <1>10 DEF Others, Changes
  <1> QED BY <1>4, <1>5, <1>8, <1>9, <1>10 DEF TransferNext

LEMMA WalkInvComplete == WalkInv => WalkComplete
  BY DEF WalkInv, WalkOK, WalkComplete

-----------------------------------------------------------------------------
(* An import under way, of the variables u, into the environment e of a    *)
(* server that runs with the secret k.                                     *)

Once(u)      == \A i, j \in 1 .. Len(u) : u[i].key = u[j].key => i = j
KeysTo(u, n) == {u[i].key : i \in 1 .. n}

\* The lines w are the last ones of u.
LastOf(u, w) == Len(w) <= Len(u) /\ \A i \in 1 .. Len(w) : w[i] = u[Len(u) - Len(w) + i]

\* The first n variables are stored, and sealed anew if the server has not been
\* restarted since.
Brought(u, n, e, steady, k) ==
  \A i \in 1 .. n : /\ u[i].key \in DOMAIN e /\ e[u[i].key].text = u[i].value
                    /\ steady => e[u[i].key].by = k

ImportOK(m, e, k) ==
  LET n == Len(m.vars) - Len(m.left)
  IN /\ LastOf(m.vars, m.left)
     /\ m.at = "done" => Len(m.left) = 0
     /\ m.client.base \notin m.touched =>
          /\ Brought(m.vars, n, e, m.steady, k)
          /\ m.fresh => DOMAIN e \subseteq KeysTo(m.vars, n)
          /\ m.client.base = m.source => DOMAIN e \subseteq KeysTo(m.vars, Len(m.vars))

MoveInv ==
  /\ Once(move.vars)
  /\ move.at = "file" /\ move.source \notin move.touched =>
       Stored(move.source) \subseteq KeysTo(move.vars, Len(move.vars))
  /\ move.at \in {"import", "done"} /\ AllClean => ImportOK(move, rows[Target], secret[Target])

LEMMA LastOfTail ==
  ASSUME NEW u \in Seq(Exported), NEW w \in Seq(Exported), w # <<>>, LastOf(u, w)
  PROVE  /\ Len(u) \in Nat /\ Len(w) \in Nat \ {0} /\ Len(w) <= Len(u)
         /\ Head(w) = u[Len(u) - Len(w) + 1] /\ Len(Tail(w)) = Len(w) - 1
         /\ LastOf(u, Tail(w))
  <1> DEFINE t == Tail(w)
             a == Len(u)
             b == Len(w)
  <1>1. a \in Nat /\ b \in Nat /\ b # 0
    BY LenProperties, EmptySeq
  <1>2. Head(w) = w[1] /\ Len(t) = b - 1 /\ \A i \in 1 .. b - 1 : t[i] = w[i + 1]
    BY <1>1, HeadTailProperties
  <1>3. b <= a /\ \A i \in 1 .. b : w[i] = u[a - b + i]
    BY DEF LastOf
  <1> HIDE DEF t, a, b
  <1>4. Head(w) = u[a - b + 1]
    BY <1>1, <1>2, <1>3
  <1>5. ASSUME NEW i \in 1 .. Len(t) PROVE t[i] = u[a - Len(t) + i]
    <2>1. i \in 1 .. b - 1 /\ i + 1 \in 1 .. b /\ a - b + (i + 1) = a - Len(t) + i
      BY <1>1, <1>2
    <2>2. t[i] = w[i + 1] /\ w[i + 1] = u[a - b + (i + 1)]
      BY <1>2, <1>3, <2>1
    <2> QED BY <2>1, <2>2
  <1>6. LastOf(u, t)
    <2>1. Len(t) <= a
      BY <1>1, <1>2, <1>3
    <2> QED BY <1>5, <2>1 DEF LastOf, a
  <1> QED BY <1>1, <1>2, <1>3, <1>4, <1>6 DEF t, a, b

\* The next variable is stored over whatever the environment holds of its key,
\* which is of none of those before.
LEMMA BroughtNext ==
  ASSUME NEW u \in Seq(Exported), Once(u), NEW n \in Nat, n + 1 <= Len(u), NEW steady \in BOOLEAN, NEW k,
         NEW e, NEW f, DOMAIN f = DOMAIN e \cup {u[n + 1].key}, f[u[n + 1].key] = Sealed(k, u[n + 1].value),
         \A o \in DOMAIN e : o # u[n + 1].key => f[o] = e[o]
  PROVE  /\ Brought(u, n, e, steady, k) => Brought(u, n + 1, f, steady, k)
         /\ DOMAIN e \subseteq KeysTo(u, n) => DOMAIN f \subseteq KeysTo(u, n + 1)
         /\ DOMAIN e \subseteq KeysTo(u, Len(u)) => DOMAIN f \subseteq KeysTo(u, Len(u))
  <1>1. Len(u) \in Nat /\ n + 1 \in 1 .. Len(u)
    BY LenProperties
  <1>2. ASSUME Brought(u, n, e, steady, k), NEW i \in 1 .. n + 1
        PROVE  /\ u[i].key \in DOMAIN f /\ f[u[i].key].text = u[i].value
               /\ steady => f[u[i].key].by = k
    <2>1. CASE i = n + 1
      BY <2>1 DEF Sealed
    <2>2. CASE i # n + 1
      <3>1. i \in 1 .. n /\ i \in 1 .. Len(u)
        BY <1>1, <2>2
      <3>2. u[i].key # u[n + 1].key
        BY <1>1, <2>2, <3>1 DEF Once
      <3>3. u[i].key \in DOMAIN e /\ e[u[i].key].text = u[i].value /\ (steady => e[u[i].key].by = k)
        BY <1>2, <3>1 DEF Brought
      <3>4. f[u[i].key] = e[u[i].key]
        BY <3>2, <3>3
      <3> QED BY <3>3, <3>4
    <2> QED BY <2>1, <2>2
  <1>3. KeysTo(u, n + 1) = KeysTo(u, n) \cup {u[n + 1].key}
    <2>1. 1 .. n + 1 = (1 .. n) \cup {n + 1}
      OBVIOUS
    <2> QED BY <2>1 DEF KeysTo
  <1>4. u[n + 1].key \in KeysTo(u, Len(u))
    BY <1>1 DEF KeysTo
  <1> QED BY <1>2, <1>3, <1>4 DEF Brought

\* The file has each variable of the environment once.
LEMMA MoveExport ==
  ASSUME TypeOK, Export, move'.at # "failed"
  PROVE  /\ Once(move'.vars)
         /\ DOMAIN rows'[move'.source] \subseteq KeysTo(move'.vars, Len(move'.vars))
  <1> DEFINE s == move.client.base
             o == Order(s)
             w == move'.vars
  <1>1. /\ s \in Servers /\ w \in Seq(Exported) /\ Len(w) = Len(o)
        /\ move' = [move EXCEPT !.at = "file", !.vars = w, !.source = s]
        /\ \A i \in 1 .. Len(o) : w[i].key = o[i]
    BY ExportIs
  <1>2. Stored(s) \in SUBSET Keys /\ o = Ordered(Stored(s))
    BY <1>1, OrderIs
  <1>3. /\ \A i, j \in 1 .. Len(o) : o[i] = o[j] => i = j
        /\ \A k \in Stored(s) : \E i \in 1 .. Len(o) : o[i] = k
    <2> DEFINE D == Stored(s)
    <2> HIDE DEF D
    <2>1. /\ \A i, j \in 1 .. Len(Ordered(D)) : Ordered(D)[i] = Ordered(D)[j] => i = j
          /\ \A k \in D : \E i \in 1 .. Len(Ordered(D)) : Ordered(D)[i] = k
      BY <1>2, OrderedIs DEF D
    <2> QED BY <1>2, <2>1 DEF D
  <1>4. move'.source = s /\ rows' = rows
    <2> HIDE DEF w, s
    <2>1. move'.source = s
      BY <1>1 DEF TypeOK, Transfers
    <2> QED BY <2>1 DEF Export, Idle, server, data
  <1> HIDE DEF s, o, w
  <1>5. Once(w)
    BY <1>1, <1>3 DEF Once
  <1>6. Stored(s) \subseteq KeysTo(w, Len(w))
    BY <1>1, <1>3 DEF KeysTo
  <1>7. DOMAIN rows'[move'.source] = Stored(s)
    BY <1>4 DEF Stored
  <1> QED BY <1>5, <1>6, <1>7 DEF w

\* MoveInv' part by part.
LEMMA MoveIs ==
  ASSUME Once(move'.vars),
         move'.at = "file" /\ move'.source \notin move'.touched =>
           DOMAIN rows'[move'.source] \subseteq KeysTo(move'.vars, Len(move'.vars)),
         move'.at \in {"import", "done"} /\ (\A v \in ToSet(move'.vars) : Clean(v)) =>
           ImportOK(move', rows'[move'.client.base], secret'[move'.client.base])
  PROVE  MoveInv'
  BY DEF MoveInv, AllClean, Vars, Target, Stored

LEMMA MoveInit == TransferInit => MoveInv
  <1> SUFFICES ASSUME TransferInit PROVE MoveInv
    OBVIOUS
  <1>1. move.vars = <<>> /\ move.at = "rest"
    BY DEF TransferInit, Unmoved
  <1>2. Len(<<>>) = 0 /\ 1 .. 0 = {}
    OBVIOUS
  <1>3. Once(<<>>)
    BY <1>2 DEF Once
  <1> QED BY <1>1, <1>3 DEF MoveInv

\* An import reads what was exported, if all of it is clean.
LEMMA MoveBegins ==
  ASSUME TypeOK, MoveInv, NEW s \in Servers, move.at = "file", Idle,
         move'.at = "import", move'.left = Parse(Format(move.vars)), move'.vars = move.vars,
         move'.fresh = (Stored(s) = {}), move'.steady = TRUE, move'.client.base = s,
         move'.source = move.source, move'.touched = move.touched
  PROVE  MoveInv'
  <1> DEFINE u == move.vars
             w == move'.left
             n == Len(u) - Len(w)
  <1>1. u \in Seq(Exported) /\ Once(u)
    BY DEF TypeOK, Transfers, MoveInv
  <1>2. rows' = rows /\ secret' = secret
    BY DEF Idle, server, data
  <1>3. ASSUME \A v \in ToSet(u) : Clean(v) PROVE ImportOK(move', rows[s], secret[s])
    <2>1. w = u
      BY <1>1, <1>3, ExportsAre
    <2>2. Len(u) \in Nat
      BY <1>1, LenProperties
    <2> HIDE DEF u, w
    <2>3. LastOf(u, w)
      BY <2>1, <2>2 DEF LastOf
    <2>4. n = 0
      BY <2>1, <2>2
    <2>5. Brought(u, n, rows[s], move'.steady, secret[s])
      BY <2>4 DEF Brought
    <2>6. ASSUME move'.fresh PROVE DOMAIN rows[s] \subseteq KeysTo(u, n)
      BY <2>6 DEF Stored
    <2>7. ASSUME s = move.source, s \notin move.touched PROVE DOMAIN rows[s] \subseteq KeysTo(u, Len(u))
      BY <2>7 DEF MoveInv, Stored, u
    <2>8. move'.vars = u /\ move'.left = w
      BY DEF u, w
    <2> QED BY <2>3, <2>5, <2>6, <2>7, <2>8 DEF ImportOK
  <1> HIDE DEF u, w, n
  <1>4. move'.vars = u
    BY DEF u
  <1> QED BY <1>1, <1>2, <1>3, <1>4, MoveIs

\* A line is stored, or the import fails.
LEMMA MoveLine ==
  ASSUME TypeOK, MoveInv, Line
  PROVE  MoveInv'
  <1> DEFINE u == move.vars
             w == move.left
             n == Len(u) - Len(w)
             s == Target
  <1>1. /\ move \in Transfers /\ u \in Seq(Exported) /\ w \in Seq(Exported) /\ s \in Servers
        /\ Once(u) /\ move.steady \in BOOLEAN
    BY DEF TypeOK, Transfers, MoveInv, Target
  <1>2. w # <<>> /\ move.at = "import" /\ secret' = secret
    BY DEF Line
  <1>3. CASE ~Accepts(move.client)
    <2>1. move' = [move EXCEPT !.at = "failed"]
      BY <1>3 DEF Line
    <2>2. move'.at = "failed" /\ move'.vars = u
      BY <1>1, <2>1 DEF Transfers
    <2> HIDE DEF u
    <2> QED BY <1>1, <2>2, MoveIs
  <1>4. CASE Accepts(move.client)
    <2>1. Put(s, Head(w).key, Head(w).value) /\ move' = [move EXCEPT !.left = Tail(@)]
      BY <1>4 DEF Line
    <2>2. /\ move'.at = "import" /\ move'.vars = u /\ move'.left = Tail(w) /\ move'.client = move.client
          /\ move'.source = move.source /\ move'.touched = move.touched /\ move'.fresh = move.fresh
          /\ move'.steady = move.steady
      BY <1>1, <1>2, <2>1 DEF Transfers
    <2>3. Head(w).key \in Keys /\ Head(w).value \in Texts \cup {Cipher}
      BY <1>2, LeftIs
    <2> DEFINE e == rows[s]
               f == rows'[s]
               k == secret[s]
    <2>4. /\ DOMAIN f = DOMAIN e \cup {Head(w).key} /\ f[Head(w).key] = Sealed(k, Head(w).value)
          /\ \A o \in DOMAIN e : o # Head(w).key => f[o] = e[o]
      BY <1>1, <2>1, <2>3, Puts DEF Stored
    <2>5. ASSUME \A v \in ToSet(u) : Clean(v) PROVE ImportOK(move', f, k)
      <3>1. ImportOK(move, e, k)
        BY <1>2, <2>5 DEF MoveInv, AllClean, Vars
      <3>2. /\ LastOf(u, w)
            /\ s \notin move.touched =>
                 /\ Brought(u, n, e, move.steady, k)
                 /\ move.fresh => DOMAIN e \subseteq KeysTo(u, n)
                 /\ s = move.source => DOMAIN e \subseteq KeysTo(u, Len(u))
        BY <3>1 DEF ImportOK, Target
      <3> HIDE DEF u, w, e, f, k
      <3>3. /\ Len(u) \in Nat /\ Len(w) \in Nat \ {0} /\ Len(w) <= Len(u)
            /\ Head(w) = u[n + 1] /\ Len(Tail(w)) = Len(w) - 1 /\ LastOf(u, Tail(w))
        BY <1>1, <1>2, <3>2, LastOfTail
      <3>4. n \in Nat /\ n + 1 <= Len(u) /\ Len(u) - Len(Tail(w)) = n + 1
        BY <3>3
      <3> HIDE DEF n
      <3>5. /\ DOMAIN f = DOMAIN e \cup {u[n + 1].key} /\ f[u[n + 1].key] = Sealed(k, u[n + 1].value)
            /\ \A o \in DOMAIN e : o # u[n + 1].key => f[o] = e[o]
        BY <2>4, <3>3
      <3>6. /\ Brought(u, n, e, move.steady, k) => Brought(u, n + 1, f, move.steady, k)
            /\ DOMAIN e \subseteq KeysTo(u, n) => DOMAIN f \subseteq KeysTo(u, n + 1)
            /\ DOMAIN e \subseteq KeysTo(u, Len(u)) => DOMAIN f \subseteq KeysTo(u, Len(u))
        BY <1>1, <3>4, <3>5, BroughtNext
      <3>7. move'.client.base = s
        BY <2>2 DEF Target
      <3> HIDE DEF s
      <3>8. s \notin move.touched =>
              /\ Brought(u, n + 1, f, move.steady, k)
              /\ move.fresh => DOMAIN f \subseteq KeysTo(u, n + 1)
              /\ s = move.source => DOMAIN f \subseteq KeysTo(u, Len(u))
        BY <3>2, <3>6 DEF s
      <3> QED BY <2>2, <3>3, <3>4, <3>7, <3>8 DEF ImportOK
    <2>6. move'.client.base = s /\ secret'[s] = k
      BY <1>2, <2>2 DEF Target
    <2> HIDE DEF u, w, f, k, s
    <2> QED BY <1>1, <2>2, <2>5, <2>6, MoveIs DEF f
  <1> QED BY <1>3, <1>4

LEMMA MoveLineFails ==
  ASSUME TypeOK, MoveInv, LineFails
  PROVE  MoveInv'
  <1> DEFINE u == move.vars
             w == move.left
  <1>1. move \in Transfers /\ u \in Seq(Exported) /\ w \in Seq(Exported) /\ Once(u)
    BY DEF TypeOK, Transfers, MoveInv
  <1>2. /\ w # <<>> /\ move.at = "import"
        /\ \/ move' = [move EXCEPT !.at = "failed"]
           \/ move' = [move EXCEPT !.left = Tail(@), !.touched = @ \cup {Target}]
    BY DEF LineFails
  <1>3. CASE move' = [move EXCEPT !.at = "failed"]
    <2>1. move'.at = "failed" /\ move'.vars = u
      BY <1>1, <1>3 DEF Transfers
    <2> HIDE DEF u
    <2> QED BY <1>1, <2>1, MoveIs
  <1>4. CASE move' = [move EXCEPT !.left = Tail(@), !.touched = @ \cup {Target}]
    <2>1. /\ move'.at = "import" /\ move'.vars = u /\ move'.left = Tail(w) /\ move'.client = move.client
          /\ move'.touched = move.touched \cup {Target}
      BY <1>1, <1>2, <1>4 DEF Transfers
    <2>2. ASSUME \A v \in ToSet(u) : Clean(v), NEW f, NEW k PROVE ImportOK(move', f, k)
      <3>1. ImportOK(move, rows[Target], secret[Target])
        BY <1>2, <2>2 DEF MoveInv, AllClean, Vars
      <3>2. LastOf(u, w)
        BY <3>1 DEF ImportOK
      <3> HIDE DEF u, w
      <3>3. LastOf(u, Tail(w))
        BY <1>1, <1>2, <3>2, LastOfTail
      <3>4. move'.client.base \in move'.touched
        BY <2>1 DEF Target
      <3> QED BY <2>1, <3>3, <3>4 DEF ImportOK
    <2> HIDE DEF u, w
    <2> QED BY <1>1, <2>1, <2>2, MoveIs
  <1> QED BY <1>2, <1>3, <1>4

LEMMA MoveMoves ==
  ASSUME TypeOK, MoveInv, Moves
  PROVE  MoveInv'
  <1>1. move \in Transfers /\ Once(move.vars)
    BY DEF TypeOK, MoveInv
  <1>2. Idle => rows' = rows /\ secret' = secret
    BY DEF Idle, server, data
  <1>3. CASE ExportStarts
    <2>1. move'.at = "list" /\ move'.vars = move.vars
      BY <1>1, <1>3 DEF ExportStarts, Starts, Transfers
    <2> QED BY <1>1, <2>1, MoveIs
  <1>4. CASE Export
    <2>1. CASE move'.at # "failed"
      <3>1. /\ Once(move'.vars)
            /\ DOMAIN rows'[move'.source] \subseteq KeysTo(move'.vars, Len(move'.vars))
        BY <1>4, <2>1, MoveExport
      <3>2. move'.at = "file"
        BY <1>1, <1>4, <2>1 DEF Export, Transfers
      <3> QED BY <3>1, <3>2, MoveIs
    <2>2. CASE move'.at = "failed"
      <3>1. \A x, y : [move EXCEPT !.at = "file", !.vars = x, !.source = y].at = "file"
        BY <1>1 DEF Transfers
      <3>2. \/ \E x, y : move' = [move EXCEPT !.at = "file", !.vars = x, !.source = y]
            \/ move' = [move EXCEPT !.at = "failed"]
        BY <1>4, Zenon DEF Export
      <3>3. move' = [move EXCEPT !.at = "failed"]
        BY <2>2, <3>1, <3>2
      <3>4. move'.vars = move.vars
        BY <1>1, <3>3 DEF Transfers
      <3> QED BY <1>1, <2>2, <3>4, MoveIs
    <2> QED BY <2>1, <2>2
  <1>5. CASE ImportStarts
    <2>1. Client.base \in Servers /\ Client \in [base : Servers, key : Field]
      BY <1>5, ClientIs DEF ImportStarts, TypeOK
    <2>2. /\ move.at = "file" /\ Idle /\ move'.at = "import" /\ move'.left = Parse(Format(move.vars))
          /\ move'.vars = move.vars /\ move'.fresh = (Stored(Client.base) = {}) /\ move'.steady = TRUE
          /\ move'.client.base = Client.base /\ move'.source = move.source /\ move'.touched = move.touched
      BY <1>1, <1>5 DEF ImportStarts, Imports, Transfers
    <2> QED BY <2>1, <2>2, MoveBegins
  <1>6. ASSUME NEW s \in Servers, Upload(s) PROVE MoveInv'
    <2>1. /\ move.at = "file" /\ Idle /\ move'.at = "import" /\ move'.left = Parse(Format(move.vars))
          /\ move'.vars = move.vars /\ move'.fresh = (Stored(s) = {}) /\ move'.steady = TRUE
          /\ move'.client.base = s /\ move'.source = move.source /\ move'.touched = move.touched
      BY <1>1, <1>6 DEF Upload, Imports, Transfers
    <2> QED BY <2>1, MoveBegins
  <1>7. CASE ImportEnds
    <2>1. /\ move.at = "import" /\ move.left = <<>> /\ move'.at = "done" /\ move'.left = move.left
          /\ move'.vars = move.vars /\ move'.client = move.client /\ move'.source = move.source
          /\ move'.touched = move.touched /\ move'.fresh = move.fresh /\ move'.steady = move.steady
      BY <1>1, <1>7 DEF ImportEnds, Transfers
    <2>2. ASSUME \A v \in ToSet(move.vars) : Clean(v)
          PROVE  ImportOK(move', rows[Target], secret[Target])
      <3>1. ImportOK(move, rows[Target], secret[Target])
        BY <2>1, <2>2 DEF MoveInv, AllClean, Vars
      <3>2. Len(move.left) = 0
        BY <2>1
      <3> QED BY <2>1, <3>1, <3>2 DEF ImportOK
    <2>3. rows'[move'.client.base] = rows[Target] /\ secret'[move'.client.base] = secret[Target]
      BY <1>2, <1>7, <2>1 DEF ImportEnds, Target
    <2> QED BY <1>1, <2>1, <2>2, <2>3, MoveIs
  <1>8. CASE MoveEnds
    <2>1. move'.vars = <<>> /\ move'.at = "rest"
      BY <1>8 DEF MoveEnds, Unmoved
    <2>2. Once(<<>>)
      <3>1. Len(<<>>) = 0 /\ 1 .. 0 = {}
        OBVIOUS
      <3> QED BY <3>1 DEF Once
    <2> QED BY <2>1, <2>2, MoveIs
  <1> QED BY <1>3, <1>4, <1>5, <1>6, <1>7, <1>8, MoveLine, MoveLineFails DEF Moves

\* What others do to a server is to one that the move has to give up, or
\* to none of those it is about.
LEMMA MoveOthers ==
  ASSUME TypeOK, MoveInv, NEW s \in Servers, Others(s)
  PROVE  MoveInv'
  <1> DEFINE t == IF move.at \in {"rest", "list"} THEN {} ELSE move.touched \cup {s}
             r == Target
  <1>1. move \in Transfers /\ Once(move.vars) /\ r \in Servers /\ move.source \in Servers
    BY DEF TypeOK, Transfers, MoveInv, Target
  <1>2. secret' = secret /\ \A o \in Servers : o # s => rows'[o] = rows[o]
    <2>1. ASSUME NEW k \in Keys, NEW v \in Values, Set(s, k, v)
          PROVE  secret' = secret /\ \A o \in Servers : o # s => rows'[o] = rows[o]
      <3>1. v \in Texts \cup {Cipher} /\ Put(s, k, v) /\ secret' = secret
        BY <2>1, ContentsAssumption DEF Set
      <3> QED BY <3>1, Puts
    <2>2. ASSUME NEW k \in Keys, Delete(s, k)
          PROVE  secret' = secret /\ \A o \in Servers : o # s => rows'[o] = rows[o]
      BY <2>2, Deletes DEF Delete
    <2> QED BY <2>1, <2>2 DEF Others, Changes
  <1>3. move' = [move EXCEPT !.touched = t]
    BY DEF Others
  <1>4. /\ move'.at = move.at /\ move'.left = move.left /\ move'.touched = t
        /\ move'.vars = move.vars /\ move'.client = move.client /\ move'.source = move.source
        /\ move'.fresh = move.fresh /\ move'.steady = move.steady
    <2> HIDE DEF t
    <2> QED BY <1>1, <1>3 DEF Transfers
  <1>5. move'.client.base = r
    BY <1>4 DEF Target
  <1>6. ASSUME move'.at = "file", move'.source \notin move'.touched
        PROVE  DOMAIN rows'[move'.source] \subseteq KeysTo(move'.vars, Len(move'.vars))
    <2>1. move.source # s /\ move.source \notin move.touched
      BY <1>4, <1>6
    <2>2. rows'[move.source] = rows[move.source]
      BY <1>1, <1>2, <2>1
    <2> QED BY <1>4, <1>6, <2>1, <2>2 DEF MoveInv, Stored
  <1>7. ASSUME move'.at \in {"import", "done"}, \A v \in ToSet(move'.vars) : Clean(v)
        PROVE  ImportOK(move', rows'[r], secret'[r])
    <2>1. ImportOK(move, rows[r], secret[r])
      BY <1>4, <1>7 DEF MoveInv, AllClean, Vars
    <2>2. r \notin t => r \notin move.touched /\ rows'[r] = rows[r]
      BY <1>1, <1>2, <1>4, <1>7
    <2>3. move.client.base = r
      BY DEF Target
    <2> HIDE DEF t, r
    <2> QED BY <1>2, <1>4, <1>5, <2>1, <2>2, <2>3 DEF ImportOK
  <1> HIDE DEF t, r
  <1>8. Once(move'.vars)
    BY <1>1, <1>4
  <1> QED BY <1>5, <1>6, <1>7, <1>8, MoveIs

LEMMA MoveRestarts ==
  ASSUME TypeOK, MoveInv, NEW s \in Servers, ServerRestarts(s)
  PROVE  MoveInv'
  <1> DEFINE r == Target
             at == IF move.at = "import" /\ move.via = "dashboard" /\ s = r THEN "failed" ELSE move.at
             st == move.steady /\ s # r
  <1>1. move \in Transfers /\ Once(move.vars) /\ move.steady \in BOOLEAN
    BY DEF TypeOK, Transfers, MoveInv
  <1>2. PICK k \in Secrets \cup {Bare} : Restart(s, k)
    BY DEF ServerRestarts, Restarts
  <1>3. rows' = rows /\ \A o \in Servers : o # s => secret'[o] = secret[o]
    BY <1>2 DEF Restart, TypeOK
  <1>4. move' = [move EXCEPT !.at = at, !.steady = st]
    BY DEF ServerRestarts
  <1>5. /\ move'.at = at /\ move'.left = move.left /\ move'.touched = move.touched
        /\ move'.vars = move.vars /\ move'.client = move.client /\ move'.source = move.source
        /\ move'.fresh = move.fresh /\ move'.steady = st
    <2> HIDE DEF at, st
    <2> QED BY <1>1, <1>4 DEF Transfers
  <1>6. move'.client.base = r /\ move.client.base = r /\ r \in Servers
    BY <1>1, <1>5 DEF Target, Transfers
  <1>7. at = move.at \/ at = "failed"
    OBVIOUS
  <1>8. ASSUME move'.at = "file", move'.source \notin move'.touched
        PROVE  DOMAIN rows'[move'.source] \subseteq KeysTo(move'.vars, Len(move'.vars))
    BY <1>3, <1>5, <1>7, <1>8 DEF MoveInv, Stored
  <1>9. ASSUME move'.at \in {"import", "done"}, \A v \in ToSet(move'.vars) : Clean(v)
        PROVE  ImportOK(move', rows'[r], secret'[r])
    <2>1. at = move.at
      BY <1>5, <1>7, <1>9
    <2> HIDE DEF at
    <2>2. ImportOK(move, rows[r], secret[r])
      BY <1>5, <1>9, <2>1 DEF MoveInv, AllClean, Vars
    <2>3. st \in BOOLEAN /\ (st => move.steady /\ secret'[r] = secret[r])
      BY <1>1, <1>3, <1>6
    <2> DEFINE u == move.vars
               n == Len(move.vars) - Len(move.left)
               e == rows[r]
    <2> HIDE DEF st, r
    <2>4. Brought(u, n, e, move.steady, secret[r]) => Brought(u, n, e, st, secret'[r])
      BY <2>3 DEF Brought
    <2>5. /\ LastOf(u, move.left) /\ (move.at = "done" => Len(move.left) = 0)
          /\ r \notin move.touched =>
               /\ Brought(u, n, e, move.steady, secret[r])
               /\ move.fresh => DOMAIN e \subseteq KeysTo(u, n)
               /\ r = move.source => DOMAIN e \subseteq KeysTo(u, Len(u))
      BY <1>6, <2>2 DEF ImportOK
    <2> HIDE DEF u, n, e
    <2>6. move'.vars = u /\ Len(move'.vars) - Len(move'.left) = n /\ rows'[r] = e
      BY <1>3, <1>5 DEF u, n, e
    <2> QED BY <1>5, <1>6, <2>1, <2>4, <2>5, <2>6 DEF ImportOK
  <1> HIDE DEF at, st, r
  <1>10. Once(move'.vars)
    BY <1>1, <1>5
  <1> QED BY <1>6, <1>8, <1>9, <1>10, MoveIs

LEMMA MoveNext ==
  ASSUME TypeOK, MoveInv, [TransferNext]_<<config, server, move>>
  PROVE  MoveInv'
  <1>1. ASSUME UNCHANGED <<data, move>> PROVE MoveInv'
    BY <1>1 DEF MoveInv, AllClean, Vars, Target, Stored, data
  <1>2. CASE Moves
    BY <1>2, MoveMoves
  <1>3. CASE \E s \in Servers : Others(s) \/ ServerRestarts(s)
    BY <1>3, MoveOthers, MoveRestarts
  <1>4. CASE Browses /\ UNCHANGED move
    BY <1>1, <1>4, TypeBrowses
  <1> QED BY <1>1, <1>2, <1>3, <1>4 DEF TransferNext, Commands, server

\* A complete import has stored every variable.
LEMMA MoveComplete ==
  ASSUME TypeOK, MoveInv, Complete, AllClean
  PROVE  /\ \A v \in Vars : Holds(v) /\ (move.steady => rows[Target][v.key].by = secret[Target])
         /\ move.fresh => Stored(Target) \subseteq {v.key : v \in Vars}
         /\ Target = move.source => Stored(Target) \subseteq {v.key : v \in Vars}
  <1> DEFINE u == move.vars
             e == rows[Target]
             k == secret[Target]
  <1>1. u \in Seq(Exported) /\ move.client.base = Target /\ move.at = "done" /\ Target \notin move.touched
    BY DEF TypeOK, Transfers, Target, Complete
  <1>2. ImportOK(move, e, k)
    BY <1>1 DEF MoveInv
  <1> HIDE DEF u
  <1>3. Len(u) \in Nat /\ DOMAIN u = 1 .. Len(u)
    BY <1>1, LenProperties
  <1>4. KeysTo(u, Len(u)) = {v.key : v \in Vars}
    <2>1. Vars = {u[i] : i \in 1 .. Len(u)}
      BY <1>3 DEF Vars, ToSet, u
    <2> QED BY <2>1 DEF KeysTo
  <1>5. /\ Brought(u, Len(u), e, move.steady, k)
        /\ move.fresh => DOMAIN e \subseteq KeysTo(u, Len(u))
        /\ Target = move.source => DOMAIN e \subseteq KeysTo(u, Len(u))
    <2>1. Len(move.left) = 0
      <3> HIDE DEF e, k
      <3> QED BY <1>1, <1>2 DEF ImportOK
    <2>2. Len(u) - Len(move.left) = Len(u)
      BY <1>3, <2>1
    <2>3. /\ Brought(u, Len(u) - Len(move.left), e, move.steady, k)
          /\ move.fresh => DOMAIN e \subseteq KeysTo(u, Len(u) - Len(move.left))
          /\ Target = move.source => DOMAIN e \subseteq KeysTo(u, Len(u))
      <3> HIDE DEF e, k
      <3> QED BY <1>1, <1>2 DEF ImportOK, u
    <2> HIDE DEF e, k
    <2> QED BY <2>2, <2>3
  <1>6. ASSUME NEW v \in Vars PROVE Holds(v) /\ (move.steady => rows[Target][v.key].by = secret[Target])
    <2>1. PICK i \in 1 .. Len(u) : v = u[i]
      BY <1>3 DEF Vars, ToSet, u
    <2> QED BY <1>5, <2>1 DEF Brought, Holds, Stored
  <1> QED BY <1>4, <1>5, <1>6 DEF Stored

LEMMA MoveRoundTrip == TypeOK /\ MoveInv => RoundTrip
  <1> SUFFICES ASSUME TypeOK, MoveInv, Complete, move.fresh, AllClean
               PROVE  (\A v \in Vars : Holds(v)) /\ Stored(Target) = {v.key : v \in Vars}
    BY DEF RoundTrip
  <1>1. (\A v \in Vars : Holds(v)) /\ Stored(Target) \subseteq {v.key : v \in Vars}
    BY MoveComplete
  <1> QED BY <1>1 DEF Holds

LEMMA MoveRotation == TypeOK /\ MoveInv => RotationWindow
  <1> SUFFICES ASSUME TypeOK, MoveInv, Complete, move.steady, Target = move.source, AllClean
               PROVE  /\ \A v \in Vars : Holds(v)
                      /\ \A k \in Stored(Target) : Opens(secret[Target], rows[Target][k])
    BY DEF RotationWindow
  <1>1. /\ \A v \in Vars : Holds(v) /\ rows[Target][v.key].by = secret[Target]
        /\ Stored(Target) \subseteq {v.key : v \in Vars}
    BY MoveComplete
  <1> QED BY <1>1 DEF Opens

-----------------------------------------------------------------------------
(* The theorems.                                                           *)

\* Servers, walks, files and imports have the values they should: what exports
\* and imports make of keys and texts is keys and texts again, or sealed bytes
\* (vars.go:262-334, server.go:730-766, sqlite.go:818-961).
THEOREM TypeCorrect == TransferSpec => []TypeOK
  <1>1. TransferInit => TypeOK /\ KeyInv
    BY TypeInit
  <1>2. (TypeOK /\ KeyInv) /\ [TransferNext]_<<config, server, move>> => (TypeOK /\ KeyInv)'
    BY TypeNext
  <1> QED BY <1>1, <1>2, PTL DEF TransferSpec

\* However logins are interleaved, and wherever they end, the file has the key
\* given last unless logins have overlapped or one ended between the truncation
\* and the write (login.go:20-31, config.go:61-79).
THEOREM KeyKeptCorrect == TransferSpec => []KeyKept
  <1>1. TransferInit => TypeOK /\ KeyInv
    BY TypeInit
  <1>2. (TypeOK /\ KeyInv) /\ [TransferNext]_<<config, server, move>> => (TypeOK /\ KeyInv)'
    BY TypeNext
  <1>3. KeyInv => KeyKept
    BY KeyInvKeyKept
  <1> QED BY <1>1, <1>2, <1>3, PTL DEF TransferSpec

\* Whatever secrets servers are restarted with and whatever is exported and
\* imported, no value is stored that is the sealed form of another, until a
\* server loses the secret it had (sqlite.go:818-875, 936-961).
THEOREM NoCiphertextCorrect == TransferSpec => []NoCiphertext
  <1> DEFINE Inv == TypeOK /\ KeyInv /\ CipherInv
  <1>1. TransferInit => Inv
    BY TypeInit, ClearInit
  <1>2. Inv /\ [TransferNext]_<<config, server, move>> => Inv'
    BY TypeNext, ClearNext
  <1>3. Inv => NoCiphertext
    BY ClearNoCiphertext
  <1> QED BY <1>1, <1>2, <1>3, PTL DEF TransferSpec

\* Whatever is written, deleted and restarted between the pages, a browser that
\* follows Next to the end misses of the variables that existed throughout only
\* those that slipped: one for each deletion on a page already shown, those
\* behind the number that the last page's count found, and the pages that failed
\* or hold a value that does not open.  For environments and pages of any size
\* (server.go:583-641, sqlite.go:701-743).
THEOREM WalkCompleteCorrect == TransferSpec => []WalkComplete
  <1> DEFINE Inv == TypeOK /\ KeyInv /\ WalkInv
  <1>1. TransferInit => Inv
    <2>1. TransferInit => walk.at = "rest"
      BY DEF TransferInit, ContentsInit, NoWalk
    <2> QED BY <2>1, TypeInit DEF WalkInv
  <1>2. Inv /\ [TransferNext]_<<config, server, move>> => Inv'
    BY TypeNext, WalkNext
  <1>3. Inv => WalkComplete
    BY WalkInvComplete
  <1> QED BY <1>1, <1>2, <1>3, PTL DEF TransferSpec

\* An import that has stored every line into an environment that was empty and
\* that others left alone has brought exactly the variables of the export, for
\* texts of any length that the format can hold (vars.go:262-334, README.md:88).
THEOREM RoundTripCorrect == TransferSpec => []RoundTrip
  <1> DEFINE Inv == TypeOK /\ KeyInv /\ MoveInv
  <1>1. TransferInit => Inv
    BY TypeInit, MoveInit
  <1>2. Inv /\ [TransferNext]_<<config, server, move>> => Inv'
    BY TypeNext, MoveNext
  <1>3. Inv => RoundTrip
    BY MoveRoundTrip
  <1> QED BY <1>1, <1>2, <1>3, PTL DEF TransferSpec

\* After an export, a restart with another secret and an import into the same
\* environment every variable opens and is what it was (USER_GUIDE.md:350-353,
\* sqlite.go:818-875, 936-961).
THEOREM RotationWindowCorrect == TransferSpec => []RotationWindow
  <1> DEFINE Inv == TypeOK /\ KeyInv /\ MoveInv
  <1>1. TransferInit => Inv
    BY TypeInit, MoveInit
  <1>2. Inv /\ [TransferNext]_<<config, server, move>> => Inv'
    BY TypeNext, MoveNext
  <1>3. Inv => RotationWindow
    BY MoveRotation
  <1> QED BY <1>1, <1>2, <1>3, PTL DEF TransferSpec
=============================================================================
