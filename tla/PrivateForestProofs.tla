-------------------------- MODULE PrivateForestProofs --------------------------
(* Proofs about `PrivateForest`: for any finite or infinite set of labels   *)
(* and CIDs, any number of devices and any bucket size, the HAMT is laid    *)
(* out in the one way its map determines, so that puts, removals, stores,   *)
(* loads and merges do to it what they do to the map.                       *)
EXTENDS PrivateForest, SharedFacts

--------------------------------------------------------------------------------
(* Digests and their prefixes.                                             *)
LEMMA UptoOf ==
  ASSUME NEW k \in Seq(Nat), NEW d \in 0 .. Len(k)
  PROVE  /\ Upto(k, d) \in Seq(Nat) /\ Len(Upto(k, d)) = d
         /\ \A i \in 1 .. d : Upto(k, d)[i] = k[i]
<1>1. Len(k) \in Nat
  BY LenProperties
<1>2. \A i \in 1 .. d : k[i] \in Nat
  BY <1>1, ElementOfSeq
<1>3. 1 \in Int /\ d \in Int
  BY <1>1
<1>4. /\ SubSeq(k, 1, d) \in Seq(Nat)
      /\ Len(SubSeq(k, 1, d)) = IF 1 <= d THEN d - 1 + 1 ELSE 0
      /\ \A i \in 1 .. d - 1 + 1 : SubSeq(k, 1, d)[i] = k[1 + i - 1]
  BY <1>2, <1>3, SubSeqProperties
<1>. QED  BY <1>1, <1>4 DEF Upto

LEMMA PrefixIsUpto ==
  ASSUME NEW k \in Seq(Nat), NEW p \in Seq(Nat)
  PROVE  IsPrefix(p, k) <=> Len(p) <= Len(k) /\ p = Upto(k, Len(p))
<1>1. Len(k) \in Nat /\ Len(p) \in Nat
  BY LenProperties
<1>2. IsPrefix(p, k) <=>
        Len(p) <= Len(k) /\ \A i \in 1 .. Len(p) : p[i] = k[i]
  BY PrefixOf
<1>3. ASSUME Len(p) <= Len(k)
      PROVE  p = Upto(k, Len(p)) <=> \A i \in 1 .. Len(p) : p[i] = k[i]
  <2> DEFINE u == Upto(k, Len(p))
  <2>1. Len(p) \in 0 .. Len(k)
    BY <1>1, <1>3
  <2>2. u \in Seq(Nat) /\ Len(u) = Len(p) /\ \A i \in 1 .. Len(p) : u[i] = k[i]
    BY <2>1, UptoOf
  <2> HIDE DEF u
  <2>3. ASSUME \A i \in 1 .. Len(p) : p[i] = k[i] PROVE p = u
    BY <2>2, <2>3, SeqEqual
  <2>. QED  BY <2>2, <2>3 DEF u
<1>. QED  BY <1>2, <1>3

(* The prefixes of a digest are a line.                                    *)
LEMMA UptoSteps ==
  ASSUME NEW k \in Seq(Nat), NEW d \in 0 .. Len(k), NEW e \in 0 .. Len(k)
  PROVE  /\ IsPrefix(Upto(k, d), k)
         /\ Upto(k, 0) = <<>> /\ Upto(k, Len(k)) = k
         /\ IsPrefix(Upto(k, d), Upto(k, e)) <=> d <= e
         /\ d > 0 => Front(Upto(k, d)) = Upto(k, d - 1)
         /\ Upto(k, d) = Upto(k, e) => d = e
<1>1. Len(k) \in Nat
  BY LenProperties
<1>2. /\ Upto(k, d) \in Seq(Nat) /\ Len(Upto(k, d)) = d
      /\ \A i \in 1 .. d : Upto(k, d)[i] = k[i]
  BY UptoOf
<1>3. /\ Upto(k, e) \in Seq(Nat) /\ Len(Upto(k, e)) = e
      /\ \A i \in 1 .. e : Upto(k, e)[i] = k[i]
  BY UptoOf
<1>4. IsPrefix(Upto(k, d), k)
  BY <1>1, <1>2, PrefixOf
<1>5. Upto(k, 0) = <<>>
  <2>1. 0 \in 0 .. Len(k)
    BY <1>1
  <2>2. Upto(k, 0) \in Seq(Nat) /\ Len(Upto(k, 0)) = 0
    BY <2>1, UptoOf
  <2>. QED  BY <2>2, EmptySeq
<1>6. Upto(k, Len(k)) = k
  BY SubSeqFull DEF Upto
<1>7. IsPrefix(Upto(k, d), Upto(k, e)) <=> d <= e
  <2>1. IsPrefix(Upto(k, d), Upto(k, e)) <=>
          d <= e /\ \A i \in 1 .. d : Upto(k, d)[i] = Upto(k, e)[i]
    <3> DEFINE u == Upto(k, d)
               v == Upto(k, e)
    <3>1. /\ u \in Seq(Nat) /\ Len(u) = d
          /\ v \in Seq(Nat) /\ Len(v) = e
      BY <1>2, <1>3
    <3> HIDE DEF u, v
    <3>2. IsPrefix(u, v) <=>
            Len(u) <= Len(v) /\ \A i \in 1 .. Len(u) : u[i] = v[i]
      <4>1. u \in Seq(Nat) /\ v \in Seq(Nat)
        BY <3>1
      <4>. QED  BY <4>1, PrefixOf
    <3>3. IsPrefix(u, v) <=> d <= e /\ \A i \in 1 .. d : u[i] = v[i]
      BY <3>1, <3>2
    <3>. QED  BY <3>3 DEF u, v
  <2>2. ASSUME d <= e, NEW i \in 1 .. d PROVE Upto(k, d)[i] = Upto(k, e)[i]
    <3>1. i \in 1 .. e
      BY <1>1, <2>2
    <3>. QED  BY <1>2, <1>3, <3>1
  <2>. QED  BY <2>1, <2>2
<1>8. ASSUME d > 0 PROVE Front(Upto(k, d)) = Upto(k, d - 1)
  <2> DEFINE u == Upto(k, d)
             v == Upto(k, d - 1)
  <2>1. d - 1 \in 0 .. Len(k)
    BY <1>1, <1>8
  <2>2. /\ v \in Seq(Nat) /\ Len(v) = d - 1
        /\ \A i \in 1 .. d - 1 : v[i] = k[i]
    BY <2>1, UptoOf
  <2> HIDE DEF v
  <2>3. u \in Seq(Nat) /\ Len(u) = d /\ \A i \in 1 .. d : u[i] = k[i]
    BY <1>2
  <2> HIDE DEF u
  <2>4. u # <<>>
    BY <1>8, <2>3, EmptySeq
  <2>5. /\ Front(u) \in Seq(Nat) /\ Len(Front(u)) = d - 1
        /\ \A i \in 1 .. d - 1 : Front(u)[i] = u[i]
    BY <2>3, <2>4, FrontOf
  <2>6. \A i \in 1 .. d - 1 : Front(u)[i] = v[i]
    <3> TAKE i \in 1 .. d - 1
    <3>1. i \in 1 .. d
      BY <1>1
    <3>. QED  BY <2>2, <2>3, <2>5, <3>1
  <2>7. Front(u) = v
    BY <2>2, <2>5, <2>6, SeqEqual
  <2>. QED  BY <2>7 DEF u, v
<1>. QED  BY <1>2, <1>3, <1>4, <1>5, <1>6, <1>7, <1>8

--------------------------------------------------------------------------------
(* Digests are ordered.                                                    *)
LEMMA BeforeIs ==
  ASSUME NEW k \in Labels, NEW l \in Labels
  PROVE  /\ ~Before(k, k)
         /\ k # l => Before(k, l) \/ Before(l, k)
         /\ \A m \in Labels : Before(k, l) /\ Before(l, m) => Before(k, m)
<1>1. ASSUME NEW x \in Labels
      PROVE  /\ x \in Seq(Nat) /\ Len(x) = Len(k) /\ Len(x) \in Nat
             /\ DOMAIN x = 1 .. Len(k) /\ \A i \in 1 .. Len(k) : x[i] \in Nat
  <2>1. x \in Seq(Nat) /\ Len(x) = Len(k)
    BY LabelsAreDigests
  <2>. QED  BY <2>1, LenProperties, ElementOfSeq
<1>2. ~Before(k, k)
  BY <1>1 DEF Before
<1>3. ASSUME k # l PROVE Before(k, l) \/ Before(l, k)
  <2> DEFINE D == {i \in 1 .. Len(k) : k[i] # l[i]}
  <2>1. D # {}
    BY <1>1, <1>3, SeqEqual
  <2>2. D \subseteq Nat
    BY <1>1
  <2> HIDE DEF D
  <2>3. PICK i \in D : \A j \in D : i <= j
    BY <2>1, <2>2, LeastOf
  <2>4. i \in 1 .. Len(k) /\ k[i] # l[i] /\ k[i] \in Nat /\ l[i] \in Nat
    BY <1>1, <2>3 DEF D
  <2>5. \A j \in 1 .. i - 1 : k[j] = l[j]
    <3> TAKE j \in 1 .. i - 1
    <3>1. j \in 1 .. Len(k) /\ ~(i <= j)
      BY <1>1, <2>4
    <3>2. j \notin D
      BY <2>3, <3>1
    <3>. QED  BY <3>1, <3>2 DEF D
  <2>6. k[i] < l[i] \/ l[i] < k[i]
    BY <2>4
  <2>7. i \in DOMAIN k /\ i \in DOMAIN l
    BY <1>1, <2>4
  <2>. QED  BY <2>5, <2>6, <2>7 DEF Before
<1>4. ASSUME NEW m \in Labels, Before(k, l), Before(l, m) PROVE Before(k, m)
  <2>1. PICK i \in 1 .. Len(k) : k[i] < l[i] /\ \A j \in 1 .. i - 1 : k[j] = l[j]
    BY <1>1, <1>4 DEF Before
  <2>2. PICK h \in 1 .. Len(k) : l[h] < m[h] /\ \A j \in 1 .. h - 1 : l[j] = m[j]
    BY <1>1, <1>4 DEF Before
  <2>3. i \in Nat /\ h \in Nat
    BY <1>1
  <2>4. CASE i <= h
    <3>1. k[i] < m[i]
      <4>1. /\ k[i] \in Nat /\ l[i] \in Nat /\ m[i] \in Nat
            /\ i = h => l[i] < m[i]
        BY <1>1, <2>2
      <4>2. i < h => l[i] = m[i]
        BY <2>2, <2>3
      <4>. QED  BY <2>1, <2>3, <2>4, <4>1, <4>2
    <3>2. \A j \in 1 .. i - 1 : k[j] = m[j]
      <4> TAKE j \in 1 .. i - 1
      <4>1. j \in 1 .. h - 1
        BY <2>3, <2>4
      <4>. QED  BY <2>1, <2>2, <4>1
    <3>3. i \in DOMAIN k
      BY <1>1
    <3>. QED  BY <3>1, <3>2, <3>3 DEF Before
  <2>5. CASE h < i
    <3>1. k[h] < m[h]
      <4>1. h \in 1 .. i - 1
        BY <2>3, <2>5
      <4>. QED  BY <2>1, <2>2, <4>1
    <3>2. \A j \in 1 .. h - 1 : k[j] = m[j]
      <4> TAKE j \in 1 .. h - 1
      <4>1. j \in 1 .. i - 1
        BY <2>3, <2>5
      <4>. QED  BY <2>1, <2>2, <4>1
    <3>3. h \in DOMAIN k
      BY <1>1
    <3>. QED  BY <3>1, <3>2, <3>3 DEF Before
  <2>. QED  BY <2>3, <2>4, <2>5
<1>. QED  BY <1>2, <1>3, <1>4

--------------------------------------------------------------------------------
(* Buckets: pairs with different keys, in the order of their keys.         *)
IsPairs(S) ==
  /\ IsFiniteSet(S)
  /\ \A a \in S : a.key \in Labels
  /\ \A a, b \in S : a.key = b.key => a = b

Increases(b) ==
  \A i, j \in 1 .. Len(b) : i < j => Before(b[i].key, b[j].key)

IsSorting(b, S) ==
  /\ b \in Seq(S) /\ {b[i] : i \in 1 .. Len(b)} = S
  /\ Increases(b)

LEMMA GreatestPair ==
  ASSUME NEW S, IsPairs(S), S # {}
  PROVE  \E g \in S : \A a \in S \ {g} : Before(a.key, g.key)
<1> DEFINE Greatest(T) == \E g \in T : \A a \in T \ {g} : Before(a.key, g.key)
           K == {n \in Nat : \A T \in SUBSET S :
                   IsFiniteSet(T) /\ Cardinality(T) = n /\ T # {} => Greatest(T)}
<1>1. 0 \in K
  BY FS_EmptySet
<1>2. ASSUME NEW n \in Nat, n \in K PROVE n + 1 \in K
  <2> SUFFICES ASSUME NEW T \in SUBSET S, IsFiniteSet(T), Cardinality(T) = n + 1,
                      T # {}
               PROVE  Greatest(T)
    OBVIOUS
  <2>1. PICK x \in T : TRUE
    OBVIOUS
  <2> DEFINE U == T \ {x}
  <2>2. IsFiniteSet(U) /\ Cardinality(U) = n
    <3>1. IsFiniteSet(U) /\ Cardinality(U) = Cardinality(T) - 1
      BY <2>1, FS_RemoveElement
    <3>. QED  BY <3>1
  <2>3. CASE U = {}
    <3>1. \A a \in T \ {x} : FALSE
      BY <2>3
    <3>. QED  BY <2>1, <3>1
  <2>4. CASE U # {}
    <3>1. PICK g \in U : \A a \in U \ {g} : Before(a.key, g.key)
      BY <1>2, <2>2, <2>4
    <3>2. /\ x \in S /\ g \in S /\ x # g
          /\ x.key \in Labels /\ g.key \in Labels /\ x.key # g.key
      BY <2>1, <3>1 DEF IsPairs
    <3>3. CASE Before(x.key, g.key)
      <4>1. \A a \in T \ {g} : a = x \/ a \in U \ {g}
        OBVIOUS
      <4>. QED  BY <3>1, <3>3, <4>1
    <3>4. CASE Before(g.key, x.key)
      <4>1. ASSUME NEW a \in T \ {x} PROVE Before(a.key, x.key)
        <5>1. a = g \/ (a \in U \ {g} /\ a.key \in Labels)
          BY DEF IsPairs
        <5>2. a = g \/ (a.key \in Labels /\ Before(a.key, g.key))
          BY <3>1, <5>1
        <5>. QED  BY <3>2, <3>4, <5>2, BeforeIs
      <4>. QED  BY <2>1, <4>1
    <3>. QED  BY <3>2, <3>3, <3>4, BeforeIs
  <2>. QED  BY <2>3, <2>4
<1>3. IsFiniteSet(S) /\ Cardinality(S) \in Nat
  BY FS_CardinalityType DEF IsPairs
<1> HIDE DEF K
<1>4. Cardinality(S) \in K
  BY <1>1, <1>2, <1>3, HoldsUpTo
<1>. QED  BY <1>3, <1>4 DEF K

LEMMA SortingExists ==
  ASSUME NEW S, IsPairs(S)
  PROVE  \E b : IsSorting(b, S)
<1> DEFINE Sortable(T) == \E b : IsSorting(b, T)
           K == {n \in Nat : \A T \in SUBSET S :
                   IsFiniteSet(T) /\ Cardinality(T) = n => Sortable(T)}
<1>1. 0 \in K
  <2> SUFFICES ASSUME NEW T \in SUBSET S, IsFiniteSet(T), Cardinality(T) = 0
               PROVE  Sortable(T)
    OBVIOUS
  <2>1. T = {}
    BY FS_EmptySet
  <2>2. <<>> \in Seq(T) /\ 1 .. Len(<<>>) = {}
    BY EmptySeq
  <2>3. IsSorting(<<>>, T)
    BY <2>1, <2>2 DEF IsSorting, Increases
  <2>. QED  BY <2>3
<1>2. ASSUME NEW n \in Nat, n \in K PROVE n + 1 \in K
  <2> SUFFICES ASSUME NEW T \in SUBSET S, IsFiniteSet(T), Cardinality(T) = n + 1
               PROVE  Sortable(T)
    OBVIOUS
  <2>1. T # {}
    BY FS_EmptySet
  <2>2. IsPairs(T)
    BY DEF IsPairs
  <2>3. PICK g \in T : \A a \in T \ {g} : Before(a.key, g.key)
    BY <2>1, <2>2, GreatestPair
  <2> DEFINE U == T \ {g}
  <2>4. IsFiniteSet(U) /\ Cardinality(U) = n
    <3>1. IsFiniteSet(U) /\ Cardinality(U) = Cardinality(T) - 1
      BY FS_RemoveElement
    <3>. QED  BY <3>1
  <2>5. PICK b : IsSorting(b, U)
    BY <1>2, <2>4
  <2> DEFINE c == Append(b, g)
  <2>6. /\ b \in Seq(T) /\ g \in T /\ Len(b) \in Nat
        /\ {b[i] : i \in 1 .. Len(b)} = U /\ Increases(b)
    BY <2>5, SeqMonotonic, LenProperties DEF IsSorting
  <2>7. /\ c \in Seq(T) /\ Len(c) = Len(b) + 1
        /\ \A i \in 1 .. Len(b) : c[i] = b[i]
        /\ c[Len(b) + 1] = g
    BY <2>6, AppendProperties
  <2> HIDE DEF c
  <2>8. {c[i] : i \in 1 .. Len(c)} = T
    <3>1. ASSUME NEW x \in T PROVE \E i \in 1 .. Len(c) : x = c[i]
      <4>1. CASE x = g
        BY <2>6, <2>7, <4>1
      <4>2. CASE x # g
        <5>1. PICK i \in 1 .. Len(b) : x = b[i]
          BY <2>6, <4>2
        <5>2. i \in 1 .. Len(c)
          BY <2>6, <2>7
        <5>. QED  BY <2>7, <5>1, <5>2
      <4>. QED  BY <4>1, <4>2
    <3>2. \A i \in 1 .. Len(c) : c[i] \in T
      BY <2>7, ElementOfSeq
    <3>. QED  BY <3>1, <3>2
  <2>9. ASSUME NEW i \in 1 .. Len(c), NEW j \in 1 .. Len(c), i < j
        PROVE  Before(c[i].key, c[j].key)
    <3>1. i \in 1 .. Len(b) /\ c[i] = b[i]
      BY <2>6, <2>7, <2>9
    <3>2. CASE j \in 1 .. Len(b)
      BY <2>6, <2>7, <2>9, <3>1, <3>2 DEF Increases
    <3>3. CASE j \notin 1 .. Len(b)
      <4>1. j = Len(b) + 1 /\ b[i] \in T \ {g}
        BY <2>6, <2>7, <3>1, <3>3
      <4>. QED  BY <2>3, <2>7, <3>1, <4>1
    <3>. QED  BY <3>2, <3>3
  <2>10. IsSorting(c, T)
    BY <2>7, <2>8, <2>9 DEF IsSorting, Increases
  <2>. QED  BY <2>10
<1>3. IsFiniteSet(S) /\ Cardinality(S) \in Nat
  BY FS_CardinalityType DEF IsPairs
<1> HIDE DEF K
<1>4. Cardinality(S) \in K
  BY <1>1, <1>2, <1>3, HoldsUpTo
<1>. QED  BY <1>3, <1>4 DEF K

(* There is one way to sort.                                               *)
LEMMA SortingIs ==
  ASSUME NEW S, IsPairs(S), NEW b, IsSorting(b, S)
  PROVE  /\ Len(b) = Cardinality(S) /\ b \in [1 .. Cardinality(S) -> S]
         /\ \A c : IsSorting(c, S) => b = c
<1>0. \A c : IsSorting(c, S) => /\ Len(c) \in Nat /\ c \in Seq(S)
                                /\ c \in [1 .. Len(c) -> S]
                                /\ \A i \in 1 .. Len(c) : c[i] \in S /\ c[i].key \in Labels
  BY LenProperties, ElementOfSeq DEF IsSorting, IsPairs
<1>1. ASSUME NEW c, IsSorting(c, S) PROVE Len(c) = Cardinality(S)
  <2>1. ASSUME NEW i \in 1 .. Len(c), NEW j \in 1 .. Len(c), i # j
        PROVE  c[i] # c[j]
    <3>1. i < j \/ j < i
      BY <2>1
    <3>2. Before(c[i].key, c[j].key) \/ Before(c[j].key, c[i].key)
      BY <1>1, <3>1 DEF IsSorting, Increases
    <3>3. c[i].key \in Labels
      BY <1>0, <1>1
    <3>. QED  BY <3>2, <3>3, BeforeIs
  <2>2. c \in Bijection(1 .. Len(c), S)
    <3>1. c \in [1 .. Len(c) -> S]
      BY <1>0, <1>1
    <3>2. \A s \in S : \E i \in 1 .. Len(c) : c[i] = s
      BY <1>1 DEF IsSorting
    <3>. QED  BY <2>1, <3>1, <3>2 DEF Bijection, Injection, Surjection, IsInjective
  <2>3. IsFiniteSet(1 .. Len(c)) /\ Cardinality(1 .. Len(c)) = Len(c)
    <3>1. Len(c) \in Nat
      BY <1>0, <1>1
    <3>. QED  BY <3>1, UpToCard
  <2>4. Cardinality(S) = Cardinality(1 .. Len(c))
    <3>1. ExistsBijection(1 .. Len(c), S)
      BY <2>2 DEF ExistsBijection
    <3>. QED  BY <2>3, <3>1, FS_Bijection
  <2>. QED  BY <2>3, <2>4
<1>2. ASSUME NEW c, IsSorting(c, S), b # c PROVE FALSE
  <2> DEFINE D == {i \in 1 .. Len(b) : b[i] # c[i]}
  <2>1. Len(b) = Len(c)
    BY <1>1, <1>2
  <2>2. D # {} /\ D \subseteq Nat
    <3>1. b \in Seq(S) /\ c \in Seq(S)
      BY <1>0, <1>2
    <3>. QED  BY <1>2, <2>1, <3>1, SeqEqual
  <2> HIDE DEF D
  <2>3. PICK i \in D : \A j \in D : i <= j
    BY <2>2, LeastOf
  <2>4. /\ i \in 1 .. Len(b) /\ i \in Nat /\ b[i] # c[i]
        /\ b[i] \in S /\ c[i] \in S
        /\ b[i].key \in Labels /\ c[i].key \in Labels
    BY <1>0, <1>2, <2>1, <2>3 DEF D
  <2>5. \A j \in 1 .. Len(b) : j < i => b[j] = c[j]
    <3> TAKE j \in 1 .. Len(b)
    <3> HAVE j < i
    <3>1. j \notin D
      BY <2>2, <2>3
    <3>. QED  BY <3>1 DEF D
  <2>6. PICK j \in 1 .. Len(b) : c[j] = b[i]
    BY <1>2, <2>1, <2>4 DEF IsSorting
  <2>7. PICK l \in 1 .. Len(b) : b[l] = c[i]
    BY <2>4 DEF IsSorting
  <2>8. ASSUME NEW x, IsSorting(x, S), Len(x) = Len(b),
               NEW g \in 1 .. Len(b), NEW h \in 1 .. Len(b), g < h
        PROVE  Before(x[g].key, x[h].key)
    BY <2>8 DEF IsSorting, Increases
  <2>9. i < j
    <3>1. j = i \/ j < i \/ i < j
      BY <2>4
    <3>2. ASSUME j < i PROVE FALSE
      <4>1. b[j] = b[i]
        BY <2>5, <2>6, <3>2
      <4>2. Before(b[j].key, b[i].key)
        BY <2>4, <2>8, <3>2
      <4>. QED  BY <2>4, <4>1, <4>2, BeforeIs
    <3>. QED  BY <2>4, <2>6, <3>1, <3>2
  <2>10. i < l
    <3>1. l = i \/ l < i \/ i < l
      BY <2>4
    <3>2. ASSUME l < i PROVE FALSE
      <4>1. c[l] = c[i]
        BY <2>5, <2>7, <3>2
      <4>2. Before(c[l].key, c[i].key)
        BY <1>2, <2>1, <2>4, <2>8, <3>2
      <4>. QED  BY <2>4, <4>1, <4>2, BeforeIs
    <3>. QED  BY <2>4, <2>7, <3>1, <3>2
  <2>11. Before(c[i].key, b[i].key)
    BY <1>2, <2>1, <2>4, <2>6, <2>8, <2>9
  <2>12. Before(b[i].key, c[i].key)
    BY <2>4, <2>7, <2>8, <2>10
  <2>. QED  BY <2>4, <2>11, <2>12, BeforeIs
<1>. QED  BY <1>0, <1>1, <1>2

LEMMA SortedIs ==
  ASSUME NEW S, IsPairs(S)
  PROVE  /\ IsSorting(Sorted(S), S) /\ Len(Sorted(S)) = Cardinality(S)
         /\ \A b : IsSorting(b, S) => b = Sorted(S)
<1> DEFINE T(b) == /\ b \in [1 .. Cardinality(S) -> S]
                   /\ \A i, j \in DOMAIN b : i < j => Before(b[i].key, b[j].key)
           s == Sorted(S)
<1>1. PICK b : IsSorting(b, S)
  BY SortingExists
<1>2. Len(b) = Cardinality(S) /\ b \in [1 .. Cardinality(S) -> S]
  BY <1>1, SortingIs
<1>3. T(b)
  BY <1>1, <1>2 DEF IsSorting, Increases
<1>4. T(s)
  BY <1>2, <1>3 DEF Sorted
<1>5. Cardinality(S) \in Nat /\ IsFiniteSet(S)
  BY FS_CardinalityType DEF IsPairs
<1> HIDE DEF s
<1>6. s \in Seq(S) /\ Len(s) = Cardinality(S) /\ DOMAIN s = 1 .. Len(s)
  BY <1>4, <1>5
<1>7. {s[i] : i \in 1 .. Len(s)} = S
  <2> DEFINE C == 1 .. Cardinality(S)
  <2>1. \A i \in C : s[i] \in S /\ s[i].key \in Labels
    BY <1>4 DEF IsPairs
  <2>2. \A i, j \in C : i # j => s[i] # s[j]
    <3> TAKE i, j \in C
    <3> HAVE i # j
    <3>1. i < j \/ j < i
      BY <1>5
    <3>2. Before(s[i].key, s[j].key) \/ Before(s[j].key, s[i].key)
      BY <1>4, <3>1
    <3>. QED  BY <2>1, <3>2, BeforeIs
  <2>3. s \in Injection(C, S)
    BY <1>4, <2>2 DEF Injection, IsInjective
  <2>4. IsFiniteSet(C) /\ Cardinality(C) = Cardinality(S)
    BY <1>5, UpToCard
  <2>5. s \in Surjection(C, S)
    BY <1>5, <2>3, <2>4, FS_Injection
  <2>. QED  BY <1>6, <2>5, <2>1 DEF Surjection
<1>8. IsSorting(s, S)
  BY <1>4, <1>6, <1>7 DEF IsSorting, Increases
<1>9. \A c : IsSorting(c, S) => s = c
  BY <1>8, SortingIs
<1>. QED  BY <1>6, <1>8, <1>9 DEF s

--------------------------------------------------------------------------------
(* The layout of a tree, which its map determines.                         *)
IsMap(m) ==
  /\ m = [k \in DOMAIN m |-> m[k]]
  /\ DOMAIN m \subseteq Labels /\ IsFiniteSet(DOMAIN m)
  /\ \A k \in DOMAIN m : {k} \X m[k] \subseteq Writes

Under(m, p) == {k \in DOMAIN m : IsPrefix(p, k)}

PairOf(m, k) == [key |-> k, value |-> m[k]]

PairsUnder(m, p) == {PairOf(m, k) : k \in Under(m, p)}

(* Which nodes and buckets there are: a node for each prefix of more labels *)
(* than fit into one bucket.                                                *)
Big(m) == {<<>>} \cup {p \in Seq(Nat) : Cardinality(Under(m, p)) > BucketSize}

SlotsOf(m, N) ==
  {s \in Seq(Nat) : /\ s # <<>> /\ Under(m, s) # {}
                    /\ s \notin N /\ Front(s) \in N}

IsNodes(N) ==
  /\ N \subseteq Seq(Nat) /\ <<>> \in N /\ N \cap Labels = {}
  /\ \A p \in N : p # <<>> => Front(p) \in N

IsLaid(t, m, N) ==
  /\ t = [cells |-> t.cells, slots |-> t.slots]
  /\ t.cells = [p \in N |-> t.cells[p]]
  /\ t.slots = [s \in SlotsOf(m, N) |-> Sorted(PairsUnder(m, s))]

(* What a CID at p stands for.                                             *)
Content(m, p) ==
  [nodes |-> {q \in Big(m) : IsPrefix(p, q)},
   slots |-> {<<s, Sorted(PairsUnder(m, s))>> :
                s \in {r \in SlotsOf(m, Big(m)) : IsPrefix(p, r)}}]

CellsAre(t, m) ==
  /\ t.cells[<<>>] = {}
  /\ \A p \in Big(m) : t.cells[p] = {} \/ t.cells[p] = {Content(m, p)}

Holds(t, m) == IsMap(m) /\ IsLaid(t, m, Big(m)) /\ CellsAre(t, m)

--------------------------------------------------------------------------------
LEMMA LabelOf ==
  ASSUME NEW k \in Labels
  PROVE  /\ k \in Seq(Nat) /\ k # <<>> /\ Len(k) \in Nat \ {0}
         /\ \A l \in Labels : Len(l) = Len(k) /\ (IsPrefix(k, l) => l = k)
<1>1. k \in Seq(Nat) /\ k # <<>> /\ Len(k) \in Nat
  BY LabelsAreDigests, LenProperties
<1>2. Len(k) # 0
  BY <1>1, EmptySeq
<1>3. ASSUME NEW l \in Labels
      PROVE  Len(l) = Len(k) /\ (IsPrefix(k, l) => l = k)
  <2>1. l \in Seq(Nat) /\ Len(l) = Len(k)
    BY LabelsAreDigests
  <2>2. ASSUME IsPrefix(k, l) PROVE l = k
    <3>1. k = Upto(l, Len(k))
      BY <1>1, <2>1, <2>2, PrefixIsUpto
    <3>2. Upto(l, Len(l)) = l
      <4>1. 0 \in 0 .. Len(l)
        BY <1>1, <2>1
      <4>. QED  BY <2>1, <4>1, UptoSteps
    <3>. QED  BY <2>1, <3>1, <3>2
  <2>. QED  BY <2>1, <2>2
<1>. QED  BY <1>1, <1>2, <1>3

LEMMA UnderOf ==
  ASSUME NEW m, IsMap(m), NEW p \in Seq(Nat)
  PROVE  /\ IsFiniteSet(Under(m, p)) /\ Cardinality(Under(m, p)) \in Nat
         /\ Under(m, p) \subseteq Labels
         /\ IsPairs(PairsUnder(m, p))
         /\ Cardinality(PairsUnder(m, p)) = Cardinality(Under(m, p))
         /\ \A q \in Seq(Nat) : IsPrefix(q, p) =>
              /\ Under(m, p) \subseteq Under(m, q)
              /\ Cardinality(Under(m, p)) <= Cardinality(Under(m, q))
<1>1. ASSUME NEW q
      PROVE  IsFiniteSet(Under(m, q)) /\ Under(m, q) \subseteq Labels
  <2>1. Under(m, q) \in SUBSET DOMAIN m
    BY DEF Under
  <2>. QED  BY <2>1, FS_Subset DEF IsMap
<1>2. Cardinality(Under(m, p)) \in Nat
  BY <1>1, FS_CardinalityType
<1>3. /\ IsPairs(PairsUnder(m, p))
      /\ Cardinality(PairsUnder(m, p)) = Cardinality(Under(m, p))
  <2> DEFINE U == Under(m, p)
             f == [k \in U |-> PairOf(m, k)]
             V == PairsUnder(m, p)
  <2>1. \A k \in U : f[k] \in V /\ f[k].key = k
    BY DEF PairsUnder, PairOf
  <2>2. \A v \in V : \E k \in U : v = f[k]
    BY DEF PairsUnder
  <2>3. f \in [U -> V]
    BY <2>1
  <2>4. IsFiniteSet(U) /\ U \subseteq Labels
    BY <1>1
  <2> HIDE DEF f, U, V
  <2>5. DOMAIN f = U
    BY <2>3
  <2>6. f \in Bijection(U, V)
    BY <2>1, <2>2, <2>3, <2>5 DEF Bijection, Injection, Surjection, IsInjective
  <2>7. IsFiniteSet(V) /\ Cardinality(V) = Cardinality(U)
    <3>1. ExistsBijection(U, V)
      BY <2>6 DEF ExistsBijection
    <3>. QED  BY <2>4, <3>1, FS_Bijection
  <2>8. IsPairs(V)
    BY <2>1, <2>2, <2>4, <2>7 DEF IsPairs
  <2>. QED  BY <2>7, <2>8 DEF U, V
<1>4. ASSUME NEW q \in Seq(Nat), IsPrefix(q, p)
      PROVE  /\ Under(m, p) \subseteq Under(m, q)
             /\ Cardinality(Under(m, p)) <= Cardinality(Under(m, q))
  <2>1. ASSUME NEW k \in Under(m, p) PROVE k \in Under(m, q)
    <3>1. k \in Seq(Nat) /\ IsPrefix(p, k) /\ k \in DOMAIN m
      BY <1>1, LabelOf DEF Under
    <3>2. IsPrefix(q, k)
      BY <1>4, <3>1, PrefixOrder
    <3>. QED  BY <3>1, <3>2 DEF Under
  <2>2. Under(m, p) \in SUBSET Under(m, q)
    BY <2>1
  <2>. QED  BY <1>1, <2>2, FS_Subset
<1>. QED  BY <1>1, <1>2, <1>3, <1>4

(* The nodes are a tree that ends above the labels.                        *)
LEMMA BigAreNodes ==
  ASSUME NEW m, IsMap(m)
  PROVE  IsNodes(Big(m))
<1>1. BucketSize \in Nat \ {0}
  BY BucketSizeIsPositive
<1>2. <<>> \in Seq(Nat)
  BY EmptySeq
<1>3. Big(m) \subseteq Seq(Nat) /\ <<>> \in Big(m)
  BY <1>2 DEF Big
<1>4. ASSUME NEW k \in Labels, k \in Big(m) PROVE FALSE
  <2>1. k # <<>> /\ k \in Seq(Nat) /\ \A l \in Labels : IsPrefix(k, l) => l = k
    BY LabelOf
  <2>2. Cardinality(Under(m, k)) > BucketSize
    BY <1>4, <2>1 DEF Big
  <2>3. Under(m, k) \in SUBSET {k}
    BY <2>1 DEF Under, IsMap
  <2>4. Cardinality(Under(m, k)) <= 1
    <3>1. IsFiniteSet({k}) /\ Cardinality({k}) = 1
      BY FS_Singleton
    <3>. QED  BY <2>3, <3>1, FS_Subset
  <2>5. Cardinality(Under(m, k)) \in Nat
    BY <2>1, UnderOf
  <2>. QED  BY <1>1, <2>2, <2>4, <2>5
<1>5. ASSUME NEW p \in Big(m), p # <<>> PROVE Front(p) \in Big(m)
  <2>1. p \in Seq(Nat) /\ Cardinality(Under(m, p)) > BucketSize
    BY <1>3, <1>5 DEF Big
  <2>2. Front(p) \in Seq(Nat)
    BY <1>5, <2>1, FrontOf
  <2>3. IsPrefix(Front(p), p)
    BY <1>5, <2>1, <2>2, PrefixStep, PrefixOrder
  <2>4. /\ Cardinality(Under(m, p)) \in Nat
        /\ Cardinality(Under(m, p)) <= Cardinality(Under(m, Front(p)))
    BY <2>1, <2>2, <2>3, UnderOf
  <2>5. Cardinality(Under(m, Front(p))) \in Nat
    BY <2>2, UnderOf
  <2>6. Cardinality(Under(m, Front(p))) > BucketSize
    BY <1>1, <2>1, <2>4, <2>5
  <2>. QED  BY <2>2, <2>6 DEF Big
<1>. QED  BY <1>3, <1>4, <1>5 DEF IsNodes

(* What is above a node is a node.                                         *)
LEMMA NodesAbove ==
  ASSUME NEW N, IsNodes(N), NEW p \in N, NEW q \in Seq(Nat), IsPrefix(q, p)
  PROVE  q \in N
<1> DEFINE K == {n \in Nat : \A r \in N : Len(r) = Len(q) + n /\ IsPrefix(q, r) => q \in N}
<1>0. Len(q) \in Nat /\ Len(p) \in Nat /\ Len(q) <= Len(p) /\ N \subseteq Seq(Nat)
  BY LenProperties, PrefixOf DEF IsNodes
<1>1. 0 \in K
  <2> SUFFICES ASSUME NEW r \in N, Len(r) = Len(q) + 0, IsPrefix(q, r)
               PROVE  q \in N
    OBVIOUS
  <2>1. r \in Seq(Nat) /\ Len(r) = Len(q)
    BY <1>0
  <2>2. \A i \in 1 .. Len(q) : q[i] = r[i]
    BY <2>1, PrefixOf
  <2>3. q = r
    BY <2>1, <2>2, SeqEqual
  <2>. QED  BY <2>3
<1>2. ASSUME NEW n \in Nat, n \in K PROVE n + 1 \in K
  <2> SUFFICES ASSUME NEW r \in N, Len(r) = Len(q) + (n + 1), IsPrefix(q, r)
               PROVE  q \in N
    OBVIOUS
  <2>1. r \in Seq(Nat) /\ r # <<>> /\ q # r
    <3>1. r \in Seq(Nat) /\ Len(r) # 0 /\ Len(r) # Len(q)
      BY <1>0
    <3>. QED  BY <3>1, EmptySeq
  <2>2. Front(r) \in N /\ Len(Front(r)) = Len(r) - 1
    BY <2>1, FrontOf DEF IsNodes
  <2>3. IsPrefix(q, Front(r))
    BY <2>1, PrefixStep
  <2>4. Len(Front(r)) = Len(q) + n
    BY <1>0, <2>2
  <2>. QED  BY <1>2, <2>2, <2>3, <2>4
<1>3. PICK n \in Nat : Len(p) = Len(q) + n
  <2>1. Len(p) - Len(q) \in Nat /\ Len(p) = Len(q) + (Len(p) - Len(q))
    BY <1>0
  <2>. QED  BY <2>1
<1> HIDE DEF K
<1>4. n \in K
  <2>1. \A i \in 0 .. n - 1 : i \in K => i + 1 \in K
    BY <1>2
  <2>2. \A i \in 0 .. n : i \in K
    BY <1>1, <2>1, HoldsUpTo
  <2>. QED  BY <2>2
<1>. QED  BY <1>3, <1>4 DEF K

(* The nodes along a label end at one place, where its bucket is.          *)
IsSlotOf(s, k, N) ==
  /\ s \in Seq(Nat) /\ s # <<>> /\ s \notin N /\ Front(s) \in N
  /\ Len(s) \in 1 .. Len(k) /\ IsPrefix(s, k) /\ s = Upto(k, Len(s))
  /\ \A p \in Seq(Nat) : IsPrefix(p, k) => (p \in N <=> Len(p) < Len(s))
  /\ \A r \in Seq(Nat) : IsPrefix(r, k) /\ r # <<>> /\ r \notin N /\ Front(r) \in N =>
       r = s

LEMMA SlotIs ==
  ASSUME NEW t, NEW N, IsNodes(N), DOMAIN t.cells = N, NEW k \in Labels
  PROVE  IsSlotOf(SlotOf(t, k), k, N)
<1> DEFINE U(d) == Upto(k, d)
           D == {d \in 0 .. Len(k) : U(d) \in N}
<1>1. k \in Seq(Nat) /\ Len(k) \in Nat \ {0}
  BY LabelOf
<1>2. \A d \in 0 .. Len(k) : U(d) \in Seq(Nat) /\ Len(U(d)) = d /\ IsPrefix(U(d), k)
  BY <1>1, UptoOf, UptoSteps
<1>3. U(0) = <<>> /\ U(Len(k)) = k
  BY <1>1, UptoSteps
<1>4. \A d, e \in 0 .. Len(k) : IsPrefix(U(d), U(e)) <=> d <= e
  BY <1>1, UptoSteps
<1>5. \A d \in 1 .. Len(k) : d - 1 \in 0 .. Len(k) /\ Front(U(d)) = U(d - 1)
  <2> TAKE d \in 1 .. Len(k)
  <2>1. d \in 0 .. Len(k) /\ d > 0 /\ d - 1 \in 0 .. Len(k)
    BY <1>1
  <2>. QED  BY <1>1, <2>1, UptoSteps
<1> HIDE DEF U
<1>6. 0 \in D /\ D \subseteq Nat /\ IsFiniteSet(D) /\ Len(k) \notin D
  <2>1. U(0) \in N /\ U(Len(k)) \notin N
    BY <1>3 DEF IsNodes
  <2>2. D \in SUBSET (0 .. Len(k)) /\ IsFiniteSet(0 .. Len(k))
    BY <1>1, FS_Interval
  <2>. QED  BY <1>1, <2>1, <2>2, FS_Subset
<1>7. PICK n \in D : \A d \in D : d <= n
  BY <1>6, GreatestOf
<1>8. n \in 0 .. Len(k) - 1
  BY <1>1, <1>6, <1>7
<1>9. ASSUME NEW d \in 0 .. Len(k) PROVE U(d) \in N <=> d <= n
  <2>1. ASSUME d <= n PROVE U(d) \in N
    <3>1. n \in 0 .. Len(k) /\ U(n) \in N
      BY <1>7
    <3>2. IsPrefix(U(d), U(n))
      BY <1>4, <2>1, <3>1
    <3>. QED  BY <1>2, <3>1, <3>2, NodesAbove
  <2>2. ASSUME U(d) \in N PROVE d <= n
    BY <1>7, <2>2
  <2>. QED  BY <2>1, <2>2
<1>10. ASSUME NEW d \in 0 .. Len(k) - 1
       PROVE  (/\ \A i \in 0 .. d : Upto(k, i) \in DOMAIN t.cells
               /\ Upto(k, d + 1) \notin DOMAIN t.cells) <=> d = n
  <2>1. d \in 0 .. Len(k) /\ d + 1 \in 0 .. Len(k)
    BY <1>1
  <2>2. \A i \in 0 .. d : i \in 0 .. Len(k)
    BY <1>1
  <2>3. (\A i \in 0 .. d : U(i) \in N) /\ U(d + 1) \notin N <=> d = n
    <3>1. U(d) \in N <=> d <= n
      BY <1>9, <2>1
    <3>2. U(d + 1) \in N <=> d + 1 <= n
      BY <1>9, <2>1
    <3>3. ASSUME NEW i \in 0 .. n PROVE U(i) \in N
      <4>1. i \in 0 .. Len(k) /\ i <= n
        BY <1>1, <1>8
      <4>. QED  BY <1>9, <4>1
    <3>4. d \in 0 .. d /\ n \in Int /\ d \in Int
      BY <1>8
    <3>. QED  BY <3>1, <3>2, <3>3, <3>4
  <2>. QED  BY <2>3 DEF U
<1>11. Depth(t, k) = n
  <2> DEFINE C(d) == /\ \A i \in 0 .. d : Upto(k, i) \in DOMAIN t.cells
                     /\ Upto(k, d + 1) \notin DOMAIN t.cells
  <2>1. \A d \in 0 .. Len(k) - 1 : C(d) <=> d = n
    BY <1>10
  <2>2. Depth(t, k) = CHOOSE d \in 0 .. Len(k) - 1 : C(d)
    BY DEF Depth
  <2> HIDE DEF C
  <2>. QED  BY <1>8, <2>1, <2>2
<1> DEFINE s == U(n + 1)
<1>12. SlotOf(t, k) = s
  BY <1>11 DEF SlotOf, U
<1>13. n + 1 \in 1 .. Len(k) /\ n + 1 \in 0 .. Len(k) /\ n \in 0 .. Len(k) /\ n \in Int
  BY <1>1, <1>8
<1>14. s \in Seq(Nat) /\ Len(s) = n + 1 /\ s # <<>> /\ IsPrefix(s, k)
  <2>1. s \in Seq(Nat) /\ Len(s) = n + 1 /\ IsPrefix(s, k)
    BY <1>2, <1>13
  <2>2. n + 1 # 0
    BY <1>8
  <2>. QED  BY <2>1, <2>2, EmptySeq
<1>15. s \notin N
  <2>1. ~(n + 1 <= n)
    BY <1>13
  <2>. QED  BY <1>9, <1>13, <2>1
<1>16. Front(s) \in N
  <2>1. Front(s) = U(n + 1 - 1) /\ n + 1 - 1 = n
    BY <1>5, <1>13
  <2>. QED  BY <1>9, <1>13, <2>1
<1>17. ASSUME NEW p \in Seq(Nat), IsPrefix(p, k)
       PROVE  Len(p) \in 0 .. Len(k) /\ p = U(Len(p)) /\ (p \in N <=> Len(p) <= n)
  <2>1. Len(p) \in 0 .. Len(k) /\ p = U(Len(p))
    BY <1>1, <1>17, PrefixIsUpto, LenProperties DEF U
  <2>. QED  BY <1>9, <2>1
<1>18. ASSUME NEW p \in Seq(Nat), IsPrefix(p, k) PROVE p \in N <=> Len(p) < Len(s)
  <2>1. Len(p) \in Int
    BY <1>17, <1>18
  <2>2. Len(p) < Len(s) <=> Len(p) <= n
    BY <1>13, <1>14, <2>1
  <2>. QED  BY <1>17, <1>18, <2>2
<1>19. ASSUME NEW r \in Seq(Nat), IsPrefix(r, k), r # <<>>, r \notin N, Front(r) \in N
       PROVE  r = s
  <2>1. Len(r) \in 0 .. Len(k) /\ r = U(Len(r)) /\ ~(Len(r) <= n)
    BY <1>17, <1>19
  <2>2. Front(r) \in Seq(Nat) /\ Len(Front(r)) = Len(r) - 1 /\ IsPrefix(Front(r), k)
    BY <1>1, <1>19, FrontOf, PrefixStep, PrefixOrder
  <2>3. Len(Front(r)) <= n
    BY <1>17, <1>19, <2>2
  <2>4. Len(r) = n + 1
    BY <1>13, <2>1, <2>2, <2>3
  <2>. QED  BY <2>1, <2>4
<1> HIDE DEF s
<1>20. s = Upto(k, Len(s)) /\ Len(s) \in 1 .. Len(k)
  BY <1>13, <1>14 DEF s, U
<1>21. IsSlotOf(s, k, N)
  BY <1>14, <1>15, <1>16, <1>18, <1>19, <1>20 DEF IsSlotOf
<1>. QED  BY <1>12, <1>21

--------------------------------------------------------------------------------
(* What is found in a tree is what its map has.                            *)
IsBucketOf(b, m, s) ==
  /\ IsSorting(b, PairsUnder(m, s)) /\ b = Sorted(PairsUnder(m, s))
  /\ Len(b) = Cardinality(Under(m, s)) /\ Len(b) \in Nat /\ DOMAIN b = 1 .. Len(b)
  /\ \A i \in 1 .. Len(b) :
       b[i].key \in Under(m, s) /\ b[i].key \in Labels /\ b[i] = PairOf(m, b[i].key)
  /\ \A l \in Under(m, s) : \E i \in 1 .. Len(b) : b[i] = PairOf(m, l)
  /\ \A i, j \in 1 .. Len(b) : b[i].key = b[j].key => i = j

LEMMA SortedIsBucket ==
  ASSUME NEW m, IsMap(m), NEW s \in Seq(Nat)
  PROVE  IsBucketOf(Sorted(PairsUnder(m, s)), m, s)
<1> DEFINE S == PairsUnder(m, s)
           b == Sorted(S)
<1>1. /\ IsPairs(S) /\ Cardinality(S) = Cardinality(Under(m, s))
      /\ Cardinality(Under(m, s)) \in Nat /\ Under(m, s) \subseteq Labels
  BY UnderOf
<1>2. \A x \in S : x.key \in Under(m, s) /\ x = PairOf(m, x.key)
  BY DEF PairsUnder, PairOf
<1>3. \A l \in Under(m, s) : PairOf(m, l) \in S
  BY DEF PairsUnder
<1> HIDE DEF S
<1>4. IsSorting(b, S) /\ Len(b) = Cardinality(S)
  BY <1>1, SortedIs
<1>5. b = Sorted(S)
  OBVIOUS
<1> HIDE DEF b
<1>6. b \in Seq(S) /\ Len(b) \in Nat
  BY <1>1, <1>4 DEF IsSorting
<1>7. DOMAIN b = 1 .. Len(b) /\ \A i \in 1 .. Len(b) : b[i] \in S
  BY <1>6, LenProperties, ElementOfSeq
<1>8. ASSUME NEW i \in 1 .. Len(b), NEW j \in 1 .. Len(b), b[i].key = b[j].key
      PROVE  i = j
  <2>1. b[i].key \in Labels
    BY <1>1, <1>2, <1>7
  <2>2. i < j => Before(b[i].key, b[j].key)
    BY <1>4 DEF IsSorting, Increases
  <2>3. j < i => Before(b[j].key, b[i].key)
    BY <1>4 DEF IsSorting, Increases
  <2>4. ~(i < j) /\ ~(j < i)
    BY <1>8, <2>1, <2>2, <2>3, BeforeIs
  <2>. QED  BY <2>4, <1>6
<1>9. \A l \in Under(m, s) : \E i \in 1 .. Len(b) : b[i] = PairOf(m, l)
  BY <1>3, <1>4 DEF IsSorting
<1>10. \A i \in 1 .. Len(b) :
         b[i].key \in Under(m, s) /\ b[i].key \in Labels /\ b[i] = PairOf(m, b[i].key)
  BY <1>1, <1>2, <1>7
<1>11. IsBucketOf(b, m, s)
  BY <1>1, <1>4, <1>5, <1>6, <1>7, <1>8, <1>9, <1>10 DEF IsBucketOf, S
<1>. QED  BY <1>11 DEF b, S

LEMMA BucketIs ==
  ASSUME NEW t, NEW m, NEW N, IsMap(m), IsNodes(N), IsLaid(t, m, N),
         NEW k \in Labels, NEW s, s = SlotOf(t, k)
  PROVE  /\ IsSlotOf(s, k, N)
         /\ s \in DOMAIN t.slots <=> Under(m, s) # {}
         /\ IsBucketOf(Bucket(t, s), m, s)
         /\ k \in DOMAIN m <=> k \in Under(m, s)
         /\ Position(Bucket(t, s), k) =
              {i \in 1 .. Len(Bucket(t, s)) : Bucket(t, s)[i].key = k}
         /\ k \in DOMAIN m <=> Position(Bucket(t, s), k) # {}
<1> DEFINE b == Bucket(t, s)
<1>1. DOMAIN t.cells = N
  BY DEF IsLaid
<1>2. IsSlotOf(s, k, N)
  BY <1>1, SlotIs
<1>3. s \in Seq(Nat) /\ s # <<>> /\ s \notin N /\ Front(s) \in N /\ IsPrefix(s, k)
  BY <1>2 DEF IsSlotOf
<1>4. DOMAIN t.slots = SlotsOf(m, N)
  BY DEF IsLaid
<1>5. s \in DOMAIN t.slots <=> Under(m, s) # {}
  BY <1>3, <1>4 DEF SlotsOf
<1>6. b = Sorted(PairsUnder(m, s))
  <2>1. CASE s \in DOMAIN t.slots
    <3>1. t.slots[s] = Sorted(PairsUnder(m, s))
      BY <1>4, <2>1 DEF IsLaid
    <3>. QED  BY <2>1, <3>1 DEF Bucket
  <2>2. CASE s \notin DOMAIN t.slots
    <3>1. b = <<>> /\ PairsUnder(m, s) = {}
      BY <1>5, <2>2 DEF Bucket, PairsUnder
    <3>2. IsPairs({})
      BY FS_EmptySet DEF IsPairs
    <3>3. IsSorting(<<>>, {})
      <4>1. <<>> \in Seq({}) /\ 1 .. Len(<<>>) = {}
        BY EmptySeq
      <4>. QED  BY <4>1 DEF IsSorting, Increases
    <3>. QED  BY <3>1, <3>2, <3>3, SortedIs
  <2>. QED  BY <2>1, <2>2
<1>7. IsBucketOf(b, m, s)
  BY <1>3, <1>6, SortedIsBucket
<1> HIDE DEF b
<1>8. k \in DOMAIN m <=> k \in Under(m, s)
  BY <1>3 DEF Under
<1>9. Position(b, k) = {i \in 1 .. Len(b) : b[i].key = k}
  BY <1>7 DEF Position, IsBucketOf
<1>10. k \in DOMAIN m <=> Position(b, k) # {}
  <2>1. ASSUME k \in DOMAIN m PROVE Position(b, k) # {}
    <3>1. PICK i \in 1 .. Len(b) : b[i] = PairOf(m, k)
      BY <1>7, <1>8, <2>1 DEF IsBucketOf
    <3>. QED  BY <1>9, <3>1 DEF PairOf
  <2>2. ASSUME NEW i \in Position(b, k) PROVE k \in DOMAIN m
    <3>1. i \in 1 .. Len(b) /\ b[i].key = k
      BY <1>9
    <3>. QED  BY <1>7, <1>8, <3>1 DEF IsBucketOf
  <2>. QED  BY <2>1, <2>2
<1>. QED  BY <1>2, <1>5, <1>7, <1>8, <1>9, <1>10 DEF b

LEMMA ValueIs ==
  ASSUME NEW t, NEW m, NEW N, IsMap(m), IsNodes(N), IsLaid(t, m, N),
         NEW k \in Labels
  PROVE  GetValue(t, k) = IF k \in DOMAIN m THEN {m[k]} ELSE {}
<1>1. PICK s : s = SlotOf(t, k)
  OBVIOUS
<1>2. PICK b : b = Bucket(t, s)
  OBVIOUS
<1>3. /\ IsBucketOf(b, m, s)
      /\ Position(b, k) = {i \in 1 .. Len(b) : b[i].key = k}
      /\ k \in DOMAIN m <=> Position(b, k) # {}
  BY <1>1, <1>2, BucketIs
<1>4. GetValue(t, k) = {b[i].value : i \in Position(b, k)}
  BY <1>1, <1>2 DEF GetValue
<1>5. \A i \in Position(b, k) : b[i].value = m[k]
  <2> TAKE i \in Position(b, k)
  <2>1. i \in 1 .. Len(b) /\ b[i].key = k
    BY <1>3
  <2>2. b[i] = PairOf(m, k)
    BY <1>3, <2>1 DEF IsBucketOf
  <2>. QED  BY <2>2 DEF PairOf
<1>. QED  BY <1>3, <1>4, <1>5

(* Where a label of the map is.                                            *)
LEMMA PairsAre ==
  ASSUME NEW t, NEW m, NEW N, IsMap(m), IsNodes(N), IsLaid(t, m, N)
  PROVE  /\ Pairs(t) = {PairOf(m, k) : k \in DOMAIN m}
         /\ ToMap(t) = m
         /\ \A p : PairsBelow(t, p) = PairsUnder(m, p)
<1>1. DOMAIN t.slots = SlotsOf(m, N)
  BY DEF IsLaid
<1>2. ASSUME NEW s \in SlotsOf(m, N)
      PROVE  Range(t.slots[s]) = PairsUnder(m, s)
  <2>1. t.slots[s] = Sorted(PairsUnder(m, s)) /\ s \in Seq(Nat)
    BY <1>2 DEF IsLaid, SlotsOf
  <2>2. PICK b : b = t.slots[s]
    OBVIOUS
  <2>3. IsBucketOf(b, m, s)
    BY <2>1, <2>2, SortedIsBucket
  <2>4. DOMAIN b = 1 .. Len(b) /\ {b[i] : i \in 1 .. Len(b)} = PairsUnder(m, s)
    BY <2>3 DEF IsBucketOf, IsSorting
  <2>. QED  BY <2>2, <2>4 DEF Range
<1>3. ASSUME NEW k \in DOMAIN m
      PROVE  \E s \in SlotsOf(m, N) : PairOf(m, k) \in PairsUnder(m, s)
  <2>1. k \in Labels
    BY DEF IsMap
  <2>2. PICK s : s = SlotOf(t, k)
    OBVIOUS
  <2>3. s \in DOMAIN t.slots /\ k \in Under(m, s)
    BY <2>1, <2>2, BucketIs
  <2>. QED  BY <1>1, <2>3 DEF PairsUnder
<1>4. Pairs(t) = {PairOf(m, k) : k \in DOMAIN m}
  <2>1. ASSUME NEW x \in Pairs(t) PROVE x \in {PairOf(m, k) : k \in DOMAIN m}
    <3>1. PICK s \in SlotsOf(m, N) : x \in Range(t.slots[s])
      BY <1>1 DEF Pairs
    <3>2. x \in PairsUnder(m, s)
      BY <1>2, <3>1
    <3>. QED  BY <3>2 DEF PairsUnder, Under
  <2>2. ASSUME NEW k \in DOMAIN m PROVE PairOf(m, k) \in Pairs(t)
    <3>1. PICK s \in SlotsOf(m, N) : PairOf(m, k) \in PairsUnder(m, s)
      BY <1>3
    <3>2. PairOf(m, k) \in Range(t.slots[s])
      BY <1>2, <3>1
    <3>. QED  BY <1>1, <3>2 DEF Pairs
  <2>. QED  BY <2>1, <2>2
<1>5. ToMap(t) = m
  <2>1. {pair.key : pair \in Pairs(t)} = DOMAIN m
    <3>1. \A k : PairOf(m, k).key = k
      BY DEF PairOf
    <3>2. \A x \in Pairs(t) : x.key \in DOMAIN m
      BY <1>4, <3>1
    <3>3. \A k \in DOMAIN m : PairOf(m, k) \in Pairs(t)
      BY <1>4
    <3>. QED  BY <3>1, <3>2, <3>3
  <2>2. ASSUME NEW k \in DOMAIN m
        PROVE  (CHOOSE pair \in Pairs(t) : pair.key = k).value = m[k]
    <3>1. PairOf(m, k) \in Pairs(t) /\ PairOf(m, k).key = k
      BY <1>4 DEF PairOf
    <3>2. \A x \in Pairs(t) : x.key = k => x.value = m[k]
      BY <1>4 DEF PairOf
    <3>. QED  BY <3>1, <3>2
  <2>3. ToMap(t) = [k \in DOMAIN m |-> (CHOOSE pair \in Pairs(t) : pair.key = k).value]
    BY <2>1 DEF ToMap
  <2>4. ToMap(t) = [k \in DOMAIN m |-> m[k]]
    BY <2>2, <2>3
  <2>. QED  BY <2>4 DEF IsMap
<1>6. ASSUME NEW p PROVE PairsBelow(t, p) = PairsUnder(m, p)
  <2>1. PairsBelow(t, p) = {x \in {PairOf(m, k) : k \in DOMAIN m} : IsPrefix(p, x.key)}
    BY <1>4 DEF PairsBelow
  <2>2. \A k : PairOf(m, k).key = k
    BY DEF PairOf
  <2>. QED  BY <2>1, <2>2 DEF PairsUnder, Under
<1>. QED  BY <1>4, <1>5, <1>6

--------------------------------------------------------------------------------
(* Resetting cells.                                                        *)
LEMMA ResetIs ==
  ASSUME NEW t, NEW m, NEW N, IsLaid(t, m, N), NEW k, NEW n
  PROVE  /\ IsLaid(Reset(t, k, n), m, N)
         /\ Reset(t, k, n).slots = t.slots
         /\ \A p \in N : Reset(t, k, n).cells[p] =
                           IF Len(p) < n /\ IsPrefix(p, k) THEN {} ELSE t.cells[p]
         /\ \A l : SlotOf(Reset(t, k, n), l) = SlotOf(t, l)
<1> DEFINE u == Reset(t, k, n)
<1>1. DOMAIN t.cells = N
  BY DEF IsLaid
<1>2. /\ u.slots = t.slots
      /\ u.cells = [p \in N |-> IF Len(p) < n /\ IsPrefix(p, k) THEN {} ELSE t.cells[p]]
      /\ u = [cells |-> u.cells, slots |-> u.slots]
  BY <1>1 DEF Reset
<1> HIDE DEF u
<1>3. DOMAIN u.cells = N
  BY <1>2
<1>4. u.cells = [p \in N |-> u.cells[p]]
  BY <1>2
<1>5. IsLaid(u, m, N)
  BY <1>2, <1>4 DEF IsLaid
<1>6. \A l : SlotOf(u, l) = SlotOf(t, l)
  BY <1>1, <1>3 DEF SlotOf, Depth
<1>. QED  BY <1>2, <1>5, <1>6 DEF u

(* The contents at p are those of the labels below p.                      *)
LEMMA SameContent ==
  ASSUME NEW m, NEW n, IsMap(m), IsMap(n), NEW p \in Big(m), p \in Big(n),
         \A l \in Labels : IsPrefix(p, l) =>
            (l \in DOMAIN m <=> l \in DOMAIN n) /\ (l \in DOMAIN m => m[l] = n[l])
  PROVE  Content(m, p) = Content(n, p)
<1>0. IsNodes(Big(m)) /\ IsNodes(Big(n)) /\ p \in Seq(Nat)
  BY BigAreNodes DEF IsNodes
<1>1. ASSUME NEW q \in Seq(Nat), IsPrefix(p, q)
      PROVE  Under(m, q) = Under(n, q) /\ PairsUnder(m, q) = PairsUnder(n, q)
  <2>1. ASSUME NEW l \in Labels, IsPrefix(q, l) PROVE IsPrefix(p, l)
    BY <1>0, <1>1, <2>1, LabelOf, PrefixOrder
  <2>2. \A l \in Labels : IsPrefix(q, l) =>
          (l \in DOMAIN m <=> l \in DOMAIN n) /\ (l \in DOMAIN m => m[l] = n[l])
    BY <2>1
  <2>3. Under(m, q) = Under(n, q)
    BY <2>2 DEF Under, IsMap
  <2>4. \A l \in Under(m, q) : PairOf(m, l) = PairOf(n, l)
    BY <2>2 DEF Under, IsMap, PairOf
  <2>. QED  BY <2>3, <2>4 DEF PairsUnder
<1>2. ASSUME NEW q \in Seq(Nat), IsPrefix(p, q)
      PROVE  q \in Big(m) <=> q \in Big(n)
  <2>1. q # <<>> => (q \in Big(m) <=> q \in Big(n))
    BY <1>1, <1>2 DEF Big
  <2>. QED  BY <2>1 DEF Big
<1>3. {q \in Big(m) : IsPrefix(p, q)} = {q \in Big(n) : IsPrefix(p, q)}
  BY <1>0, <1>2 DEF IsNodes
<1>4. ASSUME NEW r \in Seq(Nat), IsPrefix(p, r)
      PROVE  r \in SlotsOf(m, Big(m)) <=> r \in SlotsOf(n, Big(n))
  <2>1. (r \in Big(m) <=> r \in Big(n)) /\ Under(m, r) = Under(n, r)
    BY <1>1, <1>2, <1>4
  <2>2. ASSUME r # <<>>, r \notin Big(m)
        PROVE  Front(r) \in Big(m) <=> Front(r) \in Big(n)
    <3>1. r # p
      BY <2>2
    <3>2. Front(r) \in Seq(Nat) /\ IsPrefix(p, Front(r))
      BY <1>0, <1>4, <2>2, <3>1, FrontOf, PrefixStep
    <3>. QED  BY <1>2, <3>2
  <2>. QED  BY <2>1, <2>2 DEF SlotsOf
<1>5. {r \in SlotsOf(m, Big(m)) : IsPrefix(p, r)} =
        {r \in SlotsOf(n, Big(n)) : IsPrefix(p, r)}
  BY <1>4 DEF SlotsOf
<1>6. \A r \in {x \in SlotsOf(m, Big(m)) : IsPrefix(p, x)} :
         PairsUnder(m, r) = PairsUnder(n, r)
  BY <1>1 DEF SlotsOf
<1> DEFINE R == {x \in SlotsOf(m, Big(m)) : IsPrefix(p, x)}
<1>7. {<<s, Sorted(PairsUnder(m, s))>> : s \in R} =
        {<<s, Sorted(PairsUnder(n, s))>> : s \in R}
  <2>1. \A r \in R : <<r, Sorted(PairsUnder(m, r))>> = <<r, Sorted(PairsUnder(n, r))>>
    BY <1>6
  <2> HIDE DEF R
  <2>. QED  BY <2>1
<1>. QED  BY <1>3, <1>5, <1>7 DEF Content

(* Maps that differ at k only.                                             *)
DiffersAt(m, n, k) ==
  \A l \in Labels \ {k} :
    (l \in DOMAIN m <=> l \in DOMAIN n) /\ (l \in DOMAIN m => m[l] = n[l])

(* An edit at k that resets the cells on the way.                          *)
LEMMA EditHolds ==
  ASSUME NEW t, NEW m, Holds(t, m), NEW k \in Labels, NEW u, NEW n, IsMap(n),
         DiffersAt(m, n, k), IsLaid(u, n, Big(n)),
         \A p \in Big(n) :
            \/ u.cells[p] = {}
            \/ p \in Big(m) /\ ~IsPrefix(p, k) /\ u.cells[p] = t.cells[p]
  PROVE  Holds(u, n)
<1>1. ASSUME NEW p \in Big(n)
      PROVE  u.cells[p] = {} \/ u.cells[p] = {Content(n, p)}
  <2> SUFFICES ASSUME p \in Big(m), ~IsPrefix(p, k), u.cells[p] = t.cells[p]
               PROVE  t.cells[p] = {} \/ t.cells[p] = {Content(n, p)}
    OBVIOUS
  <2>1. t.cells[p] = {} \/ t.cells[p] = {Content(m, p)}
    BY DEF Holds, CellsAre
  <2>2. \A l \in Labels : IsPrefix(p, l) =>
          (l \in DOMAIN m <=> l \in DOMAIN n) /\ (l \in DOMAIN m => m[l] = n[l])
    BY DEF DiffersAt
  <2>3. IsMap(m)
    BY DEF Holds
  <2>4. Content(m, p) = Content(n, p)
    BY <2>2, <2>3, SameContent
  <2>. QED  BY <2>1, <2>4
<1>2. u.cells[<<>>] = {}
  <2>1. <<>> \in Big(n) /\ IsPrefix(<<>>, k)
    BY LabelOf, PrefixOrder DEF Big
  <2>. QED  BY <2>1
<1>. QED  BY <1>1, <1>2 DEF Holds, CellsAre

LEMMA ResetHolds ==
  ASSUME NEW t, NEW m, Holds(t, m), NEW k, NEW n
  PROVE  Holds(Reset(t, k, n), m)
<1>1. IsLaid(t, m, Big(m)) /\ IsMap(m) /\ CellsAre(t, m)
  BY DEF Holds
<1>2. PICK u : u = Reset(t, k, n)
  OBVIOUS
<1>3. /\ IsLaid(u, m, Big(m))
      /\ \A p \in Big(m) : u.cells[p] = IF Len(p) < n /\ IsPrefix(p, k) THEN {} ELSE t.cells[p]
  BY <1>1, <1>2, ResetIs
<1>4. <<>> \in Big(m)
  BY DEF Big
<1>5. CellsAre(u, m)
  BY <1>1, <1>3, <1>4 DEF CellsAre
<1>. QED  BY <1>1, <1>2, <1>3, <1>5 DEF Holds

--------------------------------------------------------------------------------
(* Setting a value.                                                        *)
Put(m, k, v) == [l \in DOMAIN m \cup {k} |-> IF l = k THEN v ELSE m[l]]

(* Off the way to k the maps are the same.                                 *)
LEMMA OffTheWay ==
  ASSUME NEW m, NEW n, IsMap(m), IsMap(n), NEW k \in Labels, DiffersAt(m, n, k),
         NEW p \in Seq(Nat), ~IsPrefix(p, k)
  PROVE  Under(m, p) = Under(n, p) /\ PairsUnder(m, p) = PairsUnder(n, p)
<1>1. \A l \in Labels : IsPrefix(p, l) =>
        (l \in DOMAIN m <=> l \in DOMAIN n) /\ (l \in DOMAIN m => m[l] = n[l])
  BY DEF DiffersAt
<1>2. Under(m, p) = Under(n, p)
  BY <1>1 DEF Under, IsMap
<1>3. \A l \in Under(m, p) : PairOf(m, l) = PairOf(n, l)
  BY <1>1 DEF Under, IsMap, PairOf
<1>. QED  BY <1>2, <1>3 DEF PairsUnder

LEMMA PutIs ==
  ASSUME NEW m, IsMap(m), NEW k \in Labels, NEW v, {k} \X v \subseteq Writes,
         NEW n, n = Put(m, k, v)
  PROVE  /\ IsMap(n) /\ DiffersAt(m, n, k) /\ DOMAIN n = DOMAIN m \cup {k} /\ n[k] = v
         /\ \A p \in Seq(Nat) : IsPrefix(p, k) =>
              /\ Under(n, p) = Under(m, p) \cup {k}
              /\ PairsUnder(n, p) =
                   {x \in PairsUnder(m, p) : x.key # k} \cup {[key |-> k, value |-> v]}
<1>1. DOMAIN n = DOMAIN m \cup {k} /\ n[k] = v /\ \A l \in DOMAIN m : l # k => n[l] = m[l]
  BY DEF Put
<1>2. n = [l \in DOMAIN n |-> n[l]]
  BY DEF Put
<1>3. IsFiniteSet(DOMAIN n)
  BY <1>1, FS_AddElement DEF IsMap
<1>4. IsMap(n)
  BY <1>1, <1>2, <1>3 DEF IsMap
<1>5. DiffersAt(m, n, k)
  BY <1>1 DEF DiffersAt
<1>6. ASSUME NEW p \in Seq(Nat), IsPrefix(p, k)
      PROVE  /\ Under(n, p) = Under(m, p) \cup {k}
             /\ PairsUnder(n, p) =
                  {x \in PairsUnder(m, p) : x.key # k} \cup {[key |-> k, value |-> v]}
  <2>1. Under(n, p) = Under(m, p) \cup {k}
    BY <1>1, <1>6 DEF Under
  <2>2. \A l \in DOMAIN m : l # k => PairOf(n, l) = PairOf(m, l)
    BY <1>1 DEF PairOf
  <2>3. PairOf(n, k) = [key |-> k, value |-> v]
    BY <1>1 DEF PairOf
  <2>4. \A l : PairOf(m, l).key = l
    BY DEF PairOf
  <2>5. ASSUME NEW x \in PairsUnder(n, p)
        PROVE  x \in {y \in PairsUnder(m, p) : y.key # k} \cup {[key |-> k, value |-> v]}
    <3>1. PICK l \in Under(m, p) \cup {k} : x = PairOf(n, l)
      BY <2>1 DEF PairsUnder
    <3>2. CASE l = k
      BY <2>3, <3>1, <3>2
    <3>3. CASE l # k
      <4>1. l \in DOMAIN m /\ x = PairOf(m, l) /\ x \in PairsUnder(m, p)
        BY <2>2, <3>1, <3>3 DEF PairsUnder, Under
      <4>. QED  BY <2>4, <3>3, <4>1
    <3>. QED  BY <3>2, <3>3
  <2>6. ASSUME NEW x \in PairsUnder(m, p), x.key # k PROVE x \in PairsUnder(n, p)
    <3>1. PICK l \in Under(m, p) : x = PairOf(m, l)
      BY DEF PairsUnder
    <3>2. l # k /\ l \in DOMAIN m
      BY <2>4, <2>6, <3>1 DEF Under
    <3>3. x = PairOf(n, l)
      BY <2>2, <3>1, <3>2
    <3>. QED  BY <2>1, <3>1, <3>3 DEF PairsUnder
  <2>7. [key |-> k, value |-> v] \in PairsUnder(n, p)
    BY <2>1, <2>3 DEF PairsUnder
  <2>. QED  BY <2>1, <2>5, <2>6, <2>7
<1>. QED  BY <1>1, <1>4, <1>5, <1>6

(* Buckets other than the one of k stay.                                   *)
LEMMA OtherSlots ==
  ASSUME NEW m, NEW n, IsMap(m), IsMap(n), NEW k \in Labels, DiffersAt(m, n, k),
         NEW N, NEW s, IsSlotOf(s, k, N)
  PROVE  /\ SlotsOf(n, N) \ {s} = SlotsOf(m, N) \ {s}
         /\ \A r \in SlotsOf(n, N) \ {s} : PairsUnder(n, r) = PairsUnder(m, r)
         /\ s \in SlotsOf(n, N) <=> Under(n, s) # {}
<1>1. ASSUME NEW r \in Seq(Nat), r # <<>>, r \notin N, Front(r) \in N, r # s
      PROVE  Under(m, r) = Under(n, r) /\ PairsUnder(m, r) = PairsUnder(n, r)
  <2>1. ~IsPrefix(r, k)
    BY <1>1 DEF IsSlotOf
  <2>. QED  BY <2>1, OffTheWay
<1>2. SlotsOf(n, N) \ {s} = SlotsOf(m, N) \ {s}
  BY <1>1 DEF SlotsOf
<1>3. \A r \in SlotsOf(n, N) \ {s} : PairsUnder(n, r) = PairsUnder(m, r)
  BY <1>1 DEF SlotsOf
<1>4. s \in SlotsOf(n, N) <=> Under(n, s) # {}
  BY DEF IsSlotOf, SlotsOf
<1>. QED  BY <1>2, <1>3, <1>4

LEMMA WithBucketIs ==
  ASSUME NEW m, NEW n, IsMap(m), IsMap(n), NEW k \in Labels, DiffersAt(m, n, k),
         NEW N, NEW s, IsSlotOf(s, k, N), NEW t, IsLaid(t, m, N)
  PROVE  /\ Under(n, s) # {} =>
              IsLaid(WithBucket(t, s, Sorted(PairsUnder(n, s))), n, N)
         /\ Under(n, s) = {} => IsLaid(Without(t, s), n, N)
<1>1. /\ SlotsOf(n, N) \ {s} = SlotsOf(m, N) \ {s}
      /\ \A r \in SlotsOf(n, N) \ {s} : PairsUnder(n, r) = PairsUnder(m, r)
      /\ s \in SlotsOf(n, N) <=> Under(n, s) # {}
  BY OtherSlots
<1>2. /\ t.cells = [p \in N |-> t.cells[p]]
      /\ DOMAIN t.slots = SlotsOf(m, N)
      /\ \A r \in SlotsOf(m, N) : t.slots[r] = Sorted(PairsUnder(m, r))
  BY DEF IsLaid
<1>3. ASSUME Under(n, s) # {}
      PROVE  IsLaid(WithBucket(t, s, Sorted(PairsUnder(n, s))), n, N)
  <2> DEFINE b == Sorted(PairsUnder(n, s))
             u == WithBucket(t, s, b)
  <2>1. u.cells = t.cells /\ u = [cells |-> u.cells, slots |-> u.slots]
    BY DEF WithBucket
  <2>2. u.slots = [r \in SlotsOf(m, N) \cup {s} |-> IF r = s THEN b ELSE t.slots[r]]
    BY <1>2 DEF WithBucket
  <2>3. SlotsOf(m, N) \cup {s} = SlotsOf(n, N)
    BY <1>1, <1>3
  <2>4. \A r \in SlotsOf(n, N) :
           (IF r = s THEN b ELSE t.slots[r]) = Sorted(PairsUnder(n, r))
    BY <1>1, <1>2
  <2> HIDE DEF u, b
  <2>5. u.slots = [r \in SlotsOf(n, N) |-> Sorted(PairsUnder(n, r))]
    BY <2>2, <2>3, <2>4
  <2>6. IsLaid(u, n, N)
    BY <1>2, <2>1, <2>5 DEF IsLaid
  <2>. QED  BY <2>6 DEF u, b
<1>4. ASSUME Under(n, s) = {} PROVE IsLaid(Without(t, s), n, N)
  <2> DEFINE u == Without(t, s)
  <2>1. u.cells = t.cells /\ u = [cells |-> u.cells, slots |-> u.slots]
    BY DEF Without
  <2>2. u.slots = [r \in SlotsOf(m, N) \ {s} |-> t.slots[r]]
    BY <1>2 DEF Without
  <2>3. SlotsOf(m, N) \ {s} = SlotsOf(n, N)
    BY <1>1, <1>4
  <2>4. \A r \in SlotsOf(n, N) : t.slots[r] = Sorted(PairsUnder(n, r))
    BY <1>1, <1>2, <2>3
  <2> HIDE DEF u
  <2>5. u.slots = [r \in SlotsOf(n, N) |-> Sorted(PairsUnder(n, r))]
    BY <2>2, <2>3, <2>4
  <2>6. IsLaid(u, n, N)
    BY <1>2, <2>1, <2>5 DEF IsLaid
  <2>. QED  BY <2>6 DEF u
<1>. QED  BY <1>3, <1>4

(* A pair inserted before the first greater one.                           *)
LEMMA InsertedIs ==
  ASSUME NEW S, IsPairs(S), NEW b, IsSorting(b, S), NEW pair, pair.key \in Labels,
         \A x \in S : x.key # pair.key
  PROVE  IsSorting(Inserted(b, pair), S \cup {pair})
<1> DEFINE k == pair.key
           D == {i \in DOMAIN b : Before(b[i].key, k)}
           T == S \cup {pair}
<1>0. PICK n : n = Len(b)
  OBVIOUS
<1>1. /\ b \in Seq(S) /\ n \in Nat /\ DOMAIN b = 1 .. n
      /\ \A i \in 1 .. n : b[i] \in S /\ b[i].key \in Labels
      /\ {b[i] : i \in 1 .. n} = S
      /\ \A i, j \in 1 .. n : i < j => Before(b[i].key, b[j].key)
  <2>1. b \in Seq(S) /\ n \in Nat /\ DOMAIN b = 1 .. n
    BY <1>0, LenProperties DEF IsSorting
  <2>2. \A i \in 1 .. n : b[i] \in S
    BY <1>0, <2>1, ElementOfSeq
  <2>3. {b[i] : i \in 1 .. n} = S /\ \A i, j \in 1 .. n : i < j => Before(b[i].key, b[j].key)
    BY <1>0 DEF IsSorting, Increases
  <2>. QED  BY <2>1, <2>2, <2>3 DEF IsPairs
<1>2. \E h \in 0 .. n : \A i \in 1 .. n : Before(b[i].key, k) <=> i <= h
  <2>1. CASE D = {}
    <3>1. \A i \in 1 .. n : Before(b[i].key, k) <=> i <= 0
      BY <1>1, <2>1
    <3>2. 0 \in 0 .. n
      BY <1>1
    <3>. QED  BY <3>1, <3>2
  <2>2. CASE D # {}
    <3>1. D \subseteq Nat /\ IsFiniteSet(D)
      <4>1. D \subseteq 1 .. n
        BY <1>1
      <4> HIDE DEF D
      <4>2. IsFiniteSet(1 .. n) /\ D \in SUBSET (1 .. n) /\ 1 .. n \subseteq Nat
        BY <1>1, <4>1, UpToCard
      <4>. QED  BY <4>2, FS_Subset
    <3> HIDE DEF D
    <3>2. PICK h \in D : \A i \in D : i <= h
      BY <2>2, <3>1, GreatestOf
    <3>3. h \in 1 .. n /\ Before(b[h].key, k)
      BY <1>1, <3>2 DEF D
    <3>4. ASSUME NEW i \in 1 .. n, i <= h PROVE Before(b[i].key, k)
      <4>1. CASE i = h
        BY <3>3, <4>1
      <4>2. CASE i # h
        <5>1. i < h
          BY <3>3, <3>4, <4>2
        <5>2. Before(b[i].key, b[h].key)
          BY <1>1, <3>3, <5>1
        <5>. QED  BY <1>1, <3>3, <5>2, BeforeIs
      <4>. QED  BY <4>1, <4>2
    <3>5. ASSUME NEW i \in 1 .. n, Before(b[i].key, k) PROVE i <= h
      BY <1>1, <3>2, <3>5 DEF D
    <3>6. h \in 0 .. n
      BY <3>3
    <3>. QED  BY <3>4, <3>5, <3>6
  <2>. QED  BY <2>1, <2>2
<1>3. PICK h \in 0 .. n : \A i \in 1 .. n : Before(b[i].key, k) <=> i <= h
  BY <1>2
<1>4. Cardinality(D) = h
  <2>1. D = 1 .. h
    BY <1>1, <1>3
  <2>2. h \in Nat
    BY <1>1
  <2>3. Cardinality(1 .. h) = h
    BY <2>2, UpToCard
  <2>. QED  BY <2>1, <2>3
<1> DEFINE v == SubSeq(b, 1, h)
           w == SubSeq(b, h + 1, n)
           c == Inserted(b, pair)
<1>5. c = v \o <<pair>> \o w
  <2>1. 1 + Cardinality(D) - 1 = h /\ 1 + Cardinality(D) = h + 1
    BY <1>1, <1>4
  <2>2. c = InsertAt(b, 1 + Cardinality(D), pair)
    BY DEF Inserted
  <2>3. PICK g : g = 1 + Cardinality(D)
    OBVIOUS
  <2> HIDE DEF D, c
  <2>4. c = InsertAt(b, g, pair)
    BY <2>2, <2>3
  <2>5. c = SubSeq(b, 1, g - 1) \o <<pair>> \o SubSeq(b, g, Len(b))
    BY <2>4 DEF InsertAt
  <2>6. g - 1 = h /\ g = h + 1
    BY <2>1, <2>3
  <2>. QED  BY <1>0, <2>5, <2>6
<1> HIDE DEF c
<1>6. b \in Seq(T) /\ pair \in T
  BY <1>1, SeqMonotonic
<1>7. v \in Seq(T) /\ Len(v) = h /\ \A i \in 1 .. h : v[i] = b[i]
  <2>1. \A i \in 1 .. h : b[i] \in T
    BY <1>1
  <2>2. 1 \in Int /\ h \in Int
    BY <1>1
  <2>3. /\ v \in Seq(T) /\ Len(v) = IF 1 <= h THEN h - 1 + 1 ELSE 0
        /\ \A i \in 1 .. h - 1 + 1 : v[i] = b[1 + i - 1]
    BY <1>6, <2>1, <2>2, SubSeqProperties
  <2> HIDE DEF v
  <2>. QED  BY <1>1, <2>3
<1>8. w \in Seq(T) /\ Len(w) = n - h /\ \A i \in 1 .. n - h : w[i] = b[h + i]
  <2>1. \A i \in h + 1 .. n : b[i] \in T
    BY <1>1
  <2>2. h + 1 \in Int /\ n \in Int
    BY <1>1
  <2>3. /\ w \in Seq(T)
        /\ Len(w) = IF h + 1 <= n THEN n - (h + 1) + 1 ELSE 0
        /\ \A i \in 1 .. n - (h + 1) + 1 : w[i] = b[h + 1 + i - 1]
    BY <1>6, <2>1, <2>2, SubSeqProperties
  <2> HIDE DEF w
  <2>4. Len(w) = n - h
    <3>1. h + 1 <= n => n - (h + 1) + 1 = n - h
      BY <1>1
    <3>2. ~(h + 1 <= n) => n - h = 0
      BY <1>1
    <3>. QED  BY <2>3, <3>1, <3>2
  <2>5. \A i \in 1 .. n - h :
           i \in 1 .. n - (h + 1) + 1 /\ h + 1 + i - 1 = h + i
    BY <1>1
  <2>. QED  BY <2>3, <2>4, <2>5
<1> HIDE DEF v, w
<1> DEFINE x == v \o <<pair>>
<1>9. x \in Seq(T) /\ Len(x) = h + 1 /\ x[h + 1] = pair /\ \A i \in 1 .. h : x[i] = b[i]
  <2>1. x = Append(v, pair)
    BY <1>6, <1>7, AppendIsConcat
  <2>2. /\ Append(v, pair) \in Seq(T) /\ Len(Append(v, pair)) = Len(v) + 1
        /\ \A i \in 1 .. Len(v) : Append(v, pair)[i] = v[i]
        /\ Append(v, pair)[Len(v) + 1] = pair
    BY <1>6, <1>7, AppendProperties
  <2>. QED  BY <1>1, <1>7, <2>1, <2>2
<1> HIDE DEF x
<1>10. /\ c \in Seq(T) /\ Len(c) = n + 1
       /\ \A i \in 1 .. Len(x) + Len(w) : c[i] = IF i <= Len(x) THEN x[i] ELSE w[i - Len(x)]
  <2>1. c = x \o w
    BY <1>5 DEF x
  <2>2. /\ x \o w \in Seq(T) /\ Len(x \o w) = Len(x) + Len(w)
        /\ \A i \in 1 .. Len(x) + Len(w) :
              (x \o w)[i] = IF i <= Len(x) THEN x[i] ELSE w[i - Len(x)]
    BY <1>8, <1>9, ConcatProperties
  <2>3. Len(x) + Len(w) = n + 1
    BY <1>1, <1>8, <1>9
  <2>. QED  BY <2>1, <2>2, <2>3
<1>11. /\ \A i \in 1 .. h : c[i] = b[i]
       /\ c[h + 1] = pair
       /\ \A i \in h + 1 .. n : c[i + 1] = b[i]
  <2>0. Len(x) + Len(w) = n + 1 /\ Len(x) = h + 1
    BY <1>1, <1>8, <1>9
  <2>1. \A i \in 1 .. h : c[i] = b[i]
    <3> TAKE i \in 1 .. h
    <3>1. i \in 1 .. Len(x) + Len(w) /\ i <= Len(x)
      BY <1>1, <2>0
    <3>. QED  BY <1>9, <1>10, <3>1
  <2>2. c[h + 1] = pair
    <3>1. h + 1 \in 1 .. Len(x) + Len(w) /\ h + 1 <= Len(x)
      BY <1>1, <2>0
    <3>. QED  BY <1>9, <1>10, <3>1
  <2>3. \A i \in h + 1 .. n : c[i + 1] = b[i]
    <3> TAKE i \in h + 1 .. n
    <3>1. i + 1 \in 1 .. Len(x) + Len(w) /\ ~(i + 1 <= Len(x))
      BY <1>1, <2>0
    <3>2. PICK g \in Int : g = i - h
      BY <1>1
    <3>3. g \in 1 .. n - h /\ h + g = i /\ i + 1 - (h + 1) = g
      BY <1>1, <3>2
    <3>4. c[i + 1] = w[i + 1 - Len(x)]
      BY <1>10, <3>1
    <3>5. c[i + 1] = w[g]
      BY <2>0, <3>3, <3>4
    <3>. QED  BY <1>8, <3>3, <3>5
  <2>. QED  BY <2>1, <2>2, <2>3
<1>12. \A i \in Int : i - 1 \in h + 1 .. n => c[i] = b[i - 1] /\ i - 1 \in 1 .. n /\ i - 1 > h
  <2> TAKE i \in Int
  <2> HAVE i - 1 \in h + 1 .. n
  <2>1. PICK g \in h + 1 .. n : g = i - 1
    OBVIOUS
  <2>2. g + 1 = i /\ g \in 1 .. n /\ g > h
    BY <1>1, <2>1
  <2>3. c[g + 1] = b[g]
    BY <1>11
  <2>. QED  BY <2>1, <2>2, <2>3
<1>13. {c[i] : i \in 1 .. Len(c)} = T
  <2>1. \A i \in 1 .. Len(c) : c[i] \in T
    BY <1>10, ElementOfSeq
  <2>2. ASSUME NEW y \in T PROVE \E i \in 1 .. Len(c) : c[i] = y
    <3>1. CASE y = pair
      <4>1. h + 1 \in 1 .. Len(c)
        BY <1>1, <1>10
      <4>. QED  BY <1>11, <3>1, <4>1
    <3>2. CASE y \in S
      <4>1. PICK i \in 1 .. n : b[i] = y
        BY <1>1, <3>2
      <4>2. /\ i \in 1 .. Len(c) /\ i + 1 \in 1 .. Len(c)
            /\ i \in 1 .. h \/ i \in h + 1 .. n
        BY <1>1, <1>10
      <4>. QED  BY <1>11, <4>1, <4>2
    <3>. QED  BY <3>1, <3>2
  <2>. QED  BY <2>1, <2>2
<1>14. ASSUME NEW i \in 1 .. Len(c), NEW j \in 1 .. Len(c), i < j
       PROVE  Before(c[i].key, c[j].key)
  <2>0. /\ i \in 1 .. h \/ i = h + 1 \/ i - 1 \in h + 1 .. n
        /\ j \in 1 .. h \/ j = h + 1 \/ j - 1 \in h + 1 .. n
        /\ i \in Int /\ j \in Int /\ h \in Nat
    BY <1>1, <1>10
  <2>1. \A g \in 1 .. n : g > h => Before(k, b[g].key)
    <3> TAKE g \in 1 .. n
    <3> HAVE g > h
    <3>1. ~Before(b[g].key, k) /\ b[g].key # k
      BY <1>1, <1>3
    <3>. QED  BY <1>1, <3>1, BeforeIs
  <2>2. \A g \in 1 .. n, l \in 1 .. n : g < l => Before(b[g].key, b[l].key)
    BY <1>1
  <2>3. CASE i \in 1 .. h
    <3>1. c[i] = b[i] /\ i \in 1 .. n /\ Before(b[i].key, k)
      BY <1>1, <1>3, <1>11, <2>3
    <3>2. CASE j \in 1 .. h
      <4>1. c[j] = b[j] /\ j \in 1 .. n
        BY <1>1, <1>11, <3>2
      <4>. QED  BY <1>14, <2>2, <3>1, <4>1
    <3>3. CASE j = h + 1
      BY <1>11, <3>1, <3>3
    <3>4. CASE j - 1 \in h + 1 .. n
      <4>1. c[j] = b[j - 1] /\ j - 1 \in 1 .. n /\ i < j - 1
        BY <1>12, <2>0, <2>3, <3>4
      <4>. QED  BY <2>2, <3>1, <4>1
    <3>. QED  BY <2>0, <3>2, <3>3, <3>4
  <2>4. CASE i = h + 1
    <3>1. j - 1 \in h + 1 .. n
      BY <1>14, <2>0, <2>4
    <3>2. c[j] = b[j - 1] /\ j - 1 \in 1 .. n /\ j - 1 > h
      BY <1>12, <2>0, <3>1
    <3>. QED  BY <1>11, <2>1, <2>4, <3>2
  <2>5. CASE i - 1 \in h + 1 .. n
    <3>1. j - 1 \in h + 1 .. n
      BY <1>14, <2>0, <2>5
    <3>2. /\ c[j] = b[j - 1] /\ j - 1 \in 1 .. n
          /\ c[i] = b[i - 1] /\ i - 1 \in 1 .. n /\ i - 1 < j - 1
      BY <1>12, <1>14, <2>0, <2>5, <3>1
    <3>. QED  BY <2>2, <3>2
  <2>. QED  BY <2>0, <2>3, <2>4, <2>5
<1>15. IsSorting(c, T)
  BY <1>10, <1>13, <1>14 DEF IsSorting, Increases
<1>. QED  BY <1>15 DEF c

--------------------------------------------------------------------------------
(* Two digests that agree up to d and in the next nibble agree up to it.   *)
LEMMA UptoNext ==
  ASSUME NEW x \in Seq(Nat), NEW y \in Seq(Nat), NEW d \in Nat,
         d < Len(x), d < Len(y)
  PROVE  /\ Upto(x, d + 1) = Upto(y, d + 1) <=> Upto(x, d) = Upto(y, d) /\ x[d + 1] = y[d + 1]
         /\ Front(Upto(x, d + 1)) = Upto(x, d)
<1>1. Len(x) \in Nat /\ Len(y) \in Nat
  BY LenProperties
<1>2. PICK e \in Nat : e = d + 1
  OBVIOUS
<1>3. /\ d \in 0 .. Len(x) /\ e \in 0 .. Len(x)
      /\ d \in 0 .. Len(y) /\ e \in 0 .. Len(y)
  BY <1>1, <1>2
<1> DEFINE a == Upto(x, d)
           b == Upto(y, d)
           g == Upto(x, e)
           h == Upto(y, e)
<1>4. a \in Seq(Nat) /\ Len(a) = d /\ \A i \in 1 .. d : a[i] = x[i]
  BY <1>3, UptoOf
<1>5. b \in Seq(Nat) /\ Len(b) = d /\ \A i \in 1 .. d : b[i] = y[i]
  BY <1>3, UptoOf
<1>6. g \in Seq(Nat) /\ Len(g) = e /\ \A i \in 1 .. e : g[i] = x[i]
  BY <1>3, UptoOf
<1>7. h \in Seq(Nat) /\ Len(h) = e /\ \A i \in 1 .. e : h[i] = y[i]
  BY <1>3, UptoOf
<1>8. Front(g) = a
  <2>1. e > 0 /\ e - 1 = d
    BY <1>2
  <2>2. Front(Upto(x, e)) = Upto(x, e - 1)
    BY <1>3, <2>1, UptoSteps
  <2>. QED  BY <2>1, <2>2
<1> HIDE DEF a, b, g, h
<1>9. ASSUME g = h PROVE a = b /\ x[e] = y[e]
  <2>1. \A i \in 1 .. e : x[i] = y[i]
    BY <1>6, <1>7, <1>9
  <2>2. \A i \in 1 .. d : a[i] = b[i]
    <3> TAKE i \in 1 .. d
    <3>1. i \in 1 .. e
      BY <1>2
    <3>. QED  BY <1>4, <1>5, <2>1, <3>1
  <2>3. a = b
    BY <1>4, <1>5, <2>2, SeqEqual
  <2>4. e \in 1 .. e
    BY <1>2
  <2>. QED  BY <2>1, <2>3, <2>4
<1>10. ASSUME a = b, x[e] = y[e] PROVE g = h
  <2>1. \A i \in 1 .. e : g[i] = h[i]
    <3> TAKE i \in 1 .. e
    <3>1. i \in 1 .. d \/ i = e
      BY <1>2
    <3>. QED  BY <1>4, <1>5, <1>6, <1>7, <1>10, <3>1
  <2>. QED  BY <1>6, <1>7, <2>1, SeqEqual
<1>11. g = h <=> a = b /\ x[e] = y[e]
  BY <1>9, <1>10
<1>. QED  BY <1>2, <1>8, <1>11 DEF a, b, g, h

(* Prefixes of a common prefix are common.                                 *)
LEMMA UptoDown ==
  ASSUME NEW x \in Seq(Nat), NEW y \in Seq(Nat), NEW d \in 0 .. Len(x), d <= Len(y),
         Upto(x, d) = Upto(y, d), NEW e \in 0 .. d
  PROVE  Upto(x, e) = Upto(y, e)
<1>1. Len(x) \in Nat /\ Len(y) \in Nat
  BY LenProperties
<1>2. /\ d \in 0 .. Len(y) /\ e \in 0 .. Len(x) /\ e \in 0 .. Len(y) /\ e \in Nat
  BY <1>1
<1> DEFINE a == Upto(x, d)
           b == Upto(y, d)
           g == Upto(x, e)
           h == Upto(y, e)
<1>3. \A i \in 1 .. d : a[i] = x[i]
  BY UptoOf
<1>4. \A i \in 1 .. d : b[i] = y[i]
  BY <1>2, UptoOf
<1>5. g \in Seq(Nat) /\ Len(g) = e /\ \A i \in 1 .. e : g[i] = x[i]
  BY <1>2, UptoOf
<1>6. h \in Seq(Nat) /\ Len(h) = e /\ \A i \in 1 .. e : h[i] = y[i]
  BY <1>2, UptoOf
<1>7. a = b
  OBVIOUS
<1> HIDE DEF a, b, g, h
<1>8. \A i \in 1 .. e : g[i] = h[i]
  <2> TAKE i \in 1 .. e
  <2>1. i \in 1 .. d
    BY <1>1
  <2>. QED  BY <1>3, <1>4, <1>5, <1>6, <1>7, <2>1
<1>9. g = h
  BY <1>5, <1>6, <1>8, SeqEqual
<1>. QED  BY <1>9 DEF g, h

(* Where labels that share the prefix s part.                              *)
PartsAt(K, some, a) ==
  /\ \A x \in K : Upto(x, a) = Upto(some, a)
  /\ \E x \in K : x[a + 1] # some[a + 1]

LEMMA LabelsPart ==
  ASSUME NEW K, K \subseteq Labels, NEW some \in K, NEW other \in K, other # some,
         NEW s \in Seq(Nat), \A x \in K : IsPrefix(s, x)
  PROVE  \E a \in Len(s) .. Len(some) - 1 : PartsAt(K, some, a)
<1> DEFINE l == Len(some)
           D == {d \in 0 .. l : \A x \in K : Upto(x, d) = Upto(some, d)}
<1>1. /\ some \in Seq(Nat) /\ l \in Nat \ {0}
      /\ \A x \in K : x \in Seq(Nat) /\ Len(x) = l
  BY LabelOf
<1>2. Len(s) \in 0 .. l /\ Len(s) \in D
  <2>1. \A x \in K : Len(s) <= Len(x) /\ s = Upto(x, Len(s))
    BY <1>1, PrefixIsUpto
  <2>2. Len(s) \in Nat
    BY LenProperties
  <2>3. Len(s) \in 0 .. l
    BY <1>1, <2>1, <2>2
  <2> HIDE DEF l
  <2>. QED  BY <2>1, <2>3
<1>3. l \notin D
  <2>1. Upto(some, l) = some /\ Upto(other, Len(other)) = other
    <3>1. 0 \in 0 .. Len(some) /\ 0 \in 0 .. Len(other)
      BY <1>1
    <3>. QED  BY <1>1, <3>1, UptoSteps
  <2>. QED  BY <1>1, <2>1
<1>4. PICK a \in D : \A d \in D : d <= a
  <2>1. D \subseteq Nat /\ D # {}
    <3>1. D \subseteq Nat
      BY <1>1
    <3>2. Len(s) \in D
      BY <1>2
    <3> HIDE DEF D
    <3>. QED  BY <3>1, <3>2
  <2>2. IsFiniteSet(D)
    <3>1. D \in SUBSET (0 .. l) /\ 0 \in Int /\ l \in Int
      BY <1>1
    <3> HIDE DEF D, l
    <3>. QED  BY <3>1, FS_Interval, FS_Subset
  <2> HIDE DEF D
  <2>. QED  BY <2>1, <2>2, GreatestOf
<1>5. a \in Len(s) .. l - 1 /\ a \in Nat
  <2>1. Len(s) <= a /\ a \in 0 .. l /\ a # l
    BY <1>2, <1>3, <1>4
  <2>. QED  BY <1>1, <1>2, <2>1
<1>6. \A x \in K : Upto(x, a) = Upto(some, a)
  BY <1>4
<1>7. \E x \in K : x[a + 1] # some[a + 1]
  <2> SUFFICES ASSUME \A x \in K : x[a + 1] = some[a + 1] PROVE FALSE
    OBVIOUS
  <2>1. \A x \in K : Upto(x, a + 1) = Upto(some, a + 1)
    <3> TAKE x \in K
    <3>1. x \in Seq(Nat) /\ a < Len(x) /\ a < Len(some) /\ a \in Nat
      BY <1>1, <1>5
    <3>. QED  BY <1>1, <1>6, <3>1, UptoNext
  <2>2. a + 1 \in 0 .. l
    BY <1>1, <1>5
  <2>3. a + 1 \in D
    BY <2>1, <2>2
  <2> HIDE DEF D
  <2>. QED  BY <1>4, <1>5, <2>3
<1>. QED  BY <1>5, <1>6, <1>7 DEF PartsAt

(* The nodes of the maps are the same off the way to k.                    *)
LEMMA BigOffTheWay ==
  ASSUME NEW m, NEW n, IsMap(m), IsMap(n), NEW k \in Labels, DiffersAt(m, n, k),
         NEW p \in Seq(Nat), ~IsPrefix(p, k)
  PROVE  p \in Big(m) <=> p \in Big(n)
<1>1. Under(m, p) = Under(n, p)
  BY OffTheWay
<1>2. p # <<>>
  BY LabelOf, PrefixOrder
<1>. QED  BY <1>1, <1>2 DEF Big

--------------------------------------------------------------------------------
(* Opening a bucket that is full.                                          *)
LinksTo(some, s, a) == {Upto(some, d) : d \in Len(s) .. a}

PartsOf(K, a) == {Upto(x, a + 1) : x \in K}

Opened(u, s, S, L, P) ==
  [cells |-> [p \in DOMAIN u.cells \cup L |-> IF p \in L THEN {} ELSE u.cells[p]],
   slots |-> [r \in (DOMAIN u.slots \ {s}) \cup P |->
                IF r \in P THEN Sorted({pair \in S : IsPrefix(r, pair.key)})
                ELSE u.slots[r]]]

KeysIn(S) == {x.key : x \in S}

LEMMA SplitShape ==
  ASSUME NEW S, IsPairs(S), NEW K, K = KeysIn(S),
         NEW k \in K, NEW l \in K, k # l,
         NEW s \in Seq(Nat), \A x \in K : IsPrefix(s, x), NEW u
  PROVE  \E some \in K : \E a \in Len(s) .. Len(some) - 1 :
           /\ PartsAt(K, some, a)
           /\ Split(u, s, S) = Opened(u, s, S, LinksTo(some, s, a), PartsOf(K, a))
<1> DEFINE some   == (CHOOSE pair \in S : TRUE).key
           P(d)   == /\ \A pair \in S : Upto(pair.key, d) = Upto(some, d)
                     /\ \E pair \in S : pair.key[d + 1] # some[d + 1]
           agreed == CHOOSE d \in Len(s) .. Len(some) - 1 : P(d)
<1>1. some \in K /\ K \subseteq Labels
  <2>1. (CHOOSE pair \in S : TRUE) \in S
    BY Zenon DEF KeysIn
  <2>2. PICK x \in S : x = CHOOSE pair \in S : TRUE
    BY <2>1
  <2>3. some = x.key
    BY <2>2
  <2> HIDE DEF some
  <2>4. some \in K
    BY <2>3 DEF KeysIn
  <2>5. K \subseteq Labels
    BY DEF IsPairs, KeysIn
  <2>. QED  BY <2>4, <2>5
<1>2. \E a \in Len(s) .. Len(some) - 1 : PartsAt(K, some, a)
  <2>1. \E x \in K : x # some
    OBVIOUS
  <2>2. PICK x \in K : x # some
    BY <2>1
  <2> HIDE DEF some
  <2>. QED  BY <1>1, <2>2, LabelsPart
<1>3. \A d : PartsAt(K, some, d) <=> P(d)
  BY DEF PartsAt, KeysIn
<1>4. agreed \in Len(s) .. Len(some) - 1 /\ P(agreed)
  <2> HIDE DEF P, some
  <2>1. \E a \in Len(s) .. Len(some) - 1 : P(a)
    BY <1>2, <1>3
  <2>. QED  BY <2>1
<1>5. Split(u, s, S) =
        Opened(u, s, S, {Upto(some, d) : d \in Len(s) .. agreed},
               {Upto(pair.key, agreed + 1) : pair \in S})
  BY DEF Split, Opened
<1> HIDE DEF agreed, some, P
<1>6. {Upto(pair.key, agreed + 1) : pair \in S} = PartsOf(K, agreed)
  BY DEF PartsOf, KeysIn
<1>7. {Upto(some, d) : d \in Len(s) .. agreed} = LinksTo(some, s, agreed)
  BY DEF LinksTo
<1>8. Split(u, s, S) = Opened(u, s, S, LinksTo(some, s, agreed), PartsOf(K, agreed))
  BY <1>5, <1>6, <1>7
<1>. QED  BY <1>1, <1>3, <1>4, <1>8

(* The prefixes on which more labels than one agree, and those after which *)
(* they part.                                                              *)
ArePartedAt(K, some, s, a) ==
  /\ \A x \in K : Len(x) = Len(some) /\ x \in Seq(Nat)
  /\ a \in Nat /\ Len(s) \in Nat
  /\ s \in LinksTo(some, s, a)
  /\ \A x \in K : \A d \in Len(s) .. a :
       /\ d \in 0 .. Len(x) /\ d < Len(x)
       /\ Upto(x, d) = Upto(some, d) /\ IsPrefix(Upto(x, d), x)
       /\ IsPrefix(s, Upto(x, d))
  /\ \A p \in Seq(Nat) : Len(p) > a => \E y \in K : ~IsPrefix(p, y)

LEMMA PartedLabels ==
  ASSUME NEW K, K \subseteq Labels, NEW some \in K, NEW s \in Seq(Nat),
         \A x \in K : IsPrefix(s, x),
         NEW a \in Len(s) .. Len(some) - 1, PartsAt(K, some, a)
  PROVE  ArePartedAt(K, some, s, a)
<1>1. /\ some \in Seq(Nat) /\ Len(some) \in Nat \ {0} /\ Len(s) \in Nat
      /\ \A x \in K : x \in Seq(Nat) /\ Len(x) = Len(some)
  BY LabelOf, LenProperties
<1>2. a \in Nat
  BY <1>1
<1>3. ASSUME NEW x \in K, NEW d \in Len(s) .. a
      PROVE  /\ d \in 0 .. Len(x) /\ d < Len(x)
             /\ Upto(x, d) = Upto(some, d) /\ IsPrefix(Upto(x, d), x)
             /\ IsPrefix(s, Upto(x, d))
  <2>1. /\ d \in 0 .. Len(x) /\ d < Len(x) /\ a \in 0 .. Len(x) /\ a <= Len(some)
        /\ d \in 0 .. a /\ Len(s) \in 0 .. Len(x) /\ Len(s) <= d
    <3>1. Len(x) = Len(some)
      BY <1>1
    <3>. QED  BY <1>1, <1>2, <3>1
  <2>2. Upto(x, a) = Upto(some, a)
    BY DEF PartsAt
  <2>3. Upto(x, d) = Upto(some, d)
    BY <1>1, <2>1, <2>2, UptoDown
  <2>4. s = Upto(x, Len(s))
    BY <1>1, PrefixIsUpto
  <2>5. IsPrefix(Upto(x, d), x)
    BY <1>1, <2>1, UptoSteps
  <2>6. IsPrefix(Upto(x, Len(s)), Upto(x, d))
    BY <1>1, <2>1, UptoSteps
  <2>. QED  BY <2>1, <2>3, <2>4, <2>5, <2>6
<1>4. s \in LinksTo(some, s, a)
  <2>1. s = Upto(some, Len(s))
    BY <1>1, PrefixIsUpto
  <2>2. Len(s) \in Len(s) .. a
    BY <1>1
  <2>. QED  BY <2>1, <2>2 DEF LinksTo
<1>5. ASSUME NEW p \in Seq(Nat), Len(p) > a PROVE \E y \in K : ~IsPrefix(p, y)
  <2> SUFFICES ASSUME \A y \in K : IsPrefix(p, y) PROVE FALSE
    OBVIOUS
  <2>1. a + 1 \in 1 .. Len(p) /\ Len(p) \in Nat
    BY <1>2, <1>5, LenProperties
  <2>2. \A y \in K : y[a + 1] = p[a + 1]
    BY <1>1, <2>1, PrefixOf
  <2>. QED  BY <2>2 DEF PartsAt
<1>. QED  BY <1>1, <1>2, <1>3, <1>4, <1>5 DEF ArePartedAt

(* A full bucket that is opened becomes a node for each prefix on which its *)
(* labels agree, and a bucket for each nibble after which they part.        *)
LEMMA SplitIs ==
  ASSUME NEW m, NEW n, IsMap(m), IsMap(n), NEW k \in Labels, DiffersAt(m, n, k),
         NEW s, IsSlotOf(s, k, Big(m)), k \in Under(n, s),
         Cardinality(Under(n, s)) = BucketSize + 1,
         Big(m) \subseteq Big(n),
         NEW u, IsLaid(u, m, Big(m)), NEW S, S = PairsUnder(n, s)
  PROVE  /\ IsLaid(Split(u, s, S), n, Big(n))
         /\ \A p \in Big(n) :
              \/ Split(u, s, S).cells[p] = {}
              \/ p \in Big(m) /\ Split(u, s, S).cells[p] = u.cells[p]
<1>0. PICK K : K = Under(n, s)
  OBVIOUS
<1> DEFINE N == Big(m)
<1>1. /\ s \in Seq(Nat) /\ s # <<>> /\ s \notin N /\ Front(s) \in N /\ IsPrefix(s, k)
      /\ \A p \in Seq(Nat) : IsPrefix(p, k) => (p \in N <=> Len(p) < Len(s))
  BY DEF IsSlotOf
<1>2. /\ IsFiniteSet(K) /\ K \subseteq Labels /\ IsPairs(S)
      /\ Cardinality(K) = BucketSize + 1 /\ BucketSize \in Nat \ {0}
      /\ \A x \in K : IsPrefix(s, x)
  BY <1>0, <1>1, UnderOf, BucketSizeIsPositive DEF Under
<1>3. K = {x.key : x \in S}
  <2>1. \A x : PairOf(n, x).key = x
    BY DEF PairOf
  <2>2. S = {PairOf(n, x) : x \in K}
    BY <1>0 DEF PairsUnder
  <2>. QED  BY <2>1, <2>2
<1>4. \E l \in K : l # k
  <2> SUFFICES ASSUME \A l \in K : l = k PROVE FALSE
    OBVIOUS
  <2>1. K = {k}
    BY <1>0
  <2>2. Cardinality(K) = 1
    BY <2>1, FS_Singleton
  <2>. QED  BY <1>2, <2>2
<1>5. IsNodes(N) /\ IsNodes(Big(n))
  BY BigAreNodes
<1>6. /\ SlotsOf(n, N) \ {s} = SlotsOf(m, N) \ {s}
      /\ \A r \in SlotsOf(n, N) \ {s} : PairsUnder(n, r) = PairsUnder(m, r)
  BY OtherSlots
<1>7. \A p \in Seq(Nat) : IsPrefix(s, p) =>
        /\ Under(n, p) \subseteq K
        /\ p \in Big(n) => \A x \in K : IsPrefix(p, x)
        /\ PairsUnder(n, p) = {pair \in S : IsPrefix(p, pair.key)}
  <2> TAKE p \in Seq(Nat)
  <2> HAVE IsPrefix(s, p)
  <2>1. Under(n, p) \subseteq K
    BY <1>0, <1>1, UnderOf
  <2>2. ASSUME p \in Big(n) PROVE \A x \in K : IsPrefix(p, x)
    <3>1. p # <<>>
      BY <1>1, PrefixOrder, EmptySeq
    <3>2. Cardinality(Under(n, p)) > BucketSize /\ Cardinality(Under(n, p)) \in Nat
      BY <2>2, <3>1, UnderOf DEF Big
    <3>3. Cardinality(Under(n, p)) >= Cardinality(K)
      BY <1>2, <3>2
    <3>4. Under(n, p) = K
      <4>1. /\ Cardinality(Under(n, p)) <= Cardinality(K)
            /\ Cardinality(Under(n, p)) = Cardinality(K) => Under(n, p) = K
        BY <1>2, <2>1, FS_Subset
      <4>. QED  BY <1>2, <3>2, <3>3, <4>1
    <3>. QED  BY <3>4 DEF Under
  <2>3. PairsUnder(n, p) = {pair \in S : IsPrefix(p, pair.key)}
    <3>1. \A x : x \in Under(n, p) <=> x \in K /\ IsPrefix(p, x)
      BY <1>0, <2>1 DEF Under
    <3>2. S = {PairOf(n, x) : x \in K} /\ \A x : PairOf(n, x).key = x
      BY <1>0 DEF PairsUnder, PairOf
    <3>3. \A y : y \in PairsUnder(n, p) <=> y \in S /\ IsPrefix(p, y.key)
      BY <3>1, <3>2 DEF PairsUnder
    <3>. QED  BY <3>3
  <2>. QED  BY <2>1, <2>2, <2>3
<1>8. PICK some \in K : \E a \in Len(s) .. Len(some) - 1 :
        /\ PartsAt(K, some, a)
        /\ Split(u, s, S) = Opened(u, s, S, LinksTo(some, s, a), PartsOf(K, a))
  <2>1. k \in K
    BY <1>0
  <2>2. PICK l \in K : l # k
    BY <1>4
  <2>3. /\ K = KeysIn(S) /\ IsPairs(S) /\ s \in Seq(Nat)
        /\ \A x \in K : IsPrefix(s, x)
    BY <1>1, <1>2, <1>3 DEF KeysIn
  <2>. QED  BY <2>1, <2>2, <2>3, SplitShape
<1>9. PICK a \in Len(s) .. Len(some) - 1 :
        /\ PartsAt(K, some, a)
        /\ Split(u, s, S) = Opened(u, s, S, LinksTo(some, s, a), PartsOf(K, a))
  BY <1>8
<1>10. /\ \A x \in K : Len(x) = Len(some) /\ x \in Seq(Nat)
       /\ a \in Nat /\ Len(s) \in Nat
       /\ s \in LinksTo(some, s, a)
       /\ \A x \in K : \A d \in Len(s) .. a :
            /\ d \in 0 .. Len(x) /\ d < Len(x)
            /\ Upto(x, d) = Upto(some, d) /\ IsPrefix(Upto(x, d), x)
            /\ IsPrefix(s, Upto(x, d))
       /\ \A p \in Seq(Nat) : Len(p) > a => \E y \in K : ~IsPrefix(p, y)
  <2>1. /\ PartsAt(K, some, a) /\ K \subseteq Labels /\ s \in Seq(Nat)
        /\ \A x \in K : IsPrefix(s, x)
    BY <1>1, <1>2, <1>9
  <2>2. ArePartedAt(K, some, s, a)
    BY <2>1, PartedLabels
  <2>. QED  BY <2>2 DEF ArePartedAt
<1> DEFINE L == LinksTo(some, s, a)
           P == PartsOf(K, a)
           t == Split(u, s, S)
<1>11. k \in K /\ s \in L
  BY <1>0, <1>10
<1>12. ASSUME NEW d \in Len(s) .. a
       PROVE  /\ Upto(some, d) \in L /\ Upto(some, d) \in Seq(Nat)
              /\ Upto(some, d) \in Big(n)
              /\ IsPrefix(s, Upto(some, d)) /\ Len(Upto(some, d)) = d
  <2> DEFINE p == Upto(some, d)
  <2>1. p \in Seq(Nat) /\ Len(p) = d
    BY <1>10, UptoOf
  <2>2. p \in L
    BY DEF LinksTo
  <2>3. IsPrefix(s, p) /\ \A x \in K : IsPrefix(p, x)
    BY <1>10
  <2> HIDE DEF p, L
  <2>4. K \subseteq Under(n, p)
    BY <1>0, <2>3 DEF Under
  <2>5. Under(n, p) = K
    BY <1>7, <2>1, <2>3, <2>4
  <2>6. p \in Big(n)
    BY <1>2, <2>1, <2>5 DEF Big
  <2>. QED  BY <2>1, <2>2, <2>3, <2>6 DEF p
<1>13. \A p \in L : \E d \in Len(s) .. a : p = Upto(some, d)
  BY DEF LinksTo
<1> HIDE DEF L
<1>14. Big(n) = N \cup L
  <2>1. ASSUME NEW p \in Big(n), p \notin N PROVE p \in L
    <3>1. p \in Seq(Nat)
      BY <1>5, <2>1 DEF IsNodes
    <3>2. IsPrefix(p, k)
      BY <2>1, <3>1, BigOffTheWay
    <3>3. ~(Len(p) < Len(s)) /\ Len(p) \in Nat
      BY <1>1, <2>1, <3>1, <3>2, LenProperties
    <3>4. IsPrefix(s, p)
      <4>1. IsPrefix(s, p) \/ IsPrefix(p, s)
        BY <1>1, <3>1, <3>2, LabelOf, PrefixOrder
      <4>2. IsPrefix(p, s) => p = s
        <5>1. ASSUME IsPrefix(p, s) PROVE p = s
          <6>1. Len(p) <= Len(s) /\ \A i \in 1 .. Len(p) : p[i] = s[i]
            BY <1>1, <3>1, <5>1, PrefixOf
          <6>2. Len(p) = Len(s)
            BY <1>10, <3>3, <6>1
          <6>. QED  BY <1>1, <3>1, <6>1, <6>2, SeqEqual
        <5>. QED  BY <5>1
      <4>3. IsPrefix(s, s)
        BY <1>1, PrefixOrder
      <4>. QED  BY <4>1, <4>2, <4>3
    <3>5. \A x \in K : IsPrefix(p, x)
      BY <1>7, <2>1, <3>1, <3>4
    <3>6. ~(Len(p) > a)
      BY <1>10, <3>1, <3>5
    <3>7. Len(p) \in Len(s) .. a
      BY <1>10, <3>3, <3>6
    <3>8. p = Upto(some, Len(p))
      BY <1>10, <3>1, <3>5, PrefixIsUpto
    <3>. QED  BY <1>12, <3>7, <3>8
  <2>2. L \subseteq Big(n)
    BY <1>12, <1>13
  <2>. QED  BY <2>1, <2>2
<1>15. \A r \in P : /\ r \in Seq(Nat) /\ r # <<>> /\ IsPrefix(s, r)
                    /\ Front(r) \in L /\ r \notin Big(n) /\ Under(n, r) # {}
  <2> SUFFICES ASSUME NEW x \in K
               PROVE  LET r == Upto(x, a + 1)
                      IN  /\ r \in Seq(Nat) /\ r # <<>> /\ IsPrefix(s, r)
                          /\ Front(r) \in L /\ r \notin Big(n) /\ Under(n, r) # {}
    BY DEF PartsOf
  <2> DEFINE r == Upto(x, a + 1)
  <2>1. a \in Len(s) .. a /\ a + 1 \in 0 .. Len(x) /\ a < Len(x) /\ x \in Seq(Nat)
    BY <1>9, <1>10
  <2>2. r \in Seq(Nat) /\ Len(r) = a + 1 /\ r # <<>>
    BY <1>10, <2>1, UptoOf, EmptySeq
  <2>3. Front(r) = Upto(some, a)
    <3>1. Front(r) = Upto(x, a)
      BY <1>10, <2>1, UptoNext
    <3>2. Upto(x, a) = Upto(some, a)
      BY <1>10, <2>1
    <3>. QED  BY <3>1, <3>2
  <2>4. IsPrefix(r, x)
    BY <2>1, UptoSteps
  <2> HIDE DEF r
  <2>5. Front(r) \in L /\ IsPrefix(s, Front(r)) /\ Front(r) \in Seq(Nat)
    BY <1>12, <2>1, <2>3
  <2>6. IsPrefix(s, r)
    BY <1>1, <2>2, <2>5, PrefixStep
  <2>7. x \in Under(n, r)
    BY <1>0, <2>4 DEF Under
  <2>8. r \notin Big(n)
    <3>1. Len(r) > a
      BY <1>10, <2>2
    <3>2. \E y \in K : ~IsPrefix(r, y)
      BY <1>10, <2>2, <3>1
    <3>. QED  BY <1>7, <2>2, <2>6, <3>2
  <2>. QED  BY <2>2, <2>5, <2>6, <2>7, <2>8 DEF r
<1>16. ASSUME NEW r \in SlotsOf(m, N) \ {s}
       PROVE  r \in SlotsOf(n, Big(n)) /\ r \notin P
  <2>1. r \in SlotsOf(n, N) /\ r # s
    BY <1>6
  <2>2. r \in Seq(Nat) /\ r # <<>> /\ Under(n, r) # {} /\ r \notin N /\ Front(r) \in N
    BY <2>1 DEF SlotsOf
  <2>3. ~IsPrefix(s, r)
    <3>1. IsPrefix(s, r) => IsPrefix(s, Front(r))
      BY <1>1, <2>1, <2>2, PrefixStep
    <3>2. ~IsPrefix(s, Front(r))
      BY <1>1, <1>5, <2>2, NodesAbove
    <3>. QED  BY <3>1, <3>2
  <2>4. r \notin L
    BY <1>12, <1>13, <2>3
  <2>5. r \notin P
    BY <1>15, <2>3
  <2>6. r \notin Big(n) /\ Front(r) \in Big(n)
    BY <1>14, <2>2, <2>4
  <2>. QED  BY <2>2, <2>5, <2>6 DEF SlotsOf
<1>17. ASSUME NEW r \in SlotsOf(n, Big(n)), r \notin P PROVE r \in SlotsOf(m, N) \ {s}
  <2>1. r \in Seq(Nat) /\ r # <<>> /\ Under(n, r) # {} /\ r \notin Big(n) /\ Front(r) \in Big(n)
    BY DEF SlotsOf
  <2>2. r # s /\ r \notin N /\ r \notin L
    BY <1>11, <1>14, <2>1
  <2>3. Front(r) \notin L
    <3> SUFFICES ASSUME Front(r) \in L PROVE FALSE
      OBVIOUS
    <3>1. PICK d \in Len(s) .. a : Front(r) = Upto(some, d)
      BY <1>13
    <3>2. PICK y \in Under(n, r) : TRUE
      BY <2>1
    <3>3. IsPrefix(s, Front(r)) /\ Len(Front(r)) = d
      BY <1>12, <3>1
    <3>4. IsPrefix(s, r)
      BY <1>1, <2>1, <3>3, PrefixStep
    <3>5. y \in K /\ IsPrefix(r, y)
      BY <1>7, <2>1, <3>2, <3>4 DEF Under
    <3>6. Len(r) = d + 1
      <4>1. Len(r) \in Nat /\ Len(Front(r)) = Len(r) - 1
        BY <2>1, FrontOf
      <4>. QED  BY <3>3, <4>1
    <3>7. r = Upto(y, d + 1)
      <4>1. r = Upto(y, Len(r))
        BY <1>10, <2>1, <3>5, PrefixIsUpto
      <4>. QED  BY <3>6, <4>1
    <3>8. CASE d = a
      <4>1. r = Upto(y, a + 1)
        BY <3>7, <3>8
      <4>. QED  BY <1>17, <3>5, <4>1 DEF PartsOf
    <3>9. CASE d # a
      <4>1. PICK e \in Len(s) .. a : e = d + 1
        BY <1>10, <3>9
      <4>2. r = Upto(some, e)
        BY <1>10, <3>5, <3>7, <4>1
      <4>. QED  BY <1>12, <2>2, <4>2
    <3>. QED  BY <3>8, <3>9
  <2>4. Front(r) \in N
    BY <1>14, <2>1, <2>3
  <2>5. r \in SlotsOf(n, N)
    BY <2>1, <2>2, <2>4 DEF SlotsOf
  <2>. QED  BY <1>6, <2>2, <2>5
<1>18. SlotsOf(n, Big(n)) = (SlotsOf(m, N) \ {s}) \cup P
  <2>1. P \subseteq SlotsOf(n, Big(n))
    BY <1>14, <1>15 DEF SlotsOf
  <2>. QED  BY <1>16, <1>17, <2>1
<1>19. /\ u.cells = [p \in N |-> u.cells[p]]
       /\ u.slots = [r \in SlotsOf(m, N) |-> Sorted(PairsUnder(m, r))]
  BY DEF IsLaid
<1>20. t = Opened(u, s, S, L, P)
  BY <1>9 DEF L
<1> HIDE DEF t, P
<1>21. t.cells = [p \in Big(n) |-> IF p \in L THEN {} ELSE u.cells[p]]
  <2>1. DOMAIN u.cells = N
    BY <1>19
  <2>. QED  BY <1>14, <1>20, <2>1 DEF Opened
<1>22. t.slots = [r \in SlotsOf(n, Big(n)) |->
                    IF r \in P THEN Sorted({pair \in S : IsPrefix(r, pair.key)})
                    ELSE u.slots[r]]
  <2>1. DOMAIN u.slots = SlotsOf(m, N)
    BY <1>19
  <2>. QED  BY <1>18, <1>20, <2>1 DEF Opened
<1>23. ASSUME NEW r \in SlotsOf(n, Big(n)) PROVE t.slots[r] = Sorted(PairsUnder(n, r))
  <2>1. CASE r \in P
    <3>1. r \in Seq(Nat) /\ IsPrefix(s, r)
      BY <1>15, <2>1
    <3>2. PairsUnder(n, r) = {pair \in S : IsPrefix(r, pair.key)}
      BY <1>7, <3>1
    <3>. QED  BY <1>22, <2>1, <3>2
  <2>2. CASE r \notin P
    <3>1. r \in SlotsOf(m, N) \ {s}
      BY <1>17, <2>2
    <3>2. PairsUnder(n, r) = PairsUnder(m, r)
      BY <1>6, <3>1
    <3>3. u.slots[r] = Sorted(PairsUnder(m, r))
      BY <1>19, <3>1
    <3>. QED  BY <1>22, <2>2, <3>2, <3>3
  <2>. QED  BY <2>1, <2>2
<1>24. t = [cells |-> t.cells, slots |-> t.slots]
  BY <1>20 DEF Opened
<1>25. t.cells = [p \in Big(n) |-> t.cells[p]]
  BY <1>21
<1>26. t.slots = [r \in SlotsOf(n, Big(n)) |-> Sorted(PairsUnder(n, r))]
  BY <1>22, <1>23
<1>27. IsLaid(t, n, Big(n))
  BY <1>24, <1>25, <1>26 DEF IsLaid
<1>28. \A p \in Big(n) :
         \/ t.cells[p] = {}
         \/ p \in N /\ t.cells[p] = u.cells[p]
  BY <1>14, <1>21
<1>. QED  BY <1>27, <1>28 DEF t

(* Setting a value makes no node, unless the bucket is too full then.      *)
LEMMA BigGrows ==
  ASSUME NEW m, IsMap(m), NEW k \in Labels, NEW n, IsMap(n), DiffersAt(m, n, k),
         DOMAIN n = DOMAIN m \cup {k}, NEW s, IsSlotOf(s, k, Big(m))
  PROVE  /\ Big(m) \subseteq Big(n)
         /\ Cardinality(Under(n, s)) <= BucketSize => Big(n) = Big(m)
<1>1. \A p \in Seq(Nat) : Under(m, p) \subseteq Under(n, p)
  BY DEF Under
<1>2. \A p \in Seq(Nat) : Cardinality(Under(m, p)) <= Cardinality(Under(n, p))
  BY <1>1, UnderOf, FS_Subset
<1>3. Big(m) \subseteq Big(n)
  <2> SUFFICES ASSUME NEW p \in Big(m), p # <<>> PROVE p \in Big(n)
    BY DEF Big
  <2>1. p \in Seq(Nat) /\ Cardinality(Under(m, p)) > BucketSize
    BY DEF Big
  <2>2. Cardinality(Under(n, p)) \in Nat /\ Cardinality(Under(m, p)) \in Nat
    BY <2>1, UnderOf
  <2>3. Cardinality(Under(n, p)) > BucketSize
    BY <1>2, <2>1, <2>2, BucketSizeIsPositive
  <2>. QED  BY <2>1, <2>3 DEF Big
<1>4. ASSUME Cardinality(Under(n, s)) <= BucketSize, NEW p \in Big(n), p \notin Big(m)
      PROVE  FALSE
  <2>1. p \in Seq(Nat) /\ p # <<>> /\ Cardinality(Under(n, p)) > BucketSize
    BY <1>4 DEF Big
  <2>2. IsPrefix(p, k)
    BY <1>4, <2>1, BigOffTheWay
  <2>3. s \in Seq(Nat) /\ IsPrefix(s, k) /\ ~(Len(p) < Len(s))
    BY <1>4, <2>1, <2>2 DEF IsSlotOf
  <2>4. IsPrefix(s, p)
    <3>1. k \in Seq(Nat) /\ Len(s) \in Nat /\ Len(p) \in Nat
      BY <2>1, <2>3, LabelOf, LenProperties
    <3>2. /\ Len(s) <= Len(p)
          /\ \A i \in 1 .. Len(s) : s[i] = k[i]
          /\ \A i \in 1 .. Len(p) : p[i] = k[i]
      BY <2>1, <2>2, <2>3, <3>1, PrefixOf
    <3>3. \A i \in 1 .. Len(s) : s[i] = p[i]
      BY <3>1, <3>2
    <3>. QED  BY <2>1, <2>3, <3>2, <3>3, PrefixOf
  <2>5. /\ Cardinality(Under(n, p)) <= Cardinality(Under(n, s))
        /\ Cardinality(Under(n, p)) \in Nat /\ Cardinality(Under(n, s)) \in Nat
    BY <2>1, <2>3, <2>4, UnderOf
  <2>. QED  BY <1>4, <2>1, <2>5, BucketSizeIsPositive
<1>. QED  BY <1>3, <1>4

(* A bucket with one of its pairs replaced.                                *)
LEMMA ReplacedIs ==
  ASSUME NEW m, NEW n, IsMap(m), IsMap(n), NEW k \in Labels, DiffersAt(m, n, k),
         k \in DOMAIN m, k \in DOMAIN n,
         NEW s \in Seq(Nat), IsPrefix(s, k), NEW b, IsBucketOf(b, m, s),
         NEW c, c = [i \in DOMAIN b |-> IF b[i].key = k THEN PairOf(n, k) ELSE b[i]]
  PROVE  c = Sorted(PairsUnder(n, s))
<1>0. PICK S : S = PairsUnder(n, s)
  OBVIOUS
<1>1. PICK h : h = Len(b)
  OBVIOUS
<1>2. /\ h \in Nat /\ DOMAIN b = 1 .. h
      /\ \A i \in 1 .. h : b[i].key \in Under(m, s) /\ b[i].key \in Labels
                           /\ b[i] = PairOf(m, b[i].key)
      /\ \A l \in Under(m, s) : \E i \in 1 .. h : b[i] = PairOf(m, l)
      /\ \A i, j \in 1 .. h : i < j => Before(b[i].key, b[j].key)
  BY <1>1 DEF IsBucketOf, IsSorting, Increases
<1>3. Under(m, s) = Under(n, s) /\ \A l : PairOf(m, l).key = l /\ PairOf(n, l).key = l
  BY DEF Under, DiffersAt, IsMap, PairOf
<1>4. \A i \in 1 .. h : c[i] = PairOf(n, b[i].key) /\ c[i].key = b[i].key
  <2> TAKE i \in 1 .. h
  <2>1. CASE b[i].key = k
    BY <1>2, <1>3, <2>1
  <2>2. CASE b[i].key # k
    <3>1. b[i].key \in DOMAIN m /\ m[b[i].key] = n[b[i].key]
      BY <1>2, <2>2 DEF DiffersAt, Under
    <3>2. c[i] = PairOf(m, b[i].key)
      BY <1>2, <2>2
    <3>. QED  BY <1>3, <3>1, <3>2 DEF PairOf
  <2>. QED  BY <2>1, <2>2
<1>5. S = {PairOf(n, l) : l \in Under(n, s)}
  BY <1>0 DEF PairsUnder
<1>6. c \in Seq(S) /\ Len(c) = h
  <2>1. \A i \in 1 .. h : c[i] \in S
    BY <1>2, <1>3, <1>4, <1>5
  <2>2. c = [i \in 1 .. h |-> c[i]]
    BY <1>2
  <2>. QED  BY <1>2, <2>1, <2>2, IsASeq
<1>7. \A x \in S : \E i \in 1 .. h : c[i] = x
  <2> TAKE x \in S
  <2>1. PICK l \in Under(n, s) : x = PairOf(n, l)
    BY <1>5
  <2>2. PICK i \in 1 .. h : b[i] = PairOf(m, l)
    BY <1>2, <1>3
  <2>3. b[i].key = l
    BY <1>3, <2>2
  <2>. QED  BY <1>4, <2>1, <2>3
<1>8. {c[i] : i \in 1 .. Len(c)} = S
  BY <1>2, <1>3, <1>4, <1>5, <1>6, <1>7
<1>9. Increases(c)
  BY <1>2, <1>4, <1>6 DEF Increases
<1>10. IsSorting(c, S) /\ IsPairs(S)
  BY <1>0, <1>6, <1>8, <1>9, UnderOf DEF IsSorting
<1>. QED  BY <1>0, <1>10, SortedIs

(* Setting a value sets it in the map, and the cells on the way are reset. *)
LEMMA SetValueHolds ==
  ASSUME NEW t, NEW m, Holds(t, m), NEW k \in Labels, NEW v, {k} \X v \subseteq Writes
  PROVE  Holds(SetValue(t, k, v), Put(m, k, v))
<1>1. PICK n : n = Put(m, k, v)
  OBVIOUS
<1>2. PICK s : s = SlotOf(t, k)
  OBVIOUS
<1>3. PICK b : b = Bucket(t, s)
  OBVIOUS
<1>4. PICK u : u = Reset(t, k, Len(s))
  OBVIOUS
<1>5. PICK pair : pair = [key |-> k, value |-> v]
  OBVIOUS
<1> DEFINE N == Big(m)
           w == SetValue(t, k, v)
<1>6. IsMap(m) /\ IsLaid(t, m, N) /\ CellsAre(t, m) /\ IsNodes(N)
  BY BigAreNodes DEF Holds
<1>7. /\ IsMap(n) /\ DiffersAt(m, n, k) /\ DOMAIN n = DOMAIN m \cup {k} /\ n[k] = v
      /\ \A p \in Seq(Nat) : IsPrefix(p, k) =>
           /\ Under(n, p) = Under(m, p) \cup {k}
           /\ PairsUnder(n, p) =
                {x \in PairsUnder(m, p) : x.key # k} \cup {pair}
  <2>1. /\ IsMap(n) /\ DiffersAt(m, n, k) /\ DOMAIN n = DOMAIN m \cup {k} /\ n[k] = v
        /\ \A p \in Seq(Nat) : IsPrefix(p, k) =>
             /\ Under(n, p) = Under(m, p) \cup {k}
             /\ PairsUnder(n, p) =
                  {x \in PairsUnder(m, p) : x.key # k} \cup {[key |-> k, value |-> v]}
    BY <1>1, <1>6, PutIs
  <2>. QED  BY <1>5, <2>1
<1>8. /\ IsSlotOf(s, k, N) /\ IsBucketOf(b, m, s)
      /\ k \in DOMAIN m <=> k \in Under(m, s)
      /\ Position(b, k) = {i \in 1 .. Len(b) : b[i].key = k}
      /\ k \in DOMAIN m <=> Position(b, k) # {}
  BY <1>2, <1>3, <1>6, BucketIs
<1>9. /\ s \in Seq(Nat) /\ IsPrefix(s, k) /\ s \notin N
      /\ \A p \in Seq(Nat) : IsPrefix(p, k) => (p \in N <=> Len(p) < Len(s))
  BY <1>8 DEF IsSlotOf
<1>10. /\ IsLaid(u, m, N)
       /\ \A p \in N : u.cells[p] = IF Len(p) < Len(s) /\ IsPrefix(p, k) THEN {}
                                    ELSE t.cells[p]
  BY <1>4, <1>6, ResetIs
<1>11. \A p \in N :
         \/ u.cells[p] = {}
         \/ ~IsPrefix(p, k) /\ u.cells[p] = t.cells[p]
  BY <1>6, <1>9, <1>10 DEF IsNodes
<1>12. /\ N \subseteq Big(n)
       /\ Cardinality(Under(n, s)) <= BucketSize => Big(n) = N
  BY <1>6, <1>7, <1>8, BigGrows
<1>13. /\ Under(n, s) = Under(m, s) \cup {k}
       /\ PairsUnder(n, s) = {x \in PairsUnder(m, s) : x.key # k} \cup {pair}
  BY <1>7, <1>9
<1>14. /\ IsFiniteSet(Under(m, s)) /\ Cardinality(Under(m, s)) \in Nat
       /\ Cardinality(Under(m, s)) <= BucketSize
       /\ BucketSize \in Nat
  <2>1. IsFiniteSet(Under(m, s)) /\ Cardinality(Under(m, s)) \in Nat
    BY <1>6, <1>9, UnderOf
  <2>2. ~(Cardinality(Under(m, s)) > BucketSize)
    BY <1>9 DEF Big
  <2>. QED  BY <2>1, <2>2, BucketSizeIsPositive
<1>15. w = IF Position(b, k) # {}
           THEN WithBucket(u, s, [i \in DOMAIN b |->
                                    IF i \in Position(b, k) THEN pair ELSE b[i]])
           ELSE IF Len(b) < BucketSize
           THEN WithBucket(u, s, Inserted(b, pair))
           ELSE Split(u, s, Range(b) \cup {pair})
  BY <1>2, <1>3, <1>4, <1>5 DEF SetValue
<1>16. Len(b) = Cardinality(Under(m, s)) /\ DOMAIN b = 1 .. Len(b)
       /\ IsSorting(b, PairsUnder(m, s))
  BY <1>8 DEF IsBucketOf
<1> HIDE DEF w
<1>17. /\ Under(n, s) # {}
       /\ Under(n, s) # {} => IsLaid(WithBucket(u, s, Sorted(PairsUnder(n, s))), n, N)
  <2>1. Under(n, s) # {}
    BY <1>13
  <2>. QED  BY <1>6, <1>7, <1>8, <1>10, <2>1, WithBucketIs
<1>18. ASSUME w = WithBucket(u, s, Sorted(PairsUnder(n, s))), Big(n) = N
       PROVE  Holds(w, n)
  <2>1. IsLaid(w, n, Big(n))
    BY <1>17, <1>18
  <2>2. w.cells = u.cells
    BY <1>18 DEF WithBucket
  <2>3. \A p \in Big(n) :
          \/ w.cells[p] = {}
          \/ p \in Big(m) /\ ~IsPrefix(p, k) /\ w.cells[p] = t.cells[p]
    BY <1>11, <1>18, <2>2
  <2>. QED  BY <1>7, <2>1, <2>3, EditHolds
<1>19. CASE Position(b, k) # {}
  <2>1. k \in DOMAIN m /\ k \in DOMAIN n
    BY <1>7, <1>8, <1>19
  <2>2. Big(n) = N
    <3>1. Under(n, s) = Under(m, s)
      BY <1>8, <1>13, <2>1
    <3>. QED  BY <1>12, <1>14, <3>1
  <2>3. PICK c : c = [i \in DOMAIN b |-> IF b[i].key = k THEN PairOf(n, k) ELSE b[i]]
    OBVIOUS
  <2>4. c = Sorted(PairsUnder(n, s))
    BY <1>6, <1>7, <1>8, <1>9, <2>1, <2>3, ReplacedIs
  <2>5. c = [i \in DOMAIN b |-> IF i \in Position(b, k) THEN pair ELSE b[i]]
    <3>1. PairOf(n, k) = pair
      BY <1>5, <1>7 DEF PairOf
    <3>2. \A i \in DOMAIN b : i \in Position(b, k) <=> b[i].key = k
      BY <1>8, <1>16
    <3>. QED  BY <2>3, <3>1, <3>2
  <2>6. w = WithBucket(u, s, c)
    BY <1>15, <1>19, <2>5
  <2>7. w = WithBucket(u, s, Sorted(PairsUnder(n, s)))
    BY <2>4, <2>6
  <2>. QED  BY <1>1, <1>18, <2>2, <2>7 DEF w
<1>20. CASE Position(b, k) = {}
  <2>1. PICK S : S = PairsUnder(m, s)
    OBVIOUS
  <2>2. k \notin DOMAIN m /\ k \notin Under(m, s) /\ pair.key = k
    BY <1>5, <1>8, <1>20
  <2>3. \A x \in S : x.key # k
    <3>1. \A l : PairOf(m, l).key = l
      BY DEF PairOf
    <3>. QED  BY <2>1, <2>2, <3>1 DEF PairsUnder
  <2>4. PairsUnder(n, s) = S \cup {pair}
    BY <1>13, <2>1, <2>3
  <2>5. IsPairs(S) /\ IsSorting(b, S)
    BY <1>6, <1>9, <1>16, <2>1, UnderOf
  <2>6. Cardinality(Under(n, s)) = Len(b) + 1
    <3>1. PICK A : A = Under(m, s)
      OBVIOUS
    <3>2. Cardinality(A \cup {k}) = Cardinality(A) + 1
      BY <1>14, <2>2, <3>1, FS_AddElement
    <3>. QED  BY <1>13, <1>16, <3>1, <3>2
  <2>7. CASE Len(b) < BucketSize
    <3>1. Big(n) = N
      BY <1>12, <1>14, <1>16, <2>6, <2>7
    <3>2. IsSorting(Inserted(b, pair), S \cup {pair})
      BY <2>2, <2>3, <2>5, InsertedIs
    <3>3. Inserted(b, pair) = Sorted(PairsUnder(n, s))
      <4>1. IsPairs(PairsUnder(n, s))
        BY <1>7, <1>9, UnderOf
      <4>. QED  BY <2>4, <3>2, <4>1, SortedIs
    <3>4. w = WithBucket(u, s, Inserted(b, pair))
      BY <1>15, <1>20, <2>7
    <3>. QED  BY <1>1, <1>18, <3>1, <3>3, <3>4 DEF w
  <2>8. CASE ~(Len(b) < BucketSize)
    <3>1. Len(b) = BucketSize
      BY <1>14, <1>16, <2>8
    <3>2. Range(b) = S
      BY <1>16, <2>5 DEF IsSorting, Range
    <3>3. PICK T : T = PairsUnder(n, s)
      OBVIOUS
    <3>4. w = Split(u, s, T)
      BY <1>15, <1>20, <2>4, <2>8, <3>2, <3>3
    <3>5. k \in Under(n, s) /\ Cardinality(Under(n, s)) = BucketSize + 1
      BY <1>13, <2>6, <3>1
    <3>6. /\ IsLaid(Split(u, s, T), n, Big(n))
          /\ \A p \in Big(n) :
               \/ Split(u, s, T).cells[p] = {}
               \/ p \in Big(m) /\ Split(u, s, T).cells[p] = u.cells[p]
      BY <1>6, <1>7, <1>8, <1>10, <1>12, <3>3, <3>5, SplitIs
    <3>7. \A p \in Big(n) :
            \/ w.cells[p] = {}
            \/ p \in Big(m) /\ ~IsPrefix(p, k) /\ w.cells[p] = t.cells[p]
      BY <1>11, <3>4, <3>6
    <3>8. IsLaid(w, n, Big(n))
      BY <3>4, <3>6
    <3>9. Holds(w, n)
      BY <1>7, <3>7, <3>8, EditHolds
    <3>. QED  BY <1>1, <3>9 DEF w
  <2>. QED  BY <2>7, <2>8
<1>. QED  BY <1>19, <1>20

(* What the map has under a label.                                         *)
Had(m, l) == IF l \in DOMAIN m THEN m[l] ELSE {}

(* Putting a CID adds it to what is under the label.                       *)
LEMMA ExtendedHolds ==
  ASSUME NEW t, NEW m, Holds(t, m), NEW l \in Labels, NEW c, <<l, c>> \in Writes
  PROVE  Holds(Extended(t, l, c), Put(m, l, Had(m, l) \cup {c}))
<1>1. PICK s : s = SlotOf(t, l)
  OBVIOUS
<1>2. PICK b : b = Bucket(t, s)
  OBVIOUS
<1>3. PICK u : u = GetMut(t, l)
  OBVIOUS
<1>4. PICK v : v = Had(m, l) \cup {c}
  OBVIOUS
<1> DEFINE N == Big(m)
           w == Extended(t, l, c)
<1>5. IsMap(m) /\ IsLaid(t, m, N) /\ CellsAre(t, m) /\ IsNodes(N)
  BY BigAreNodes DEF Holds
<1>6. /\ s \in DOMAIN t.slots <=> Under(m, s) # {}
      /\ IsBucketOf(b, m, s)
      /\ Position(b, l) = {i \in 1 .. Len(b) : b[i].key = l}
      /\ l \in DOMAIN m <=> Position(b, l) # {}
      /\ l \in DOMAIN m <=> l \in Under(m, s)
  BY <1>1, <1>2, <1>5, BucketIs
<1>7. {l} \X v \subseteq Writes
  <2>1. l \in DOMAIN m => {l} \X m[l] \subseteq Writes
    BY <1>5 DEF IsMap
  <2>. QED  BY <1>4, <2>1 DEF Had
<1>8. w = IF Position(b, l) # {}
          THEN WithBucket(u, s, [i \in DOMAIN b |->
                                   IF i \in Position(b, l)
                                   THEN [key |-> l, value |-> b[i].value \cup {c}]
                                   ELSE b[i]])
          ELSE SetValue(u, l, {c})
  BY <1>1, <1>2, <1>3 DEF Extended
<1>9. u = Reset(t, l, IF s \in DOMAIN t.slots THEN Len(s) ELSE Len(s) - 1)
  BY <1>1, <1>3 DEF GetMut
<1> HIDE DEF w
<1>10. CASE Position(b, l) # {}
  <2>1. l \in DOMAIN m /\ s \in DOMAIN t.slots
    BY <1>6, <1>10
  <2>2. u = Reset(t, l, Len(s))
    BY <1>9, <2>1
  <2>3. PICK pair : pair = [key |-> l, value |-> v]
    OBVIOUS
  <2>4. \A i \in Position(b, l) : [key |-> l, value |-> b[i].value \cup {c}] = pair
    <3> TAKE i \in Position(b, l)
    <3>1. i \in 1 .. Len(b) /\ b[i].key = l
      BY <1>6
    <3>2. b[i] = PairOf(m, l)
      BY <1>6, <3>1 DEF IsBucketOf
    <3>3. b[i].value = m[l]
      BY <3>2 DEF PairOf
    <3>. QED  BY <1>4, <2>1, <2>3, <3>3 DEF Had
  <2>5. w = WithBucket(u, s, [i \in DOMAIN b |->
                                IF i \in Position(b, l) THEN pair ELSE b[i]])
    BY <1>8, <1>10, <2>4
  <2>6. SetValue(t, l, v) =
          WithBucket(Reset(t, l, Len(s)), s,
                     [i \in DOMAIN b |->
                        IF i \in Position(b, l) THEN [key |-> l, value |-> v] ELSE b[i]])
    BY <1>1, <1>2, <1>10 DEF SetValue
  <2>7. w = SetValue(t, l, v)
    BY <2>2, <2>3, <2>5, <2>6
  <2>8. Holds(SetValue(t, l, v), Put(m, l, v))
    BY <1>7, SetValueHolds
  <2>. QED  BY <1>4, <2>7, <2>8 DEF w
<1>11. CASE Position(b, l) = {}
  <2>1. v = {c}
    BY <1>4, <1>6, <1>11 DEF Had
  <2>2. Holds(u, m)
    <3>1. PICK n : n = IF s \in DOMAIN t.slots THEN Len(s) ELSE Len(s) - 1
      OBVIOUS
    <3>2. u = Reset(t, l, n)
      BY <1>9, <3>1
    <3>. QED  BY <3>2, ResetHolds
  <2>3. Holds(SetValue(u, l, v), Put(m, l, v))
    BY <1>7, <2>2, SetValueHolds
  <2>4. w = SetValue(u, l, v)
    BY <1>8, <1>11, <2>1
  <2>. QED  BY <1>4, <2>3, <2>4 DEF w
<1>. QED  BY <1>10, <1>11

--------------------------------------------------------------------------------
(* Removing a value.                                                       *)
LEMMA RemovedIs ==
  ASSUME NEW S, IsPairs(S), NEW b, IsSorting(b, S), NEW p \in 1 .. Len(b)
  PROVE  IsSorting(RemoveAt(b, p), S \ {b[p]})
<1> DEFINE T == S \ {b[p]}
<1>0. PICK n : n = Len(b)
  OBVIOUS
<1>1. /\ b \in Seq(S) /\ n \in Nat /\ p \in 1 .. n
      /\ \A i \in 1 .. n : b[i] \in S /\ b[i].key \in Labels
      /\ {b[i] : i \in 1 .. n} = S
      /\ \A i, j \in 1 .. n : i < j => Before(b[i].key, b[j].key)
  <2>1. b \in Seq(S) /\ n \in Nat /\ p \in 1 .. n
    BY <1>0, LenProperties DEF IsSorting
  <2>2. \A i \in 1 .. n : b[i] \in S
    BY <1>0, <2>1, ElementOfSeq
  <2>3. {b[i] : i \in 1 .. n} = S /\ \A i, j \in 1 .. n : i < j => Before(b[i].key, b[j].key)
    BY <1>0 DEF IsSorting, Increases
  <2>. QED  BY <2>1, <2>2, <2>3 DEF IsPairs
<1>2. \A i \in 1 .. n : i # p => b[i] # b[p]
  <2> TAKE i \in 1 .. n
  <2> HAVE i # p
  <2>1. i < p \/ p < i
    BY <1>1
  <2>2. Before(b[i].key, b[p].key) \/ Before(b[p].key, b[i].key)
    BY <1>1, <2>1
  <2>. QED  BY <1>1, <2>2, BeforeIs
<1> DEFINE v == SubSeq(b, 1, p - 1)
           w == SubSeq(b, p + 1, n)
           c == RemoveAt(b, p)
<1>3. c = v \o w
  BY <1>0 DEF RemoveAt
<1> HIDE DEF c
<1>4. v \in Seq(T) /\ Len(v) = p - 1 /\ \A i \in 1 .. p - 1 : v[i] = b[i]
  <2>1. \A i \in 1 .. p - 1 : b[i] \in S \ {b[p]}
    BY <1>1, <1>2
  <2>2. PICK h \in Nat : h = p - 1
    BY <1>1
  <2>3. \A i \in 1 .. h : b[i] \in T
    BY <2>1, <2>2
  <2>4. 1 \in Int /\ h \in Int
    OBVIOUS
  <2>5. PICK x : x = SubSeq(b, 1, h)
    OBVIOUS
  <2>6. /\ x \in Seq(T) /\ Len(x) = IF 1 <= h THEN h - 1 + 1 ELSE 0
        /\ \A i \in 1 .. h - 1 + 1 : x[i] = b[1 + i - 1]
    BY <2>3, <2>4, <2>5, SubSeqProperties
  <2>7. Len(x) = h /\ \A i \in 1 .. h : x[i] = b[i]
    BY <2>6
  <2>. QED  BY <2>2, <2>5, <2>6, <2>7
<1>5. w \in Seq(T) /\ Len(w) = n - p /\ \A i \in 1 .. n - p : w[i] = b[p + i]
  <2>1. \A i \in p + 1 .. n : b[i] \in T
    BY <1>1, <1>2
  <2>2. PICK h \in Nat : h = p + 1
    BY <1>1
  <2>3. \A i \in h .. n : b[i] \in T
    BY <2>1, <2>2
  <2>4. n \in Int /\ h \in Int
    BY <1>1
  <2>5. PICK x : x = SubSeq(b, h, n)
    OBVIOUS
  <2>6. /\ x \in Seq(T) /\ Len(x) = IF h <= n THEN n - h + 1 ELSE 0
        /\ \A i \in 1 .. n - h + 1 : x[i] = b[h + i - 1]
    BY <2>3, <2>4, <2>5, SubSeqProperties
  <2>7. Len(x) = n - p
    BY <1>1, <2>2, <2>6
  <2>8. \A i \in 1 .. n - p : i \in 1 .. n - h + 1 /\ h + i - 1 = p + i
    BY <1>1, <2>2
  <2>9. \A i \in 1 .. n - p : x[i] = b[p + i]
    BY <2>6, <2>8
  <2>. QED  BY <2>2, <2>5, <2>6, <2>7, <2>9
<1> HIDE DEF v, w, T
<1>6. /\ c \in Seq(T) /\ Len(c) = n - 1
      /\ \A i \in 1 .. Len(v) + Len(w) : c[i] = IF i <= Len(v) THEN v[i] ELSE w[i - Len(v)]
  <2>1. /\ v \o w \in Seq(T) /\ Len(v \o w) = Len(v) + Len(w)
        /\ \A i \in 1 .. Len(v) + Len(w) :
              (v \o w)[i] = IF i <= Len(v) THEN v[i] ELSE w[i - Len(v)]
    BY <1>4, <1>5, ConcatProperties
  <2>2. Len(v) + Len(w) = n - 1
    BY <1>1, <1>4, <1>5
  <2>. QED  BY <1>3, <2>1, <2>2
<1>7. \A i \in 1 .. n - 1 : c[i] = IF i < p THEN b[i] ELSE b[i + 1]
  <2> TAKE i \in 1 .. n - 1
  <2>0. i \in 1 .. Len(v) + Len(w) /\ Len(v) = p - 1
    BY <1>1, <1>4, <1>5
  <2>1. CASE i < p
    <3>1. i <= Len(v) /\ i \in 1 .. p - 1
      BY <1>1, <2>0, <2>1
    <3>. QED  BY <1>4, <1>6, <2>0, <2>1, <3>1
  <2>2. CASE ~(i < p)
    <3>1. PICK g \in Int : g = i - (p - 1)
      BY <1>1
    <3>2. ~(i <= Len(v)) /\ g \in 1 .. n - p /\ p + g = i + 1
      BY <1>1, <2>0, <2>2, <3>1
    <3>3. c[i] = w[i - Len(v)]
      BY <1>6, <2>0, <3>2
    <3>4. c[i] = w[g]
      BY <2>0, <3>1, <3>3
    <3>. QED  BY <1>5, <2>2, <3>2, <3>4
  <2>. QED  BY <2>1, <2>2
<1>8. \A y \in T : \E i \in 1 .. n - 1 : c[i] = y
  <2> TAKE y \in T
  <2>1. PICK i \in 1 .. n : b[i] = y /\ i # p
    BY <1>1 DEF T
  <2>2. CASE i < p
    <3>1. i \in 1 .. n - 1
      BY <1>1, <2>2
    <3>. QED  BY <1>7, <2>1, <2>2, <3>1
  <2>3. CASE ~(i < p)
    <3>1. PICK g \in Int : g = i - 1
      OBVIOUS
    <3>2. g \in 1 .. n - 1 /\ g + 1 = i /\ ~(g < p)
      BY <1>1, <2>1, <2>3, <3>1
    <3>3. c[g] = b[g + 1]
      BY <1>7, <3>2
    <3>. QED  BY <2>1, <3>2, <3>3
  <2>. QED  BY <2>2, <2>3
<1>9. \A i \in 1 .. n - 1 : c[i] \in T
  BY <1>6, ElementOfSeq
<1>10. {c[i] : i \in 1 .. Len(c)} = T
  BY <1>6, <1>8, <1>9
<1>11. ASSUME NEW i \in 1 .. n - 1, NEW j \in 1 .. n - 1, i < j
       PROVE  Before(c[i].key, c[j].key)
  <2>1. PICK g \in 1 .. n : c[i] = b[g] /\ g = IF i < p THEN i ELSE i + 1
    BY <1>1, <1>7
  <2>2. PICK h \in 1 .. n : c[j] = b[h] /\ h = IF j < p THEN j ELSE j + 1
    BY <1>1, <1>7
  <2>3. g < h
    BY <1>1, <1>11, <2>1, <2>2
  <2>. QED  BY <1>1, <2>1, <2>2, <2>3
<1>12. IsSorting(c, T)
  BY <1>6, <1>10, <1>11 DEF IsSorting, Increases
<1>. QED  BY <1>12 DEF c, T

(* A node below which there is no other one, and whose pairs fit into one  *)
(* bucket, becomes that bucket, or nothing if it has none.                 *)
LEMMA CanonicalizeIs ==
  ASSUME NEW n, IsMap(n), NEW W, IsNodes(W), NEW t, IsLaid(t, n, W),
         NEW p \in W, p # <<>>, \A q \in W : IsStrictPrefix(p, q) => q \in Big(n),
         NEW V, V = IF p \in Big(n) THEN W ELSE W \ {p}
  PROVE  /\ IsLaid(Canonicalize(t, p), n, V)
         /\ \A q \in V : Canonicalize(t, p).cells[q] = t.cells[q]
<1> DEFINE links    == {q \in DOMAIN t.cells : IsStrictPrefix(p, q)}
           buckets  == {s \in DOMAIN t.slots : IsStrictPrefix(p, s)}
           pairs    == UNION {Range(t.slots[s]) : s \in buckets}
           unlinked == [cells |-> [q \in DOMAIN t.cells \ {p} |-> t.cells[q]],
                        slots |-> [s \in DOMAIN t.slots \ buckets |-> t.slots[s]]]
           w        == Canonicalize(t, p)
<1>1. w = IF links # {} \/ Cardinality(pairs) > BucketSize THEN t
          ELSE IF pairs = {} THEN unlinked
          ELSE WithBucket(unlinked, p, Sorted(pairs))
  BY DEF Canonicalize
<1>2. /\ t.cells = [q \in W |-> t.cells[q]] /\ DOMAIN t.cells = W
      /\ t.slots = [s \in SlotsOf(n, W) |-> Sorted(PairsUnder(n, s))]
      /\ DOMAIN t.slots = SlotsOf(n, W)
  BY DEF IsLaid
<1>3. /\ p \in Seq(Nat) /\ W \subseteq Seq(Nat) /\ W \cap Labels = {} /\ <<>> \in W
      /\ \A q \in W : q # <<>> => Front(q) \in W
      /\ IsNodes(Big(n))
  BY BigAreNodes DEF IsNodes
<1>4. links # {} => p \in Big(n)
  <2> SUFFICES ASSUME NEW q \in W, IsStrictPrefix(p, q) PROVE p \in Big(n)
    BY <1>2
  <2>1. q \in Big(n) /\ IsPrefix(p, q)
    BY DEF IsStrictPrefix
  <2>. QED  BY <1>3, <2>1, NodesAbove
<1>5. \A s \in buckets : s \in Seq(Nat) /\ IsPrefix(p, s) /\ t.slots[s] = Sorted(PairsUnder(n, s))
  BY <1>2 DEF IsStrictPrefix, SlotsOf
<1>6. \A s \in buckets : Range(t.slots[s]) = PairsUnder(n, s)
  <2> TAKE s \in buckets
  <2>1. IsBucketOf(t.slots[s], n, s)
    BY <1>5, SortedIsBucket
  <2>. QED  BY <2>1 DEF IsBucketOf, IsSorting, Range
<1>7. pairs = PairsUnder(n, p)
  <2>1. ASSUME NEW x \in pairs PROVE x \in PairsUnder(n, p)
    <3>1. PICK s \in buckets : x \in PairsUnder(n, s)
      BY <1>6, <2>1
    <3>2. Under(n, s) \subseteq Under(n, p)
      BY <1>3, <1>5, UnderOf
    <3>. QED  BY <3>1, <3>2 DEF PairsUnder
  <2>2. ASSUME NEW x \in PairsUnder(n, p) PROVE x \in pairs
    <3>1. PICK l \in Under(n, p) : x = PairOf(n, l)
      BY <2>2 DEF PairsUnder
    <3>2. l \in Labels /\ l \in DOMAIN n /\ IsPrefix(p, l)
      BY <3>1 DEF Under, IsMap
    <3>3. PICK s : s = SlotOf(t, l)
      OBVIOUS
    <3>4. IsSlotOf(s, l, W) /\ (l \in DOMAIN n <=> l \in Under(n, s))
      BY <3>2, <3>3, BucketIs
    <3>5. /\ s \in Seq(Nat) /\ s # <<>> /\ s \notin W /\ Front(s) \in W /\ IsPrefix(s, l)
          /\ Len(p) < Len(s)
      BY <1>3, <3>2, <3>4 DEF IsSlotOf
    <3>6. IsStrictPrefix(p, s)
      <4>1. IsPrefix(p, s) \/ IsPrefix(s, p)
        BY <1>3, <3>2, <3>5, LabelOf, PrefixOrder
      <4>2. ~IsPrefix(s, p)
        <5>1. ASSUME IsPrefix(s, p) PROVE FALSE
          <6>1. Len(s) <= Len(p)
            BY <1>3, <3>5, <5>1, PrefixOf
          <6>2. Len(s) \in Nat /\ Len(p) \in Nat
            BY <1>3, <3>5, LenProperties
          <6>. QED  BY <3>5, <6>1, <6>2
        <5>. QED  BY <5>1
      <4>3. p # s
        BY <3>5
      <4>. QED  BY <4>1, <4>2, <4>3 DEF IsStrictPrefix
    <3>7. s \in SlotsOf(n, W)
      BY <3>2, <3>4, <3>5 DEF SlotsOf
    <3>8. s \in buckets
      BY <1>2, <3>6, <3>7
    <3>9. x \in PairsUnder(n, s)
      BY <3>1, <3>2, <3>4 DEF PairsUnder
    <3>. QED  BY <1>6, <3>8, <3>9
  <2>. QED  BY <2>1, <2>2
<1>8. /\ Cardinality(PairsUnder(n, p)) = Cardinality(Under(n, p))
      /\ Cardinality(Under(n, p)) \in Nat /\ BucketSize \in Nat
  BY <1>3, UnderOf, BucketSizeIsPositive
<1>9. p \in Big(n) <=> Cardinality(PairsUnder(n, p)) > BucketSize
  BY <1>3, <1>8 DEF Big
<1> HIDE DEF w, links, pairs
<1>10. CASE p \in Big(n)
  <2>1. w = t /\ V = W
    BY <1>1, <1>7, <1>9, <1>10
  <2>. QED  BY <2>1 DEF w
<1>11. CASE p \notin Big(n)
  <2>1. V = W \ {p}
    BY <1>11
  <2>2. IsNodes(V)
    <3>1. ASSUME NEW q \in W, q # <<>>, Front(q) = p PROVE q \in Big(n)
      <4>1. q \in Seq(Nat)
        BY <1>3
      <4>2. IsPrefix(p, Front(q))
        BY <1>3, <3>1, PrefixOrder
      <4>3. IsPrefix(p, q) /\ p # q
        BY <1>3, <3>1, <4>1, <4>2, PrefixStep
      <4>. QED  BY <4>3 DEF IsStrictPrefix
    <3>2. \A q \in V : q # <<>> => Front(q) # p
      <4> SUFFICES ASSUME NEW q \in V, q # <<>>, Front(q) = p PROVE FALSE
        OBVIOUS
      <4>1. q \in Big(n)
        BY <2>1, <3>1
      <4>2. p \in Big(n)
        BY <4>1, BigAreNodes DEF IsNodes
      <4>. QED  BY <1>11, <4>2
    <3>. QED  BY <1>3, <2>1, <3>2 DEF IsNodes
  <2>3. SlotsOf(n, V) \ {p} = SlotsOf(n, W) \ buckets
    <3>1. ASSUME NEW r \in SlotsOf(n, V), r # p PROVE r \in SlotsOf(n, W) /\ r \notin buckets
      <4>1. r \in Seq(Nat) /\ r # <<>> /\ Under(n, r) # {} /\ r \notin V /\ Front(r) \in V
        BY DEF SlotsOf
      <4>2. r \in SlotsOf(n, W)
        BY <2>1, <3>1, <4>1 DEF SlotsOf
      <4>3. r \notin buckets
        <5> SUFFICES ASSUME IsPrefix(p, r) PROVE FALSE
          BY DEF IsStrictPrefix
        <5>1. IsPrefix(p, Front(r))
          BY <1>3, <3>1, <4>1, PrefixStep
        <5>2. p \in V
          BY <1>3, <2>2, <4>1, <5>1, NodesAbove
        <5>. QED  BY <2>1, <5>2
      <4>. QED  BY <4>2, <4>3
    <3>2. ASSUME NEW r \in SlotsOf(n, W), r \notin buckets PROVE r \in SlotsOf(n, V) /\ r # p
      <4>1. r \in Seq(Nat) /\ r # <<>> /\ Under(n, r) # {} /\ r \notin W /\ Front(r) \in W
        BY DEF SlotsOf
      <4>2. r # p
        BY <4>1
      <4>3. Front(r) # p
        <5> SUFFICES ASSUME Front(r) = p PROVE FALSE
          OBVIOUS
        <5>1. IsPrefix(p, Front(r))
          BY <1>3, PrefixOrder
        <5>2. IsPrefix(p, r)
          BY <1>3, <4>1, <5>1, PrefixStep
        <5>. QED  BY <1>2, <3>2, <4>2, <5>2 DEF IsStrictPrefix
      <4>. QED  BY <2>1, <4>1, <4>2, <4>3 DEF SlotsOf
    <3> HIDE DEF buckets
    <3>. QED  BY <3>1, <3>2
  <2>4. p \in SlotsOf(n, V) <=> PairsUnder(n, p) # {}
    <3>1. Front(p) \in V
      <4>1. Front(p) # p
        BY <1>3, PrefixStep, PrefixOrder
      <4>. QED  BY <1>3, <2>1, <4>1
    <3>. QED  BY <1>3, <2>1, <3>1 DEF SlotsOf, PairsUnder
  <2>5. /\ unlinked = [cells |-> unlinked.cells, slots |-> unlinked.slots]
        /\ unlinked.cells = [q \in V |-> t.cells[q]]
        /\ unlinked.slots = [s \in SlotsOf(n, V) \ {p} |-> t.slots[s]]
    BY <1>2, <2>1, <2>3
  <2>6. \A s \in SlotsOf(n, V) \ {p} : t.slots[s] = Sorted(PairsUnder(n, s))
    BY <1>2, <2>3
  <2> HIDE DEF unlinked, buckets
  <2>7. CASE PairsUnder(n, p) = {}
    <3>1. w = unlinked
      BY <1>1, <1>4, <1>7, <1>9, <1>11, <2>7
    <3>2. SlotsOf(n, V) \ {p} = SlotsOf(n, V)
      BY <2>4, <2>7
    <3>3. w.slots = [s \in SlotsOf(n, V) |-> Sorted(PairsUnder(n, s))]
      BY <2>5, <2>6, <3>1, <3>2
    <3>4. w.cells = [q \in V |-> t.cells[q]]
      BY <2>5, <3>1
    <3>5. w = [cells |-> w.cells, slots |-> w.slots]
      BY <2>5, <3>1
    <3>6. w.cells = [q \in V |-> w.cells[q]]
      BY <3>4
    <3>7. IsLaid(w, n, V)
      BY <3>3, <3>5, <3>6 DEF IsLaid
    <3>. QED  BY <3>4, <3>7 DEF w
  <2>8. CASE PairsUnder(n, p) # {}
    <3>1. PICK b : b = Sorted(PairsUnder(n, p))
      OBVIOUS
    <3>2. w = WithBucket(unlinked, p, b)
      BY <1>1, <1>4, <1>7, <1>9, <1>11, <2>8, <3>1
    <3>3. (SlotsOf(n, V) \ {p}) \cup {p} = SlotsOf(n, V)
      BY <2>4, <2>8
    <3>4. DOMAIN unlinked.slots = SlotsOf(n, V) \ {p}
      BY <2>5
    <3>5. w.slots = [s \in SlotsOf(n, V) |-> IF s = p THEN b ELSE unlinked.slots[s]]
      BY <3>2, <3>3, <3>4 DEF WithBucket
    <3>6. w.slots = [s \in SlotsOf(n, V) |-> Sorted(PairsUnder(n, s))]
      <4>1. ASSUME NEW s \in SlotsOf(n, V)
            PROVE  w.slots[s] = Sorted(PairsUnder(n, s))
        <5>1. CASE s = p
          BY <3>1, <3>5, <5>1
        <5>2. CASE s # p
          <6>1. w.slots[s] = unlinked.slots[s]
            BY <3>5, <5>2
          <6>2. unlinked.slots[s] = t.slots[s]
            BY <2>5, <5>2
          <6>. QED  BY <2>6, <5>2, <6>1, <6>2
        <5>. QED  BY <5>1, <5>2
      <4>2. w.slots = [s \in SlotsOf(n, V) |-> w.slots[s]]
        BY <3>5
      <4>. QED  BY <4>1, <4>2
    <3>7. w.cells = [q \in V |-> t.cells[q]]
      BY <2>5, <3>2 DEF WithBucket
    <3>8. w = [cells |-> w.cells, slots |-> w.slots]
      BY <3>2 DEF WithBucket
    <3>9. w.cells = [q \in V |-> w.cells[q]]
      BY <3>7
    <3>10. IsLaid(w, n, V)
      BY <3>6, <3>8, <3>9 DEF IsLaid
    <3>. QED  BY <3>7, <3>10 DEF w
  <2>. QED  BY <2>7, <2>8
<1>. QED  BY <1>10, <1>11

(* The nodes there are when those below the first e on the way to k have    *)
(* been looked at.                                                         *)
Way(n, k, e) == Big(n) \cup {Upto(k, j) : j \in 0 .. e}

LEMMA WayIs ==
  ASSUME NEW n, IsMap(n), NEW k \in Labels, NEW e \in 0 .. Len(k) - 1
  PROVE  /\ IsNodes(Way(n, k, e))
         /\ Way(n, k, 0) = Big(n)
         /\ \A q \in Way(n, k, e) : IsStrictPrefix(Upto(k, e), q) => q \in Big(n)
         /\ e > 0 => Way(n, k, e - 1) = IF Upto(k, e) \in Big(n) THEN Way(n, k, e)
                                        ELSE Way(n, k, e) \ {Upto(k, e)}
<1>1. k \in Seq(Nat) /\ Len(k) \in Nat \ {0} /\ \A l \in Labels : Len(l) = Len(k)
  BY LabelOf
<1>2. PICK h \in Nat : h = Len(k)
  BY <1>1
<1>3. e \in 0 .. h - 1 /\ e \in Nat /\ h > 0
  BY <1>1, <1>2
<1>4. \A j \in 0 .. h : /\ Upto(k, j) \in Seq(Nat) /\ Len(Upto(k, j)) = j
                        /\ j > 0 => Front(Upto(k, j)) = Upto(k, j - 1)
  BY <1>1, <1>2, UptoOf, UptoSteps
<1>5. \A i, j \in 0 .. h : /\ IsPrefix(Upto(k, i), Upto(k, j)) <=> i <= j
                           /\ Upto(k, i) = Upto(k, j) => i = j
  BY <1>1, <1>2, UptoSteps
<1>6. Upto(k, 0) = <<>>
  <2>1. 0 \in 0 .. Len(k)
    BY <1>1
  <2>. QED  BY <1>1, <2>1, UptoSteps
<1>7. IsNodes(Big(n)) /\ <<>> \in Big(n)
  BY BigAreNodes DEF IsNodes
<1> DEFINE W == Way(n, k, e)
<1>8. IsNodes(W)
  <2>1. ASSUME NEW q \in W
        PROVE  q \in Seq(Nat) /\ q \notin Labels /\ (q # <<>> => Front(q) \in W)
    <3>1. CASE q \in Big(n)
      BY <1>7, <3>1 DEF IsNodes, Way
    <3>2. CASE q \notin Big(n)
      <4>1. PICK j \in 0 .. e : q = Upto(k, j)
        BY <2>1, <3>2 DEF Way
      <4>2. j \in 0 .. h /\ j < h /\ j \in Nat
        BY <1>3, <4>1
      <4>3. q \in Seq(Nat) /\ Len(q) = j
        BY <1>4, <4>1, <4>2
      <4>4. q \notin Labels
        BY <1>1, <1>2, <4>2, <4>3
      <4>5. ASSUME q # <<>> PROVE Front(q) \in W
        <5>1. j # 0
          BY <1>6, <4>1, <4>5
        <5>2. j > 0 /\ j - 1 \in 0 .. e
          BY <1>3, <4>2, <5>1
        <5>3. Front(q) = Upto(k, j - 1)
          BY <1>4, <4>1, <4>2, <5>2
        <5>. QED  BY <5>2, <5>3 DEF Way
      <4>. QED  BY <4>3, <4>4, <4>5
    <3>. QED  BY <3>1, <3>2
  <2>2. <<>> \in W
    BY <1>7 DEF Way
  <2> HIDE DEF W
  <2>. QED  BY <2>1, <2>2 DEF IsNodes
<1>9. Way(n, k, 0) = Big(n)
  <2>1. {Upto(k, j) : j \in 0 .. 0} = {<<>>}
    BY <1>6
  <2>. QED  BY <1>7, <2>1 DEF Way
<1>10. \A q \in W : IsStrictPrefix(Upto(k, e), q) => q \in Big(n)
  <2> SUFFICES ASSUME NEW q \in W, IsStrictPrefix(Upto(k, e), q), q \notin Big(n)
               PROVE  FALSE
    OBVIOUS
  <2>1. PICK j \in 0 .. e : q = Upto(k, j)
    BY DEF Way
  <2>2. IsPrefix(Upto(k, e), Upto(k, j)) /\ Upto(k, e) # Upto(k, j)
    BY <2>1 DEF IsStrictPrefix
  <2>3. e \in 0 .. h /\ j \in 0 .. h /\ j <= e
    BY <1>3, <2>1
  <2>4. e <= j
    BY <1>5, <2>2, <2>3
  <2>5. e = j
    BY <1>3, <2>3, <2>4
  <2>. QED  BY <2>2, <2>5
<1>11. ASSUME e > 0
       PROVE  Way(n, k, e - 1) = IF Upto(k, e) \in Big(n) THEN W ELSE W \ {Upto(k, e)}
  <2>1. PICK d \in Nat : d = e - 1
    BY <1>3, <1>11
  <2>2. \A j : j \in 0 .. e <=> j \in 0 .. d \/ j = e
    BY <1>3, <2>1
  <2>3. W = Way(n, k, d) \cup {Upto(k, e)}
    BY <2>2 DEF Way
  <2>4. \A j \in 0 .. d : Upto(k, j) # Upto(k, e)
    <3> TAKE j \in 0 .. d
    <3>1. j \in 0 .. h /\ e \in 0 .. h /\ j # e
      BY <1>3, <2>1
    <3>. QED  BY <1>5, <3>1
  <2>5. Upto(k, e) \in Way(n, k, d) <=> Upto(k, e) \in Big(n)
    BY <2>4 DEF Way
  <2>. QED  BY <2>1, <2>3, <2>5
<1>. QED  BY <1>8, <1>9, <1>10, <1>11

(* A map without a label.                                                  *)
Rest(m, k) == [l \in DOMAIN m \ {k} |-> m[l]]

LEMMA RestIs ==
  ASSUME NEW m, IsMap(m), NEW k \in Labels, NEW n, n = Rest(m, k)
  PROVE  /\ IsMap(n) /\ DiffersAt(m, n, k)
         /\ \A p : /\ Under(n, p) = Under(m, p) \ {k}
                   /\ PairsUnder(n, p) = PairsUnder(m, p) \ {PairOf(m, k)}
<1>1. DOMAIN n = DOMAIN m \ {k} /\ \A l \in DOMAIN n : n[l] = m[l]
  BY DEF Rest
<1>2. n = [l \in DOMAIN n |-> n[l]]
  BY DEF Rest
<1>3. IsMap(n)
  <2>1. IsFiniteSet(DOMAIN n)
    <3>1. DOMAIN n \in SUBSET (DOMAIN m)
      BY <1>1
    <3>. QED  BY <3>1, FS_Subset DEF IsMap
  <2>. QED  BY <1>1, <1>2, <2>1 DEF IsMap
<1>4. DiffersAt(m, n, k)
  BY <1>1 DEF DiffersAt
<1>5. ASSUME NEW p
      PROVE  /\ Under(n, p) = Under(m, p) \ {k}
             /\ PairsUnder(n, p) = PairsUnder(m, p) \ {PairOf(m, k)}
  <2>1. Under(n, p) = Under(m, p) \ {k}
    BY <1>1 DEF Under
  <2>2. \A l \in Under(n, p) : PairOf(n, l) = PairOf(m, l)
    BY <1>1 DEF Under, PairOf
  <2>3. \A l : PairOf(m, l).key = l
    BY DEF PairOf
  <2>4. \A x : x \in PairsUnder(n, p) <=> x \in PairsUnder(m, p) /\ x # PairOf(m, k)
    <3> TAKE x
    <3>1. ASSUME x \in PairsUnder(n, p)
          PROVE  x \in PairsUnder(m, p) /\ x # PairOf(m, k)
      <4>1. PICK l \in Under(n, p) : x = PairOf(n, l)
        BY <3>1 DEF PairsUnder
      <4>2. x = PairOf(m, l) /\ l \in Under(m, p) /\ l # k
        BY <2>1, <2>2, <4>1
      <4>. QED  BY <2>3, <4>2 DEF PairsUnder
    <3>2. ASSUME x \in PairsUnder(m, p), x # PairOf(m, k)
          PROVE  x \in PairsUnder(n, p)
      <4>1. PICK l \in Under(m, p) : x = PairOf(m, l)
        BY <3>2 DEF PairsUnder
      <4>2. l \in Under(n, p)
        BY <2>1, <3>2, <4>1
      <4>. QED  BY <2>2, <4>1, <4>2 DEF PairsUnder
    <3>. QED  BY <3>1, <3>2
  <2>. QED  BY <2>1, <2>4
<1>. QED  BY <1>3, <1>4, <1>5

(* What is looked at on the way up.                                        *)
IsWayUp(up, rest, k, L) ==
  /\ up = [i \in 0 .. L - 1 |-> up[i]]
  /\ \A i \in 0 .. L - 1 :
       up[i] = IF i = 0 THEN rest ELSE Canonicalize(up[i - 1], Upto(k, L - i))

LEMMA WayUp ==
  ASSUME NEW n, IsMap(n), NEW k \in Labels, NEW L \in 1 .. Len(k),
         NEW rest, IsLaid(rest, n, Way(n, k, L - 1)),
         NEW up, IsWayUp(up, rest, k, L)
  PROVE  /\ IsLaid(up[L - 1], n, Big(n))
         /\ \A p \in Big(n) : up[L - 1].cells[p] = rest.cells[p]
<1>1. k \in Seq(Nat) /\ Len(k) \in Nat \ {0} /\ L \in Nat \ {0} /\ L <= Len(k)
  BY LabelOf
<1> DEFINE G(i, u) == /\ IsLaid(u, n, Way(n, k, L - 1 - i))
                      /\ \A p \in Way(n, k, L - 1 - i) : u.cells[p] = rest.cells[p]
           K == {i \in 0 .. L - 1 : G(i, up[i])}
<1>2. 0 \in K
  <2>1. L - 1 - 0 = L - 1 /\ 0 \in 0 .. L - 1
    BY <1>1
  <2>2. up[0] = rest
    BY <2>1 DEF IsWayUp
  <2>. QED  BY <2>1, <2>2
<1>3. ASSUME NEW i \in 0 .. L - 1 - 1, i \in K PROVE i + 1 \in K
  <2>1. PICK e \in Int : e = L - 1 - i
    BY <1>1
  <2>2. /\ e \in 0 .. Len(k) - 1 /\ e > 0 /\ e \in 0 .. Len(k)
        /\ i + 1 \in 0 .. L - 1 /\ i + 1 # 0 /\ i + 1 - 1 = i
        /\ L - (i + 1) = e /\ L - 1 - (i + 1) = e - 1
    BY <1>1, <2>1
  <2>3. PICK p : p = Upto(k, e)
    OBVIOUS
  <2>4. PICK u : u = up[i]
    OBVIOUS
  <2>5. PICK W : W = Way(n, k, e)
    OBVIOUS
  <2>6. PICK V : V = Way(n, k, e - 1)
    OBVIOUS
  <2>7. up[i + 1] = Canonicalize(u, p)
    <3>1. PICK j \in 0 .. L - 1 : j = i + 1
      BY <2>2
    <3>2. j # 0 /\ j - 1 = i /\ L - j = e
      BY <2>2, <3>1
    <3>3. up[j] = Canonicalize(up[j - 1], Upto(k, L - j))
      BY <3>2 DEF IsWayUp
    <3>4. up[j] = Canonicalize(u, p)
      BY <2>3, <2>4, <3>2, <3>3
    <3>. QED  BY <3>1, <3>4
  <2>8. IsLaid(u, n, W) /\ \A q \in W : u.cells[q] = rest.cells[q]
    BY <1>3, <2>1, <2>4, <2>5
  <2>9. /\ IsNodes(W) /\ \A q \in W : IsStrictPrefix(p, q) => q \in Big(n)
        /\ V = IF p \in Big(n) THEN W ELSE W \ {p}
    BY <2>2, <2>3, <2>5, <2>6, WayIs
  <2>10. p \in W /\ p # <<>>
    <3>1. e \in 0 .. e
      BY <2>2
    <3>2. p \in W
      BY <2>3, <2>5, <3>1 DEF Way
    <3>3. Len(p) = e
      BY <1>1, <2>2, <2>3, UptoOf
    <3>. QED  BY <2>2, <3>2, <3>3, EmptySeq
  <2>11. /\ IsLaid(Canonicalize(u, p), n, V)
         /\ \A q \in V : Canonicalize(u, p).cells[q] = u.cells[q]
    BY <2>8, <2>9, <2>10, CanonicalizeIs
  <2>12. V \subseteq W
    BY <2>9
  <2>13. G(i + 1, up[i + 1])
    BY <2>2, <2>6, <2>7, <2>8, <2>11, <2>12
  <2> HIDE DEF G
  <2>. QED  BY <2>2, <2>13
<1>4. L - 1 \in K
  <2>1. L - 1 \in Nat /\ L - 1 \in 0 .. L - 1
    BY <1>1
  <2> HIDE DEF K
  <2>2. \A i \in 0 .. L - 1 : i \in K
    BY <1>2, <1>3, <2>1, HoldsUpTo
  <2>. QED  BY <2>1, <2>2
<1>5. G(L - 1, up[L - 1])
  BY <1>4
<1>6. L - 1 - (L - 1) = 0 /\ 0 \in 0 .. Len(k) - 1
  BY <1>1
<1>7. Way(n, k, 0) = Big(n)
  BY <1>6, WayIs
<1>. QED  BY <1>5, <1>6, <1>7

(* Removing a value removes it from the map; on the way up, nodes whose     *)
(* pairs fit into one bucket again are taken back.                         *)
LEMMA RemoveHolds ==
  ASSUME NEW t, NEW m, Holds(t, m), NEW k \in Labels
  PROVE  Holds(RemoveValue(t, k), Rest(m, k))
<1>1. PICK s : s = SlotOf(t, k)
  OBVIOUS
<1>2. PICK b : b = Bucket(t, s)
  OBVIOUS
<1>3. PICK u : u = GetMut(t, k)
  OBVIOUS
<1>4. PICK n : n = Rest(m, k)
  OBVIOUS
<1>5. PICK L : L = Len(s)
  OBVIOUS
<1>0. PICK g : g = CHOOSE i \in Position(b, k) : TRUE
  OBVIOUS
<1>6. PICK rest : rest = IF Len(b) = 1 THEN Without(u, s)
                         ELSE WithBucket(u, s, RemoveAt(b, g))
  OBVIOUS
<1> DEFINE N == Big(m)
           G(f) == [i \in 0 .. L - 1 |->
                      IF i = 0 THEN rest ELSE Canonicalize(f[i - 1], Upto(k, L - i))]
           Up == CHOOSE f : f = G(f)
           w == RemoveValue(t, k)
<1>7. IsMap(m) /\ IsLaid(t, m, N) /\ CellsAre(t, m) /\ IsNodes(N)
  BY BigAreNodes DEF Holds
<1>8. /\ IsMap(n) /\ DiffersAt(m, n, k)
      /\ \A p : /\ Under(n, p) = Under(m, p) \ {k}
                /\ PairsUnder(n, p) = PairsUnder(m, p) \ {PairOf(m, k)}
  BY <1>4, <1>7, RestIs
<1>9. /\ IsSlotOf(s, k, N)
      /\ s \in DOMAIN t.slots <=> Under(m, s) # {}
      /\ IsBucketOf(b, m, s)
      /\ Position(b, k) = {i \in 1 .. Len(b) : b[i].key = k}
      /\ k \in DOMAIN m <=> Position(b, k) # {}
      /\ k \in DOMAIN m <=> k \in Under(m, s)
  BY <1>1, <1>2, <1>7, BucketIs
<1>10. /\ s \in Seq(Nat) /\ IsPrefix(s, k) /\ L \in 1 .. Len(k)
       /\ \A p \in Seq(Nat) : IsPrefix(p, k) => (p \in N <=> Len(p) < L)
  BY <1>5, <1>9 DEF IsSlotOf
<1>11. k \in Seq(Nat) /\ Len(k) \in Nat
  BY LabelOf
<1>12. w = IF Position(b, k) = {} THEN u ELSE Up[L - 1]
  BY <1>0, <1>1, <1>2, <1>3, <1>5, <1>6 DEF RemoveValue
<1>13. PICK h : /\ h = IF s \in DOMAIN t.slots THEN Len(s) ELSE Len(s) - 1
                /\ u = Reset(t, k, h)
  BY <1>1, <1>3 DEF GetMut
<1> HIDE DEF w, Up, G
<1>14. CASE Position(b, k) = {}
  <2>1. k \notin DOMAIN m
    BY <1>9, <1>14
  <2>2. n = m
    BY <1>4, <1>7, <2>1 DEF Rest, IsMap
  <2>3. Holds(u, m)
    BY <1>13, ResetHolds
  <2>. QED  BY <1>4, <1>12, <1>14, <2>2, <2>3 DEF w
<1>15. CASE Position(b, k) # {}
  <2>1. k \in DOMAIN m /\ k \in Under(m, s) /\ h = L
    BY <1>5, <1>9, <1>13, <1>15
  <2>2. /\ IsLaid(u, m, N)
        /\ \A p \in N : u.cells[p] = IF Len(p) < L /\ IsPrefix(p, k) THEN {}
                                     ELSE t.cells[p]
    BY <1>7, <1>13, <2>1, ResetIs
  <2>3. Big(n) \subseteq N
    <3>1. \A p \in Seq(Nat) : Cardinality(Under(n, p)) <= Cardinality(Under(m, p))
      <4> TAKE p \in Seq(Nat)
      <4>1. Under(n, p) \subseteq Under(m, p) /\ IsFiniteSet(Under(m, p))
        BY <1>7, <1>8, UnderOf
      <4>. QED  BY <4>1, FS_Subset
    <3>2. \A p \in Seq(Nat) : /\ Cardinality(Under(n, p)) \in Nat
                              /\ Cardinality(Under(m, p)) \in Nat
      BY <1>7, <1>8, UnderOf
    <3>. QED  BY <3>1, <3>2, BucketSizeIsPositive DEF Big
  <2>4. N = Way(n, k, L - 1)
    <3>1. ASSUME NEW p \in N, p \notin Big(n) PROVE p \in Way(n, k, L - 1)
      <4>1. p \in Seq(Nat)
        BY <1>7 DEF IsNodes
      <4>2. IsPrefix(p, k)
        BY <1>7, <1>8, <3>1, <4>1, BigOffTheWay
      <4>3. Len(p) < L /\ Len(p) \in Nat /\ p = Upto(k, Len(p))
        BY <1>10, <1>11, <4>1, <4>2, PrefixIsUpto, LenProperties
      <4>4. Len(p) \in 0 .. L - 1
        BY <1>10, <1>11, <4>3
      <4>. QED  BY <4>3, <4>4 DEF Way
    <3>2. ASSUME NEW j \in 0 .. L - 1 PROVE Upto(k, j) \in N
      <4>1. j \in 0 .. Len(k) /\ j < L
        BY <1>10, <1>11
      <4>2. Upto(k, j) \in Seq(Nat) /\ Len(Upto(k, j)) = j /\ IsPrefix(Upto(k, j), k)
        BY <1>11, <4>1, UptoOf, UptoSteps
      <4>. QED  BY <1>10, <4>1, <4>2
    <3>. QED  BY <2>3, <3>1, <3>2 DEF Way
  <2>5. IsLaid(rest, n, N) /\ rest.cells = u.cells
    <3>1. /\ Under(n, s) # {} => IsLaid(WithBucket(u, s, Sorted(PairsUnder(n, s))), n, N)
          /\ Under(n, s) = {} => IsLaid(Without(u, s), n, N)
      BY <1>7, <1>8, <1>9, <2>2, WithBucketIs
    <3>2. /\ Len(b) = Cardinality(Under(m, s)) /\ DOMAIN b = 1 .. Len(b)
          /\ IsSorting(b, PairsUnder(m, s)) /\ Len(b) \in Nat
          /\ \A i \in 1 .. Len(b) : b[i] = PairOf(m, b[i].key)
      BY <1>9 DEF IsBucketOf
    <3>3. Under(n, s) = {} <=> Len(b) = 1
      <4>1. PICK A : A = Under(m, s)
        OBVIOUS
      <4>2. Cardinality(A \ {k}) = Cardinality(A) - 1 /\ IsFiniteSet(A) /\ k \in A
        BY <1>7, <1>10, <2>1, <4>1, UnderOf, FS_RemoveElement
      <4>3. Cardinality(A) \in Nat /\ IsFiniteSet(A \ {k})
        BY <4>2, FS_RemoveElement, FS_CardinalityType
      <4>4. A \ {k} = {} <=> Cardinality(A \ {k}) = 0
        BY <4>3, FS_EmptySet
      <4>5. Under(n, s) = A \ {k} /\ Len(b) = Cardinality(A)
        BY <1>8, <3>2, <4>1
      <4>. QED  BY <4>2, <4>3, <4>4, <4>5
    <3>4. CASE Len(b) = 1
      BY <1>6, <3>1, <3>3, <3>4 DEF Without
    <3>5. CASE Len(b) # 1
      <4>1. PICK i : i = g
        OBVIOUS
      <4>2. i \in Position(b, k)
        BY <1>0, <1>15, <4>1
      <4>3. i \in 1 .. Len(b) /\ b[i].key = k
        BY <1>9, <4>2
      <4>4. b[i] = PairOf(m, k)
        BY <3>2, <4>3
      <4>5. PICK S : S = PairsUnder(m, s)
        OBVIOUS
      <4>6. IsSorting(RemoveAt(b, i), S \ {b[i]})
        BY <1>7, <1>10, <3>2, <4>3, <4>5, UnderOf, RemovedIs
      <4>7. IsPairs(PairsUnder(n, s)) /\ PairsUnder(n, s) = S \ {b[i]}
        BY <1>8, <1>10, <4>4, <4>5, UnderOf
      <4>8. RemoveAt(b, i) = Sorted(PairsUnder(n, s))
        BY <4>6, <4>7, SortedIs
      <4>9. rest = WithBucket(u, s, Sorted(PairsUnder(n, s)))
        BY <1>6, <3>5, <4>1, <4>8
      <4>. QED  BY <3>1, <3>3, <3>5, <4>9 DEF WithBucket
    <3>. QED  BY <3>4, <3>5
  <2>6. Up = G(Up)
    <3> DEFINE F(f, j) == f = [i \in 0 .. j |->
                               IF i = 0 THEN rest ELSE Canonicalize(f[i - 1], Upto(k, L - i))]
               S == {j \in Nat : \E f : F(f, j)}
    <3>1. 0 \in S
      <4>1. PICK f : f = [i \in 0 .. 0 |-> rest]
        OBVIOUS
      <4>2. F(f, 0)
        BY <4>1
      <4>. QED  BY <4>2
    <3>2. ASSUME NEW j \in Nat, j \in S PROVE j + 1 \in S
      <4>1. PICK f : F(f, j)
        BY <3>2
      <4> DEFINE o == [i \in 0 .. j + 1 |->
                         IF i = j + 1 THEN Canonicalize(f[j], Upto(k, L - (j + 1))) ELSE f[i]]
      <4>2. ASSUME NEW i \in 0 .. j + 1
            PROVE  o[i] = IF i = 0 THEN rest ELSE Canonicalize(o[i - 1], Upto(k, L - i))
        <5>1. CASE i = j + 1
          <6>1. o[i] = Canonicalize(f[j], Upto(k, L - i)) /\ i # 0 /\ i - 1 = j /\ o[j] = f[j]
            BY <5>1
          <6> HIDE DEF o
          <6>. QED  BY <6>1
        <5>2. CASE i # j + 1
          <6>1. i \in 0 .. j /\ o[i] = f[i] /\ (i # 0 => o[i - 1] = f[i - 1])
            BY <5>2
          <6>2. f[i] = IF i = 0 THEN rest ELSE Canonicalize(f[i - 1], Upto(k, L - i))
            BY <4>1, <6>1
          <6> HIDE DEF o
          <6>. QED  BY <6>1, <6>2
        <5>. QED  BY <5>1, <5>2
      <4>3. o = [i \in 0 .. j + 1 |-> o[i]]
        OBVIOUS
      <4> HIDE DEF o
      <4>4. F(o, j + 1)
        BY <4>2, <4>3
      <4> HIDE DEF F
      <4>. QED  BY <4>4
    <3>3. L - 1 \in Nat
      BY <1>10, <1>11
    <3>4. L - 1 \in S
      <4> HIDE DEF S
      <4>1. \A i \in 0 .. L - 1 - 1 : i \in S => i + 1 \in S
        BY <3>2, <3>3
      <4>2. \A i \in 0 .. L - 1 : i \in S
        BY <3>1, <3>3, <4>1, HoldsUpTo
      <4>. QED  BY <3>3, <4>2
    <3>5. \E f : f = G(f)
      BY <3>4 DEF G
    <3> HIDE DEF G
    <3>. QED  BY <3>5 DEF Up
  <2>7. PICK up : up = Up
    OBVIOUS
  <2>8. IsWayUp(up, rest, k, L)
    BY <2>6, <2>7 DEF G, IsWayUp
  <2>9. /\ IsLaid(up[L - 1], n, Big(n))
        /\ \A p \in Big(n) : up[L - 1].cells[p] = rest.cells[p]
    <3>1. IsLaid(rest, n, Way(n, k, L - 1)) /\ IsMap(n) /\ L \in 1 .. Len(k)
      BY <1>8, <1>10, <2>4, <2>5
    <3>. QED  BY <2>8, <3>1, WayUp
  <2>10. w = up[L - 1]
    BY <1>12, <1>15, <2>7
  <2>11. \A p \in Big(n) :
            \/ w.cells[p] = {}
            \/ p \in Big(m) /\ ~IsPrefix(p, k) /\ w.cells[p] = t.cells[p]
    <3> TAKE p \in Big(n)
    <3>1. p \in N /\ w.cells[p] = u.cells[p] /\ p \in Seq(Nat)
      BY <1>7, <2>3, <2>5, <2>9, <2>10 DEF IsNodes
    <3>. QED  BY <1>10, <2>2, <3>1
  <2>12. Holds(w, n)
    BY <1>8, <2>9, <2>10, <2>11, EditHolds
  <2>. QED  BY <1>4, <2>12 DEF w
<1>. QED  BY <1>14, <1>15

--------------------------------------------------------------------------------
(* Storing and loading.                                                    *)
LEMMA NodesAreShort ==
  ASSUME NEW m, IsMap(m)
  PROVE  \E h \in Nat : \A p \in Big(m) : Len(p) <= h
<1>1. ASSUME NEW p \in Big(m), p # <<>>
      PROVE  \E k \in DOMAIN m : IsPrefix(p, k) /\ p \in Seq(Nat)
  <2>1. p \in Seq(Nat) /\ Cardinality(Under(m, p)) > BucketSize
    BY <1>1 DEF Big
  <2>2. Under(m, p) # {}
    <3> SUFFICES ASSUME Under(m, p) = {} PROVE FALSE
      OBVIOUS
    <3>1. Cardinality(Under(m, p)) = 0
      BY FS_EmptySet
    <3>. QED  BY <2>1, <3>1, BucketSizeIsPositive
  <2>. QED  BY <2>1, <2>2 DEF Under
<1>2. CASE DOMAIN m = {}
  <2>1. \A p \in Big(m) : Len(p) <= 0
    BY <1>1, <1>2, EmptySeq
  <2>. QED  BY <2>1
<1>3. CASE DOMAIN m # {}
  <2>1. PICK k \in DOMAIN m : TRUE
    BY <1>3
  <2>2. k \in Labels /\ DOMAIN m \subseteq Labels
    BY <2>1 DEF IsMap
  <2>3. PICK h \in Nat : \A l \in DOMAIN m : l \in Seq(Nat) /\ Len(l) = h
    BY <2>2, LabelOf
  <2>4. \A p \in Big(m) : Len(p) <= h
    <3> TAKE p \in Big(m)
    <3>1. CASE p = <<>>
      BY <2>3, <3>1, EmptySeq
    <3>2. CASE p # <<>>
      <4>1. PICK l \in DOMAIN m : IsPrefix(p, l) /\ p \in Seq(Nat)
        BY <1>1, <3>2
      <4>. QED  BY <2>3, <4>1, PrefixOf
    <3>. QED  BY <3>1, <3>2
  <2>. QED  BY <2>4
<1>. QED  BY <1>2, <1>3

(* A property of the nodes that one has if the nodes below it have it.     *)
LEMMA LongestNode ==
  ASSUME NEW m, IsMap(m), NEW B, B \subseteq Big(m), B # {}
  PROVE  \E p \in B : \A q \in B : Len(q) <= Len(p)
<1>1. PICK h \in Nat : \A p \in Big(m) : Len(p) <= h
  BY NodesAreShort
<1>2. \A p \in B : p \in Seq(Nat) /\ Len(p) \in Nat /\ Len(p) <= h
  BY <1>1, BigAreNodes, LenProperties DEF IsNodes
<1> DEFINE D == {h - Len(p) : p \in B}
<1>3. D \subseteq Nat
  BY <1>2
<1>4. D # {}
  OBVIOUS
<1> HIDE DEF D
<1>5. PICK n \in D : \A d \in D : n <= d
  BY <1>3, <1>4, LeastOf
<1>6. PICK p \in B : n = h - Len(p)
  BY <1>5 DEF D
<1>7. \A q \in B : Len(q) <= Len(p)
  <2> TAKE q \in B
  <2>1. h - Len(q) \in D
    BY DEF D
  <2>2. n <= h - Len(q)
    BY <1>5, <2>1
  <2>. QED  BY <1>2, <1>6, <2>2
<1>. QED  BY <1>7

KidsOf(N, p) == {q \in N : Len(q) = Len(p) + 1 /\ IsPrefix(p, q)}

OwnOf(m, N, p) == {s \in SlotsOf(m, N) : Len(s) = Len(p) + 1 /\ IsPrefix(p, s)}

(* What is strictly below p is, or is below, what p points to.             *)
LEMMA StepDown ==
  ASSUME NEW p \in Seq(Nat), NEW q \in Seq(Nat), IsPrefix(p, q), p # q
  PROVE  \E r \in Seq(Nat) : /\ Len(r) = Len(p) + 1 /\ IsPrefix(p, r) /\ IsPrefix(r, q)
                             /\ r # q => IsPrefix(r, Front(q))
                             /\ r # <<>>
<1>1. /\ Len(p) \in Nat /\ Len(q) \in Nat /\ Len(p) <= Len(q)
      /\ \A i \in 1 .. Len(p) : p[i] = q[i]
  BY LenProperties, PrefixOf
<1>2. Len(p) # Len(q)
  BY <1>1, SeqEqual
<1>3. PICK d \in Nat : d = Len(p) + 1
  BY <1>1
<1>4. d \in 0 .. Len(q) /\ Len(p) \in 0 .. Len(q) /\ Len(p) <= d /\ d > 0
  BY <1>1, <1>2, <1>3
<1>5. PICK r : r = Upto(q, d)
  OBVIOUS
<1>6. r \in Seq(Nat) /\ Len(r) = d
  BY <1>4, <1>5, UptoOf
<1>7. p = Upto(q, Len(p))
  BY PrefixIsUpto
<1>8. IsPrefix(r, q)
  BY <1>4, <1>5, UptoSteps
<1>9. IsPrefix(p, r)
  <2>1. IsPrefix(Upto(q, Len(p)), Upto(q, d))
    BY <1>4, UptoSteps
  <2>. QED  BY <1>5, <1>7, <2>1
<1>10. q # <<>> /\ r # <<>>
  BY <1>1, <1>4, <1>6, EmptySeq
<1>11. r # q => IsPrefix(r, Front(q))
  BY <1>6, <1>8, <1>10, PrefixStep
<1>. QED  BY <1>3, <1>6, <1>8, <1>9, <1>10, <1>11

LEMMA ContentStep ==
  ASSUME NEW m, IsMap(m), NEW N, N = Big(m), NEW p \in N
  PROVE  Content(m, p) =
           [nodes |-> {p} \cup UNION {Content(m, q).nodes : q \in KidsOf(N, p)},
            slots |-> {<<s, Sorted(PairsUnder(m, s))>> : s \in OwnOf(m, N, p)}
                        \cup UNION {Content(m, q).slots : q \in KidsOf(N, p)}]
<1>1. IsNodes(N) /\ N \subseteq Seq(Nat) /\ p \in Seq(Nat)
  BY BigAreNodes DEF IsNodes
<1>2. \A q : /\ Content(m, q).nodes = {r \in N : IsPrefix(q, r)}
             /\ Content(m, q).slots = {<<s, Sorted(PairsUnder(m, s))>> :
                                         s \in {r \in SlotsOf(m, N) : IsPrefix(q, r)}}
  BY DEF Content
<1>3. \A q \in KidsOf(N, p) : \A r \in Seq(Nat) : IsPrefix(q, r) => IsPrefix(p, r)
  BY <1>1, PrefixOrder DEF KidsOf
<1>4. \A r \in SlotsOf(m, N) : r \in Seq(Nat) /\ r \notin N /\ Front(r) \in N
  BY DEF SlotsOf
<1>5. {r \in N : IsPrefix(p, r)} =
        {p} \cup UNION {Content(m, q).nodes : q \in KidsOf(N, p)}
  <2>1. IsPrefix(p, p)
    BY <1>1, PrefixOrder
  <2>2. ASSUME NEW r \in N, IsPrefix(p, r), r # p
        PROVE  \E q \in KidsOf(N, p) : IsPrefix(q, r)
    <3>1. PICK q \in Seq(Nat) : Len(q) = Len(p) + 1 /\ IsPrefix(p, q) /\ IsPrefix(q, r)
      BY <1>1, <2>2, StepDown
    <3>2. q \in N
      BY <1>1, <3>1, NodesAbove
    <3>. QED  BY <3>1, <3>2 DEF KidsOf
  <2>. QED  BY <1>1, <1>2, <1>3, <2>1, <2>2
<1>6. \A r \in SlotsOf(m, N) :
        IsPrefix(p, r) <=> r \in OwnOf(m, N, p) \/ \E q \in KidsOf(N, p) : IsPrefix(q, r)
  <2> TAKE r \in SlotsOf(m, N)
  <2>1. ASSUME IsPrefix(p, r), r \notin OwnOf(m, N, p)
        PROVE  \E q \in KidsOf(N, p) : IsPrefix(q, r)
    <3>1. PICK q \in Seq(Nat) : /\ Len(q) = Len(p) + 1 /\ IsPrefix(p, q) /\ IsPrefix(q, r)
                                /\ q # r => IsPrefix(q, Front(r))
      BY <1>1, <1>4, <2>1, StepDown
    <3>2. q # r
      BY <2>1, <3>1 DEF OwnOf
    <3>3. q \in N
      BY <1>1, <1>4, <3>1, <3>2, NodesAbove
    <3>. QED  BY <3>1, <3>3 DEF KidsOf
  <2>. QED  BY <1>3, <1>4, <2>1 DEF OwnOf
<1>7. {<<s, Sorted(PairsUnder(m, s))>> : s \in {r \in SlotsOf(m, N) : IsPrefix(p, r)}} =
        {<<s, Sorted(PairsUnder(m, s))>> : s \in OwnOf(m, N, p)}
          \cup UNION {Content(m, q).slots : q \in KidsOf(N, p)}
  <2> DEFINE A == {<<s, Sorted(PairsUnder(m, s))>> : s \in {r \in SlotsOf(m, N) : IsPrefix(p, r)}}
             B == {<<s, Sorted(PairsUnder(m, s))>> : s \in OwnOf(m, N, p)}
                    \cup UNION {Content(m, q).slots : q \in KidsOf(N, p)}
  <2>1. ASSUME NEW x \in A PROVE x \in B
    <3>1. PICK s \in SlotsOf(m, N) : IsPrefix(p, s) /\ x = <<s, Sorted(PairsUnder(m, s))>>
      OBVIOUS
    <3>2. CASE s \in OwnOf(m, N, p)
      BY <3>1, <3>2
    <3>3. CASE s \notin OwnOf(m, N, p)
      <4>1. PICK q \in KidsOf(N, p) : IsPrefix(q, s)
        BY <1>6, <3>1, <3>3
      <4>2. x \in Content(m, q).slots
        BY <1>2, <3>1, <4>1
      <4>. QED  BY <4>2
    <3>. QED  BY <3>2, <3>3
  <2>2. ASSUME NEW x \in B PROVE x \in A
    <3>1. \E s \in SlotsOf(m, N) : /\ x = <<s, Sorted(PairsUnder(m, s))>>
                                   /\ \/ s \in OwnOf(m, N, p)
                                      \/ \E q \in KidsOf(N, p) : IsPrefix(q, s)
      <4>1. CASE x \in {<<s, Sorted(PairsUnder(m, s))>> : s \in OwnOf(m, N, p)}
        BY <4>1 DEF OwnOf
      <4>2. CASE x \in UNION {Content(m, q).slots : q \in KidsOf(N, p)}
        <5>1. PICK q \in KidsOf(N, p) : x \in Content(m, q).slots
          BY <4>2
        <5>. QED  BY <1>2, <5>1
      <4>. QED  BY <2>2, <4>1, <4>2
    <3>. QED  BY <1>6, <3>1
  <2> HIDE DEF A, B
  <2>3. A = B
    BY <2>1, <2>2
  <2>. QED  BY <2>3 DEF A, B
<1>8. Content(m, p) = [nodes |-> Content(m, p).nodes, slots |-> Content(m, p).slots]
  BY DEF Content
<1>. QED  BY <1>2, <1>5, <1>7, <1>8

(* The CIDs that the nodes have or get.                                    *)
LEMMA CidIs ==
  ASSUME NEW t, NEW m, Holds(t, m)
  PROVE  Cid(t) = [p \in Big(m) |-> Content(m, p)]
<1>0. PICK N : N = Big(m)
  OBVIOUS
<1>1. /\ IsMap(m) /\ N \subseteq Seq(Nat)
      /\ DOMAIN t.cells = N /\ DOMAIN t.slots = SlotsOf(m, N)
      /\ \A s \in SlotsOf(m, N) : t.slots[s] = Sorted(PairsUnder(m, s))
      /\ \A p \in N : t.cells[p] = {} \/ t.cells[p] = {Content(m, p)}
  BY <1>0, BigAreNodes DEF Holds, IsLaid, CellsAre, IsNodes
<1> DEFINE Value(f, p) ==
             IF t.cells[p] # {} THEN CHOOSE c \in t.cells[p] : TRUE
             ELSE [nodes |-> {p} \cup UNION {f[q].nodes : q \in KidsOf(N, p)},
                   slots |-> {<<s, t.slots[s]>> : s \in OwnOf(m, N, p)}
                               \cup UNION {f[q].slots : q \in KidsOf(N, p)}]
           G(f) == [p \in N |-> Value(f, p)]
           C == [p \in N |-> Content(m, p)]
<1>2. Cid(t) = CHOOSE f : f = G(f)
  BY <1>1 DEF Cid, KidsOf, OwnOf
<1>3. ASSUME NEW f, NEW p \in N, \A q \in KidsOf(N, p) : f[q] = Content(m, q)
      PROVE  Value(f, p) = Content(m, p)
  <2>1. CASE t.cells[p] # {}
    BY <1>1, <2>1
  <2>2. CASE t.cells[p] = {}
    <3>1. UNION {f[q].nodes : q \in KidsOf(N, p)} =
            UNION {Content(m, q).nodes : q \in KidsOf(N, p)}
      BY <1>3
    <3>2. UNION {f[q].slots : q \in KidsOf(N, p)} =
            UNION {Content(m, q).slots : q \in KidsOf(N, p)}
      BY <1>3
    <3>3. {<<s, t.slots[s]>> : s \in OwnOf(m, N, p)} =
            {<<s, Sorted(PairsUnder(m, s))>> : s \in OwnOf(m, N, p)}
      BY <1>1 DEF OwnOf
    <3>4. Value(f, p) =
            [nodes |-> {p} \cup UNION {f[q].nodes : q \in KidsOf(N, p)},
             slots |-> {<<s, t.slots[s]>> : s \in OwnOf(m, N, p)}
                         \cup UNION {f[q].slots : q \in KidsOf(N, p)}]
      BY <2>2
    <3>5. Content(m, p) =
            [nodes |-> {p} \cup UNION {Content(m, q).nodes : q \in KidsOf(N, p)},
             slots |-> {<<s, Sorted(PairsUnder(m, s))>> : s \in OwnOf(m, N, p)}
                         \cup UNION {Content(m, q).slots : q \in KidsOf(N, p)}]
      BY <1>0, <1>1, ContentStep
    <3> HIDE DEF Value
    <3>. QED  BY <3>1, <3>2, <3>3, <3>4, <3>5
  <2>. QED  BY <2>1, <2>2
<1> HIDE DEF Value
<1>4. C = G(C)
  <2>1. \A p \in N : Value(C, p) = Content(m, p)
    <3> TAKE p \in N
    <3>1. \A q \in KidsOf(N, p) : C[q] = Content(m, q)
      BY DEF KidsOf
    <3> HIDE DEF C
    <3>. QED  BY <1>3, <3>1
  <2>. QED  BY <2>1
<1>5. ASSUME NEW f, f = G(f) PROVE f = C
  <2> DEFINE B == {p \in N : f[p] # Content(m, p)}
  <2>1. f = [p \in N |-> f[p]] /\ \A p \in N : f[p] = Value(f, p)
    BY <1>5
  <2>2. B = {}
    <3> SUFFICES ASSUME B # {} PROVE FALSE
      OBVIOUS
    <3>1. B \subseteq Big(m)
      BY <1>0
    <3> HIDE DEF B
    <3>2. PICK p \in B : \A q \in B : Len(q) <= Len(p)
      BY <1>1, <3>1, LongestNode
    <3>3. p \in N /\ f[p] # Content(m, p) /\ Len(p) \in Nat
      BY <1>1, <3>2, LenProperties DEF B
    <3>4. \A q \in KidsOf(N, p) : f[q] = Content(m, q)
      <4> TAKE q \in KidsOf(N, p)
      <4>1. q \in N /\ Len(q) = Len(p) + 1
        BY DEF KidsOf
      <4>2. q \notin B
        BY <3>2, <3>3, <4>1
      <4>. QED  BY <4>1, <4>2 DEF B
    <3>. QED  BY <1>3, <2>1, <3>3, <3>4
  <2>. QED  BY <2>1, <2>2
<1> HIDE DEF G, C
<1>6. (CHOOSE f : f = G(f)) = C
  <2>1. PICK f : f = CHOOSE g : g = G(g)
    OBVIOUS
  <2>2. f = G(f)
    BY <1>4, <2>1
  <2>. QED  BY <1>5, <2>1, <2>2
<1>. QED  BY <1>0, <1>2, <1>6 DEF C

LEMMA StoredHolds ==
  ASSUME NEW t, NEW m, Holds(t, m)
  PROVE  Holds(Stored(t), m)
<1> DEFINE w == Stored(t)
<1>1. /\ t.cells = [p \in Big(m) |-> t.cells[p]]
      /\ t.slots = [s \in SlotsOf(m, Big(m)) |-> Sorted(PairsUnder(m, s))]
      /\ t.cells[<<>>] = {} /\ <<>> \in Big(m) /\ IsMap(m)
  BY BigAreNodes DEF Holds, IsLaid, CellsAre, IsNodes
<1>2. w.cells = [p \in Big(m) |-> IF p = <<>> THEN t.cells[p] ELSE {Content(m, p)}]
  <2>1. w.cells = [p \in Big(m) |-> IF p = <<>> THEN t.cells[p] ELSE {Cid(t)[p]}]
    BY <1>1 DEF Stored
  <2>2. \A p \in Big(m) : Cid(t)[p] = Content(m, p)
    BY CidIs
  <2> HIDE DEF w
  <2>. QED  BY <2>1, <2>2
<1>3. w = [cells |-> w.cells, slots |-> w.slots] /\ w.slots = t.slots
  BY DEF Stored
<1> HIDE DEF w
<1>4. IsLaid(w, m, Big(m))
  <2>1. w.cells = [p \in Big(m) |-> w.cells[p]]
    BY <1>2
  <2>. QED  BY <1>1, <1>3, <2>1 DEF IsLaid
<1>5. CellsAre(w, m)
  BY <1>1, <1>2 DEF CellsAre
<1>6. Holds(w, m)
  BY <1>1, <1>4, <1>5 DEF Holds
<1>. QED  BY <1>6 DEF w

LEMMA LoadedHolds ==
  ASSUME NEW m, IsMap(m)
  PROVE  Holds(Loaded(Content(m, <<>>)), m)
<1>0. PICK N : N = Big(m)
  OBVIOUS
<1>1. PICK c : c = Content(m, <<>>)
  OBVIOUS
<1>2. N \subseteq Seq(Nat) /\ <<>> \in N
  BY <1>0, BigAreNodes DEF IsNodes
<1>3. SlotsOf(m, N) \subseteq Seq(Nat)
  BY DEF SlotsOf
<1>4. \A p \in Seq(Nat) : IsPrefix(<<>>, p)
  BY PrefixOrder
<1>5. c.nodes = N
  BY <1>0, <1>1, <1>2, <1>4 DEF Content
<1>6. c.slots = {<<s, Sorted(PairsUnder(m, s))>> : s \in SlotsOf(m, N)}
  <2>1. {r \in SlotsOf(m, N) : IsPrefix(<<>>, r)} = SlotsOf(m, N)
    BY <1>3, <1>4
  <2>. QED  BY <1>0, <1>1, <2>1 DEF Content
<1>13. /\ \A s \in SlotsOf(m, N) : <<s, Sorted(PairsUnder(m, s))>> \in c.slots
       /\ \A x \in c.slots : /\ x[1] \in SlotsOf(m, N)
                              /\ x[2] = Sorted(PairsUnder(m, x[1]))
  <2>1. \A a, b : <<a, b>>[1] = a /\ <<a, b>>[2] = b
    OBVIOUS
  <2>2. ASSUME NEW x \in c.slots
        PROVE  x[1] \in SlotsOf(m, N) /\ x[2] = Sorted(PairsUnder(m, x[1]))
    <3>1. PICK s \in SlotsOf(m, N) : x = <<s, Sorted(PairsUnder(m, s))>>
      BY <1>6
    <3>2. x[1] = s /\ x[2] = Sorted(PairsUnder(m, s))
      BY <2>1, <3>1
    <3>. QED  BY <3>2
  <2>. QED  BY <1>6, <2>2
<1>14. \A s \in SlotsOf(m, N) : \E x \in c.slots : x[1] = s
  <2> TAKE s \in SlotsOf(m, N)
  <2>1. PICK x : x = <<s, Sorted(PairsUnder(m, s))>>
    OBVIOUS
  <2>2. x \in c.slots /\ x[1] = s
    BY <1>13, <2>1
  <2>. QED  BY <2>2
<1> DEFINE w == Loaded(c)
           Keys == {x[1] : x \in c.slots}
           slots == [s \in Keys |-> (CHOOSE x \in c.slots : x[1] = s)[2]]
           Below(p) == [nodes |-> {q \in c.nodes : IsPrefix(p, q)},
                        slots |-> {x \in c.slots : IsPrefix(p, x[1])}]
<1>7. /\ w = [cells |-> w.cells, slots |-> w.slots] /\ w.slots = slots
      /\ w.cells = [p \in c.nodes |-> IF p = <<>> THEN {} ELSE {Below(p)}]
  BY DEF Loaded
<1>8. slots = [s \in SlotsOf(m, N) |-> Sorted(PairsUnder(m, s))]
  <2>1. Keys = SlotsOf(m, N)
    BY <1>13, <1>14
  <2>2. ASSUME NEW s \in SlotsOf(m, N)
        PROVE  (CHOOSE x \in c.slots : x[1] = s)[2] = Sorted(PairsUnder(m, s))
    <3>1. \E x \in c.slots : x[1] = s
      BY <1>14
    <3>2. PICK y : y = CHOOSE x \in c.slots : x[1] = s
      OBVIOUS
    <3>3. y \in c.slots /\ y[1] = s
      BY <3>1, <3>2
    <3>. QED  BY <1>13, <3>2, <3>3
  <2>. QED  BY <2>1, <2>2
<1>9. \A p : Below(p) = Content(m, p)
  <2> TAKE p
  <2>1. {x \in c.slots : IsPrefix(p, x[1])} =
          {<<s, Sorted(PairsUnder(m, s))>> : s \in {r \in SlotsOf(m, N) : IsPrefix(p, r)}}
    BY <1>6
  <2>. QED  BY <1>0, <1>5, <2>1 DEF Content
<1> HIDE DEF w, slots, Below
<1>10. IsLaid(w, m, N)
  <2>1. w.cells = [p \in N |-> w.cells[p]]
    BY <1>5, <1>7
  <2>. QED  BY <1>7, <1>8, <2>1 DEF IsLaid
<1>11. CellsAre(w, m)
  BY <1>0, <1>2, <1>5, <1>7, <1>9 DEF CellsAre
<1>12. Holds(w, m)
  BY <1>0, <1>10, <1>11 DEF Holds
<1>. QED  BY <1>1, <1>12 DEF w

--------------------------------------------------------------------------------
(* Comparing.                                                              *)

(* The change at k between two maps.                                       *)
IsChange(m, n, k, c) ==
  \/ k \in DOMAIN m /\ k \notin DOMAIN n /\ c = Change("Add", k, {m[k]}, {})
  \/ k \in DOMAIN n /\ k \notin DOMAIN m /\ c = Change("Remove", k, {n[k]}, {})
  \/ k \in DOMAIN m /\ k \in DOMAIN n /\ m[k] # n[k]
       /\ c = Change("Modify", k, {m[k]}, {n[k]})

LEMMA ChangesAre ==
  ASSUME NEW m, NEW n, IsMap(m), IsMap(n), NEW p
  PROVE  \A c : c \in PairChanges(PairsUnder(m, p), PairsUnder(n, p)) <=>
                \E k \in Labels : IsPrefix(p, k) /\ IsChange(m, n, k, c)
<1> DEFINE a == PairsUnder(m, p)
           b == PairsUnder(n, p)
           KeysA == {x.key : x \in a}
           KeysB == {x.key : x \in b}
<1>1. \A k : /\ PairOf(m, k).key = k /\ PairOf(n, k).key = k
             /\ k \in DOMAIN m => PairOf(m, k).value = m[k]
             /\ k \in DOMAIN n => PairOf(n, k).value = n[k]
  BY DEF PairOf
<1>2. /\ \A k \in Under(m, p) : PairOf(m, k) \in a
      /\ \A x \in a : \E k \in Under(m, p) : x = PairOf(m, k)
      /\ \A k \in Under(n, p) : PairOf(n, k) \in b
      /\ \A x \in b : \E k \in Under(n, p) : x = PairOf(n, k)
  BY DEF PairsUnder
<1>3. /\ \A k : k \in Under(m, p) <=> k \in DOMAIN m /\ k \in Labels /\ IsPrefix(p, k)
      /\ \A k : k \in Under(n, p) <=> k \in DOMAIN n /\ k \in Labels /\ IsPrefix(p, k)
  BY DEF Under, IsMap
<1> HIDE DEF a, b
<1>4. KeysA = Under(m, p)
  BY <1>1, <1>2
<1>5. KeysB = Under(n, p)
  BY <1>1, <1>2
<1>6. \A x \in a : x.key \in Under(m, p) /\ x.value = m[x.key] /\ x = PairOf(m, x.key)
  BY <1>1, <1>2, <1>3
<1>7. \A x \in b : x.key \in Under(n, p) /\ x.value = n[x.key] /\ x = PairOf(n, x.key)
  BY <1>1, <1>2, <1>3
<1> DEFINE Adds == {Change("Add", x.key, {x.value}, {}) : x \in {y \in a : y.key \notin KeysB}}
           Removes == {Change("Remove", x.key, {x.value}, {}) :
                         x \in {y \in b : y.key \notin KeysA}}
           Modifies == {Change("Modify", z[1].key, {z[1].value}, {z[2].value}) :
                          z \in {x \in a \X b : x[1].key = x[2].key /\ x[1].value # x[2].value}}
<1>8. PairChanges(a, b) = Adds \cup Removes \cup Modifies
  BY DEF PairChanges
<1> HIDE DEF KeysA, KeysB
<1>9. \A c : c \in Adds <=>
        \E k \in Labels : /\ IsPrefix(p, k) /\ k \in DOMAIN m /\ k \notin DOMAIN n
                          /\ c = Change("Add", k, {m[k]}, {})
  <2> TAKE c
  <2>1. ASSUME c \in Adds
        PROVE  \E k \in Labels : /\ IsPrefix(p, k) /\ k \in DOMAIN m /\ k \notin DOMAIN n
                                 /\ c = Change("Add", k, {m[k]}, {})
    <3>1. PICK x \in a : x.key \notin KeysB /\ c = Change("Add", x.key, {x.value}, {})
      BY <2>1
    <3>2. x.key \in Under(m, p) /\ x.value = m[x.key] /\ x.key \notin Under(n, p)
      BY <1>5, <1>6, <3>1
    <3>. QED  BY <1>3, <3>1, <3>2
  <2>2. ASSUME NEW k \in Labels, IsPrefix(p, k), k \in DOMAIN m, k \notin DOMAIN n,
               c = Change("Add", k, {m[k]}, {})
        PROVE  c \in Adds
    <3>1. PICK x : x = PairOf(m, k)
      OBVIOUS
    <3>2. x \in a /\ x.key = k /\ x.value = m[k] /\ k \notin KeysB
      BY <1>1, <1>2, <1>3, <1>5, <2>2, <3>1
    <3>. QED  BY <2>2, <3>2
  <2>. QED  BY <2>1, <2>2
<1>10. \A c : c \in Removes <=>
        \E k \in Labels : /\ IsPrefix(p, k) /\ k \in DOMAIN n /\ k \notin DOMAIN m
                          /\ c = Change("Remove", k, {n[k]}, {})
  <2> TAKE c
  <2>1. ASSUME c \in Removes
        PROVE  \E k \in Labels : /\ IsPrefix(p, k) /\ k \in DOMAIN n /\ k \notin DOMAIN m
                                 /\ c = Change("Remove", k, {n[k]}, {})
    <3>1. PICK x \in b : x.key \notin KeysA /\ c = Change("Remove", x.key, {x.value}, {})
      BY <2>1
    <3>2. x.key \in Under(n, p) /\ x.value = n[x.key] /\ x.key \notin Under(m, p)
      BY <1>4, <1>7, <3>1
    <3>. QED  BY <1>3, <3>1, <3>2
  <2>2. ASSUME NEW k \in Labels, IsPrefix(p, k), k \in DOMAIN n, k \notin DOMAIN m,
               c = Change("Remove", k, {n[k]}, {})
        PROVE  c \in Removes
    <3>1. PICK x : x = PairOf(n, k)
      OBVIOUS
    <3>2. x \in b /\ x.key = k /\ x.value = n[k] /\ k \notin KeysA
      BY <1>1, <1>2, <1>3, <1>4, <2>2, <3>1
    <3>. QED  BY <2>2, <3>2
  <2>. QED  BY <2>1, <2>2
<1>11. \A c : c \in Modifies <=>
        \E k \in Labels : /\ IsPrefix(p, k) /\ k \in DOMAIN m /\ k \in DOMAIN n
                          /\ m[k] # n[k] /\ c = Change("Modify", k, {m[k]}, {n[k]})
  <2> TAKE c
  <2>1. ASSUME c \in Modifies
        PROVE  \E k \in Labels : /\ IsPrefix(p, k) /\ k \in DOMAIN m /\ k \in DOMAIN n
                                 /\ m[k] # n[k] /\ c = Change("Modify", k, {m[k]}, {n[k]})
    <3>1. PICK z \in a \X b : /\ z[1].key = z[2].key /\ z[1].value # z[2].value
                              /\ c = Change("Modify", z[1].key, {z[1].value}, {z[2].value})
      BY <2>1
    <3>2. PICK x \in a, y \in b : x = z[1] /\ y = z[2]
      BY <3>1
    <3>3. /\ x.key = y.key /\ x.value # y.value
          /\ c = Change("Modify", x.key, {x.value}, {y.value})
      BY <3>1, <3>2
    <3>4. /\ x.key \in Under(m, p) /\ x.value = m[x.key]
          /\ y.key \in Under(n, p) /\ y.value = n[y.key]
      BY <1>6, <1>7
    <3>. QED  BY <1>3, <3>3, <3>4
  <2>2. ASSUME NEW k \in Labels, IsPrefix(p, k), k \in DOMAIN m, k \in DOMAIN n,
               m[k] # n[k], c = Change("Modify", k, {m[k]}, {n[k]})
        PROVE  c \in Modifies
    <3>1. PICK x, y : x = PairOf(m, k) /\ y = PairOf(n, k)
      OBVIOUS
    <3>2. /\ x \in a /\ x.key = k /\ x.value = m[k]
          /\ y \in b /\ y.key = k /\ y.value = n[k]
      BY <1>1, <1>2, <1>3, <2>2, <3>1
    <3>3. PICK z : z = <<x, y>>
      OBVIOUS
    <3>4. z \in a \X b /\ z[1] = x /\ z[2] = y
      BY <3>2, <3>3
    <3>5. c = Change("Modify", z[1].key, {z[1].value}, {z[2].value})
      BY <2>2, <3>2, <3>4
    <3>. QED  BY <2>2, <3>2, <3>4, <3>5
  <2>. QED  BY <2>1, <2>2
<1> HIDE DEF Adds, Removes, Modifies
<1>12. \A c : c \in PairChanges(a, b) <=>
                \E k \in Labels : IsPrefix(p, k) /\ IsChange(m, n, k, c)
  BY <1>8, <1>9, <1>10, <1>11 DEF IsChange
<1>. QED  BY <1>12 DEF a, b

(* A CID stands for the pairs below a node.                                *)
LEMMA ContentPairs ==
  ASSUME NEW m, IsMap(m), NEW p \in Big(m)
  PROVE  PairsUnder(m, p) = UNION {Range(x[2]) : x \in Content(m, p).slots}
<1>0. PICK N : N = Big(m)
  OBVIOUS
<1>1. IsNodes(N) /\ N \subseteq Seq(Nat) /\ p \in N /\ p \in Seq(Nat)
  BY <1>0, BigAreNodes DEF IsNodes
<1> DEFINE A == {r \in SlotsOf(m, N) : IsPrefix(p, r)}
<1>2. Content(m, p).slots = {<<s, Sorted(PairsUnder(m, s))>> : s \in A}
  BY <1>0 DEF Content
<1>3. \A s \in A : /\ s \in Seq(Nat) /\ IsPrefix(p, s)
                   /\ Range(Sorted(PairsUnder(m, s))) = PairsUnder(m, s)
  <2> TAKE s \in A
  <2>1. s \in Seq(Nat) /\ IsPrefix(p, s)
    BY DEF SlotsOf
  <2>2. IsBucketOf(Sorted(PairsUnder(m, s)), m, s)
    BY <2>1, SortedIsBucket
  <2>. QED  BY <2>1, <2>2 DEF IsBucketOf, IsSorting, Range
<1>4. \A k \in Under(m, p) : \E s \in A : k \in Under(m, s)
  <2> TAKE k \in Under(m, p)
  <2>1. k \in Labels /\ k \in DOMAIN m /\ IsPrefix(p, k)
    BY DEF Under, IsMap
  <2>2. PICK t : t = [cells |-> [q \in N |-> {}],
                      slots |-> [s \in SlotsOf(m, N) |-> Sorted(PairsUnder(m, s))]]
    OBVIOUS
  <2>3. IsLaid(t, m, N)
    BY <2>2 DEF IsLaid
  <2>4. PICK s : s = SlotOf(t, k)
    OBVIOUS
  <2>5. IsSlotOf(s, k, N) /\ (k \in DOMAIN m <=> k \in Under(m, s))
    BY <1>1, <2>1, <2>3, <2>4, BucketIs
  <2>6. /\ s \in Seq(Nat) /\ s # <<>> /\ s \notin N /\ Front(s) \in N /\ IsPrefix(s, k)
        /\ Len(p) < Len(s)
    BY <1>1, <2>1, <2>5 DEF IsSlotOf
  <2>7. IsPrefix(p, s)
    <3>1. IsPrefix(p, s) \/ IsPrefix(s, p)
      BY <1>1, <2>1, <2>6, LabelOf, PrefixOrder
    <3>2. ~IsPrefix(s, p)
      <4>1. ASSUME IsPrefix(s, p) PROVE FALSE
        <5>1. Len(s) <= Len(p)
          BY <1>1, <2>6, <4>1, PrefixOf
        <5>2. Len(s) \in Nat /\ Len(p) \in Nat
          BY <1>1, <2>6, LenProperties
        <5>. QED  BY <2>6, <5>1, <5>2
      <4>. QED  BY <4>1
    <3>. QED  BY <3>1, <3>2
  <2>8. s \in SlotsOf(m, N)
    BY <2>1, <2>5, <2>6 DEF SlotsOf
  <2>. QED  BY <2>1, <2>5, <2>7, <2>8
<1>5. \A s \in A : Under(m, s) \subseteq Under(m, p)
  BY <1>1, <1>3, UnderOf
<1> HIDE DEF A
<1>6. \A a, b : <<a, b>>[2] = b
  OBVIOUS
<1>7. ASSUME NEW y \in PairsUnder(m, p)
      PROVE  \E x \in Content(m, p).slots : y \in Range(x[2])
  <2>1. PICK k \in Under(m, p) : y = PairOf(m, k)
    BY DEF PairsUnder
  <2>2. PICK s \in A : k \in Under(m, s)
    BY <1>4
  <2>3. y \in PairsUnder(m, s)
    BY <2>1, <2>2 DEF PairsUnder
  <2>4. PICK x : x = <<s, Sorted(PairsUnder(m, s))>>
    OBVIOUS
  <2>5. x \in Content(m, p).slots /\ x[2] = Sorted(PairsUnder(m, s))
    BY <1>2, <1>6, <2>4
  <2>. QED  BY <1>3, <2>3, <2>5
<1>8. ASSUME NEW x \in Content(m, p).slots, NEW y \in Range(x[2])
      PROVE  y \in PairsUnder(m, p)
  <2>1. PICK s \in A : x = <<s, Sorted(PairsUnder(m, s))>>
    BY <1>2
  <2>2. y \in PairsUnder(m, s)
    BY <1>3, <1>6, <2>1
  <2>3. PICK k \in Under(m, s) : y = PairOf(m, k)
    BY <2>2 DEF PairsUnder
  <2>. QED  BY <1>5, <2>3 DEF PairsUnder
<1>. QED  BY <1>7, <1>8

(* Nodes with the same CID hold the same pairs.                            *)
LEMMA SameCidIs ==
  ASSUME NEW t, NEW m, Holds(t, m), NEW u, NEW n, Holds(u, n), NEW p, SameCid(t, u, p)
  PROVE  PairsUnder(m, p) = PairsUnder(n, p)
<1>1. /\ DOMAIN t.cells = Big(m) /\ DOMAIN u.cells = Big(n) /\ IsMap(m) /\ IsMap(n)
      /\ \A q \in Big(m) : t.cells[q] = {} \/ t.cells[q] = {Content(m, q)}
      /\ \A q \in Big(n) : u.cells[q] = {} \/ u.cells[q] = {Content(n, q)}
  BY DEF Holds, IsLaid, CellsAre
<1>2. p \in Big(m) /\ p \in Big(n) /\ t.cells[p] # {} /\ t.cells[p] = u.cells[p]
  BY <1>1 DEF SameCid
<1>3. Content(m, p) = Content(n, p)
  BY <1>1, <1>2
<1>4. PairsUnder(m, p) = UNION {Range(x[2]) : x \in Content(m, p).slots}
  BY <1>1, <1>2, ContentPairs
<1>5. PairsUnder(n, p) = UNION {Range(x[2]) : x \in Content(n, p).slots}
  BY <1>1, <1>2, ContentPairs
<1>. QED  BY <1>3, <1>4, <1>5

PathsOf(m, n) ==
  {<<>>} \cup UNION {{Upto(k, d) : d \in 0 .. Len(k)} : k \in DOMAIN m \cup DOMAIN n}

KidPaths(P, p) == {r \in P : Len(r) = Len(p) + 1 /\ IsPrefix(p, r)}

LEMMA PathsAre ==
  ASSUME NEW m, NEW n, IsMap(m), IsMap(n)
  PROVE  /\ PathsOf(m, n) \subseteq Seq(Nat)
         /\ \E h \in Nat : \A p \in PathsOf(m, n) : Len(p) <= h
         /\ \A p \in PathsOf(m, n) : \A k \in DOMAIN m \cup DOMAIN n :
              /\ k \in Labels
              /\ IsPrefix(p, k) /\ p # k =>
                   \E r \in KidPaths(PathsOf(m, n), p) : IsPrefix(r, k)
         /\ \A p \in PathsOf(m, n) : \A r \in KidPaths(PathsOf(m, n), p) : \A k \in Labels :
              IsPrefix(r, k) => IsPrefix(p, k)
<1> DEFINE D == DOMAIN m \cup DOMAIN n
           P == PathsOf(m, n)
<1>1. D \subseteq Labels
  BY DEF IsMap
<1>2. \A k \in D : k \in Seq(Nat) /\ Len(k) \in Nat
  BY <1>1, LabelOf
<1>3. \A p : p \in P <=> p = <<>> \/ \E k \in D : \E d \in 0 .. Len(k) : p = Upto(k, d)
  <2> TAKE p
  <2>1. p \in UNION {{Upto(k, d) : d \in 0 .. Len(k)} : k \in D} <=>
          \E k \in D : \E d \in 0 .. Len(k) : p = Upto(k, d)
    OBVIOUS
  <2>2. P = {<<>>} \cup UNION {{Upto(k, d) : d \in 0 .. Len(k)} : k \in D}
    BY DEF PathsOf
  <2> HIDE DEF D, P
  <2>. QED  BY <2>1, <2>2
<1> HIDE DEF D, P
<1>4. P \subseteq Seq(Nat)
  <2> SUFFICES ASSUME NEW p \in P PROVE p \in Seq(Nat)
    OBVIOUS
  <2>1. CASE p = <<>>
    BY <2>1, EmptySeq
  <2>2. CASE p # <<>>
    BY <1>2, <1>3, <2>2, UptoOf
  <2>. QED  BY <2>1, <2>2
<1>5. \E h \in Nat : \A p \in P : Len(p) <= h
  <2>1. CASE D = {}
    <3>1. \A p \in P : Len(p) <= 0
      BY <1>3, <2>1, EmptySeq
    <3>. QED  BY <3>1
  <2>2. CASE D # {}
    <3>1. PICK k \in D : TRUE
      BY <2>2
    <3>2. PICK h \in Nat : \A l \in D : Len(l) = h
      BY <1>1, <3>1, LabelOf
    <3>3. \A p \in P : Len(p) <= h
      <4> TAKE p \in P
      <4>1. CASE p = <<>>
        BY <3>2, <4>1, EmptySeq
      <4>2. CASE p # <<>>
        <5>1. PICK l \in D : \E d \in 0 .. Len(l) : p = Upto(l, d)
          BY <1>3, <4>2
        <5>2. PICK d \in 0 .. Len(l) : Len(p) = d
          BY <1>2, <5>1, UptoOf
        <5>. QED  BY <1>2, <3>2, <5>1, <5>2
      <4>. QED  BY <4>1, <4>2
    <3>. QED  BY <3>3
  <2>. QED  BY <2>1, <2>2
<1>6. ASSUME NEW p \in P, NEW k \in D, IsPrefix(p, k), p # k
      PROVE  \E r \in KidPaths(P, p) : IsPrefix(r, k)
  <2>1. p \in Seq(Nat) /\ k \in Seq(Nat)
    BY <1>2, <1>4
  <2>2. PICK r \in Seq(Nat) : Len(r) = Len(p) + 1 /\ IsPrefix(p, r) /\ IsPrefix(r, k)
    BY <1>6, <2>1, StepDown
  <2>3. r = Upto(k, Len(r)) /\ Len(r) \in 0 .. Len(k)
    BY <2>1, <2>2, PrefixIsUpto, LenProperties
  <2>4. r \in P
    BY <1>3, <2>3
  <2>. QED  BY <2>2, <2>4 DEF KidPaths
<1>7. ASSUME NEW p \in P, NEW r \in KidPaths(P, p), NEW k \in Labels, IsPrefix(r, k)
      PROVE  IsPrefix(p, k)
  <2>1. p \in Seq(Nat) /\ r \in Seq(Nat) /\ k \in Seq(Nat) /\ IsPrefix(p, r)
    BY <1>4, LabelOf DEF KidPaths
  <2>. QED  BY <1>7, <2>1, PrefixOrder
<1>. QED  BY <1>1, <1>4, <1>5, <1>6, <1>7 DEF P, D

(* Opening buckets and skipping nodes with the same CID, `diff` finds the   *)
(* changes between the maps.                                               *)
LEMMA DiffIs ==
  ASSUME NEW t, NEW m, Holds(t, m), NEW u, NEW n, Holds(u, n)
  PROVE  /\ Diff(t, u) = PairChanges(Pairs(t), Pairs(u))
         /\ \A c : c \in Diff(t, u) <=> \E k \in Labels : IsChange(m, n, k, c)
<1>0. PICK P : P = PathsOf(m, n)
  OBVIOUS
<1>1. /\ IsMap(m) /\ IsLaid(t, m, Big(m)) /\ IsNodes(Big(m)) /\ DOMAIN t.cells = Big(m)
      /\ IsMap(n) /\ IsLaid(u, n, Big(n)) /\ IsNodes(Big(n)) /\ DOMAIN u.cells = Big(n)
  BY BigAreNodes DEF Holds, IsLaid
<1>2. /\ Pairs(t) = {PairOf(m, k) : k \in DOMAIN m}
      /\ \A p : PairsBelow(t, p) = PairsUnder(m, p)
  BY <1>1, PairsAre
<1>3. /\ Pairs(u) = {PairOf(n, k) : k \in DOMAIN n}
      /\ \A p : PairsBelow(u, p) = PairsUnder(n, p)
  BY <1>1, PairsAre
<1>4. /\ P \subseteq Seq(Nat)
      /\ \E h \in Nat : \A p \in P : Len(p) <= h
      /\ \A p \in P : \A k \in DOMAIN m \cup DOMAIN n :
           /\ k \in Labels
           /\ IsPrefix(p, k) /\ p # k => \E r \in KidPaths(P, p) : IsPrefix(r, k)
      /\ \A p \in P : \A r \in KidPaths(P, p) : \A k \in Labels : IsPrefix(r, k) => IsPrefix(p, k)
  BY <1>0, <1>1, PathsAre
<1> DEFINE paths == {<<>>} \cup UNION {{Upto(pair.key, d) : d \in 0 .. Len(pair.key)} :
                                          pair \in Pairs(t) \cup Pairs(u)}
           Value(f, p) ==
             IF SameCid(t, u, p) THEN {}
             ELSE IF \/ p = <<>>
                     \/ /\ p \in Big(m) \cup Big(n)
                        /\ PairsUnder(m, p) # {} /\ PairsUnder(n, p) # {}
             THEN UNION {f[q] : q \in KidPaths(P, p)}
             ELSE PairChanges(PairsUnder(m, p), PairsUnder(n, p))
           G(f) == [p \in P |-> Value(f, p)]
           C == [p \in P |-> PairChanges(PairsUnder(m, p), PairsUnder(n, p))]
<1>5. paths = P
  <2>1. \A k : PairOf(m, k).key = k /\ PairOf(n, k).key = k
    BY DEF PairOf
  <2>2. {pair.key : pair \in Pairs(t) \cup Pairs(u)} = DOMAIN m \cup DOMAIN n
    BY <1>2, <1>3, <2>1
  <2>3. PICK Q : Q = Pairs(t) \cup Pairs(u)
    OBVIOUS
  <2>4. {{Upto(pair.key, d) : d \in 0 .. Len(pair.key)} : pair \in Q} =
          {{Upto(k, d) : d \in 0 .. Len(k)} : k \in {pair.key : pair \in Q}}
    OBVIOUS
  <2>. QED  BY <1>0, <2>2, <2>3, <2>4 DEF PathsOf
<1>6. Diff(t, u) = (CHOOSE f : f = G(f))[<<>>]
  BY <1>1, <1>2, <1>3, <1>5 DEF Diff, KidPaths
<1>7. ASSUME NEW p
      PROVE  \A c : c \in PairChanges(PairsUnder(m, p), PairsUnder(n, p)) <=>
                      \E k \in Labels : IsPrefix(p, k) /\ IsChange(m, n, k, c)
  BY <1>1, ChangesAre
<1>8. ASSUME NEW f, NEW p \in P,
             \A q \in KidPaths(P, p) : f[q] = PairChanges(PairsUnder(m, q), PairsUnder(n, q))
      PROVE  Value(f, p) = PairChanges(PairsUnder(m, p), PairsUnder(n, p))
  <2>1. CASE SameCid(t, u, p)
    <3>1. PairsUnder(m, p) = PairsUnder(n, p)
      BY <2>1, SameCidIs
    <3>2. ASSUME NEW c, NEW k \in Labels, IsPrefix(p, k), IsChange(m, n, k, c) PROVE FALSE
      <4>1. k \in DOMAIN m => PairOf(m, k) \in PairsUnder(n, p)
        BY <3>1, <3>2 DEF PairsUnder, Under
      <4>2. k \in DOMAIN n => PairOf(n, k) \in PairsUnder(m, p)
        BY <3>1, <3>2 DEF PairsUnder, Under
      <4>3. k \in DOMAIN m => k \in DOMAIN n /\ PairOf(m, k) = PairOf(n, k)
        <5> SUFFICES ASSUME k \in DOMAIN m PROVE k \in DOMAIN n /\ PairOf(m, k) = PairOf(n, k)
          OBVIOUS
        <5>1. PICK l \in Under(n, p) : PairOf(m, k) = PairOf(n, l)
          BY <4>1 DEF PairsUnder
        <5>2. PairOf(m, k).key = k /\ PairOf(n, l).key = l
          BY DEF PairOf
        <5>3. l = k
          BY <5>1, <5>2
        <5>. QED  BY <5>1, <5>3 DEF Under
      <4>4. k \in DOMAIN n => k \in DOMAIN m
        <5> SUFFICES ASSUME k \in DOMAIN n PROVE k \in DOMAIN m
          OBVIOUS
        <5>1. PICK l \in Under(m, p) : PairOf(n, k) = PairOf(m, l)
          BY <4>2 DEF PairsUnder
        <5>2. PairOf(n, k).key = k /\ PairOf(m, l).key = l
          BY DEF PairOf
        <5>3. l = k
          BY <5>1, <5>2
        <5>. QED  BY <5>3 DEF Under
      <4>5. k \in DOMAIN m /\ k \in DOMAIN n /\ m[k] # n[k]
        BY <3>2, <4>3, <4>4 DEF IsChange
      <4>6. PairOf(m, k).value = m[k] /\ PairOf(n, k).value = n[k]
        BY DEF PairOf
      <4>. QED  BY <4>3, <4>5, <4>6
    <3>3. PairChanges(PairsUnder(m, p), PairsUnder(n, p)) = {}
      BY <1>7, <3>2
    <3>. QED  BY <2>1, <3>3
  <2>2. CASE /\ ~SameCid(t, u, p)
             /\ \/ p = <<>>
                \/ /\ p \in Big(m) \cup Big(n)
                   /\ PairsUnder(m, p) # {} /\ PairsUnder(n, p) # {}
    <3>1. p \notin Labels
      BY <1>1, <2>2 DEF IsNodes
    <3>2. Value(f, p) = UNION {f[q] : q \in KidPaths(P, p)}
      BY <2>2
    <3>3. \A c : c \in Value(f, p) <=>
             \E q \in KidPaths(P, p) : c \in PairChanges(PairsUnder(m, q), PairsUnder(n, q))
      BY <1>8, <3>2
    <3>4. \A c : c \in Value(f, p) <=>
             \E q \in KidPaths(P, p) : \E k \in Labels : IsPrefix(q, k) /\ IsChange(m, n, k, c)
      BY <1>7, <3>3
    <3>5. \A c : \A k \in Labels : IsChange(m, n, k, c) => k \in DOMAIN m \cup DOMAIN n
      BY DEF IsChange
    <3>6. \A c : c \in Value(f, p) <=>
             \E k \in Labels : IsPrefix(p, k) /\ IsChange(m, n, k, c)
      <4> TAKE c
      <4>1. ASSUME c \in Value(f, p)
            PROVE  \E k \in Labels : IsPrefix(p, k) /\ IsChange(m, n, k, c)
        <5>1. PICK q \in KidPaths(P, p) : \E k \in Labels : IsPrefix(q, k) /\ IsChange(m, n, k, c)
          BY <3>4, <4>1
        <5>. QED  BY <1>4, <5>1
      <4>2. ASSUME NEW k \in Labels, IsPrefix(p, k), IsChange(m, n, k, c)
            PROVE  c \in Value(f, p)
        <5>1. k \in DOMAIN m \cup DOMAIN n /\ p # k
          BY <3>1, <3>5, <4>2
        <5>2. PICK q \in KidPaths(P, p) : IsPrefix(q, k)
          BY <1>4, <4>2, <5>1
        <5>. QED  BY <3>4, <4>2, <5>2
      <4> HIDE DEF Value
      <4>. QED  BY <4>1, <4>2
    <3> HIDE DEF Value
    <3>. QED  BY <1>7, <3>6
  <2>3. CASE /\ ~SameCid(t, u, p)
             /\ ~ \/ p = <<>>
                  \/ /\ p \in Big(m) \cup Big(n)
                     /\ PairsUnder(m, p) # {} /\ PairsUnder(n, p) # {}
    BY <2>3
  <2>. QED  BY <2>1, <2>2, <2>3
<1> HIDE DEF Value
<1>9. C = G(C)
  <2>1. \A p \in P : Value(C, p) = PairChanges(PairsUnder(m, p), PairsUnder(n, p))
    <3> TAKE p \in P
    <3>1. \A q \in KidPaths(P, p) : C[q] = PairChanges(PairsUnder(m, q), PairsUnder(n, q))
      BY DEF KidPaths
    <3> HIDE DEF C
    <3>. QED  BY <1>8, <3>1
  <2>. QED  BY <2>1
<1>10. ASSUME NEW f, f = G(f) PROVE f = C
  <2> DEFINE B == {p \in P : f[p] # PairChanges(PairsUnder(m, p), PairsUnder(n, p))}
  <2>1. f = [p \in P |-> f[p]] /\ \A p \in P : f[p] = Value(f, p)
    BY <1>10
  <2>2. B = {}
    <3> SUFFICES ASSUME B # {} PROVE FALSE
      OBVIOUS
    <3>1. PICK h \in Nat : \A p \in P : Len(p) <= h
      BY <1>4
    <3>2. \A p \in P : Len(p) \in Nat
      BY <1>4, LenProperties
    <3> DEFINE D == {h - Len(p) : p \in B}
    <3>3. D \subseteq Nat
      BY <3>1, <3>2
    <3>4. D # {}
      OBVIOUS
    <3> HIDE DEF D, B
    <3>5. PICK l \in D : \A d \in D : l <= d
      BY <3>3, <3>4, LeastOf
    <3>6. PICK p \in B : l = h - Len(p)
      BY <3>5 DEF D
    <3>7. p \in P
      BY DEF B
    <3>8. \A q \in KidPaths(P, p) : f[q] = PairChanges(PairsUnder(m, q), PairsUnder(n, q))
      <4> TAKE q \in KidPaths(P, p)
      <4>1. q \in P /\ Len(q) = Len(p) + 1
        BY DEF KidPaths
      <4>2. q \notin B
        <5> SUFFICES ASSUME q \in B PROVE FALSE
          OBVIOUS
        <5>1. h - Len(q) \in D
          BY DEF D
        <5>2. l <= h - Len(q)
          BY <3>5, <5>1
        <5>. QED  BY <3>2, <3>6, <3>7, <4>1, <5>2
      <4>. QED  BY <4>1, <4>2 DEF B
    <3>9. f[p] = PairChanges(PairsUnder(m, p), PairsUnder(n, p))
      BY <1>8, <2>1, <3>7, <3>8
    <3>. QED  BY <3>9 DEF B
  <2>. QED  BY <2>1, <2>2
<1> HIDE DEF G
<1>11. (CHOOSE f : f = G(f)) = C
  <2> HIDE DEF C
  <2>1. PICK f : f = CHOOSE g : g = G(g)
    OBVIOUS
  <2>2. f = G(f)
    BY <1>9, <2>1
  <2>. QED  BY <1>10, <2>1, <2>2
<1>12. Diff(t, u) = PairChanges(PairsUnder(m, <<>>), PairsUnder(n, <<>>))
  <2>1. <<>> \in P
    BY <1>0 DEF PathsOf
  <2>. QED  BY <1>6, <1>11, <2>1
<1>13. \A k \in Labels : IsPrefix(<<>>, k)
  BY LabelOf, PrefixOrder
<1>14. PairsUnder(m, <<>>) = Pairs(t) /\ PairsUnder(n, <<>>) = Pairs(u)
  <2>1. Under(m, <<>>) = DOMAIN m /\ Under(n, <<>>) = DOMAIN n
    BY <1>1, <1>13 DEF Under, IsMap
  <2>. QED  BY <1>2, <1>3, <2>1 DEF PairsUnder
<1>. QED  BY <1>7, <1>12, <1>13, <1>14

--------------------------------------------------------------------------------
(* Merging.                                                                *)

(* Every member of a finite set is in its sequence.                        *)
LEMMA SetToSeqIs ==
  ASSUME NEW S, IsFiniteSet(S), NEW f, f = SetToSeq(S)
  PROVE  /\ Len(f) \in Nat /\ DOMAIN f = 1 .. Len(f)
         /\ \A i \in 1 .. Len(f) : f[i] \in S
         /\ \A x \in S : \E i \in 1 .. Len(f) : f[i] = x
<1>1. PICK n \in Nat : n = Cardinality(S)
  BY FS_CardinalityType
<1>2. ExistsBijection(1 .. n, S)
  BY <1>1, FS_CardinalityType
<1>3. \E g \in [1 .. n -> S] : IsInjective(g)
  BY <1>2 DEF ExistsBijection, Bijection, Injection
<1>4. f = CHOOSE g \in [1 .. n -> S] : IsInjective(g)
  BY <1>1 DEF SetToSeq
<1>5. f \in [1 .. n -> S] /\ IsInjective(f)
  BY <1>3, <1>4
<1>6. f \in Injection(1 .. n, S)
  BY <1>5 DEF Injection
<1>7. Cardinality(1 .. n) = Cardinality(S)
  BY <1>1, UpToCard
<1>8. f \in Surjection(1 .. n, S)
  BY <1>6, <1>7, FS_Injection
<1>9. Len(f) = n
  BY <1>5, LenProperties
<1>10. \A x \in S : \E i \in 1 .. n : f[i] = x
  BY <1>8 DEF Surjection
<1>. QED  BY <1>5, <1>9, <1>10

(* The join of two maps, as far as the labels in K are concerned.          *)
JoinedAt(m, n, K) ==
  [l \in DOMAIN m \cup (DOMAIN n \cap K) |->
     IF l \in K THEN Had(m, l) \cup Had(n, l) ELSE m[l]]

JoinOf(m, n) == [l \in DOMAIN m \cup DOMAIN n |-> Had(m, l) \cup Had(n, l)]

LEMMA JoinedIs ==
  ASSUME NEW m, NEW n, IsMap(m), IsMap(n), NEW K
  PROVE  /\ IsMap(JoinedAt(m, n, K))
         /\ JoinedAt(m, n, {}) = m
         /\ \A k : k \in DOMAIN m /\ k \notin DOMAIN n =>
              JoinedAt(m, n, K \cup {k}) = JoinedAt(m, n, K)
         /\ \A k : k \in DOMAIN n =>
              JoinedAt(m, n, K \cup {k}) =
                Put(JoinedAt(m, n, K), k, Had(m, k) \cup Had(n, k))
         /\ (\A l \in (DOMAIN m \cup DOMAIN n) \ K :
               l \in DOMAIN m /\ l \in DOMAIN n /\ m[l] = n[l]) =>
              JoinedAt(m, n, K) = JoinOf(m, n)
<1>1. /\ m = [k \in DOMAIN m |-> m[k]]
      /\ DOMAIN m \subseteq Labels /\ IsFiniteSet(DOMAIN m)
      /\ \A k \in DOMAIN m : {k} \X m[k] \subseteq Writes
  BY DEF IsMap
<1>2. /\ DOMAIN n \subseteq Labels /\ IsFiniteSet(DOMAIN n)
      /\ \A k \in DOMAIN n : {k} \X n[k] \subseteq Writes
  BY DEF IsMap
<1>3. IsMap(JoinedAt(m, n, K))
  <2>1. PICK j : j = JoinedAt(m, n, K)
    OBVIOUS
  <2>2. /\ DOMAIN j = DOMAIN m \cup (DOMAIN n \cap K) /\ j = [l \in DOMAIN j |-> j[l]]
        /\ \A l \in DOMAIN j : j[l] = IF l \in K THEN Had(m, l) \cup Had(n, l) ELSE m[l]
    BY <2>1 DEF JoinedAt
  <2>3. IsFiniteSet(DOMAIN j)
    <3>1. DOMAIN n \cap K \in SUBSET (DOMAIN n)
      OBVIOUS
    <3>2. IsFiniteSet(DOMAIN n \cap K)
      BY <1>2, <3>1, FS_Subset
    <3>3. IsFiniteSet(DOMAIN m \cup (DOMAIN n \cap K))
      BY <1>1, <3>2, FS_Union
    <3>. QED  BY <2>2, <3>3
  <2>4. ASSUME NEW k \in DOMAIN j PROVE {k} \X j[k] \subseteq Writes
    <3>1. {k} \X Had(m, k) \subseteq Writes /\ {k} \X Had(n, k) \subseteq Writes
      BY <1>1, <1>2 DEF Had
    <3>2. k \notin K => k \in DOMAIN m
      BY <2>2
    <3>. QED  BY <1>1, <2>2, <3>1, <3>2
  <2>5. DOMAIN j \subseteq Labels
    BY <1>1, <1>2, <2>2
  <2>. QED  BY <2>1, <2>2, <2>3, <2>4, <2>5 DEF IsMap
<1>4. JoinedAt(m, n, {}) = m
  BY <1>1 DEF JoinedAt
<1>5. ASSUME NEW k, k \in DOMAIN m, k \notin DOMAIN n
      PROVE  JoinedAt(m, n, K \cup {k}) = JoinedAt(m, n, K)
  <2>1. Had(m, k) \cup Had(n, k) = m[k]
    BY <1>5 DEF Had
  <2>2. DOMAIN n \cap (K \cup {k}) = DOMAIN n \cap K
    BY <1>5
  <2>3. \A l : (IF l \in K \cup {k} THEN Had(m, l) \cup Had(n, l) ELSE m[l]) =
               (IF l \in K THEN Had(m, l) \cup Had(n, l) ELSE m[l])
    BY <2>1
  <2>. QED  BY <2>2, <2>3 DEF JoinedAt
<1>6. ASSUME NEW k, k \in DOMAIN n
      PROVE  JoinedAt(m, n, K \cup {k}) =
               Put(JoinedAt(m, n, K), k, Had(m, k) \cup Had(n, k))
  <2>1. PICK j : j = JoinedAt(m, n, K)
    OBVIOUS
  <2>2. PICK g : g = JoinedAt(m, n, K \cup {k})
    OBVIOUS
  <2>3. /\ DOMAIN j = DOMAIN m \cup (DOMAIN n \cap K)
        /\ \A l \in DOMAIN j : j[l] = IF l \in K THEN Had(m, l) \cup Had(n, l) ELSE m[l]
    BY <2>1 DEF JoinedAt
  <2>4. /\ DOMAIN g = DOMAIN m \cup (DOMAIN n \cap (K \cup {k})) /\ g = [l \in DOMAIN g |-> g[l]]
        /\ \A l \in DOMAIN g :
             g[l] = IF l \in K \cup {k} THEN Had(m, l) \cup Had(n, l) ELSE m[l]
    BY <2>2 DEF JoinedAt
  <2>5. DOMAIN g = DOMAIN j \cup {k}
    BY <1>6, <2>3, <2>4
  <2>6. \A l \in DOMAIN g : g[l] = IF l = k THEN Had(m, k) \cup Had(n, k) ELSE j[l]
    BY <2>3, <2>4, <2>5
  <2>7. g = [l \in DOMAIN j \cup {k} |-> IF l = k THEN Had(m, k) \cup Had(n, k) ELSE j[l]]
    BY <2>4, <2>5, <2>6
  <2>. QED  BY <2>1, <2>2, <2>7 DEF Put
<1>7. ASSUME \A l \in (DOMAIN m \cup DOMAIN n) \ K :
               l \in DOMAIN m /\ l \in DOMAIN n /\ m[l] = n[l]
      PROVE  JoinedAt(m, n, K) = JoinOf(m, n)
  <2>1. DOMAIN m \cup (DOMAIN n \cap K) = DOMAIN m \cup DOMAIN n
    BY <1>7
  <2>2. \A l \in DOMAIN m \cup DOMAIN n :
          (IF l \in K THEN Had(m, l) \cup Had(n, l) ELSE m[l]) = Had(m, l) \cup Had(n, l)
    BY <1>7 DEF Had
  <2>. QED  BY <2>1, <2>2 DEF JoinedAt, JoinOf
<1>. QED  BY <1>3, <1>4, <1>5, <1>6, <1>7

(* What merging does for one change.                                       *)
ValueFor(t, u, c) ==
  IF c.type = "Remove"
  THEN CHOOSE v \in c.value1 : TRUE
  ELSE UNION (GetValue(t, c.key) \cup GetValue(u, c.key))

Applied(t, u, c, w) ==
  IF c.type = "Add" THEN w ELSE SetValue(w, c.key, ValueFor(t, u, c))

LEMMA AppliedHolds ==
  ASSUME NEW t, NEW m, Holds(t, m), NEW u, NEW n, Holds(u, n),
         NEW k \in Labels, NEW c, IsChange(m, n, k, c), NEW K,
         NEW w, Holds(w, JoinedAt(m, n, K))
  PROVE  Holds(Applied(t, u, c, w), JoinedAt(m, n, K \cup {k})) /\ c.key = k
<1>1. /\ IsMap(m) /\ IsLaid(t, m, Big(m)) /\ IsNodes(Big(m))
      /\ IsMap(n) /\ IsLaid(u, n, Big(n)) /\ IsNodes(Big(n))
  BY BigAreNodes DEF Holds
<1>2. /\ k \in DOMAIN m /\ k \notin DOMAIN n =>
           JoinedAt(m, n, K \cup {k}) = JoinedAt(m, n, K)
      /\ k \in DOMAIN n =>
           JoinedAt(m, n, K \cup {k}) =
             Put(JoinedAt(m, n, K), k, Had(m, k) \cup Had(n, k))
  BY <1>1, JoinedIs
<1>3. {k} \X (Had(m, k) \cup Had(n, k)) \subseteq Writes
  BY <1>1 DEF IsMap, Had
<1>4. PICK v : v = Had(m, k) \cup Had(n, k)
  OBVIOUS
<1>5. ASSUME k \in DOMAIN n, c.type # "Add", c.key = k, ValueFor(t, u, c) = v
      PROVE  Holds(Applied(t, u, c, w), JoinedAt(m, n, K \cup {k}))
  <2>1. Applied(t, u, c, w) = SetValue(w, k, v)
    BY <1>5 DEF Applied
  <2>2. Holds(SetValue(w, k, v), Put(JoinedAt(m, n, K), k, v))
    BY <1>3, <1>4, SetValueHolds
  <2>. QED  BY <1>2, <1>4, <1>5, <2>1, <2>2
<1>6. CASE k \in DOMAIN m /\ k \notin DOMAIN n /\ c = Change("Add", k, {m[k]}, {})
  <2>1. c.type = "Add" /\ c.key = k
    BY <1>6 DEF Change
  <2>. QED  BY <1>2, <1>6, <2>1 DEF Applied
<1>7. CASE k \in DOMAIN n /\ k \notin DOMAIN m /\ c = Change("Remove", k, {n[k]}, {})
  <2>1. c.type = "Remove" /\ c.key = k /\ c.value1 = {n[k]}
    BY <1>7 DEF Change
  <2>2. ValueFor(t, u, c) = n[k]
    BY <2>1 DEF ValueFor
  <2>3. v = n[k]
    BY <1>4, <1>7 DEF Had
  <2>. QED  BY <1>5, <1>7, <2>1, <2>2, <2>3
<1>8. CASE /\ k \in DOMAIN m /\ k \in DOMAIN n /\ m[k] # n[k]
           /\ c = Change("Modify", k, {m[k]}, {n[k]})
  <2>1. c.type = "Modify" /\ c.key = k
    BY <1>8 DEF Change
  <2>2. GetValue(t, k) = {m[k]} /\ GetValue(u, k) = {n[k]}
    BY <1>1, <1>8, ValueIs
  <2>3. ValueFor(t, u, c) = UNION ({m[k]} \cup {n[k]})
    BY <2>1, <2>2 DEF ValueFor
  <2>4. v = m[k] \cup n[k]
    BY <1>4, <1>8 DEF Had
  <2>. QED  BY <1>5, <1>8, <2>1, <2>3, <2>4
<1>. QED  BY <1>6, <1>7, <1>8 DEF IsChange

(* There is at most one change for each label.                             *)
LEMMA ChangesAreFinite ==
  ASSUME NEW m, NEW n, IsMap(m), IsMap(n),
         NEW D, \A c : c \in D <=> \E k \in Labels : IsChange(m, n, k, c)
  PROVE  IsFiniteSet(D)
<1> DEFINE S == {k \in DOMAIN m \cup DOMAIN n : \E c : IsChange(m, n, k, c)}
           f == [k \in S |-> CHOOSE c : IsChange(m, n, k, c)]
           T == {f[k] : k \in S}
<1>1. S \in SUBSET (DOMAIN m \cup DOMAIN n)
  OBVIOUS
<1>2. IsFiniteSet(DOMAIN m) /\ IsFiniteSet(DOMAIN n)
  BY DEF IsMap
<1>3. IsFiniteSet(DOMAIN m \cup DOMAIN n)
  BY <1>2, FS_Union
<1>4. IsFiniteSet(S)
  <2> HIDE DEF S
  <2>. QED  BY <1>1, <1>3, FS_Subset
<1>5. IsFiniteSet(T)
  <2>1. PICK g : g = f
    OBVIOUS
  <2>2. PICK R : R = S
    OBVIOUS
  <2>3. T = {g[k] : k \in R}
    BY <2>1, <2>2
  <2> HIDE DEF T, S, f
  <2>. QED  BY <1>4, <2>2, <2>3, ValuesOf
<1>6. ASSUME NEW c \in D PROVE c \in T
  <2>1. PICK k \in Labels : IsChange(m, n, k, c)
    BY <1>6
  <2>2. k \in S
    BY <2>1 DEF IsChange
  <2>3. IsChange(m, n, k, f[k])
    BY <2>1, <2>2
  <2>4. \A a, b : IsChange(m, n, k, a) /\ IsChange(m, n, k, b) => a = b
    BY DEF IsChange
  <2>5. c = f[k]
    <3> HIDE DEF f
    <3>. QED  BY <2>1, <2>3, <2>4
  <2>. QED  BY <2>2, <2>5
<1>7. D \in SUBSET T
  <2> HIDE DEF T
  <2>. QED  BY <1>6
<1>. QED
  <2> HIDE DEF T
  <2>. QED  BY <1>5, <1>7, FS_Subset

(* Merging applies one change after the other.                             *)
AreMerges(g, t, u, f) ==
  \A i \in 0 .. Len(f) :
    g[i] = IF i = 0 THEN t ELSE Applied(t, u, f[i], g[i - 1])

LEMMA MergedIs ==
  ASSUME NEW t, NEW u, NEW f, f = SetToSeq(Diff(t, u)), Len(f) \in Nat
  PROVE  \E g : AreMerges(g, t, u, f) /\ Merged(t, u) = g[Len(f)]
<1>1. PICK L \in Nat : L = Len(f)
  OBVIOUS
<1> DEFINE G(g) == [i \in 0 .. L |->
                      IF i = 0 THEN t
                      ELSE IF f[i].type = "Add" THEN g[i - 1]
                      ELSE SetValue(g[i - 1], f[i].key,
                             IF f[i].type = "Remove"
                             THEN CHOOSE v \in f[i].value1 : TRUE
                             ELSE UNION (GetValue(t, f[i].key) \cup GetValue(u, f[i].key)))]
           merge == CHOOSE g : g = G(g)
           F(g, j) == g = [i \in 0 .. j |->
                             IF i = 0 THEN t ELSE Applied(t, u, f[i], g[i - 1])]
           S == {j \in Nat : \E g : F(g, j)}
<1>2. Merged(t, u) = merge[L]
  BY <1>1 DEF Merged
<1>3. \A g : G(g) = [i \in 0 .. L |->
                       IF i = 0 THEN t ELSE Applied(t, u, f[i], g[i - 1])]
  BY DEF Applied, ValueFor
<1> HIDE DEF G
<1>4. 0 \in S
  <2>1. PICK g : g = [i \in 0 .. 0 |-> t]
    OBVIOUS
  <2>2. F(g, 0)
    BY <2>1
  <2>. QED  BY <2>2
<1>5. ASSUME NEW j \in Nat, j \in S PROVE j + 1 \in S
  <2>1. PICK g : F(g, j)
    BY <1>5
  <2> DEFINE o == [i \in 0 .. j + 1 |->
                     IF i = j + 1 THEN Applied(t, u, f[j + 1], g[j]) ELSE g[i]]
  <2>2. ASSUME NEW i \in 0 .. j + 1
        PROVE  o[i] = IF i = 0 THEN t ELSE Applied(t, u, f[i], o[i - 1])
    <3>1. CASE i = j + 1
      <4>1. o[i] = Applied(t, u, f[i], g[j]) /\ i # 0 /\ i - 1 = j /\ o[j] = g[j]
        BY <3>1
      <4> HIDE DEF o
      <4>. QED  BY <4>1
    <3>2. CASE i # j + 1
      <4>1. i \in 0 .. j /\ o[i] = g[i] /\ (i # 0 => o[i - 1] = g[i - 1])
        BY <3>2
      <4>2. g[i] = IF i = 0 THEN t ELSE Applied(t, u, f[i], g[i - 1])
        BY <2>1, <4>1
      <4> HIDE DEF o
      <4>. QED  BY <4>1, <4>2
    <3>. QED  BY <3>1, <3>2
  <2>3. o = [i \in 0 .. j + 1 |-> o[i]]
    OBVIOUS
  <2> HIDE DEF o
  <2>4. F(o, j + 1)
    BY <2>2, <2>3
  <2> HIDE DEF F
  <2>. QED  BY <2>4
<1>6. L \in S
  <2> HIDE DEF S
  <2>1. \A i \in 0 .. L - 1 : i \in S => i + 1 \in S
    BY <1>5
  <2>2. \A i \in 0 .. L : i \in S
    BY <1>4, <2>1, HoldsUpTo
  <2>. QED  BY <2>2
<1>7. \E g : g = G(g)
  BY <1>3, <1>6
<1>8. merge = G(merge)
  <2>1. PICK h : h = CHOOSE g : g = G(g)
    OBVIOUS
  <2>2. h = G(h)
    BY <1>7, <2>1
  <2>. QED  BY <2>1, <2>2
<1>9. PICK h : h = merge
  OBVIOUS
<1> HIDE DEF merge
<1>10. h = [i \in 0 .. L |->
              IF i = 0 THEN t ELSE Applied(t, u, f[i], h[i - 1])]
  BY <1>3, <1>8, <1>9
<1>11. AreMerges(h, t, u, f)
  BY <1>1, <1>10 DEF AreMerges
<1>. QED  BY <1>1, <1>2, <1>9, <1>11

(* Merging joins the maps.                                                 *)
LEMMA MergedHolds ==
  ASSUME NEW t, NEW m, Holds(t, m), NEW u, NEW n, Holds(u, n)
  PROVE  Holds(Merged(t, u), JoinOf(m, n))
<1>1. IsMap(m) /\ IsMap(n)
  BY DEF Holds
<1>2. PICK D : D = Diff(t, u)
  OBVIOUS
<1>3. \A c : c \in D <=> \E k \in Labels : IsChange(m, n, k, c)
  BY <1>2, DiffIs
<1>4. IsFiniteSet(D)
  BY <1>1, <1>3, ChangesAreFinite
<1>5. PICK f : f = SetToSeq(D)
  OBVIOUS
<1>6. /\ Len(f) \in Nat /\ \A i \in 1 .. Len(f) : f[i] \in D
      /\ \A x \in D : \E i \in 1 .. Len(f) : f[i] = x
  BY <1>4, <1>5, SetToSeqIs
<1>7. PICK g : AreMerges(g, t, u, f) /\ Merged(t, u) = g[Len(f)]
  BY <1>2, <1>5, <1>6, MergedIs
<1> DEFINE Done(i) == {f[j].key : j \in 1 .. i}
           S == {i \in 0 .. Len(f) : Holds(g[i], JoinedAt(m, n, Done(i)))}
<1>8. 0 \in S
  <2>1. Done(0) = {} /\ 0 \in 0 .. Len(f)
    BY <1>6
  <2>2. g[0] = t
    BY <1>7, <2>1 DEF AreMerges
  <2>3. JoinedAt(m, n, {}) = m
    BY <1>1, JoinedIs
  <2>. QED  BY <2>1, <2>2, <2>3
<1>9. ASSUME NEW i \in 0 .. Len(f) - 1, i \in S PROVE i + 1 \in S
  <2>1. PICK j \in Int : j = i + 1
    BY <1>6
  <2>2. j \in 0 .. Len(f) /\ j \in 1 .. Len(f) /\ j # 0 /\ j - 1 = i
    BY <1>6, <2>1
  <2>3. PICK K : K = Done(i)
    OBVIOUS
  <2>4. Holds(g[i], JoinedAt(m, n, K))
    BY <1>9, <2>3
  <2>5. PICK c \in D : c = f[j]
    BY <1>6, <2>2
  <2>6. PICK k \in Labels : IsChange(m, n, k, c)
    BY <1>3, <2>5
  <2>7. g[j] = Applied(t, u, c, g[i])
    <3>1. g[j] = Applied(t, u, f[j], g[j - 1])
      BY <1>7, <2>2 DEF AreMerges
    <3>. QED  BY <2>2, <2>5, <3>1
  <2>8. Holds(Applied(t, u, c, g[i]), JoinedAt(m, n, K \cup {k})) /\ c.key = k
    <3>1. PICK w : w = g[i]
      OBVIOUS
    <3>2. Holds(w, JoinedAt(m, n, K))
      BY <2>4, <3>1
    <3>3. Holds(Applied(t, u, c, w), JoinedAt(m, n, K \cup {k})) /\ c.key = k
      <4> HIDE DEF S, Done
      <4>. QED  BY <2>6, <3>2, AppliedHolds
    <3>. QED  BY <3>1, <3>3
  <2>9. Done(j) = K \cup {k}
    <3>1. 1 .. j = (1 .. i) \cup {j}
      BY <2>1, <2>2
    <3>2. Done(j) = {f[x].key : x \in 1 .. i} \cup {f[j].key}
      BY <3>1
    <3>. QED  BY <2>3, <2>5, <2>8, <3>2
  <2>10. Holds(g[j], JoinedAt(m, n, Done(j)))
    BY <2>7, <2>8, <2>9
  <2>. QED  BY <2>1, <2>2, <2>10
<1>10. Len(f) \in S
  <2> HIDE DEF S
  <2>1. \A i \in 0 .. Len(f) : i \in S
    BY <1>6, <1>8, <1>9, HoldsUpTo
  <2>. QED  BY <1>6, <2>1
<1>11. PICK K : K = Done(Len(f))
  OBVIOUS
<1>12. Holds(Merged(t, u), JoinedAt(m, n, K))
  BY <1>7, <1>10, <1>11
<1>13. ASSUME NEW l \in (DOMAIN m \cup DOMAIN n) \ K
       PROVE  l \in DOMAIN m /\ l \in DOMAIN n /\ m[l] = n[l]
  <2>1. l \in Labels
    BY <1>1, <1>13 DEF IsMap
  <2> SUFFICES ASSUME ~(l \in DOMAIN m /\ l \in DOMAIN n /\ m[l] = n[l])
               PROVE  FALSE
    OBVIOUS
  <2>2. \E c : IsChange(m, n, l, c) /\ c.key = l
    <3>1. \A a, b, d : Change(d, l, a, b).key = l
      BY DEF Change
    <3>2. CASE l \notin DOMAIN m
      BY <3>1, <3>2 DEF IsChange
    <3>3. CASE l \notin DOMAIN n
      BY <3>1, <3>3 DEF IsChange
    <3>4. CASE l \in DOMAIN m /\ l \in DOMAIN n /\ m[l] # n[l]
      BY <3>1, <3>4 DEF IsChange
    <3>. QED  BY <3>2, <3>3, <3>4
  <2>3. PICK c \in D : c.key = l
    BY <1>3, <2>1, <2>2
  <2>4. PICK i \in 1 .. Len(f) : f[i] = c
    BY <1>6
  <2>5. l \in K
    BY <1>11, <2>3, <2>4
  <2>. QED  BY <2>5
<1>14. JoinedAt(m, n, K) = JoinOf(m, n)
  BY <1>1, <1>13, JoinedIs
<1>. QED  BY <1>12, <1>14

--------------------------------------------------------------------------------
(* The inductive invariant, and what each operation does to the maps.      *)

(* What each device's forest maps its labels to.                           *)
Maps == [d \in Devices |-> ToMap(forest[d])]

(* Each tree is laid out as its map determines, and its filled cells have   *)
(* the CIDs of what is below them now.                                     *)
IInv ==
  /\ forest = [d \in Devices |-> forest[d]]
  /\ \A d \in Devices : Holds(forest[d], Maps[d])

LEMMA HoldsMap ==
  ASSUME NEW t, NEW m, Holds(t, m)
  PROVE  ToMap(t) = m
<1>1. IsMap(m) /\ IsLaid(t, m, Big(m)) /\ IsNodes(Big(m))
  BY BigAreNodes DEF Holds
<1>. QED  BY <1>1, PairsAre

(* An empty tree is laid out for the empty map.                            *)
LEMMA EmptyHolds == Holds(EmptyTree, <<>>)
<1>1. PICK m : m = <<>>
  OBVIOUS
<1>2. DOMAIN m = {} /\ m = [k \in {} |-> m[k]]
  BY <1>1
<1>3. IsFiniteSet({}) /\ Cardinality({}) = 0
  BY FS_EmptySet
<1>4. IsMap(m)
  BY <1>2, <1>3 DEF IsMap
<1>5. \A p : Under(m, p) = {}
  BY <1>2 DEF Under
<1>6. BucketSize \in Nat
  BY BucketSizeIsPositive
<1>7. Big(m) = {<<>>}
  <2>1. \A p : ~(Cardinality(Under(m, p)) > BucketSize)
    BY <1>3, <1>5, <1>6
  <2>. QED  BY <2>1 DEF Big
<1>8. SlotsOf(m, {<<>>}) = {}
  BY <1>5 DEF SlotsOf
<1>9. IsLaid(EmptyTree, m, {<<>>})
  <2>1. EmptyTree.cells = [p \in {<<>>} |-> {}] /\ EmptyTree.slots = m
    BY <1>1 DEF EmptyTree
  <2>2. EmptyTree = [cells |-> EmptyTree.cells, slots |-> EmptyTree.slots]
    BY DEF EmptyTree
  <2>3. \A p \in {<<>>} : EmptyTree.cells[p] = {}
    BY <2>1
  <2>4. EmptyTree.cells = [p \in {<<>>} |-> EmptyTree.cells[p]]
    BY <2>1
  <2>5. m = [s \in {} |-> Sorted(PairsUnder(m, s))]
    BY <1>2
  <2>. QED  BY <1>8, <2>1, <2>2, <2>4, <2>5 DEF IsLaid
<1>10. CellsAre(EmptyTree, m)
  <2>1. \A p \in {<<>>} : EmptyTree.cells[p] = {}
    BY DEF EmptyTree
  <2>. QED  BY <1>7, <2>1 DEF CellsAre
<1>. QED  BY <1>1, <1>4, <1>7, <1>9, <1>10 DEF Holds

LEMMA InitHolds == Init => IInv /\ Maps = [d \in Devices |-> <<>>]
<1> SUFFICES ASSUME Init PROVE IInv /\ Maps = [d \in Devices |-> <<>>]
  OBVIOUS
<1>1. forest = [d \in Devices |-> EmptyTree]
  BY DEF Init, New
<1>2. ToMap(EmptyTree) = <<>>
  BY EmptyHolds, HoldsMap
<1>3. Maps = [d \in Devices |-> <<>>]
  BY <1>1, <1>2 DEF Maps
<1>. QED  BY <1>1, <1>3, EmptyHolds DEF IInv

(* A device's forest is replaced by one that holds the map m.              *)
LEMMA StepOf ==
  ASSUME IInv, NEW d \in Devices, NEW t, NEW m, Holds(t, m),
         forest' = [forest EXCEPT ![d] = t]
  PROVE  IInv' /\ Maps' = [Maps EXCEPT ![d] = m]
<1>1. /\ forest' = [e \in Devices |-> forest'[e]]
      /\ \A e \in Devices : forest'[e] = IF e = d THEN t ELSE forest[e]
  BY DEF IInv
<1>2. Maps' = [e \in Devices |-> ToMap(forest'[e])]
  BY DEF Maps
<1>3. ToMap(t) = m
  BY HoldsMap
<1>4. \A e \in Devices : Maps'[e] = IF e = d THEN m ELSE Maps[e]
  BY <1>1, <1>2, <1>3 DEF Maps
<1>5. Maps' = [Maps EXCEPT ![d] = m]
  <2>1. Maps' = [e \in Devices |-> Maps'[e]]
    BY <1>2
  <2>2. [Maps EXCEPT ![d] = m] = [e \in Devices |-> IF e = d THEN m ELSE Maps[e]]
    BY DEF Maps
  <2>. QED  BY <1>4, <2>1, <2>2
<1>6. \A e \in Devices : Holds(forest'[e], Maps'[e])
  BY <1>1, <1>4 DEF IInv
<1>. QED  BY <1>1, <1>5, <1>6 DEF IInv

LEMMA PutStep ==
  ASSUME IInv, NEW d \in Devices, NEW w \in Writes, PutEncrypted(d, w[1], w[2])
  PROVE  /\ IInv'
         /\ Maps' = [Maps EXCEPT ![d] =
                       Put(Maps[d], w[1], Had(Maps[d], w[1]) \cup {w[2]})]
<1>1. w[1] \in Labels /\ <<w[1], w[2]>> \in Writes
  BY WritesArePairs DEF Labels
<1>2. forest' = [forest EXCEPT ![d] = Extended(forest[d], w[1], w[2])]
  BY DEF PutEncrypted
<1>3. Holds(forest[d], Maps[d])
  BY DEF IInv
<1>4. Holds(Extended(forest[d], w[1], w[2]),
            Put(Maps[d], w[1], Had(Maps[d], w[1]) \cup {w[2]}))
  BY <1>1, <1>3, ExtendedHolds
<1>. QED  BY <1>2, <1>4, StepOf

LEMMA RemoveStep ==
  ASSUME IInv, NEW d \in Devices, NEW l \in Labels, RemoveEncrypted(d, l)
  PROVE  IInv' /\ Maps' = [Maps EXCEPT ![d] = Rest(Maps[d], l)]
<1>1. forest' = [forest EXCEPT ![d] = RemoveValue(forest[d], l)]
  BY DEF RemoveEncrypted
<1>2. Holds(RemoveValue(forest[d], l), Rest(Maps[d], l))
  BY RemoveHolds DEF IInv
<1>. QED  BY <1>1, <1>2, StepOf

LEMMA StoreStep ==
  ASSUME IInv, NEW d \in Devices, Store(d)
  PROVE  IInv' /\ Maps' = [Maps EXCEPT ![d] = Maps[d]]
<1>1. forest' = [forest EXCEPT ![d] = Stored(forest[d])]
  BY DEF Store
<1>2. Holds(Stored(forest[d]), Maps[d])
  BY StoredHolds DEF IInv
<1>. QED  BY <1>1, <1>2, StepOf

LEMMA LoadStep ==
  ASSUME IInv, NEW d \in Devices, NEW e \in Devices, Load(d, e)
  PROVE  IInv' /\ Maps' = [Maps EXCEPT ![d] = Maps[e]]
<1>1. forest' = [forest EXCEPT ![d] = Loaded(Cid(forest[e])[<<>>])]
  BY DEF Load
<1>2. Holds(forest[e], Maps[e])
  BY DEF IInv
<1>3. IsMap(Maps[e]) /\ <<>> \in Big(Maps[e])
  BY <1>2, BigAreNodes DEF Holds, IsNodes
<1>4. Cid(forest[e])[<<>>] = Content(Maps[e], <<>>)
  BY <1>2, <1>3, CidIs
<1>5. Holds(Loaded(Cid(forest[e])[<<>>]), Maps[e])
  BY <1>3, <1>4, LoadedHolds
<1>. QED  BY <1>1, <1>5, StepOf

LEMMA MergeStep ==
  ASSUME IInv, NEW d \in Devices, NEW e \in Devices, Merge(d, e)
  PROVE  IInv' /\ Maps' = [Maps EXCEPT ![d] = JoinOf(Maps[d], Maps[e])]
<1>1. forest' = [forest EXCEPT ![d] = Merged(forest[d], forest[e])]
  BY DEF Merge
<1>2. Holds(forest[d], Maps[d]) /\ Holds(forest[e], Maps[e])
  BY DEF IInv
<1>3. Holds(Merged(forest[d], forest[e]), JoinOf(Maps[d], Maps[e]))
  BY <1>2, MergedHolds
<1>. QED  BY <1>1, <1>3, StepOf

LEMMA StepHolds == IInv /\ [Next]_forest => IInv'
<1> SUFFICES ASSUME IInv, [Next]_forest PROVE IInv'
  OBVIOUS
<1>1. ASSUME NEW d \in Devices, NEW w \in Writes, PutEncrypted(d, w[1], w[2])
      PROVE  IInv'
  BY <1>1, PutStep
<1>2. ASSUME NEW d \in Devices, NEW l \in Labels, RemoveEncrypted(d, l)
      PROVE  IInv'
  BY <1>2, RemoveStep
<1>3. ASSUME NEW d \in Devices, Store(d) PROVE IInv'
  BY <1>3, StoreStep
<1>4. ASSUME NEW d \in Devices, NEW e \in Devices, Load(d, e) PROVE IInv'
  BY <1>4, LoadStep
<1>5. ASSUME NEW d \in Devices, NEW e \in Devices, Merge(d, e) PROVE IInv'
  BY <1>5, MergeStep
<1>6. CASE UNCHANGED forest
  BY <1>6 DEF IInv, Maps
<1>. QED  BY <1>1, <1>2, <1>3, <1>4, <1>5, <1>6 DEF Next

--------------------------------------------------------------------------------
(* Nodes hang together and buckets are filled as the HAMT of wnfs-hamt      *)
(* (node.rs) expects them: neither empty nor overfull, sorted by digest,    *)
(* with pairs that belong there.                                           *)
THEOREM ForestsAreTyped == Spec => []TypeOK
<1>1. IInv => TypeOK
  <2> SUFFICES ASSUME IInv, NEW d \in Devices, NEW t, t = forest[d]
               PROVE  /\ <<>> \in DOMAIN t.cells
                      /\ \A p \in (DOMAIN t.cells \cup DOMAIN t.slots) \ {<<>>} :
                           Front(p) \in DOMAIN t.cells
                      /\ DOMAIN t.cells \cap DOMAIN t.slots = {}
                      /\ \A s \in DOMAIN t.slots :
                           LET b == t.slots[s]
                           IN /\ Len(b) \in 1 .. BucketSize
                              /\ \A i \in DOMAIN b :
                                    /\ b[i].key \in Labels
                                    /\ IsPrefix(s, b[i].key)
                                    /\ {b[i].key} \X b[i].value \subseteq Writes
                              /\ \A i, j \in DOMAIN b :
                                    i < j => Before(b[i].key, b[j].key)
    BY DEF TypeOK
  <2>1. PICK m : m = Maps[d]
    OBVIOUS
  <2>2. PICK N : N = Big(m)
    OBVIOUS
  <2>3. /\ IsMap(m) /\ DOMAIN t.cells = N /\ DOMAIN t.slots = SlotsOf(m, N)
        /\ \A s \in SlotsOf(m, N) : t.slots[s] = Sorted(PairsUnder(m, s))
        /\ IsNodes(N)
    BY <2>1, <2>2, BigAreNodes DEF IInv, Holds, IsLaid
  <2>4. <<>> \in N /\ \A p \in (N \cup SlotsOf(m, N)) \ {<<>>} : Front(p) \in N
    BY <2>3 DEF IsNodes, SlotsOf
  <2>5. N \cap SlotsOf(m, N) = {}
    BY DEF SlotsOf
  <2>6. ASSUME NEW s \in SlotsOf(m, N), NEW b, b = t.slots[s]
        PROVE  /\ Len(b) \in 1 .. BucketSize
               /\ \A i \in DOMAIN b :
                    /\ b[i].key \in Labels
                    /\ IsPrefix(s, b[i].key)
                    /\ {b[i].key} \X b[i].value \subseteq Writes
               /\ \A i, j \in DOMAIN b : i < j => Before(b[i].key, b[j].key)
    <3>1. s \in Seq(Nat) /\ s \notin N /\ Under(m, s) # {}
      BY DEF SlotsOf
    <3>2. IsBucketOf(b, m, s)
      BY <2>3, <2>6, <3>1, SortedIsBucket
    <3>3. Len(b) \in 1 .. BucketSize
      <4>1. Cardinality(Under(m, s)) \in Nat /\ IsFiniteSet(Under(m, s))
        BY <2>3, <3>1, UnderOf
      <4>2. ~(Cardinality(Under(m, s)) > BucketSize)
        BY <2>2, <3>1 DEF Big
      <4>3. Cardinality(Under(m, s)) # 0
        BY <3>1, <4>1, FS_EmptySet
      <4>4. BucketSize \in Nat
        BY BucketSizeIsPositive
      <4>. QED  BY <3>2, <4>1, <4>2, <4>3, <4>4 DEF IsBucketOf
    <3>4. ASSUME NEW i \in DOMAIN b
          PROVE  /\ b[i].key \in Labels /\ IsPrefix(s, b[i].key)
                 /\ {b[i].key} \X b[i].value \subseteq Writes
      <4>1. b[i].key \in Under(m, s) /\ b[i].key \in Labels /\ b[i] = PairOf(m, b[i].key)
        BY <3>2 DEF IsBucketOf
      <4>2. PICK k : k = b[i].key
        OBVIOUS
      <4>3. k \in DOMAIN m /\ IsPrefix(s, k)
        BY <4>1, <4>2 DEF Under
      <4>4. b[i].value = m[k]
        BY <4>1, <4>2 DEF PairOf
      <4>. QED  BY <2>3, <4>1, <4>2, <4>3, <4>4 DEF IsMap
    <3>5. \A i, j \in DOMAIN b : i < j => Before(b[i].key, b[j].key)
      BY <3>2 DEF IsBucketOf, IsSorting, Increases
    <3>. QED  BY <3>3, <3>4, <3>5
  <2>. QED  BY <2>3, <2>4, <2>5, <2>6
<1>. QED  BY <1>1, InitHolds, StepHolds, PTL DEF Spec

(* Whatever puts, removals and merges led to two forests, if they have the  *)
(* same CIDs under the same labels they have the same nodes and buckets:    *)
(* `Pointer::canonicalize` (wnfs-hamt/src/pointer.rs) keeps the root CID a  *)
(* function of the map.                                                    *)
THEOREM RootsAreCanonical == Spec => []EqualMapsEqualRoots
<1>1. IInv => EqualMapsEqualRoots
  <2> SUFFICES ASSUME IInv, NEW d \in Devices, NEW e \in Devices,
                      ToMap(forest[d]) = ToMap(forest[e])
               PROVE  /\ DOMAIN forest[d].cells = DOMAIN forest[e].cells
                      /\ forest[d].slots = forest[e].slots
    BY DEF EqualMapsEqualRoots
  <2>1. PICK m : m = Maps[d]
    OBVIOUS
  <2>2. Maps[e] = m
    BY <2>1 DEF Maps
  <2>3. IsLaid(forest[d], m, Big(m)) /\ IsLaid(forest[e], m, Big(m))
    BY <2>1, <2>2 DEF IInv, Holds
  <2>. QED  BY <2>3 DEF IsLaid
<1>. QED  BY <1>1, InitHolds, StepHolds, PTL DEF Spec

(* `diff` (wnfs-hamt/src/diff.rs) reports each label whose CIDs differ and  *)
(* no other, although it skips nodes with equal CIDs and compares buckets   *)
(* with nodes.                                                             *)
THEOREM DiffsAreExact == Spec => []DiffIsExact
<1>1. IInv => DiffIsExact
  <2> SUFFICES ASSUME IInv, NEW d \in Devices, NEW e \in Devices
               PROVE  Diff(forest[d], forest[e]) =
                        PairChanges(Pairs(forest[d]), Pairs(forest[e]))
    BY DEF DiffIsExact
  <2>1. Holds(forest[d], Maps[d]) /\ Holds(forest[e], Maps[e])
    BY DEF IInv
  <2>. QED  BY <2>1, DiffIs
<1>. QED  BY <1>1, InitHolds, StepHolds, PTL DEF Spec

--------------------------------------------------------------------------------
(* The refinement.                                                         *)

(* What devices read is what the maps have.                                *)
Seen == [d \in Devices |-> [l \in DOMAIN ToMap(forest[d]) |-> GetEncrypted(d, l)]]

LEMMA SeenIs == IInv => Seen = Maps
<1> SUFFICES ASSUME IInv, NEW d \in Devices
             PROVE  [l \in DOMAIN ToMap(forest[d]) |-> GetEncrypted(d, l)] = Maps[d]
  BY DEF Seen, Maps
<1>1. PICK m : m = Maps[d]
  OBVIOUS
<1>2. PICK t : t = forest[d]
  OBVIOUS
<1>3. Holds(t, m) /\ ToMap(t) = m
  BY <1>1, <1>2 DEF IInv, Maps
<1>4. IsMap(m) /\ IsLaid(t, m, Big(m)) /\ IsNodes(Big(m))
  BY <1>3, BigAreNodes DEF Holds
<1>5. ASSUME NEW l \in DOMAIN m PROVE GetEncrypted(d, l) = m[l]
  <2>1. l \in Labels
    BY <1>4, <1>5 DEF IsMap
  <2>2. GetValue(t, l) = {m[l]}
    BY <1>4, <1>5, <2>1, ValueIs
  <2>. QED  BY <1>2, <2>2 DEF GetEncrypted
<1>6. m = [l \in DOMAIN m |-> m[l]]
  BY <1>4 DEF IsMap
<1>. QED  BY <1>1, <1>2, <1>3, <1>5, <1>6

LEMMA SeenNext == IInv' => Seen' = Maps'
<1>1. (IInv => Seen = Maps)'
  BY SeenIs, PTL
<1>. QED  BY <1>1

LEMMA SeenSteps ==
  ASSUME IInv, [Next]_forest
  PROVE  [ForestMapSpec!Next]_Seen
<1>1. IInv' /\ Seen = Maps /\ Seen' = Maps'
  BY StepHolds, SeenIs, SeenNext
<1>2. /\ \A d \in Devices : IsMap(Maps[d])
      /\ Maps = [d \in Devices |-> Maps[d]]
  BY DEF IInv, Holds, Maps
<1>3. \A d \in Devices : \A l : ForestMapSpec!At(Maps[d], l) = Had(Maps[d], l)
  BY DEF ForestMapSpec!At, Had
<1>4. ASSUME NEW d \in Devices, NEW w \in Writes, PutEncrypted(d, w[1], w[2])
      PROVE  ForestMapSpec!Next
  <2>1. Seen' = [Seen EXCEPT ![d] =
                   Put(Maps[d], w[1], Had(Maps[d], w[1]) \cup {w[2]})]
    BY <1>1, <1>4, PutStep
  <2>2. Put(Maps[d], w[1], Had(Maps[d], w[1]) \cup {w[2]}) =
          [k \in DOMAIN Maps[d] \cup {w[1]} |->
             ForestMapSpec!At(Maps[d], k) \cup IF k = w[1] THEN {w[2]} ELSE {}]
    <3>1. \A k \in DOMAIN Maps[d] \cup {w[1]} :
            (IF k = w[1] THEN Had(Maps[d], w[1]) \cup {w[2]} ELSE Maps[d][k]) =
              ForestMapSpec!At(Maps[d], k) \cup IF k = w[1] THEN {w[2]} ELSE {}
      BY <1>3 DEF Had
    <3>. QED  BY <3>1 DEF Put
  <2>3. ForestMapSpec!Put(d, w[1], w[2])
    <3>1. Seen' = [Seen EXCEPT ![d] =
                     [k \in DOMAIN Seen[d] \cup {w[1]} |->
                        ForestMapSpec!At(Seen[d], k) \cup IF k = w[1] THEN {w[2]} ELSE {}]]
      BY <1>1, <2>1, <2>2
    <3>. QED  BY <3>1 DEF ForestMapSpec!Put, Seen
  <2>. QED  BY <2>3 DEF ForestMapSpec!Next
<1>5. ASSUME NEW d \in Devices, NEW l \in Labels, RemoveEncrypted(d, l)
      PROVE  ForestMapSpec!Next
  <2>1. PICK w \in Writes : l = w[1]
    BY DEF Labels
  <2>2. Seen' = [Seen EXCEPT ![d] = Rest(Maps[d], l)]
    BY <1>1, <1>5, RemoveStep
  <2>3. ForestMapSpec!Remove(d, l)
    BY <1>1, <2>2 DEF ForestMapSpec!Remove, Seen, Rest
  <2>. QED  BY <2>1, <2>3 DEF ForestMapSpec!Next
<1>6. ASSUME NEW d \in Devices, Store(d) PROVE Seen' = Seen
  <2>1. Seen' = [Maps EXCEPT ![d] = Maps[d]]
    BY <1>1, <1>6, StoreStep
  <2>. QED  BY <1>1, <1>2, <2>1
<1>7. ASSUME NEW d \in Devices, NEW e \in Devices, Load(d, e)
      PROVE  ForestMapSpec!Next
  <2>1. Seen' = [Seen EXCEPT ![d] = Seen[e]]
    BY <1>1, <1>7, LoadStep
  <2>2. ForestMapSpec!Load(d, e)
    BY <2>1 DEF ForestMapSpec!Load, Seen
  <2>. QED  BY <2>2 DEF ForestMapSpec!Next
<1>8. ASSUME NEW d \in Devices, NEW e \in Devices, Merge(d, e)
      PROVE  ForestMapSpec!Next
  <2>1. Seen' = [Seen EXCEPT ![d] = JoinOf(Maps[d], Maps[e])]
    BY <1>1, <1>8, MergeStep
  <2>2. JoinOf(Maps[d], Maps[e]) =
          [k \in DOMAIN Maps[d] \cup DOMAIN Maps[e] |->
             ForestMapSpec!At(Maps[d], k) \cup ForestMapSpec!At(Maps[e], k)]
    BY <1>3 DEF JoinOf
  <2>3. ForestMapSpec!Merge(d, e)
    <3>1. Seen' = [Seen EXCEPT ![d] =
                     [k \in DOMAIN Seen[d] \cup DOMAIN Seen[e] |->
                        ForestMapSpec!At(Seen[d], k) \cup ForestMapSpec!At(Seen[e], k)]]
      BY <1>1, <2>1, <2>2
    <3>. QED  BY <3>1 DEF ForestMapSpec!Merge, Seen
  <2>. QED  BY <2>3 DEF ForestMapSpec!Next
<1>9. ASSUME UNCHANGED forest PROVE Seen' = Seen
  BY <1>9 DEF Seen, GetEncrypted
<1>. QED  BY <1>4, <1>5, <1>6, <1>7, <1>8, <1>9 DEF Next

(* Devices see maps: CIDs add up under a label, merging joins what both     *)
(* sides have, storing changes nothing and loading copies                   *)
(* (wnfs/src/private/forest/hamt.rs), whatever the tree underneath does.   *)
THEOREM ImplementsMap == Spec => ImplementsForestMap
<1>1. Init => ForestMapSpec!Init
  BY InitHolds, SeenIs DEF ForestMapSpec!Init, Seen
<1>2. IInv /\ [Next]_forest => [ForestMapSpec!Next]_Seen
  BY SeenSteps
<1>. QED  BY <1>1, <1>2, InitHolds, StepHolds, PTL
          DEF Spec, ImplementsForestMap, ForestMapSpec!Spec, Seen
================================================================================
