------------------------------- MODULE SharedFacts -------------------------------
(***************************************************************************)
(* Facts that the proofs about several modules need.                       *)
(*                                                                         *)
(* Induction on the natural numbers, for a property given as a set, from   *)
(* the well-foundedness of < in the library: recursive functions and walks *)
(* step by step are reasoned about with it.                                *)
(*                                                                         *)
(* Paths as sequences of names: what lies above and below a path, and what *)
(* moving it from one directory to another does.  Trees keep their nodes   *)
(* by path.                                                                *)
(*                                                                         *)
(* Histories of the Merkle clock: what lies in them, how they grow, and    *)
(* that the comparison run to its end says how two revisions are ordered,  *)
(* the same from both sides.  Most of it follows from the definition of    *)
(* History by closed sets: no induction on the length of a path is needed. *)
(***************************************************************************)
EXTENDS MerkleClock, Integers, SequencesExt, SequenceTheorems, FiniteSetTheorems,
        WellFoundedInduction, TLAPS

(* A set of numbers has a least member.                                    *)
LEMMA LeastOf ==
  ASSUME NEW S, S \subseteq Nat, S # {}
  PROVE  \E n \in S : \A m \in S : n <= m
<1> DEFINE R == OpToRel(<, Nat)
<1>1. \A m, n \in Nat : <<m, n>> \in R <=> m < n
  BY Zenon DEF OpToRel
<1>2. IsWellFoundedOn(R, Nat)
  BY Zenon, NatLessThanWellFounded
<1> HIDE DEF R
<1>3. PICK n \in S : \A m \in S : ~ (<<m, n>> \in R)
  BY <1>2, WFMin
<1>4. \A m \in S : n <= m
  <2> TAKE m \in S
  <2>1. m \in Nat /\ n \in Nat /\ ~(m < n)
    BY <1>1, <1>3
  <2> QED
    BY <2>1
<1> QED
  BY <1>4

(* What holds of 0 and carries over from each number to the next up to n   *)
(* holds up to n.                                                          *)
LEMMA HoldsUpTo ==
  ASSUME NEW n \in Nat, NEW S, 0 \in S, \A i \in 0 .. n - 1 : i \in S => i + 1 \in S
  PROVE  \A i \in 0 .. n : i \in S
<1> SUFFICES ASSUME NEW k \in 0 .. n, k \notin S PROVE FALSE
  OBVIOUS
<1> DEFINE B == {i \in 0 .. n : i \notin S}
<1>1. B \subseteq Nat /\ B # {}
  OBVIOUS
<1> HIDE DEF B
<1>2. PICK m \in B : \A i \in B : m <= i
  BY <1>1, LeastOf
<1>3. m - 1 \in 0 .. n - 1 /\ m - 1 \notin B
  BY <1>1, <1>2 DEF B
<1> QED
  BY <1>1, <1>2, <1>3 DEF B

(* The values of a function on a finite set are finitely many.             *)
LEMMA ValuesOf ==
  ASSUME NEW S, IsFiniteSet(S), NEW f, NEW T, T = {f[x] : x \in S}
  PROVE  IsFiniteSet(T)
<1> DEFINE g == [x \in S |-> f[x]]
<1>1. g \in Surjection(S, T)
  BY DEF Surjection
<1>. QED  BY <1>1, FS_Surjection

(* The numbers up to n.                                                    *)
LEMMA UpToCard ==
  ASSUME NEW n \in Nat
  PROVE  IsFiniteSet(1 .. n) /\ Cardinality(1 .. n) = n
<1>1. 1 \in Int /\ n \in Int
  OBVIOUS
<1>2. IsFiniteSet(1 .. n) /\ Cardinality(1 .. n) = IF 1 > n THEN 0 ELSE n - 1 + 1
  BY <1>1, FS_Interval
<1>. QED  BY <1>2

(* A finite set of numbers has a greatest member.                          *)
LEMMA GreatestOf ==
  ASSUME NEW S, S \subseteq Nat, S # {}, IsFiniteSet(S)
  PROVE  \E n \in S : \A m \in S : m <= n
<1> DEFINE K == {k \in Nat : \A T \in SUBSET Nat :
                   T # {} /\ IsFiniteSet(T) /\ Cardinality(T) = k =>
                     \E n \in T : \A m \in T : m <= n}
<1>1. 0 \in K
  BY FS_EmptySet
<1>2. ASSUME NEW i \in Nat, i \in K PROVE i + 1 \in K
  <2> SUFFICES ASSUME NEW T \in SUBSET Nat, T # {}, IsFiniteSet(T),
                      Cardinality(T) = i + 1
               PROVE  \E n \in T : \A m \in T : m <= n
    OBVIOUS
  <2>1. PICK x \in T : TRUE
    OBVIOUS
  <2>2. IsFiniteSet(T \ {x}) /\ Cardinality(T \ {x}) = i
    <3>1. Cardinality(T \ {x}) = Cardinality(T) - 1
      BY FS_RemoveElement
    <3>2. IsFiniteSet(T \ {x})
      BY FS_RemoveElement
    <3>. QED  BY <3>1, <3>2
  <2>3. CASE T \ {x} = {}
    <3>1. \A m \in T : m = x
      BY <2>3
    <3>. QED  BY <3>1
  <2>4. CASE T \ {x} # {}
    <3>1. PICK n \in T \ {x} : \A m \in T \ {x} : m <= n
      BY <1>2, <2>2, <2>4
    <3>2. CASE x <= n
      BY <3>1, <3>2
    <3>3. CASE ~(x <= n)
      BY <3>1, <3>3
    <3>. QED  BY <3>2, <3>3
  <2>. QED  BY <2>3, <2>4
<1>3. Cardinality(S) \in Nat
  BY FS_CardinalityType
<1> HIDE DEF K
<1>4. \A i \in 0 .. Cardinality(S) : i \in K
  BY <1>1, <1>2, <1>3, HoldsUpTo
<1>5. Cardinality(S) \in K
  BY <1>3, <1>4
<1>. QED  BY <1>5 DEF K

--------------------------------------------------------------------------------
(* A path is the directory it is in, and its name there.                   *)
LEMMA FrontOf ==
  ASSUME NEW S, NEW p \in Seq(S), p # <<>>
  PROVE  /\ Front(p) \in Seq(S) /\ Last(p) \in S
         /\ Len(p) \in Nat \ {0} /\ Len(Front(p)) = Len(p) - 1
         /\ \A i \in 1 .. Len(p) - 1 : Front(p)[i] = p[i]
         /\ p = Append(Front(p), Last(p))
<1>1. Len(p) \in Nat \ {0}
  BY EmptySeq
<1>2. \A i \in 1 .. Len(p) - 1 : p[i] \in S
  BY <1>1, ElementOfSeq
<1>3. Last(p) \in S
  BY <1>1, ElementOfSeq DEF Last
<1>4. /\ Front(p) \in Seq(S)
      /\ Len(Front(p)) = IF 1 <= Len(p) - 1 THEN Len(p) - 1 - 1 + 1 ELSE 0
      /\ \A i \in 1 .. Len(p) - 1 - 1 + 1 : Front(p)[i] = p[1 + i - 1]
  <2>1. 1 \in Int /\ Len(p) - 1 \in Int
    BY <1>1
  <2>. QED  BY <2>1, <1>2, SubSeqProperties DEF Front
<1>5. Len(Front(p)) = Len(p) - 1 /\ \A i \in 1 .. Len(p) - 1 : Front(p)[i] = p[i]
  <2> DEFINE l == Len(Front(p))
             n == Len(p)
  <2>1. l = n - 1
    <3>1. n \in Nat \ {0} /\ l = IF 1 <= n - 1 THEN n - 1 - 1 + 1 ELSE 0
      BY <1>1, <1>4
    <3> HIDE DEF l, n
    <3>. QED  BY <3>1
  <2>2. \A i \in 1 .. Len(p) - 1 : i \in 1 .. Len(p) - 1 - 1 + 1 /\ 1 + i - 1 = i
    BY <1>1
  <2>. QED  BY <1>4, <2>1, <2>2
<1>6. p = Append(Front(p), Last(p))
  <2> DEFINE q == Append(Front(p), Last(p))
  <2>1. /\ q \in Seq(S)
        /\ Len(q) = Len(Front(p)) + 1
        /\ \A i \in 1 .. Len(Front(p)) : q[i] = Front(p)[i]
        /\ q[Len(Front(p)) + 1] = Last(p)
    BY <1>3, <1>4, AppendProperties
  <2> HIDE DEF q
  <2>2. Len(q) = Len(p) /\ q[Len(p)] = p[Len(p)]
    BY <1>1, <1>5, <2>1 DEF Last
  <2>3. \A i \in 1 .. Len(p) : q[i] = p[i]
    BY <1>1, <1>5, <2>1, <2>2
  <2>4. p = q
    BY <2>1, <2>2, <2>3, SeqEqual
  <2>. QED  BY <2>4 DEF q
<1>. QED  BY <1>1, <1>3, <1>4, <1>5, <1>6

(* A name in a directory, whatever the name is.                            *)
LEMMA AppendOf ==
  ASSUME NEW S, NEW p \in Seq(S), NEW n
  PROVE  /\ Append(p, n) # <<>> /\ Len(Append(p, n)) = Len(p) + 1
         /\ Front(Append(p, n)) = p /\ Last(Append(p, n)) = n
<1> DEFINE T == S \cup {n}
           q == Append(p, n)
<1>1. p \in Seq(T) /\ n \in T
  BY SeqMonotonic
<1> HIDE DEF T
<1>2. /\ q \in Seq(T) /\ q # <<>>
      /\ Len(q) = Len(p) + 1
      /\ \A i \in 1 .. Len(p) : q[i] = p[i]
      /\ q[Len(p) + 1] = n
  BY <1>1, AppendProperties
<1> HIDE DEF q
<1>3. Len(p) \in Nat
  BY LenProperties
<1>4. Last(q) = n
  BY <1>2 DEF Last
<1>5. /\ Front(q) \in Seq(T) /\ Len(Front(q)) = Len(q) - 1
      /\ \A i \in 1 .. Len(q) - 1 : Front(q)[i] = q[i]
  BY <1>2, FrontOf
<1>6. Len(Front(q)) = Len(p) /\ \A i \in 1 .. Len(p) : p[i] = Front(q)[i]
  BY <1>2, <1>3, <1>5
<1>7. Front(q) = p
  BY <1>1, <1>5, <1>6, SeqEqual
<1>. QED  BY <1>2, <1>4, <1>7 DEF q

(* A prefix agrees on each name it has.                                    *)
LEMMA PrefixOf ==
  ASSUME NEW S, NEW p \in Seq(S), NEW q \in Seq(S)
  PROVE  IsPrefix(p, q) <=>
           Len(p) <= Len(q) /\ \A i \in 1 .. Len(p) : p[i] = q[i]
<1>1. Len(p) \in Nat /\ Len(q) \in Nat
  BY LenProperties
<1>2. SubSeq(p, 1, Len(p)) = p
  BY SubSeqFull
<1>3. ASSUME Len(p) <= Len(q)
      PROVE  /\ SubSeq(q, 1, Len(p)) \in Seq(S)
             /\ Len(SubSeq(q, 1, Len(p))) = Len(p)
             /\ \A i \in 1 .. Len(p) : SubSeq(q, 1, Len(p))[i] = q[i]
  <2>1. \A i \in 1 .. Len(p) : q[i] \in S
    BY <1>1, <1>3, ElementOfSeq
  <2>2. /\ SubSeq(q, 1, Len(p)) \in Seq(S)
        /\ Len(SubSeq(q, 1, Len(p))) = IF 1 <= Len(p) THEN Len(p) - 1 + 1 ELSE 0
        /\ \A i \in 1 .. Len(p) - 1 + 1 : SubSeq(q, 1, Len(p))[i] = q[1 + i - 1]
    <3>1. 1 \in Int /\ Len(p) \in Int
      BY <1>1
    <3>. QED  BY <3>1, <2>1, SubSeqProperties
  <2>. QED  BY <1>1, <2>2
<1> DEFINE s == SubSeq(q, 1, Len(p))
<1>4. ASSUME Len(p) <= Len(q)
      PROVE  s = p <=> \A i \in 1 .. Len(p) : p[i] = q[i]
  <2>1. s \in Seq(S) /\ Len(s) = Len(p) /\ \A i \in 1 .. Len(p) : s[i] = q[i]
    BY <1>3, <1>4
  <2> HIDE DEF s
  <2>2. ASSUME \A i \in 1 .. Len(p) : p[i] = q[i] PROVE s = p
    <3>1. \A i \in 1 .. Len(s) : s[i] = p[i]
      BY <2>1, <2>2
    <3>. QED  BY <2>1, <3>1, SeqEqual
  <2>. QED  BY <2>1, <2>2
<1>. QED  BY <1>2, <1>4 DEF IsPrefix

(* What is above a path is the path, or above the directory it is in.      *)
LEMMA PrefixStep ==
  ASSUME NEW S, NEW p \in Seq(S), NEW q \in Seq(S), q # <<>>
  PROVE  /\ IsPrefix(p, q) <=> p = q \/ IsPrefix(p, Front(q))
         /\ ~IsPrefix(q, Front(q))
<1>1. /\ Len(p) \in Nat /\ Len(q) \in Nat \ {0} /\ Front(q) \in Seq(S)
      /\ Len(Front(q)) = Len(q) - 1
      /\ \A i \in 1 .. Len(q) - 1 : Front(q)[i] = q[i]
  BY FrontOf, LenProperties
<1>2. IsPrefix(p, q) <=>
        Len(p) <= Len(q) /\ \A i \in 1 .. Len(p) : p[i] = q[i]
  BY PrefixOf
<1>3. IsPrefix(p, Front(q)) <=>
        Len(p) <= Len(q) - 1 /\ \A i \in 1 .. Len(p) : p[i] = Front(q)[i]
  BY <1>1, PrefixOf
<1>4. ASSUME Len(p) = Len(q), \A i \in 1 .. Len(p) : p[i] = q[i] PROVE p = q
  BY <1>4, SeqEqual
<1>5. IsPrefix(q, Front(q)) => Len(q) <= Len(q) - 1
  BY <1>1, PrefixOf
<1>. QED  BY <1>1, <1>2, <1>3, <1>4, <1>5

(* Being above is an order, and what is above one path is a line.          *)
LEMMA PrefixOrder ==
  ASSUME NEW S, NEW p \in Seq(S)
  PROVE  /\ IsPrefix(<<>>, p) /\ IsPrefix(p, p)
         /\ \A q \in Seq(S) : IsPrefix(p, q) /\ IsPrefix(q, p) => p = q
         /\ \A q, r \in Seq(S) : IsPrefix(p, q) /\ IsPrefix(q, r) => IsPrefix(p, r)
         /\ \A q, r \in Seq(S) : IsPrefix(p, r) /\ IsPrefix(q, r) =>
              IsPrefix(p, q) \/ IsPrefix(q, p)
<1>1. <<>> \in Seq(S) /\ Len(<<>>) = 0 /\ \A q \in Seq(S) : Len(q) \in Nat
  BY EmptySeq, LenProperties
<1>2. \A a, b \in Seq(S) : IsPrefix(a, b) <=>
        Len(a) <= Len(b) /\ \A i \in 1 .. Len(a) : a[i] = b[i]
  BY PrefixOf
<1>3. \A q \in Seq(S) : IsPrefix(p, q) /\ IsPrefix(q, p) => p = q
  <2> TAKE q \in Seq(S)
  <2> HAVE IsPrefix(p, q) /\ IsPrefix(q, p)
  <2>1. Len(p) = Len(q) /\ \A i \in 1 .. Len(p) : p[i] = q[i]
    BY <1>1, <1>2
  <2>. QED  BY <2>1, SeqEqual
<1>4. \A q, r \in Seq(S) : IsPrefix(p, q) /\ IsPrefix(q, r) => IsPrefix(p, r)
  <2> TAKE q, r \in Seq(S)
  <2> HAVE IsPrefix(p, q) /\ IsPrefix(q, r)
  <2>1. Len(p) <= Len(q) /\ Len(q) <= Len(r)
    BY <1>2
  <2>2. \A i \in 1 .. Len(p) : i \in 1 .. Len(q) /\ p[i] = q[i] /\ q[i] = r[i]
    BY <1>1, <1>2, <2>1
  <2>. QED  BY <1>1, <1>2, <2>1, <2>2
<1>5. \A q, r \in Seq(S) : IsPrefix(p, r) /\ IsPrefix(q, r) =>
         IsPrefix(p, q) \/ IsPrefix(q, p)
  <2> TAKE q, r \in Seq(S)
  <2> HAVE IsPrefix(p, r) /\ IsPrefix(q, r)
  <2>1. /\ \A i \in 1 .. Len(p) : p[i] = r[i]
        /\ \A i \in 1 .. Len(q) : q[i] = r[i]
    BY <1>2
  <2>2. CASE Len(p) <= Len(q)
    <3>1. \A i \in 1 .. Len(p) : p[i] = q[i]
      BY <1>1, <2>1, <2>2
    <3>. QED  BY <1>2, <2>2, <3>1
  <2>3. CASE Len(q) <= Len(p)
    <3>1. \A i \in 1 .. Len(q) : q[i] = p[i]
      BY <1>1, <2>1, <2>3
    <3>. QED  BY <1>2, <2>3, <3>1
  <2>. QED  BY <1>1, <2>2, <2>3
<1>6. IsPrefix(<<>>, p)
  <2>1. Len(<<>>) <= Len(p) /\ \A i \in 1 .. Len(<<>>) : FALSE
    BY <1>1
  <2>. QED  BY <1>1, <2>1, PrefixOf
<1>7. IsPrefix(p, p)
  BY <1>1, PrefixOf
<1>. QED  BY <1>3, <1>4, <1>5, <1>6, <1>7

(* Prefixes collects what is above a path.                                 *)
LEMMA PrefixesAre ==
  ASSUME NEW S, NEW p \in Seq(S)
  PROVE  \A q : q \in Prefixes(p) <=> q \in Seq(S) /\ IsPrefix(q, p)
<1>1. Len(p) \in Nat
  BY LenProperties
<1>2. ASSUME NEW l \in 0 .. Len(p)
      PROVE  /\ SubSeq(p, 1, l) \in Seq(S) /\ Len(SubSeq(p, 1, l)) = l
             /\ \A i \in 1 .. l : SubSeq(p, 1, l)[i] = p[i]
  <2>1. \A i \in 1 .. l : p[i] \in S
    BY <1>1, ElementOfSeq
  <2>2. 1 \in Int /\ l \in Int
    BY <1>1
  <2>3. /\ SubSeq(p, 1, l) \in Seq(S)
        /\ Len(SubSeq(p, 1, l)) = IF 1 <= l THEN l - 1 + 1 ELSE 0
        /\ \A i \in 1 .. l - 1 + 1 : SubSeq(p, 1, l)[i] = p[1 + i - 1]
    BY <2>1, <2>2, SubSeqProperties
  <2>. QED  BY <1>1, <2>3
<1>3. ASSUME NEW q, q \in Prefixes(p) PROVE q \in Seq(S) /\ IsPrefix(q, p)
  <2>1. PICK l \in 0 .. Len(p) : q = SubSeq(p, 1, l)
    BY <1>3 DEF Prefixes
  <2>2. /\ q \in Seq(S) /\ Len(q) = l /\ Len(q) <= Len(p)
        /\ \A i \in 1 .. Len(q) : q[i] = p[i]
    BY <1>1, <1>2, <2>1
  <2>. QED  BY <2>2, PrefixOf
<1>4. ASSUME NEW q \in Seq(S), IsPrefix(q, p) PROVE q \in Prefixes(p)
  <2>1. /\ Len(q) \in 0 .. Len(p)
        /\ \A i \in 1 .. Len(q) : q[i] = p[i]
    BY <1>1, <1>4, PrefixOf, LenProperties
  <2> DEFINE s == SubSeq(p, 1, Len(q))
  <2>2. s \in Seq(S) /\ Len(s) = Len(q) /\ \A i \in 1 .. Len(q) : q[i] = s[i]
    BY <1>2, <2>1
  <2> HIDE DEF s
  <2>3. q = s
    BY <2>2, SeqEqual
  <2>. QED  BY <2>1, <2>3 DEF s, Prefixes
<1>. QED  BY <1>3, <1>4

--------------------------------------------------------------------------------
(* The path that corresponds to q, below `from`, in the directory `to`.    *)
Corresponding(from, to, q) == to \o SubSeq(q, Len(from) + 1, Len(q))

(* What is below a directory corresponds, name by name, to what is below   *)
(* another one.                                                            *)
Replaces(S, from, to, q, c) ==
  /\ c \in Seq(S) /\ Len(c) = Len(to) + Len(q) - Len(from)
  /\ \A i \in 1 .. Len(to) : c[i] = to[i]
  /\ \A i \in Len(to) + 1 .. Len(c) : c[i] = q[i - Len(to) + Len(from)]
  /\ IsPrefix(to, c)

LEMMA CorrespondingOf ==
  ASSUME NEW S, NEW from \in Seq(S), NEW to \in Seq(S), NEW q \in Seq(S),
         IsPrefix(from, q)
  PROVE  Replaces(S, from, to, q, Corresponding(from, to, q))
<1> DEFINE s == SubSeq(q, Len(from) + 1, Len(q))
           c == to \o s
<1>1. /\ Len(from) \in Nat /\ Len(to) \in Nat /\ Len(q) \in Nat
      /\ Len(from) <= Len(q)
  BY LenProperties, PrefixOf
<1>2. /\ s \in Seq(S) /\ Len(s) = Len(q) - Len(from)
      /\ \A i \in 1 .. Len(s) : s[i] = q[Len(from) + i]
  <2>1. \A i \in Len(from) + 1 .. Len(q) : q[i] \in S
    BY <1>1, ElementOfSeq
  <2>2. Len(from) + 1 \in Int /\ Len(q) \in Int
    BY <1>1
  <2>3. /\ s \in Seq(S)
        /\ Len(s) = IF Len(from) + 1 <= Len(q)
                    THEN Len(q) - (Len(from) + 1) + 1 ELSE 0
        /\ \A i \in 1 .. Len(q) - (Len(from) + 1) + 1 : s[i] = q[Len(from) + 1 + i - 1]
    BY <2>1, <2>2, SubSeqProperties
  <2> HIDE DEF s
  <2>4. Len(s) = Len(q) - Len(from)
    BY <1>1, <2>3
  <2>5. \A i \in 1 .. Len(s) :
           i \in 1 .. Len(q) - (Len(from) + 1) + 1 /\ Len(from) + 1 + i - 1 = Len(from) + i
    BY <1>1, <2>4
  <2>. QED  BY <2>3, <2>4, <2>5
<1> HIDE DEF s
<1>3. /\ c \in Seq(S) /\ Len(c) = Len(to) + Len(s)
      /\ \A i \in 1 .. Len(to) + Len(s) :
            c[i] = IF i <= Len(to) THEN to[i] ELSE s[i - Len(to)]
  BY <1>2, ConcatProperties
<1> HIDE DEF c
<1>4. Len(c) = Len(to) + Len(q) - Len(from)
  BY <1>1, <1>2, <1>3
<1>5. \A i \in 1 .. Len(to) : c[i] = to[i]
  <2> TAKE i \in 1 .. Len(to)
  <2>1. i \in 1 .. Len(to) + Len(s) /\ i <= Len(to)
    BY <1>1, <1>2
  <2>. QED  BY <1>3, <2>1
<1>6. \A i \in Len(to) + 1 .. Len(c) : c[i] = q[i - Len(to) + Len(from)]
  <2> TAKE i \in Len(to) + 1 .. Len(c)
  <2>1. i - Len(to) \in 1 .. Len(s) /\ i \in 1 .. Len(to) + Len(s) /\ ~(i <= Len(to))
    BY <1>1, <1>2, <1>3
  <2>2. Len(from) + (i - Len(to)) = i - Len(to) + Len(from)
    BY <1>1, <2>1
  <2>. QED  BY <1>2, <1>3, <2>1, <2>2
<1>7. IsPrefix(to, c)
  <2>1. Len(to) <= Len(c) /\ \A i \in 1 .. Len(to) : to[i] = c[i]
    BY <1>1, <1>4, <1>5
  <2>. QED  BY <1>3, <2>1, PrefixOf
<1>8. c = Corresponding(from, to, q)
  BY DEF c, s, Corresponding
<1>9. Replaces(S, from, to, q, c)
  BY <1>3, <1>4, <1>5, <1>6, <1>7 DEF Replaces
<1>. QED  BY <1>8, <1>9

LEMMA CorrespondingAppend ==
  ASSUME NEW S, NEW from \in Seq(S), NEW to \in Seq(S), NEW q \in Seq(S),
         IsPrefix(from, q), NEW n
  PROVE  /\ IsPrefix(from, Append(q, n))
         /\ Corresponding(from, to, Append(q, n)) =
              Append(Corresponding(from, to, q), n)
<1> DEFINE C(p) == Corresponding(from, to, p)
<1>1. Len(from) \in Nat /\ Len(to) \in Nat /\ Len(q) \in Nat
  BY LenProperties
<1>4. /\ C(q) \in Seq(S) /\ Len(C(q)) = Len(to) + Len(q) - Len(from)
      /\ \A i \in 1 .. Len(to) : C(q)[i] = to[i]
      /\ \A i \in Len(to) + 1 .. Len(C(q)) : C(q)[i] = q[i - Len(to) + Len(from)]
      /\ IsPrefix(to, C(q))
  <2>1. Replaces(S, from, to, q, C(q))
    BY CorrespondingOf
  <2> HIDE DEF C
  <2>. QED  BY <2>1 DEF Replaces
<1>5. Len(from) <= Len(q) /\ \A i \in 1 .. Len(from) : from[i] = q[i]
  BY PrefixOf
<1>7. IsPrefix(from, Append(q, n)) /\ C(Append(q, n)) = Append(C(q), n)
  <2> DEFINE T == S \cup {n}
             a == Append(q, n)
             b == Append(C(q), n)
  <2>1. from \in Seq(T) /\ to \in Seq(T) /\ q \in Seq(T) /\ C(q) \in Seq(T) /\ n \in T
    BY <1>4, SeqMonotonic
  <2> HIDE DEF T
  <2>2. /\ a \in Seq(T) /\ Len(a) = Len(q) + 1
        /\ \A i \in 1 .. Len(q) : a[i] = q[i]
        /\ a[Len(q) + 1] = n
    BY <2>1, AppendProperties
  <2>3. /\ b \in Seq(T) /\ Len(b) = Len(C(q)) + 1
        /\ \A i \in 1 .. Len(C(q)) : b[i] = C(q)[i]
        /\ b[Len(C(q)) + 1] = n
    <3> HIDE DEF C
    <3>. QED  BY <2>1, AppendProperties
  <2> HIDE DEF a, b
  <2>4. IsPrefix(from, a)
    BY <1>1, <1>5, <2>1, <2>2, PrefixOf
  <2> DEFINE c == Corresponding(from, to, a)
  <2>5. /\ c \in Seq(T) /\ Len(c) = Len(to) + Len(a) - Len(from)
        /\ \A i \in 1 .. Len(to) : c[i] = to[i]
        /\ \A i \in Len(to) + 1 .. Len(c) : c[i] = a[i - Len(to) + Len(from)]
    <3>1. Replaces(T, from, to, a, c)
      BY <2>1, <2>2, <2>4, CorrespondingOf
    <3> HIDE DEF c
    <3>. QED  BY <3>1 DEF Replaces
  <2> HIDE DEF c, C
  <2>6. Len(c) = Len(C(q)) + 1 /\ Len(c) = Len(b)
    BY <1>1, <1>4, <2>2, <2>3, <2>5
  <2>7. \A i \in 1 .. Len(to) : c[i] = b[i]
    BY <1>1, <1>4, <1>5, <2>3, <2>5
  <2>8. ASSUME NEW i \in Len(to) + 1 .. Len(C(q)) PROVE c[i] = b[i]
    <3>1. i \in Len(to) + 1 .. Len(c) /\ i \in 1 .. Len(C(q))
      BY <1>1, <1>4, <2>6
    <3>2. i - Len(to) + Len(from) \in 1 .. Len(q)
      BY <1>1, <1>4
    <3>. QED  BY <1>4, <2>2, <2>3, <2>5, <3>1, <3>2
  <2>9. c[Len(c)] = b[Len(c)]
    <3>1. Len(c) \in Len(to) + 1 .. Len(c) /\ Len(c) - Len(to) + Len(from) = Len(q) + 1
      BY <1>1, <1>4, <1>5, <2>6
    <3>. QED  BY <2>2, <2>3, <2>5, <2>6, <3>1
  <2>10. \A i \in 1 .. Len(c) : c[i] = b[i]
    <3> TAKE i \in 1 .. Len(c)
    <3> DEFINE k == Len(C(q))
    <3>0. Len(to) \in Nat /\ k \in Nat /\ Len(to) <= k /\ Len(c) = k + 1
      BY <1>1, <1>4, <1>5, <2>6
    <3>1. i \in 1 .. Len(to) \/ i \in Len(to) + 1 .. k \/ i = Len(c)
      <4> HIDE DEF k
      <4>. QED  BY <3>0
    <3>. QED  BY <2>7, <2>8, <2>9, <3>1
  <2>11. c = b
    BY <2>3, <2>5, <2>6, <2>10, SeqEqual
  <2>. QED  BY <2>4, <2>11 DEF a, b, c, C
<1>. QED  BY <1>7

LEMMA CorrespondingSteps ==
  ASSUME NEW S, NEW from \in Seq(S), NEW to \in Seq(S), NEW q \in Seq(S),
         IsPrefix(from, q)
  PROVE  /\ Corresponding(from, to, from) = to
         /\ Corresponding(to, from, Corresponding(from, to, q)) = q
         /\ q # from =>
              /\ Corresponding(from, to, q) # <<>>
              /\ IsPrefix(from, Front(q))
              /\ Front(Corresponding(from, to, q)) = Corresponding(from, to, Front(q))
              /\ Last(Corresponding(from, to, q)) = Last(q)
         /\ \A n : /\ IsPrefix(from, Append(q, n))
                   /\ Corresponding(from, to, Append(q, n)) =
                        Append(Corresponding(from, to, q), n)
<1> DEFINE C(p) == Corresponding(from, to, p)
<1>1. Len(from) \in Nat /\ Len(to) \in Nat /\ Len(q) \in Nat
  BY LenProperties
<1>2. IsPrefix(from, from)
  BY PrefixOrder
<1>3. C(from) = to
  <2> DEFINE c == Corresponding(from, to, from)
  <2>2. /\ c \in Seq(S) /\ Len(c) = Len(to) + Len(from) - Len(from)
        /\ \A i \in 1 .. Len(to) : c[i] = to[i]
    <3>1. Replaces(S, from, to, from, c)
      BY <1>2, CorrespondingOf
    <3> HIDE DEF c
    <3>. QED  BY <3>1 DEF Replaces
  <2> HIDE DEF c
  <2>3. Len(c) = Len(to)
    BY <1>1, <2>2
  <2>4. c = to
    BY <2>2, <2>3, SeqEqual
  <2>. QED  BY <2>4 DEF c
<1>4. /\ C(q) \in Seq(S) /\ Len(C(q)) = Len(to) + Len(q) - Len(from)
      /\ \A i \in 1 .. Len(to) : C(q)[i] = to[i]
      /\ \A i \in Len(to) + 1 .. Len(C(q)) : C(q)[i] = q[i - Len(to) + Len(from)]
      /\ IsPrefix(to, C(q))
  <2>1. Replaces(S, from, to, q, C(q))
    BY CorrespondingOf
  <2> HIDE DEF C
  <2>. QED  BY <2>1 DEF Replaces
<1>5. Len(from) <= Len(q) /\ \A i \in 1 .. Len(from) : from[i] = q[i]
  BY PrefixOf
<1>6. Corresponding(to, from, C(q)) = q
  <2> HIDE DEF C
  <2> DEFINE b == Corresponding(to, from, C(q))
  <2>1. /\ b \in Seq(S) /\ Len(b) = Len(from) + Len(C(q)) - Len(to)
        /\ \A i \in 1 .. Len(from) : b[i] = from[i]
        /\ \A i \in Len(from) + 1 .. Len(b) : b[i] = C(q)[i - Len(from) + Len(to)]
    <3>1. Replaces(S, to, from, C(q), b)
      BY <1>4, CorrespondingOf
    <3> HIDE DEF b
    <3>. QED  BY <3>1 DEF Replaces
  <2> HIDE DEF b
  <2>2. Len(b) = Len(q)
    BY <1>1, <1>4, <2>1
  <2>3. \A i \in 1 .. Len(from) : b[i] = q[i]
    BY <1>5, <2>1
  <2>4. ASSUME NEW i \in Len(from) + 1 .. Len(b) PROVE b[i] = q[i]
    <3>1. /\ i - Len(from) + Len(to) \in Len(to) + 1 .. Len(C(q))
          /\ (i - Len(from) + Len(to)) - Len(to) + Len(from) = i
      BY <1>1, <1>4, <2>2
    <3>. QED  BY <1>4, <2>1, <3>1
  <2>5. \A i \in 1 .. Len(b) : b[i] = q[i]
    BY <1>1, <2>3, <2>4
  <2>6. b = q
    BY <2>1, <2>2, <2>5, SeqEqual
  <2>. QED  BY <2>6 DEF b
<1>7. \A n : IsPrefix(from, Append(q, n)) /\ C(Append(q, n)) = Append(C(q), n)
  BY CorrespondingAppend
<1>8. ASSUME q # from
      PROVE  /\ C(q) # <<>> /\ IsPrefix(from, Front(q))
             /\ Front(C(q)) = C(Front(q)) /\ Last(C(q)) = Last(q)
  <2>1. q # <<>>
    BY <1>1, <1>5, <1>8, EmptySeq
  <2>2. IsPrefix(from, Front(q)) /\ Front(q) \in Seq(S) /\ q = Append(Front(q), Last(q))
    BY <1>8, <2>1, PrefixStep, FrontOf
  <2>3. C(Front(q)) \in Seq(S)
    BY <2>2, CorrespondingOf DEF Replaces
  <2>4. C(q) = Append(C(Front(q)), Last(q))
    <3>1. C(Append(Front(q), Last(q))) = Append(C(Front(q)), Last(q))
      BY <2>2, CorrespondingAppend
    <3>. QED  BY <2>2, <3>1
  <2>5. PICK r, n : r = C(Front(q)) /\ n = Last(q)
    OBVIOUS
  <2>6. r \in Seq(S) /\ C(q) = Append(r, n)
    BY <2>3, <2>4, <2>5
  <2>7. Append(r, n) # <<>> /\ Front(Append(r, n)) = r /\ Last(Append(r, n)) = n
    BY <2>6, AppendOf
  <2>. QED  BY <2>2, <2>5, <2>6, <2>7
<1>. QED  BY <1>3, <1>6, <1>7, <1>8

--------------------------------------------------------------------------------
(* The predecessors of a revision are in its history.                      *)
LEMMA PreviousInHistory ==
  ASSUME NEW prev, NEW c \in DOMAIN prev, Closed(prev, DOMAIN prev)
  PROVE  prev[c] \subseteq History(prev, c)
BY DEF History, Closed

(* History is closed: going back from a revision in it stays inside.       *)
LEMMA HistoryIsClosed ==
  ASSUME NEW prev, NEW c \in DOMAIN prev, Closed(prev, DOMAIN prev)
  PROVE  Closed(prev, History(prev, c))
<1> SUFFICES ASSUME NEW x \in History(prev, c), NEW y \in prev[x]
             PROVE  y \in History(prev, c)
  BY DEF Closed
<1>1. y \in DOMAIN prev
  BY DEF Closed, History
<1>2. ASSUME NEW S \in SUBSET DOMAIN prev,
             prev[c] \subseteq S, Closed(prev, S)
      PROVE  y \in S
  <2>1. x \in S
    BY <1>2 DEF History
  <2> QED
    BY <2>1, <1>2 DEF Closed
<1> QED
  BY <1>1, <1>2 DEF History

(* ... and so does what next_previous_set returns for a frontier in it.    *)
LEMMA HistoryGoesBack ==
  ASSUME NEW prev, NEW c \in DOMAIN prev, Closed(prev, DOMAIN prev),
         NEW frontier \in SUBSET History(prev, c), NEW visited
  PROVE  NextPreviousSet(prev, frontier, visited) \subseteq History(prev, c)
BY HistoryIsClosed DEF Closed, NextPreviousSet

(* Storing more blocks changes the history of no stored revision.          *)
LEMMA HistoryStable ==
  ASSUME NEW prev, NEW more, NEW c \in DOMAIN prev,
         Closed(prev, DOMAIN prev),
         DOMAIN prev \subseteq DOMAIN more,
         \A x \in DOMAIN prev : more[x] = prev[x]
  PROVE  History(more, c) = History(prev, c)
<1>1. ASSUME NEW a \in History(prev, c) PROVE a \in History(more, c)
  <2>1. a \in DOMAIN more
    BY <1>1 DEF History
  <2>2. ASSUME NEW S \in SUBSET DOMAIN more,
               more[c] \subseteq S, Closed(more, S)
        PROVE  a \in S
    <3> DEFINE T == S \cap DOMAIN prev
    <3>1. T \in SUBSET DOMAIN prev
      OBVIOUS
    <3>2. prev[c] \subseteq T
      BY <2>2 DEF Closed
    <3>3. Closed(prev, T)
      BY <2>2 DEF Closed
    <3>4. a \in T
      BY <1>1, <3>1, <3>2, <3>3 DEF History
    <3> QED
      BY <3>4
  <2> QED
    BY <2>1, <2>2 DEF History
<1>2. ASSUME NEW a \in History(more, c) PROVE a \in History(prev, c)
  <2>1. ASSUME NEW S \in SUBSET DOMAIN prev,
               prev[c] \subseteq S, Closed(prev, S)
        PROVE  a \in S
    <3>1. S \in SUBSET DOMAIN more /\ more[c] \subseteq S /\ Closed(more, S)
      BY <2>1 DEF Closed
    <3> QED
      BY <1>2, <3>1 DEF History
  <2>2. a \in DOMAIN prev
    BY <2>1 DEF Closed
  <2> QED
    BY <2>1, <2>2 DEF History
<1> QED
  BY <1>1, <1>2

(* A set that holds the predecessors of c and is closed holds its history. *)
LEMMA HistoryIsLeast ==
  ASSUME NEW prev, NEW c \in DOMAIN prev, NEW S \in SUBSET DOMAIN prev,
         prev[c] \subseteq S, Closed(prev, S)
  PROVE  History(prev, c) \subseteq S
BY DEF History

(* When CIDs are numbered in the order they are stored, a history only     *)
(* holds older CIDs: the clock has no cycles.                              *)
LEMMA HistoryIsOlder ==
  ASSUME NEW n \in Nat, NEW prev, DOMAIN prev = 1..n,
         \A x \in 1..n : prev[x] \subseteq 1..(x - 1),
         NEW c \in 1..n
  PROVE  History(prev, c) \subseteq 1..(c - 1)
<1>1. 1..(c - 1) \in SUBSET DOMAIN prev
  OBVIOUS
<1>2. Closed(prev, 1..(c - 1))
  BY SMT DEF Closed
<1> QED
  BY <1>1, <1>2, HistoryIsLeast

--------------------------------------------------------------------------------
(***************************************************************************)
(* What a comparison knows.  Going back from `root` it found the           *)
(* predecessors of the root and the visited set; only the frontier is      *)
(* still to be followed, the rest was followed already and does not hold   *)
(* the revision it looks for.                                              *)
(***************************************************************************)
FoundSoFar(prev, root, seen) == prev[root] \cup seen

Explored(prev, root, frontier, seen, sought) ==
  /\ frontier \subseteq FoundSoFar(prev, root, seen)
  /\ \A x \in FoundSoFar(prev, root, seen) \ frontier :
        x # sought /\ prev[x] \subseteq FoundSoFar(prev, root, seen)

(* One more step back from a frontier without the revision looked for.     *)
LEMMA ExploreFurther ==
  ASSUME NEW prev, NEW root, NEW frontier, NEW seen, NEW sought,
         Explored(prev, root, frontier, seen, sought),
         sought \notin frontier
  PROVE  LET next == NextPreviousSet(prev, frontier, seen)
         IN Explored(prev, root, next, seen \cup next, sought)
<1> DEFINE next == NextPreviousSet(prev, frontier, seen)
<1>1. next \subseteq FoundSoFar(prev, root, seen \cup next)
  BY DEF FoundSoFar
<1>2. ASSUME NEW x \in FoundSoFar(prev, root, seen \cup next) \ next
      PROVE  x # sought /\ prev[x] \subseteq FoundSoFar(prev, root, seen \cup next)
  <2>1. x \in FoundSoFar(prev, root, seen)
    BY <1>2 DEF FoundSoFar
  <2>2. CASE x \in frontier
    <3>1. prev[x] \subseteq seen \cup next
      BY <2>2 DEF NextPreviousSet
    <3> QED
      BY <2>2, <3>1 DEF FoundSoFar
  <2>3. CASE x \notin frontier
    BY <2>1, <2>3 DEF Explored, FoundSoFar
  <2> QED
    BY <2>2, <2>3
<1> QED
  BY <1>1, <1>2 DEF Explored

(* Nothing left to follow: the whole history was found.                    *)
LEMMA ExploredToTheEnd ==
  ASSUME NEW prev, NEW root \in DOMAIN prev, NEW seen \in SUBSET DOMAIN prev,
         NEW sought, Closed(prev, DOMAIN prev),
         Explored(prev, root, {}, seen, sought)
  PROVE  sought \notin History(prev, root)
<1>1. FoundSoFar(prev, root, seen) \in SUBSET DOMAIN prev
  BY DEF FoundSoFar, Closed
<1>2. Closed(prev, FoundSoFar(prev, root, seen))
  BY DEF Explored, Closed
<1>3. History(prev, root) \subseteq FoundSoFar(prev, root, seen)
  BY <1>1, <1>2, HistoryIsLeast DEF FoundSoFar
<1> QED
  BY <1>3 DEF Explored

(* A frontier inside the history of the revision looked for cannot lead to *)
(* it, since the clock has no cycles.                                      *)
LEMMA FrontierInsideHistory ==
  ASSUME NEW prev, NEW root \in DOMAIN prev, NEW sought \in DOMAIN prev,
         NEW frontier, NEW seen \in SUBSET DOMAIN prev,
         Closed(prev, DOMAIN prev),
         Explored(prev, root, frontier, seen, sought),
         sought \notin frontier,
         frontier \subseteq History(prev, sought),
         sought \notin History(prev, sought)
  PROVE  sought \notin History(prev, root)
<1> DEFINE S == FoundSoFar(prev, root, seen) \cup History(prev, sought)
<1>1. S \in SUBSET DOMAIN prev
  BY DEF FoundSoFar, Closed, History
<1>2. Closed(prev, S)
  <2> SUFFICES ASSUME NEW x \in S PROVE prev[x] \subseteq S
    BY DEF Closed
  <2>1. CASE x \in History(prev, sought)
    BY <2>1, HistoryIsClosed DEF Closed
  <2>2. CASE x \notin History(prev, sought)
    BY <2>2 DEF Explored
  <2> QED
    BY <2>1, <2>2
<1>3. History(prev, root) \subseteq S
  BY <1>1, <1>2, HistoryIsLeast DEF FoundSoFar
<1> QED
  BY <1>3 DEF Explored

--------------------------------------------------------------------------------
(***************************************************************************)
(* The rounds of a comparison as CausalCompare counts them: f[0] to f[k]   *)
(* are the first k + 1 of its states.                                      *)
(***************************************************************************)
IsRounds(prev, our, other, f, k) ==
  /\ f = [i \in 0 .. k |-> f[i]]
  /\ f[0] = FirstRound(prev, our, other)
  /\ \A i \in 1 .. k : f[i] = NextRound(prev, our, other, f[i - 1])

Frontiers(s) == s.ours \cup s.others

(* One more round.                                                         *)
LEMMA OneMoreRound ==
  ASSUME NEW prev, NEW our, NEW other, NEW f, NEW k \in Nat,
         IsRounds(prev, our, other, f, k),
         NEW g, g = [i \in 0 .. k + 1 |->
                       IF i = k + 1 THEN NextRound(prev, our, other, f[k]) ELSE f[i]]
  PROVE  IsRounds(prev, our, other, g, k + 1)
<1>1. g[k + 1] = NextRound(prev, our, other, f[k])
  OBVIOUS
<1>2. \A i \in 0 .. k : g[i] = f[i]
  OBVIOUS
<1>3. ASSUME NEW i \in 1 .. k + 1
      PROVE  g[i] = NextRound(prev, our, other, g[i - 1])
  <2>1. CASE i = k + 1
    BY <2>1, <1>1, <1>2
  <2>2. CASE i # k + 1
    <3>1. i \in 1 .. k /\ i \in 0 .. k /\ i - 1 \in 0 .. k
      BY <2>2
    <3>2. f[i] = NextRound(prev, our, other, f[i - 1])
      BY <3>1 DEF IsRounds
    <3>3. g[i] = f[i] /\ g[i - 1] = f[i - 1]
      BY <3>1, <1>2
    <3> QED
      BY <3>2, <3>3
  <2> QED
    BY <2>1, <2>2
<1>4. g = [i \in 0 .. k + 1 |-> g[i]] /\ g[0] = f[0]
  BY <1>2
<1> QED
  BY <1>3, <1>4 DEF IsRounds

(* Storing more blocks changes no round that was within the stored ones.   *)
LEMMA RoundsStable ==
  ASSUME NEW prev, NEW more, NEW D, NEW our \in D, NEW other \in D,
         \A x \in D : more[x] = prev[x],
         NEW f, NEW k \in Nat, IsRounds(prev, our, other, f, k),
         \A i \in 0 .. k : Frontiers(f[i]) \subseteq D
  PROVE  IsRounds(more, our, other, f, k)
<1>1. FirstRound(more, our, other) = FirstRound(prev, our, other)
  BY DEF FirstRound
<1>2. ASSUME NEW i \in 1 .. k
      PROVE  NextRound(more, our, other, f[i - 1]) = NextRound(prev, our, other, f[i - 1])
  <2> DEFINE s == f[i - 1]
  <2>1. s.ours \subseteq D /\ s.others \subseteq D
    BY DEF Frontiers
  <2> HIDE DEF s
  <2>2. \A seen : NextPreviousSet(more, s.ours, seen) = NextPreviousSet(prev, s.ours, seen)
    BY <2>1 DEF NextPreviousSet
  <2>3. \A seen : NextPreviousSet(more, s.others, seen) = NextPreviousSet(prev, s.others, seen)
    BY <2>1 DEF NextPreviousSet
  <2>4. NextRound(more, our, other, s) = NextRound(prev, our, other, s)
    BY <2>2, <2>3 DEF NextRound
  <2> QED
    BY <2>4 DEF s
<1> QED
  BY <1>1, <1>2 DEF IsRounds

(* A comparison that comes to a verdict within the rounds CausalCompare    *)
(* makes has its answer: what follows a verdict repeats it.                *)
LEMMA RoundsGiveTheAnswer ==
  ASSUME NEW prev, NEW our, NEW other, NEW n \in Nat, DOMAIN prev = 1 .. n,
         NEW f, NEW k \in 0 .. n + 1, IsRounds(prev, our, other, f, k),
         f[k].verdict # "Open"
  PROVE  CausalCompare(prev, our, other) = f[k].verdict
<1> DEFINE F(h) == [i \in 0 .. n + 1 |->
                      IF i = 0 THEN FirstRound(prev, our, other)
                               ELSE NextRound(prev, our, other, h[i - 1])]
           g == [i \in 0 .. n + 1 |-> IF i <= k THEN f[i] ELSE f[k]]
           round == CHOOSE h : h = F(h)
<1>1. Cardinality(DOMAIN prev) + 1 = n + 1
  <2>1. IsFiniteSet(1 .. n) /\ Cardinality(1 .. n) = IF 1 > n THEN 0 ELSE n - 1 + 1
    BY FS_Interval, SMT
  <2> QED
    BY <2>1
<1>2. CausalCompare(prev, our, other) = round[n + 1].verdict
  BY <1>1 DEF CausalCompare
<1>3. NextRound(prev, our, other, f[k]) = f[k]
  BY DEF NextRound
<1>4. \A i \in 0 .. n + 1 : F(g)[i] = g[i]
  <2> SUFFICES ASSUME NEW i \in 0 .. n + 1 PROVE F(g)[i] = g[i]
    OBVIOUS
  <2>1. CASE i = 0
    BY <2>1 DEF IsRounds
  <2>2. CASE i # 0 /\ i <= k
    <3>1. i \in 1 .. k /\ i - 1 \in 0 .. n + 1 /\ i - 1 <= k
      BY <2>2
    <3>2. F(g)[i] = NextRound(prev, our, other, f[i - 1])
      BY <2>2, <3>1
    <3>3. g[i] = f[i]
      BY <2>2
    <3> QED
      BY <3>1, <3>2, <3>3 DEF IsRounds
  <2>3. CASE ~(i <= k)
    <3>1. i # 0 /\ i - 1 \in 0 .. n + 1 /\ g[i - 1] = f[k]
      BY <2>3
    <3>2. F(g)[i] = NextRound(prev, our, other, f[k])
      BY <3>1
    <3>3. g[i] = f[k]
      BY <2>3
    <3> QED
      BY <3>2, <3>3, <1>3
  <2> QED
    BY <2>1, <2>2, <2>3
<1>5. g[n + 1] = f[k]
  OBVIOUS
<1>6. g = F(g)
  <2>1. g = [i \in 0 .. n + 1 |-> g[i]] /\ F(g) = [i \in 0 .. n + 1 |-> F(g)[i]]
    OBVIOUS
  <2> HIDE DEF F, g
  <2> QED
    BY <2>1, <1>4
<1> HIDE DEF g
<1>7. round = F(round)
  BY <1>6
<1> HIDE DEF round
<1> DEFINE S == {i \in 0 .. n + 1 : round[i] = g[i]}
<1>8. 0 \in S
  BY <1>6, <1>7
<1>9. ASSUME NEW i \in 0 .. (n + 1) - 1, i \in S PROVE i + 1 \in S
  <2>1. i + 1 \in 0 .. n + 1 /\ i + 1 # 0 /\ (i + 1) - 1 = i
    OBVIOUS
  <2>2. round[i + 1] = NextRound(prev, our, other, round[i])
    BY <1>7, <2>1
  <2>3. g[i + 1] = NextRound(prev, our, other, g[i])
    BY <1>6, <2>1
  <2> QED
    BY <1>9, <2>1, <2>2, <2>3
<1>10. \A i \in 0 .. n + 1 : i \in S
  <2>1. n + 1 \in Nat
    OBVIOUS
  <2> HIDE DEF S
  <2> QED
    BY <1>8, <1>9, <2>1, HoldsUpTo
<1> QED
  BY <1>2, <1>5, <1>10

--------------------------------------------------------------------------------
(* CausalCompare as a whole, over any finite history without cycles: what  *)
(* it says is so, and it says the converse to the other side.              *)

LEMMA CompareRuns ==
  ASSUME NEW prev, NEW our, NEW other, IsFiniteSet(DOMAIN prev)
  PROVE  \E k \in Nat : \E f : /\ IsRounds(prev, our, other, f, k)
                               /\ k = Cardinality(DOMAIN prev) + 1
                               /\ CausalCompare(prev, our, other) = f[k].verdict
<1> DEFINE k == Cardinality(DOMAIN prev) + 1
           F(h) == [i \in 0 .. k |-> IF i = 0 THEN FirstRound(prev, our, other)
                                    ELSE NextRound(prev, our, other, h[i - 1])]
           round == CHOOSE h : h = F(h)
           S == {i \in Nat : \E f : IsRounds(prev, our, other, f, i)}
<1>1. k \in Nat
  BY FS_CardinalityType
<1>2. CausalCompare(prev, our, other) = round[k].verdict
  BY DEF CausalCompare
<1> HIDE DEF k
<1>3. 0 \in S
  <2> DEFINE f == [i \in 0 .. 0 |-> FirstRound(prev, our, other)]
  <2>1. IsRounds(prev, our, other, f, 0)
    BY DEF IsRounds
  <2>. QED  BY <2>1
<1>4. ASSUME NEW i \in Nat, i \in S PROVE i + 1 \in S
  <2>1. PICK f : IsRounds(prev, our, other, f, i)
    BY <1>4
  <2>2. PICK g : g = [j \in 0 .. i + 1 |->
                       IF j = i + 1 THEN NextRound(prev, our, other, f[i]) ELSE f[j]]
    OBVIOUS
  <2>3. IsRounds(prev, our, other, g, i + 1)
    BY <2>1, <2>2, OneMoreRound
  <2>. QED  BY <2>3
<1> HIDE DEF S
<1>5. \A i \in 0 .. k : i \in S
  BY <1>1, <1>3, <1>4, HoldsUpTo
<1>6. PICK f : IsRounds(prev, our, other, f, k)
  BY <1>1, <1>5 DEF S
<1>7. f = F(f)
  <2>1. f = [i \in 0 .. k |-> f[i]] /\ F(f) = [i \in 0 .. k |-> F(f)[i]]
    BY <1>6 DEF IsRounds
  <2>2. ASSUME NEW i \in 0 .. k PROVE f[i] = F(f)[i]
    <3>1. CASE i = 0
      BY <1>6, <3>1 DEF IsRounds
    <3>2. CASE i # 0
      <4>1. i \in 1 .. k
        BY <1>1, <3>2
      <4>2. f[i] = NextRound(prev, our, other, f[i - 1])
        BY <1>6, <4>1 DEF IsRounds
      <4>. QED  BY <3>2, <4>2
    <3>. QED  BY <3>1, <3>2
  <2> HIDE DEF F
  <2>. QED  BY <2>1, <2>2
<1>8. round = F(round)
  BY <1>7
<1> HIDE DEF round
<1>9. IsRounds(prev, our, other, round, k)
  <2>1. round = [i \in 0 .. k |-> round[i]] /\ round[0] = FirstRound(prev, our, other)
    BY <1>1, <1>8
  <2>2. \A i \in 1 .. k : round[i] = NextRound(prev, our, other, round[i - 1])
    BY <1>1, <1>8
  <2>. QED  BY <2>1, <2>2 DEF IsRounds
<1>. QED  BY <1>1, <1>2, <1>9 DEF k

(* What is so after each round.                                            *)
IsRound(prev, our, other, s) ==
  /\ s = [ours |-> s.ours, others |-> s.others, ourSeen |-> s.ourSeen,
          otherSeen |-> s.otherSeen, verdict |-> s.verdict]
  /\ s.ours \subseteq History(prev, our) /\ s.others \subseteq History(prev, other)
  /\ s.verdict \in {"Open", "None", "Equal", "Less", "Greater"}
  /\ s.verdict = "Equal" <=> our = other
  /\ s.verdict = "Less" => our \in History(prev, other)
  /\ s.verdict = "Greater" => other \in History(prev, our)

LEMMA RoundsAreSound ==
  ASSUME NEW prev, Closed(prev, DOMAIN prev), NEW our \in DOMAIN prev,
         NEW other \in DOMAIN prev, NEW f, NEW k \in Nat,
         IsRounds(prev, our, other, f, k)
  PROVE  \A i \in 0 .. k : IsRound(prev, our, other, f[i])
<1> DEFINE S == {i \in 0 .. k : IsRound(prev, our, other, f[i])}
<1>1. 0 \in S
  <2>1. f[0] = FirstRound(prev, our, other)
    BY DEF IsRounds
  <2>2. prev[our] \subseteq History(prev, our) /\ prev[other] \subseteq History(prev, other)
    BY PreviousInHistory
  <2>. QED  BY <2>1, <2>2 DEF IsRound, FirstRound
<1>2. ASSUME NEW i \in 0 .. k - 1, i \in S PROVE i + 1 \in S
  <2> DEFINE s == f[i]
             t == f[i + 1]
             ours   == NextPreviousSet(prev, s.ours, s.ourSeen)
             others == NextPreviousSet(prev, s.others, s.otherSeen)
  <2>1. t = NextRound(prev, our, other, s)
    <3>1. i + 1 \in 1 .. k /\ (i + 1) - 1 = i
      OBVIOUS
    <3>. QED  BY <3>1 DEF IsRounds
  <2>2. IsRound(prev, our, other, s)
    BY <1>2
  <2> HIDE DEF s, t
  <2>3. ours \subseteq History(prev, our) /\ others \subseteq History(prev, other)
    BY <2>2, HistoryGoesBack DEF IsRound
  <2>4. t = IF s.verdict # "Open"   THEN s
            ELSE IF our \in s.others THEN [s EXCEPT !.verdict = "Less"]
            ELSE IF other \in s.ours THEN [s EXCEPT !.verdict = "Greater"]
            ELSE IF \/ ProperPart(s.ours, s.otherSeen)
                    \/ ProperPart(s.others, s.ourSeen)
                 THEN [s EXCEPT !.verdict = "None"]
            ELSE [ours |-> ours, others |-> others,
                  ourSeen |-> s.ourSeen \cup ours,
                  otherSeen |-> s.otherSeen \cup others,
                  verdict |-> IF ours = {} /\ others = {} THEN "None" ELSE "Open"]
    BY <2>1 DEF NextRound
  <2> HIDE DEF ours, others
  <2>5. \A v : [s EXCEPT !.verdict = v] =
                 [ours |-> s.ours, others |-> s.others, ourSeen |-> s.ourSeen,
                  otherSeen |-> s.otherSeen, verdict |-> v]
    BY <2>2 DEF IsRound
  <2>6. IsRound(prev, our, other, t)
    <3>1. CASE s.verdict # "Open"
      BY <2>2, <2>4, <3>1
    <3>2. CASE s.verdict = "Open" /\ our \in s.others
      BY <2>2, <2>4, <2>5, <3>2 DEF IsRound
    <3>3. CASE s.verdict = "Open" /\ our \notin s.others /\ other \in s.ours
      BY <2>2, <2>4, <2>5, <3>3 DEF IsRound
    <3>4. CASE s.verdict = "Open" /\ our \notin s.others /\ other \notin s.ours
      BY <2>2, <2>3, <2>4, <2>5, <3>4 DEF IsRound
    <3>. QED  BY <3>1, <3>2, <3>3, <3>4
  <2>. QED  BY <2>6 DEF t
<1> HIDE DEF S
<1>3. \A i \in 0 .. k : i \in S
  BY <1>1, <1>2, HoldsUpTo
<1>. QED  BY <1>3 DEF S

LEMMA CompareIsSound ==
  ASSUME NEW prev, Closed(prev, DOMAIN prev), IsFiniteSet(DOMAIN prev),
         NEW our \in DOMAIN prev, NEW other \in DOMAIN prev,
         NEW order, order = CausalCompare(prev, our, other)
  PROVE  /\ order = "Equal" <=> our = other
         /\ order = "Less" => our \in History(prev, other)
         /\ order = "Greater" => other \in History(prev, our)
<1>0. PICK k \in Nat : \E f : /\ IsRounds(prev, our, other, f, k)
                              /\ order = f[k].verdict
  BY CompareRuns
<1>1. PICK f : /\ IsRounds(prev, our, other, f, k)
               /\ order = f[k].verdict
  BY <1>0
<1>2. IsRound(prev, our, other, f[k])
  BY <1>1, RoundsAreSound
<1>. QED  BY <1>1, <1>2 DEF IsRound

(* No revision is in its own history.                                      *)
Acyclic(prev) == \A c \in DOMAIN prev : c \notin History(prev, c)

Flipped(order) ==
  IF order = "Less" THEN "Greater" ELSE IF order = "Greater" THEN "Less" ELSE order

Mirrored(s) ==
  [ours |-> s.others, others |-> s.ours, ourSeen |-> s.otherSeen,
   otherSeen |-> s.ourSeen, verdict |-> Flipped(s.verdict)]

LEMMA OneSideIsOlder ==
  ASSUME NEW prev, Closed(prev, DOMAIN prev), Acyclic(prev),
         NEW a \in DOMAIN prev, NEW b \in DOMAIN prev,
         a \in History(prev, b), b \in History(prev, a)
  PROVE  FALSE
<1>1. Closed(prev, History(prev, a)) /\ History(prev, a) \in SUBSET DOMAIN prev
  BY HistoryIsClosed DEF History
<1>2. prev[b] \subseteq History(prev, a)
  BY <1>1 DEF Closed
<1>3. History(prev, b) \subseteq History(prev, a)
  BY <1>1, <1>2, HistoryIsLeast
<1>. QED  BY <1>3 DEF Acyclic

LEMMA NextIsMirrored ==
  ASSUME NEW prev, Closed(prev, DOMAIN prev), Acyclic(prev),
         NEW our \in DOMAIN prev, NEW other \in DOMAIN prev,
         NEW s, IsRound(prev, our, other, s)
  PROVE  NextRound(prev, other, our, Mirrored(s)) =
           Mirrored(NextRound(prev, our, other, s))
<1> DEFINE m == Mirrored(s)
           ours   == NextPreviousSet(prev, s.ours, s.ourSeen)
           others == NextPreviousSet(prev, s.others, s.otherSeen)
<1>1. /\ m.ours = s.others /\ m.others = s.ours /\ m.ourSeen = s.otherSeen
      /\ m.otherSeen = s.ourSeen /\ m.verdict = Flipped(s.verdict)
  BY DEF Mirrored
<1>2. ~(our \in s.others /\ other \in s.ours)
  BY OneSideIsOlder DEF IsRound
<1>3. \A v : /\ [s EXCEPT !.verdict = v] =
                 [ours |-> s.ours, others |-> s.others, ourSeen |-> s.ourSeen,
                  otherSeen |-> s.otherSeen, verdict |-> v]
             /\ [m EXCEPT !.verdict = v] =
                 [ours |-> s.others, others |-> s.ours, ourSeen |-> s.otherSeen,
                  otherSeen |-> s.ourSeen, verdict |-> v]
  BY DEF IsRound, Mirrored
<1>4. s.verdict = "Open" <=> m.verdict = "Open"
  BY <1>1 DEF Flipped
<1> DEFINE t == NextRound(prev, our, other, s)
           u == NextRound(prev, other, our, m)
<1>5. t = IF s.verdict # "Open"   THEN s
          ELSE IF our \in s.others THEN [s EXCEPT !.verdict = "Less"]
          ELSE IF other \in s.ours THEN [s EXCEPT !.verdict = "Greater"]
          ELSE IF \/ ProperPart(s.ours, s.otherSeen)
                  \/ ProperPart(s.others, s.ourSeen)
               THEN [s EXCEPT !.verdict = "None"]
          ELSE [ours |-> ours, others |-> others,
                ourSeen |-> s.ourSeen \cup ours,
                otherSeen |-> s.otherSeen \cup others,
                verdict |-> IF ours = {} /\ others = {} THEN "None" ELSE "Open"]
  BY DEF NextRound
<1>6. u = IF m.verdict # "Open"   THEN m
          ELSE IF other \in s.ours THEN [m EXCEPT !.verdict = "Less"]
          ELSE IF our \in s.others THEN [m EXCEPT !.verdict = "Greater"]
          ELSE IF \/ ProperPart(s.others, s.ourSeen)
                  \/ ProperPart(s.ours, s.otherSeen)
               THEN [m EXCEPT !.verdict = "None"]
          ELSE [ours |-> others, others |-> ours,
                ourSeen |-> s.otherSeen \cup others,
                otherSeen |-> s.ourSeen \cup ours,
                verdict |-> IF others = {} /\ ours = {} THEN "None" ELSE "Open"]
  <2> HIDE DEF m
  <2>. QED  BY <1>1 DEF NextRound
<1> HIDE DEF m, ours, others, t, u
<1>7. u = Mirrored(t)
  <2>1. CASE s.verdict # "Open"
    BY <1>4, <1>5, <1>6, <2>1 DEF m
  <2>2. CASE s.verdict = "Open" /\ our \in s.others
    BY <1>2, <1>3, <1>4, <1>5, <1>6, <2>2 DEF Mirrored, Flipped
  <2>3. CASE s.verdict = "Open" /\ our \notin s.others /\ other \in s.ours
    BY <1>3, <1>4, <1>5, <1>6, <2>3 DEF Mirrored, Flipped
  <2>4. CASE /\ s.verdict = "Open" /\ our \notin s.others /\ other \notin s.ours
             /\ \/ ProperPart(s.ours, s.otherSeen)
                \/ ProperPart(s.others, s.ourSeen)
    BY <1>3, <1>4, <1>5, <1>6, <2>4 DEF Mirrored, Flipped
  <2>5. CASE /\ s.verdict = "Open" /\ our \notin s.others /\ other \notin s.ours
             /\ ~ (\/ ProperPart(s.ours, s.otherSeen)
                   \/ ProperPart(s.others, s.ourSeen))
    BY <1>4, <1>5, <1>6, <2>5 DEF Mirrored, Flipped
  <2>. QED  BY <2>1, <2>2, <2>3, <2>4, <2>5
<1>. QED  BY <1>7 DEF m, t, u

LEMMA CompareIsMirrored ==
  ASSUME NEW prev, Closed(prev, DOMAIN prev), IsFiniteSet(DOMAIN prev), Acyclic(prev),
         NEW our \in DOMAIN prev, NEW other \in DOMAIN prev
  PROVE  CausalCompare(prev, other, our) = Flipped(CausalCompare(prev, our, other))
<1>0. PICK k \in Nat : \E f : /\ IsRounds(prev, our, other, f, k)
                              /\ k = Cardinality(DOMAIN prev) + 1
                              /\ CausalCompare(prev, our, other) = f[k].verdict
  BY CompareRuns
<1>1. PICK f : /\ IsRounds(prev, our, other, f, k)
               /\ k = Cardinality(DOMAIN prev) + 1
               /\ CausalCompare(prev, our, other) = f[k].verdict
  BY <1>0
<1>l. PICK l \in Nat : \E g : /\ IsRounds(prev, other, our, g, l)
                              /\ l = Cardinality(DOMAIN prev) + 1
                              /\ CausalCompare(prev, other, our) = g[l].verdict
  BY CompareRuns
<1>2. PICK g : /\ IsRounds(prev, other, our, g, l)
               /\ l = Cardinality(DOMAIN prev) + 1
               /\ CausalCompare(prev, other, our) = g[l].verdict
  BY <1>l
<1> DEFINE S == {i \in 0 .. k : g[i] = Mirrored(f[i])}
<1>3. \A i \in 0 .. k : IsRound(prev, our, other, f[i])
  BY <1>1, RoundsAreSound
<1>4. 0 \in S
  <2>1. f[0] = FirstRound(prev, our, other) /\ g[0] = FirstRound(prev, other, our)
    BY <1>1, <1>2 DEF IsRounds
  <2>2. g[0] = Mirrored(f[0])
    <3>1. CASE our = other
      BY <2>1, <3>1 DEF FirstRound, Mirrored, Flipped
    <3>2. CASE our # other
      BY <2>1, <3>2 DEF FirstRound, Mirrored, Flipped
    <3>. QED  BY <3>1, <3>2
  <2>. QED  BY <1>1, <2>2
<1>5. ASSUME NEW i \in 0 .. k - 1, i \in S PROVE i + 1 \in S
  <2>1. i + 1 \in 1 .. k /\ (i + 1) - 1 = i /\ i \in 0 .. k /\ k = l
    BY <1>1, <1>2
  <2>2. f[i + 1] = NextRound(prev, our, other, f[i])
    BY <1>1, <2>1 DEF IsRounds
  <2>3. g[i + 1] = NextRound(prev, other, our, g[i])
    BY <1>2, <2>1 DEF IsRounds
  <2>4. g[i] = Mirrored(f[i])
    BY <1>5
  <2>5. IsRound(prev, our, other, f[i])
    BY <1>3, <2>1
  <2>6. g[i + 1] = Mirrored(f[i + 1])
    BY <2>2, <2>3, <2>4, <2>5, NextIsMirrored
  <2>. QED  BY <2>1, <2>6
<1> HIDE DEF S
<1>6. \A i \in 0 .. k : i \in S
  BY <1>4, <1>5, HoldsUpTo
<1>7. g[k] = Mirrored(f[k]) /\ k = l
  BY <1>1, <1>2, <1>6 DEF S
<1>. QED  BY <1>1, <1>2, <1>7 DEF Mirrored
================================================================================
