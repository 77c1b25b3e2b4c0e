------------------------------- MODULE UnixFsFileProofs -----------------------
(***************************************************************************)
(* Files of public directories (wnfs-unixfs-file): the types, the tree     *)
(* that is built and what its readers give, proved for any content, chunk  *)
(* size, degree, buffers and positions; and the content of private files.  *)
(*                                                                         *)
(* The invariant has three parts.  BuildInv says what the layers of        *)
(* stream_balanced_tree hold: layer i has trees of height i - 1, every     *)
(* layer but the one of the leaves has room, and the bytes below the       *)
(* layers, then the buffer, then the source are the content.  ReaderInv    *)
(* says what a reader has still to read: the node it is at and its stack   *)
(* of links, the last list first, hold the content from the offset it      *)
(* counts with on, and that offset is not after the position.  The third   *)
(* part is what is promised of the answers.                                *)
(*                                                                         *)
(* Trees are known by their height (Grade), so that facts about all trees  *)
(* go by the height and need no recursion; lists are flattened, descended  *)
(* and added up by following the function that does it (Flattens, Stacks,  *)
(* Descends).                                                              *)
(*                                                                         *)
(* The blocks of a private file are the parts of its content between their *)
(* edges (Edge); what a read takes of each block is the part between two   *)
(* cuts (LowCut, HighCut), and where one cut is the next block's first     *)
(* they join (CutsJoin).                                                   *)
(***************************************************************************)
EXTENDS MCFiles, SharedFacts

--------------------------------------------------------------------------------
(* Sequences that are as long and have the same members are the same.      *)
LEMMA SameSeq ==
  ASSUME NEW S, NEW s \in Seq(S), NEW T, NEW t \in Seq(T),
         Len(s) = Len(t), \A i \in 1 .. Len(s) : s[i] = t[i]
  PROVE  s = t
<1>1. s \in Seq(S \cup T) /\ t \in Seq(S \cup T)
  BY SeqMonotonic
<1>. QED  BY <1>1, SeqEqual

(* A function on 1..n is a sequence.                                       *)
LEMMA FunctionIsSeq ==
  ASSUME NEW S, NEW n \in Nat, NEW f \in [1 .. n -> S]
  PROVE  f \in Seq(S) /\ Len(f) = n
<1>1. f \in Seq(S)
  BY SeqDef
<1>2. DOMAIN f = 1 .. n
  OBVIOUS
<1>. QED  BY <1>1, <1>2, LenProperties

(* What is appended to a sequence stays in it; the rest is what it was.    *)
LEMMA SubSeqStep ==
  ASSUME NEW S, NEW s \in Seq(S), NEW n \in 1 .. Len(s)
  PROVE  /\ SubSeq(s, 1, n) = Append(SubSeq(s, 1, n - 1), s[n])
         /\ SubSeq(s, 1, n - 1) \in Seq(S) /\ Len(SubSeq(s, 1, n - 1)) = n - 1
<1>0. Len(s) \in Nat /\ 1 \in Int /\ n \in Int /\ n - 1 \in Int
  OBVIOUS
<1>1. /\ SubSeq(s, 1, n) \in Seq(S) /\ Len(SubSeq(s, 1, n)) = n
      /\ \A i \in 1 .. n : SubSeq(s, 1, n)[i] = s[i]
  <2>1. \A i \in 1 .. n : s[i] \in S
    BY ElementOfSeq
  <2>2. /\ SubSeq(s, 1, n) \in Seq(S)
        /\ Len(SubSeq(s, 1, n)) = IF 1 <= n THEN n - 1 + 1 ELSE 0
        /\ \A i \in 1 .. n - 1 + 1 : SubSeq(s, 1, n)[i] = s[1 + i - 1]
    BY <1>0, <2>1, SubSeqProperties
  <2>. QED  BY <1>0, <2>2
<1>2. /\ SubSeq(s, 1, n - 1) \in Seq(S) /\ Len(SubSeq(s, 1, n - 1)) = n - 1
      /\ \A i \in 1 .. n - 1 : SubSeq(s, 1, n - 1)[i] = s[i]
  <2>1. \A i \in 1 .. n - 1 : s[i] \in S
    BY ElementOfSeq
  <2>2. /\ SubSeq(s, 1, n - 1) \in Seq(S)
        /\ Len(SubSeq(s, 1, n - 1)) = IF 1 <= n - 1 THEN n - 1 - 1 + 1 ELSE 0
        /\ \A i \in 1 .. n - 1 - 1 + 1 : SubSeq(s, 1, n - 1)[i] = s[1 + i - 1]
    BY <1>0, <2>1, SubSeqProperties
  <2>. QED  BY <1>0, <2>2
<1>3. PICK u, v : u = SubSeq(s, 1, n) /\ v = SubSeq(s, 1, n - 1)
  OBVIOUS
<1>4. s[n] \in S
  BY ElementOfSeq
<1>5. /\ Append(v, s[n]) \in Seq(S) /\ Len(Append(v, s[n])) = Len(v) + 1
      /\ \A i \in 1 .. Len(v) : Append(v, s[n])[i] = v[i]
      /\ Append(v, s[n])[Len(v) + 1] = s[n]
  BY <1>2, <1>3, <1>4, AppendProperties
<1>6. u = Append(v, s[n])
  <2>1. PICK w : w = Append(v, s[n])
    OBVIOUS
  <2>2. w \in Seq(S) /\ Len(w) = n
    BY <1>2, <1>3, <1>5, <2>1
  <2>3. \A i \in 1 .. n : u[i] = w[i]
    BY <1>1, <1>2, <1>3, <1>5, <2>1
  <2>4. u = w
    BY <1>1, <1>3, <2>2, <2>3, SeqEqual
  <2>. QED  BY <2>1, <2>4
<1>. QED  BY <1>2, <1>3, <1>6

--------------------------------------------------------------------------------
(* Sequences one after the other: f runs through them when each of its     *)
(* values has one more of them at its end.                                 *)
Flattens(f, ss) ==
  /\ DOMAIN f = 0 .. Len(ss) /\ f[0] = <<>>
  /\ \A i \in 1 .. Len(ss) : f[i] = f[i - 1] \o ss[i]

LEMMA FlattenRuns ==
  ASSUME NEW S, NEW ss \in Seq(Seq(S))
  PROVE  \E f \in [0 .. Len(ss) -> Seq(S)] : Flattens(f, ss)
<1> DEFINE n == Len(ss)
           K == {k \in 0 .. n : \E f \in [0 .. k -> Seq(S)] :
                   f[0] = <<>> /\ \A i \in 1 .. k : f[i] = f[i - 1] \o ss[i]}
<1>0. n \in Nat
  OBVIOUS
<1>1. 0 \in K
  <2>1. [i \in 0 .. 0 |-> <<>>] \in [0 .. 0 -> Seq(S)]
    BY EmptySeq
  <2>2. \A i \in 1 .. 0 : FALSE
    OBVIOUS
  <2>3. PICK e : e = [i \in 0 .. 0 |-> <<>>]
    OBVIOUS
  <2>4. e \in [0 .. 0 -> Seq(S)] /\ e[0] = <<>> /\ \A i \in 1 .. 0 : e[i] = e[i - 1] \o ss[i]
    BY <2>1, <2>2, <2>3
  <2>5. 0 \in 0 .. n
    BY <1>0
  <2>. QED  BY <2>4, <2>5
<1>2. ASSUME NEW k \in 0 .. n - 1, k \in K PROVE k + 1 \in K
  <2>1. PICK f \in [0 .. k -> Seq(S)] :
             f[0] = <<>> /\ \A i \in 1 .. k : f[i] = f[i - 1] \o ss[i]
    BY <1>2
  <2>2. PICK x : x = f[k] \o ss[k + 1]
    OBVIOUS
  <2>3. x \in Seq(S)
    <3>1. k + 1 \in 1 .. Len(ss)
      BY <1>0
    <3>2. ss[k + 1] \in Seq(S) /\ f[k] \in Seq(S)
      BY <3>1, ElementOfSeq
    <3>. QED  BY <2>2, <3>2, ConcatProperties
  <2> DEFINE g == [i \in 0 .. k + 1 |-> IF i <= k THEN f[i] ELSE x]
  <2>4. g \in [0 .. k + 1 -> Seq(S)]
    BY <2>3
  <2>g. /\ k \in Nat /\ k + 1 \in 0 .. k + 1 /\ g[k + 1] = x
        /\ \A i \in 0 .. k : g[i] = f[i]
    BY <1>0
  <2> HIDE DEF g
  <2>5. g[0] = <<>>
    BY <2>1, <2>g
  <2>6. \A i \in 1 .. k + 1 : g[i] = g[i - 1] \o ss[i]
    <3> TAKE i \in 1 .. k + 1
    <3>1. CASE i \in 1 .. k
      <4>1. i - 1 \in 0 .. k /\ i \in 0 .. k
        BY <2>g, <3>1
      <4>2. g[i] = f[i] /\ g[i - 1] = f[i - 1] /\ f[i] = f[i - 1] \o ss[i]
        BY <2>1, <2>g, <3>1, <4>1
      <4>. QED  BY <4>2
    <3>2. CASE i = k + 1
      <4>1. g[i] = x /\ g[i - 1] = f[k] /\ i = k + 1
        BY <2>g, <3>2
      <4>. QED  BY <2>2, <4>1
    <3>3. i \in 1 .. k \/ i = k + 1
      BY <2>g
    <3>. QED  BY <3>1, <3>2, <3>3
  <2>7. k + 1 \in 0 .. n
    BY <1>0
  <2>. QED  BY <2>4, <2>5, <2>6, <2>7
<1>3. n \in K
  <2> HIDE DEF K
  <2>1. \A i \in 0 .. n : i \in K
    BY <1>0, <1>1, <1>2, HoldsUpTo
  <2>. QED  BY <1>0, <2>1
<1>. QED  BY <1>3 DEF Flattens

LEMMA FlattenIs ==
  ASSUME NEW S, NEW ss \in Seq(Seq(S)), NEW f, Flattens(f, ss)
  PROVE  FlattenSeq(ss) = f[Len(ss)]
<1>0. Len(ss) \in Nat /\ ss = [i \in 1 .. Len(ss) |-> ss[i]]
  OBVIOUS
<1>1. CASE Len(ss) = 0
  <2>1. ss = <<>>
    BY <1>1, EmptySeq
  <2>. QED  BY <1>1, <2>1 DEF FlattenSeq, Flattens
<1>2. CASE Len(ss) # 0
  <2> DEFINE n == Len(ss)
  <2>1. PICK K : K = CHOOSE g : g = [i \in 1 .. n |-> IF i = 1 THEN ss[i] ELSE g[i - 1] \o ss[i]]
    OBVIOUS
  <2>2. PICK h : h = [i \in 1 .. n |-> f[i]]
    OBVIOUS
  <2>3. \A i \in 1 .. n : h[i] = IF i = 1 THEN ss[i] ELSE h[i - 1] \o ss[i]
    <3> TAKE i \in 1 .. n
    <3>1. CASE i = 1
      <4>0. 1 \in 1 .. n /\ 1 - 1 = 0
        BY <1>0, <1>2
      <4>1. f[1] = f[1 - 1] \o ss[1] /\ f[0] = <<>>
        BY <4>0 DEF Flattens
      <4>2. ss[1] \in Seq(S)
        BY <1>0, <1>2, ElementOfSeq
      <4>3. <<>> \o ss[1] = ss[1]
        BY <4>2, ConcatEmptySeq
      <4>4. f[1] = ss[1]
        BY <4>0, <4>1, <4>3
      <4>. QED  BY <2>2, <3>1, <4>0, <4>4
    <3>2. CASE i # 1
      <4>1. i - 1 \in 1 .. n
        BY <3>2
      <4>. QED  BY <2>2, <3>2, <4>1 DEF Flattens
    <3>. QED  BY <3>1, <3>2
  <2>4. h = [i \in 1 .. n |-> IF i = 1 THEN ss[i] ELSE h[i - 1] \o ss[i]]
    BY <2>2, <2>3
  <2>5. K = [i \in 1 .. n |-> IF i = 1 THEN ss[i] ELSE K[i - 1] \o ss[i]]
    BY <2>1, <2>4
  <2> DEFINE A == {i \in 0 .. n : i # 0 => K[i] = h[i]}
  <2>6. \A i \in 0 .. n : i \in A
    <3>1. 0 \in A
      BY <1>0
    <3>2. ASSUME NEW i \in 0 .. n - 1, i \in A PROVE i + 1 \in A
      <4>1. i + 1 \in 1 .. n
        BY <1>0
      <4>2. h[i + 1] = IF i + 1 = 1 THEN ss[i + 1] ELSE h[i + 1 - 1] \o ss[i + 1]
        BY <2>3, <4>1
      <4>5. \A j \in 1 .. n : K[j] = IF j = 1 THEN ss[j] ELSE K[j - 1] \o ss[j]
        BY <2>5
      <4>3. K[i + 1] = IF i + 1 = 1 THEN ss[i + 1] ELSE K[i + 1 - 1] \o ss[i + 1]
        BY <4>5, <4>1
      <4>4. i + 1 - 1 = i /\ i + 1 \in 0 .. n
        BY <1>0
      <4>. QED  BY <3>2, <4>2, <4>3, <4>4
    <3> HIDE DEF A
    <3>. QED  BY <1>0, <3>1, <3>2, HoldsUpTo
  <2>7. K[n] = h[n] /\ h[n] = f[n]
    <3>1. n \in 1 .. n /\ n \in 0 .. n /\ n # 0
      BY <1>0, <1>2
    <3>. QED  BY <2>2, <2>6, <3>1
  <2>8. FlattenSeq(ss) = K[n]
    BY <1>2, <2>1 DEF FlattenSeq
  <2>. QED  BY <2>7, <2>8
<1>. QED  BY <1>1, <1>2

LEMMA FlattenEmpty ==
  FlattenSeq(<<>>) = <<>>
<1>1. Len(<<>>) = 0
  BY EmptySeq
<1>. QED  BY <1>1 DEF FlattenSeq

LEMMA FlattenType ==
  ASSUME NEW S, NEW ss \in Seq(Seq(S))
  PROVE  FlattenSeq(ss) \in Seq(S)
<1>1. PICK f \in [0 .. Len(ss) -> Seq(S)] : Flattens(f, ss)
  BY FlattenRuns
<1>2. FlattenSeq(ss) = f[Len(ss)]
  BY <1>1, FlattenIs
<1>3. Len(ss) \in 0 .. Len(ss)
  OBVIOUS
<1>. QED  BY <1>2, <1>3

(* Flattening is a homomorphism.                                           *)
LEMMA FlattenConcat ==
  ASSUME NEW S, NEW ss \in Seq(Seq(S)), NEW tt \in Seq(Seq(S))
  PROVE  FlattenSeq(ss \o tt) = FlattenSeq(ss) \o FlattenSeq(tt)
<1>1. PICK u : u = ss \o tt
  OBVIOUS
<1>2. PICK m, n : m = Len(ss) /\ n = Len(tt)
  OBVIOUS
<1>3. m \in Nat /\ n \in Nat
  BY <1>2
<1>4. /\ u \in Seq(Seq(S)) /\ Len(u) = m + n
      /\ \A i \in 1 .. m + n : u[i] = IF i <= m THEN ss[i] ELSE tt[i - m]
  BY <1>1, <1>2, ConcatProperties
<1>5. PICK f \in [0 .. m + n -> Seq(S)] : Flattens(f, u)
  BY <1>4, FlattenRuns
<1>6. PICK g \in [0 .. n -> Seq(S)] : Flattens(g, tt)
  BY <1>2, FlattenRuns
<1>7. PICK e : e = [i \in 0 .. m |-> f[i]]
  OBVIOUS
<1>8. Flattens(e, ss)
  <2>1. DOMAIN e = 0 .. Len(ss) /\ e[0] = <<>>
    BY <1>2, <1>3, <1>5, <1>7 DEF Flattens
  <2>2. ASSUME NEW i \in 1 .. Len(ss) PROVE e[i] = e[i - 1] \o ss[i]
    <3>1. i \in 0 .. m /\ i - 1 \in 0 .. m /\ i \in 1 .. m + n /\ i <= m
      BY <1>2, <1>3
    <3>2. i \in 1 .. Len(u)
      BY <1>4, <3>1
    <3>3. f[i] = f[i - 1] \o u[i]
      BY <1>5, <3>2 DEF Flattens
    <3>4. u[i] = ss[i]
      BY <1>4, <3>1
    <3>5. e[i] = f[i] /\ e[i - 1] = f[i - 1]
      BY <1>7, <3>1
    <3>. QED  BY <3>3, <3>4, <3>5
  <2>. QED  BY <2>1, <2>2 DEF Flattens
<1>9. PICK A : A = {i \in 0 .. n : f[m + i] = f[m] \o g[i]}
  OBVIOUS
<1>10. f[m] \in Seq(S)
  BY <1>3, <1>5
<1>11. 0 \in A
  <2>1. f[m] \o <<>> = f[m]
    BY <1>10, ConcatEmptySeq
  <2>2. g[0] = <<>>
    BY <1>6 DEF Flattens
  <2>3. m + 0 = m /\ 0 \in 0 .. n
    BY <1>3
  <2>. QED  BY <1>9, <2>1, <2>2, <2>3
<1>12. ASSUME NEW i \in 0 .. n - 1, i \in A PROVE i + 1 \in A
  <2>0. PICK j, q, r : j = i + 1 /\ q = m + j /\ r = m + i
    OBVIOUS
  <2>1. /\ j \in 0 .. n /\ j \in 1 .. n /\ j - 1 = i /\ q \in 1 .. m + n /\ q - 1 = r
        /\ ~(q <= m) /\ q - m = j /\ i \in 0 .. n
    BY <1>3, <2>0
  <2>2. q \in 1 .. Len(u) /\ j \in 1 .. Len(tt)
    BY <1>2, <1>4, <2>1
  <2>3. f[q] = f[q - 1] \o u[q]
    BY <1>5, <2>2 DEF Flattens
  <2>4. u[q] = tt[j]
    BY <1>4, <2>1
  <2>5. g[j] = g[j - 1] \o tt[j]
    BY <1>6, <2>2 DEF Flattens
  <2>6. f[r] = f[m] \o g[i]
    BY <1>9, <1>12, <2>0
  <2>7. g[i] \in Seq(S) /\ tt[j] \in Seq(S)
    BY <1>6, <2>1, <2>2, ElementOfSeq
  <2>8. (f[m] \o g[i]) \o tt[j] = f[m] \o (g[i] \o tt[j])
    <3>1. PICK x, y, z : x = f[m] /\ y = g[i] /\ z = tt[j]
      OBVIOUS
    <3>2. x \in Seq(S) /\ y \in Seq(S) /\ z \in Seq(S)
      BY <1>10, <2>7, <3>1
    <3>3. (x \o y) \o z = x \o (y \o z)
      BY <3>2, ConcatAssociative
    <3>. QED  BY <3>1, <3>3
  <2>9. f[q] = f[m] \o g[j]
    BY <2>1, <2>3, <2>4, <2>5, <2>6, <2>8
  <2>. QED  BY <1>9, <2>0, <2>1, <2>9
<1>13. n \in A
  <2>1. \A i \in 0 .. n : i \in A
    BY <1>3, <1>11, <1>12, HoldsUpTo
  <2>. QED  BY <1>3, <2>1
<1>14. f[m + n] = f[m] \o g[n]
  BY <1>9, <1>13
<1>15. FlattenSeq(u) = f[m + n]
  BY <1>4, <1>5, FlattenIs
<1>16. FlattenSeq(ss) = e[m] /\ FlattenSeq(tt) = g[n]
  BY <1>2, <1>6, <1>8, FlattenIs
<1>17. e[m] = f[m]
  BY <1>3, <1>7
<1>. QED  BY <1>1, <1>14, <1>15, <1>16, <1>17

LEMMA FlattenOne ==
  ASSUME NEW S, NEW s \in Seq(S)
  PROVE  FlattenSeq(<<s>>) = s
<1>1. PICK u : u = <<s>>
  OBVIOUS
<1>2. u \in Seq(Seq(S)) /\ Len(u) = 1 /\ u[1] = s
  BY <1>1
<1>3. PICK f \in [0 .. Len(u) -> Seq(S)] : Flattens(f, u)
  BY <1>2, FlattenRuns
<1>4. 1 \in 1 .. Len(u) /\ 1 - 1 = 0
  BY <1>2
<1>5. f[1] = f[0] \o u[1] /\ f[0] = <<>>
  BY <1>3, <1>4 DEF Flattens
<1>6. FlattenSeq(u) = f[1]
  BY <1>2, <1>3, FlattenIs
<1>7. <<>> \o s = s
  BY ConcatEmptySeq
<1>. QED  BY <1>1, <1>2, <1>5, <1>6, <1>7

--------------------------------------------------------------------------------
(* Lists one after the other, the last one first.                          *)
Stacks(f, ss) ==
  /\ DOMAIN f = 0 .. Len(ss) /\ f[0] = <<>>
  /\ \A i \in 1 .. Len(ss) : f[i] = ss[i] \o f[i - 1]

LEMMA StackRuns ==
  ASSUME NEW S, NEW ss \in Seq(Seq(S))
  PROVE  \E f \in [0 .. Len(ss) -> Seq(S)] : Stacks(f, ss)
<1> DEFINE n == Len(ss)
           K == {k \in 0 .. n : \E f \in [0 .. k -> Seq(S)] :
                   f[0] = <<>> /\ \A i \in 1 .. k : f[i] = ss[i] \o f[i - 1]}
<1>0. n \in Nat
  OBVIOUS
<1>1. 0 \in K
  <2>1. [i \in 0 .. 0 |-> <<>>] \in [0 .. 0 -> Seq(S)]
    BY EmptySeq
  <2>2. \A i \in 1 .. 0 : FALSE
    OBVIOUS
  <2>3. PICK e : e = [i \in 0 .. 0 |-> <<>>]
    OBVIOUS
  <2>4. e \in [0 .. 0 -> Seq(S)] /\ e[0] = <<>> /\ \A i \in 1 .. 0 : e[i] = ss[i] \o e[i - 1]
    BY <2>1, <2>2, <2>3
  <2>5. 0 \in 0 .. n
    BY <1>0
  <2>. QED  BY <2>4, <2>5
<1>2. ASSUME NEW k \in 0 .. n - 1, k \in K PROVE k + 1 \in K
  <2>1. PICK f \in [0 .. k -> Seq(S)] :
             f[0] = <<>> /\ \A i \in 1 .. k : f[i] = ss[i] \o f[i - 1]
    BY <1>2
  <2>2. PICK x : x = ss[k + 1] \o f[k]
    OBVIOUS
  <2>3. x \in Seq(S)
    <3>1. k + 1 \in 1 .. Len(ss)
      BY <1>0
    <3>2. ss[k + 1] \in Seq(S) /\ f[k] \in Seq(S)
      BY <3>1, ElementOfSeq
    <3>. QED  BY <2>2, <3>2, ConcatProperties
  <2> DEFINE g == [i \in 0 .. k + 1 |-> IF i <= k THEN f[i] ELSE x]
  <2>4. g \in [0 .. k + 1 -> Seq(S)]
    BY <2>3
  <2>g. /\ k \in Nat /\ k + 1 \in 0 .. k + 1 /\ g[k + 1] = x
        /\ \A i \in 0 .. k : g[i] = f[i]
    BY <1>0
  <2> HIDE DEF g
  <2>5. g[0] = <<>>
    BY <2>1, <2>g
  <2>6. \A i \in 1 .. k + 1 : g[i] = ss[i] \o g[i - 1]
    <3> TAKE i \in 1 .. k + 1
    <3>1. CASE i \in 1 .. k
      <4>1. i - 1 \in 0 .. k /\ i \in 0 .. k
        BY <2>g, <3>1
      <4>2. g[i] = f[i] /\ g[i - 1] = f[i - 1] /\ f[i] = ss[i] \o f[i - 1]
        BY <2>1, <2>g, <3>1, <4>1
      <4>. QED  BY <4>2
    <3>2. CASE i = k + 1
      <4>1. g[i] = x /\ g[i - 1] = f[k] /\ i = k + 1
        BY <2>g, <3>2
      <4>. QED  BY <2>2, <4>1
    <3>3. i \in 1 .. k \/ i = k + 1
      BY <2>g
    <3>. QED  BY <3>1, <3>2, <3>3
  <2>7. k + 1 \in 0 .. n
    BY <1>0
  <2>. QED  BY <2>4, <2>5, <2>6, <2>7
<1>3. n \in K
  <2> HIDE DEF K
  <2>1. \A i \in 0 .. n : i \in K
    BY <1>0, <1>1, <1>2, HoldsUpTo
  <2>. QED  BY <1>0, <2>1
<1>. QED  BY <1>3 DEF Stacks

LEMMA StackIs ==
  ASSUME NEW S, NEW ss \in Seq(Seq(S)), NEW f, Stacks(f, ss)
  PROVE  FromLast(ss) = f[Len(ss)]
<1>1. PICK n : n = Len(ss)
  OBVIOUS
<1>2. n \in Nat
  BY <1>1
<1>3. PICK K : K = CHOOSE g : g = [i \in 0 .. n |-> IF i = 0 THEN <<>> ELSE ss[i] \o g[i - 1]]
  OBVIOUS
<1>4. PICK h : h = [i \in 0 .. n |-> f[i]]
  OBVIOUS
<1>5. \A i \in 0 .. n : h[i] = IF i = 0 THEN <<>> ELSE ss[i] \o h[i - 1]
  <2> TAKE i \in 0 .. n
  <2>1. CASE i = 0
    BY <1>2, <1>4, <2>1 DEF Stacks
  <2>2. CASE i # 0
    <3>1. i \in 1 .. n /\ i - 1 \in 0 .. n
      BY <1>2, <2>2
    <3>2. f[i] = ss[i] \o f[i - 1]
      BY <1>1, <3>1 DEF Stacks
    <3>3. h[i] = f[i] /\ h[i - 1] = f[i - 1]
      BY <1>4, <3>1
    <3>. QED  BY <2>2, <3>2, <3>3
  <2>. QED  BY <2>1, <2>2
<1>6. h = [i \in 0 .. n |-> IF i = 0 THEN <<>> ELSE ss[i] \o h[i - 1]]
  BY <1>4, <1>5
<1>7. K = [i \in 0 .. n |-> IF i = 0 THEN <<>> ELSE ss[i] \o K[i - 1]]
  BY <1>3, <1>6
<1>8. \A i \in 0 .. n : K[i] = IF i = 0 THEN <<>> ELSE ss[i] \o K[i - 1]
  BY <1>7
<1>9. PICK A : A = {i \in 0 .. n : K[i] = h[i]}
  OBVIOUS
<1>10. 0 \in A
  <2>1. 0 \in 0 .. n
    BY <1>2
  <2>2. K[0] = <<>> /\ h[0] = <<>>
    BY <1>5, <1>8, <2>1
  <2>. QED  BY <1>9, <2>1, <2>2
<1>11. ASSUME NEW i \in 0 .. n - 1, i \in A PROVE i + 1 \in A
  <2>1. i + 1 \in 0 .. n /\ i + 1 # 0 /\ i + 1 - 1 = i
    BY <1>2
  <2>0. PICK j : j = i + 1
    OBVIOUS
  <2>2. K[j] = ss[j] \o K[j - 1] /\ h[j] = ss[j] \o h[j - 1]
    BY <1>5, <1>8, <2>0, <2>1
  <2>3. K[i] = h[i]
    BY <1>9, <1>11
  <2>4. j - 1 = i
    BY <2>0, <2>1
  <2>. QED  BY <1>9, <2>0, <2>1, <2>2, <2>3, <2>4
<1>12. \A i \in 0 .. n : i \in A
  BY <1>2, <1>10, <1>11, HoldsUpTo
<1>13. n \in 0 .. n
  BY <1>2
<1>14. K[n] = f[n]
  BY <1>4, <1>9, <1>12, <1>13
<1>15. FromLast(ss) = K[n]
  BY <1>1, <1>3 DEF FromLast
<1>. QED  BY <1>1, <1>14, <1>15

(* The last list comes first.                                              *)
LEMMA StackAppend ==
  ASSUME NEW S, NEW ss \in Seq(Seq(S)), NEW s \in Seq(S)
  PROVE  FromLast(Append(ss, s)) = s \o FromLast(ss)
<1>1. PICK u, n : u = Append(ss, s) /\ n = Len(ss)
  OBVIOUS
<1>2. /\ u \in Seq(Seq(S)) /\ Len(u) = n + 1 /\ u[n + 1] = s
      /\ \A i \in 1 .. n : u[i] = ss[i]
  BY <1>1, AppendProperties
<1>3. n \in Nat
  BY <1>1
<1>4. PICK f \in [0 .. Len(u) -> Seq(S)] : Stacks(f, u)
  BY <1>2, StackRuns
<1>5. PICK e : e = [i \in 0 .. n |-> f[i]]
  OBVIOUS
<1>6. Stacks(e, ss)
  <2>1. DOMAIN e = 0 .. Len(ss) /\ e[0] = <<>>
    BY <1>1, <1>3, <1>4, <1>5 DEF Stacks
  <2>2. ASSUME NEW i \in 1 .. Len(ss) PROVE e[i] = ss[i] \o e[i - 1]
    <3>1. i \in 0 .. n /\ i - 1 \in 0 .. n /\ i \in 1 .. n /\ i \in 1 .. n + 1
      BY <1>1, <1>3
    <3>2. f[i] = u[i] \o f[i - 1]
      BY <1>2, <1>4, <3>1 DEF Stacks
    <3>3. u[i] = ss[i]
      BY <1>2, <3>1
    <3>4. e[i] = f[i] /\ e[i - 1] = f[i - 1]
      BY <1>5, <3>1
    <3>. QED  BY <3>2, <3>3, <3>4
  <2>. QED  BY <2>1, <2>2 DEF Stacks
<1>7. FromLast(ss) = e[n]
  BY <1>1, <1>6, StackIs
<1>8. FromLast(u) = f[n + 1]
  BY <1>2, <1>4, StackIs
<1>12. PICK k : k = n + 1
  OBVIOUS
<1>9. k \in 1 .. Len(u) /\ k - 1 = n
  BY <1>2, <1>3, <1>12
<1>10. f[k] = u[k] \o f[k - 1]
  BY <1>4, <1>9 DEF Stacks
<1>11. e[n] = f[n]
  BY <1>3, <1>5
<1>. QED  BY <1>1, <1>2, <1>7, <1>8, <1>9, <1>10, <1>11, <1>12

LEMMA StackType ==
  ASSUME NEW S, NEW ss \in Seq(Seq(S))
  PROVE  FromLast(ss) \in Seq(S)
<1>1. PICK f \in [0 .. Len(ss) -> Seq(S)] : Stacks(f, ss)
  BY StackRuns
<1>2. FromLast(ss) = f[Len(ss)]
  BY <1>1, StackIs
<1>3. Len(ss) \in 0 .. Len(ss)
  OBVIOUS
<1>. QED  BY <1>2, <1>3

LEMMA StackEmpty ==
  FromLast(<<>>) = <<>>
<1>1. Len(<<>>) = 0 /\ <<>> \in Seq(Seq({}))
  BY EmptySeq
<1>2. PICK f \in [0 .. Len(<<>>) -> Seq({})] : Stacks(f, <<>>)
  BY <1>1, StackRuns
<1>3. FromLast(<<>>) = f[Len(<<>>)]
  BY <1>1, <1>2, StackIs
<1>. QED  BY <1>1, <1>2, <1>3 DEF Stacks

--------------------------------------------------------------------------------
(* Trees by their height: leaves, and nodes over trees one lower.          *)
Raws == {Raw(bytes) : bytes \in Seq(Nat)}
Stems(S, d) == {Stem(links) : links \in {l \in Seq(S) : Len(l) <= d}}

IsGraded(T, n, d) ==
  /\ DOMAIN T = 0 .. n
  /\ \A k \in 0 .. n : T[k] = IF k = 0 THEN Raws ELSE Stems(T[k - 1], d)

Grade(n, d) == (CHOOSE T : IsGraded(T, n, d))[n]
UpToGrade(n, d) == UNION {Grade(k, d) : k \in 0 .. n}

LEMMA GradedExists ==
  ASSUME NEW n \in Nat, NEW d
  PROVE  \E T : IsGraded(T, n, d)
<1> DEFINE A == {k \in 0 .. n : \E T : IsGraded(T, k, d)}
<1>1. 0 \in A
  <2>1. PICK T : T = [k \in 0 .. 0 |-> Raws]
    OBVIOUS
  <2>2. IsGraded(T, 0, d)
    BY <2>1 DEF IsGraded
  <2>3. 0 \in 0 .. n
    OBVIOUS
  <2>. QED  BY <2>2, <2>3
<1>2. ASSUME NEW k \in 0 .. n - 1, k \in A PROVE k + 1 \in A
  <2>1. PICK T : IsGraded(T, k, d)
    BY <1>2
  <2>2. PICK j : j = k + 1
    OBVIOUS
  <2>3. k \in Nat /\ j \in Nat \ {0} /\ j - 1 = k /\ j \in 0 .. n
    BY <2>2
  <2>4. PICK U : U = [i \in 0 .. j |-> IF i = j THEN Stems(T[k], d) ELSE T[i]]
    OBVIOUS
  <2>5. \A i \in 0 .. k : U[i] = T[i]
    <3>1. \A i \in 0 .. k : i \in 0 .. j /\ i # j
      BY <2>2, <2>3
    <3>. QED  BY <2>4, <3>1
  <2>6. U[j] = Stems(T[k], d)
    BY <2>3, <2>4
  <2>7. IsGraded(U, j, d)
    <3>1. ASSUME NEW i \in 0 .. j
          PROVE  U[i] = IF i = 0 THEN Raws ELSE Stems(U[i - 1], d)
      <4>1. CASE i = j
        <5>1. U[i - 1] = T[k] /\ i # 0
          BY <2>3, <2>5, <4>1
        <5>. QED  BY <2>6, <4>1, <5>1
      <4>2. CASE i = 0
        <5>1. U[i] = T[i] /\ T[i] = Raws
          BY <2>1, <2>3, <2>5, <4>2 DEF IsGraded
        <5>. QED  BY <4>2, <5>1
      <4>3. CASE i # j /\ i # 0
        <5>1. i \in 0 .. k /\ i - 1 \in 0 .. k
          BY <2>2, <2>3, <4>3
        <5>2. T[i] = Stems(T[i - 1], d)
          BY <2>1, <4>3, <5>1 DEF IsGraded
        <5>3. U[i] = T[i] /\ U[i - 1] = T[i - 1]
          BY <2>5, <5>1
        <5>. QED  BY <4>3, <5>2, <5>3
      <4>. QED  BY <4>1, <4>2, <4>3
    <3>2. DOMAIN U = 0 .. j
      BY <2>4
    <3>. QED  BY <3>1, <3>2 DEF IsGraded
  <2>. QED  BY <2>2, <2>3, <2>7
<1> HIDE DEF A
<1>3. \A k \in 0 .. n : k \in A
  BY <1>1, <1>2, HoldsUpTo
<1>4. n \in A
  BY <1>3
<1>. QED  BY <1>4 DEF A

LEMMA GradedIs ==
  ASSUME NEW n \in Nat, NEW d, NEW T, IsGraded(T, n, d), NEW m \in 0 .. n
  PROVE  T[m] = Grade(m, d)
<1>0. m \in Nat
  OBVIOUS
<1>1. PICK U : U = CHOOSE t : IsGraded(t, m, d)
  OBVIOUS
<1>2. IsGraded(U, m, d)
  BY <1>0, <1>1, GradedExists
<1>3. PICK A : A = {k \in 0 .. m : T[k] = U[k]}
  OBVIOUS
<1>4. 0 \in A
  <2>1. 0 \in 0 .. m /\ 0 \in 0 .. n
    BY <1>0
  <2>2. T[0] = Raws /\ U[0] = Raws
    BY <1>2, <2>1 DEF IsGraded
  <2>. QED  BY <1>3, <2>1, <2>2
<1>5. ASSUME NEW k \in 0 .. m - 1, k \in A PROVE k + 1 \in A
  <2>1. PICK j : j = k + 1
    OBVIOUS
  <2>2. j \in 0 .. m /\ j \in 0 .. n /\ j # 0 /\ j - 1 = k
    BY <1>0, <2>1
  <2>3. T[j] = Stems(T[j - 1], d) /\ U[j] = Stems(U[j - 1], d)
    BY <1>2, <2>2 DEF IsGraded
  <2>4. T[k] = U[k]
    BY <1>3, <1>5
  <2>. QED  BY <1>3, <2>1, <2>2, <2>3, <2>4
<1>6. \A k \in 0 .. m : k \in A
  BY <1>0, <1>4, <1>5, HoldsUpTo
<1>7. m \in A
  BY <1>0, <1>6
<1>8. T[m] = U[m]
  BY <1>3, <1>7
<1>. QED  BY <1>1, <1>8 DEF Grade

LEMMA GradeIs ==
  ASSUME NEW n \in Nat, NEW d
  PROVE  /\ Grade(0, d) = Raws
         /\ Grade(n + 1, d) = Stems(Grade(n, d), d)
<1>1. PICK j : j = n + 1
  OBVIOUS
<1>2. j \in Nat /\ j # 0 /\ j - 1 = n /\ 0 \in 0 .. j /\ j \in 0 .. j /\ n \in 0 .. j
  BY <1>1
<1>3. PICK T : IsGraded(T, j, d)
  BY <1>2, GradedExists
<1>4. T[0] = Raws /\ T[j] = Stems(T[j - 1], d)
  BY <1>2, <1>3 DEF IsGraded
<1>5. T[0] = Grade(0, d)
  BY <1>2, <1>3, GradedIs
<1>6. T[j] = Grade(j, d)
  BY <1>2, <1>3, GradedIs
<1>7. T[n] = Grade(n, d)
  BY <1>2, <1>3, GradedIs
<1>. QED  BY <1>1, <1>2, <1>4, <1>5, <1>6, <1>7

(* What a tree is made of.                                                 *)
LEMMA TreeIs ==
  ASSUME NEW n \in Nat, NEW d, NEW x \in Grade(n, d)
  PROVE  \/ /\ n = 0 /\ x.type = "raw" /\ x.data \in Seq(Nat)
            /\ x = Raw(x.data) /\ x.filesize = Len(x.data)
         \/ /\ n # 0 /\ x.type = "node" /\ x.links \in Seq(Grade(n - 1, d))
            /\ Len(x.links) <= d /\ x = Stem(x.links)
<1>1. CASE n = 0
  <2>1. x \in Raws
    BY <1>1, GradeIs
  <2>2. PICK bytes \in Seq(Nat) : x = Raw(bytes)
    BY <2>1 DEF Raws
  <2>. QED  BY <1>1, <2>2 DEF Raw
<1>2. CASE n # 0
  <2>1. PICK k \in Nat : n = k + 1 /\ k = n - 1
    BY <1>2
  <2>2. x \in Stems(Grade(k, d), d)
    BY <2>1, GradeIs
  <2>3. PICK l \in Seq(Grade(k, d)) : Len(l) <= d /\ x = Stem(l)
    BY <2>2 DEF Stems
  <2>4. x.links = l /\ x.type = "node"
    BY <2>3 DEF Stem
  <2>. QED  BY <1>2, <2>1, <2>3, <2>4
<1>. QED  BY <1>1, <1>2

LEMMA StemIsTree ==
  ASSUME NEW n \in Nat, NEW d, NEW l \in Seq(Grade(n, d)), Len(l) <= d
  PROVE  Stem(l) \in Grade(n + 1, d)
<1>1. Stem(l) \in Stems(Grade(n, d), d)
  BY DEF Stems
<1>. QED  BY <1>1, GradeIs

LEMMA RawIsTree ==
  ASSUME NEW d, NEW bytes \in Seq(Nat)
  PROVE  Raw(bytes) \in Grade(0, d)
<1>1. Raw(bytes) \in Raws
  BY DEF Raws
<1>2. 0 \in Nat
  OBVIOUS
<1>. QED  BY <1>1, <1>2, GradeIs

LEMMA GradeUpTo ==
  ASSUME NEW n \in Nat, NEW d, NEW k \in 0 .. n
  PROVE  /\ Grade(k, d) \subseteq UpToGrade(n, d)
         /\ \A l : l \in Seq(Grade(k, d)) => l \in Seq(UpToGrade(n, d))
         /\ UpToGrade(k, d) \subseteq UpToGrade(n, d)
         /\ \A l : l \in Seq(UpToGrade(k, d)) => l \in Seq(UpToGrade(n, d))
<1>1. Grade(k, d) \subseteq UpToGrade(n, d)
  BY DEF UpToGrade
<1>2. UpToGrade(k, d) \subseteq UpToGrade(n, d)
  <2>1. \A i \in 0 .. k : i \in 0 .. n
    OBVIOUS
  <2>. QED  BY <2>1 DEF UpToGrade
<1>. QED  BY <1>1, <1>2, SeqMonotonic

LEMMA UpToGradeIs ==
  ASSUME NEW n \in Nat, NEW d, NEW x \in UpToGrade(n, d)
  PROVE  \E k \in 0 .. n : x \in Grade(k, d)
BY DEF UpToGrade

--------------------------------------------------------------------------------
(* One level down.                                                         *)
Groups(nodes) ==
  [i \in DOMAIN nodes |-> IF nodes[i].type = "raw" THEN <<nodes[i]>> ELSE nodes[i].links]

LEMMA GroupsType ==
  ASSUME NEW n \in Nat, NEW d, NEW s \in Seq(UpToGrade(n, d))
  PROVE  Groups(s) \in Seq(Seq(UpToGrade(n, d))) /\ Len(Groups(s)) = Len(s)
<1>1. PICK m, U : m = Len(s) /\ U = UpToGrade(n, d)
  OBVIOUS
<1>2. m \in Nat /\ DOMAIN s = 1 .. m
  BY <1>1, LenProperties
<1>3. ASSUME NEW i \in 1 .. m
      PROVE  (IF s[i].type = "raw" THEN <<s[i]>> ELSE s[i].links) \in Seq(U)
  <2>1. s[i] \in U
    BY <1>1, ElementOfSeq
  <2>2. PICK k \in 0 .. n : s[i] \in Grade(k, d)
    BY <1>1, <2>1, UpToGradeIs
  <2>3. CASE s[i].type = "raw"
    <3>1. <<s[i]>> \in Seq(U)
      BY <2>1
    <3>. QED  BY <2>3, <3>1
  <2>4. CASE s[i].type # "raw"
    <3>1. k \in Nat
      OBVIOUS
    <3>2. k # 0 /\ s[i].links \in Seq(Grade(k - 1, d))
      BY <2>2, <2>4, <3>1, TreeIs
    <3>3. PICK j \in 0 .. n : j = k - 1
      BY <3>1, <3>2
    <3>4. s[i].links \in Seq(U)
      BY <1>1, <3>2, <3>3, GradeUpTo
    <3>. QED  BY <2>4, <3>4
  <2>. QED  BY <2>3, <2>4
<1>4. Groups(s) \in [1 .. m -> Seq(U)]
  BY <1>2, <1>3 DEF Groups
<1>. QED  BY <1>1, <1>2, <1>4, FunctionIsSeq

LEMMA OpenedIs ==
  ASSUME NEW nodes
  PROVE  Opened(nodes) = FlattenSeq(Groups(nodes))
BY DEF Opened, Groups

(* Members of a flattened sequence are members of its parts.               *)
LEMMA OpenedType ==
  ASSUME NEW n \in Nat, NEW d, NEW s \in Seq(UpToGrade(n, d))
  PROVE  Opened(s) \in Seq(UpToGrade(n, d))
<1>1. Groups(s) \in Seq(Seq(UpToGrade(n, d)))
  BY GroupsType
<1>. QED  BY <1>1, FlattenType, OpenedIs

LEMMA OpenedLower ==
  ASSUME NEW n \in Nat, NEW d, NEW s \in Seq(UpToGrade(n + 1, d))
  PROVE  Opened(s) \in Seq(UpToGrade(n, d))
<1>1. PICK m, U, N : m = Len(s) /\ U = UpToGrade(n, d) /\ N = n + 1
  OBVIOUS
<1>2. m \in Nat /\ DOMAIN s = 1 .. m /\ N \in Nat /\ s \in Seq(UpToGrade(N, d))
  BY <1>1, LenProperties
<1>3. ASSUME NEW i \in 1 .. m
      PROVE  (IF s[i].type = "raw" THEN <<s[i]>> ELSE s[i].links) \in Seq(U)
  <2>1. s[i] \in UpToGrade(N, d)
    BY <1>1, <1>2, ElementOfSeq
  <2>2. PICK k \in 0 .. N : s[i] \in Grade(k, d)
    BY <1>2, <2>1, UpToGradeIs
  <2>3. k \in Nat
    BY <1>2
  <2>4. CASE k = 0
    <3>1. s[i].type = "raw"
      BY <2>2, <2>3, <2>4, TreeIs
    <3>2. s[i] \in U
      BY <1>1, <2>2, <2>4, GradeUpTo
    <3>3. <<s[i]>> \in Seq(U)
      BY <3>2
    <3>. QED  BY <3>1, <3>3
  <2>5. CASE k # 0
    <3>1. s[i].type = "node" /\ s[i].links \in Seq(Grade(k - 1, d))
      BY <2>2, <2>3, <2>5, TreeIs
    <3>2. PICK j \in 0 .. n : j = k - 1
      BY <1>1, <2>3, <2>5
    <3>3. s[i].links \in Seq(U)
      BY <1>1, <3>1, <3>2, GradeUpTo
    <3>. QED  BY <3>1, <3>3
  <2>. QED  BY <2>4, <2>5
<1>4. Groups(s) \in [1 .. m -> Seq(U)]
  BY <1>2, <1>3 DEF Groups
<1>5. Groups(s) \in Seq(Seq(U))
  BY <1>2, <1>4, FunctionIsSeq
<1>6. FlattenSeq(Groups(s)) \in Seq(U)
  BY <1>5, FlattenType
<1>. QED  BY <1>1, <1>6, OpenedIs

LEMMA OpenedGrade ==
  ASSUME NEW n \in Nat, NEW d, NEW s \in Seq(Grade(n + 1, d))
  PROVE  Opened(s) \in Seq(Grade(n, d))
<1>1. PICK m, U, N : m = Len(s) /\ U = Grade(n, d) /\ N = n + 1
  OBVIOUS
<1>2. m \in Nat /\ DOMAIN s = 1 .. m /\ N \in Nat /\ N # 0 /\ N - 1 = n
  BY <1>1, LenProperties
<1>3. ASSUME NEW i \in 1 .. m
      PROVE  (IF s[i].type = "raw" THEN <<s[i]>> ELSE s[i].links) \in Seq(U)
  <2>1. s[i] \in Grade(N, d)
    BY <1>1, ElementOfSeq
  <2>2. s[i].type = "node" /\ s[i].links \in Seq(Grade(N - 1, d))
    BY <1>2, <2>1, TreeIs
  <2>. QED  BY <1>1, <1>2, <2>2
<1>4. Groups(s) \in [1 .. m -> Seq(U)]
  BY <1>2, <1>3 DEF Groups
<1>5. Groups(s) \in Seq(Seq(U))
  BY <1>2, <1>4, FunctionIsSeq
<1>6. FlattenSeq(Groups(s)) \in Seq(U)
  BY <1>5, FlattenType
<1>. QED  BY <1>1, <1>6, OpenedIs

(* Leaves stay where they are.                                             *)
LEMMA OpenedLeaves ==
  ASSUME NEW d, NEW s \in Seq(Grade(0, d))
  PROVE  Opened(s) = s
<1>1. PICK m, U : m = Len(s) /\ U = Grade(0, d)
  OBVIOUS
<1>2. m \in Nat /\ DOMAIN s = 1 .. m
  BY <1>1, LenProperties
<1>3. ASSUME NEW i \in 1 .. m PROVE s[i] \in U /\ s[i].type = "raw"
  <2>1. s[i] \in U
    BY <1>1, ElementOfSeq
  <2>2. 0 \in Nat
    OBVIOUS
  <2>. QED  BY <1>1, <2>1, <2>2, TreeIs
<1>4. PICK g : g = Groups(s)
  OBVIOUS
<1>5. \A i \in 1 .. m : g[i] = <<s[i]>>
  BY <1>2, <1>3, <1>4 DEF Groups
<1>6. g \in Seq(Seq(U)) /\ Len(g) = m
  <2>1. ASSUME NEW i \in 1 .. m PROVE g[i] \in Seq(U)
    <3>1. <<s[i]>> \in Seq(U)
      BY <1>3
    <3>. QED  BY <1>5, <3>1
  <2>2. DOMAIN g = 1 .. m /\ g = [i \in DOMAIN g |-> g[i]]
    BY <1>2, <1>4 DEF Groups
  <2>3. g \in [1 .. m -> Seq(U)]
    BY <2>1, <2>2
  <2>. QED  BY <1>2, <2>3, FunctionIsSeq
<1>7. PICK f : f = [i \in 0 .. m |-> SubSeq(s, 1, i)]
  OBVIOUS
<1>8. Flattens(f, g)
  <2>1. DOMAIN f = 0 .. Len(g)
    BY <1>6, <1>7
  <2>2. f[0] = <<>>
    <3>1. SubSeq(s, 1, 0) = <<>>
      BY SubSeqEmpty
    <3>2. 0 \in 0 .. m
      BY <1>2
    <3>. QED  BY <1>7, <3>1, <3>2
  <2>3. ASSUME NEW i \in 1 .. Len(g) PROVE f[i] = f[i - 1] \o g[i]
    <3>1. i \in 1 .. m /\ i \in 0 .. m /\ i - 1 \in 0 .. m /\ i \in 1 .. Len(s)
      BY <1>1, <1>2, <1>6
    <3>2. f[i] = SubSeq(s, 1, i) /\ f[i - 1] = SubSeq(s, 1, i - 1)
      BY <1>7, <3>1
    <3>3. SubSeq(s, 1, i) = Append(SubSeq(s, 1, i - 1), s[i]) /\ SubSeq(s, 1, i - 1) \in Seq(U)
      BY <1>1, <3>1, SubSeqStep
    <3>4. Append(SubSeq(s, 1, i - 1), s[i]) = SubSeq(s, 1, i - 1) \o <<s[i]>>
      BY <1>3, <3>1, <3>3, AppendIsConcat
    <3>. QED  BY <1>5, <3>1, <3>2, <3>3, <3>4
  <2>. QED  BY <2>1, <2>2, <2>3 DEF Flattens
<1>9. FlattenSeq(g) = f[m]
  BY <1>6, <1>8, FlattenIs
<1>10. f[m] = s
  <2>1. SubSeq(s, 1, Len(s)) = s
    BY SubSeqFull
  <2>2. m \in 0 .. m
    BY <1>2
  <2>. QED  BY <1>1, <1>7, <2>1, <2>2
<1>. QED  BY <1>4, <1>9, <1>10, OpenedIs

LEMMA OpenedConcat ==
  ASSUME NEW n \in Nat, NEW d, NEW s \in Seq(UpToGrade(n, d)), NEW t \in Seq(UpToGrade(n, d))
  PROVE  Opened(s \o t) = Opened(s) \o Opened(t)
<1>1. PICK u, U, k, l : u = s \o t /\ U = UpToGrade(n, d) /\ k = Len(s) /\ l = Len(t)
  OBVIOUS
<1>2. /\ u \in Seq(U) /\ Len(u) = k + l /\ k \in Nat /\ l \in Nat
      /\ \A i \in 1 .. k + l : u[i] = IF i <= k THEN s[i] ELSE t[i - k]
  BY <1>1, ConcatProperties
<1>3. PICK a, b, c : a = Groups(s) /\ b = Groups(t) /\ c = Groups(u)
  OBVIOUS
<1>4. /\ a \in Seq(Seq(U)) /\ Len(a) = k
      /\ b \in Seq(Seq(U)) /\ Len(b) = l
      /\ c \in Seq(Seq(U)) /\ Len(c) = k + l
  <2>1. a \in Seq(Seq(U)) /\ Len(a) = k
    BY <1>1, <1>3, GroupsType
  <2>2. b \in Seq(Seq(U)) /\ Len(b) = l
    BY <1>1, <1>3, GroupsType
  <2>3. c \in Seq(Seq(U)) /\ Len(c) = k + l
    BY <1>1, <1>2, <1>3, GroupsType
  <2>. QED  BY <2>1, <2>2, <2>3
<1>5. PICK e : e = a \o b
  OBVIOUS
<1>6. /\ e \in Seq(Seq(U)) /\ Len(e) = k + l
      /\ \A i \in 1 .. k + l : e[i] = IF i <= k THEN a[i] ELSE b[i - k]
  BY <1>4, <1>5, ConcatProperties
<1>7. ASSUME NEW i \in 1 .. k + l PROVE c[i] = e[i]
  <2>0. /\ DOMAIN s = 1 .. k /\ DOMAIN t = 1 .. l /\ DOMAIN u = 1 .. k + l
    BY <1>1, <1>2, LenProperties
  <2>1. CASE i <= k
    <3>1. i \in 1 .. k /\ u[i] = s[i] /\ e[i] = a[i]
      BY <1>2, <1>6, <2>1
    <3>. QED  BY <1>3, <2>0, <3>1 DEF Groups
  <2>2. CASE ~(i <= k)
    <3>1. PICK j : j = i - k
      OBVIOUS
    <3>2. j \in 1 .. l /\ u[i] = t[j] /\ e[i] = b[j]
      BY <1>2, <1>6, <2>2, <3>1
    <3>. QED  BY <1>3, <2>0, <3>2 DEF Groups
  <2>. QED  BY <2>1, <2>2
<1>8. c = e
  BY <1>4, <1>6, <1>7, SeqEqual
<1>9. FlattenSeq(e) = FlattenSeq(a) \o FlattenSeq(b)
  BY <1>4, <1>5, FlattenConcat
<1>. QED  BY <1>1, <1>3, <1>8, <1>9, OpenedIs

LEMMA OpenedStem ==
  ASSUME NEW n \in Nat, NEW d, NEW l \in Seq(UpToGrade(n, d))
  PROVE  Opened(<<Stem(l)>>) = l
<1>1. PICK s : s = <<Stem(l)>>
  OBVIOUS
<1>2. DOMAIN s = {1} /\ s[1] = Stem(l)
  BY <1>1
<1>3. Stem(l).type = "node" /\ Stem(l).links = l
  BY DEF Stem
<1>4. Groups(s) = [i \in {1} |-> l]
  BY <1>2, <1>3 DEF Groups
<1>5. [i \in {1} |-> l] = <<l>>
  OBVIOUS
<1>6. FlattenSeq(<<l>>) = l
  BY FlattenOne
<1>. QED  BY <1>1, <1>4, <1>5, <1>6, OpenedIs

LEMMA OpenedEmpty ==
  Opened(<<>>) = <<>>
<1>1. Groups(<<>>) = <<>>
  BY DEF Groups
<1>. QED  BY <1>1, FlattenEmpty, OpenedIs

--------------------------------------------------------------------------------
(* Levels of trees, from the top down.                                     *)
Descends(f, s, n) ==
  /\ DOMAIN f = 0 .. n /\ f[0] = s
  /\ \A i \in 1 .. n : f[i] = Opened(f[i - 1])

LEMMA DescendRuns ==
  ASSUME NEW s, NEW n \in Nat
  PROVE  \E f : Descends(f, s, n)
<1> DEFINE A == {k \in 0 .. n : \E f : Descends(f, s, k)}
<1>1. 0 \in A
  <2>1. PICK f : f = [k \in 0 .. 0 |-> s]
    OBVIOUS
  <2>2. Descends(f, s, 0)
    BY <2>1 DEF Descends
  <2>3. 0 \in 0 .. n
    OBVIOUS
  <2>. QED  BY <2>2, <2>3
<1>2. ASSUME NEW k \in 0 .. n - 1, k \in A PROVE k + 1 \in A
  <2>1. PICK f : Descends(f, s, k)
    BY <1>2
  <2>2. PICK j : j = k + 1
    OBVIOUS
  <2>3. k \in Nat /\ j \in Nat \ {0} /\ j - 1 = k /\ j \in 0 .. n
    BY <2>2
  <2>4. PICK g : g = [i \in 0 .. j |-> IF i = j THEN Opened(f[k]) ELSE f[i]]
    OBVIOUS
  <2>5. \A i \in 0 .. k : g[i] = f[i]
    <3>1. \A i \in 0 .. k : i \in 0 .. j /\ i # j
      BY <2>2, <2>3
    <3>. QED  BY <2>4, <3>1
  <2>6. g[j] = Opened(f[k])
    BY <2>3, <2>4
  <2>7. Descends(g, s, j)
    <3>1. ASSUME NEW i \in 1 .. j PROVE g[i] = Opened(g[i - 1])
      <4>1. CASE i = j
        <5>1. g[i - 1] = f[k]
          BY <2>3, <2>5, <4>1
        <5>. QED  BY <2>6, <4>1, <5>1
      <4>2. CASE i # j
        <5>1. i \in 1 .. k /\ i \in 0 .. k /\ i - 1 \in 0 .. k
          BY <2>2, <2>3, <4>2
        <5>2. f[i] = Opened(f[i - 1])
          BY <2>1, <5>1 DEF Descends
        <5>3. g[i] = f[i] /\ g[i - 1] = f[i - 1]
          BY <2>5, <5>1
        <5>. QED  BY <5>2, <5>3
      <4>. QED  BY <4>1, <4>2
    <3>2. DOMAIN g = 0 .. j
      BY <2>4
    <3>3. g[0] = s
      <4>1. 0 \in 0 .. k
        BY <2>3
      <4>. QED  BY <2>1, <2>5, <4>1 DEF Descends
    <3>. QED  BY <3>1, <3>2, <3>3 DEF Descends
  <2>. QED  BY <2>2, <2>3, <2>7
<1> HIDE DEF A
<1>3. \A k \in 0 .. n : k \in A
  BY <1>1, <1>2, HoldsUpTo
<1>4. n \in A
  BY <1>3
<1>. QED  BY <1>4 DEF A

LEMMA DescendIs ==
  ASSUME NEW s, NEW n \in Nat, NEW f, Descends(f, s, n), NEW m \in 0 .. n
  PROVE  Below(s, m) = f[m]
<1>1. m \in Nat
  OBVIOUS
<1>2. PICK K : K = CHOOSE g : g = [i \in 0 .. m |-> IF i = 0 THEN s ELSE Opened(g[i - 1])]
  OBVIOUS
<1>3. PICK h : h = [i \in 0 .. m |-> f[i]]
  OBVIOUS
<1>4. \A i \in 0 .. m : h[i] = IF i = 0 THEN s ELSE Opened(h[i - 1])
  <2> TAKE i \in 0 .. m
  <2>1. CASE i = 0
    BY <1>1, <1>3, <2>1 DEF Descends
  <2>2. CASE i # 0
    <3>1. i \in 1 .. n /\ i - 1 \in 0 .. m
      BY <1>1, <2>2
    <3>2. f[i] = Opened(f[i - 1])
      BY <3>1 DEF Descends
    <3>3. h[i] = f[i] /\ h[i - 1] = f[i - 1]
      BY <1>3, <3>1
    <3>. QED  BY <2>2, <3>2, <3>3
  <2>. QED  BY <2>1, <2>2
<1>5. h = [i \in 0 .. m |-> IF i = 0 THEN s ELSE Opened(h[i - 1])]
  BY <1>3, <1>4
<1>6. K = [i \in 0 .. m |-> IF i = 0 THEN s ELSE Opened(K[i - 1])]
  BY <1>2, <1>5
<1>7. \A i \in 0 .. m : K[i] = IF i = 0 THEN s ELSE Opened(K[i - 1])
  BY <1>6
<1>8. PICK A : A = {i \in 0 .. m : K[i] = h[i]}
  OBVIOUS
<1>9. 0 \in A
  <2>1. 0 \in 0 .. m
    BY <1>1
  <2>2. K[0] = s /\ h[0] = s
    BY <1>4, <1>7, <2>1
  <2>. QED  BY <1>8, <2>1, <2>2
<1>10. ASSUME NEW i \in 0 .. m - 1, i \in A PROVE i + 1 \in A
  <2>0. PICK j : j = i + 1
    OBVIOUS
  <2>1. j \in 0 .. m /\ j # 0 /\ j - 1 = i
    BY <1>1, <2>0
  <2>2. K[j] = Opened(K[j - 1]) /\ h[j] = Opened(h[j - 1])
    BY <1>4, <1>7, <2>1
  <2>3. K[i] = h[i]
    BY <1>8, <1>10
  <2>. QED  BY <1>8, <2>0, <2>1, <2>2, <2>3
<1>11. \A i \in 0 .. m : i \in A
  BY <1>1, <1>9, <1>10, HoldsUpTo
<1>12. m \in 0 .. m
  BY <1>1
<1>13. K[m] = f[m]
  BY <1>3, <1>8, <1>11, <1>12
<1>. QED  BY <1>2, <1>13 DEF Below

LEMMA BelowStep ==
  ASSUME NEW s, NEW n \in Nat
  PROVE  Below(s, 0) = s /\ Below(s, n + 1) = Opened(Below(s, n))
<1>1. PICK j : j = n + 1
  OBVIOUS
<1>2. j \in Nat /\ j - 1 = n /\ 0 \in 0 .. j /\ j \in 0 .. j /\ n \in 0 .. j /\ j \in 1 .. j
  BY <1>1
<1>3. PICK f : Descends(f, s, j)
  BY <1>2, DescendRuns
<1>4. f[0] = s /\ f[j] = Opened(f[j - 1])
  BY <1>2, <1>3 DEF Descends
<1>5. Below(s, 0) = f[0]
  BY <1>2, <1>3, DescendIs
<1>6. Below(s, j) = f[j]
  BY <1>2, <1>3, DescendIs
<1>7. Below(s, n) = f[n]
  BY <1>2, <1>3, DescendIs
<1>. QED  BY <1>1, <1>2, <1>4, <1>5, <1>6, <1>7

(* Going down from one level down.                                         *)
LEMMA BelowShift ==
  ASSUME NEW s, NEW n \in Nat
  PROVE  Below(s, n + 1) = Below(Opened(s), n)
<1>1. PICK A, t : t = Opened(s) /\ A = {k \in 0 .. n : Below(s, k + 1) = Below(t, k)}
  OBVIOUS
<1>2. 0 \in A
  <2>1. 0 \in Nat /\ 0 \in 0 .. n /\ 0 + 1 = 1
    OBVIOUS
  <2>2. Below(s, 0 + 1) = Opened(Below(s, 0)) /\ Below(s, 0) = s
    BY <2>1, BelowStep
  <2>3. Below(t, 0) = t
    BY <2>1, BelowStep
  <2>. QED  BY <1>1, <2>1, <2>2, <2>3
<1>3. ASSUME NEW k \in 0 .. n - 1, k \in A PROVE k + 1 \in A
  <2>1. PICK j : j = k + 1
    OBVIOUS
  <2>2. k \in Nat /\ j \in Nat /\ j \in 0 .. n
    BY <2>1
  <2>3. Below(s, j + 1) = Opened(Below(s, j))
    BY <2>2, BelowStep
  <2>4. Below(t, k + 1) = Opened(Below(t, k))
    BY <2>2, BelowStep
  <2>5. Below(s, k + 1) = Below(t, k)
    BY <1>1, <1>3
  <2>. QED  BY <1>1, <2>1, <2>2, <2>3, <2>4, <2>5
<1>4. \A k \in 0 .. n : k \in A
  BY <1>2, <1>3, HoldsUpTo
<1>5. n \in A
  BY <1>4
<1>. QED  BY <1>1, <1>5

LEMMA BelowType ==
  ASSUME NEW n \in Nat, NEW d, NEW s \in Seq(UpToGrade(n, d)), NEW m \in Nat
  PROVE  Below(s, m) \in Seq(UpToGrade(n, d))
<1>1. PICK A : A = {k \in 0 .. m : Below(s, k) \in Seq(UpToGrade(n, d))}
  OBVIOUS
<1>2. 0 \in A
  <2>1. 0 \in 0 .. m /\ 0 \in Nat
    OBVIOUS
  <2>. QED  BY <1>1, <2>1, BelowStep
<1>3. ASSUME NEW k \in 0 .. m - 1, k \in A PROVE k + 1 \in A
  <2>1. k \in Nat /\ k + 1 \in 0 .. m
    OBVIOUS
  <2>2. Below(s, k + 1) = Opened(Below(s, k))
    BY <2>1, BelowStep
  <2>3. Below(s, k) \in Seq(UpToGrade(n, d))
    BY <1>1, <1>3
  <2>4. Opened(Below(s, k)) \in Seq(UpToGrade(n, d))
    BY <2>3, OpenedType
  <2>. QED  BY <1>1, <2>1, <2>2, <2>4
<1>4. \A k \in 0 .. m : k \in A
  BY <1>2, <1>3, HoldsUpTo
<1>5. m \in A
  BY <1>4
<1>. QED  BY <1>1, <1>5

LEMMA BelowConcat ==
  ASSUME NEW n \in Nat, NEW d, NEW s \in Seq(UpToGrade(n, d)), NEW t \in Seq(UpToGrade(n, d)),
         NEW m \in Nat
  PROVE  Below(s \o t, m) = Below(s, m) \o Below(t, m)
<1>1. PICK A, u : u = s \o t /\ A = {k \in 0 .. m : Below(u, k) = Below(s, k) \o Below(t, k)}
  OBVIOUS
<1>2. 0 \in A
  <2>1. 0 \in 0 .. m /\ 0 \in Nat
    OBVIOUS
  <2>2. Below(s, 0) = s /\ Below(t, 0) = t /\ Below(u, 0) = u
    BY <2>1, BelowStep
  <2>. QED  BY <1>1, <2>1, <2>2
<1>3. ASSUME NEW k \in 0 .. m - 1, k \in A PROVE k + 1 \in A
  <2>1. PICK a, b : a = Below(s, k) /\ b = Below(t, k)
    OBVIOUS
  <2>2. k \in Nat /\ k + 1 \in 0 .. m
    OBVIOUS
  <2>3. a \in Seq(UpToGrade(n, d)) /\ b \in Seq(UpToGrade(n, d))
    BY <2>1, <2>2, BelowType
  <2>4. Opened(a \o b) = Opened(a) \o Opened(b)
    BY <2>3, OpenedConcat
  <2>5. Below(s, k + 1) = Opened(a) /\ Below(t, k + 1) = Opened(b)
    BY <2>1, <2>2, BelowStep
  <2>6. Below(u, k + 1) = Opened(Below(u, k))
    BY <2>2, BelowStep
  <2>7. Below(u, k) = a \o b
    BY <1>1, <1>3, <2>1
  <2>. QED  BY <1>1, <2>2, <2>4, <2>5, <2>6, <2>7
<1>4. \A k \in 0 .. m : k \in A
  BY <1>2, <1>3, HoldsUpTo
<1>5. m \in A
  BY <1>4
<1>. QED  BY <1>1, <1>5

(* Each level is one lower.                                                *)
LEMMA BelowGrade ==
  ASSUME NEW n \in Nat, NEW d, NEW s \in Seq(Grade(n, d)), NEW m \in 0 .. n
  PROVE  Below(s, m) \in Seq(Grade(n - m, d))
<1>0. m \in Nat
  OBVIOUS
<1>1. PICK A : A = {k \in 0 .. m : Below(s, k) \in Seq(Grade(n - k, d))}
  OBVIOUS
<1>2. 0 \in A
  <2>1. 0 \in 0 .. m /\ 0 \in Nat /\ n - 0 = n
    OBVIOUS
  <2>2. Below(s, 0) = s
    BY <2>1, BelowStep
  <2>. QED  BY <1>1, <2>1, <2>2
<1>3. ASSUME NEW k \in 0 .. m - 1, k \in A PROVE k + 1 \in A
  <2>1. k \in Nat /\ k + 1 \in 0 .. m
    OBVIOUS
  <2>2. PICK j : j = n - (k + 1)
    OBVIOUS
  <2>3. j \in Nat /\ n - k = j + 1
    BY <2>2
  <2>4. Below(s, k + 1) = Opened(Below(s, k))
    BY <2>1, BelowStep
  <2>5. Below(s, k) \in Seq(Grade(j + 1, d))
    BY <1>1, <1>3, <2>3
  <2>6. Opened(Below(s, k)) \in Seq(Grade(j, d))
    BY <2>3, <2>5, OpenedGrade
  <2>. QED  BY <1>1, <2>1, <2>2, <2>4, <2>6
<1>4. \A k \in 0 .. m : k \in A
  BY <1>0, <1>2, <1>3, HoldsUpTo
<1>5. m \in A
  BY <1>0, <1>4
<1>. QED  BY <1>1, <1>5

LEMMA UpToGradeZero ==
  ASSUME NEW d
  PROVE  UpToGrade(0, d) = Grade(0, d)
<1>1. 0 .. 0 = {0}
  OBVIOUS
<1>. QED  BY <1>1 DEF UpToGrade

(* Below all levels there are leaves.                                      *)
LEMMA BelowAll ==
  ASSUME NEW n \in Nat, NEW d, NEW s \in Seq(UpToGrade(n, d)), NEW m \in Nat, n <= m
  PROVE  Below(s, n) \in Seq(Grade(0, d)) /\ Below(s, m) = Below(s, n)
<1>1. PICK A : A = {k \in 0 .. n : Below(s, k) \in Seq(UpToGrade(n - k, d))}
  OBVIOUS
<1>2. 0 \in A
  <2>1. 0 \in 0 .. n /\ 0 \in Nat /\ n - 0 = n
    OBVIOUS
  <2>2. Below(s, 0) = s
    BY <2>1, BelowStep
  <2>. QED  BY <1>1, <2>1, <2>2
<1>3. ASSUME NEW k \in 0 .. n - 1, k \in A PROVE k + 1 \in A
  <2>1. k \in Nat /\ k + 1 \in 0 .. n
    OBVIOUS
  <2>2. PICK j : j = n - (k + 1)
    OBVIOUS
  <2>3. j \in Nat /\ n - k = j + 1
    BY <2>2
  <2>4. Below(s, k + 1) = Opened(Below(s, k))
    BY <2>1, BelowStep
  <2>5. Below(s, k) \in Seq(UpToGrade(j + 1, d))
    BY <1>1, <1>3, <2>3
  <2>6. Opened(Below(s, k)) \in Seq(UpToGrade(j, d))
    BY <2>3, <2>5, OpenedLower
  <2>. QED  BY <1>1, <2>1, <2>2, <2>4, <2>6
<1>4. \A k \in 0 .. n : k \in A
  BY <1>2, <1>3, HoldsUpTo
<1>5. n \in A /\ n - n = 0
  BY <1>4
<1>6. Below(s, n) \in Seq(Grade(0, d))
  BY <1>1, <1>5, UpToGradeZero
<1>7. PICK B, c : c = m - n /\ B = {k \in 0 .. c : Below(s, n + k) = Below(s, n)}
  OBVIOUS
<1>8. c \in Nat /\ n + c = m
  BY <1>7
<1>9. 0 \in B
  <2>1. n + 0 = n /\ 0 \in 0 .. c
    BY <1>8
  <2>. QED  BY <1>7, <2>1
<1>10. ASSUME NEW k \in 0 .. c - 1, k \in B PROVE k + 1 \in B
  <2>1. PICK j : j = n + k
    OBVIOUS
  <2>2. j \in Nat /\ k + 1 \in 0 .. c /\ n + (k + 1) = j + 1
    BY <1>8, <2>1
  <2>3. Below(s, j + 1) = Opened(Below(s, j))
    BY <2>2, BelowStep
  <2>4. Below(s, j) = Below(s, n)
    BY <1>7, <1>10, <2>1
  <2>5. Opened(Below(s, n)) = Below(s, n)
    BY <1>6, OpenedLeaves
  <2>. QED  BY <1>7, <2>2, <2>3, <2>4, <2>5
<1>11. \A k \in 0 .. c : k \in B
  BY <1>8, <1>9, <1>10, HoldsUpTo
<1>12. c \in B
  BY <1>8, <1>11
<1>13. Below(s, m) = Below(s, n)
  BY <1>7, <1>8, <1>12
<1>. QED  BY <1>6, <1>13

--------------------------------------------------------------------------------
(* The leaves of trees, however high.                                      *)
IsDepth(s, n) == \A m \in Nat : n <= m => Below(s, m) = Below(s, n)

LeavesOf(s) == Below(s, CHOOSE n \in Nat : IsDepth(s, n))

LEMMA LeavesAt ==
  ASSUME NEW n \in Nat, NEW d, NEW s \in Seq(UpToGrade(n, d)), NEW m \in Nat, n <= m
  PROVE  LeavesOf(s) = Below(s, m) /\ LeavesOf(s) \in Seq(Grade(0, d))
<1>1. IsDepth(s, n)
  BY BelowAll DEF IsDepth
<1>2. PICK k : k = CHOOSE i \in Nat : IsDepth(s, i)
  OBVIOUS
<1>3. k \in Nat /\ IsDepth(s, k)
  BY <1>1, <1>2
<1>4. Below(s, k) = Below(s, m)
  <2>1. CASE k <= n
    <3>1. Below(s, n) = Below(s, k)
      BY <1>3, <2>1 DEF IsDepth
    <3>2. Below(s, m) = Below(s, n)
      BY BelowAll
    <3>. QED  BY <3>1, <3>2
  <2>2. CASE n <= k
    <3>1. Below(s, k) = Below(s, n)
      BY <1>1, <1>3, <2>2 DEF IsDepth
    <3>2. Below(s, m) = Below(s, n)
      BY BelowAll
    <3>. QED  BY <3>1, <3>2
  <2>3. k <= n \/ n <= k
    BY <1>3
  <2>. QED  BY <2>1, <2>2, <2>3
<1>5. Below(s, m) \in Seq(Grade(0, d))
  <2>1. Below(s, n) \in Seq(Grade(0, d)) /\ Below(s, m) = Below(s, n)
    BY BelowAll
  <2>. QED  BY <2>1
<1>. QED  BY <1>2, <1>4, <1>5 DEF LeavesOf

LEMMA LeavesConcat ==
  ASSUME NEW n \in Nat, NEW d, NEW s \in Seq(UpToGrade(n, d)), NEW t \in Seq(UpToGrade(n, d))
  PROVE  LeavesOf(s \o t) = LeavesOf(s) \o LeavesOf(t)
<1>1. PICK u : u = s \o t
  OBVIOUS
<1>2. u \in Seq(UpToGrade(n, d))
  BY <1>1, ConcatProperties
<1>3. LeavesOf(s) = Below(s, n) /\ LeavesOf(t) = Below(t, n) /\ LeavesOf(u) = Below(u, n)
  BY <1>2, LeavesAt
<1>4. Below(u, n) = Below(s, n) \o Below(t, n)
  BY <1>1, BelowConcat
<1>. QED  BY <1>1, <1>3, <1>4

LEMMA LeavesOfStem ==
  ASSUME NEW n \in Nat, NEW d, NEW l \in Seq(Grade(n, d)), Len(l) <= d
  PROVE  LeavesOf(<<Stem(l)>>) = LeavesOf(l)
<1>1. PICK N, s : N = n + 1 /\ s = <<Stem(l)>>
  OBVIOUS
<1>2. N \in Nat /\ n \in 0 .. n /\ N \in 0 .. N
  BY <1>1
<1>3. s \in Seq(Grade(N, d))
  <2>1. Stem(l) \in Grade(N, d)
    BY <1>1, StemIsTree
  <2>. QED  BY <1>1, <2>1
<1>4. s \in Seq(UpToGrade(N, d)) /\ l \in Seq(UpToGrade(n, d))
  BY <1>2, <1>3, GradeUpTo
<1>5. LeavesOf(s) = Below(s, N) /\ LeavesOf(l) = Below(l, n)
  BY <1>2, <1>4, LeavesAt
<1>6. Opened(s) = l
  BY <1>1, <1>4, OpenedStem
<1>7. Below(s, n + 1) = Below(Opened(s), n)
  BY BelowShift
<1>. QED  BY <1>1, <1>5, <1>6, <1>7

LEMMA LeavesOfLeaves ==
  ASSUME NEW d, NEW s \in Seq(Grade(0, d))
  PROVE  LeavesOf(s) = s
<1>1. 0 \in Nat /\ 0 <= 0 /\ s \in Seq(UpToGrade(0, d))
  BY UpToGradeZero
<1>2. LeavesOf(s) = Below(s, 0)
  BY <1>1, LeavesAt
<1>3. Below(s, 0) = s
  BY <1>1, BelowStep
<1>. QED  BY <1>2, <1>3

(* The leaves do not change when one goes down.                            *)
LEMMA LeavesOfBelow ==
  ASSUME NEW n \in Nat, NEW d, NEW s \in Seq(UpToGrade(n, d))
  PROVE  LeavesOf(Opened(s)) = LeavesOf(s)
<1>1. PICK t : t = Opened(s)
  OBVIOUS
<1>2. t \in Seq(UpToGrade(n, d))
  BY <1>1, OpenedType
<1>3. LeavesOf(t) = Below(t, n)
  BY <1>2, LeavesAt
<1>4. n + 1 \in Nat /\ n <= n + 1
  OBVIOUS
<1>5. LeavesOf(s) = Below(s, n + 1)
  BY <1>4, LeavesAt
<1>6. Below(s, n + 1) = Below(t, n)
  BY <1>1, BelowShift
<1>. QED  BY <1>1, <1>3, <1>5, <1>6

--------------------------------------------------------------------------------
(* The bytes in leaves, and in trees.                                      *)
BytesOf(s) == DataOf(LeavesOf(s))

Datas(leaves) == [i \in DOMAIN leaves |-> leaves[i].data]

LEMMA DatasType ==
  ASSUME NEW d, NEW s \in Seq(Grade(0, d))
  PROVE  Datas(s) \in Seq(Seq(Nat)) /\ Len(Datas(s)) = Len(s)
<1>1. PICK m : m = Len(s)
  OBVIOUS
<1>2. m \in Nat /\ DOMAIN s = 1 .. m /\ 0 \in Nat
  BY <1>1, LenProperties
<1>3. ASSUME NEW i \in 1 .. m PROVE s[i].data \in Seq(Nat)
  <2>1. s[i] \in Grade(0, d)
    BY <1>1, ElementOfSeq
  <2>. QED  BY <1>2, <2>1, TreeIs
<1>4. Datas(s) \in [1 .. m -> Seq(Nat)]
  BY <1>2, <1>3 DEF Datas
<1>. QED  BY <1>1, <1>2, <1>4, FunctionIsSeq

LEMMA DataOfIs ==
  ASSUME NEW s
  PROVE  DataOf(s) = FlattenSeq(Datas(s))
BY DEF DataOf, Datas

LEMMA DataType ==
  ASSUME NEW d, NEW s \in Seq(Grade(0, d))
  PROVE  DataOf(s) \in Seq(Nat)
<1>1. Datas(s) \in Seq(Seq(Nat))
  BY DatasType
<1>. QED  BY <1>1, FlattenType, DataOfIs

LEMMA DataConcat ==
  ASSUME NEW d, NEW s \in Seq(Grade(0, d)), NEW t \in Seq(Grade(0, d))
  PROVE  DataOf(s \o t) = DataOf(s) \o DataOf(t)
<1>1. PICK u, U, k, l : u = s \o t /\ U = Grade(0, d) /\ k = Len(s) /\ l = Len(t)
  OBVIOUS
<1>2. /\ u \in Seq(U) /\ Len(u) = k + l /\ k \in Nat /\ l \in Nat
      /\ \A i \in 1 .. k + l : u[i] = IF i <= k THEN s[i] ELSE t[i - k]
  BY <1>1, ConcatProperties
<1>3. PICK a, b, c : a = Datas(s) /\ b = Datas(t) /\ c = Datas(u)
  OBVIOUS
<1>4. /\ a \in Seq(Seq(Nat)) /\ Len(a) = k
      /\ b \in Seq(Seq(Nat)) /\ Len(b) = l
      /\ c \in Seq(Seq(Nat)) /\ Len(c) = k + l
  <2>1. a \in Seq(Seq(Nat)) /\ Len(a) = k
    BY <1>1, <1>3, DatasType
  <2>2. b \in Seq(Seq(Nat)) /\ Len(b) = l
    BY <1>1, <1>3, DatasType
  <2>3. c \in Seq(Seq(Nat)) /\ Len(c) = k + l
    BY <1>1, <1>2, <1>3, DatasType
  <2>. QED  BY <2>1, <2>2, <2>3
<1>5. PICK e : e = a \o b
  OBVIOUS
<1>6. /\ e \in Seq(Seq(Nat)) /\ Len(e) = k + l
      /\ \A i \in 1 .. k + l : e[i] = IF i <= k THEN a[i] ELSE b[i - k]
  BY <1>4, <1>5, ConcatProperties
<1>7. ASSUME NEW i \in 1 .. k + l PROVE c[i] = e[i]
  <2>0. /\ DOMAIN s = 1 .. k /\ DOMAIN t = 1 .. l /\ DOMAIN u = 1 .. k + l
    BY <1>1, <1>2, LenProperties
  <2>1. CASE i <= k
    <3>1. i \in 1 .. k /\ u[i] = s[i] /\ e[i] = a[i]
      BY <1>2, <1>6, <2>1
    <3>. QED  BY <1>3, <2>0, <3>1 DEF Datas
  <2>2. CASE ~(i <= k)
    <3>1. PICK j : j = i - k
      OBVIOUS
    <3>2. j \in 1 .. l /\ u[i] = t[j] /\ e[i] = b[j]
      BY <1>2, <1>6, <2>2, <3>1
    <3>. QED  BY <1>3, <2>0, <3>2 DEF Datas
  <2>. QED  BY <2>1, <2>2
<1>8. c = e
  BY <1>4, <1>6, <1>7, SeqEqual
<1>9. FlattenSeq(e) = FlattenSeq(a) \o FlattenSeq(b)
  BY <1>4, <1>5, FlattenConcat
<1>. QED  BY <1>1, <1>3, <1>8, <1>9, DataOfIs

LEMMA BytesType ==
  ASSUME NEW n \in Nat, NEW d, NEW s \in Seq(UpToGrade(n, d))
  PROVE  BytesOf(s) \in Seq(Nat)
<1>1. LeavesOf(s) \in Seq(Grade(0, d))
  BY LeavesAt
<1>. QED  BY <1>1, DataType DEF BytesOf

LEMMA BytesConcat ==
  ASSUME NEW n \in Nat, NEW d, NEW s \in Seq(UpToGrade(n, d)), NEW t \in Seq(UpToGrade(n, d))
  PROVE  BytesOf(s \o t) = BytesOf(s) \o BytesOf(t)
<1>1. LeavesOf(s) \in Seq(Grade(0, d)) /\ LeavesOf(t) \in Seq(Grade(0, d))
  BY LeavesAt
<1>2. LeavesOf(s \o t) = LeavesOf(s) \o LeavesOf(t)
  BY LeavesConcat
<1>. QED  BY <1>1, <1>2, DataConcat DEF BytesOf

LEMMA BytesOfRaw ==
  ASSUME NEW d, NEW bytes \in Seq(Nat)
  PROVE  BytesOf(<<Raw(bytes)>>) = bytes
<1>1. PICK s : s = <<Raw(bytes)>>
  OBVIOUS
<1>2. s \in Seq(Grade(0, d))
  <2>1. Raw(bytes) \in Grade(0, d)
    BY RawIsTree
  <2>. QED  BY <1>1, <2>1
<1>3. LeavesOf(s) = s
  BY <1>2, LeavesOfLeaves
<1>4. Datas(s) = <<bytes>>
  BY <1>1 DEF Datas, Raw
<1>5. FlattenSeq(<<bytes>>) = bytes
  BY FlattenOne
<1>. QED  BY <1>1, <1>3, <1>4, <1>5, DataOfIs DEF BytesOf

LEMMA BytesOfStem ==
  ASSUME NEW n \in Nat, NEW d, NEW l \in Seq(Grade(n, d)), Len(l) <= d
  PROVE  BytesOf(<<Stem(l)>>) = BytesOf(l)
BY LeavesOfStem DEF BytesOf

LEMMA NoBytes ==
  BytesOf(<<>>) = <<>>
<1>1. PICK s, d : s = <<>> /\ d = 0
  OBVIOUS
<1>2. s \in Seq(Grade(0, d))
  BY <1>1
<1>3. LeavesOf(s) = s
  BY <1>2, LeavesOfLeaves
<1>4. Datas(s) = <<>>
  BY <1>1 DEF Datas
<1>. QED  BY <1>1, <1>3, <1>4, FlattenEmpty, DataOfIs DEF BytesOf

--------------------------------------------------------------------------------
(* A sum is what adds up one by one.                                       *)
LEMMA SumIs ==
  ASSUME NEW sizes, NEW n \in Nat, NEW s, s[0] = 0,
         \A i \in 1 .. n : s[i] = s[i - 1] + sizes[i]
  PROVE  SumTo(sizes, n) = s[n]
<1>2. PICK K : K = CHOOSE g : g = [i \in 0 .. n |-> IF i = 0 THEN 0 ELSE g[i - 1] + sizes[i]]
  OBVIOUS
<1>3. PICK h : h = [i \in 0 .. n |-> s[i]]
  OBVIOUS
<1>4. \A i \in 0 .. n : h[i] = IF i = 0 THEN 0 ELSE h[i - 1] + sizes[i]
  <2> TAKE i \in 0 .. n
  <2>1. CASE i = 0
    BY <1>3, <2>1
  <2>2. CASE i # 0
    <3>1. i \in 1 .. n /\ i - 1 \in 0 .. n
      BY <2>2
    <3>2. s[i] = s[i - 1] + sizes[i]
      BY <3>1
    <3>3. h[i] = s[i] /\ h[i - 1] = s[i - 1]
      BY <1>3, <3>1
    <3>. QED  BY <2>2, <3>2, <3>3
  <2>. QED  BY <2>1, <2>2
<1>5. h = [i \in 0 .. n |-> IF i = 0 THEN 0 ELSE h[i - 1] + sizes[i]]
  BY <1>3, <1>4
<1>6. K = [i \in 0 .. n |-> IF i = 0 THEN 0 ELSE K[i - 1] + sizes[i]]
  BY <1>2, <1>5
<1>7. \A i \in 0 .. n : K[i] = IF i = 0 THEN 0 ELSE K[i - 1] + sizes[i]
  BY <1>6
<1>8. PICK A : A = {i \in 0 .. n : K[i] = h[i]}
  OBVIOUS
<1>9. 0 \in A
  <2>1. 0 \in 0 .. n
    OBVIOUS
  <2>2. K[0] = 0 /\ h[0] = 0
    BY <1>4, <1>7, <2>1
  <2>. QED  BY <1>8, <2>1, <2>2
<1>10. ASSUME NEW i \in 0 .. n - 1, i \in A PROVE i + 1 \in A
  <2>0. PICK j : j = i + 1
    OBVIOUS
  <2>1. j \in 0 .. n /\ j # 0 /\ j - 1 = i
    BY <2>0
  <2>2. K[j] = K[j - 1] + sizes[j] /\ h[j] = h[j - 1] + sizes[j]
    BY <1>4, <1>7, <2>1
  <2>3. K[i] = h[i]
    BY <1>8, <1>10
  <2>. QED  BY <1>8, <2>0, <2>1, <2>2, <2>3
<1>11. \A i \in 0 .. n : i \in A
  BY <1>9, <1>10, HoldsUpTo
<1>12. n \in 0 .. n
  OBVIOUS
<1>13. K[n] = s[n]
  BY <1>3, <1>8, <1>11, <1>12
<1>. QED  BY <1>2, <1>13 DEF SumTo

SizesOf(l) == [i \in DOMAIN l |-> l[i].filesize]

(* The sizes of nodes add up to the size of what is below them.            *)
LEMMA SizesAdd ==
  ASSUME NEW n \in Nat, NEW d, NEW l \in Seq(UpToGrade(n, d)),
         \A i \in 1 .. Len(l) : l[i].filesize = Len(BytesOf(<<l[i]>>)),
         NEW m \in 0 .. Len(l)
  PROVE  SumTo(SizesOf(l), m) = Len(BytesOf(SubSeq(l, 1, m)))
<1>1. PICK U, N : U = UpToGrade(n, d) /\ N = Len(l)
  OBVIOUS
<1>2. N \in Nat /\ DOMAIN l = 1 .. N /\ m \in Nat
  BY <1>1, LenProperties
<1>3. PICK s : s = [i \in 0 .. m |-> Len(BytesOf(SubSeq(l, 1, i)))]
  OBVIOUS
<1>4. s[0] = 0
  <2>1. SubSeq(l, 1, 0) = <<>>
    BY SubSeqEmpty
  <2>2. 0 \in 0 .. m
    BY <1>2
  <2>3. s[0] = Len(BytesOf(SubSeq(l, 1, 0)))
    BY <1>3, <2>2
  <2>4. Len(<<>>) = 0
    BY EmptySeq
  <2>. QED  BY <2>1, <2>3, <2>4, NoBytes
<1>5. ASSUME NEW i \in 1 .. m PROVE s[i] = s[i - 1] + SizesOf(l)[i]
  <2>1. PICK j, a, x : j = i - 1 /\ a = SubSeq(l, 1, i - 1) /\ x = l[i]
    OBVIOUS
  <2>2. i \in 1 .. Len(l) /\ i \in 0 .. m /\ j \in 0 .. m /\ i \in 1 .. N
    BY <1>1, <1>2, <2>1
  <2>3. SubSeq(l, 1, i) = Append(a, x) /\ a \in Seq(U)
    BY <1>1, <2>1, <2>2, SubSeqStep
  <2>4. x \in U
    BY <1>1, <2>1, <2>2, ElementOfSeq
  <2>5. Append(a, x) = a \o <<x>> /\ <<x>> \in Seq(U)
    BY <2>3, <2>4, AppendIsConcat
  <2>6. BytesOf(a \o <<x>>) = BytesOf(a) \o BytesOf(<<x>>)
    BY <1>1, <2>3, <2>5, BytesConcat
  <2>7. BytesOf(a) \in Seq(Nat) /\ BytesOf(<<x>>) \in Seq(Nat)
    BY <1>1, <2>3, <2>5, BytesType
  <2>8. PICK b, c : b = BytesOf(a) /\ c = BytesOf(<<x>>)
    OBVIOUS
  <2>9. Len(b \o c) = Len(b) + Len(c)
    BY <2>7, <2>8, ConcatProperties
  <2>10. s[i] = Len(b \o c) /\ s[j] = Len(b)
    BY <1>3, <2>1, <2>2, <2>3, <2>5, <2>6, <2>8
  <2>11. SizesOf(l)[i] = Len(c)
    BY <1>2, <2>1, <2>2, <2>8 DEF SizesOf
  <2>. QED  BY <2>1, <2>9, <2>10, <2>11
<1>6. SumTo(SizesOf(l), m) = s[m]
  BY <1>2, <1>4, <1>5, SumIs
<1>7. m \in 0 .. m
  BY <1>2
<1>. QED  BY <1>3, <1>6, <1>7

(* A node knows the size of what is below it.                              *)
Sized(k, d) == \A x \in Grade(k, d) : x.filesize = Len(BytesOf(<<x>>))

LEMMA NodesAreSized ==
  ASSUME NEW n \in Nat, NEW d
  PROVE  Sized(n, d)
<1>1. PICK A : A = {k \in 0 .. n : Sized(k, d)}
  OBVIOUS
<1>2. 0 \in A
  <2>1. ASSUME NEW x \in Grade(0, d) PROVE x.filesize = Len(BytesOf(<<x>>))
    <3>1. 0 \in Nat
      OBVIOUS
    <3>2. x.data \in Seq(Nat) /\ x = Raw(x.data) /\ x.filesize = Len(x.data)
      BY <3>1, TreeIs
    <3>3. BytesOf(<<Raw(x.data)>>) = x.data
      BY <3>2, BytesOfRaw
    <3>. QED  BY <3>2, <3>3
  <2>2. 0 \in 0 .. n
    OBVIOUS
  <2>. QED  BY <1>1, <2>1, <2>2 DEF Sized
<1>3. ASSUME NEW k \in 0 .. n - 1, k \in A PROVE k + 1 \in A
  <2>1. PICK j : j = k + 1
    OBVIOUS
  <2>2. k \in Nat /\ j \in Nat /\ j # 0 /\ j - 1 = k /\ j \in 0 .. n /\ k \in 0 .. k
    BY <2>1
  <2>3. Sized(k, d)
    BY <1>1, <1>3
  <2>4. ASSUME NEW x \in Grade(j, d) PROVE x.filesize = Len(BytesOf(<<x>>))
    <3>1. PICK l : l = x.links
      OBVIOUS
    <3>2. l \in Seq(Grade(k, d)) /\ Len(l) <= d /\ x = Stem(l)
      BY <2>2, <3>1, TreeIs
    <3>3. l \in Seq(UpToGrade(k, d))
      BY <2>2, <3>2, GradeUpTo
    <3>4. \A i \in 1 .. Len(l) : l[i].filesize = Len(BytesOf(<<l[i]>>))
      <4> TAKE i \in 1 .. Len(l)
      <4>1. l[i] \in Grade(k, d)
        BY <3>2, ElementOfSeq
      <4>. QED  BY <2>3, <4>1 DEF Sized
    <3>5. PICK m : m = Len(l)
      OBVIOUS
    <3>6. m \in 0 .. Len(l) /\ m \in Nat /\ DOMAIN l = 1 .. m
      BY <3>2, <3>5, LenProperties
    <3>7. SumTo(SizesOf(l), m) = Len(BytesOf(SubSeq(l, 1, m)))
      BY <2>2, <3>3, <3>4, <3>6, SizesAdd
    <3>8. SubSeq(l, 1, m) = l
      BY <3>2, <3>5, SubSeqFull
    <3>9. x.filesize = SumTo(SizesOf(l), Len(SizesOf(l)))
      BY <3>2 DEF Stem, SizesOf
    <3>10. Len(SizesOf(l)) = m
      <4>1. SizesOf(l) \in [1 .. m -> {SizesOf(l)[i] : i \in 1 .. m}]
        BY <3>6 DEF SizesOf
      <4>. QED  BY <3>6, <4>1, FunctionIsSeq
    <3>11. BytesOf(<<x>>) = BytesOf(l)
      BY <2>2, <3>2, BytesOfStem
    <3>. QED  BY <3>7, <3>8, <3>9, <3>10, <3>11
  <2>. QED  BY <1>1, <2>1, <2>2, <2>4 DEF Sized
<1>4. \A k \in 0 .. n : k \in A
  BY <1>2, <1>3, HoldsUpTo
<1>5. n \in A
  BY <1>4
<1>. QED  BY <1>1, <1>5

(* What a node's block sizes add up to, and where its links begin.         *)
LEMMA BlockSizesAdd ==
  ASSUME NEW n \in Nat, NEW d, NEW l \in Seq(Grade(n, d)), NEW m \in 0 .. Len(l)
  PROVE  /\ Stem(l).blocksizes = SizesOf(l)
         /\ SumTo(SizesOf(l), m) = Len(BytesOf(SubSeq(l, 1, m)))
<1>1. Stem(l).blocksizes = SizesOf(l)
  BY DEF Stem, SizesOf
<1>2. l \in Seq(UpToGrade(n, d))
  <2>1. n \in 0 .. n
    OBVIOUS
  <2>. QED  BY <2>1, GradeUpTo
<1>3. \A i \in 1 .. Len(l) : l[i].filesize = Len(BytesOf(<<l[i]>>))
  <2> TAKE i \in 1 .. Len(l)
  <2>1. l[i] \in Grade(n, d)
    BY ElementOfSeq
  <2>. QED  BY <2>1, NodesAreSized DEF Sized
<1>4. SumTo(SizesOf(l), m) = Len(BytesOf(SubSeq(l, 1, m)))
  BY <1>2, <1>3, SizesAdd
<1>. QED  BY <1>1, <1>4

--------------------------------------------------------------------------------
(* The trees a file is built of are well made.                             *)
LEMMA TreesAreWellMade ==
  ASSUME Len(layers) \in Nat, NEW k \in 0 .. Len(layers), NEW x \in Grade(k, degree)
  PROVE  IsWellMade(x)
<1>1. PICK L, s : L = Len(layers) /\ s = <<x>>
  OBVIOUS
<1>2. L \in Nat /\ k \in Nat /\ k <= L /\ k \in 0 .. k
  BY <1>1
<1>3. s \in Seq(Grade(k, degree)) /\ s \in Seq(UpToGrade(k, degree))
  <2>1. s \in Seq(Grade(k, degree))
    BY <1>1
  <2>. QED  BY <1>2, <2>1, GradeUpTo
<1>4. ASSUME NEW n \in 0 .. L PROVE \E j \in 0 .. L : Below(s, n) \in Seq(Grade(j, degree))
  <2>0. n \in Nat /\ 0 \in 0 .. L
    BY <1>2
  <2>1. CASE n <= k
    <3>1. Below(s, n) \in Seq(Grade(k - n, degree))
      BY <1>2, <1>3, <2>0, <2>1, BelowGrade
    <3>2. k - n \in 0 .. L
      BY <1>2, <2>0, <2>1
    <3>. QED  BY <3>1, <3>2
  <2>2. CASE k <= n
    <3>1. Below(s, n) = Below(s, k) /\ Below(s, k) \in Seq(Grade(0, degree))
      BY <1>2, <1>3, <2>0, <2>2, BelowAll
    <3>. QED  BY <2>0, <3>1
  <2>3. n <= k \/ k <= n
    BY <1>2, <2>0
  <2>. QED  BY <2>1, <2>2, <2>3
<1>5. ASSUME NEW n \in 0 .. L, NEW nodes, nodes = Below(s, n), NEW i \in DOMAIN nodes
      PROVE  /\ nodes[i].type = nodes[1].type
             /\ nodes[i].filesize = Len(DataOf(Leaves(<<nodes[i]>>)))
             /\ nodes[i].type = "node" =>
                  /\ Len(nodes[i].links) <= degree
                  /\ nodes[i].blocksizes =
                       [j \in DOMAIN nodes[i].links |-> nodes[i].links[j].filesize]
  <2>1. PICK j \in 0 .. L : nodes \in Seq(Grade(j, degree))
    BY <1>4, <1>5
  <2>2. j \in Nat /\ j <= L /\ j \in 0 .. j
    BY <1>2
  <2>3. i \in 1 .. Len(nodes) /\ 1 \in 1 .. Len(nodes)
    BY <2>1, LenProperties
  <2>4. PICK y, z : y = nodes[i] /\ z = nodes[1]
    OBVIOUS
  <2>5. y \in Grade(j, degree) /\ z \in Grade(j, degree)
    BY <2>1, <2>3, <2>4, ElementOfSeq
  <2>6. y.type = z.type
    <3>1. IF j = 0 THEN y.type = "raw" ELSE y.type = "node"
      BY <2>2, <2>5, TreeIs
    <3>2. IF j = 0 THEN z.type = "raw" ELSE z.type = "node"
      BY <2>2, <2>5, TreeIs
    <3>. QED  BY <3>1, <3>2
  <2>7. y.filesize = Len(DataOf(Leaves(<<y>>)))
    <3>1. <<y>> \in Seq(UpToGrade(j, degree))
      <4>1. <<y>> \in Seq(Grade(j, degree))
        BY <2>5
      <4>. QED  BY <2>2, <4>1, GradeUpTo
    <3>2. LeavesOf(<<y>>) = Below(<<y>>, L)
      BY <1>2, <2>2, <3>1, LeavesAt
    <3>3. Leaves(<<y>>) = Below(<<y>>, L)
      BY <1>1 DEF Leaves
    <3>4. y.filesize = Len(BytesOf(<<y>>))
      BY <2>2, <2>5, NodesAreSized DEF Sized
    <3>. QED  BY <3>2, <3>3, <3>4 DEF BytesOf
  <2>8. ASSUME y.type = "node"
        PROVE  Len(y.links) <= degree /\ y.blocksizes = [m \in DOMAIN y.links |-> y.links[m].filesize]
    <3>1. y.type # "raw"
      BY <2>8
    <3>2. Len(y.links) <= degree /\ y = Stem(y.links)
      BY <2>2, <2>5, <3>1, TreeIs
    <3>3. PICK l : l = y.links
      OBVIOUS
    <3>4. Stem(l).blocksizes = [m \in DOMAIN l |-> l[m].filesize]
      BY DEF Stem
    <3>. QED  BY <3>2, <3>3, <3>4
  <2>. QED  BY <2>4, <2>6, <2>7, <2>8
<1>. QED  BY <1>1, <1>5 DEF IsWellMade

--------------------------------------------------------------------------------
(* Layers of links, from the leaves up.                                    *)
Layered(l, d) ==
  /\ l \in Seq(Seq(UpToGrade(Len(l), d))) /\ Len(l) # 0
  /\ \A i \in 1 .. Len(l) : l[i] \in Seq(Grade(i - 1, d))

AreLayers(l, n, d) ==
  /\ DOMAIN l = 1 .. n /\ l = [i \in 1 .. n |-> l[i]]
  /\ \A i \in 1 .. n : l[i] \in Seq(Grade(i - 1, d))

LEMMA LayeredIs ==
  ASSUME NEW l, NEW d, NEW n \in Nat \ {0}, AreLayers(l, n, d)
  PROVE  Layered(l, d) /\ Len(l) = n
<1>0. /\ DOMAIN l = 1 .. n /\ l = [i \in 1 .. n |-> l[i]]
      /\ \A i \in 1 .. n : l[i] \in Seq(Grade(i - 1, d))
  BY DEF AreLayers
<1>1. ASSUME NEW i \in 1 .. n PROVE l[i] \in Seq(UpToGrade(n, d))
  <2>1. PICK k \in 0 .. n : k = i - 1
    OBVIOUS
  <2>. QED  BY <1>0, <2>1, GradeUpTo
<1>2. l \in [1 .. n -> Seq(UpToGrade(n, d))]
  BY <1>0, <1>1
<1>3. l \in Seq(Seq(UpToGrade(n, d))) /\ Len(l) = n
  BY <1>2, FunctionIsSeq
<1>. QED  BY <1>0, <1>3 DEF Layered

(* A whole layer with nothing below it becomes a node in the layer above.  *)
IsCarried(m, k, i, N, d) ==
  /\ Layered(m, d) /\ Len(m) = N /\ Layered(k, d) /\ Len(k) = N
  /\ i \in 1 .. N - 1 /\ Len(m[i]) <= d
  /\ \A j \in 1 .. i - 1 : m[j] = <<>>
  /\ k[i] = <<>> /\ k[i + 1] = Append(m[i + 1], Stem(m[i]))
  /\ \A j \in 1 .. N : j # i /\ j # i + 1 => k[j] = m[j]

LEMMA CarryKeepsLeaves ==
  ASSUME NEW d, NEW N \in Nat, NEW m, NEW k, NEW i, IsCarried(m, k, i, N, d)
  PROVE  LeavesOf(FromLast(k)) = LeavesOf(FromLast(m))
<1>0. PICK U, h : U = UpToGrade(N, d) /\ h = i + 1
  OBVIOUS
<1>0a. Len(m) = N /\ Len(k) = N
  BY DEF IsCarried
<1>1. m \in Seq(Seq(U)) /\ k \in Seq(Seq(U))
  BY <1>0 DEF Layered, IsCarried
<1>2. \A j \in 1 .. N : m[j] \in Seq(U) /\ k[j] \in Seq(U)
  BY <1>0a, <1>1, ElementOfSeq
<1>3. PICK f \in [0 .. N -> Seq(U)] : Stacks(f, m)
  BY <1>0a, <1>1, StackRuns
<1>4. PICK g \in [0 .. N -> Seq(U)] : Stacks(g, k)
  BY <1>0a, <1>1, StackRuns
<1>5. /\ f[0] = <<>> /\ g[0] = <<>>
      /\ \A j \in 1 .. N : f[j] = m[j] \o f[j - 1] /\ g[j] = k[j] \o g[j - 1]
  BY <1>0a, <1>3, <1>4 DEF Stacks
<1>6. i \in Nat /\ i \in 1 .. N /\ h \in 1 .. N /\ h - 1 = i /\ i - 1 \in Nat /\ h \in Nat
  BY <1>0 DEF IsCarried
<1>7. f[i - 1] = <<>> /\ g[i - 1] = <<>>
  <2>1. PICK A, n : n = i - 1 /\ A = {j \in 0 .. n : f[j] = <<>> /\ g[j] = <<>>}
    OBVIOUS
  <2>2. n \in Nat /\ 0 \in A
    BY <1>5, <1>6, <2>1
  <2>3. ASSUME NEW j \in 0 .. n - 1, j \in A PROVE j + 1 \in A
    <3>1. PICK q : q = j + 1
      OBVIOUS
    <3>2. q \in 0 .. n /\ q \in 1 .. N /\ q \in 1 .. i - 1 /\ q - 1 = j /\ q # i /\ q # i + 1
      BY <1>6, <2>1, <3>1
    <3>3. m[q] = <<>> /\ k[q] = <<>>
      BY <3>2 DEF IsCarried
    <3>4. f[q] = m[q] \o f[q - 1] /\ g[q] = k[q] \o g[q - 1]
      BY <1>5, <3>2
    <3>5. f[j] = <<>> /\ g[j] = <<>>
      BY <2>1, <2>3
    <3>6. <<>> \o <<>> = <<>>
      BY EmptySeq, ConcatEmptySeq
    <3>. QED  BY <2>1, <3>1, <3>2, <3>3, <3>4, <3>5, <3>6
  <2>4. \A j \in 0 .. n : j \in A
    BY <2>2, <2>3, HoldsUpTo
  <2>5. n \in A
    BY <2>2, <2>4
  <2>. QED  BY <2>1, <2>5
<1>8. f[i] = m[i] /\ g[i] = <<>>
  <2>1. f[i] = m[i] \o <<>> /\ g[i] = <<>> \o <<>>
    BY <1>5, <1>6, <1>7 DEF IsCarried
  <2>2. m[i] \o <<>> = m[i]
    BY <1>2, <1>6, ConcatEmptySeq
  <2>3. <<>> \o <<>> = <<>>
    BY EmptySeq, ConcatEmptySeq
  <2>. QED  BY <2>1, <2>2, <2>3
<1>9. m[i] \in Seq(Grade(i - 1, d)) /\ Stem(m[i]) \in U
  <2>1. m[i] \in Seq(Grade(i - 1, d))
    BY <1>6 DEF Layered, IsCarried
  <2>2. PICK j \in Nat : j = i - 1
    BY <1>6
  <2>3. Stem(m[i]) \in Grade(j + 1, d)
    BY <2>1, <2>2, StemIsTree DEF IsCarried
  <2>4. j + 1 \in 0 .. N
    BY <1>6, <2>2
  <2>5. Grade(j + 1, d) \subseteq U
    BY <1>0, <2>4, GradeUpTo
  <2>. QED  BY <2>1, <2>3, <2>5
<1>10. LeavesOf(f[h]) = LeavesOf(g[h])
  <2>1. PICK a, b, s : a = m[h] /\ b = m[i] /\ s = <<Stem(m[i])>>
    OBVIOUS
  <2>2. a \in Seq(U) /\ b \in Seq(U) /\ s \in Seq(U)
    BY <1>2, <1>6, <1>9, <2>1
  <2>3. f[h] = a \o b
    BY <1>5, <1>6, <1>8, <2>1
  <2>4. g[h] = a \o s
    <3>1. Append(a, Stem(m[i])) = a \o s
      BY <1>9, <2>1, <2>2, AppendIsConcat
    <3>2. g[h] = k[h] \o <<>> /\ k[h] = Append(a, Stem(m[i]))
      BY <1>0, <1>5, <1>6, <1>8, <2>1 DEF IsCarried
    <3>3. k[h] \o <<>> = k[h]
      BY <1>2, <1>6, ConcatEmptySeq
    <3>. QED  BY <3>1, <3>2, <3>3
  <2>8. a \in Seq(UpToGrade(N, d)) /\ b \in Seq(UpToGrade(N, d)) /\ s \in Seq(UpToGrade(N, d))
    BY <1>0, <2>2
  <2>5. LeavesOf(a \o b) = LeavesOf(a) \o LeavesOf(b)
    BY <2>8, LeavesConcat
  <2>6. LeavesOf(a \o s) = LeavesOf(a) \o LeavesOf(s)
    BY <2>8, LeavesConcat
  <2>7. LeavesOf(s) = LeavesOf(b)
    <3>1. PICK j \in Nat : j = i - 1
      BY <1>6
    <3>2. b \in Seq(Grade(j, d)) /\ Len(b) <= d
      BY <1>9, <2>1, <3>1 DEF IsCarried
    <3>3. LeavesOf(<<Stem(b)>>) = LeavesOf(b)
      BY <3>2, LeavesOfStem
    <3>. QED  BY <2>1, <3>3
  <2>. QED  BY <2>3, <2>4, <2>5, <2>6, <2>7
<1>11. LeavesOf(f[N]) = LeavesOf(g[N])
  <2>1. PICK A, n : n = N - h /\ A = {j \in 0 .. n : LeavesOf(f[h + j]) = LeavesOf(g[h + j])}
    OBVIOUS
  <2>2. n \in Nat /\ h + n = N
    BY <1>6, <2>1
  <2>3. 0 \in A
    <3>1. h + 0 = h /\ 0 \in 0 .. n
      BY <1>6, <2>2
    <3>. QED  BY <1>10, <2>1, <3>1
  <2>4. ASSUME NEW j \in 0 .. n - 1, j \in A PROVE j + 1 \in A
    <3>1. PICK q, p : q = h + (j + 1) /\ p = h + j
      OBVIOUS
    <3>2. /\ j + 1 \in 0 .. n /\ q \in 1 .. N /\ q - 1 = p /\ q # i /\ q # i + 1
          /\ p \in 0 .. N
      BY <1>0, <1>6, <2>2, <3>1
    <3>3. f[q] = m[q] \o f[p] /\ g[q] = k[q] \o g[p] /\ k[q] = m[q]
      BY <1>5, <3>2 DEF IsCarried
    <3>4. LeavesOf(f[p]) = LeavesOf(g[p])
      BY <2>1, <2>4, <3>1
    <3>5. f[p] \in Seq(U) /\ g[p] \in Seq(U) /\ m[q] \in Seq(U)
      BY <1>2, <1>3, <1>4, <3>2
    <3>9. PICK a, b, c : a = m[q] /\ b = f[p] /\ c = g[p]
      OBVIOUS
    <3>10. /\ a \in Seq(UpToGrade(N, d)) /\ b \in Seq(UpToGrade(N, d))
           /\ c \in Seq(UpToGrade(N, d))
      BY <1>0, <3>5, <3>9
    <3>6. LeavesOf(a \o b) = LeavesOf(a) \o LeavesOf(b)
      BY <3>10, LeavesConcat
    <3>7. LeavesOf(a \o c) = LeavesOf(a) \o LeavesOf(c)
      BY <3>10, LeavesConcat
    <3>8. LeavesOf(f[q]) = LeavesOf(g[q])
      BY <3>3, <3>4, <3>6, <3>7, <3>9
    <3>. QED  BY <2>1, <3>1, <3>2, <3>8
  <2>5. \A j \in 0 .. n : j \in A
    BY <2>2, <2>3, <2>4, HoldsUpTo
  <2>6. n \in A
    BY <2>2, <2>5
  <2>. QED  BY <2>1, <2>2, <2>6
<1>12. FromLast(m) = f[N]
  BY <1>0a, <1>1, <1>3, StackIs
<1>13. FromLast(k) = g[N]
  BY <1>0a, <1>1, <1>4, StackIs
<1>. QED  BY <1>11, <1>12, <1>13

(* A new leaf comes after all that was there.                              *)
WithLast(m, k, x, N, d) ==
  /\ Layered(m, d) /\ Len(m) = N /\ Layered(k, d) /\ Len(k) = N
  /\ k[1] = Append(m[1], x)
  /\ \A j \in 1 .. N : j # 1 => k[j] = m[j]

LEMMA LeafComesLast ==
  ASSUME NEW d, NEW N \in Nat \ {0}, NEW m, NEW k, NEW x \in Grade(0, d),
         WithLast(m, k, x, N, d)
  PROVE  LeavesOf(FromLast(k)) = Append(LeavesOf(FromLast(m)), x)
<1>0. PICK U, s : U = UpToGrade(N, d) /\ s = <<x>>
  OBVIOUS
<1>0a. Len(m) = N /\ Len(k) = N
  BY DEF WithLast
<1>1. m \in Seq(Seq(U)) /\ k \in Seq(Seq(U)) /\ 0 \in 0 .. N
  BY <1>0 DEF Layered, WithLast
<1>2. \A j \in 1 .. N : m[j] \in Seq(U) /\ k[j] \in Seq(U)
  BY <1>0a, <1>1, ElementOfSeq
<1>2a. ASSUME NEW a \in Seq(U), NEW b \in Seq(U) PROVE (a \o b) \o s = a \o (b \o s)
  <2>1. s \in Seq(U)
    <3>1. Grade(0, d) \subseteq U
      BY <1>0, <1>1, GradeUpTo
    <3>. QED  BY <1>0, <3>1
  <2>. QED  BY <2>1, ConcatAssociative
<1>3. PICK f \in [0 .. N -> Seq(U)] : Stacks(f, m)
  BY <1>0a, <1>1, StackRuns
<1>4. PICK g \in [0 .. N -> Seq(U)] : Stacks(g, k)
  BY <1>0a, <1>1, StackRuns
<1>5. /\ f[0] = <<>> /\ g[0] = <<>>
      /\ \A j \in 1 .. N : f[j] = m[j] \o f[j - 1] /\ g[j] = k[j] \o g[j - 1]
  BY <1>0a, <1>3, <1>4 DEF Stacks
<1>6. x \in U /\ s \in Seq(U) /\ s \in Seq(Grade(0, d))
  <2>1. Grade(0, d) \subseteq U
    BY <1>0, <1>1, GradeUpTo
  <2>. QED  BY <1>0, <2>1
<1>7. PICK A : A = {j \in 0 .. N : j # 0 => g[j] = f[j] \o s}
  OBVIOUS
<1>8. 0 \in A
  BY <1>1, <1>7
<1>9. ASSUME NEW j \in 0 .. N - 1, j \in A PROVE j + 1 \in A
  <2>1. PICK q : q = j + 1
    OBVIOUS
  <2>2. q \in 0 .. N /\ q \in 1 .. N /\ q - 1 = j /\ j \in 0 .. N
    BY <2>1
  <2>3. f[q] = m[q] \o f[j] /\ g[q] = k[q] \o g[j]
    BY <1>5, <2>2
  <2>4. CASE j = 0
    <3>1. k[q] = Append(m[q], x) /\ m[q] \in Seq(U)
      BY <1>2, <2>1, <2>2, <2>4 DEF WithLast
    <3>2. Append(m[q], x) = m[q] \o s
      BY <1>0, <1>6, <3>1, AppendIsConcat
    <3>3. f[q] = m[q]
      <4>1. m[q] \o <<>> = m[q]
        BY <3>1, ConcatEmptySeq
      <4>. QED  BY <1>5, <2>3, <2>4, <4>1
    <3>4. g[q] = k[q]
      <4>1. k[q] \o <<>> = k[q]
        BY <1>2, <2>2, ConcatEmptySeq
      <4>. QED  BY <1>5, <2>3, <2>4, <4>1
    <3>5. g[q] = f[q] \o s
      BY <3>1, <3>2, <3>3, <3>4
    <3>. QED  BY <1>7, <2>1, <2>2, <3>5
  <2>5. CASE j # 0
    <3>1. g[j] = f[j] \o s /\ k[q] = m[q]
      BY <1>7, <1>9, <2>1, <2>2, <2>5 DEF WithLast
    <3>2. PICK a, b : a = m[q] /\ b = f[j]
      OBVIOUS
    <3>3. a \in Seq(U) /\ b \in Seq(U)
      BY <1>2, <1>3, <2>2, <3>2
    <3>4. (a \o b) \o s = a \o (b \o s)
      BY <1>2a, <3>3
    <3>5. g[q] = f[q] \o s
      BY <2>3, <3>1, <3>2, <3>4
    <3>. QED  BY <1>7, <2>1, <2>2, <3>5
  <2>. QED  BY <2>4, <2>5
<1>10. \A j \in 0 .. N : j \in A
  BY <1>8, <1>9, HoldsUpTo
<1>11. N \in 0 .. N
  OBVIOUS
<1>12. g[N] = f[N] \o s /\ f[N] \in Seq(U)
  BY <1>3, <1>7, <1>10, <1>11
<1>13. FromLast(m) = f[N]
  BY <1>0a, <1>1, <1>3, StackIs
<1>14. FromLast(k) = g[N]
  BY <1>0a, <1>1, <1>4, StackIs
<1>15. LeavesOf(f[N] \o s) = LeavesOf(f[N]) \o LeavesOf(s)
  <2>1. PICK a : a = f[N]
    OBVIOUS
  <2>2. a \in Seq(UpToGrade(N, d)) /\ s \in Seq(UpToGrade(N, d)) /\ N \in Nat
    BY <1>0, <1>6, <1>12, <2>1
  <2>3. LeavesOf(a \o s) = LeavesOf(a) \o LeavesOf(s)
    BY <2>2, LeavesConcat
  <2>. QED  BY <2>1, <2>3
<1>16. LeavesOf(s) = s
  BY <1>6, LeavesOfLeaves
<1>17. LeavesOf(f[N]) \in Seq(Grade(0, d))
  <2>1. N <= N
    OBVIOUS
  <2>. QED  BY <1>0, <1>12, <2>1, LeavesAt
<1>18. Append(LeavesOf(f[N]), x) = LeavesOf(f[N]) \o s
  BY <1>0, <1>17, AppendIsConcat
<1>. QED  BY <1>12, <1>13, <1>14, <1>15, <1>16, <1>18

(* The layers as they are flushed one after the other.                     *)
Flushes(f, full) ==
  /\ DOMAIN f = 0 .. Len(full) /\ f[0] = full
  /\ \A i \in 1 .. Len(full) : f[i] = Flush(f[i - 1], i)

LEMMA FlushRuns ==
  ASSUME NEW full, Len(full) \in Nat
  PROVE  \E f : Flushes(f, full) /\ Flushed(full) = f[Len(full)]
<1>0. PICK n \in Nat : n = Len(full)
  OBVIOUS
<1> DEFINE Runs(f, k) == /\ DOMAIN f = 0 .. k /\ f[0] = full
                         /\ \A i \in 1 .. k : f[i] = Flush(f[i - 1], i)
           A == {k \in 0 .. n : \E f : Runs(f, k)}
<1>1. 0 \in A
  <2>1. PICK f : f = [k \in 0 .. 0 |-> full]
    OBVIOUS
  <2>2. Runs(f, 0)
    BY <2>1
  <2>3. 0 \in 0 .. n
    OBVIOUS
  <2>. QED  BY <2>2, <2>3
<1>2. ASSUME NEW k \in 0 .. n - 1, k \in A PROVE k + 1 \in A
  <2>1. PICK f : Runs(f, k)
    BY <1>2
  <2>2. PICK j : j = k + 1
    OBVIOUS
  <2>3. k \in Nat /\ j \in Nat \ {0} /\ j - 1 = k /\ j \in 0 .. n
    BY <2>2
  <2>4. PICK g : g = [i \in 0 .. j |-> IF i = j THEN Flush(f[k], j) ELSE f[i]]
    OBVIOUS
  <2>5. \A i \in 0 .. k : g[i] = f[i]
    <3>1. \A i \in 0 .. k : i \in 0 .. j /\ i # j
      BY <2>2, <2>3
    <3>. QED  BY <2>4, <3>1
  <2>6. g[j] = Flush(f[k], j)
    BY <2>3, <2>4
  <2>7. Runs(g, j)
    <3>1. ASSUME NEW i \in 1 .. j PROVE g[i] = Flush(g[i - 1], i)
      <4>1. CASE i = j
        <5>1. g[i - 1] = f[k]
          BY <2>3, <2>5, <4>1
        <5>. QED  BY <2>6, <4>1, <5>1
      <4>2. CASE i # j
        <5>1. i \in 1 .. k /\ i \in 0 .. k /\ i - 1 \in 0 .. k
          BY <2>2, <2>3, <4>2
        <5>2. f[i] = Flush(f[i - 1], i)
          BY <2>1, <5>1
        <5>3. g[i] = f[i] /\ g[i - 1] = f[i - 1]
          BY <2>5, <5>1
        <5>. QED  BY <5>2, <5>3
      <4>. QED  BY <4>1, <4>2
    <3>2. DOMAIN g = 0 .. j
      BY <2>4
    <3>3. g[0] = full
      <4>1. 0 \in 0 .. k
        BY <2>3
      <4>. QED  BY <2>1, <2>5, <4>1
    <3>. QED  BY <3>1, <3>2, <3>3
  <2>. QED  BY <2>2, <2>3, <2>7
<1>3. n \in A
  <2> HIDE DEF A
  <2>1. \A k \in 0 .. n : k \in A
    BY <1>1, <1>2, HoldsUpTo
  <2>. QED  BY <2>1
<1>4. PICK f : Runs(f, n)
  BY <1>3
<1>5. PICK K : K = CHOOSE g : g = [i \in 0 .. n |-> IF i = 0 THEN full ELSE Flush(g[i - 1], i)]
  OBVIOUS
<1>6. PICK h : h = [i \in 0 .. n |-> f[i]]
  OBVIOUS
<1>7. \A i \in 0 .. n : h[i] = IF i = 0 THEN full ELSE Flush(h[i - 1], i)
  <2> TAKE i \in 0 .. n
  <2>1. CASE i = 0
    BY <1>4, <1>6, <2>1
  <2>2. CASE i # 0
    <3>1. i \in 1 .. n /\ i - 1 \in 0 .. n
      BY <2>2
    <3>2. f[i] = Flush(f[i - 1], i)
      BY <1>4, <3>1
    <3>. QED  BY <1>6, <2>2, <3>1, <3>2
  <2>. QED  BY <2>1, <2>2
<1>8. h = [i \in 0 .. n |-> IF i = 0 THEN full ELSE Flush(h[i - 1], i)]
  BY <1>6, <1>7
<1>9. K = [i \in 0 .. n |-> IF i = 0 THEN full ELSE Flush(K[i - 1], i)]
  BY <1>5, <1>8
<1>10. Flushes(K, full)
  <2>1. \A i \in 1 .. n : i \in 0 .. n /\ i # 0
    OBVIOUS
  <2>2. 0 \in 0 .. n
    OBVIOUS
  <2>3. \A i \in 0 .. n : K[i] = IF i = 0 THEN full ELSE Flush(K[i - 1], i)
    BY <1>9
  <2>4. DOMAIN K = 0 .. n
    BY <1>9
  <2>. QED  BY <1>0, <2>1, <2>2, <2>3, <2>4 DEF Flushes
<1>11. Flushed(full) = K[n]
  BY <1>0, <1>5 DEF Flushed
<1>. QED  BY <1>0, <1>10, <1>11

(* Every layer has room, but for at most one with nothing below it.        *)
Flushing(full, l, i, d) ==
  /\ Layered(l, d) /\ LeavesOf(FromLast(l)) = LeavesOf(FromLast(full))
  /\ Len(l) = Len(full) \/ (i = Len(full) /\ Len(l) = Len(full) + 1)
  /\ \A j \in 1 .. Len(l) : j # i + 1 => Len(l[j]) < d
  /\ i + 1 \in 1 .. Len(l) =>
       /\ Len(l[i + 1]) <= d
       /\ Len(l[i + 1]) = d => i < Len(full) /\ \A j \in 1 .. i : l[j] = <<>>

LEMMA Carried ==
  ASSUME NEW d \in Nat, NEW m, Layered(m, d), NEW M \in Nat, Len(m) = M,
         NEW h \in 1 .. M - 1, Len(m[h]) = d, \A j \in 1 .. h - 1 : m[j] = <<>>,
         NEW k, k = [m EXCEPT ![h] = <<>>, ![h + 1] = Append(@, Stem(m[h]))]
  PROVE  IsCarried(m, k, h, M, d)
<1>1. PICK q : q = h + 1
  OBVIOUS
<1>2. /\ h \in Nat /\ h - 1 \in Nat /\ h \in 1 .. M /\ q \in 1 .. M /\ q - 1 = h /\ q # h
      /\ h - 1 + 1 = h /\ M \in Nat \ {0}
  BY <1>1
<1>3. m \in Seq(Seq(UpToGrade(M, d))) /\ DOMAIN m = 1 .. M
  BY DEF Layered
<1>4. m[h] \in Seq(Grade(h - 1, d)) /\ m[q] \in Seq(Grade(q - 1, d))
  BY <1>2 DEF Layered
<1>5. k = [m EXCEPT ![h] = <<>>, ![q] = Append(@, Stem(m[h]))]
  BY <1>1
<1>6. /\ DOMAIN k = 1 .. M /\ k[h] = <<>> /\ k[q] = Append(m[q], Stem(m[h]))
      /\ \A j \in 1 .. M : j # h /\ j # q => k[j] = m[j]
  BY <1>2, <1>3, <1>5
<1>7. Stem(m[h]) \in Grade(q - 1, d)
  <2>1. PICK i, l : i = h - 1 /\ l = m[h] /\ i \in Nat
    BY <1>2
  <2>2. l \in Seq(Grade(i, d)) /\ Len(l) <= d
    BY <1>4, <2>1
  <2>3. Stem(l) \in Grade(i + 1, d)
    BY <2>1, <2>2, StemIsTree
  <2>. QED  BY <1>2, <2>1, <2>3
<1>8. ASSUME NEW j \in 1 .. M PROVE k[j] \in Seq(Grade(j - 1, d))
  <2>1. CASE j = h
    BY <1>6, <2>1, EmptySeq
  <2>2. CASE j = q
    <3>1. PICK S, a, b : S = Grade(q - 1, d) /\ a = m[q] /\ b = Stem(m[h])
      OBVIOUS
    <3>2. a \in Seq(S) /\ b \in S
      BY <1>4, <1>7, <3>1
    <3>3. Append(a, b) \in Seq(S)
      BY <3>2, AppendProperties
    <3>. QED  BY <1>6, <2>2, <3>1, <3>3
  <2>3. CASE j # h /\ j # q
    BY <1>6, <2>3 DEF Layered
  <2>. QED  BY <2>1, <2>2, <2>3
<1>9. k = [j \in 1 .. M |-> k[j]]
  BY <1>3, <1>5
<1>10. Layered(k, d) /\ Len(k) = M
  <2>1. \A j \in 1 .. M : k[j] \in Seq(Grade(j - 1, d))
    BY <1>8
  <2>2. DOMAIN k = 1 .. M /\ M \in Nat \ {0}
    BY <1>2, <1>6
  <2>3. AreLayers(k, M, d)
    BY <1>9, <2>1, <2>2 DEF AreLayers
  <2>. QED  BY <2>2, <2>3, LayeredIs
<1>11. k[h + 1] = Append(m[h + 1], Stem(m[h])) /\ Len(m[h]) <= d
  BY <1>1, <1>6
<1>12. \A j \in 1 .. M : j # h /\ j # h + 1 => k[j] = m[j]
  BY <1>1, <1>6
<1>13. k[h] = <<>>
  BY <1>6
<1>. QED  BY <1>10, <1>11, <1>12, <1>13, Zenon DEF IsCarried

LEMMA SeqIs ==
  ASSUME NEW S, NEW s \in Seq(S)
  PROVE  DOMAIN s = 1 .. Len(s) /\ s = [i \in 1 .. Len(s) |-> s[i]]
OBVIOUS

(* An empty layer above changes nothing.                                   *)
IsAbove(m, l) == m = Append(l, <<>>)

LEMMA LayerAbove ==
  ASSUME NEW d, NEW l, Layered(l, d), NEW m, IsAbove(m, l)
  PROVE  /\ Layered(m, d) /\ Len(m) = Len(l) + 1 /\ m[Len(l) + 1] = <<>>
         /\ \A j \in 1 .. Len(l) : m[j] = l[j]
         /\ LeavesOf(FromLast(m)) = LeavesOf(FromLast(l))
<1>0. PICK n, U : n = Len(l) /\ U = UpToGrade(n, d)
  OBVIOUS
<1>1. l \in Seq(Seq(U)) /\ n \in Nat \ {0}
  BY <1>0 DEF Layered
<1>2. PICK q : q = n + 1
  OBVIOUS
<1>3. <<>> \in Seq(U)
  BY EmptySeq
<1>4. m \in Seq(Seq(U)) /\ Len(m) = q /\ m[q] = <<>> /\ \A j \in 1 .. n : m[j] = l[j]
  BY <1>0, <1>1, <1>2, <1>3, AppendProperties DEF IsAbove
<1>5. AreLayers(m, q, d)
  <2>1. DOMAIN m = 1 .. q /\ m = [j \in 1 .. q |-> m[j]]
    <3>1. PICK S : S = Seq(U)
      OBVIOUS
    <3>2. m \in Seq(S) /\ Len(m) = q
      BY <1>4, <3>1
    <3>. QED  BY <3>2, SeqIs
  <2>2. ASSUME NEW j \in 1 .. q PROVE m[j] \in Seq(Grade(j - 1, d))
    <3>1. CASE j = q
      BY <1>4, <3>1, EmptySeq
    <3>2. CASE j # q
      <4>1. j \in 1 .. n
        BY <1>1, <1>2, <3>2
      <4>2. m[j] = l[j]
        BY <1>4, <4>1
      <4>. QED  BY <1>0, <4>1, <4>2 DEF Layered
    <3>. QED  BY <3>1, <3>2
  <2>. QED  BY <2>1, <2>2 DEF AreLayers
<1>6. q \in Nat \ {0}
  BY <1>1, <1>2
<1>7. Layered(m, d)
  BY <1>5, <1>6, LayeredIs
<1>8. FromLast(m) = FromLast(l)
  <2>1. FromLast(l) \in Seq(U)
    BY <1>1, StackType
  <2>2. FromLast(Append(l, <<>>)) = <<>> \o FromLast(l)
    BY <1>1, <1>3, StackAppend
  <2>3. <<>> \o FromLast(l) = FromLast(l)
    BY <2>1, ConcatEmptySeq
  <2>. QED  BY <2>2, <2>3 DEF IsAbove
<1>. QED  BY <1>0, <1>2, <1>4, <1>7, <1>8

LEMMA FlushOnce ==
  ASSUME NEW full, NEW n \in Nat \ {0}, Len(full) = n, degree \in Nat \ {0, 1},
         NEW i \in 0 .. n - 1, NEW l, Flushing(full, l, i, degree)
  PROVE  Flushing(full, Flush(l, i + 1), i + 1, degree)
<1>0. PICK d, h : d = degree /\ h = i + 1
  OBVIOUS
<1>1. /\ d \in Nat \ {0, 1} /\ h \in 1 .. n /\ h \in Nat /\ i # n /\ h # 0
      /\ h + 1 \in Nat /\ i \in Nat
  BY <1>0
<1>2. Len(l) = n /\ Layered(l, d) /\ LeavesOf(FromLast(l)) = LeavesOf(FromLast(full))
  BY <1>0, <1>1 DEF Flushing
<1>3. \A j \in 1 .. n : Len(l[j]) \in Nat
  <2>1. ASSUME NEW j \in 1 .. n PROVE l[j] \in Seq(Grade(j - 1, d))
    BY <1>2 DEF Layered
  <2>. QED  BY <2>1, LenProperties
<1>4. /\ \A j \in 1 .. n : j # h => Len(l[j]) < d
      /\ Len(l[h]) <= d
      /\ Len(l[h]) = d => \A j \in 1 .. h - 1 : l[j] = <<>>
  <2>1. /\ \A j \in 1 .. n : j # h => Len(l[j]) < d
        /\ h \in 1 .. n =>
             /\ Len(l[h]) <= d
             /\ Len(l[h]) = d => i < n /\ \A j \in 1 .. i : l[j] = <<>>
    BY <1>0, <1>2 DEF Flushing
  <2>2. h - 1 = i
    BY <1>0, <1>1
  <2>. QED  BY <1>1, <2>1, <2>2
<1>5. CASE Len(l[h]) < d
  <2>1. Flush(l, h) = l
    BY <1>0, <1>5 DEF Flush
  <2>2. \A j \in 1 .. n : Len(l[j]) < d
    BY <1>4, <1>5
  <2>3. ASSUME h + 1 \in 1 .. n
        PROVE  Len(l[h + 1]) <= d /\ Len(l[h + 1]) # d
    <3>1. PICK a : a = Len(l[h + 1])
      OBVIOUS
    <3>2. a < d /\ a \in Nat
      BY <1>3, <2>2, <2>3, <3>1
    <3>. QED  BY <1>1, <3>1, <3>2
  <2>4. Flushing(full, l, h, d)
    BY <1>2, <2>2, <2>3 DEF Flushing
  <2>. QED  BY <1>0, <2>1, <2>4
<1>6. CASE ~(Len(l[h]) < d)
  <2>1. Len(l[h]) = d
    <3>1. PICK a : a = Len(l[h])
      OBVIOUS
    <3>2. a \in Nat /\ a <= d
      BY <1>1, <1>3, <1>4, <3>1
    <3>. QED  BY <1>1, <1>6, <3>1, <3>2
  <2>2. \A j \in 1 .. h - 1 : l[j] = <<>>
    BY <1>4, <2>1
  <2>3. PICK m : m = IF h = n THEN Append(l, <<>>) ELSE l
    OBVIOUS
  <2>4. PICK M : M = IF h = n THEN n + 1 ELSE n
    OBVIOUS
  <2>5. /\ Layered(m, d) /\ Len(m) = M
        /\ LeavesOf(FromLast(m)) = LeavesOf(FromLast(l))
        /\ \A j \in 1 .. n : m[j] = l[j]
        /\ M = n + 1 => m[n + 1] = <<>>
    <3>1. CASE h = n
      <4>1. m = Append(l, <<>>) /\ M = n + 1
        BY <2>3, <2>4, <3>1
      <4>2. Layered(l, d) /\ IsAbove(m, l)
        BY <1>2, <4>1 DEF IsAbove
      <4>3. /\ Layered(m, d) /\ Len(m) = Len(l) + 1 /\ m[Len(l) + 1] = <<>>
            /\ \A j \in 1 .. Len(l) : m[j] = l[j]
            /\ LeavesOf(FromLast(m)) = LeavesOf(FromLast(l))
        BY <4>2, LayerAbove, Zenon
      <4>. QED  BY <1>2, <4>1, <4>3
    <3>2. CASE h # n
      <4>1. m = l /\ M = n
        BY <2>3, <2>4, <3>2
      <4>. QED  BY <1>2, <4>1
    <3>. QED  BY <3>1, <3>2
  <2>6. M \in Nat /\ h \in 1 .. M - 1 /\ h \in 1 .. M /\ 1 .. n \subseteq 1 .. M
    BY <1>1, <2>4
  <2>7. Len(m[h]) = d /\ \A j \in 1 .. h - 1 : m[j] = <<>>
    <3>1. \A j \in 1 .. h - 1 : j \in 1 .. n
      BY <1>1
    <3>. QED  BY <1>1, <2>1, <2>2, <2>5, <3>1
  <2>8. PICK k : k = [m EXCEPT ![h] = <<>>, ![h + 1] = Append(@, Stem(m[h]))]
    OBVIOUS
  <2>9. IsCarried(m, k, h, M, d)
    BY <1>1, <2>5, <2>6, <2>7, <2>8, Carried
  <2>10. Flush(l, h) = k
    <3>1. \A j \in 1 .. h - 1 : ~(l[j] # <<>>)
      BY <2>2
    <3>2. m[h] = l[h]
      BY <1>1, <2>5
    <3>3. ~(Len(l[h]) < degree \/ \E j \in 1 .. h - 1 : l[j] # <<>>)
      BY <1>0, <1>6, <3>1
    <3>4. m = IF h = Len(l) THEN Append(l, <<>>) ELSE l
      BY <1>2, <2>3
    <3>6. Flush(l, h) = [(IF h = Len(l) THEN Append(l, <<>>) ELSE l) EXCEPT
                           ![h] = <<>>, ![h + 1] = Append(@, Stem(l[h]))]
      BY <3>3, Zenon DEF Flush
    <3>5. Flush(l, h) = [m EXCEPT ![h] = <<>>, ![h + 1] = Append(@, Stem(l[h]))]
      BY <3>4, <3>6, Zenon
    <3>. QED  BY <2>8, <3>2, <3>5
  <2>11. LeavesOf(FromLast(k)) = LeavesOf(FromLast(full))
    BY <1>2, <2>5, <2>6, <2>9, CarryKeepsLeaves
  <2>12. Layered(k, d) /\ Len(k) = M /\ k[h] = <<>>
         /\ k[h + 1] = Append(m[h + 1], Stem(m[h]))
         /\ \A j \in 1 .. M : j # h /\ j # h + 1 => k[j] = m[j]
    BY <2>9 DEF IsCarried
  <2>13. \A j \in 1 .. M : j # h + 1 => Len(k[j]) < d
    <3>1. TAKE j \in 1 .. M
    <3>2. HAVE j # h + 1
    <3>3. CASE j = h
      BY <1>1, <2>12, <3>3, EmptySeq
    <3>4. CASE j # h
      <4>1. k[j] = m[j] /\ j \in 1 .. n
        BY <1>1, <2>4, <2>12, <3>2, <3>4
      <4>. QED  BY <1>4, <2>5, <3>4, <4>1
    <3>. QED  BY <3>3, <3>4
  <2>14. h + 1 \in 1 .. M => /\ Len(k[h + 1]) <= d
                             /\ Len(k[h + 1]) = d => h < n /\ \A j \in 1 .. h : k[j] = <<>>
    <3>1. PICK q, b, s : q = h + 1 /\ b = m[q] /\ s = Stem(m[h])
      OBVIOUS
    <3>2. q \in 1 .. M /\ k[q] = Append(b, s)
      BY <2>6, <2>12, <3>1
    <3>3. b \in Seq(Grade(q - 1, d))
      BY <2>5, <3>1, <3>2 DEF Layered
    <3>4. Len(k[q]) = Len(b) + 1 /\ Len(b) \in Nat
      <4>1. b \in Seq(Grade(q - 1, d) \cup {s}) /\ s \in Grade(q - 1, d) \cup {s}
        BY <3>3, SeqMonotonic
      <4>. QED  BY <3>2, <4>1, AppendProperties, LenProperties
    <3>5. \A j \in 1 .. h : k[j] = <<>>
      <4>1. TAKE j \in 1 .. h
      <4>2. CASE j = h
        BY <2>12, <4>2
      <4>3. CASE j # h
        <5>1. j \in 1 .. M /\ j \in 1 .. h - 1 /\ j # h + 1
          BY <1>1, <2>6, <4>3
        <5>. QED  BY <2>7, <2>12, <4>3, <5>1
      <4>. QED  BY <4>2, <4>3
    <3>6. CASE h = n
      <4>1. b = <<>>
        BY <2>4, <2>5, <3>1, <3>6
      <4>2. Len(k[q]) = 1
        BY <3>4, <4>1, EmptySeq
      <4>. QED  BY <1>1, <3>1, <4>2
    <3>7. CASE h # n
      <4>1. q \in 1 .. n /\ q # h /\ h < n
        BY <1>1, <2>4, <3>1, <3>2, <3>7
      <4>2. Len(b) < d
        BY <1>4, <2>5, <3>1, <4>1
      <4>3. Len(k[q]) <= d
        BY <1>1, <3>4, <4>2
      <4>. QED  BY <3>1, <3>5, <4>1, <4>3
    <3>. QED  BY <3>6, <3>7
  <2>15. M = n \/ (h = n /\ M = n + 1)
    BY <2>4
  <2>16. Flushing(full, k, h, d)
    BY <2>11, <2>12, <2>13, <2>14, <2>15 DEF Flushing
  <2>. QED  BY <1>0, <2>10, <2>16
<1>. QED  BY <1>5, <1>6

(* Layers a leaf can be added to, or that can be made into a root.         *)
HasRoom(l, d) ==
  /\ Layered(l, d) /\ Len(l[1]) <= d
  /\ \A j \in 2 .. Len(l) : Len(l[j]) < d

LEMMA FlushedIs ==
  ASSUME degree \in Nat \ {0, 1}, NEW l, HasRoom(l, degree), NEW m, m = Flushed(l)
  PROVE  /\ Layered(m, degree) /\ LeavesOf(FromLast(m)) = LeavesOf(FromLast(l))
         /\ Len(m) \in {Len(l), Len(l) + 1}
         /\ \A j \in 1 .. Len(m) : Len(m[j]) < degree
<1>0. PICK d, n : d = degree /\ n = Len(l)
  OBVIOUS
<1>1. n \in Nat \ {0} /\ Layered(l, d)
  BY <1>0 DEF HasRoom, Layered
<1>2. PICK f : Flushes(f, l) /\ Flushed(l) = f[n]
  BY <1>0, <1>1, FlushRuns
<1>3. PICK A : A = {i \in 0 .. n : Flushing(l, f[i], i, d)}
  OBVIOUS
<1>4. 0 \in A
  <2>1. f[0] = l
    BY <1>2 DEF Flushes
  <2>2. \A j \in 1 .. n : j # 0 + 1 => Len(l[j]) < d
    <3>1. \A j \in 1 .. n : j # 0 + 1 => j \in 2 .. n
      OBVIOUS
    <3>. QED  BY <1>0, <3>1 DEF HasRoom
  <2>3. Len(l[0 + 1]) <= d /\ 0 < n /\ \A j \in 1 .. 0 : l[j] = <<>>
    <3>1. 0 + 1 = 1 /\ 0 < n
      BY <1>1
    <3>. QED  BY <1>0, <3>1 DEF HasRoom
  <2>4. Flushing(l, l, 0, d)
    BY <1>0, <1>1, <2>2, <2>3 DEF Flushing
  <2>. QED  BY <1>1, <1>3, <2>1, <2>4
<1>5. ASSUME NEW i \in 0 .. n - 1, i \in A PROVE i + 1 \in A
  <2>1. PICK x, h : x = f[i] /\ h = i + 1
    OBVIOUS
  <2>2. Flushing(l, x, i, degree) /\ Len(l) = n
    BY <1>0, <1>3, <1>5, <2>1
  <2>3. Flushing(l, Flush(x, i + 1), i + 1, degree)
    BY <1>1, <2>2, FlushOnce
  <2>4. h \in 1 .. n /\ h \in 0 .. n /\ h - 1 = i
    BY <1>1, <2>1
  <2>5. f[h] = Flush(x, h)
    BY <1>0, <1>2, <2>1, <2>4 DEF Flushes
  <2>. QED  BY <1>0, <1>3, <2>1, <2>3, <2>4, <2>5
<1>6. \A i \in 0 .. n : i \in A
  BY <1>1, <1>4, <1>5, HoldsUpTo
<1>7. Flushing(l, m, n, d)
  <2>1. n \in 0 .. n /\ m = f[n]
    BY <1>1, <1>2
  <2>. QED  BY <1>3, <1>6, <2>1
<1>8. /\ Layered(m, d) /\ LeavesOf(FromLast(m)) = LeavesOf(FromLast(l))
      /\ Len(m) = n \/ Len(m) = n + 1
      /\ \A j \in 1 .. Len(m) : j # n + 1 => Len(m[j]) < d
      /\ n + 1 \in 1 .. Len(m) =>
           /\ Len(m[n + 1]) <= d
           /\ Len(m[n + 1]) = d => n < n
  BY <1>0, <1>7 DEF Flushing
<1>9. ASSUME NEW j \in 1 .. Len(m) PROVE Len(m[j]) < d
  <2>1. CASE j = n + 1
    <3>1. PICK a : a = Len(m[j])
      OBVIOUS
    <3>2. m[j] \in Seq(Grade(j - 1, d))
      BY <1>8 DEF Layered
    <3>3. a \in Nat
      BY <3>1, <3>2, LenProperties
    <3>4. a <= d /\ a # d
      BY <1>1, <1>8, <2>1, <3>1
    <3>. QED  BY <1>0, <3>1, <3>3, <3>4
  <2>. QED  BY <1>8, <2>1
<1>. QED  BY <1>0, <1>8, <1>9

LEMMA WithLeafIs ==
  ASSUME degree \in Nat \ {0, 1}, NEW l, HasRoom(l, degree),
         NEW bytes \in Seq(Nat), NEW m, m = WithLeaf(l, bytes)
  PROVE  /\ HasRoom(m, degree)
         /\ LeavesOf(FromLast(m)) = Append(LeavesOf(FromLast(l)), Raw(bytes))
<1>0. PICK d, f, x : d = degree /\ f = Flushed(l) /\ x = Raw(bytes)
  OBVIOUS
<1>1. PICK n : n = Len(f)
  OBVIOUS
<1>2. /\ Layered(f, d) /\ LeavesOf(FromLast(f)) = LeavesOf(FromLast(l))
      /\ \A j \in 1 .. n : Len(f[j]) < d
  BY <1>0, <1>1, FlushedIs
<1>3. /\ f \in Seq(Seq(UpToGrade(n, d))) /\ n \in Nat \ {0} /\ 1 \in 1 .. n
      /\ x \in Grade(0, d)
  BY <1>0, <1>1, <1>2, RawIsTree DEF Layered
<1>4. m = [f EXCEPT ![1] = Append(@, x)]
  BY <1>0 DEF WithLeaf
<1>5. DOMAIN f = 1 .. n /\ f = [j \in 1 .. n |-> f[j]]
  BY <1>1, <1>3, SeqIs
<1>6. /\ DOMAIN m = 1 .. n /\ m = [j \in 1 .. n |-> m[j]]
      /\ m[1] = Append(f[1], x) /\ \A j \in 1 .. n : j # 1 => m[j] = f[j]
  BY <1>3, <1>4, <1>5
<1>7. f[1] \in Seq(Grade(0, d)) /\ m[1] \in Seq(Grade(0, d)) /\ Len(m[1]) = Len(f[1]) + 1
  <2>1. f[1] \in Seq(Grade(1 - 1, d))
    BY <1>1, <1>2, <1>3 DEF Layered
  <2>2. PICK S, a : S = Grade(0, d) /\ a = f[1]
    OBVIOUS
  <2>3. a \in Seq(S) /\ x \in S
    BY <1>3, <2>1, <2>2
  <2>4. Append(a, x) \in Seq(S) /\ Len(Append(a, x)) = Len(a) + 1
    BY <2>3, AppendProperties
  <2>. QED  BY <1>6, <2>2, <2>3, <2>4
<1>8. AreLayers(m, n, d)
  <2>1. ASSUME NEW j \in 1 .. n PROVE m[j] \in Seq(Grade(j - 1, d))
    <3>1. CASE j = 1
      BY <1>7, <3>1
    <3>2. CASE j # 1
      BY <1>1, <1>2, <1>6, <3>2 DEF Layered
    <3>. QED  BY <3>1, <3>2
  <2>. QED  BY <1>6, <2>1 DEF AreLayers
<1>9. Layered(m, d) /\ Len(m) = n
  BY <1>3, <1>8, LayeredIs
<1>10. HasRoom(m, d)
  <2>1. PICK a : a = Len(f[1])
    OBVIOUS
  <2>2. a < d /\ a \in Nat /\ Len(m[1]) = a + 1
    BY <1>2, <1>3, <1>7, <2>1, LenProperties
  <2>3. Len(m[1]) <= d
    BY <1>0, <2>2
  <2>4. \A j \in 2 .. n : Len(m[j]) < d
    <3>1. \A j \in 2 .. n : j \in 1 .. n /\ j # 1
      OBVIOUS
    <3>. QED  BY <1>2, <1>6, <3>1
  <2>. QED  BY <1>9, <2>3, <2>4 DEF HasRoom
<1>11. WithLast(f, m, x, n, d)
  BY <1>1, <1>2, <1>6, <1>9 DEF WithLast
<1>12. LeavesOf(FromLast(m)) = Append(LeavesOf(FromLast(f)), x)
  BY <1>3, <1>11, LeafComesLast
<1>. QED  BY <1>0, <1>2, <1>10, <1>12

(* The branch from the leaves up to the root.                              *)
Rises(f, l) ==
  /\ DOMAIN f = 0 .. Len(l) /\ f[0] = <<>>
  /\ \A i \in 1 .. Len(l) : f[i] = <<Stem(l[i] \o f[i - 1])>>

LEMMA RootRuns ==
  ASSUME NEW l, Len(l) \in Nat, ~(Len(l) = 1 /\ Len(l[1]) = 1)
  PROVE  \E f : Rises(f, l) /\ Root(l) = f[Len(l)][1]
<1>0. PICK n \in Nat : n = Len(l)
  OBVIOUS
<1> DEFINE Runs(f, k) == /\ DOMAIN f = 0 .. k /\ f[0] = <<>>
                         /\ \A i \in 1 .. k : f[i] = <<Stem(l[i] \o f[i - 1])>>
           A == {k \in 0 .. n : \E f : Runs(f, k)}
<1>1. 0 \in A
  <2>1. PICK f : f = [k \in 0 .. 0 |-> <<>>]
    OBVIOUS
  <2>2. Runs(f, 0)
    BY <2>1
  <2>3. 0 \in 0 .. n
    OBVIOUS
  <2>. QED  BY <2>2, <2>3
<1>2. ASSUME NEW k \in 0 .. n - 1, k \in A PROVE k + 1 \in A
  <2>1. PICK f : Runs(f, k)
    BY <1>2
  <2>2. PICK j : j = k + 1
    OBVIOUS
  <2>3. k \in Nat /\ j \in Nat \ {0} /\ j - 1 = k /\ j \in 0 .. n
    BY <2>2
  <2>4. PICK g : g = [i \in 0 .. j |-> IF i = j THEN <<Stem(l[j] \o f[k])>> ELSE f[i]]
    OBVIOUS
  <2>5. \A i \in 0 .. k : g[i] = f[i]
    <3>1. \A i \in 0 .. k : i \in 0 .. j /\ i # j
      BY <2>2, <2>3
    <3>. QED  BY <2>4, <3>1
  <2>6. g[j] = <<Stem(l[j] \o f[k])>>
    BY <2>3, <2>4
  <2>7. Runs(g, j)
    <3>1. ASSUME NEW i \in 1 .. j PROVE g[i] = <<Stem(l[i] \o g[i - 1])>>
      <4>1. CASE i = j
        <5>1. g[i - 1] = f[k]
          BY <2>3, <2>5, <4>1
        <5>. QED  BY <2>6, <4>1, <5>1
      <4>2. CASE i # j
        <5>1. i \in 1 .. k /\ i \in 0 .. k /\ i - 1 \in 0 .. k
          BY <2>2, <2>3, <4>2
        <5>2. f[i] = <<Stem(l[i] \o f[i - 1])>>
          BY <2>1, <5>1
        <5>3. g[i] = f[i] /\ g[i - 1] = f[i - 1]
          BY <2>5, <5>1
        <5>. QED  BY <5>2, <5>3
      <4>. QED  BY <4>1, <4>2
    <3>2. DOMAIN g = 0 .. j
      BY <2>4
    <3>3. g[0] = <<>>
      <4>1. 0 \in 0 .. k
        BY <2>3
      <4>. QED  BY <2>1, <2>5, <4>1
    <3>. QED  BY <3>1, <3>2, <3>3
  <2>. QED  BY <2>2, <2>3, <2>7
<1>3. n \in A
  <2> HIDE DEF A
  <2>1. \A k \in 0 .. n : k \in A
    BY <1>1, <1>2, HoldsUpTo
  <2>. QED  BY <2>1
<1>4. PICK f : Runs(f, n)
  BY <1>3
<1>5. PICK K : K = CHOOSE g : g = [i \in 0 .. n |-> IF i = 0 THEN <<>> ELSE <<Stem(l[i] \o g[i - 1])>>]
  OBVIOUS
<1>6. PICK h : h = [i \in 0 .. n |-> f[i]]
  OBVIOUS
<1>7. \A i \in 0 .. n : h[i] = IF i = 0 THEN <<>> ELSE <<Stem(l[i] \o h[i - 1])>>
  <2> TAKE i \in 0 .. n
  <2>1. CASE i = 0
    BY <1>4, <1>6, <2>1
  <2>2. CASE i # 0
    <3>1. i \in 1 .. n /\ i - 1 \in 0 .. n
      BY <2>2
    <3>2. f[i] = <<Stem(l[i] \o f[i - 1])>>
      BY <1>4, <3>1
    <3>. QED  BY <1>6, <2>2, <3>1, <3>2
  <2>. QED  BY <2>1, <2>2
<1>8. h = [i \in 0 .. n |-> IF i = 0 THEN <<>> ELSE <<Stem(l[i] \o h[i - 1])>>]
  BY <1>6, <1>7
<1>9. K = [i \in 0 .. n |-> IF i = 0 THEN <<>> ELSE <<Stem(l[i] \o K[i - 1])>>]
  BY <1>5, <1>8
<1>10. Rises(K, l)
  <2>1. \A i \in 1 .. n : i \in 0 .. n /\ i # 0
    OBVIOUS
  <2>2. 0 \in 0 .. n
    OBVIOUS
  <2>3. \A i \in 0 .. n : K[i] = IF i = 0 THEN <<>> ELSE <<Stem(l[i] \o K[i - 1])>>
    BY <1>9
  <2>4. DOMAIN K = 0 .. n
    BY <1>9
  <2>. QED  BY <1>0, <2>1, <2>2, <2>3, <2>4 DEF Rises
<1>11. Root(l) = K[n][1]
  BY <1>0, <1>5 DEF Root
<1>. QED  BY <1>0, <1>10, <1>11

(* A node on the branch stands for all that is below it.                   *)
Rooted(b, s, k, d) ==
  \E x \in Grade(k, d) : b = <<x>> /\ LeavesOf(b) = LeavesOf(s)

LEMMA RootIs ==
  ASSUME NEW d \in Nat \ {0, 1}, NEW l, HasRoom(l, d)
  PROVE  \E k \in 0 .. Len(l) : /\ Root(l) \in Grade(k, d)
                                /\ LeavesOf(<<Root(l)>>) = LeavesOf(FromLast(l))
<1>0. PICK n, U : n = Len(l) /\ U = UpToGrade(n, d)
  OBVIOUS
<1>1. l \in Seq(Seq(U)) /\ n \in Nat \ {0} /\ 1 \in 1 .. n /\ 0 \in 0 .. n /\ n \in 0 .. n /\ n \in 1 .. n
  BY <1>0 DEF HasRoom, Layered
<1>2. /\ \A j \in 1 .. n : l[j] \in Seq(Grade(j - 1, d))
      /\ Len(l[1]) <= d /\ \A j \in 2 .. n : Len(l[j]) < d
  BY <1>0 DEF HasRoom, Layered
<1>3. \A j \in 1 .. n : l[j] \in Seq(U)
  BY <1>0, <1>1, ElementOfSeq
<1>4. PICK g \in [0 .. n -> Seq(U)] : Stacks(g, l)
  BY <1>0, <1>1, StackRuns
<1>5. g[0] = <<>> /\ \A j \in 1 .. n : g[j] = l[j] \o g[j - 1]
  BY <1>0, <1>4 DEF Stacks
<1>6. FromLast(l) = g[n]
  BY <1>0, <1>1, <1>4, StackIs
<1>7. l[1] \in Seq(Grade(0, d)) /\ 1 - 1 = 0
  BY <1>1, <1>2
<1>8. CASE Len(l) = 1 /\ Len(l[1]) = 1
  <2>1. PICK x, a : a = l[1] /\ x = a[1]
    OBVIOUS
  <2>2. Root(l) = x
    BY <1>8, <2>1 DEF Root
  <2>3. a \in Seq(Grade(0, d)) /\ 1 \in 1 .. Len(a) /\ Len(a) = 1
    BY <1>7, <1>8, <2>1
  <2>4. x \in Grade(0, d)
    BY <2>1, <2>3, ElementOfSeq
  <2>5. a = <<x>>
    BY <2>1, <2>3
  <2>6. FromLast(l) = a
    <3>1. g[1] = a \o <<>>
      BY <1>1, <1>5, <1>7, <2>1
    <3>2. a \o <<>> = a
      BY <2>3, ConcatEmptySeq
    <3>. QED  BY <1>0, <1>6, <1>8, <3>1, <3>2
  <2>. QED  BY <1>0, <1>1, <2>2, <2>4, <2>5, <2>6
<1>9. CASE ~(Len(l) = 1 /\ Len(l[1]) = 1)
  <2>1. PICK f : Rises(f, l) /\ Root(l) = f[n][1]
    BY <1>0, <1>1, <1>9, RootRuns
  <2>2. f[0] = <<>> /\ \A i \in 1 .. n : f[i] = <<Stem(l[i] \o f[i - 1])>>
    BY <1>0, <2>1 DEF Rises
  <2>3. PICK A : A = {i \in 0 .. n : i # 0 => Rooted(f[i], g[i], i, d)}
    OBVIOUS
  <2>4. 0 \in A
    BY <1>1, <2>3
  <2>5. ASSUME NEW i \in 0 .. n - 1, i \in A PROVE i + 1 \in A
    <3>1. PICK h, a, b, c : h = i + 1 /\ a = l[h] /\ b = f[i] /\ c = g[i]
      OBVIOUS
    <3>2. h \in 1 .. n /\ h \in 0 .. n /\ h - 1 = i /\ i \in Nat /\ i \in 0 .. n /\ h # 0 /\ n \in Nat
      BY <1>1, <3>1
    <3>3. f[h] = <<Stem(a \o b)>> /\ g[h] = a \o c
      BY <1>5, <2>2, <3>1, <3>2
    <3>4. a \in Seq(Grade(i, d)) /\ a \in Seq(U)
      BY <1>2, <1>3, <3>1, <3>2
    <3>5. /\ b \in Seq(Grade(i, d)) /\ LeavesOf(b) = LeavesOf(c)
          /\ Len(a) + Len(b) <= d
      <4>1. CASE i = 0
        <5>1. b = <<>> /\ c = <<>> /\ h = 1
          BY <1>5, <2>2, <3>1, <4>1
        <5>2. Len(a) <= d /\ Len(a) \in Nat /\ Len(b) = 0
          BY <1>2, <3>1, <3>4, <5>1, EmptySeq, LenProperties
        <5>3. Len(a) + Len(b) <= d
          BY <5>2
        <5>. QED  BY <5>1, <5>3, EmptySeq
      <4>2. CASE i # 0
        <5>1. Rooted(b, c, i, d)
          BY <2>3, <2>5, <3>1, <4>2
        <5>2. PICK x \in Grade(i, d) : b = <<x>> /\ LeavesOf(b) = LeavesOf(c)
          BY <5>1 DEF Rooted
        <5>3. b \in Seq(Grade(i, d)) /\ Len(b) = 1
          BY <5>2
        <5>4. h \in 2 .. n
          BY <3>1, <3>2, <4>2
        <5>5. Len(a) < d /\ Len(a) \in Nat
          BY <1>2, <3>1, <3>4, <5>4, LenProperties
        <5>6. Len(a) + Len(b) <= d
          BY <5>3, <5>5
        <5>. QED  BY <5>2, <5>3, <5>6
      <4>. QED  BY <4>1, <4>2
    <3>6. a \o b \in Seq(Grade(i, d)) /\ Len(a \o b) <= d
      <4>1. a \o b \in Seq(Grade(i, d)) /\ Len(a \o b) = Len(a) + Len(b)
        BY <3>4, <3>5, ConcatProperties
      <4>. QED  BY <3>5, <4>1
    <3>7. Stem(a \o b) \in Grade(i + 1, d) /\ LeavesOf(<<Stem(a \o b)>>) = LeavesOf(a \o b)
      <4>1. PICK s : s = a \o b
        OBVIOUS
      <4>2. s \in Seq(Grade(i, d)) /\ Len(s) <= d
        BY <3>6, <4>1
      <4>3. Stem(s) \in Grade(i + 1, d)
        BY <3>2, <4>2, StemIsTree
      <4>4. LeavesOf(<<Stem(s)>>) = LeavesOf(s)
        BY <3>2, <4>2, LeavesOfStem
      <4>. QED  BY <4>1, <4>3, <4>4
    <3>8. LeavesOf(a \o b) = LeavesOf(a \o c)
      <4>1. b \in Seq(U) /\ c \in Seq(U)
        <5>1. b \in Seq(UpToGrade(n, d))
          BY <3>2, <3>5, GradeUpTo
        <5>. QED  BY <1>0, <1>4, <3>1, <3>2, <5>1
      <4>2. a \in Seq(UpToGrade(n, d)) /\ b \in Seq(UpToGrade(n, d)) /\ c \in Seq(UpToGrade(n, d))
        BY <1>0, <3>4, <4>1
      <4>3. LeavesOf(a \o b) = LeavesOf(a) \o LeavesOf(b)
        BY <3>2, <4>2, LeavesConcat
      <4>4. LeavesOf(a \o c) = LeavesOf(a) \o LeavesOf(c)
        BY <3>2, <4>2, LeavesConcat
      <4>. QED  BY <3>5, <4>3, <4>4
    <3>9. Rooted(f[h], g[h], h, d)
      BY <3>1, <3>3, <3>7, <3>8 DEF Rooted
    <3>. QED  BY <2>3, <3>1, <3>2, <3>9
  <2>6. \A i \in 0 .. n : i \in A
    BY <1>1, <2>4, <2>5, HoldsUpTo
  <2>7. Rooted(f[n], g[n], n, d)
    BY <1>1, <2>3, <2>6
  <2>8. PICK x \in Grade(n, d) : f[n] = <<x>> /\ LeavesOf(f[n]) = LeavesOf(g[n])
    BY <2>7 DEF Rooted
  <2>9. Root(l) = x
    BY <2>1, <2>8
  <2>. QED  BY <1>0, <1>1, <1>6, <2>8, <2>9
<1>. QED  BY <1>8, <1>9

--------------------------------------------------------------------------------
LEMMA CutSeq ==
  ASSUME NEW S, NEW s \in Seq(S), NEW n \in 0 .. Len(s)
  PROVE  /\ SubSeq(s, 1, n) \in Seq(S) /\ Len(SubSeq(s, 1, n)) = n
         /\ SubSeq(s, n + 1, Len(s)) \in Seq(S) /\ Len(SubSeq(s, n + 1, Len(s))) = Len(s) - n
         /\ SubSeq(s, 1, n) \o SubSeq(s, n + 1, Len(s)) = s
<1>0. PICK l : l = Len(s)
  OBVIOUS
<1>1. l \in Nat /\ n \in Nat /\ 1 \in Int /\ n \in Int /\ l \in Int /\ n + 1 \in Int
  BY <1>0, LenProperties
<1>2. /\ \A i \in 1 .. n : s[i] \in S
      /\ \A i \in n + 1 .. l : s[i] \in S
  <2>1. \A i \in 1 .. l : s[i] \in S
    BY <1>0, ElementOfSeq
  <2>2. 1 .. n \subseteq 1 .. l /\ n + 1 .. l \subseteq 1 .. l
    BY <1>0, <1>1
  <2>. QED  BY <2>1, <2>2
<1>3. SubSeq(s, 1, n) \in Seq(S) /\ Len(SubSeq(s, 1, n)) = IF 1 <= n THEN n - 1 + 1 ELSE 0
  BY <1>1, <1>2, SubSeqProperties
<1>4. /\ SubSeq(s, n + 1, l) \in Seq(S)
      /\ Len(SubSeq(s, n + 1, l)) = IF n + 1 <= l THEN l - (n + 1) + 1 ELSE 0
  BY <1>1, <1>2, SubSeqProperties
<1>5. SubSeq(s, 1, n) \o SubSeq(s, n + 1, l) = SubSeq(s, 1, l)
  <2>1. 1 \in 1 .. l + 1 /\ n \in 1 - 1 .. l /\ l \in n .. l
    BY <1>0, <1>1
  <2>. QED  BY <1>0, <2>1, ConcatAdjacentSubSeq
<1>6. SubSeq(s, 1, l) = s
  BY <1>0, SubSeqFull
<1>7. Len(SubSeq(s, 1, n)) = n
  BY <1>1, <1>3
<1>8. Len(SubSeq(s, n + 1, l)) = l - n
  BY <1>0, <1>1, <1>4
<1>. QED  BY <1>0, <1>3, <1>4, <1>5, <1>6, <1>7, <1>8

LEMMA DataAppend ==
  ASSUME NEW d, NEW s \in Seq(Grade(0, d)), NEW b \in Seq(Nat)
  PROVE  DataOf(Append(s, Raw(b))) = DataOf(s) \o b
<1>1. PICK x, t : x = Raw(b) /\ t = <<x>>
  OBVIOUS
<1>2. x \in Grade(0, d) /\ t \in Seq(Grade(0, d))
  BY <1>1, RawIsTree
<1>3. Append(s, x) = s \o t
  BY <1>1, <1>2, AppendIsConcat
<1>4. DataOf(s \o t) = DataOf(s) \o DataOf(t)
  BY <1>2, DataConcat
<1>5. DataOf(t) = b
  <2>1. LeavesOf(t) = t
    BY <1>2, LeavesOfLeaves
  <2>2. BytesOf(t) = b
    BY <1>1, BytesOfRaw
  <2>. QED  BY <2>1, <2>2 DEF BytesOf
<1>. QED  BY <1>1, <1>3, <1>4, <1>5

(* Leaves that are full chunks, and those of a whole file.                 *)
AreFull(s, size) == \A i \in 1 .. Len(s) : Len(s[i].data) = size
AreChunks(s, size) ==
  \A i \in 1 .. Len(s) :
    IF i < Len(s) THEN Len(s[i].data) = size ELSE Len(s[i].data) \in 1 .. size

LEMMA FullIsChunks ==
  ASSUME NEW s, NEW size \in Nat \ {0}, AreFull(s, size)
  PROVE  AreChunks(s, size)
<1>1. ASSUME NEW i \in 1 .. Len(s)
      PROVE  IF i < Len(s) THEN Len(s[i].data) = size ELSE Len(s[i].data) \in 1 .. size
  <2>1. Len(s[i].data) = size
    BY DEF AreFull
  <2>. QED  BY <2>1
<1>. QED  BY <1>1 DEF AreChunks

LEMMA ChunkAppend ==
  ASSUME NEW d, NEW s \in Seq(Grade(0, d)), NEW size \in Nat \ {0}, AreFull(s, size),
         NEW b \in Seq(Nat), Len(b) \in 1 .. size
  PROVE  /\ AreChunks(Append(s, Raw(b)), size)
         /\ Len(b) = size => AreFull(Append(s, Raw(b)), size)
<1>1. PICK x, t, n, G : x = Raw(b) /\ t = Append(s, x) /\ n = Len(s) /\ G = Grade(0, d)
  OBVIOUS
<1>2. x \in G /\ s \in Seq(G) /\ n \in Nat /\ x.data = b
  BY <1>1, RawIsTree, LenProperties DEF Raw
<1>3. Len(t) = n + 1 /\ t[n + 1] = x /\ \A i \in 1 .. n : t[i] = s[i]
  BY <1>1, <1>2, AppendProperties
<1>4. ASSUME NEW i \in 1 .. n + 1
      PROVE  IF i < n + 1 THEN Len(t[i].data) = size ELSE t[i].data = b
  <2>1. CASE i < n + 1
    <3>1. i \in 1 .. n
      BY <1>2, <2>1
    <3>2. t[i] = s[i] /\ Len(s[i].data) = size
      BY <1>1, <1>3, <3>1 DEF AreFull
    <3>. QED  BY <2>1, <3>2
  <2>2. CASE ~(i < n + 1)
    <3>1. i = n + 1
      BY <1>2, <2>2
    <3>. QED  BY <1>2, <1>3, <2>2, <3>1
  <2>. QED  BY <2>1, <2>2
<1>5. AreChunks(t, size)
  BY <1>3, <1>4 DEF AreChunks
<1>6. ASSUME Len(b) = size PROVE AreFull(t, size)
  BY <1>3, <1>4, <1>6 DEF AreFull
<1>. QED  BY <1>1, <1>5, <1>6

--------------------------------------------------------------------------------
(* While a file is built: the leaves so far, then what the chunker holds,  *)
(* then what was not read yet are the content; afterwards the root is.     *)
BuildInv ==
  /\ content \in Seq(Nat) /\ source \in Seq(Nat) /\ buffer \in Seq(Nat)
  /\ chunk_size \in Nat \ {0} /\ degree \in Nat \ {0, 1}
  /\ HasRoom(layers, degree)
  /\ file = Nothing =>
       /\ BytesOf(FromLast(layers)) \o buffer \o source = content
       /\ AreFull(LeavesOf(FromLast(layers)), chunk_size)
  /\ file # Nothing =>
       /\ source = <<>> /\ buffer = <<>>
       /\ \E k \in 0 .. Len(layers) : file \in Grade(k, degree)
       /\ BytesOf(<< file >>) = content
       /\ AreChunks(LeavesOf(<< file >>), chunk_size)

(* No layers, no leaves.                                                   *)
LEMMA NoLayers ==
  ASSUME NEW d \in Nat \ {0, 1}
  PROVE  /\ HasRoom(<< <<>> >>, d) /\ FromLast(<< <<>> >>) = <<>>
         /\ LeavesOf(<<>>) = <<>> /\ BytesOf(<<>>) = <<>>
<1>1. PICK l, n : l = << <<>> >> /\ n = 1
  OBVIOUS
<1>2. /\ DOMAIN l = 1 .. n /\ l = [i \in 1 .. n |-> l[i]] /\ n \in Nat \ {0} /\ l[1] = <<>>
  BY <1>1
<1>3. AreLayers(l, n, d)
  <2>1. ASSUME NEW i \in 1 .. n PROVE l[i] \in Seq(Grade(i - 1, d))
    <3>1. l[i] = <<>>
      BY <1>1, <1>2
    <3>. QED  BY <3>1, EmptySeq
  <2>. QED  BY <1>2, <2>1 DEF AreLayers
<1>4. Layered(l, d) /\ Len(l) = n
  BY <1>2, <1>3, LayeredIs
<1>5. HasRoom(l, d)
  <2>1. Len(l[1]) = 0
    BY <1>2, EmptySeq
  <2>2. Len(l[1]) <= d
    BY <2>1
  <2>3. \A j \in 2 .. Len(l) : FALSE
    BY <1>1, <1>4
  <2>. QED  BY <1>4, <2>2, <2>3 DEF HasRoom
<1>6. FromLast(l) = <<>>
  <2>1. PICK e, s : e = << >> /\ s = << >>
    OBVIOUS
  <2>2. e \in Seq(Seq({})) /\ s \in Seq({})
    BY <2>1, EmptySeq
  <2>3. FromLast(Append(e, s)) = s \o FromLast(e)
    BY <2>2, StackAppend
  <2>4. Append(e, s) = l
    BY <1>1, <2>1
  <2>5. s \o FromLast(e) = <<>>
    <3>1. FromLast(e) = s
      BY <2>1, StackEmpty
    <3>2. s \o <<>> = s
      BY <2>2, ConcatEmptySeq
    <3>. QED  BY <2>1, <3>1, <3>2
  <2>. QED  BY <2>3, <2>4, <2>5
<1>7. LeavesOf(<<>>) = <<>>
  <2>1. <<>> \in Seq(Grade(0, d))
    BY EmptySeq
  <2>. QED  BY <2>1, LeavesOfLeaves
<1>. QED  BY <1>1, <1>5, <1>6, <1>7, NoBytes

LEMMA InitBuild ==
  Init => BuildInv
<1> SUFFICES ASSUME Init PROVE BuildInv
  OBVIOUS
<1>1. /\ source = content /\ buffer = <<>> /\ layers = << <<>> >> /\ file = Nothing
      /\ chunk_size \in Nat \ {0} /\ degree \in Nat \ {0, 1}
  BY UnixFsAssumption DEF Init, Start
<1>2. content \in Seq(Nat)
  <2>1. PICK n \in Lengths : content = [i \in 1 .. n |-> i]
    BY DEF Init
  <2>2. n \in Nat
    BY UnixFsAssumption
  <2>3. content \in [1 .. n -> Nat]
    BY <2>1, <2>2
  <2>. QED  BY <2>2, <2>3, FunctionIsSeq
<1>3. HasRoom(layers, degree) /\ FromLast(layers) = <<>>
  BY <1>1, NoLayers
<1>4. LeavesOf(<<>>) = <<>> /\ BytesOf(<<>>) = <<>>
  BY <1>1, NoLayers
<1>5. BytesOf(FromLast(layers)) \o buffer \o source = content
  <2>1. <<>> \o <<>> = <<>>
    BY EmptySeq, ConcatEmptySeq
  <2>2. <<>> \o content = content
    BY <1>2, ConcatEmptySeq
  <2>. QED  BY <1>1, <1>3, <1>4, <2>1, <2>2
<1>6. AreFull(LeavesOf(FromLast(layers)), chunk_size)
  <2>1. \A i \in 1 .. Len(<<>>) : FALSE
    BY EmptySeq
  <2>. QED  BY <1>3, <1>4, <2>1 DEF AreFull
<1>7. <<>> \in Seq(Nat)
  BY EmptySeq
<1>. QED  BY <1>1, <1>2, <1>3, <1>5, <1>6, <1>7 DEF BuildInv

LEMMA BuildFailsBuild ==
  BuildInv /\ BuildFails => BuildInv'
<1> SUFFICES ASSUME BuildInv, BuildFails PROVE BuildInv'
  OBVIOUS
<1>1. /\ source' = content /\ buffer' = <<>> /\ layers' = << <<>> >> /\ file' = file
      /\ file = Nothing
      /\ content' = content /\ chunk_size' = chunk_size /\ degree' = degree
      /\ content \in Seq(Nat) /\ chunk_size \in Nat \ {0} /\ degree \in Nat \ {0, 1}
  BY DEF BuildFails, BuildInv, params
<1>2. PICK l : l = << <<>> >>
  OBVIOUS
<1>3. HasRoom(l, degree) /\ FromLast(l) = <<>> /\ LeavesOf(<<>>) = <<>> /\ BytesOf(<<>>) = <<>>
  BY <1>1, <1>2, NoLayers
<1>4. BytesOf(FromLast(l)) \o <<>> \o content = content
  <2>1. <<>> \o <<>> = <<>>
    BY EmptySeq, ConcatEmptySeq
  <2>2. <<>> \o content = content
    BY <1>1, ConcatEmptySeq
  <2>. QED  BY <1>3, <2>1, <2>2
<1>5. AreFull(LeavesOf(FromLast(l)), chunk_size)
  <2>1. \A i \in 1 .. Len(<<>>) : FALSE
    BY EmptySeq
  <2>. QED  BY <1>3, <2>1 DEF AreFull
<1>6. <<>> \in Seq(Nat)
  BY EmptySeq
<1>. QED  BY <1>1, <1>2, <1>3, <1>4, <1>5, <1>6 DEF BuildInv

(* A tree is not the empty value.                                          *)
LEMMA TreeIsSome ==
  ASSUME NEW n \in Nat, NEW d, NEW x \in Grade(n, d)
  PROVE  x # Nothing
<1>1. x.type = "raw" \/ x.type = "node"
  BY TreeIs
<1>2. Nothing.type = "none"
  BY DEF Nothing
<1>. QED  BY <1>1, <1>2

(* The bytes of the nodes without a parent.                                *)
LEMMA LayersType ==
  ASSUME NEW l, NEW d, HasRoom(l, d)
  PROVE  /\ Len(l) \in Nat \ {0}
         /\ FromLast(l) \in Seq(UpToGrade(Len(l), d))
         /\ LeavesOf(FromLast(l)) \in Seq(Grade(0, d))
         /\ BytesOf(FromLast(l)) \in Seq(Nat)
<1>1. PICK n : n = Len(l)
  OBVIOUS
<1>2. n \in Nat \ {0} /\ l \in Seq(Seq(UpToGrade(n, d)))
  BY <1>1 DEF HasRoom, Layered
<1>3. PICK s : s = FromLast(l)
  OBVIOUS
<1>4. s \in Seq(UpToGrade(n, d)) /\ n \in Nat
  BY <1>2, <1>3, StackType
<1>5. LeavesOf(s) \in Seq(Grade(0, d))
  BY <1>4, LeavesAt
<1>6. BytesOf(s) \in Seq(Nat)
  BY <1>4, BytesType
<1>. QED  BY <1>1, <1>2, <1>3, <1>4, <1>5, <1>6

LEMMA JoinBytes ==
  \A a, b, c \in Seq(Nat) : (a \o b) \o c = a \o (b \o c)
BY ConcatAssociative

LEMMA ReadSourceBuild ==
  ASSUME BuildInv, NEW n \in 0 .. Len(source), ReadSource(n)
  PROVE  BuildInv'
<1>1. PICK bytes : bytes = buffer \o SubSeq(source, 1, n)
  OBVIOUS
<1>2. /\ content' = content /\ chunk_size' = chunk_size /\ degree' = degree
      /\ file = Nothing /\ (n = 0 => source = <<>>)
      /\ source' = SubSeq(source, n + 1, Len(source))
  BY DEF ReadSource, params
<1>3. /\ content \in Seq(Nat) /\ source \in Seq(Nat) /\ buffer \in Seq(Nat)
      /\ chunk_size \in Nat \ {0} /\ degree \in Nat \ {0, 1}
      /\ HasRoom(layers, degree)
      /\ BytesOf(FromLast(layers)) \o buffer \o source = content
      /\ AreFull(LeavesOf(FromLast(layers)), chunk_size)
  BY <1>2 DEF BuildInv
<1>4. PICK lv, D, t, d, size : /\ lv = LeavesOf(FromLast(layers)) /\ D = DataOf(lv)
                               /\ t = SubSeq(source, n + 1, Len(source))
                               /\ d = degree /\ size = chunk_size
  OBVIOUS
<1>5. lv \in Seq(Grade(0, d)) /\ D \in Seq(Nat) /\ D = BytesOf(FromLast(layers))
  BY <1>3, <1>4, LayersType DEF BytesOf
<1>6. bytes \in Seq(Nat) /\ t \in Seq(Nat) /\ buffer \o source = bytes \o t
  <2>1. PICK b, s, h : b = buffer /\ s = source /\ h = SubSeq(source, 1, n)
    OBVIOUS
  <2>2. h \in Seq(Nat) /\ t \in Seq(Nat) /\ h \o t = s
    BY <1>3, <1>4, <2>1, CutSeq
  <2>3. b \o h \in Seq(Nat)
    BY <1>3, <2>1, <2>2, ConcatProperties
  <2>4. (b \o h) \o t = b \o (h \o t)
    BY <1>3, <2>1, <2>2, JoinBytes
  <2>. QED  BY <1>1, <2>1, <2>2, <2>3, <2>4
<1>7. D \o (bytes \o t) = content
  <2>1. PICK b, s : b = buffer /\ s = source
    OBVIOUS
  <2>2. (D \o b) \o s = D \o (b \o s)
    BY <1>3, <1>5, <2>1, JoinBytes
  <2>. QED  BY <1>3, <1>5, <1>6, <2>1, <2>2
<1>8. Len(bytes) \in Nat
  BY <1>6, LenProperties
<1>9. CASE Len(bytes) >= chunk_size
  <2>1. PICK chunk, rest : chunk = NextChunk(bytes) /\ rest = SubSeq(bytes, Len(NextChunk(bytes)) + 1, Len(bytes))
    OBVIOUS
  <2>2. layers' = WithLeaf(layers, chunk) /\ buffer' = rest /\ file' = file
    <3>0. ~(Len(bytes) < chunk_size)
      BY <1>3, <1>8, <1>9
    <3>1. layers' = WithLeaf(layers, NextChunk(bytes))
      BY <1>1, <1>9, <3>0 DEF ReadSource
    <3>2. buffer' = SubSeq(bytes, Len(NextChunk(bytes)) + 1, Len(bytes)) /\ UNCHANGED file
      BY <1>1, <1>9, <3>0 DEF ReadSource
    <3>. QED  BY <2>1, <3>1, <3>2
  <2>3. chunk \in Seq(Nat) /\ Len(chunk) = size /\ rest \in Seq(Nat) /\ chunk \o rest = bytes
    <3>1. size \in 0 .. Len(bytes) /\ chunk = SubSeq(bytes, 1, size)
      BY <1>3, <1>4, <1>8, <1>9, <2>1 DEF NextChunk
    <3>2. chunk \in Seq(Nat) /\ Len(chunk) = size
      BY <1>6, <3>1, CutSeq
    <3>3. rest = SubSeq(bytes, size + 1, Len(bytes))
      BY <2>1, <3>2
    <3>4. rest \in Seq(Nat) /\ chunk \o rest = bytes
      BY <1>6, <3>1, <3>3, CutSeq
    <3>. QED  BY <3>2, <3>4
  <2>4. PICK m : m = WithLeaf(layers, chunk)
    OBVIOUS
  <2>5. HasRoom(m, degree) /\ LeavesOf(FromLast(m)) = Append(LeavesOf(FromLast(layers)), Raw(chunk))
    BY <1>3, <2>3, <2>4, WithLeafIs
  <2>6. BytesOf(FromLast(m)) = D \o chunk
    <3>1. DataOf(Append(lv, Raw(chunk))) = DataOf(lv) \o chunk
      BY <1>5, <2>3, DataAppend
    <3>. QED  BY <1>4, <2>5, <3>1 DEF BytesOf
  <2>7. (D \o chunk) \o rest \o t = content
    <3>1. (D \o chunk) \o rest = D \o (chunk \o rest)
      BY <1>5, <2>3, JoinBytes
    <3>2. (D \o bytes) \o t = D \o (bytes \o t)
      BY <1>5, <1>6, JoinBytes
    <3>. QED  BY <1>7, <2>3, <3>1, <3>2
  <2>8. AreFull(LeavesOf(FromLast(m)), size)
    <3>1. Len(chunk) \in 1 .. size /\ size \in Nat \ {0} /\ AreFull(lv, size)
      BY <1>3, <1>4, <2>3
    <3>2. AreFull(Append(lv, Raw(chunk)), size)
      BY <1>5, <2>3, <3>1, ChunkAppend
    <3>. QED  BY <1>4, <2>5, <3>2
  <2>. QED  BY <1>2, <1>3, <1>4, <1>6, <2>2, <2>3, <2>4, <2>5, <2>6, <2>7, <2>8 DEF BuildInv
<1>10. CASE Len(bytes) < chunk_size /\ n > 0
  <2>1. ~(Len(bytes) >= chunk_size)
    BY <1>3, <1>8, <1>10
  <2>2. buffer' = bytes /\ layers' = layers /\ file' = file
    BY <1>1, <1>10, <2>1 DEF ReadSource
  <2>3. (D \o bytes) \o t = D \o (bytes \o t)
    BY <1>5, <1>6, JoinBytes
  <2>4. BytesOf(FromLast(layers)) \o bytes \o t = content
    BY <1>5, <1>7, <2>3
  <2>. QED  BY <1>2, <1>3, <1>4, <1>6, <2>2, <2>4 DEF BuildInv
<1>11. CASE Len(bytes) < chunk_size /\ ~(n > 0)
  <2>1. ~(Len(bytes) >= chunk_size)
    BY <1>3, <1>8, <1>11
  <2>2. PICK m : m = IF bytes = <<>> THEN layers ELSE WithLeaf(layers, bytes)
    OBVIOUS
  <2>3. layers' = m /\ buffer' = <<>> /\ file' = Root(m)
    BY <1>1, <1>11, <2>1, <2>2 DEF ReadSource, Root
  <2>4. t = <<>>
    <3>1. n = 0 /\ source = <<>>
      BY <1>2, <1>11
    <3>2. Len(source) = 0
      BY <3>1, EmptySeq
    <3>. QED  BY <1>4, <3>1, <3>2, SubSeqEmpty
  <2>5. D \o bytes = content
    <3>1. bytes \o <<>> = bytes
      BY <1>6, ConcatEmptySeq
    <3>. QED  BY <1>7, <2>4, <3>1
  <2>6. /\ HasRoom(m, degree) /\ DataOf(LeavesOf(FromLast(m))) = content
        /\ AreChunks(LeavesOf(FromLast(m)), size)
    <3>1. CASE bytes = <<>>
      <4>1. m = layers
        BY <2>2, <3>1
      <4>2. D \o <<>> = D
        BY <1>5, ConcatEmptySeq
      <4>3. AreChunks(lv, size)
        BY <1>3, <1>4, FullIsChunks
      <4>. QED  BY <1>3, <1>4, <2>5, <3>1, <4>1, <4>2, <4>3
    <3>2. CASE bytes # <<>>
      <4>1. m = WithLeaf(layers, bytes)
        BY <2>2, <3>2
      <4>2. HasRoom(m, degree) /\ LeavesOf(FromLast(m)) = Append(LeavesOf(FromLast(layers)), Raw(bytes))
        BY <1>3, <1>6, <4>1, WithLeafIs
      <4>3. DataOf(Append(lv, Raw(bytes))) = DataOf(lv) \o bytes
        BY <1>5, <1>6, DataAppend
      <4>4. Len(bytes) \in 1 .. size /\ size \in Nat \ {0} /\ AreFull(lv, size)
        <5>1. Len(bytes) # 0
          BY <1>6, <3>2, EmptySeq
        <5>. QED  BY <1>3, <1>4, <1>8, <1>11, <5>1
      <4>5. AreChunks(Append(lv, Raw(bytes)), size)
        BY <1>5, <1>6, <4>4, ChunkAppend
      <4>. QED  BY <1>4, <2>5, <4>2, <4>3, <4>5
    <3>. QED  BY <3>1, <3>2
  <2>7. PICK r : r = Root(m)
    OBVIOUS
  <2>8. PICK k \in 0 .. Len(m) : r \in Grade(k, degree) /\ LeavesOf(<<r>>) = LeavesOf(FromLast(m))
    BY <1>3, <2>6, <2>7, RootIs
  <2>9. r # Nothing
    <3>1. k \in Nat
      OBVIOUS
    <3>. QED  BY <2>8, <3>1, TreeIsSome
  <2>10. BytesOf(<<r>>) = content
    BY <2>6, <2>8 DEF BytesOf
  <2>11. \E i \in 0 .. Len(m) : r \in Grade(i, degree)
    BY <2>8
  <2>12. AreChunks(LeavesOf(<<r>>), size)
    BY <2>6, <2>8
  <2>13. <<>> \in Seq(Nat)
    BY EmptySeq
  <2>. QED  BY <1>2, <1>3, <1>4, <2>3, <2>4, <2>6, <2>7, <2>9, <2>10, <2>11, <2>12, <2>13 DEF BuildInv
<1>12. \/ Len(bytes) >= chunk_size
       \/ Len(bytes) < chunk_size /\ n > 0
       \/ Len(bytes) < chunk_size /\ ~(n > 0)
  BY <1>3, <1>8
<1>. QED  BY <1>9, <1>10, <1>11, <1>12

--------------------------------------------------------------------------------
(* What is left of a stack of lists without the empty ones on top of it.   *)
IsTop(ls, top, S) ==
  /\ ls \in Seq(Seq(S)) /\ top \in 0 .. Len(ls)
  /\ \A j \in top + 1 .. Len(ls) : ls[j] = <<>>

LEMMA StackTop ==
  ASSUME NEW S, NEW ls, NEW top, IsTop(ls, top, S)
  PROVE  FromLast(ls) = FromLast(SubSeq(ls, 1, top))
<1>0. PICK n : n = Len(ls)
  OBVIOUS
<1>1. /\ ls \in Seq(Seq(S)) /\ n \in Nat /\ top \in 0 .. n /\ top \in Nat
      /\ \A j \in top + 1 .. n : ls[j] = <<>>
  BY <1>0 DEF IsTop
<1>2. PICK f \in [0 .. n -> Seq(S)] : Stacks(f, ls)
  BY <1>0, <1>1, StackRuns
<1>3. f[0] = <<>> /\ \A i \in 1 .. n : f[i] = ls[i] \o f[i - 1]
  BY <1>0, <1>2 DEF Stacks
<1>4. FromLast(ls) = f[n]
  BY <1>0, <1>1, <1>2, StackIs
<1>5. f[n] = f[top]
  <2>1. PICK m, A : m = n - top /\ A = {i \in 0 .. m : f[top + i] = f[top]}
    OBVIOUS
  <2>2. m \in Nat /\ 0 \in 0 .. m /\ m \in 0 .. m /\ top + 0 = top /\ top + m = n
    BY <1>1, <2>1
  <2>3. 0 \in A
    BY <2>1, <2>2
  <2>4. ASSUME NEW i \in 0 .. m - 1, i \in A PROVE i + 1 \in A
    <3>1. PICK q, p : q = top + (i + 1) /\ p = top + i
      OBVIOUS
    <3>2. q \in 1 .. n /\ q \in top + 1 .. n /\ q - 1 = p /\ p \in 0 .. n /\ i + 1 \in 0 .. m
      BY <1>1, <2>1, <2>2, <3>1
    <3>3. f[q] = <<>> \o f[p]
      BY <1>1, <1>3, <3>2
    <3>4. f[p] \in Seq(S)
      BY <1>2, <3>2
    <3>5. <<>> \o f[p] = f[p]
      BY <3>4, ConcatEmptySeq
    <3>6. f[p] = f[top]
      BY <2>1, <2>4, <3>1
    <3>. QED  BY <2>1, <3>1, <3>2, <3>3, <3>5, <3>6
  <2>5. \A i \in 0 .. m : i \in A
    BY <2>2, <2>3, <2>4, HoldsUpTo
  <2>. QED  BY <2>1, <2>2, <2>5
<1>6. FromLast(SubSeq(ls, 1, top)) = f[top]
  <2>1. PICK t, g : t = SubSeq(ls, 1, top) /\ g = [i \in 0 .. top |-> f[i]]
    OBVIOUS
  <2>2. t \in Seq(Seq(S)) /\ Len(t) = top
    BY <1>0, <1>1, <2>1, CutSeq
  <2>3. \A i \in 1 .. top : t[i] = ls[i]
    <3>1. \A i \in 1 .. top : ls[i] \in Seq(S)
      <4>1. \A i \in 1 .. top : i \in 1 .. n
        BY <1>1
      <4>. QED  BY <1>0, <1>1, <4>1, ElementOfSeq
    <3>2. 1 \in Int /\ top \in Int
      BY <1>1
    <3>3. \A i \in 1 .. top - 1 + 1 : t[i] = ls[1 + i - 1]
      BY <2>1, <3>1, <3>2, SubSeqProperties
    <3>4. \A i \in 1 .. top : i \in 1 .. top - 1 + 1 /\ 1 + i - 1 = i
      BY <1>1
    <3>. QED  BY <3>3, <3>4
  <2>4. Stacks(g, t)
    <3>1. ASSUME NEW i \in 1 .. top PROVE g[i] = t[i] \o g[i - 1]
      <4>1. i \in 0 .. top /\ i - 1 \in 0 .. top /\ i \in 1 .. n
        BY <1>1
      <4>. QED  BY <1>3, <2>1, <2>3, <4>1
    <3>2. DOMAIN g = 0 .. top /\ g[0] = <<>>
      BY <1>1, <1>3, <2>1
    <3>. QED  BY <2>2, <3>1, <3>2 DEF Stacks
  <2>5. FromLast(t) = g[top]
    BY <2>2, <2>4, StackIs
  <2>6. g[top] = f[top]
    BY <1>1, <2>1
  <2>. QED  BY <2>1, <2>5, <2>6
<1>. QED  BY <1>4, <1>5, <1>6

(* The list on top, and what is below it.                                  *)
LEMMA StackPop ==
  ASSUME NEW S, NEW ls, NEW top, IsTop(ls, top, S), top # 0
  PROVE  /\ ls[top] \in Seq(S) /\ SubSeq(ls, 1, top - 1) \in Seq(Seq(S))
         /\ FromLast(ls) = ls[top] \o FromLast(SubSeq(ls, 1, top - 1))
<1>1. ls \in Seq(Seq(S)) /\ Len(ls) \in Nat /\ top \in 1 .. Len(ls) /\ top - 1 \in 0 .. Len(ls)
  BY DEF IsTop
<1>2. PICK a, s : a = SubSeq(ls, 1, top - 1) /\ s = ls[top]
  OBVIOUS
<1>3. a \in Seq(Seq(S)) /\ s \in Seq(S)
  <2>1. PICK m : m = top - 1
    OBVIOUS
  <2>2. SubSeq(ls, 1, m) \in Seq(Seq(S))
    BY <1>1, <2>1, CutSeq
  <2>. QED  BY <1>1, <1>2, <2>1, <2>2, ElementOfSeq
<1>4. SubSeq(ls, 1, top) = Append(a, s)
  BY <1>1, <1>2, SubSeqStep
<1>5. FromLast(Append(a, s)) = s \o FromLast(a)
  BY <1>3, StackAppend
<1>6. FromLast(ls) = FromLast(SubSeq(ls, 1, top))
  BY StackTop
<1>7. FromLast(ls) = s \o FromLast(a)
  BY <1>4, <1>5, <1>6
<1>. QED  BY <1>2, <1>3, <1>7

--------------------------------------------------------------------------------
(* The nodes s hold the content from an offset on.                         *)
Suffix(o, s) ==
  /\ o \in 0 .. Len(content)
  /\ BytesOf(s) = SubSeq(content, o + 1, Len(content))

LEMMA SuffixDrop ==
  ASSUME content \in Seq(Nat), NEW o, NEW s, Suffix(o, s),
         NEW a \in Seq(Nat), NEW b \in Seq(Nat), BytesOf(s) = a \o b,
         NEW t, BytesOf(t) = b
  PROVE  Suffix(o + Len(a), t)
<1>0. PICK c, L, m, h : c = content /\ L = Len(c) /\ m = Len(a) /\ h = Len(b)
  OBVIOUS
<1>1. /\ c \in Seq(Nat) /\ L \in Nat /\ m \in Nat /\ h \in Nat /\ o \in 0 .. L /\ o \in Nat
      /\ a \o b = SubSeq(c, o + 1, L)
  BY <1>0, LenProperties DEF Suffix
<1>2. Len(a \o b) = m + h /\ \A i \in 1 .. m + h : (a \o b)[i] = IF i <= m THEN a[i] ELSE b[i - m]
  BY <1>0, ConcatProperties
<1>3. \A i \in 1 .. L : c[i] \in Nat
  BY <1>0, <1>1, ElementOfSeq
<1>4. o + 1 \in Int /\ L \in Int /\ \A i \in o + 1 .. L : c[i] \in Nat
  BY <1>1, <1>3
<1>5. /\ Len(SubSeq(c, o + 1, L)) = IF o + 1 <= L THEN L - (o + 1) + 1 ELSE 0
      /\ \A i \in 1 .. L - (o + 1) + 1 : SubSeq(c, o + 1, L)[i] = c[o + 1 + i - 1]
  BY <1>4, SubSeqProperties
<1>6. m + h = L - o
  BY <1>1, <1>2, <1>5
<1>7. PICK p : p = o + m
  OBVIOUS
<1>8. p \in 0 .. L /\ p \in Nat /\ L - p = h /\ p + 1 \in Int
  BY <1>1, <1>6, <1>7
<1>9. /\ SubSeq(c, p + 1, L) \in Seq(Nat) /\ Len(SubSeq(c, p + 1, L)) = h
      /\ \A i \in 1 .. h : SubSeq(c, p + 1, L)[i] = c[p + i]
  <2>1. \A i \in p + 1 .. L : c[i] \in Nat
    BY <1>3, <1>8
  <2>2. /\ SubSeq(c, p + 1, L) \in Seq(Nat)
        /\ Len(SubSeq(c, p + 1, L)) = IF p + 1 <= L THEN L - (p + 1) + 1 ELSE 0
        /\ \A i \in 1 .. L - (p + 1) + 1 : SubSeq(c, p + 1, L)[i] = c[p + 1 + i - 1]
    BY <1>4, <1>8, <2>1, SubSeqProperties
  <2>3. Len(SubSeq(c, p + 1, L)) = h
    BY <1>1, <1>8, <2>2
  <2>4. \A i \in 1 .. h : i \in 1 .. L - (p + 1) + 1 /\ p + 1 + i - 1 = p + i
    BY <1>1, <1>8
  <2>. QED  BY <2>2, <2>3, <2>4
<1>10. \A i \in 1 .. h : b[i] = SubSeq(c, p + 1, L)[i]
  <2>1. TAKE i \in 1 .. h
  <2>2. PICK q : q = m + i
    OBVIOUS
  <2>3. /\ q \in 1 .. m + h /\ ~(q <= m) /\ q - m = i /\ q \in 1 .. L - (o + 1) + 1
        /\ o + 1 + q - 1 = p + i
    BY <1>1, <1>6, <1>7, <2>2
  <2>4. (a \o b)[q] = b[i]
    BY <1>2, <2>3
  <2>5. (a \o b)[q] = c[p + i]
    BY <1>1, <1>5, <2>3
  <2>. QED  BY <1>9, <2>4, <2>5
<1>11. b = SubSeq(c, p + 1, L)
  <2>1. PICK u : u = SubSeq(c, p + 1, L)
    OBVIOUS
  <2>2. u \in Seq(Nat) /\ Len(u) = h /\ Len(b) = h /\ \A i \in 1 .. Len(b) : b[i] = u[i]
    BY <1>0, <1>9, <1>10, <2>1
  <2>3. b = u
    BY <2>2, SameSeq
  <2>. QED  BY <2>1, <2>3
<1>. QED  BY <1>0, <1>7, <1>8, <1>11 DEF Suffix

LEMMA SuffixAll ==
  ASSUME content \in Seq(Nat), NEW s, BytesOf(s) = content
  PROVE  Suffix(0, s)
<1>1. SubSeq(content, 1, Len(content)) = content
  BY SubSeqFull
<1>2. 0 \in 0 .. Len(content) /\ 0 + 1 = 1
  BY LenProperties
<1>. QED  BY <1>1, <1>2 DEF Suffix

--------------------------------------------------------------------------------
(* What a reader may be.                                                   *)
IsPlace(p, pos, U) ==
  \/ p = Outer
  \/ \E o \in 0 .. pos : p = Requested(o)
  \/ \E o \in 0 .. pos : \E x \in U : p = Loading(o, x)
  \/ \E o \in 0 .. pos : \E x \in Raws : p = Loaded(o, pos - o, x)

IsReader(r, U) ==
  /\ r = [pos |-> r.pos, pos_max |-> r.pos_max, node |-> r.node,
          links |-> r.links, failed |-> r.failed]
  /\ r.pos \in Nat /\ r.pos_max \in {NoMax} \cup Nat
  /\ r.links \in Seq(Seq(U))
  /\ IsPlace(r.node, r.pos, U)

(* What it has still to read is the content from its node's offset on.     *)
InPlace(r) ==
  /\ r.node = Outer => r.links = << RootLinks >>
  /\ r.node.at = "requested" => Suffix(r.node.offset, FromLast(r.links))
  /\ r.node.at \in {"loading", "loaded"} =>
       Suffix(r.node.offset, << r.node.node >> \o FromLast(r.links))

Nodes == UpToGrade(Len(layers), degree)

ReaderInv ==
  /\ file = Nothing => reader = Nothing
  /\ reader = Nothing => call = Nothing /\ last = Nothing
  /\ call # Nothing => last = Nothing /\ \E room \in Nat \ {0} : call = [room |-> room]
  /\ reader # Nothing =>
       /\ IsReader(reader, Nodes) /\ (IsRaw => reader.node = Outer)
       /\ ~reader.failed => InPlace(reader)

IInv == BuildInv /\ ReaderInv /\ ReadsAreContent

(* What ReadsAreContent says of one answer.                                *)
IsAnswer(from, bytes, pos_max) ==
  LET end  == IF pos_max = NoMax THEN Len(content) ELSE Smallest({pos_max, Len(content)})
      upto == from + Len(bytes)
  IN pos_max = NoMax \/ from <= pos_max =>
       /\ bytes = SubSeq(content, from + 1, upto)
       /\ bytes = <<>> \/ upto <= end
       /\ bytes = <<>> => from >= end

LEMMA AnswersAreContent ==
  ReadsAreContent <=>
    (last # Nothing /\ ~reader.failed => IsAnswer(last.from, last.bytes, reader.pos_max))
BY DEF ReadsAreContent, IsAnswer

LEMMA SmallestIs ==
  ASSUME NEW S, S \subseteq Nat, S # {}
  PROVE  Smallest(S) \in S /\ \A n \in S : Smallest(S) <= n
<1>1. \E m \in S : \A n \in S : m <= n
  BY LeastOf
<1>. QED  BY <1>1 DEF Smallest

(* Readers and answers are not the empty value.                            *)
LEMMA ReaderIsSome ==
  /\ \A a, b, c, d, e :
       [pos |-> a, pos_max |-> b, node |-> c, links |-> d, failed |-> e] # Nothing
  /\ \A a : [room |-> a] # Nothing
  /\ \A a, b : [from |-> a, bytes |-> b] # Nothing
<1>1. DOMAIN Nothing = {"type"}
  BY DEF Nothing
<1>2. ASSUME NEW a, NEW b, NEW c, NEW d, NEW e
      PROVE  [pos |-> a, pos_max |-> b, node |-> c, links |-> d, failed |-> e] # Nothing
  <2>1. "pos" \in DOMAIN [pos |-> a, pos_max |-> b, node |-> c, links |-> d, failed |-> e]
    OBVIOUS
  <2>. QED  BY <1>1, <2>1
<1>3. ASSUME NEW a PROVE [room |-> a] # Nothing
  <2>1. "room" \in DOMAIN [room |-> a]
    OBVIOUS
  <2>. QED  BY <1>1, <2>1
<1>4. ASSUME NEW a, NEW b PROVE [from |-> a, bytes |-> b] # Nothing
  <2>1. "from" \in DOMAIN [from |-> a, bytes |-> b]
    OBVIOUS
  <2>. QED  BY <1>1, <2>1
<1>. QED  BY <1>2, <1>3, <1>4

(* The root and what it links to.                                          *)
LEMMA RootIsRead ==
  ASSUME BuildInv, file # Nothing
  PROVE  /\ RootLinks \in Seq(Nodes) /\ file.filesize \in Nat
         /\ IsRaw => /\ RootLinks = <<>> /\ file.data = content
                     /\ file.filesize = Len(content)
         /\ ~IsRaw => BytesOf(RootLinks) = content
<1>0. PICK n, d : n = Len(layers) /\ d = degree
  OBVIOUS
<1>1. n \in Nat /\ d \in Nat /\ content \in Seq(Nat) /\ BytesOf(<<file>>) = content
  BY <1>0, LayersType DEF BuildInv
<1>2. PICK k \in 0 .. n : file \in Grade(k, d)
  BY <1>0 DEF BuildInv
<1>3. k \in Nat
  BY <1>1
<1>4. \/ /\ k = 0 /\ file.type = "raw" /\ file.data \in Seq(Nat)
         /\ file = Raw(file.data) /\ file.filesize = Len(file.data)
      \/ /\ k # 0 /\ file.type = "node" /\ file.links \in Seq(Grade(k - 1, d))
         /\ Len(file.links) <= d /\ file = Stem(file.links)
  BY <1>2, <1>3, TreeIs
<1>5. CASE k = 0
  <2>1. file.type = "raw" /\ file.data \in Seq(Nat) /\ file = Raw(file.data)
        /\ file.filesize = Len(file.data)
    BY <1>4, <1>5
  <2>2. BytesOf(<<Raw(file.data)>>) = file.data
    BY <2>1, BytesOfRaw
  <2>3. file.data = content
    BY <1>1, <2>1, <2>2
  <2>4. Len(content) \in Nat /\ <<>> \in Seq(Nodes)
    BY <1>1, LenProperties, EmptySeq
  <2>. QED  BY <2>1, <2>3, <2>4 DEF IsRaw, RootLinks
<1>6. CASE k # 0
  <2>1. PICK l, j : l = file.links /\ j = k - 1
    OBVIOUS
  <2>2. /\ file.type = "node" /\ l \in Seq(Grade(j, d)) /\ Len(l) <= d /\ file = Stem(l)
        /\ j \in Nat /\ j \in 0 .. n
    BY <1>1, <1>3, <1>4, <1>6, <2>1
  <2>3. l \in Seq(UpToGrade(n, d))
    BY <1>1, <2>2, GradeUpTo
  <2>4. BytesOf(<<Stem(l)>>) = BytesOf(l)
    BY <2>2, BytesOfStem
  <2>5. file.filesize \in Nat
    <3>1. Sized(k, d)
      BY <1>3, NodesAreSized
    <3>2. file.filesize = Len(BytesOf(<<file>>))
      BY <1>2, <3>1 DEF Sized
    <3>. QED  BY <1>1, <3>2, LenProperties
  <2>6. ~IsRaw /\ RootLinks = l
    BY <2>1, <2>2 DEF IsRaw, RootLinks
  <2>. QED  BY <1>0, <1>1, <2>2, <2>3, <2>4, <2>5, <2>6 DEF Nodes
<1>. QED  BY <1>5, <1>6

(* Bytes at a position of the content, none only at its end.               *)
IsNext(d, pos) ==
  /\ d \in Seq(Nat) /\ d = SubSeq(content, pos + 1, pos + Len(d))
  /\ Len(d) = 0 \/ pos + Len(d) <= Len(content)
  /\ Len(d) = 0 => pos >= Len(content)

LEMMA TakenAnswers ==
  ASSUME content \in Seq(Nat), reader.pos \in Nat, reader.pos_max \in {NoMax} \cup Nat,
         call.room \in Nat \ {0}, NEW d, IsNext(d, reader.pos)
  PROVE  /\ Taken(d) \in Seq(Nat) /\ Len(Taken(d)) \in 0 .. Len(d)
         /\ IsAnswer(reader.pos, Taken(d), reader.pos_max)
<1>0. PICK p, M, L, m, room, c : /\ p = reader.pos /\ M = reader.pos_max /\ L = Len(c)
                                 /\ m = Len(d) /\ room = call.room /\ c = content
  OBVIOUS
<1>1. /\ p \in Nat /\ L \in Nat /\ m \in Nat /\ room \in Nat \ {0} /\ c \in Seq(Nat)
      /\ d \in Seq(Nat) /\ d = SubSeq(c, p + 1, p + m)
      /\ m = 0 \/ p + m <= L
      /\ m = 0 => p >= L
      /\ M = -1 \/ M \in Nat
  BY <1>0, LenProperties DEF IsNext, NoMax
<1>2. PICK most : most = IF M = -1 \/ M < p THEN m ELSE M - p
  OBVIOUS
<1>3. most \in Nat
  BY <1>1, <1>2
<1>4. PICK S, k : S = {most, room, m} /\ k = Smallest(S)
  OBVIOUS
<1>5. k \in S /\ k <= most /\ k <= room /\ k <= m
  <2>1. S \subseteq Nat /\ S # {} /\ most \in S /\ room \in S /\ m \in S
    BY <1>1, <1>3, <1>4
  <2>. QED  BY <1>4, <2>1, SmallestIs
<1>6. k \in Nat /\ k \in 0 .. m
  BY <1>1, <1>3, <1>4, <1>5
<1>7. PICK b : b = SubSeq(d, 1, k)
  OBVIOUS
<1>8. Taken(d) = b
  BY <1>0, <1>2, <1>4, <1>7 DEF Taken, NoMax
<1>9. b \in Seq(Nat) /\ Len(b) = k
  <2>1. d \in Seq(Nat) /\ k \in 0 .. Len(d)
    BY <1>0, <1>1, <1>6
  <2>2. SubSeq(d, 1, k) \in Seq(Nat) /\ Len(SubSeq(d, 1, k)) = k
    BY <2>1, CutSeq
  <2>. QED  BY <1>7, <2>2
<1>10. (b = <<>>) <=> (k = 0)
  <2>1. b = <<>> => Len(b) = 0
    BY EmptySeq
  <2>2. b # <<>> => Len(b) # 0
    BY <1>9, EmptySeq
  <2>. QED  BY <1>9, <2>1, <2>2
<1>11. b = SubSeq(c, p + 1, p + k)
  <2>1. CASE k = 0
    <3>1. SubSeq(c, p + 1, p + k) = <<>>
      <4>1. p + 1 \in Int /\ p + k \in Int /\ p + k < p + 1
        BY <1>1, <1>6, <2>1
      <4>. QED  BY <4>1, SubSeqEmpty
    <3>. QED  BY <1>10, <2>1, <3>1
  <2>2. CASE k # 0
    <3>0. PICK f, e, h : f = p + 1 /\ e = p + m /\ h = p + k
      OBVIOUS
    <3>1. /\ h <= e /\ e <= L /\ f \in Int /\ e \in Int /\ h \in Int
          /\ f .. h \subseteq 1 .. L /\ f .. e \subseteq 1 .. L
      BY <1>1, <1>6, <2>2, <3>0
    <3>2. \A i \in 1 .. L : c[i] \in Nat
      BY <1>0, <1>1, ElementOfSeq
    <3>3. (\A i \in f .. h : c[i] \in Nat) /\ (\A i \in f .. e : c[i] \in Nat)
      BY <3>1, <3>2
    <3>4. \A i \in 1 .. e - f + 1 : SubSeq(c, f, e)[i] = c[f + i - 1]
      BY <3>1, <3>3, SubSeqProperties
    <3>5. /\ SubSeq(c, f, h) \in Seq(Nat)
          /\ Len(SubSeq(c, f, h)) = IF f <= h THEN h - f + 1 ELSE 0
          /\ \A i \in 1 .. h - f + 1 : SubSeq(c, f, h)[i] = c[f + i - 1]
      BY <3>1, <3>3, SubSeqProperties
    <3>6. \A i \in 1 .. k - 1 + 1 : SubSeq(d, 1, k)[i] = d[1 + i - 1]
      <4>1. \A i \in 1 .. m : d[i] \in Nat
        BY <1>0, <1>1, ElementOfSeq
      <4>2. \A i \in 1 .. k : d[i] \in Nat
        <5>1. 1 .. k \subseteq 1 .. m
          BY <1>1, <1>6
        <5>. QED  BY <4>1, <5>1
      <4>3. 1 \in Int /\ k \in Int
        BY <1>6
      <4>. QED  BY <4>2, <4>3, SubSeqProperties
    <3>7. PICK u : u = SubSeq(c, f, h)
      OBVIOUS
    <3>8. u \in Seq(Nat) /\ Len(u) = k
      <4>1. f <= h /\ h - f + 1 = k
        BY <1>1, <1>6, <2>2, <3>0
      <4>. QED  BY <3>5, <3>7, <4>1
    <3>9. \A i \in 1 .. k : b[i] = u[i]
      <4>1. TAKE i \in 1 .. k
      <4>2. /\ i \in 1 .. e - f + 1 /\ i \in 1 .. h - f + 1
            /\ i \in 1 .. k - 1 + 1 /\ 1 + i - 1 = i
        BY <1>1, <1>6, <3>0
      <4>3. b[i] = d[i]
        BY <1>7, <3>6, <4>2
      <4>4. d[i] = c[f + i - 1]
        BY <1>1, <3>0, <3>4, <4>2
      <4>5. u[i] = c[f + i - 1]
        BY <3>5, <3>7, <4>2
      <4>. QED  BY <4>3, <4>4, <4>5
    <3>10. b = u
      BY <1>9, <3>8, <3>9, SameSeq
    <3>. QED  BY <3>0, <3>7, <3>10
  <2>. QED  BY <2>1, <2>2
<1>12. PICK end : end = IF M = -1 THEN L ELSE Smallest({M, L})
  OBVIOUS
<1>13. end <= L /\ (M # -1 => end <= M) /\ (end = L \/ (M # -1 /\ end = M)) /\ end \in Int
  <2>1. CASE M = -1
    BY <1>1, <1>12, <2>1
  <2>2. CASE M # -1
    <3>1. PICK T : T = {M, L}
      OBVIOUS
    <3>2. T \subseteq Nat /\ T # {} /\ M \in T /\ L \in T
      BY <1>1, <2>2, <3>1
    <3>3. Smallest(T) \in T /\ Smallest(T) <= M /\ Smallest(T) <= L
      BY <3>2, SmallestIs
    <3>. QED  BY <1>1, <1>12, <2>2, <3>1, <3>2, <3>3
  <2>. QED  BY <2>1, <2>2
<1>14. ASSUME M = -1 \/ p <= M
       PROVE  (k = 0 \/ p + k <= end) /\ (k = 0 => p >= end)
  <2>1. k = 0 \/ p + k <= end
    <3>1. M # -1 => k <= M - p
      BY <1>1, <1>2, <1>5, <1>14
    <3>2. k # 0 => p + k <= L
      BY <1>1, <1>6
    <3>. QED  BY <1>1, <1>6, <1>13, <3>1, <3>2
  <2>2. ASSUME k = 0 PROVE p >= end
    <3>1. most = 0 \/ m = 0
      BY <1>1, <1>4, <1>5, <2>2
    <3>2. CASE m = 0
      BY <1>1, <1>13, <3>2
    <3>3. CASE most = 0 /\ m # 0
      <4>1. M # -1 /\ M - p = 0
        BY <1>1, <1>2, <3>3
      <4>. QED  BY <1>1, <1>13, <4>1
    <3>. QED  BY <3>1, <3>2, <3>3
  <2>. QED  BY <2>1, <2>2
<1>15. IsAnswer(p, b, M)
  <2>1. M = -1 \/ p <= M => /\ b = SubSeq(c, p + 1, p + Len(b))
                            /\ b = <<>> \/ p + Len(b) <= end
                            /\ b = <<>> => p >= end
    BY <1>9, <1>10, <1>11, <1>14
  <2>2. end = IF M = NoMax THEN Len(content) ELSE Smallest({M, Len(content)})
    BY <1>0, <1>12 DEF NoMax
  <2>3. M = NoMax \/ p <= M => /\ b = SubSeq(content, p + 1, p + Len(b))
                               /\ b = <<>> \/ p + Len(b) <= end
                               /\ b = <<>> => p >= end
    BY <1>0, <2>1 DEF NoMax
  <2>. QED  BY <2>2, <2>3 DEF IsAnswer
<1>. QED  BY <1>0, <1>6, <1>8, <1>9, <1>15

(* Nothing is given at the end of the content, or at pos_max.              *)
LEMMA NoneAnswers ==
  ASSUME content \in Seq(Nat), NEW pos \in Nat, NEW M \in {NoMax} \cup Nat,
         pos >= Len(content) \/ (M # NoMax /\ M <= pos)
  PROVE  IsAnswer(pos, <<>>, M)
<1>0. PICK L : L = Len(content)
  OBVIOUS
<1>1. L \in Nat /\ (M = -1 \/ M \in Nat) /\ (pos >= L \/ (M # -1 /\ M <= pos))
  BY <1>0, LenProperties DEF NoMax
<1>2. PICK end : end = IF M = -1 THEN L ELSE Smallest({M, L})
  OBVIOUS
<1>3. end <= L /\ (M # -1 => end <= M) /\ end \in Int
  <2>1. CASE M = -1
    BY <1>1, <1>2, <2>1
  <2>2. CASE M # -1
    <3>1. PICK T : T = {M, L}
      OBVIOUS
    <3>2. T \subseteq Nat /\ T # {} /\ M \in T /\ L \in T
      BY <1>1, <2>2, <3>1
    <3>3. Smallest(T) \in T /\ Smallest(T) <= M /\ Smallest(T) <= L
      BY <3>2, SmallestIs
    <3>. QED  BY <1>1, <1>2, <2>2, <3>1, <3>2, <3>3
  <2>. QED  BY <2>1, <2>2
<1>4. pos >= end
  BY <1>1, <1>3
<1>5. SubSeq(content, pos + 1, pos + 0) = <<>> /\ Len(<<>>) = 0
  <2>1. pos + 1 \in Int /\ pos + 0 \in Int /\ pos + 0 < pos + 1
    OBVIOUS
  <2>. QED  BY <2>1, SubSeqEmpty, EmptySeq
<1>. QED  BY <1>0, <1>2, <1>4, <1>5 DEF IsAnswer, NoMax

--------------------------------------------------------------------------------
LEMMA PlaceFields ==
  /\ Outer.at = "outer"
  /\ \A o : Requested(o).at = "requested" /\ Requested(o).offset = o /\ Requested(o) # Outer
  /\ \A o, x : /\ Loading(o, x).at = "loading" /\ Loading(o, x).offset = o
               /\ Loading(o, x).node = x /\ Loading(o, x) # Outer
  /\ \A o, p, x : /\ Loaded(o, p, x).at = "loaded" /\ Loaded(o, p, x).offset = o
                  /\ Loaded(o, p, x).node_pos = p /\ Loaded(o, p, x).node = x
                  /\ Loaded(o, p, x) # Outer
<1>1. Outer.at = "outer"
  BY DEF Outer
<1>2. ASSUME NEW o PROVE Requested(o).at = "requested" /\ Requested(o).offset = o
  BY DEF Requested
<1>3. ASSUME NEW o, NEW x
      PROVE  Loading(o, x).at = "loading" /\ Loading(o, x).offset = o /\ Loading(o, x).node = x
  BY DEF Loading
<1>4. ASSUME NEW o, NEW p, NEW x
      PROVE  /\ Loaded(o, p, x).at = "loaded" /\ Loaded(o, p, x).offset = o
             /\ Loaded(o, p, x).node_pos = p /\ Loaded(o, p, x).node = x
  BY DEF Loaded
<1>. QED  BY <1>1, <1>2, <1>3, <1>4

LEMMA PlaceIs ==
  ASSUME NEW p, NEW pos \in Nat, NEW U, IsPlace(p, pos, U)
  PROVE  /\ p.at \in {"outer", "requested", "loading", "loaded"}
         /\ p.at = "outer" <=> p = Outer
         /\ p # Outer => p.offset \in 0 .. pos
         /\ p.at = "loading" => p.node \in U
         /\ p.at = "loaded" => p.node \in Raws /\ p.node_pos = pos - p.offset
                               /\ p = Loaded(p.offset, p.node_pos, p.node)
<1>1. CASE p = Outer
  BY <1>1, PlaceFields
<1>2. ASSUME NEW o \in 0 .. pos, p = Requested(o) PROVE
        p.at = "requested" /\ p # Outer /\ p.offset \in 0 .. pos
  BY <1>2, PlaceFields
<1>3. ASSUME NEW o \in 0 .. pos, NEW x \in U, p = Loading(o, x) PROVE
        p.at = "loading" /\ p # Outer /\ p.offset \in 0 .. pos /\ p.node \in U
  BY <1>3, PlaceFields
<1>4. ASSUME NEW o \in 0 .. pos, NEW x \in Raws, p = Loaded(o, pos - o, x) PROVE
        /\ p.at = "loaded" /\ p # Outer /\ p.offset \in 0 .. pos
        /\ p.node \in Raws /\ p.node_pos = pos - p.offset
        /\ p = Loaded(p.offset, p.node_pos, p.node)
  BY <1>4, PlaceFields
<1>. QED  BY <1>1, <1>2, <1>3, <1>4, PlaceFields DEF IsPlace

IsMade(r, pos, M, p, ls, f) ==
  r = [pos |-> pos, pos_max |-> M, node |-> p, links |-> ls, failed |-> f]

LEMMA ReaderOf ==
  ASSUME NEW U, NEW pos \in Nat, NEW M \in {NoMax} \cup Nat, NEW p, IsPlace(p, pos, U),
         NEW ls \in Seq(Seq(U)), NEW f, NEW r, IsMade(r, pos, M, p, ls, f)
  PROVE  /\ IsReader(r, U)
         /\ r.pos = pos /\ r.pos_max = M /\ r.node = p /\ r.links = ls /\ r.failed = f
<1>1. r.pos = pos /\ r.pos_max = M /\ r.node = p /\ r.links = ls /\ r.failed = f
  BY DEF IsMade
<1>2. r = [pos |-> r.pos, pos_max |-> r.pos_max, node |-> r.node,
           links |-> r.links, failed |-> r.failed]
  BY <1>1 DEF IsMade
<1>. QED  BY <1>1, <1>2 DEF IsReader

LEMMA InPlaceOf ==
  ASSUME NEW r
  PROVE  /\ r.node = Outer /\ r.links = << RootLinks >> => InPlace(r)
         /\ \A o : r.node = Requested(o) /\ Suffix(o, FromLast(r.links)) => InPlace(r)
         /\ \A o, x : r.node = Loading(o, x) /\ Suffix(o, <<x>> \o FromLast(r.links)) => InPlace(r)
         /\ \A o, p, x : r.node = Loaded(o, p, x) /\ Suffix(o, <<x>> \o FromLast(r.links)) => InPlace(r)
<1>1. ASSUME r.node = Outer, r.links = << RootLinks >> PROVE InPlace(r)
  BY <1>1, PlaceFields DEF InPlace
<1>2. ASSUME NEW o, r.node = Requested(o), Suffix(o, FromLast(r.links)) PROVE InPlace(r)
  BY <1>2, PlaceFields DEF InPlace
<1>3. ASSUME NEW o, NEW x, r.node = Loading(o, x), Suffix(o, <<x>> \o FromLast(r.links))
      PROVE  InPlace(r)
  BY <1>3, PlaceFields DEF InPlace
<1>4. ASSUME NEW o, NEW p, NEW x, r.node = Loaded(o, p, x), Suffix(o, <<x>> \o FromLast(r.links))
      PROVE  InPlace(r)
  BY <1>4, PlaceFields DEF InPlace
<1>. QED  BY <1>1, <1>2, <1>3, <1>4

--------------------------------------------------------------------------------
(* A step of the reader: what holds of the reader, the call and the answer *)
(* it leaves behind is all there is to show.                               *)
IsStep(r, cl, la) ==
  /\ file # Nothing /\ IsReader(r, Nodes) /\ (IsRaw => r.node = Outer)
  /\ ~r.failed => InPlace(r)
  /\ cl # Nothing => la = Nothing /\ \E room \in Nat \ {0} : cl = [room |-> room]
  /\ la # Nothing /\ ~r.failed => IsAnswer(la.from, la.bytes, r.pos_max)

LEMMA StepKeeps ==
  ASSUME IInv, Stays, IsStep(reader', call', last')
  PROVE  IInv'
<1>1. /\ content' = content /\ chunk_size' = chunk_size /\ degree' = degree
      /\ source' = source /\ buffer' = buffer /\ layers' = layers /\ file' = file
  BY DEF Stays, params, buildVars
<1>2. BuildInv'
  BY <1>1 DEF IInv, BuildInv
<1>3. PICK r, cl, la : r = reader' /\ cl = call' /\ la = last'
  OBVIOUS
<1>4. IsStep(r, cl, la)
  BY <1>3
<1>5. Nodes' = Nodes /\ RootLinks' = RootLinks /\ IsRaw' = IsRaw
  BY <1>1 DEF Nodes, RootLinks, IsRaw
<1>6. r # Nothing
  BY <1>4, ReaderIsSome DEF IsStep, IsReader
<1>7. ReaderInv'
  <2>1. ASSUME InPlace(r) PROVE InPlace(reader)'
    BY <1>1, <1>3, <1>5, <2>1 DEF InPlace, Suffix
  <2>2. file' # Nothing
    BY <1>1, <1>4 DEF IsStep
  <2>3. IsReader(reader, Nodes)'
    BY <1>3, <1>4, <1>5 DEF IsStep, IsReader
  <2>4. (IsRaw => reader.node = Outer)'
    BY <1>3, <1>4, <1>5 DEF IsStep
  <2>5. (~reader.failed => InPlace(reader))'
    BY <1>3, <1>4, <2>1 DEF IsStep
  <2>6. cl # Nothing => la = Nothing /\ \E room \in Nat \ {0} : cl = [room |-> room]
    BY <1>4 DEF IsStep
  <2>. QED  BY <1>3, <1>6, <2>2, <2>3, <2>4, <2>5, <2>6 DEF ReaderInv
<1>8. ReadsAreContent'
  <2>1. la # Nothing /\ ~r.failed => IsAnswer(la.from, la.bytes, r.pos_max)
    BY <1>4 DEF IsStep
  <2>. QED  BY <1>1, <1>3, <2>1 DEF ReadsAreContent, IsAnswer
<1>. QED  BY <1>2, <1>7, <1>8 DEF IInv

(* What a reader that is in the middle of a read has to go on with.        *)
LEMMA WhileReading ==
  ASSUME IInv, reader # Nothing
  PROVE  /\ file # Nothing /\ content \in Seq(Nat)
         /\ IsReader(reader, Nodes) /\ (~reader.failed => InPlace(reader))
         /\ IsRaw => reader.node = Outer
         /\ reader.pos \in Nat /\ reader.pos_max \in {NoMax} \cup Nat
         /\ reader.links \in Seq(Seq(Nodes))
         /\ IsPlace(reader.node, reader.pos, Nodes)
         /\ call # Nothing => last = Nothing /\ call.room \in Nat \ {0}
                              /\ \E room \in Nat \ {0} : call = [room |-> room]
         /\ last # Nothing /\ ~reader.failed =>
              IsAnswer(last.from, last.bytes, reader.pos_max)
<1>1. BuildInv /\ ReaderInv /\ ReadsAreContent
  BY DEF IInv
<1>2. /\ file # Nothing /\ IsReader(reader, Nodes) /\ (~reader.failed => InPlace(reader))
      /\ IsRaw => reader.node = Outer
  BY <1>1 DEF ReaderInv
<1>3. ASSUME call # Nothing
      PROVE  /\ last = Nothing /\ call.room \in Nat \ {0}
             /\ \E room \in Nat \ {0} : call = [room |-> room]
  <2>1. last = Nothing /\ \E room \in Nat \ {0} : call = [room |-> room]
    BY <1>1, <1>3 DEF ReaderInv
  <2>2. PICK room \in Nat \ {0} : call = [room |-> room]
    BY <2>1
  <2>3. call.room = room
    BY <2>2
  <2>. QED  BY <2>1, <2>3
<1>4. content \in Seq(Nat)
  BY <1>1 DEF BuildInv
<1>. QED  BY <1>1, <1>2, <1>3, <1>4, AnswersAreContent DEF IsReader

--------------------------------------------------------------------------------
LEMMA RestIsNext ==
  ASSUME content \in Seq(Nat), NEW pos \in Nat
  PROVE  IsNext(SubSeq(content, pos + 1, Len(content)), pos)
<1>0. PICK c, L, f : c = content /\ L = Len(c) /\ f = pos + 1
  OBVIOUS
<1>1. c \in Seq(Nat) /\ L \in Nat /\ f \in Int /\ L \in Int
  BY <1>0, LenProperties
<1>2. PICK d : d = SubSeq(c, f, L)
  OBVIOUS
<1>3. \A i \in f .. L : c[i] \in Nat
  <2>1. \A i \in 1 .. L : c[i] \in Nat
    BY <1>0, <1>1, ElementOfSeq
  <2>2. f .. L \subseteq 1 .. L
    BY <1>0, <1>1
  <2>. QED  BY <2>1, <2>2
<1>4. d \in Seq(Nat) /\ Len(d) = IF f <= L THEN L - f + 1 ELSE 0
  BY <1>1, <1>2, <1>3, SubSeqProperties
<1>5. CASE pos >= L
  <2>1. Len(d) = 0 /\ ~(f <= L)
    BY <1>0, <1>1, <1>4, <1>5
  <2>2. d = <<>>
    BY <1>4, <2>1, EmptySeq
  <2>3. SubSeq(c, pos + 1, pos + Len(d)) = <<>>
    <3>1. pos + 1 \in Int /\ pos + Len(d) \in Int /\ pos + Len(d) < pos + 1
      BY <2>1
    <3>. QED  BY <3>1, SubSeqEmpty
  <2>. QED  BY <1>0, <1>2, <1>4, <1>5, <2>1, <2>2, <2>3 DEF IsNext
<1>6. CASE ~(pos >= L)
  <2>1. Len(d) # 0 /\ pos + Len(d) = L
    BY <1>0, <1>1, <1>4, <1>6
  <2>. QED  BY <1>0, <1>1, <1>2, <1>4, <2>1 DEF IsNext
<1>. QED  BY <1>5, <1>6

(* Where a reader starts over.                                             *)
LEMMA AtRoot ==
  ASSUME BuildInv, file # Nothing, NEW pos \in Nat, NEW M \in {NoMax} \cup Nat, NEW r,
         IsMade(r, pos, M, Outer, << RootLinks >>, FALSE)
  PROVE  IsReader(r, Nodes) /\ r.node = Outer /\ ~r.failed /\ InPlace(r)
<1>1. << RootLinks >> \in Seq(Seq(Nodes))
  BY RootIsRead
<1>2. IsPlace(Outer, pos, Nodes)
  BY DEF IsPlace
<1>3. IsReader(r, Nodes) /\ r.node = Outer /\ r.links = << RootLinks >> /\ r.failed = FALSE
  <2>1. PICK ls, U, f, p : ls = << RootLinks >> /\ U = Nodes /\ f = FALSE /\ p = Outer
    OBVIOUS
  <2>2. ls \in Seq(Seq(U)) /\ IsPlace(p, pos, U)
    BY <1>1, <1>2, <2>1
  <2>3. IsMade(r, pos, M, p, ls, f)
    BY <2>1 DEF IsMade
  <2>4. IsReader(r, U) /\ r.node = p /\ r.links = ls /\ r.failed = f
    BY <2>2, <2>3, ReaderOf
  <2>. QED  BY <2>1, <2>4
<1>4. InPlace(r)
  BY <1>3, InPlaceOf
<1>. QED  BY <1>3, <1>4

LEMMA OpenKeeps ==
  ASSUME IInv, NEW pos_max \in {NoMax} \cup Lengths, Open(pos_max)
  PROVE  IInv'
<1>1. /\ file # Nothing /\ reader = Nothing /\ call' = call /\ last' = last
      /\ reader' = [pos |-> 0, pos_max |-> pos_max, node |-> Outer,
                    links |-> << RootLinks >>, failed |-> FALSE]
      /\ Stays
  BY DEF Open, Stays
<1>2. call = Nothing /\ last = Nothing /\ BuildInv
  BY <1>1 DEF IInv, ReaderInv
<1>3. pos_max \in {NoMax} \cup Nat
  BY UnixFsAssumption
<1>4. PICK r : r = reader'
  OBVIOUS
<1>5. IsReader(r, Nodes) /\ r.node = Outer /\ ~r.failed /\ InPlace(r)
  <2>1. PICK p \in Nat : p = 0
    OBVIOUS
  <2>2. IsMade(r, p, pos_max, Outer, << RootLinks >>, FALSE)
    BY <1>1, <1>4, <2>1 DEF IsMade
  <2>3. file # Nothing
    BY <1>1
  <2>. QED  BY <1>2, <1>3, <2>2, <2>3, AtRoot
<1>6. IsStep(r, Nothing, Nothing)
  BY <1>1, <1>5 DEF IsStep
<1>7. IsStep(reader', call', last')
  BY <1>1, <1>2, <1>4, <1>6
<1>. QED  BY <1>1, <1>7, StepKeeps

LEMMA SeekToKeeps ==
  ASSUME IInv, Idle, NEW pos \in Nat, SeekTo(pos)
  PROVE  IInv'
<1>1. /\ reader # Nothing /\ call = Nothing /\ call' = call /\ last' = Nothing /\ Stays
  BY DEF Idle, SeekTo, Stays
<1>2. /\ file # Nothing /\ IsReader(reader, Nodes) /\ reader.pos_max \in {NoMax} \cup Nat
  BY <1>1, WhileReading
<1>3. reader' = [pos |-> pos, pos_max |-> reader.pos_max, node |-> Outer,
                 links |-> << RootLinks >>, failed |-> FALSE]
  BY <1>2 DEF SeekTo, IsReader
<1>4. PICK r, M : r = reader' /\ M = reader.pos_max
  OBVIOUS
<1>5. BuildInv /\ IsMade(r, pos, M, Outer, << RootLinks >>, FALSE)
  BY <1>3, <1>4 DEF IInv, IsMade
<1>6. IsReader(r, Nodes) /\ r.node = Outer /\ ~r.failed /\ InPlace(r)
  BY <1>2, <1>4, <1>5, AtRoot
<1>7. IsStep(r, Nothing, Nothing)
  BY <1>2, <1>6 DEF IsStep
<1>8. IsStep(reader', call', last')
  BY <1>1, <1>4, <1>7
<1>. QED  BY <1>1, <1>8, StepKeeps

LEMMA ClampedIs ==
  ASSUME BuildInv, file # Nothing, NEW pos \in Nat
  PROVE  Clamped(pos) \in Nat
<1>1. file.filesize \in Nat
  BY RootIsRead
<1>. QED  BY <1>1 DEF Clamped

LEMMA SeekStartKeeps ==
  ASSUME IInv, NEW offset \in 0 .. MaxSeek, SeekStart(offset)
  PROVE  IInv'
<1>1. Idle /\ SeekTo(Clamped(offset)) /\ offset \in Nat
  BY UnixFsAssumption DEF SeekStart
<1>2. BuildInv /\ file # Nothing
  BY <1>1, WhileReading DEF IInv, Idle
<1>3. Clamped(offset) \in Nat
  BY <1>1, <1>2, ClampedIs
<1>. QED  BY <1>1, <1>3, SeekToKeeps

LEMMA SeekEndKeeps ==
  ASSUME IInv, NEW offset \in -MaxSeek .. 0, SeekEnd(offset)
  PROVE  IInv'
<1>1. PICK p : p = IF RootLinks # <<>> THEN reader.pos
                   ELSE IF file.filesize = 0 THEN 0
                   ELSE (file.filesize + offset) % file.filesize
  OBVIOUS
<1>2. Idle /\ SeekTo(p) /\ offset \in Int
  BY <1>1, UnixFsAssumption DEF SeekEnd
<1>3. BuildInv /\ file # Nothing /\ reader.pos \in Nat
  BY <1>2, WhileReading DEF IInv, Idle
<1>4. file.filesize \in Nat
  BY <1>3, RootIsRead
<1>5. p \in Nat
  <2>1. PICK s : s = file.filesize
    OBVIOUS
  <2>2. s # 0 => (s + offset) % s \in Nat
    BY <1>2, <1>4, <2>1
  <2>. QED  BY <1>1, <1>3, <2>1, <2>2
<1>. QED  BY <1>2, <1>5, SeekToKeeps

LEMMA SeekCurrentKeeps ==
  ASSUME IInv, NEW offset \in {-1, 1}, SeekCurrent(offset)
  PROVE  IInv'
<1>1. PICK q : q = IF reader.pos + offset < 0 THEN 0 ELSE reader.pos + offset
  OBVIOUS
<1>2. Idle /\ SeekTo(Clamped(q))
  BY <1>1 DEF SeekCurrent
<1>3. BuildInv /\ file # Nothing /\ reader.pos \in Nat
  BY <1>2, WhileReading DEF IInv, Idle
<1>4. q \in Nat
  BY <1>1, <1>3
<1>5. Clamped(q) \in Nat
  BY <1>3, <1>4, ClampedIs
<1>. QED  BY <1>2, <1>5, SeekToKeeps

LEMMA ReadingIs ==
  ASSUME IInv, Reading
  PROVE  /\ reader # Nothing /\ last = Nothing /\ BuildInv /\ file # Nothing
         /\ content \in Seq(Nat) /\ call.room \in Nat \ {0}
         /\ \E room \in Nat \ {0} : call = [room |-> room]
<1>1. reader # Nothing /\ call # Nothing /\ BuildInv
  BY DEF IInv, ReaderInv, Reading
<1>. QED  BY <1>1, WhileReading

(* A step that leaves the reader as it is.                                 *)
LEMMA SameReader ==
  ASSUME IInv, reader # Nothing, NEW cl, NEW la,
         cl # Nothing => la = Nothing /\ \E room \in Nat \ {0} : cl = [room |-> room],
         la # Nothing /\ ~reader.failed => IsAnswer(la.from, la.bytes, reader.pos_max)
  PROVE  IsStep(reader, cl, la)
BY WhileReading DEF IsStep

LEMMA ReadKeeps ==
  ASSUME IInv, NEW room \in Buffers, Read(room)
  PROVE  IInv'
<1>1. /\ reader # Nothing /\ reader' = reader /\ call' = [room |-> room] /\ last' = Nothing
      /\ Stays
  BY DEF Read, Idle, Stays
<1>2. room \in Nat \ {0}
  BY UnixFsAssumption
<1>3. PICK cl : cl = [room |-> room]
  OBVIOUS
<1>4. IsStep(reader, cl, Nothing)
  BY <1>1, <1>2, <1>3, SameReader
<1>5. IsStep(reader', call', last')
  BY <1>1, <1>3, <1>4
<1>. QED  BY <1>1, <1>5, StepKeeps

LEMMA PendingKeeps ==
  ASSUME IInv, Pending
  PROVE  IInv'
<1>1. Reading /\ reader' = reader /\ call' = Nothing /\ last' = last /\ Stays
  BY DEF Pending, AtNode
<1>2. reader # Nothing /\ last = Nothing
  BY <1>1, ReadingIs
<1>3. IsStep(reader, Nothing, Nothing)
  BY <1>2, SameReader
<1>4. IsStep(reader', call', last')
  BY <1>1, <1>2, <1>3
<1>. QED  BY <1>1, <1>4, StepKeeps

LEMMA AnswerFields ==
  \A a, b : [from |-> a, bytes |-> b].from = a /\ [from |-> a, bytes |-> b].bytes = b
OBVIOUS

LEMMA StopAtMaxKeeps ==
  ASSUME IInv, StopAtMax
  PROVE  IInv'
<1>1. /\ Reading /\ Clipped /\ reader' = reader /\ call' = Nothing /\ Stays
      /\ last' = [from |-> reader.pos, bytes |-> <<>>]
  BY DEF StopAtMax, Returns
<1>2. reader # Nothing /\ content \in Seq(Nat)
  BY <1>1, ReadingIs
<1>3. reader.pos \in Nat /\ reader.pos_max \in {NoMax} \cup Nat
  BY <1>2, WhileReading
<1>4. IsAnswer(reader.pos, <<>>, reader.pos_max)
  <2>1. PICK p, M : p = reader.pos /\ M = reader.pos_max
    OBVIOUS
  <2>2. p \in Nat /\ M \in {NoMax} \cup Nat /\ M # NoMax /\ M <= p
    BY <1>1, <1>3, <2>1 DEF Clipped
  <2>3. IsAnswer(p, <<>>, M)
    BY <1>2, <2>2, NoneAnswers
  <2>. QED  BY <2>1, <2>3
<1>5. PICK la : la = [from |-> reader.pos, bytes |-> <<>>]
  OBVIOUS
<1>6. IsAnswer(la.from, la.bytes, reader.pos_max)
  BY <1>4, <1>5
<1>7. IsStep(reader, Nothing, la)
  BY <1>2, <1>6, SameReader
<1>8. IsStep(reader', call', last')
  BY <1>1, <1>5, <1>7
<1>. QED  BY <1>1, <1>8, StepKeeps

LEMMA ReadRawKeeps ==
  ASSUME IInv, ReadRaw
  PROVE  IInv'
<1>1. PICK d, b : d = SubSeq(file.data, reader.pos + 1, Len(file.data)) /\ b = Taken(d)
  OBVIOUS
<1>2. /\ Reading /\ IsRaw /\ call' = Nothing /\ last' = [from |-> reader.pos, bytes |-> b]
      /\ reader' = [reader EXCEPT !.pos = @ + Len(b)] /\ Stays
  BY <1>1 DEF ReadRaw, Returns
<1>3. reader # Nothing /\ BuildInv /\ file # Nothing /\ content \in Seq(Nat) /\ call.room \in Nat \ {0}
  BY <1>2, ReadingIs
<1>4. /\ IsReader(reader, Nodes) /\ reader.node = Outer
      /\ reader.pos \in Nat /\ reader.pos_max \in {NoMax} \cup Nat
      /\ reader.links \in Seq(Seq(Nodes)) /\ (~reader.failed => InPlace(reader))
  BY <1>2, <1>3, WhileReading
<1>5. file.data = content
  BY <1>2, <1>3, RootIsRead
<1>6. IsNext(d, reader.pos)
  BY <1>1, <1>3, <1>4, <1>5, RestIsNext
<1>7. b \in Seq(Nat) /\ Len(b) \in 0 .. Len(d) /\ IsAnswer(reader.pos, b, reader.pos_max)
  BY <1>1, <1>3, <1>4, <1>6, TakenAnswers
<1>8. PICK p, M, ls, f, r, n : /\ p = reader.pos + n /\ M = reader.pos_max /\ ls = reader.links
                               /\ f = reader.failed /\ r = reader' /\ n = Len(b)
  OBVIOUS
<1>9. p \in Nat /\ ls \in Seq(Seq(Nodes)) /\ M \in {NoMax} \cup Nat
  BY <1>4, <1>7, <1>8, LenProperties
<1>10. IsMade(r, p, M, Outer, ls, f)
  BY <1>2, <1>4, <1>8 DEF IsReader, IsMade
<1>11. /\ IsReader(r, Nodes) /\ r.node = Outer /\ r.links = ls /\ r.failed = f /\ r.pos_max = M
  <2>1. PICK U, q : U = Nodes /\ q = Outer
    OBVIOUS
  <2>2. ls \in Seq(Seq(U)) /\ IsPlace(q, p, U) /\ IsMade(r, p, M, q, ls, f)
    BY <1>9, <1>10, <2>1 DEF IsPlace
  <2>3. p \in Nat /\ M \in {NoMax} \cup Nat
    BY <1>9
  <2>4. IsReader(r, U)
    BY <2>2, <2>3, ReaderOf
  <2>5. r.node = q /\ r.links = ls /\ r.failed = f /\ r.pos_max = M
    BY <2>2 DEF IsMade
  <2>. QED  BY <2>1, <2>4, <2>5
<1>12. ~r.failed => InPlace(r)
  <2>1. ASSUME ~f PROVE r.links = << RootLinks >>
    BY <1>4, <1>8, <1>11, <2>1 DEF InPlace
  <2>. QED  BY <1>11, <2>1, InPlaceOf
<1>13. PICK la : la = [from |-> reader.pos, bytes |-> b]
  OBVIOUS
<1>14. IsAnswer(la.from, la.bytes, r.pos_max)
  BY <1>7, <1>8, <1>11, <1>13
<1>15. IsStep(r, Nothing, la)
  BY <1>3, <1>11, <1>12, <1>14 DEF IsStep
<1>16. IsStep(reader', call', last')
  BY <1>2, <1>8, <1>13, <1>15
<1>. QED  BY <1>2, <1>16, StepKeeps

(* The places a reader moves to.                                           *)
Stands(p, ls) ==
  \/ p = Outer /\ ls = << RootLinks >>
  \/ \E o : p = Requested(o) /\ Suffix(o, FromLast(ls))
  \/ \E o, x : p = Loading(o, x) /\ Suffix(o, <<x>> \o FromLast(ls))
  \/ \E o, q, x : p = Loaded(o, q, x) /\ Suffix(o, <<x>> \o FromLast(ls))

IsMove(r, pos, M, p, ls, f, cl, la) ==
  /\ file # Nothing /\ (IsRaw => p = Outer)
  /\ IsMade(r, pos, M, p, ls, f) /\ pos \in Nat /\ M \in {NoMax} \cup Nat
  /\ ls \in Seq(Seq(Nodes)) /\ IsPlace(p, pos, Nodes)
  /\ ~f => Stands(p, ls)
  /\ cl # Nothing => la = Nothing /\ \E room \in Nat \ {0} : cl = [room |-> room]
  /\ la # Nothing /\ ~f => IsAnswer(la.from, la.bytes, M)

LEMMA MoveIsStep ==
  ASSUME NEW r, NEW pos, NEW M, NEW p, NEW ls, NEW f, NEW cl, NEW la,
         IsMove(r, pos, M, p, ls, f, cl, la)
  PROVE  IsStep(r, cl, la)
<1>1. r.pos_max = M /\ r.node = p /\ r.links = ls /\ r.failed = f
  BY DEF IsMove, IsMade
<1>2. IsReader(r, Nodes)
  <2>1. PICK U : U = Nodes
    OBVIOUS
  <2>2. /\ IsMade(r, pos, M, p, ls, f) /\ pos \in Nat /\ M \in {NoMax} \cup Nat
        /\ ls \in Seq(Seq(U)) /\ IsPlace(p, pos, U)
    BY <2>1 DEF IsMove
  <2>3. IsReader(r, U)
    BY <2>2, ReaderOf
  <2>. QED  BY <2>1, <2>3
<1>3. ~r.failed => InPlace(r)
  <2>1. ASSUME ~r.failed PROVE Stands(p, ls)
    BY <1>1, <2>1 DEF IsMove
  <2>2. ASSUME Stands(p, ls) PROVE InPlace(r)
    BY <1>1, <2>2, InPlaceOf DEF Stands
  <2>. QED  BY <2>1, <2>2
<1>. QED  BY <1>1, <1>2, <1>3 DEF IsMove, IsStep

(* A reader in the middle of a read of a tree.                             *)
IsGoing(r, pos, M, p, ls, f) ==
  /\ r = reader /\ IsMade(r, pos, M, p, ls, f) /\ pos \in Nat /\ M \in {NoMax} \cup Nat
  /\ ls \in Seq(Seq(Nodes)) /\ IsPlace(p, pos, Nodes)
  /\ BuildInv /\ file # Nothing /\ ~IsRaw /\ content \in Seq(Nat)
  /\ last = Nothing /\ call.room \in Nat \ {0}
  /\ \E room \in Nat \ {0} : call = [room |-> room]
  /\ ~f => InPlace(r)

LEMMA GoingIs ==
  ASSUME IInv, Reading, ~IsRaw
  PROVE  \E r, pos, M, p, ls, f : IsGoing(r, pos, M, p, ls, f)
<1>1. /\ reader # Nothing /\ last = Nothing /\ BuildInv /\ file # Nothing
      /\ content \in Seq(Nat) /\ call.room \in Nat \ {0}
      /\ \E room \in Nat \ {0} : call = [room |-> room]
  BY ReadingIs
<1>2. /\ IsReader(reader, Nodes) /\ (~reader.failed => InPlace(reader))
      /\ reader.pos \in Nat /\ reader.pos_max \in {NoMax} \cup Nat
      /\ reader.links \in Seq(Seq(Nodes)) /\ IsPlace(reader.node, reader.pos, Nodes)
  BY <1>1, WhileReading
<1>3. PICK r, pos, M, p, ls, f : /\ r = reader /\ pos = reader.pos /\ M = reader.pos_max
                                 /\ p = reader.node /\ ls = reader.links /\ f = reader.failed
  OBVIOUS
<1>4. IsMade(r, pos, M, p, ls, f)
  BY <1>2, <1>3 DEF IsReader, IsMade
<1>. QED  BY <1>1, <1>2, <1>3, <1>4 DEF IsGoing

LEMMA GoingFields ==
  ASSUME NEW r, NEW pos, NEW M, NEW p, NEW ls, NEW f, IsGoing(r, pos, M, p, ls, f)
  PROVE  /\ reader.pos = pos /\ reader.pos_max = M /\ reader.node = p
         /\ reader.links = ls /\ reader.failed = f
         /\ pos \in Nat /\ M \in {NoMax} \cup Nat /\ ls \in Seq(Seq(Nodes))
         /\ BuildInv /\ file # Nothing /\ content \in Seq(Nat)
         /\ IsMade(reader, pos, M, p, ls, f) /\ IsPlace(p, pos, Nodes)
         /\ ~f => InPlace(reader)
BY DEF IsGoing, IsMade

LEMMA StackOne ==
  ASSUME NEW S, NEW s \in Seq(S)
  PROVE  FromLast(<<s>>) = s
<1>1. PICK e, l : e = << >> /\ l = <<s>>
  OBVIOUS
<1>2. e \in Seq(Seq(S)) /\ Append(e, s) = l
  BY <1>1, EmptySeq
<1>3. FromLast(Append(e, s)) = s \o FromLast(e)
  BY <1>2, StackAppend
<1>4. FromLast(e) = <<>>
  BY <1>1, StackEmpty
<1>5. s \o <<>> = s
  BY ConcatEmptySeq
<1>. QED  BY <1>1, <1>2, <1>3, <1>4, <1>5

LEMMA LeaveRootKeeps ==
  ASSUME IInv, LeaveRoot
  PROVE  IInv'
<1>1. Reading /\ ~IsRaw /\ reader.node.at = "outer" /\ Stays
  BY DEF LeaveRoot, AtNode
<1>2. PICK r, pos, M, p, ls, f : IsGoing(r, pos, M, p, ls, f)
  BY <1>1, GoingIs
<1>3. /\ reader.pos = pos /\ reader.pos_max = M /\ reader.node = p
      /\ reader.links = ls /\ reader.failed = f
      /\ pos \in Nat /\ M \in {NoMax} \cup Nat /\ ls \in Seq(Seq(Nodes))
      /\ BuildInv /\ file # Nothing /\ content \in Seq(Nat)
      /\ IsMade(reader, pos, M, p, ls, f) /\ IsPlace(p, pos, Nodes)
      /\ ~f => InPlace(reader)
  BY <1>2, GoingFields
<1>4. BytesOf(RootLinks) = content /\ RootLinks \in Seq(Nodes)
  BY <1>1, <1>3, RootIsRead
<1>5. CASE RootLinks = <<>>
  <2>1. reader' = reader /\ call' = Nothing /\ last' = [from |-> reader.pos, bytes |-> <<>>]
    BY <1>5 DEF LeaveRoot, Returns
  <2>2. Len(content) = 0
    BY <1>4, <1>5, NoBytes, EmptySeq
  <2>3. IsAnswer(pos, <<>>, M)
    <3>1. pos >= Len(content)
      BY <1>3, <2>2
    <3>. QED  BY <1>3, <3>1, NoneAnswers
  <2>4. PICK la : la = [from |-> pos, bytes |-> <<>>]
    OBVIOUS
  <2>5. IsAnswer(la.from, la.bytes, reader.pos_max) /\ reader # Nothing
    BY <1>1, <1>3, <2>3, <2>4, ReadingIs
  <2>6. IsStep(reader, Nothing, la)
    BY <2>5, SameReader
  <2>7. IsStep(reader', call', last')
    BY <1>3, <2>1, <2>4, <2>6
  <2>. QED  BY <1>1, <2>7, StepKeeps
<1>6. CASE RootLinks # <<>>
  <2>1. reader' = [reader EXCEPT !.node = Requested(0)] /\ call' = call /\ last' = last
    BY <1>6 DEF LeaveRoot
  <2>2. PICK q, s, cl, la : q = Requested(0) /\ s = reader' /\ cl = call /\ la = last
    OBVIOUS
  <2>3. IsMade(s, pos, M, q, ls, f)
    BY <1>3, <2>1, <2>2 DEF IsMade
  <2>4. IsPlace(q, pos, Nodes)
    <3>1. 0 \in 0 .. pos
      BY <1>3
    <3>. QED  BY <2>2, <3>1 DEF IsPlace
  <2>5. ASSUME ~f PROVE Stands(q, ls)
    <3>1. p = Outer
      BY <1>1, <1>3, PlaceIs
    <3>2. ls = << RootLinks >>
      BY <1>3, <2>5, <3>1 DEF InPlace
    <3>3. FromLast(ls) = RootLinks
      BY <1>4, <3>2, StackOne
    <3>4. Suffix(0, FromLast(ls))
      BY <1>3, <1>4, <3>3, SuffixAll
    <3>. QED  BY <2>2, <3>4 DEF Stands
  <2>6. IsMove(s, pos, M, q, ls, f, cl, la)
    BY <1>1, <1>2, <1>3, <2>2, <2>3, <2>4, <2>5 DEF IsMove, IsGoing
  <2>7. IsStep(reader', call', last')
    BY <2>1, <2>2, <2>6, MoveIsStep
  <2>. QED  BY <1>1, <2>7, StepKeeps
<1>. QED  BY <1>5, <1>6

(* A place by what it is at, and what is left to read from there.          *)
LEMMA PlaceAt ==
  ASSUME NEW p, NEW pos \in Nat, NEW U, IsPlace(p, pos, U)
  PROVE  /\ p.at = "requested" => \E o \in 0 .. pos : p = Requested(o)
         /\ p.at = "loading" => \E o \in 0 .. pos : \E x \in U : p = Loading(o, x)
         /\ p.at = "loaded" => \E o \in 0 .. pos : \E x \in Raws : p = Loaded(o, pos - o, x)
<1>1. p = Outer => p.at = "outer"
  BY PlaceFields
<1>2. \A o : p = Requested(o) => p.at = "requested"
  BY PlaceFields
<1>3. \A o, x : p = Loading(o, x) => p.at = "loading"
  BY PlaceFields
<1>4. \A o, q, x : p = Loaded(o, q, x) => p.at = "loaded"
  BY PlaceFields
<1>. QED  BY <1>1, <1>2, <1>3, <1>4 DEF IsPlace

LEMMA LeftToRead ==
  ASSUME InPlace(reader)
  PROVE  /\ \A o : reader.node = Requested(o) => Suffix(o, FromLast(reader.links))
         /\ \A o, x : reader.node = Loading(o, x) => Suffix(o, <<x>> \o FromLast(reader.links))
         /\ \A o, q, x : reader.node = Loaded(o, q, x) =>
              Suffix(o, <<x>> \o FromLast(reader.links))
<1>1. ASSUME NEW o, reader.node = Requested(o) PROVE Suffix(o, FromLast(reader.links))
  BY <1>1, PlaceFields DEF InPlace
<1>2. ASSUME NEW o, NEW x, reader.node = Loading(o, x)
      PROVE  Suffix(o, <<x>> \o FromLast(reader.links))
  BY <1>2, PlaceFields DEF InPlace
<1>3. ASSUME NEW o, NEW q, NEW x, reader.node = Loaded(o, q, x)
      PROVE  Suffix(o, <<x>> \o FromLast(reader.links))
  BY <1>3, PlaceFields DEF InPlace
<1>. QED  BY <1>1, <1>2, <1>3

(* The topmost list that is not empty.                                     *)
LEMMA TopOf ==
  ASSUME NEW S, NEW ls \in Seq(Seq(S)), NEW more,
         more = {i \in DOMAIN ls : ls[i] # <<>>}, NEW top,
         top = CHOOSE i \in more : \A j \in more : j <= i
  PROVE  /\ more = {} => IsTop(ls, 0, S)
         /\ more # {} => IsTop(ls, top, S) /\ top \in 1 .. Len(ls) /\ ls[top] # <<>>
<1>0. PICK n : n = Len(ls)
  OBVIOUS
<1>1. n \in Nat /\ DOMAIN ls = 1 .. n
  BY <1>0, LenProperties
<1>2. ASSUME more = {} PROVE IsTop(ls, 0, S)
  <2>1. \A j \in 0 + 1 .. n : ls[j] = <<>>
    BY <1>1, <1>2
  <2>. QED  BY <1>0, <1>1, <2>1 DEF IsTop
<1>3. ASSUME more # {}
      PROVE  IsTop(ls, top, S) /\ top \in 1 .. n /\ ls[top] # <<>>
  <2>1. more \subseteq 1 .. n
    BY <1>1
  <2>2. IsFiniteSet(more)
    BY <1>1, <2>1, UpToCard, FS_Subset
  <2>3. more \subseteq Nat
    BY <1>1, <2>1
  <2>4. \E i \in more : \A j \in more : j <= i
    BY <1>3, <2>2, <2>3, GreatestOf
  <2>5. top \in more /\ \A j \in more : j <= top
    BY <2>4
  <2>6. top \in 1 .. n /\ ls[top] # <<>>
    BY <1>1, <2>5
  <2>7. \A j \in top + 1 .. n : ls[j] = <<>>
    <3>1. TAKE j \in top + 1 .. n
    <3>2. j \in 1 .. n /\ ~(j <= top)
      BY <1>1, <2>6
    <3>. QED  BY <1>1, <2>5, <3>2
  <2>. QED  BY <1>0, <1>1, <2>6, <2>7 DEF IsTop
<1>. QED  BY <1>0, <1>2, <1>3

LEMMA HeadFirst ==
  ASSUME NEW S, NEW l \in Seq(S), l # <<>>, NEW u \in Seq(S)
  PROVE  /\ Head(l) \in S /\ Tail(l) \in Seq(S)
         /\ <<Head(l)>> \o (Tail(l) \o u) = l \o u
<1>0. PICK x, t, n : x = Head(l) /\ t = Tail(l) /\ n = Len(l)
  OBVIOUS
<1>1. /\ x \in S /\ t \in Seq(S) /\ n \in Nat \ {0} /\ Len(t) = n - 1
      /\ \A i \in 1 .. n - 1 : t[i] = l[i + 1]
  <2>1. Head(l) \in S /\ Tail(l) \in Seq(S) /\ Len(Tail(l)) = Len(l) - 1
        /\ \A i \in 1 .. Len(Tail(l)) : Tail(l)[i] = l[i + 1]
    BY HeadTailProperties
  <2>2. n \in Nat /\ n # 0
    BY <1>0, EmptySeq, LenProperties
  <2>. QED  BY <1>0, <2>1, <2>2
<1>2. x = l[1]
  BY <1>0
<1>3. PICK h : h = <<x>>
  OBVIOUS
<1>4. h \in Seq(S) /\ Len(h) = 1 /\ h[1] = x
  BY <1>1, <1>3
<1>5. h \o t = l
  <2>1. PICK w : w = h \o t
    OBVIOUS
  <2>2. w \in Seq(S) /\ Len(w) = 1 + (n - 1)
        /\ \A i \in 1 .. 1 + (n - 1) : w[i] = IF i <= 1 THEN h[i] ELSE t[i - 1]
    <3>1. /\ h \o t \in Seq(S) /\ Len(h \o t) = Len(h) + Len(t)
          /\ \A i \in 1 .. Len(h) + Len(t) :
               (h \o t)[i] = IF i <= Len(h) THEN h[i] ELSE t[i - Len(h)]
      BY <1>1, <1>4, ConcatProperties
    <3>. QED  BY <1>1, <1>4, <2>1, <3>1
  <2>3. \A i \in 1 .. n : w[i] = l[i]
    <3>1. TAKE i \in 1 .. n
    <3>2. CASE i = 1
      BY <1>1, <1>2, <1>4, <2>2, <3>2
    <3>3. CASE i # 1
      <4>1. i - 1 \in 1 .. n - 1 /\ i - 1 + 1 = i /\ ~(i <= 1) /\ i \in 1 .. 1 + (n - 1)
        BY <1>1, <3>3
      <4>. QED  BY <1>0, <1>1, <2>2, <4>1
    <3>. QED  BY <3>2, <3>3
  <2>4. Len(w) = n
    BY <1>1, <2>2
  <2>. QED  BY <1>0, <2>1, <2>2, <2>3, <2>4, SameSeq
<1>6. h \o (t \o u) = (h \o t) \o u
  <2>1. \A a, b, c \in Seq(S) : (a \o b) \o c = a \o (b \o c)
    BY ConcatAssociative
  <2>. QED  BY <1>1, <1>4, <2>1
<1>. QED  BY <1>0, <1>1, <1>3, <1>5, <1>6

LEMMA NoneLeft ==
  ASSUME content \in Seq(Nat), NEW o, Suffix(o, <<>>)
  PROVE  o = Len(content)
<1>0. PICK c, L, f : c = content /\ L = Len(c) /\ f = o + 1
  OBVIOUS
<1>1. c \in Seq(Nat) /\ L \in Nat /\ o \in 0 .. L /\ SubSeq(c, f, L) = <<>>
  BY <1>0, LenProperties, NoBytes DEF Suffix
<1>2. f \in Int /\ L \in Int /\ \A i \in f .. L : c[i] \in Nat
  <2>1. \A i \in 1 .. L : c[i] \in Nat
    BY <1>0, <1>1, ElementOfSeq
  <2>2. f \in Int /\ L \in Int /\ f .. L \subseteq 1 .. L
    BY <1>0, <1>1
  <2>3. \A i \in f .. L : c[i] \in Nat
    BY <2>1, <2>2
  <2>. QED  BY <2>2, <2>3
<1>3. Len(SubSeq(c, f, L)) = IF f <= L THEN L - f + 1 ELSE 0
  BY <1>2, SubSeqProperties
<1>4. Len(SubSeq(c, f, L)) = 0
  BY <1>1, EmptySeq
<1>. QED  BY <1>0, <1>1, <1>3, <1>4

LEMMA LoadNextNodeKeeps ==
  ASSUME IInv, LoadNextNode
  PROVE  IInv'
<1>1. Reading /\ ~IsRaw /\ reader.node.at = "requested" /\ Stays
  BY DEF LoadNextNode, AtNode
<1>2. PICK r, pos, M, p, ls, f : IsGoing(r, pos, M, p, ls, f)
  BY <1>1, GoingIs
<1>3. /\ reader.pos = pos /\ reader.pos_max = M /\ reader.node = p
      /\ reader.links = ls /\ reader.failed = f
      /\ pos \in Nat /\ M \in {NoMax} \cup Nat /\ ls \in Seq(Seq(Nodes))
      /\ BuildInv /\ file # Nothing /\ content \in Seq(Nat)
      /\ IsMade(reader, pos, M, p, ls, f) /\ IsPlace(p, pos, Nodes)
      /\ ~f => InPlace(reader)
  BY <1>2, GoingFields
<1>4. PICK o \in 0 .. pos : p = Requested(o)
  BY <1>1, <1>3, PlaceAt
<1>5. ~f => Suffix(o, FromLast(ls))
  BY <1>3, <1>4, LeftToRead
<1>6. PICK more : more = {i \in DOMAIN ls : ls[i] # <<>>}
  OBVIOUS
<1>7. PICK top : top = CHOOSE i \in more : \A j \in more : j <= i
  OBVIOUS
<1>8. /\ more = {} => IsTop(ls, 0, Nodes)
      /\ more # {} => IsTop(ls, top, Nodes) /\ top \in 1 .. Len(ls) /\ ls[top] # <<>>
  BY <1>3, <1>6, <1>7, TopOf
<1>9. p.offset = o
  BY <1>4, PlaceFields
<1>10. CASE more = {}
  <2>1. /\ reader' = [reader EXCEPT !.links = <<>>] /\ call' = Nothing
        /\ last' = [from |-> pos, bytes |-> <<>>]
    BY <1>3, <1>6, <1>10 DEF LoadNextNode, Returns
  <2>2. PICK q, k, s, la : q = p /\ k = <<>> /\ s = reader' /\ la = [from |-> pos, bytes |-> <<>>]
    OBVIOUS
  <2>3. IsMade(s, pos, M, q, k, f)
    BY <1>3, <2>1, <2>2 DEF IsMade
  <2>4. k \in Seq(Seq(Nodes)) /\ FromLast(k) = <<>>
    BY <2>2, EmptySeq, StackEmpty
  <2>5. FromLast(ls) = <<>>
    <3>1. IsTop(ls, 0, Nodes)
      BY <1>8, <1>10
    <3>2. FromLast(ls) = FromLast(SubSeq(ls, 1, 0))
      BY <3>1, StackTop
    <3>3. SubSeq(ls, 1, 0) = <<>>
      BY SubSeqEmpty
    <3>. QED  BY <3>2, <3>3, StackEmpty
  <2>6. ASSUME ~f PROVE Stands(q, k) /\ IsAnswer(la.from, la.bytes, M)
    <3>1. Suffix(o, <<>>)
      BY <1>5, <2>5, <2>6
    <3>2. o = Len(content)
      BY <1>3, <3>1, NoneLeft
    <3>3. pos >= Len(content)
      BY <1>3, <1>4, <3>2
    <3>4. IsAnswer(pos, <<>>, M)
      BY <1>3, <3>3, NoneAnswers
    <3>5. IsAnswer(la.from, la.bytes, M)
      BY <2>2, <3>4
    <3>. QED  BY <1>4, <2>2, <2>4, <3>1, <3>5 DEF Stands
  <2>7. IsPlace(q, pos, Nodes)
    BY <1>3, <2>2
  <2>8. IsMove(s, pos, M, q, k, f, Nothing, la)
    BY <1>1, <1>3, <2>3, <2>4, <2>6, <2>7 DEF IsMove
  <2>9. IsStep(reader', call', last')
    BY <2>1, <2>2, <2>8, MoveIsStep
  <2>. QED  BY <1>1, <2>9, StepKeeps
<1>11. CASE more # {}
  <2>1. PICK l, a, x, t : /\ l = ls[top] /\ a = SubSeq(ls, 1, top - 1)
                          /\ x = Head(l) /\ t = Tail(l)
    OBVIOUS
  <2>2. /\ reader' = [reader EXCEPT !.node  = Loading(o, x), !.links = Append(a, t)]
        /\ call' = call /\ last' = last
    BY <1>3, <1>6, <1>7, <1>9, <1>11, <2>1 DEF LoadNextNode
  <2>3. PICK q, k, s, cl, la : /\ q = Loading(o, x) /\ k = Append(a, t) /\ s = reader'
                               /\ cl = call /\ la = last
    OBVIOUS
  <2>4. IsMade(s, pos, M, q, k, f)
    BY <1>3, <2>2, <2>3 DEF IsMade
  <2>5. IsTop(ls, top, Nodes) /\ top # 0 /\ l # <<>>
    BY <1>8, <1>11, <2>1
  <2>6. l \in Seq(Nodes) /\ a \in Seq(Seq(Nodes)) /\ FromLast(ls) = l \o FromLast(a)
    BY <2>1, <2>5, StackPop
  <2>7. PICK u : u = FromLast(a)
    OBVIOUS
  <2>8. u \in Seq(Nodes)
    BY <2>6, <2>7, StackType
  <2>9. x \in Nodes /\ t \in Seq(Nodes) /\ <<x>> \o (t \o u) = l \o u
    <3>1. PICK U : U = Nodes
      OBVIOUS
    <3>2. l \in Seq(U) /\ u \in Seq(U) /\ l # <<>>
      BY <2>5, <2>6, <2>8, <3>1
    <3>3. Head(l) \in U /\ Tail(l) \in Seq(U) /\ <<Head(l)>> \o (Tail(l) \o u) = l \o u
      BY <3>2, HeadFirst
    <3>. QED  BY <2>1, <3>1, <3>3
  <2>10. FromLast(Append(a, t)) = t \o FromLast(a)
    BY <2>6, <2>9, StackAppend
  <2>11. k \in Seq(Seq(Nodes)) /\ <<x>> \o FromLast(k) = FromLast(ls)
    <3>1. Append(a, t) \in Seq(Seq(Nodes))
      BY <2>6, <2>9, AppendProperties
    <3>. QED  BY <2>3, <2>6, <2>7, <2>9, <2>10, <3>1
  <2>12. IsPlace(q, pos, Nodes)
    BY <1>4, <2>3, <2>9 DEF IsPlace
  <2>13. ASSUME ~f PROVE Stands(q, k)
    <3>1. Suffix(o, <<x>> \o FromLast(k))
      BY <1>5, <2>11, <2>13
    <3>. QED  BY <2>3, <3>1 DEF Stands
  <2>14. IsMove(s, pos, M, q, k, f, cl, la)
    BY <1>1, <1>2, <1>3, <2>3, <2>4, <2>11, <2>12, <2>13 DEF IsMove, IsGoing
  <2>15. IsStep(reader', call', last')
    BY <2>2, <2>3, <2>14, MoveIsStep
  <2>. QED  BY <1>1, <2>15, StepKeeps
<1>. QED  BY <1>10, <1>11

LEMMA LoadFailsKeeps ==
  ASSUME IInv, LoadFails
  PROVE  IInv'
<1>1. /\ Reading /\ ~IsRaw /\ reader.node.at = "loading" /\ Stays
      /\ call' = Nothing /\ last' = Nothing
      /\ reader' = [reader EXCEPT !.node = Requested(reader.node.offset), !.failed = TRUE]
  BY DEF LoadFails, AtNode
<1>2. PICK r, pos, M, p, ls, f : IsGoing(r, pos, M, p, ls, f)
  BY <1>1, GoingIs
<1>3. /\ reader.pos = pos /\ reader.pos_max = M /\ reader.node = p
      /\ reader.links = ls /\ reader.failed = f
      /\ pos \in Nat /\ M \in {NoMax} \cup Nat /\ ls \in Seq(Seq(Nodes))
      /\ BuildInv /\ file # Nothing /\ content \in Seq(Nat)
      /\ IsMade(reader, pos, M, p, ls, f) /\ IsPlace(p, pos, Nodes)
      /\ ~f => InPlace(reader)
  BY <1>2, GoingFields
<1>4. PICK o : o \in 0 .. pos /\ \E x \in Nodes : p = Loading(o, x)
  BY <1>1, <1>3, PlaceAt
<1>5. p.offset = o
  BY <1>4, PlaceFields
<1>6. PICK q, s, g : q = Requested(o) /\ s = reader' /\ g = TRUE
  OBVIOUS
<1>7. IsMade(s, pos, M, q, ls, g)
  BY <1>1, <1>3, <1>5, <1>6 DEF IsMade
<1>8. IsPlace(q, pos, Nodes)
  BY <1>4, <1>6 DEF IsPlace
<1>9. g
  BY <1>6
<1>10. IsMove(s, pos, M, q, ls, g, Nothing, Nothing)
  BY <1>1, <1>3, <1>7, <1>8, <1>9 DEF IsMove
<1>11. IsStep(reader', call', last')
  BY <1>1, <1>6, <1>10, MoveIsStep
<1>. QED  BY <1>1, <1>11, StepKeeps

(* What is left once the first m links of a node are skipped.              *)
LEMMA StemOpens ==
  ASSUME content \in Seq(Nat), NEW d, NEW n \in Nat, NEW j \in 0 .. n - 1,
         NEW l \in Seq(Grade(j, d)), Len(l) <= d, NEW m \in 0 .. Len(l),
         NEW u \in Seq(UpToGrade(n, d)), NEW o, Suffix(o, <<Stem(l)>> \o u)
  PROVE  /\ SubSeq(l, m + 1, Len(l)) \in Seq(UpToGrade(n, d))
         /\ Suffix(o + Len(BytesOf(SubSeq(l, 1, m))), SubSeq(l, m + 1, Len(l)) \o u)
<1>0. PICK a, b, U : a = SubSeq(l, 1, m) /\ b = SubSeq(l, m + 1, Len(l)) /\ U = UpToGrade(n, d)
  OBVIOUS
<1>1. j \in Nat /\ j \in 0 .. n /\ j + 1 \in 0 .. n
  OBVIOUS
<1>2. a \in Seq(Grade(j, d)) /\ b \in Seq(Grade(j, d)) /\ a \o b = l
  BY <1>0, CutSeq
<1>3. a \in Seq(U) /\ b \in Seq(U) /\ l \in Seq(U)
  BY <1>0, <1>1, <1>2, GradeUpTo
<1>4. Stem(l) \in U
  <2>1. Stem(l) \in Grade(j + 1, d)
    BY <1>1, StemIsTree
  <2>. QED  BY <1>0, <1>1, <2>1, GradeUpTo
<1>5. PICK h, p, q, v : h = <<Stem(l)>> /\ p = BytesOf(a) /\ q = BytesOf(b) /\ v = BytesOf(u)
  OBVIOUS
<1>6. h \in Seq(U) /\ BytesOf(h) = BytesOf(l)
  BY <1>1, <1>4, <1>5, BytesOfStem
<1>7. p \in Seq(Nat) /\ q \in Seq(Nat) /\ v \in Seq(Nat)
  BY <1>0, <1>3, <1>5, BytesType
<1>8. BytesOf(h \o u) = BytesOf(h) \o v
  BY <1>0, <1>5, <1>6, BytesConcat
<1>9. BytesOf(a \o b) = p \o q
  BY <1>0, <1>3, <1>5, BytesConcat
<1>10. BytesOf(b \o u) = q \o v
  BY <1>0, <1>3, <1>5, BytesConcat
<1>11. BytesOf(h \o u) = p \o (q \o v)
  <2>1. (p \o q) \o v = p \o (q \o v)
    BY <1>7, JoinBytes
  <2>. QED  BY <1>2, <1>6, <1>8, <1>9, <2>1
<1>12. q \o v \in Seq(Nat)
  BY <1>7, ConcatProperties
<1>13. PICK s, t, w : s = h \o u /\ t = b \o u /\ w = q \o v
  OBVIOUS
<1>14. Suffix(o, s) /\ w \in Seq(Nat) /\ BytesOf(s) = p \o w /\ BytesOf(t) = w
  BY <1>5, <1>10, <1>11, <1>12, <1>13
<1>15. Suffix(o + Len(p), t)
  BY <1>7, <1>14, SuffixDrop
<1>. QED  BY <1>0, <1>3, <1>5, <1>13, <1>15

(* A leaf and what comes after it.                                         *)
LEMMA LeafDrops ==
  ASSUME content \in Seq(Nat), NEW d, NEW n \in Nat, NEW b \in Seq(Nat),
         NEW u \in Seq(UpToGrade(n, d)), NEW o, Suffix(o, <<Raw(b)>> \o u)
  PROVE  /\ Suffix(o + Len(b), u)
         /\ BytesOf(<<Raw(b)>> \o u) = b \o BytesOf(u) /\ BytesOf(u) \in Seq(Nat)
<1>1. PICK h, U, v, s : h = <<Raw(b)>> /\ U = UpToGrade(n, d) /\ v = BytesOf(u) /\ s = h \o u
  OBVIOUS
<1>2. h \in Seq(U)
  <2>1. Raw(b) \in Grade(0, d) /\ 0 \in 0 .. n
    BY RawIsTree
  <2>. QED  BY <1>1, <2>1, GradeUpTo
<1>3. BytesOf(h) = b /\ v \in Seq(Nat)
  BY <1>1, BytesOfRaw, BytesType
<1>4. BytesOf(h \o u) = BytesOf(h) \o BytesOf(u)
  BY <1>1, <1>2, BytesConcat
<1>5. BytesOf(s) = b \o v /\ BytesOf(u) = v /\ Suffix(o, s)
  BY <1>1, <1>3, <1>4
<1>6. Suffix(o + Len(b), u)
  BY <1>3, <1>5, SuffixDrop
<1>. QED  BY <1>1, <1>3, <1>5, <1>6

(* find_block ends where a block begins, at the position or before it.     *)
LEMMA FoundIs ==
  ASSUME NEW pos \in Nat, reader.pos = pos, NEW o \in 0 .. pos, NEW d, NEW n \in Nat,
         NEW l \in Seq(Grade(n, d)), NEW g, g = FindBlock(Stem(l), o)
  PROVE  /\ g.index \in 0 .. Len(l) /\ g.offset \in 0 .. pos
         /\ g.offset = o + Len(BytesOf(SubSeq(l, 1, g.index)))
<1>0. PICK N, bs, ends : /\ N = Len(l) /\ bs = Stem(l).blocksizes
                         /\ ends = [i \in 0 .. N |-> Len(BytesOf(SubSeq(l, 1, i)))]
  OBVIOUS
<1>1. N \in Nat /\ DOMAIN l = 1 .. N
  BY <1>0, LenProperties
<1>2. bs = SizesOf(l) /\ DOMAIN bs = 1 .. N
  <2>1. 0 \in 0 .. Len(l)
    BY <1>0, <1>1
  <2>2. bs = SizesOf(l)
    BY <1>0, <2>1, BlockSizesAdd
  <2>3. DOMAIN SizesOf(l) = DOMAIN l
    BY DEF SizesOf
  <2>. QED  BY <1>1, <2>2, <2>3
<1>3. \A i \in 0 .. N : SumTo(bs, i) = ends[i]
  <2>1. \A i \in 0 .. Len(l) : SumTo(SizesOf(l), i) = Len(BytesOf(SubSeq(l, 1, i)))
    BY BlockSizesAdd
  <2>. QED  BY <1>0, <1>2, <2>1
<1>4. PICK U : U = UpToGrade(n, d)
  OBVIOUS
<1>5. l \in Seq(U)
  <2>1. n \in 0 .. n
    OBVIOUS
  <2>. QED  BY <1>4, <2>1, GradeUpTo
<1>6. \A i \in 0 .. N : ends[i] \in Nat
  <2>1. TAKE i \in 0 .. N
  <2>2. SubSeq(l, 1, i) \in Seq(U)
    BY <1>0, <1>5, CutSeq
  <2>3. BytesOf(SubSeq(l, 1, i)) \in Seq(Nat)
    BY <1>4, <2>2, BytesType
  <2>. QED  BY <1>0, <2>3, LenProperties
<1>7. ends[0] = 0
  <2>1. SubSeq(l, 1, 0) = <<>>
    BY SubSeqEmpty
  <2>2. 0 \in 0 .. N
    BY <1>1
  <2>. QED  BY <1>0, <2>1, <2>2, NoBytes, EmptySeq
<1>8. ASSUME NEW i \in 1 .. N PROVE ends[i - 1] <= ends[i]
  <2>1. PICK a, x : a = SubSeq(l, 1, i - 1) /\ x = l[i]
    OBVIOUS
  <2>2. a \in Seq(U) /\ x \in U
    BY <1>0, <1>1, <1>5, <2>1, SubSeqStep, ElementOfSeq
  <2>3. SubSeq(l, 1, i) = Append(a, x)
    BY <1>0, <1>5, <2>1, SubSeqStep
  <2>4. Append(a, x) = a \o <<x>> /\ <<x>> \in Seq(U)
    BY <2>2, AppendIsConcat
  <2>5. PICK e : e = <<x>>
    OBVIOUS
  <2>6. BytesOf(a \o e) = BytesOf(a) \o BytesOf(e)
    BY <1>4, <2>2, <2>4, <2>5, BytesConcat
  <2>7. BytesOf(a) \in Seq(Nat) /\ BytesOf(e) \in Seq(Nat)
    BY <1>4, <2>2, <2>4, <2>5, BytesType
  <2>8. PICK v, w : v = BytesOf(a) /\ w = BytesOf(e)
    OBVIOUS
  <2>9. v \in Seq(Nat) /\ w \in Seq(Nat) /\ BytesOf(SubSeq(l, 1, i)) = v \o w
    BY <2>3, <2>4, <2>5, <2>6, <2>7, <2>8
  <2>10. Len(v \o w) = Len(v) + Len(w) /\ Len(v) \in Nat /\ Len(w) \in Nat
    BY <2>9, ConcatProperties, LenProperties
  <2>11. i \in 0 .. N /\ i - 1 \in 0 .. N
    BY <1>1
  <2>12. ends[i] = Len(v \o w) /\ ends[i - 1] = Len(v)
    BY <1>0, <2>1, <2>8, <2>9, <2>11
  <2>. QED  BY <2>10, <2>12
<1>9. PICK before : before = {i \in DOMAIN bs : o + SumTo(bs, i) <= pos}
  OBVIOUS
<1>10. before = {i \in 1 .. N : o + ends[i] <= pos}
  <2>1. \A i \in 1 .. N : i \in 0 .. N
    BY <1>1
  <2>. QED  BY <1>2, <1>3, <1>9, <2>1
<1>11. PICK m : m = Cardinality(before)
  OBVIOUS
<1>12. m \in 0 .. N /\ o + ends[m] <= pos
  <2>1. CASE before = {}
    <3>1. m = 0
      BY <1>11, <2>1, FS_EmptySet
    <3>. QED  BY <1>1, <1>7, <3>1
  <2>2. CASE before # {}
    <3>1. before \subseteq 1 .. N /\ before \subseteq Nat
      BY <1>1, <1>10
    <3>2. IsFiniteSet(before)
      BY <1>1, <3>1, UpToCard, FS_Subset
    <3>3. PICK h \in before : \A i \in before : i <= h
      BY <2>2, <3>1, <3>2, GreatestOf
    <3>4. h \in 1 .. N /\ h \in Nat /\ o + ends[h] <= pos
      BY <1>1, <1>10, <3>3
    <3>5. 1 .. h \subseteq before
      <4>1. SUFFICES ASSUME NEW z \in 1 .. h, z \notin before PROVE FALSE
        OBVIOUS
      <4>2. PICK A : A = {i \in 1 .. h : i \notin before}
        OBVIOUS
      <4>3. A \subseteq 1 .. h /\ A \subseteq Nat /\ A # {}
        BY <3>4, <4>1, <4>2
      <4>4. IsFiniteSet(A)
        <5>1. IsFiniteSet(1 .. h)
          BY <3>4, UpToCard
        <5>. QED  BY <4>3, <5>1, FS_Subset
      <4>5. PICK b \in A : \A i \in A : i <= b
        BY <4>3, <4>4, GreatestOf
      <4>6. b \in 1 .. h /\ b \notin before /\ b # h
        BY <3>3, <4>2, <4>5
      <4>7. PICK e : e = b + 1
        OBVIOUS
      <4>8. e \in 1 .. h /\ ~(e <= b) /\ e - 1 = b /\ e \in 1 .. N /\ b \in 1 .. N
        BY <1>1, <3>4, <4>6, <4>7
      <4>9. e \in before
        BY <4>2, <4>5, <4>8
      <4>10. ends[b] <= ends[e]
        BY <1>8, <4>8
      <4>11. ends[b] \in Nat /\ ends[e] \in Nat
        BY <1>1, <1>6, <4>8
      <4>12. o + ends[b] <= pos
        BY <1>10, <4>9, <4>10, <4>11
      <4>. QED  BY <1>10, <4>6, <4>8, <4>12
    <3>6. before \subseteq 1 .. h
      <4>1. \A i \in before : i \in 1 .. N /\ i <= h
        BY <3>1, <3>3
      <4>. QED  BY <3>4, <4>1
    <3>7. before = 1 .. h
      BY <3>5, <3>6
    <3>8. m = h
      BY <1>11, <3>4, <3>7, UpToCard
    <3>. QED  BY <1>1, <3>4, <3>8
  <2>. QED  BY <2>1, <2>2
<1>13. g.index = m /\ g.offset = o + SumTo(bs, m)
  BY <1>0, <1>9, <1>11 DEF FindBlock
<1>14. g.offset = o + ends[m] /\ ends[m] \in Nat
  BY <1>3, <1>6, <1>12, <1>13
<1>15. g.offset = o + Len(BytesOf(SubSeq(l, 1, g.index)))
  BY <1>0, <1>12, <1>13, <1>14
<1>. QED  BY <1>0, <1>12, <1>13, <1>14, <1>15

LEMMA NodeLoadsKeeps ==
  ASSUME IInv, NodeLoads
  PROVE  IInv'
<1>1. Reading /\ ~IsRaw /\ reader.node.at = "loading" /\ Stays /\ call' = call /\ last' = last
  BY DEF NodeLoads, AtNode
<1>2. PICK r, pos, M, p, ls, f : IsGoing(r, pos, M, p, ls, f)
  BY <1>1, GoingIs
<1>3. /\ reader.pos = pos /\ reader.pos_max = M /\ reader.node = p
      /\ reader.links = ls /\ reader.failed = f
      /\ pos \in Nat /\ M \in {NoMax} \cup Nat /\ ls \in Seq(Seq(Nodes))
      /\ BuildInv /\ file # Nothing /\ content \in Seq(Nat)
      /\ IsMade(reader, pos, M, p, ls, f) /\ IsPlace(p, pos, Nodes)
      /\ ~f => InPlace(reader)
  BY <1>2, GoingFields
<1>4. \E o \in 0 .. pos : \E x \in Nodes : p = Loading(o, x)
  BY <1>1, <1>3, PlaceAt
<1>5. PICK o, x : o \in 0 .. pos /\ x \in Nodes /\ p = Loading(o, x)
  BY <1>4
<1>6. p.offset = o /\ p.node = x
  BY <1>5, PlaceFields
<1>7. PICK u : u = FromLast(ls)
  OBVIOUS
<1>8. u \in Seq(Nodes) /\ (~f => Suffix(o, <<x>> \o u))
  BY <1>3, <1>5, <1>7, StackType, LeftToRead
<1>9. PICK n, d : n = Len(layers) /\ d = degree
  OBVIOUS
<1>10. n \in Nat /\ d \in Nat /\ Nodes = UpToGrade(n, d)
  BY <1>3, <1>9, LayersType DEF BuildInv, Nodes
<1>11. PICK k \in 0 .. n : x \in Grade(k, d)
  BY <1>5, <1>10, UpToGradeIs
<1>12. k \in Nat
  BY <1>10
<1>13. \/ /\ k = 0 /\ x.type = "raw" /\ x.data \in Seq(Nat)
          /\ x = Raw(x.data) /\ x.filesize = Len(x.data)
       \/ /\ k # 0 /\ x.type = "node" /\ x.links \in Seq(Grade(k - 1, d))
          /\ Len(x.links) <= d /\ x = Stem(x.links)
  BY <1>11, <1>12, TreeIs
<1>14. PICK found : found = FindBlock(x, o)
  OBVIOUS
<1>15. reader' =
         IF x.type = "raw" THEN [reader EXCEPT !.node = Loaded(o, pos - o, x)]
         ELSE [reader EXCEPT !.node  = Requested(found.offset),
                             !.links = Append(@, SubSeq(x.links, found.index + 1, Len(x.links)))]
  BY <1>3, <1>6, <1>14 DEF NodeLoads
<1>16. PICK s, cl, la : s = reader' /\ cl = call /\ la = last
  OBVIOUS
<1>17. CASE k = 0
  <2>1. x.type = "raw" /\ x.data \in Seq(Nat) /\ x = Raw(x.data)
    BY <1>13, <1>17
  <2>2. PICK q : q = Loaded(o, pos - o, x)
    OBVIOUS
  <2>3. reader' = [reader EXCEPT !.node = q]
    BY <1>15, <2>1, <2>2
  <2>4. IsMade(s, pos, M, q, ls, f)
    BY <1>3, <1>16, <2>3 DEF IsMade
  <2>5. x \in Raws
    BY <2>1 DEF Raws
  <2>6. IsPlace(q, pos, Nodes)
    BY <1>5, <2>2, <2>5 DEF IsPlace
  <2>7. ASSUME ~f PROVE Stands(q, ls)
    BY <1>7, <1>8, <2>2, <2>7 DEF Stands
  <2>8. IsMove(s, pos, M, q, ls, f, cl, la)
    BY <1>1, <1>2, <1>3, <1>16, <2>4, <2>6, <2>7 DEF IsMove, IsGoing
  <2>9. IsStep(reader', call', last')
    BY <1>1, <1>16, <2>8, MoveIsStep
  <2>. QED  BY <1>1, <2>9, StepKeeps
<1>18. CASE k # 0
  <2>1. PICK l, j : l = x.links /\ j = k - 1
    OBVIOUS
  <2>2. /\ x.type = "node" /\ l \in Seq(Grade(j, d)) /\ Len(l) <= d /\ x = Stem(l)
        /\ j \in Nat /\ j \in 0 .. n - 1
    BY <1>10, <1>12, <1>13, <1>18, <2>1
  <2>3. /\ found.index \in 0 .. Len(l) /\ found.offset \in 0 .. pos
        /\ found.offset = o + Len(BytesOf(SubSeq(l, 1, found.index)))
    <3>1. found = FindBlock(Stem(l), o)
      BY <1>14, <2>2
    <3>2. reader.pos = pos /\ pos \in Nat /\ o \in 0 .. pos
      BY <1>3, <1>5
    <3>3. l \in Seq(Grade(j, d)) /\ j \in Nat
      BY <2>2
    <3>4. PICK po : po = pos
      OBVIOUS
    <3>5. po \in Nat /\ reader.pos = po /\ o \in 0 .. po
      BY <3>2, <3>4
    <3>6. /\ found.index \in 0 .. Len(l) /\ found.offset \in 0 .. po
          /\ found.offset = o + Len(BytesOf(SubSeq(l, 1, found.index)))
      BY <3>1, <3>3, <3>5, FoundIs
    <3>. QED  BY <3>4, <3>6
  <2>4. PICK q, m, b, y, t : /\ y = found.offset /\ q = Requested(y) /\ m = found.index
                             /\ b = SubSeq(l, m + 1, Len(l)) /\ t = Append(ls, b)
    OBVIOUS
  <2>5. /\ m \in 0 .. Len(l) /\ y \in 0 .. pos /\ y = o + Len(BytesOf(SubSeq(l, 1, m)))
    BY <2>3, <2>4
  <2>6. x.type # "raw"
    BY <2>2
  <2>7. reader' = [reader EXCEPT !.node = q, !.links = Append(@, b)]
    BY <1>15, <2>1, <2>4, <2>6
  <2>8. IsMade(s, pos, M, q, t, f)
    BY <1>3, <1>16, <2>4, <2>7 DEF IsMade
  <2>9. b \in Seq(Nodes)
    <3>1. PICK U : U = UpToGrade(n, d)
      OBVIOUS
    <3>2. j \in 0 .. n
      BY <1>10, <2>2
    <3>3. SubSeq(l, m + 1, Len(l)) \in Seq(Grade(j, d))
      BY <2>2, <2>5, CutSeq
    <3>. QED  BY <1>10, <2>4, <3>2, <3>3, GradeUpTo
  <2>10. t \in Seq(Seq(Nodes)) /\ FromLast(t) = b \o u
    <3>1. Append(ls, b) \in Seq(Seq(Nodes))
      BY <1>3, <2>9, AppendProperties
    <3>2. FromLast(Append(ls, b)) = b \o FromLast(ls)
      BY <1>3, <2>9, StackAppend
    <3>. QED  BY <1>7, <2>4, <3>1, <3>2
  <2>11. IsPlace(q, pos, Nodes)
    BY <2>4, <2>5 DEF IsPlace
  <2>12. ASSUME ~f PROVE Stands(q, t)
    <3>1. Suffix(o, <<Stem(l)>> \o u)
      BY <1>8, <2>2, <2>12
    <3>2. u \in Seq(UpToGrade(n, d))
      BY <1>8, <1>10
    <3>3. Suffix(o + Len(BytesOf(SubSeq(l, 1, m))), SubSeq(l, m + 1, Len(l)) \o u)
      BY <1>3, <1>10, <2>2, <2>5, <3>1, <3>2, StemOpens
    <3>4. Suffix(y, FromLast(t))
      BY <2>4, <2>5, <2>10, <3>3
    <3>. QED  BY <2>4, <3>4 DEF Stands
  <2>13. IsMove(s, pos, M, q, t, f, cl, la)
    BY <1>1, <1>2, <1>3, <1>16, <2>8, <2>10, <2>11, <2>12 DEF IsMove, IsGoing
  <2>14. IsStep(reader', call', last')
    BY <1>1, <1>16, <2>13, MoveIsStep
  <2>. QED  BY <1>1, <2>14, StepKeeps
<1>. QED  BY <1>17, <1>18

LEMMA TakenType ==
  ASSUME reader.pos \in Nat, reader.pos_max \in {NoMax} \cup Nat,
         call.room \in Nat \ {0}, NEW d \in Seq(Nat)
  PROVE  Taken(d) \in Seq(Nat) /\ Len(Taken(d)) \in 0 .. Len(d)
<1>0. PICK p, M, m, room : p = reader.pos /\ M = reader.pos_max /\ m = Len(d) /\ room = call.room
  OBVIOUS
<1>1. p \in Nat /\ m \in Nat /\ room \in Nat \ {0} /\ (M = -1 \/ M \in Nat)
  BY <1>0, LenProperties DEF NoMax
<1>2. PICK most : most = IF M = -1 \/ M < p THEN m ELSE M - p
  OBVIOUS
<1>3. most \in Nat
  BY <1>1, <1>2
<1>4. PICK S, k : S = {most, room, m} /\ k = Smallest(S)
  OBVIOUS
<1>5. k \in S /\ k <= m
  <2>1. S \subseteq Nat /\ S # {} /\ m \in S
    BY <1>1, <1>3, <1>4
  <2>. QED  BY <1>4, <2>1, SmallestIs
<1>6. k \in 0 .. m
  BY <1>1, <1>3, <1>4, <1>5
<1>7. SubSeq(d, 1, k) \in Seq(Nat) /\ Len(SubSeq(d, 1, k)) = k
  BY <1>0, <1>6, CutSeq
<1>8. Taken(d) = SubSeq(d, 1, k)
  BY <1>0, <1>2, <1>4 DEF Taken, NoMax
<1>. QED  BY <1>0, <1>6, <1>7, <1>8

(* What is left of a leaf begins at the position.                          *)
LEMMA LeafIsNext ==
  ASSUME content \in Seq(Nat), NEW s, NEW b \in Seq(Nat), NEW v \in Seq(Nat),
         BytesOf(s) = b \o v, NEW o, Suffix(o, s),
         NEW k \in Nat, k < Len(b)
  PROVE  IsNext(SubSeq(b, k + 1, Len(b)), o + k)
<1>0. PICK c, L, m, h, pos : c = content /\ L = Len(c) /\ m = Len(b) /\ h = Len(v) /\ pos = o + k
  OBVIOUS
<1>1. /\ c \in Seq(Nat) /\ L \in Nat /\ m \in Nat /\ h \in Nat /\ o \in 0 .. L /\ o \in Nat
      /\ b \o v = SubSeq(c, o + 1, L) /\ k < m /\ pos \in Nat
  BY <1>0, LenProperties DEF Suffix
<1>2. Len(b \o v) = m + h /\ \A i \in 1 .. m + h : (b \o v)[i] = IF i <= m THEN b[i] ELSE v[i - m]
  BY <1>0, ConcatProperties
<1>3. \A i \in 1 .. L : c[i] \in Nat
  BY <1>0, <1>1, ElementOfSeq
<1>4. o + 1 \in Int /\ L \in Int /\ \A i \in o + 1 .. L : c[i] \in Nat
  BY <1>1, <1>3
<1>5. /\ Len(SubSeq(c, o + 1, L)) = IF o + 1 <= L THEN L - (o + 1) + 1 ELSE 0
      /\ \A i \in 1 .. L - (o + 1) + 1 : SubSeq(c, o + 1, L)[i] = c[o + 1 + i - 1]
  BY <1>4, SubSeqProperties
<1>6. m + h = L - o
  BY <1>1, <1>2, <1>5
<1>7. PICK d, n : d = SubSeq(b, k + 1, m) /\ n = m - k
  OBVIOUS
<1>8. n \in Nat \ {0} /\ pos + n <= L
  BY <1>0, <1>1, <1>6, <1>7
<1>9. d \in Seq(Nat) /\ Len(d) = n /\ \A i \in 1 .. n : d[i] = b[k + i]
  <2>1. \A i \in 1 .. m : b[i] \in Nat
    BY <1>0, <1>1, ElementOfSeq
  <2>2. k + 1 \in Int /\ m \in Int /\ \A i \in k + 1 .. m : b[i] \in Nat
    BY <1>1, <2>1
  <2>3. /\ d \in Seq(Nat)
        /\ Len(d) = IF k + 1 <= m THEN m - (k + 1) + 1 ELSE 0
        /\ \A i \in 1 .. m - (k + 1) + 1 : d[i] = b[k + 1 + i - 1]
    BY <1>7, <2>2, SubSeqProperties
  <2>4. Len(d) = n
    BY <1>1, <1>7, <2>3
  <2>5. \A i \in 1 .. n : i \in 1 .. m - (k + 1) + 1 /\ k + 1 + i - 1 = k + i
    BY <1>1, <1>7
  <2>. QED  BY <2>3, <2>4, <2>5
<1>10. PICK u : u = SubSeq(c, pos + 1, pos + n)
  OBVIOUS
<1>11. u \in Seq(Nat) /\ Len(u) = n /\ \A i \in 1 .. n : u[i] = c[pos + i]
  <2>1. PICK a, e : a = pos + 1 /\ e = pos + n
    OBVIOUS
  <2>2. a \in Int /\ e \in Int /\ a .. e \subseteq 1 .. L
    BY <1>1, <1>8, <2>1
  <2>3. \A i \in a .. e : c[i] \in Nat
    BY <1>3, <2>2
  <2>4. /\ u \in Seq(Nat) /\ Len(u) = IF a <= e THEN e - a + 1 ELSE 0
        /\ \A i \in 1 .. e - a + 1 : u[i] = c[a + i - 1]
    BY <1>10, <2>1, <2>2, <2>3, SubSeqProperties
  <2>5. a <= e /\ e - a + 1 = n
    BY <1>1, <1>8, <2>1
  <2>6. \A i \in 1 .. n : i \in 1 .. e - a + 1 /\ a + i - 1 = pos + i
    BY <1>1, <2>1, <2>5
  <2>. QED  BY <2>4, <2>5, <2>6
<1>12. \A i \in 1 .. n : d[i] = u[i]
  <2>1. TAKE i \in 1 .. n
  <2>2. PICK q : q = k + i
    OBVIOUS
  <2>3. /\ q \in 1 .. m + h /\ q <= m /\ q \in 1 .. L - (o + 1) + 1
        /\ o + 1 + q - 1 = pos + i
    <3>1. q \in 1 .. m /\ i \in Nat
      BY <1>1, <1>7, <2>2
    <3>2. m \in 0 .. m + h /\ m + h = L - (o + 1) + 1
      BY <1>1, <1>6
    <3>3. o + 1 + q - 1 = pos + i
      BY <1>0, <1>1, <2>2, <3>1
    <3>. QED  BY <1>1, <3>1, <3>2, <3>3
  <2>4. (b \o v)[q] = b[q] /\ (b \o v)[q] = c[pos + i]
    BY <1>1, <1>2, <1>5, <2>3
  <2>. QED  BY <1>9, <1>11, <2>2, <2>4
<1>13. d = u
  BY <1>9, <1>11, <1>12, SameSeq
<1>14. IsNext(d, pos)
  <2>1. d \in Seq(Nat) /\ d = SubSeq(content, pos + 1, pos + Len(d))
    BY <1>0, <1>9, <1>10, <1>13
  <2>2. Len(d) # 0 /\ pos + Len(d) <= Len(content)
    BY <1>0, <1>8, <1>9
  <2>. QED  BY <2>1, <2>2 DEF IsNext
<1>. QED  BY <1>0, <1>7, <1>14

LEMMA ReadLeafKeeps ==
  ASSUME IInv, ReadLeaf
  PROVE  IInv'
<1>1. Reading /\ ~IsRaw /\ reader.node.at = "loaded" /\ Stays
  BY DEF ReadLeaf, AtNode
<1>2. PICK r, pos, M, p, ls, f : IsGoing(r, pos, M, p, ls, f)
  BY <1>1, GoingIs
<1>3. /\ reader.pos = pos /\ reader.pos_max = M /\ reader.node = p
      /\ reader.links = ls /\ reader.failed = f
      /\ pos \in Nat /\ M \in {NoMax} \cup Nat /\ ls \in Seq(Seq(Nodes))
      /\ BuildInv /\ file # Nothing /\ content \in Seq(Nat)
      /\ IsMade(reader, pos, M, p, ls, f) /\ IsPlace(p, pos, Nodes)
      /\ ~f => InPlace(reader)
  BY <1>2, GoingFields
<1>4. \E o \in 0 .. pos : \E x \in Raws : p = Loaded(o, pos - o, x)
  BY <1>1, <1>3, PlaceAt
<1>5. PICK o, x : o \in 0 .. pos /\ x \in Raws /\ p = Loaded(o, pos - o, x)
  BY <1>4
<1>6. p.offset = o /\ p.node = x /\ p.node_pos = pos - o
  BY <1>5, PlaceFields
<1>7. PICK b \in Seq(Nat) : x = Raw(b)
  BY <1>5 DEF Raws
<1>8. x.data = b
  BY <1>7 DEF Raw
<1>9. PICK u, m, k : u = FromLast(ls) /\ m = Len(b) /\ k = pos - o
  OBVIOUS
<1>10. m \in Nat /\ k \in Nat /\ o \in Nat /\ o + k = pos
  BY <1>3, <1>5, <1>9, LenProperties
<1>11. PICK n, d : n = Len(layers) /\ d = degree
  OBVIOUS
<1>12. n \in Nat /\ Nodes = UpToGrade(n, d)
  BY <1>3, <1>11, LayersType DEF BuildInv, Nodes
<1>13. u \in Seq(Nodes)
  BY <1>3, <1>9, StackType
<1>14. ASSUME ~f
       PROVE  /\ Suffix(o, <<x>> \o u) /\ Suffix(o + m, u)
              /\ BytesOf(<<x>> \o u) = b \o BytesOf(u) /\ BytesOf(u) \in Seq(Nat)
  <2>1. Suffix(o, <<x>> \o u)
    BY <1>3, <1>5, <1>9, <1>14, LeftToRead
  <2>2. u \in Seq(UpToGrade(n, d)) /\ Suffix(o, <<Raw(b)>> \o u)
    BY <1>7, <1>12, <1>13, <2>1
  <2>3. /\ Suffix(o + Len(b), u)
        /\ BytesOf(<<Raw(b)>> \o u) = b \o BytesOf(u) /\ BytesOf(u) \in Seq(Nat)
    BY <1>3, <1>12, <2>2, LeafDrops
  <2>. QED  BY <1>7, <1>9, <2>1, <2>3
<1>15. PICK rest, bytes : rest = SubSeq(b, k + 1, m) /\ bytes = Taken(rest)
  OBVIOUS
<1>16. PICK s, cl, la : s = reader' /\ cl = call /\ la = last
  OBVIOUS
<1>17. CASE o + m <= pos
  <2>1. reader' = [reader EXCEPT !.node = Requested(o + m)] /\ call' = call /\ last' = last
    BY <1>3, <1>6, <1>8, <1>9, <1>17 DEF ReadLeaf
  <2>2. PICK q, y : y = o + m /\ q = Requested(y)
    OBVIOUS
  <2>3. IsMade(s, pos, M, q, ls, f)
    BY <1>3, <1>16, <2>1, <2>2 DEF IsMade
  <2>4. y \in 0 .. pos
    BY <1>3, <1>10, <1>17, <2>2
  <2>5. IsPlace(q, pos, Nodes)
    BY <2>2, <2>4 DEF IsPlace
  <2>6. ASSUME ~f PROVE Stands(q, ls)
    <3>1. Suffix(y, FromLast(ls))
      BY <1>9, <1>14, <2>2, <2>6
    <3>. QED  BY <2>2, <3>1 DEF Stands
  <2>7. IsMove(s, pos, M, q, ls, f, cl, la)
    BY <1>1, <1>2, <1>3, <1>16, <2>3, <2>5, <2>6 DEF IsMove, IsGoing
  <2>8. IsStep(reader', call', last')
    BY <1>16, <2>1, <2>7, MoveIsStep
  <2>. QED  BY <1>1, <2>8, StepKeeps
<1>18. CASE ~(o + m <= pos)
  <2>1. /\ reader' = [reader EXCEPT !.pos = @ + Len(bytes), !.node.node_pos = @ + Len(bytes)]
        /\ call' = Nothing /\ last' = [from |-> pos, bytes |-> bytes]
    BY <1>3, <1>6, <1>8, <1>9, <1>15, <1>18 DEF ReadLeaf, Returns
  <2>2. k < m
    BY <1>3, <1>10, <1>18
  <2>3. rest \in Seq(Nat)
    <3>1. \A i \in 1 .. m : b[i] \in Nat
      BY <1>9, <1>10, ElementOfSeq
    <3>2. k + 1 \in Int /\ m \in Int /\ \A i \in k + 1 .. m : b[i] \in Nat
      BY <1>10, <3>1
    <3>. QED  BY <1>15, <3>2, SubSeqProperties
  <2>4. call.room \in Nat \ {0}
    BY <1>2 DEF IsGoing
  <2>5. bytes \in Seq(Nat) /\ Len(bytes) \in Nat
    <3>1. reader.pos \in Nat /\ reader.pos_max \in {NoMax} \cup Nat
      BY <1>3
    <3>2. Taken(rest) \in Seq(Nat)
      BY <2>3, <2>4, <3>1, TakenType
    <3>. QED  BY <1>15, <3>2, LenProperties
  <2>6. PICK t, h, a : /\ a = Len(bytes) /\ t = pos + a /\ h = [from |-> pos, bytes |-> bytes]
    OBVIOUS
  <2>7. PICK q : q = Loaded(o, t - o, x)
    OBVIOUS
  <2>8. a \in Nat /\ t \in Nat /\ o \in 0 .. t /\ pos - o + a = t - o
    BY <1>3, <1>5, <2>5, <2>6
  <2>9. IsMade(s, t, M, q, ls, f)
    <3>1. reader = [pos |-> pos, pos_max |-> M, node |-> p, links |-> ls, failed |-> f]
      BY <1>3 DEF IsMade
    <3>2. p = [at |-> "loaded", offset |-> o, node_pos |-> pos - o, node |-> x]
      BY <1>5 DEF Loaded
    <3>3. [p EXCEPT !.node_pos = @ + a]
            = [at |-> "loaded", offset |-> o, node_pos |-> pos - o + a, node |-> x]
      BY <3>2
    <3>4. [p EXCEPT !.node_pos = @ + a] = q
      BY <2>7, <2>8, <3>3 DEF Loaded
    <3>5. s = [reader EXCEPT !.pos = @ + a, !.node.node_pos = @ + a]
      BY <1>16, <2>1, <2>6
    <3>6. s = [pos |-> pos + a, pos_max |-> M, node |-> [p EXCEPT !.node_pos = @ + a],
               links |-> ls, failed |-> f]
      BY <3>1, <3>5
    <3>. QED  BY <2>6, <3>4, <3>6 DEF IsMade
  <2>10. IsPlace(q, t, Nodes)
    BY <1>5, <2>7, <2>8 DEF IsPlace
  <2>11. ASSUME ~f PROVE Stands(q, ls) /\ IsAnswer(h.from, h.bytes, M)
    <3>1. Stands(q, ls)
      BY <1>9, <1>14, <2>7, <2>11 DEF Stands
    <3>2. PICK g, v : g = <<x>> \o u /\ v = BytesOf(u)
      OBVIOUS
    <3>3. v \in Seq(Nat) /\ BytesOf(g) = b \o v /\ Suffix(o, g) /\ k < Len(b)
      BY <1>9, <1>14, <2>2, <2>11, <3>2
    <3>4. IsNext(SubSeq(b, k + 1, Len(b)), o + k)
      BY <1>3, <1>10, <3>3, LeafIsNext
    <3>5. IsNext(rest, reader.pos)
      BY <1>3, <1>9, <1>10, <1>15, <3>4
    <3>6. reader.pos \in Nat /\ reader.pos_max \in {NoMax} \cup Nat
      BY <1>3
    <3>7. IsAnswer(reader.pos, Taken(rest), reader.pos_max)
      BY <1>3, <2>4, <3>5, <3>6, TakenAnswers
    <3>8. IsAnswer(pos, bytes, M)
      BY <1>3, <1>15, <3>7
    <3>. QED  BY <2>6, <3>1, <3>8
  <2>12. IsMove(s, t, M, q, ls, f, Nothing, h)
    BY <1>1, <1>3, <2>8, <2>9, <2>10, <2>11 DEF IsMove
  <2>13. IsStep(reader', call', last')
    BY <1>16, <2>1, <2>6, <2>12, MoveIsStep
  <2>. QED  BY <1>1, <2>13, StepKeeps
<1>. QED  BY <1>17, <1>18

(* While there is no reader, what builds the file is all that can change.  *)
LEMMA NoReaderKeeps ==
  ASSUME IInv, reader = Nothing, UNCHANGED readerVars, BuildInv'
  PROVE  IInv'
<1>1. call = Nothing /\ last = Nothing
  BY DEF IInv, ReaderInv
<1>2. reader' = Nothing /\ call' = Nothing /\ last' = Nothing
  BY <1>1 DEF readerVars
<1>3. ReaderInv'
  BY <1>2 DEF ReaderInv
<1>4. ReadsAreContent'
  BY <1>2 DEF ReadsAreContent
<1>. QED  BY <1>3, <1>4 DEF IInv

LEMMA InitIInv ==
  Init => IInv
<1>1. SUFFICES ASSUME Init PROVE IInv
  OBVIOUS
<1>2. BuildInv
  BY <1>1, InitBuild
<1>3. reader = Nothing /\ call = Nothing /\ last = Nothing
  BY <1>1 DEF Init, Start
<1>4. ReaderInv /\ ReadsAreContent
  BY <1>3 DEF ReaderInv, ReadsAreContent
<1>. QED  BY <1>2, <1>4 DEF IInv

LEMMA StutterKeeps ==
  ASSUME IInv, UNCHANGED vars
  PROVE  IInv'
<1>1. Stays /\ reader' = reader /\ call' = call /\ last' = last /\ UNCHANGED readerVars
  BY DEF vars, Stays, readerVars
<1>2. CASE reader = Nothing
  <2>1. /\ content' = content /\ chunk_size' = chunk_size /\ degree' = degree
        /\ source' = source /\ buffer' = buffer /\ layers' = layers /\ file' = file
    BY <1>1 DEF Stays, params, buildVars
  <2>2. BuildInv'
    BY <2>1 DEF IInv, BuildInv
  <2>. QED  BY <1>1, <1>2, <2>2, NoReaderKeeps
<1>3. CASE reader # Nothing
  <2>1. PICK cl, la : cl = call /\ la = last
    OBVIOUS
  <2>2. /\ cl # Nothing => la = Nothing /\ \E room \in Nat \ {0} : cl = [room |-> room]
        /\ la # Nothing /\ ~reader.failed => IsAnswer(la.from, la.bytes, reader.pos_max)
    BY <1>3, <2>1, WhileReading
  <2>3. IsStep(reader, cl, la)
    BY <1>3, <2>2, SameReader
  <2>4. IsStep(reader', call', last')
    BY <1>1, <2>1, <2>3
  <2>. QED  BY <1>1, <2>4, StepKeeps
<1>. QED  BY <1>2, <1>3

LEMMA NextKeeps ==
  IInv /\ [Next]_vars => IInv'
<1>. SUFFICES ASSUME IInv, [Next]_vars PROVE IInv'
  OBVIOUS
<1>0. BuildInv /\ (file = Nothing => reader = Nothing)
  BY DEF IInv, ReaderInv
<1>1. ASSUME NEW n \in 0 .. Len(source), ReadSource(n) PROVE IInv'
  <2>1. file = Nothing /\ UNCHANGED readerVars
    BY <1>1 DEF ReadSource
  <2>2. BuildInv'
    BY <1>0, <1>1, ReadSourceBuild
  <2>. QED  BY <1>0, <2>1, <2>2, NoReaderKeeps
<1>2. CASE BuildFails
  <2>1. file = Nothing /\ UNCHANGED readerVars
    BY <1>2 DEF BuildFails
  <2>2. BuildInv'
    BY <1>0, <1>2, BuildFailsBuild
  <2>. QED  BY <1>0, <2>1, <2>2, NoReaderKeeps
<1>3. ASSUME NEW pos_max \in {NoMax} \cup Lengths, Open(pos_max) PROVE IInv'
  BY <1>3, OpenKeeps
<1>4. ASSUME NEW offset \in 0 .. MaxSeek, SeekStart(offset) PROVE IInv'
  BY <1>4, SeekStartKeeps
<1>5. ASSUME NEW offset \in -MaxSeek .. 0, SeekEnd(offset) PROVE IInv'
  BY <1>5, SeekEndKeeps
<1>6. ASSUME NEW offset \in {-1, 1}, SeekCurrent(offset) PROVE IInv'
  BY <1>6, SeekCurrentKeeps
<1>7. ASSUME NEW room \in Buffers, Read(room) PROVE IInv'
  BY <1>7, ReadKeeps
<1>8. CASE ReadRaw \/ StopAtMax \/ LeaveRoot \/ LoadNextNode
  BY <1>8, ReadRawKeeps, StopAtMaxKeeps, LeaveRootKeeps, LoadNextNodeKeeps
<1>9. CASE Pending \/ NodeLoads \/ LoadFails \/ ReadLeaf
  BY <1>9, PendingKeeps, NodeLoadsKeeps, LoadFailsKeeps, ReadLeafKeeps
<1>10. CASE UNCHANGED vars
  BY <1>10, StutterKeeps
<1>. QED  BY <1>1, <1>2, <1>3, <1>4, <1>5, <1>6, <1>7, <1>8, <1>9, <1>10 DEF Next

--------------------------------------------------------------------------------
LEMMA IInvType ==
  IInv => TypeOK
<1>. SUFFICES ASSUME IInv PROVE TypeOK
  OBVIOUS
<1>1. BuildInv
  BY DEF IInv
<1>2. content \in Seq(Nat) /\ source \in Seq(Nat) /\ buffer \in Seq(Nat)
  BY <1>1 DEF BuildInv
<1>3. layers # <<>> /\ \A i \in DOMAIN layers : Len(layers[i]) <= degree
  <2>1. PICK n, d, l : n = Len(layers) /\ d = degree /\ l = layers
    OBVIOUS
  <2>2. HasRoom(l, d) /\ d \in Nat
    BY <1>1, <2>1 DEF BuildInv
  <2>3. /\ l \in Seq(Seq(UpToGrade(Len(l), d))) /\ n \in Nat \ {0} /\ n = Len(l)
        /\ \A i \in 1 .. Len(l) : l[i] \in Seq(Grade(i - 1, d))
        /\ Len(l[1]) <= d /\ \A j \in 2 .. Len(l) : Len(l[j]) < d
    BY <2>1, <2>2, LayersType DEF HasRoom, Layered
  <2>4. l # <<>> /\ DOMAIN l = 1 .. n
    BY <2>3, EmptySeq, LenProperties
  <2>5. ASSUME NEW i \in 1 .. n PROVE Len(l[i]) <= d
    <3>1. CASE i = 1
      BY <2>3, <3>1
    <3>2. CASE i # 1
      <4>1. i \in 2 .. Len(l)
        BY <2>3, <3>2
      <4>2. Len(l[i]) < d /\ l[i] \in Seq(Grade(i - 1, d))
        BY <2>3, <4>1
      <4>3. Len(l[i]) \in Nat
        BY <4>2, LenProperties
      <4>. QED  BY <2>2, <4>2, <4>3
    <3>. QED  BY <3>1, <3>2
  <2>. QED  BY <2>1, <2>4, <2>5
<1>4. ASSUME reader # Nothing
      PROVE  /\ reader.pos \in Nat
             /\ reader.node # Outer => reader.node.offset \in 0 .. reader.pos
             /\ reader.node.at = "loaded" =>
                  reader.node.node_pos = reader.pos - reader.node.offset
  <2>1. reader.pos \in Nat /\ IsPlace(reader.node, reader.pos, Nodes)
    BY <1>4, WhileReading
  <2>2. PICK p, pos : p = reader.node /\ pos = reader.pos
    OBVIOUS
  <2>3. pos \in Nat /\ IsPlace(p, pos, Nodes)
    BY <2>1, <2>2
  <2>4. /\ p # Outer => p.offset \in 0 .. pos
        /\ p.at = "loaded" => p.node_pos = pos - p.offset
    BY <2>3, PlaceIs
  <2>. QED  BY <2>1, <2>2, <2>4
<1>. QED  BY <1>2, <1>3, <1>4 DEF TypeOK

LEMMA IInvTree ==
  IInv => TreeHoldsContent
<1>. SUFFICES ASSUME IInv PROVE TreeHoldsContent
  OBVIOUS
<1>1. BuildInv
  BY DEF IInv
<1>2. PICK n, d, s : n = Len(layers) /\ d = degree /\ s = Built
  OBVIOUS
<1>3. n \in Nat /\ s \in Seq(UpToGrade(n, d))
  <2>1. HasRoom(layers, d)
    BY <1>1, <1>2 DEF BuildInv
  <2>2. n \in Nat /\ FromLast(layers) \in Seq(UpToGrade(n, d))
    BY <1>2, <2>1, LayersType
  <2>3. CASE file = Nothing
    BY <1>2, <2>2, <2>3 DEF Built
  <2>4. CASE file # Nothing
    <3>1. PICK k \in 0 .. n : file \in Grade(k, d)
      BY <1>1, <1>2, <2>4 DEF BuildInv
    <3>2. file \in UpToGrade(n, d)
      BY <2>2, <3>1, GradeUpTo
    <3>3. s = << file >>
      BY <1>2, <2>4 DEF Built
    <3>. QED  BY <2>2, <3>2, <3>3
  <2>. QED  BY <2>3, <2>4
<1>4. PICK leaves : leaves = Leaves(s)
  OBVIOUS
<1>5. leaves = LeavesOf(s) /\ leaves \in Seq(Grade(0, d))
  <2>1. n <= n
    BY <1>3
  <2>2. LeavesOf(s) = Below(s, n) /\ LeavesOf(s) \in Seq(Grade(0, d))
    BY <1>3, <2>1, LeavesAt
  <2>. QED  BY <1>2, <1>4, <2>2 DEF Leaves
<1>6. DataOf(leaves) = BytesOf(s)
  BY <1>5 DEF BytesOf
<1>7. DataOf(leaves) \o buffer \o source = content
  <2>1. CASE file = Nothing
    <3>1. s = FromLast(layers)
      BY <1>2, <2>1 DEF Built
    <3>2. BytesOf(FromLast(layers)) \o buffer \o source = content
      BY <1>1, <2>1 DEF BuildInv
    <3>. QED  BY <1>6, <3>1, <3>2
  <2>2. CASE file # Nothing
    <3>1. s = << file >>
      BY <1>2, <2>2 DEF Built
    <3>2. source = <<>> /\ buffer = <<>> /\ BytesOf(<< file >>) = content /\ content \in Seq(Nat)
      BY <1>1, <2>2 DEF BuildInv
    <3>3. content \o <<>> = content
      BY <3>2, ConcatEmptySeq
    <3>. QED  BY <1>6, <3>1, <3>2, <3>3
  <2>. QED  BY <2>1, <2>2
<1>8. IsChunked(leaves)
  <2>0. PICK m, size : m = Len(leaves) /\ size = chunk_size
    OBVIOUS
  <2>1. DOMAIN leaves = 1 .. m
    BY <1>5, <2>0, LenProperties
  <2>2. ASSUME NEW i \in 1 .. m PROVE leaves[i].type = "raw"
    <3>1. leaves[i] \in Grade(0, d)
      BY <1>5, <2>0, ElementOfSeq
    <3>2. 0 \in Nat
      OBVIOUS
    <3>. QED  BY <3>1, <3>2, TreeIs
  <2>3. ASSUME NEW i \in 1 .. m
        PROVE  IF i < m \/ file = Nothing THEN Len(leaves[i].data) = size
               ELSE Len(leaves[i].data) \in 1 .. size
    <3>1. CASE file = Nothing
      <4>1. s = FromLast(layers)
        BY <1>2, <3>1 DEF Built
      <4>2. AreFull(leaves, size)
        BY <1>1, <1>5, <2>0, <3>1, <4>1 DEF BuildInv
      <4>3. Len(leaves[i].data) = size
        BY <2>0, <4>2 DEF AreFull
      <4>. QED  BY <3>1, <4>3
    <3>2. CASE file # Nothing
      <4>1. s = << file >>
        BY <1>2, <3>2 DEF Built
      <4>2. AreChunks(leaves, size)
        BY <1>1, <1>5, <2>0, <3>2, <4>1 DEF BuildInv
      <4>3. IF i < m THEN Len(leaves[i].data) = size ELSE Len(leaves[i].data) \in 1 .. size
        BY <2>0, <4>2 DEF AreChunks
      <4>. QED  BY <3>2, <4>3
    <3>. QED  BY <3>1, <3>2
  <2>. QED  BY <2>0, <2>1, <2>2, <2>3 DEF IsChunked
<1>9. ASSUME NEW i \in DOMAIN s PROVE IsWellMade(s[i])
  <2>1. s[i] \in UpToGrade(n, d)
    BY <1>3, ElementOfSeq, LenProperties
  <2>2. \E k \in 0 .. n : s[i] \in Grade(k, d)
    BY <1>3, <2>1, UpToGradeIs
  <2>3. PICK k, x : k \in 0 .. n /\ x = s[i] /\ x \in Grade(k, d)
    BY <2>2
  <2>4. Len(layers) \in Nat /\ k \in 0 .. Len(layers) /\ x \in Grade(k, degree)
    BY <1>2, <1>3, <2>3
  <2>5. IsWellMade(x)
    BY <2>4, TreesAreWellMade
  <2>. QED  BY <2>3, <2>5
<1>. QED  BY <1>2, <1>4, <1>7, <1>8, <1>9 DEF TreeHoldsContent

--------------------------------------------------------------------------------
(* Positions and offsets are ones the code's unsigned numbers can hold: a   *)
(* block is only read from where it starts or later (`*pos - *node_offset` *)
(* in load_next_node and the reads of a leaf), and node_pos keeps in step. *)
THEOREM FilesAreTyped == Spec => []TypeOK
<1>1. IInv /\ [Next]_vars => IInv'
  BY NextKeeps
<1>. QED  BY <1>1, InitIInv, IInvType, PTL DEF Spec

(* However the source cuts up its bytes, and whenever building failed and  *)
(* was started anew, no byte is lost, doubled or out of order, the leaves  *)
(* are full chunks but for the last, and the tree is balanced, keeps to    *)
(* its degree and knows its sizes (Fixed::chunks, stream_balanced_tree).   *)
THEOREM TreesHoldContent == Spec => []TreeHoldsContent
<1>1. IInv /\ [Next]_vars => IInv'
  BY NextKeeps
<1>. QED  BY <1>1, InitIInv, IInvTree, PTL DEF Spec

(* Whatever was sought and read before, and however often a load made the  *)
(* caller wait, a read gives the bytes at the reader's position and no     *)
(* others, stops at pos_max, and gives none only at the end (poll_read).   *)
THEOREM ReadsGiveContent == Spec => []ReadsAreContent
<1>1. IInv /\ [Next]_vars => IInv'
  BY NextKeeps
<1>2. IInv => ReadsAreContent
  BY DEF IInv
<1>. QED  BY <1>1, <1>2, InitIInv, PTL DEF Spec

--------------------------------------------------------------------------------
(* The blocks of a private file (PrivateContent).                          *)

LEMMA PrivateFlatten ==
  ASSUME NEW s
  PROVE  Private!FlattenSeq(s) = FlattenSeq(s)
BY DEF Private!FlattenSeq, FlattenSeq

LEMMA DivIs ==
  ASSUME NEW n \in Nat, NEW m \in Nat \ {0}, NEW q, q = n \div m
  PROVE  q \in Nat /\ q * m <= n /\ n < q * m + m
OBVIOUS

LEMMA TimesIs ==
  ASSUME NEW m \in Nat
  PROVE  /\ \A j \in Nat : j * m \in Nat /\ (j + 1) * m = j * m + m
         /\ \A i, j \in Nat : i <= j => i * m <= j * m
<1>1. ASSUME NEW j \in Nat PROVE j * m \in Nat /\ (j + 1) * m = j * m + m
  OBVIOUS
<1>2. ASSUME NEW i \in Nat, NEW j \in Nat, i <= j PROVE i * m <= j * m
  BY <1>2
<1>. QED  BY <1>1, <1>2

(* A part of a sequence, between two cuts.                                 *)
Part(s, a, b) == SubSeq(s, a + 1, b)

LEMMA PartIs ==
  ASSUME NEW S, NEW s \in Seq(S), NEW a \in Nat, NEW b \in 0 .. Len(s)
  PROVE  /\ Part(s, a, b) \in Seq(S)
         /\ Len(Part(s, a, b)) = IF a <= b THEN b - a ELSE 0
         /\ \A i \in 1 .. b - a : Part(s, a, b)[i] = s[a + i]
         /\ b <= a => Part(s, a, b) = <<>>
<1>0. PICK f, L : f = a + 1 /\ L = Len(s)
  OBVIOUS
<1>1. f \in Int /\ b \in Int /\ f .. b \subseteq 1 .. L /\ L \in Nat
  BY <1>0, LenProperties
<1>2. \A i \in f .. b : s[i] \in S
  BY <1>0, <1>1, ElementOfSeq
<1>3. /\ SubSeq(s, f, b) \in Seq(S)
      /\ Len(SubSeq(s, f, b)) = IF f <= b THEN b - f + 1 ELSE 0
      /\ \A i \in 1 .. b - f + 1 : SubSeq(s, f, b)[i] = s[f + i - 1]
  BY <1>1, <1>2, SubSeqProperties
<1>4. Part(s, a, b) = SubSeq(s, f, b)
  BY <1>0 DEF Part
<1>5. Len(Part(s, a, b)) = IF a <= b THEN b - a ELSE 0
  BY <1>0, <1>1, <1>3, <1>4
<1>6. ASSUME NEW i \in 1 .. b - a PROVE Part(s, a, b)[i] = s[a + i]
  <2>1. i \in 1 .. b - f + 1 /\ f + i - 1 = a + i
    BY <1>0, <1>1
  <2>. QED  BY <1>3, <1>4, <2>1
<1>7. ASSUME b <= a PROVE Part(s, a, b) = <<>>
  <2>1. b < f
    BY <1>0, <1>1, <1>7
  <2>. QED  BY <1>1, <1>4, <2>1, SubSeqEmpty
<1>. QED  BY <1>3, <1>4, <1>5, <1>6, <1>7

LEMMA PartJoin ==
  ASSUME NEW S, NEW s \in Seq(S), NEW a \in Nat, NEW b \in Nat, NEW e \in 0 .. Len(s),
         a <= b, b <= e
  PROVE  Part(s, a, b) \o Part(s, b, e) = Part(s, a, e)
<1>0. PICK p, q, r : p = Part(s, a, b) /\ q = Part(s, b, e) /\ r = Part(s, a, e)
  OBVIOUS
<1>1. Len(s) \in Nat /\ e \in Nat /\ b \in 0 .. Len(s)
  BY LenProperties
<1>2. p \in Seq(S) /\ Len(p) = b - a /\ \A i \in 1 .. b - a : p[i] = s[a + i]
  BY <1>0, <1>1, PartIs
<1>3. q \in Seq(S) /\ Len(q) = e - b /\ \A i \in 1 .. e - b : q[i] = s[b + i]
  BY <1>0, <1>1, PartIs
<1>4. r \in Seq(S) /\ Len(r) = e - a /\ \A i \in 1 .. e - a : r[i] = s[a + i]
  <2>1. a <= e
    BY <1>1
  <2>. QED  BY <1>0, <2>1, PartIs
<1>5. PICK m, h : m = b - a /\ h = e - b
  OBVIOUS
<1>6. m \in Nat /\ h \in Nat /\ m + h = e - a
  BY <1>1, <1>5
<1>7. PICK w : w = p \o q
  OBVIOUS
<1>8. /\ w \in Seq(S) /\ Len(w) = m + h
      /\ \A i \in 1 .. m + h : w[i] = IF i <= m THEN p[i] ELSE q[i - m]
  <2>1. /\ p \o q \in Seq(S) /\ Len(p \o q) = Len(p) + Len(q)
        /\ \A i \in 1 .. Len(p) + Len(q) :
             (p \o q)[i] = IF i <= Len(p) THEN p[i] ELSE q[i - Len(p)]
    BY <1>2, <1>3, ConcatProperties
  <2>2. Len(p) = m /\ Len(q) = h
    BY <1>2, <1>3, <1>5
  <2>. QED  BY <1>7, <2>1, <2>2
<1>9. ASSUME NEW i \in 1 .. m + h PROVE w[i] = r[i]
  <2>1. r[i] = s[a + i]
    BY <1>4, <1>6
  <2>2. CASE i <= m
    <3>1. i \in 1 .. b - a
      BY <1>5, <1>6, <2>2
    <3>. QED  BY <1>2, <1>8, <2>1, <2>2, <3>1
  <2>3. CASE ~(i <= m)
    <3>1. PICK j : j = i - m
      OBVIOUS
    <3>2. j \in 1 .. e - b /\ b + j = a + i
      BY <1>1, <1>5, <1>6, <2>3, <3>1
    <3>3. w[i] = q[j] /\ q[j] = s[b + j]
      BY <1>3, <1>8, <2>3, <3>1, <3>2
    <3>. QED  BY <2>1, <3>2, <3>3
  <2>. QED  BY <2>2, <2>3
<1>10. w = r
  BY <1>4, <1>6, <1>8, <1>9, SameSeq
<1>. QED  BY <1>0, <1>7, <1>10

(* Parts from cut to cut, one after the other, are all of it.              *)
IsCutAt(ss, s, e, n) ==
  /\ DOMAIN ss = 1 .. n /\ ss = [i \in 1 .. n |-> ss[i]]
  /\ \A i \in 0 .. n : e[i] \in 0 .. Len(s)
  /\ \A i \in 1 .. n : e[i - 1] <= e[i] /\ ss[i] = Part(s, e[i - 1], e[i])

LEMMA CutsJoin ==
  ASSUME NEW S, NEW s \in Seq(S), NEW n \in Nat, NEW e, NEW ss, IsCutAt(ss, s, e, n)
  PROVE  FlattenSeq(ss) = Part(s, e[0], e[n])
<1>0. PICK L : L = Len(s)
  OBVIOUS
<1>1. /\ L \in Nat /\ (\A i \in 0 .. n : e[i] \in 0 .. L)
      /\ \A i \in 1 .. n : e[i - 1] <= e[i] /\ ss[i] = Part(s, e[i - 1], e[i])
  BY <1>0, LenProperties DEF IsCutAt
<1>2. \A i \in 0 .. n : e[i] \in Nat
  BY <1>1
<1>3. \A i \in 1 .. n : i - 1 \in 0 .. n /\ i \in 0 .. n
  OBVIOUS
<1>4. ss \in Seq(Seq(S)) /\ Len(ss) = n
  <2>1. ASSUME NEW i \in 1 .. n PROVE ss[i] \in Seq(S)
    <3>1. PICK a, b : a = e[i - 1] /\ b = e[i]
      OBVIOUS
    <3>2. a \in Nat /\ b \in 0 .. Len(s)
      BY <1>0, <1>1, <1>2, <1>3, <3>1
    <3>3. Part(s, a, b) \in Seq(S)
      BY <3>2, PartIs
    <3>. QED  BY <1>1, <3>1, <3>3
  <2>2. ss = [i \in 1 .. n |-> ss[i]]
    BY DEF IsCutAt
  <2>3. ss \in [1 .. n -> Seq(S)]
    BY <2>1, <2>2
  <2>. QED  BY <2>3, FunctionIsSeq
<1>5. PICK A : A = {i \in 0 .. n : e[0] <= e[i]}
  OBVIOUS
<1>6. \A i \in 0 .. n : i \in A
  <2>1. 0 \in A
    BY <1>2, <1>5
  <2>2. ASSUME NEW i \in 0 .. n - 1, i \in A PROVE i + 1 \in A
    <3>1. PICK j : j = i + 1
      OBVIOUS
    <3>2. j \in 1 .. n /\ j - 1 = i /\ j \in 0 .. n /\ i \in 0 .. n /\ 0 \in 0 .. n
      BY <3>1
    <3>3. e[i] <= e[j] /\ e[0] <= e[i] /\ e[0] \in Nat /\ e[i] \in Nat /\ e[j] \in Nat
      BY <1>1, <1>2, <1>5, <2>2, <3>2
    <3>4. e[0] <= e[j]
      BY <3>3
    <3>. QED  BY <1>5, <3>1, <3>2, <3>4
  <2>. QED  BY <2>1, <2>2, HoldsUpTo
<1>7. PICK f : f = [i \in 0 .. n |-> Part(s, e[0], e[i])]
  OBVIOUS
<1>8. Flattens(f, ss)
  <2>1. f[0] = <<>>
    <3>1. PICK a : a = e[0]
      OBVIOUS
    <3>2. 0 \in 0 .. n /\ a \in Nat /\ a \in 0 .. Len(s) /\ a <= a
      BY <1>0, <1>1, <1>2, <3>1
    <3>3. Part(s, a, a) = <<>>
      BY <3>2, PartIs
    <3>. QED  BY <1>7, <3>1, <3>2, <3>3
  <2>2. ASSUME NEW i \in 1 .. n PROVE f[i] = f[i - 1] \o ss[i]
    <3>1. PICK a, b, c : a = e[0] /\ b = e[i - 1] /\ c = e[i]
      OBVIOUS
    <3>2. a \in Nat /\ b \in Nat /\ c \in 0 .. Len(s) /\ a <= b /\ b <= c
      <4>1. 0 \in 0 .. n
        OBVIOUS
      <4>. QED  BY <1>0, <1>1, <1>2, <1>3, <1>5, <1>6, <3>1, <4>1
    <3>3. Part(s, a, b) \o Part(s, b, c) = Part(s, a, c)
      BY <3>2, PartJoin
    <3>. QED  BY <1>1, <1>3, <1>7, <3>1, <3>3
  <2>3. DOMAIN f = 0 .. Len(ss)
    BY <1>4, <1>7
  <2>. QED  BY <1>4, <2>1, <2>2, <2>3 DEF Flattens
<1>9. FlattenSeq(ss) = f[n]
  BY <1>4, <1>8, FlattenIs
<1>. QED  BY <1>7, <1>9

LEMMA PartOfPart ==
  ASSUME NEW S, NEW s \in Seq(S), NEW a \in Nat, NEW b \in 0 .. Len(s), a <= b,
         NEW y \in Nat, NEW z \in 0 .. b - a
  PROVE  Part(Part(s, a, b), y, z) = Part(s, a + y, a + z)
<1>0. PICK p, d, f, g : p = Part(s, a, b) /\ d = b - a /\ f = a + y /\ g = a + z
  OBVIOUS
<1>1. Len(s) \in Nat /\ b \in Nat /\ d \in Nat /\ f \in Nat /\ g \in 0 .. Len(s) /\ z \in Nat
  BY <1>0, LenProperties
<1>2. p \in Seq(S) /\ Len(p) = d /\ \A i \in 1 .. d : p[i] = s[a + i]
  BY <1>0, PartIs
<1>3. z \in 0 .. Len(p)
  BY <1>0, <1>2
<1>4. PICK t, u : t = Part(p, y, z) /\ u = Part(s, f, g)
  OBVIOUS
<1>5. /\ t \in Seq(S) /\ Len(t) = IF y <= z THEN z - y ELSE 0
      /\ \A i \in 1 .. z - y : t[i] = p[y + i]
      /\ z <= y => t = <<>>
  <2>1. p \in Seq(S) /\ y \in Nat /\ z \in 0 .. Len(p)
    BY <1>2, <1>3
  <2>2. /\ Part(p, y, z) \in Seq(S)
        /\ Len(Part(p, y, z)) = IF y <= z THEN z - y ELSE 0
        /\ \A i \in 1 .. z - y : Part(p, y, z)[i] = p[y + i]
        /\ z <= y => Part(p, y, z) = <<>>
    BY <2>1, PartIs
  <2>. QED  BY <1>4, <2>2
<1>6. /\ u \in Seq(S) /\ Len(u) = IF f <= g THEN g - f ELSE 0
      /\ \A i \in 1 .. g - f : u[i] = s[f + i]
      /\ g <= f => u = <<>>
  BY <1>1, <1>4, PartIs
<1>7. CASE z <= y
  <2>1. g <= f
    BY <1>0, <1>1, <1>7
  <2>. QED  BY <1>0, <1>4, <1>5, <1>6, <1>7, <2>1
<1>8. CASE ~(z <= y)
  <2>1. PICK n : n = z - y
    OBVIOUS
  <2>2. n \in Nat /\ g - f = n /\ f <= g /\ y <= z
    BY <1>0, <1>1, <1>8, <2>1
  <2>3. Len(t) = n /\ Len(u) = n
    BY <1>5, <1>6, <2>1, <2>2
  <2>4. ASSUME NEW i \in 1 .. n PROVE t[i] = u[i]
    <3>1. PICK j : j = y + i
      OBVIOUS
    <3>2. j \in 1 .. d /\ a + j = f + i
      BY <1>0, <1>1, <2>1, <3>1
    <3>3. t[i] = p[j] /\ p[j] = s[a + j]
      BY <1>2, <1>5, <2>1, <3>1, <3>2
    <3>4. u[i] = s[f + i]
      BY <1>6, <2>2
    <3>. QED  BY <3>2, <3>3, <3>4
  <2>5. t = u
    BY <1>5, <1>6, <2>3, <2>4, SameSeq
  <2>. QED  BY <1>0, <1>4, <2>5
<1>. QED  BY <1>7, <1>8

(* Where the blocks of a stored content begin and end.                     *)
Edge(i) == Private!LesserOf(i * chunk_size, Len(content))

IsStored(c, B) ==
  /\ content \in Seq(Nat) /\ chunk_size \in Nat \ {0}
  /\ B \in Nat /\ c = Private!Stored(content, B)
  /\ Len(content) <= B * chunk_size
  /\ B # 0 => (B - 1) * chunk_size <= Len(content)

LEMMA EdgesAre ==
  ASSUME NEW c, NEW B, IsStored(c, B)
  PROVE  /\ \A i \in 0 .. B : Edge(i) \in 0 .. Len(content)
         /\ \A i \in 0 .. B - 1 : Edge(i) = i * chunk_size /\ Edge(i) <= Edge(i + 1)
         /\ Edge(B) = Len(content)
<1>0. PICK m, L, h : m = chunk_size /\ L = Len(content) /\ h = B - 1
  OBVIOUS
<1>1. m \in Nat \ {0} /\ L \in Nat /\ B \in Nat /\ L <= B * m /\ (B # 0 => h * m <= L)
  BY <1>0, LenProperties DEF IsStored
<1>2. \A i : Edge(i) = IF i * m <= L THEN i * m ELSE L
  BY <1>0 DEF Edge, Private!LesserOf
<1>3. /\ \A j \in Nat : j * m \in Nat /\ (j + 1) * m = j * m + m
      /\ \A i, j \in Nat : i <= j => i * m <= j * m
  BY <1>1, TimesIs
<1>4. ASSUME NEW i \in 0 .. B PROVE Edge(i) \in 0 .. L
  <2>1. i * m \in Nat
    BY <1>1, <1>3
  <2>. QED  BY <1>1, <1>2, <2>1
<1>5. ASSUME NEW i \in 0 .. B - 1 PROVE Edge(i) = i * m /\ Edge(i) <= Edge(i + 1)
  <2>1. i \in Nat /\ h \in Nat /\ i <= h /\ i + 1 \in 0 .. B /\ B # 0 /\ i + 1 \in Nat
    BY <1>0, <1>1
  <2>2. i * m <= h * m /\ i * m \in Nat /\ h * m \in Nat /\ i * m <= (i + 1) * m
    <3>1. (i + 1) * m = i * m + m /\ i * m \in Nat /\ h * m \in Nat /\ i * m <= h * m
      BY <1>3, <2>1
    <3>. QED  BY <1>1, <3>1
  <2>3. i * m <= L
    BY <1>1, <2>1, <2>2
  <2>. QED  BY <1>2, <2>2, <2>3
<1>6. Edge(B) = L
  <2>1. B * m \in Nat
    BY <1>1, <1>3
  <2>. QED  BY <1>1, <1>2, <2>1
<1>. QED  BY <1>0, <1>4, <1>5, <1>6

LEMMA BlocksAre ==
  ASSUME NEW c, NEW B, IsStored(c, B)
  PROVE  /\ c.block_count = B
         /\ \A j \in 0 .. B - 1 :
              /\ c.blocks[j] = Part(content, Edge(j), Edge(j + 1))
              /\ Len(c.blocks[j]) = Edge(j + 1) - Edge(j)
<1>1. c = [block_count |-> B, blocks |-> [j \in 0 .. B - 1 |-> Private!BlockOf(content, j)]]
  BY DEF IsStored, Private!Stored
<1>2. ASSUME NEW j \in 0 .. B - 1
      PROVE  /\ c.blocks[j] = Part(content, Edge(j), Edge(j + 1))
             /\ Len(c.blocks[j]) = Edge(j + 1) - Edge(j)
  <2>1. c.blocks[j] = Private!BlockOf(content, j)
    BY <1>1
  <2>2. Private!BlockOf(content, j) = Part(content, j * chunk_size, Edge(j + 1))
    BY DEF Private!BlockOf, Part, Edge
  <2>3. PICK a, b : a = Edge(j) /\ b = Edge(j + 1)
    OBVIOUS
  <2>4. /\ a = j * chunk_size /\ a \in 0 .. Len(content) /\ b \in 0 .. Len(content) /\ a <= b
    <3>1. B \in Nat
      BY DEF IsStored
    <3>2. j \in 0 .. B /\ j + 1 \in 0 .. B
      BY <3>1
    <3>. QED  BY <2>3, <3>2, EdgesAre
  <2>5. c.blocks[j] = Part(content, a, b)
    BY <2>1, <2>2, <2>3, <2>4
  <2>6. Len(Part(content, a, b)) = b - a
    <3>1. content \in Seq(Nat) /\ a \in Nat
      BY <2>4, LenProperties DEF IsStored
    <3>. QED  BY <2>4, <3>1, PartIs
  <2>. QED  BY <2>3, <2>5, <2>6
<1>. QED  BY <1>1, <1>2

LEMMA PrivateContentIs ==
  ASSUME NEW c, NEW B, IsStored(c, B)
  PROVE  Private!GetContent(c) = content
<1>0. PICK ss, e, s : /\ ss = Private!Chunks(c, 0) /\ e = [i \in 0 .. B |-> Edge(i)]
                      /\ s = content
  OBVIOUS
<1>1. s \in Seq(Nat) /\ B \in Nat
  BY <1>0 DEF IsStored
<1>2. ss = [i \in 1 .. B |-> c.blocks[i - 1]]
  <2>1. c.block_count - 0 = B
    BY <1>1, BlocksAre
  <2>2. ss = [i \in 1 .. c.block_count - 0 |-> c.blocks[0 + i - 1]]
    BY <1>0 DEF Private!Chunks
  <2>3. \A i \in 1 .. B : 0 + i - 1 = i - 1
    OBVIOUS
  <2>. QED  BY <2>1, <2>2, <2>3
<1>3. IsCutAt(ss, s, e, B)
  <2>1. ASSUME NEW i \in 1 .. B PROVE e[i - 1] <= e[i] /\ ss[i] = Part(s, e[i - 1], e[i])
    <3>1. PICK j : j = i - 1
      OBVIOUS
    <3>2. j \in 0 .. B - 1 /\ j + 1 = i /\ j \in 0 .. B /\ i \in 0 .. B
      BY <1>1, <3>1
    <3>3. c.blocks[j] = Part(content, Edge(j), Edge(j + 1)) /\ Edge(j) <= Edge(j + 1)
      BY <3>2, BlocksAre, EdgesAre
    <3>. QED  BY <1>0, <1>2, <3>1, <3>2, <3>3
  <2>2. \A i \in 0 .. B : e[i] \in 0 .. Len(s)
    BY <1>0, EdgesAre
  <2>3. DOMAIN ss = 1 .. B /\ ss = [i \in 1 .. B |-> ss[i]]
    BY <1>2
  <2>. QED  BY <2>1, <2>2, <2>3 DEF IsCutAt
<1>4. FlattenSeq(ss) = Part(s, e[0], e[B])
  BY <1>1, <1>3, CutsJoin
<1>5. e[0] = 0 /\ e[B] = Len(s)
  <2>1. 0 \in 0 .. B /\ B \in 0 .. B
    BY <1>1
  <2>2. Edge(B) = Len(content) /\ Edge(0) = 0
    <3>1. 0 * chunk_size = 0 /\ Len(content) \in Nat /\ ~(0 > Len(content))
      BY LenProperties DEF IsStored
    <3>2. Edge(0) = 0
      BY <3>1 DEF Edge, Private!LesserOf
    <3>. QED  BY <3>2, EdgesAre
  <2>. QED  BY <1>0, <2>1, <2>2
<1>6. Part(s, 0, Len(s)) = s
  BY <1>1, SubSeqFull DEF Part
<1>7. Private!GetContent(c) = FlattenSeq(ss)
  BY <1>0, PrivateFlatten DEF Private!GetContent
<1>. QED  BY <1>0, <1>4, <1>5, <1>6, <1>7

(* What a read takes of a block, as places in the content.                 *)
LastOf(B, off, lim) == IF lim = -1 THEN B ELSE (off + lim) \div chunk_size

LowCut(off, j) ==
  IF j = off \div chunk_size THEN Private!LesserOf(off, Edge(j + 1)) ELSE Edge(j)

HighCut(B, off, lim, j) ==
  IF j = LastOf(B, off, lim) THEN Private!LesserOf(off + lim, Edge(j + 1)) ELSE Edge(j + 1)

LEMMA CutsAre ==
  ASSUME NEW c, NEW B, IsStored(c, B), NEW off \in Nat, NEW lim, lim = -1 \/ lim \in Nat,
         NEW j \in 0 .. B - 1
  PROVE  /\ LowCut(off, j) \in Edge(j) .. Edge(j + 1)
         /\ HighCut(B, off, lim, j) \in Edge(j) .. Edge(j + 1)
         /\ off \div chunk_size = j => LowCut(off, j) <= HighCut(B, off, lim, j)
<1>0. PICK m, q, k, a, b, X : /\ m = chunk_size /\ q = off \div m /\ k = LastOf(B, off, lim)
                              /\ a = Edge(j) /\ b = Edge(j + 1) /\ X = off + lim
  OBVIOUS
<1>1. /\ m \in Nat \ {0} /\ B \in Nat /\ Len(content) \in Nat
  BY <1>0, LenProperties DEF IsStored
<1>2. j \in Nat /\ j \in 0 .. B /\ j + 1 \in 0 .. B
  BY <1>1
<1>3. a = j * m /\ a <= b /\ a \in Nat /\ b \in Nat
  BY <1>0, <1>1, <1>2, EdgesAre
<1>4. j = q => a <= off
  <2>1. q * m <= off
    BY <1>0, <1>1, DivIs
  <2>. QED  BY <1>3, <2>1
<1>5. j = k => X \in Nat /\ a <= X
  <2>1. ASSUME j = k PROVE lim # -1
    BY <1>0, <1>1, <2>1 DEF LastOf
  <2>2. ASSUME lim # -1, j = k PROVE X \in Nat /\ a <= X
    <3>1. X \in Nat /\ k = X \div m
      BY <1>0, <2>2 DEF LastOf
    <3>2. k * m <= X
      BY <1>1, <3>1, DivIs
    <3>. QED  BY <1>3, <2>2, <3>1, <3>2
  <2>. QED  BY <2>1, <2>2
<1>6. LowCut(off, j) = IF j = q THEN (IF off <= b THEN off ELSE b) ELSE a
  BY <1>0 DEF LowCut, Private!LesserOf
<1>7. HighCut(B, off, lim, j) = IF j = k THEN (IF X <= b THEN X ELSE b) ELSE b
  BY <1>0 DEF HighCut, Private!LesserOf
<1>8. LowCut(off, j) \in a .. b
  BY <1>3, <1>4, <1>6
<1>9. HighCut(B, off, lim, j) \in a .. b
  BY <1>3, <1>5, <1>7
<1>10. ASSUME q = j PROVE LowCut(off, j) <= HighCut(B, off, lim, j)
  <2>1. j = k => off <= X
    <3>1. ASSUME j = k PROVE lim # -1
      BY <1>0, <1>1, <3>1 DEF LastOf
    <3>. QED  BY <1>0, <3>1
  <2>. QED  BY <1>3, <1>5, <1>6, <1>7, <1>10, <2>1
<1>. QED  BY <1>0, <1>8, <1>9, <1>10

LEMMA SliceIs ==
  ASSUME NEW c, NEW B, IsStored(c, B), NEW off \in Nat, NEW lim, lim = -1 \/ lim \in Nat,
         NEW j \in 0 .. B - 1
  PROVE  Private!Slice(c, off, lim, j) = Part(content, LowCut(off, j), HighCut(B, off, lim, j))
<1>0. PICK m, q, k, a, b, X, p :
        /\ m = chunk_size /\ q = off \div m /\ k = LastOf(B, off, lim)
        /\ a = Edge(j) /\ b = Edge(j + 1) /\ X = off + lim /\ p = c.blocks[j]
  OBVIOUS
<1>1. m \in Nat \ {0} /\ B \in Nat /\ Len(content) \in Nat /\ content \in Seq(Nat)
  BY <1>0, LenProperties DEF IsStored
<1>2. j \in Nat /\ j \in 0 .. B /\ j + 1 \in 0 .. B
  BY <1>1
<1>3. a = j * m /\ a <= b /\ a \in Nat /\ b \in 0 .. Len(content)
  BY <1>0, <1>1, <1>2, EdgesAre
<1>4. p = Part(content, a, b) /\ Len(p) = b - a
  BY <1>0, BlocksAre
<1>5. PICK lo, hi : lo = LowCut(off, j) /\ hi = HighCut(B, off, lim, j)
  OBVIOUS
<1>6. lo \in a .. b /\ hi \in a .. b
  BY <1>0, <1>5, CutsAre
<1>7. PICK from, to :
        /\ from = IF j = q THEN (IF off - a <= b - a THEN off - a ELSE b - a) ELSE 0
        /\ to = IF j = k THEN (IF X - a <= b - a THEN X - a ELSE b - a) ELSE b - a
  OBVIOUS
<1>8. Private!LastBlock(c, off, lim) = k
  BY <1>0, BlocksAre DEF Private!LastBlock, Private!NoLimit, LastOf
<1>9. Private!Slice(c, off, lim, j) = Part(p, from, to)
  <2>1. /\ a = j * chunk_size /\ p = c.blocks[j] /\ Len(p) = b - a
        /\ q = off \div chunk_size /\ X = off + lim
    BY <1>0, <1>3, <1>4
  <2>. QED  BY <1>7, <1>8, <2>1 DEF Private!Slice, Private!LesserOf, Part
<1>10. lo = IF j = q THEN (IF off <= b THEN off ELSE b) ELSE a
  BY <1>0, <1>5 DEF LowCut, Private!LesserOf
<1>11. hi = IF j = k THEN (IF X <= b THEN X ELSE b) ELSE b
  BY <1>0, <1>5 DEF HighCut, Private!LesserOf
<1>12. from = lo - a
  BY <1>3, <1>7, <1>10
<1>13. to = hi - a
  <2>1. j = k => X \in Int
    <3>1. ASSUME j = k PROVE lim # -1
      BY <1>0, <1>1, <3>1 DEF LastOf
    <3>. QED  BY <1>0, <3>1
  <2>. QED  BY <1>3, <1>7, <1>11, <2>1
<1>14. from \in Nat /\ to \in 0 .. b - a /\ a + from = lo /\ a + to = hi
  BY <1>3, <1>6, <1>12, <1>13
<1>15. Part(Part(content, a, b), from, to) = Part(content, a + from, a + to)
  BY <1>1, <1>3, <1>14, PartOfPart
<1>. QED  BY <1>4, <1>5, <1>9, <1>14, <1>15

(* The blocks a read goes through.                                         *)
LEMMA BlocksToRead ==
  ASSUME NEW c, NEW B, IsStored(c, B), NEW off \in 0 .. B * chunk_size,
         off # B * chunk_size, NEW lim, lim = -1 \/ lim \in Nat
  PROVE  /\ off \div chunk_size \in 0 .. B - 1
         /\ LastOf(B, off, lim) \in Nat /\ off \div chunk_size <= LastOf(B, off, lim)
         /\ lim = -1 => LastOf(B, off, lim) = B
<1>0. PICK m, q, k, X : /\ m = chunk_size /\ q = off \div m /\ k = LastOf(B, off, lim)
                        /\ X = off + lim
  OBVIOUS
<1>1. m \in Nat \ {0} /\ B \in Nat
  BY <1>0 DEF IsStored
<1>2. /\ \A j \in Nat : j * m \in Nat /\ (j + 1) * m = j * m + m
      /\ \A i, j \in Nat : i <= j => i * m <= j * m
  BY <1>1, TimesIs
<1>3. off \in Nat /\ off < B * m
  <2>1. B * m \in Nat
    BY <1>1, <1>2
  <2>. QED  BY <1>0, <2>1
<1>4. q \in Nat /\ q * m <= off /\ off < q * m + m
  BY <1>0, <1>1, <1>3, DivIs
<1>5. q \in 0 .. B - 1
  <2>1. ASSUME B <= q PROVE FALSE
    <3>1. B * m <= q * m /\ B * m \in Nat /\ q * m \in Nat
      BY <1>1, <1>2, <1>4, <2>1
    <3>. QED  BY <1>3, <1>4, <3>1
  <2>. QED  BY <1>1, <1>4, <2>1
<1>6. CASE lim = -1
  <2>1. k = B
    BY <1>0, <1>6 DEF LastOf
  <2>. QED  BY <1>0, <1>1, <1>5, <1>6, <2>1
<1>7. CASE lim # -1
  <2>1. X \in Nat /\ off <= X /\ k = X \div m
    BY <1>0, <1>3, <1>7 DEF LastOf
  <2>2. k \in Nat /\ k * m <= X /\ X < k * m + m
    BY <1>1, <2>1, DivIs
  <2>3. ASSUME k < q PROVE FALSE
    <3>1. PICK h : h = k + 1
      OBVIOUS
    <3>2. h \in Nat /\ h <= q
      BY <1>4, <2>2, <2>3, <3>1
    <3>3. h * m = k * m + m /\ h * m <= q * m /\ k * m \in Nat /\ q * m \in Nat
      BY <1>2, <1>4, <2>2, <3>1, <3>2
    <3>. QED  BY <1>1, <1>4, <2>1, <2>2, <3>3
  <2>4. q <= k
    BY <1>4, <2>2, <2>3
  <2>. QED  BY <1>0, <1>5, <1>7, <2>2, <2>4
<1>. QED  BY <1>6, <1>7

LEMMA SlicesJoin ==
  ASSUME NEW c, NEW B, IsStored(c, B), NEW off \in Nat, NEW lim, lim = -1 \/ lim \in Nat,
         NEW q, q = off \div chunk_size, NEW z \in 0 .. B - 1, q \in 0 .. z,
         LastOf(B, off, lim) \in Nat, z <= LastOf(B, off, lim),
         NEW ss, ss = [i \in 1 .. z - q + 1 |-> Private!Slice(c, off, lim, q + i - 1)]
  PROVE  FlattenSeq(ss) = Part(content, LowCut(off, q), HighCut(B, off, lim, z))
<1>0. PICK s, n, k, e :
        /\ s = content /\ n = z - q + 1 /\ k = LastOf(B, off, lim)
        /\ e = [i \in 0 .. n |-> IF i = 0 THEN LowCut(off, q)
                                 ELSE HighCut(B, off, lim, q + i - 1)]
  OBVIOUS
<1>1. /\ s \in Seq(Nat) /\ B \in Nat /\ n \in Nat \ {0} /\ q \in Nat /\ z \in Nat /\ k \in Nat
      /\ z <= k
  BY <1>0 DEF IsStored
<1>2. ASSUME NEW j \in 0 .. B - 1
      PROVE  /\ LowCut(off, j) \in 0 .. Len(s) /\ HighCut(B, off, lim, j) \in 0 .. Len(s)
             /\ Edge(j) \in Nat
             /\ Edge(j) <= HighCut(B, off, lim, j)
             /\ j = q => LowCut(off, j) <= HighCut(B, off, lim, j)
  <2>1. PICK a, b, lo, hi : /\ a = Edge(j) /\ b = Edge(j + 1)
                            /\ lo = LowCut(off, j) /\ hi = HighCut(B, off, lim, j)
    OBVIOUS
  <2>2. lo \in a .. b /\ hi \in a .. b /\ (j = q => lo <= hi)
    BY <2>1, CutsAre
  <2>3. a \in 0 .. Len(s) /\ b \in 0 .. Len(s)
    <3>1. j \in 0 .. B /\ j + 1 \in 0 .. B
      BY <1>1
    <3>. QED  BY <1>0, <2>1, <3>1, EdgesAre
  <2>4. Len(s) \in Nat
    BY <1>1, LenProperties
  <2>. QED  BY <2>1, <2>2, <2>3, <2>4
<1>3. ASSUME NEW i \in 1 .. n
      PROVE  e[i - 1] <= e[i] /\ ss[i] = Part(s, e[i - 1], e[i]) /\ e[i] \in 0 .. Len(s)
  <2>1. PICK j : j = q + i - 1
    OBVIOUS
  <2>2. j \in 0 .. B - 1 /\ j \in Nat /\ j <= z
    BY <1>0, <1>1, <2>1
  <2>3. ss[i] = Part(s, LowCut(off, j), HighCut(B, off, lim, j))
    <3>1. ss[i] = Private!Slice(c, off, lim, j)
      BY <1>0, <2>1
    <3>2. Private!Slice(c, off, lim, j) = Part(content, LowCut(off, j), HighCut(B, off, lim, j))
      BY <2>2, SliceIs
    <3>. QED  BY <1>0, <3>1, <3>2
  <2>4. e[i] = HighCut(B, off, lim, j) /\ e[i] \in 0 .. Len(s)
    <3>1. i \in 0 .. n /\ i # 0
      OBVIOUS
    <3>2. e[i] = HighCut(B, off, lim, j)
      BY <1>0, <2>1, <3>1
    <3>. QED  BY <1>2, <2>2, <3>2
  <2>5. CASE i = 1
    <3>1. j = q /\ i - 1 = 0 /\ 0 \in 0 .. n
      BY <1>1, <2>1, <2>5
    <3>2. e[i - 1] = LowCut(off, j)
      BY <1>0, <3>1
    <3>. QED  BY <1>2, <2>2, <2>3, <2>4, <3>1, <3>2
  <2>6. CASE i # 1
    <3>1. PICK h, g : h = i - 1 /\ g = j - 1
      OBVIOUS
    <3>2. /\ h \in 0 .. n /\ h # 0 /\ q + h - 1 = g /\ g + 1 = j /\ j # q
          /\ g # k /\ g \in Nat
      <4>1. i \in Nat /\ i > 1 /\ i <= n
        BY <1>1, <2>6
      <4>2. h \in 0 .. n /\ h # 0 /\ q + h - 1 = g /\ g + 1 = j /\ j # q
        BY <1>1, <2>1, <3>1, <4>1
      <4>3. g # k /\ g \in Nat
        BY <1>1, <2>1, <2>2, <3>1, <4>1
      <4>. QED  BY <4>2, <4>3
    <3>3. e[h] = HighCut(B, off, lim, g)
      BY <1>0, <3>2
    <3>4. HighCut(B, off, lim, g) = Edge(j)
      BY <1>0, <3>2 DEF HighCut
    <3>5. LowCut(off, j) = Edge(j)
      BY <3>2 DEF LowCut
    <3>6. Edge(j) <= HighCut(B, off, lim, j)
      BY <1>2, <2>2
    <3>. QED  BY <2>3, <2>4, <3>1, <3>3, <3>4, <3>5, <3>6
  <2>. QED  BY <2>5, <2>6
<1>4. 0 \in 0 .. n /\ n \in 0 .. n /\ n # 0 /\ q + n - 1 = z /\ q \in 0 .. B - 1
  BY <1>0, <1>1
<1>5. e[0] = LowCut(off, q) /\ e[n] = HighCut(B, off, lim, z) /\ e[0] \in 0 .. Len(s)
  BY <1>0, <1>2, <1>4
<1>6. IsCutAt(ss, s, e, n)
  <2>1. DOMAIN ss = 1 .. n /\ ss = [i \in 1 .. n |-> ss[i]]
    BY <1>0
  <2>2. \A i \in 0 .. n : e[i] \in 0 .. Len(s)
    <3>1. \A i \in 0 .. n : i = 0 \/ i \in 1 .. n
      BY <1>1
    <3>. QED  BY <1>3, <1>5, <3>1
  <2>. QED  BY <1>3, <2>1, <2>2 DEF IsCutAt
<1>7. FlattenSeq(ss) = Part(s, e[0], e[n])
  BY <1>1, <1>6, CutsJoin
<1>. QED  BY <1>0, <1>5, <1>7

(* Where a read ends.                                                      *)
EndOf(off, lim) ==
  IF lim = -1 THEN Len(content) ELSE Private!LesserOf(off + lim, Len(content))

LEMMA EndIs ==
  ASSUME content \in Seq(Nat), NEW off \in Nat, NEW lim, lim = -1 \/ lim \in Nat
  PROVE  EndOf(off, lim) \in 0 .. Len(content)
<1>1. Len(content) \in Nat
  BY LenProperties
<1>2. CASE lim = -1
  BY <1>1, <1>2 DEF EndOf
<1>3. CASE lim # -1
  <2>1. off + lim \in Nat
    BY <1>3
  <2>. QED  BY <1>1, <1>3, <2>1 DEF EndOf, Private!LesserOf
<1>. QED  BY <1>2, <1>3

LEMMA LowCutIs ==
  ASSUME NEW c, NEW B, IsStored(c, B), NEW off \in Nat
  PROVE  LowCut(off, off \div chunk_size) = Private!LesserOf(off, Len(content))
<1>0. PICK m, q, L, b, h : /\ m = chunk_size /\ q = off \div m /\ L = Len(content)
                           /\ b = Edge(q + 1) /\ h = q + 1
  OBVIOUS
<1>1. m \in Nat \ {0} /\ L \in Nat
  BY <1>0, LenProperties DEF IsStored
<1>2. q \in Nat /\ off < q * m + m
  BY <1>0, <1>1, DivIs
<1>3. h * m = q * m + m /\ q * m \in Nat
  BY <1>0, <1>1, <1>2, TimesIs
<1>4. b = IF h * m <= L THEN h * m ELSE L
  BY <1>0 DEF Edge, Private!LesserOf
<1>5. LowCut(off, q) = IF off <= b THEN off ELSE b
  BY <1>0 DEF LowCut, Private!LesserOf
<1>6. (IF off <= b THEN off ELSE b) = IF off <= L THEN off ELSE L
  BY <1>1, <1>2, <1>3, <1>4
<1>. QED  BY <1>0, <1>5, <1>6 DEF Private!LesserOf

LEMMA HighCutIs ==
  ASSUME NEW c, NEW B, IsStored(c, B), B # 0, NEW off \in Nat, NEW lim, lim = -1 \/ lim \in Nat,
         NEW z, z = Private!LesserOf(LastOf(B, off, lim), B - 1)
  PROVE  HighCut(B, off, lim, z) = EndOf(off, lim)
<1>0. PICK m, k, L, X, h : /\ m = chunk_size /\ k = LastOf(B, off, lim) /\ L = Len(content)
                           /\ X = off + lim /\ h = k + 1
  OBVIOUS
<1>1. m \in Nat \ {0} /\ L \in Nat /\ B \in Nat /\ L <= B * m
  BY <1>0, LenProperties DEF IsStored
<1>2. /\ \A j \in Nat : j * m \in Nat /\ (j + 1) * m = j * m + m
      /\ \A i, j \in Nat : i <= j => i * m <= j * m
  BY <1>1, TimesIs
<1>3. z = IF k <= B - 1 THEN k ELSE B - 1
  BY <1>0 DEF Private!LesserOf
<1>4. Edge(B) = L
  BY <1>0, EdgesAre
<1>5. CASE lim = -1
  <2>1. k = B
    BY <1>0, <1>5 DEF LastOf
  <2>2. z = B - 1 /\ z # k /\ z + 1 = B
    BY <1>1, <1>3, <2>1
  <2>3. HighCut(B, off, lim, z) = Edge(B)
    BY <1>0, <2>2 DEF HighCut
  <2>. QED  BY <1>0, <1>4, <1>5, <2>3 DEF EndOf
<1>6. CASE lim # -1
  <2>1. X \in Nat /\ k = X \div m
    BY <1>0, <1>6 DEF LastOf
  <2>2. k \in Nat /\ k * m <= X /\ X < k * m + m
    BY <1>1, <2>1, DivIs
  <2>3. EndOf(off, lim) = IF X <= L THEN X ELSE L
    BY <1>0, <1>6 DEF EndOf, Private!LesserOf
  <2>4. CASE k <= B - 1
    <3>1. z = k
      BY <1>3, <2>4
    <3>2. HighCut(B, off, lim, z) = IF X <= Edge(h) THEN X ELSE Edge(h)
      BY <1>0, <3>1 DEF HighCut, Private!LesserOf
    <3>3. Edge(h) = IF h * m <= L THEN h * m ELSE L
      BY <1>0 DEF Edge, Private!LesserOf
    <3>4. h * m = k * m + m /\ k * m \in Nat
      BY <1>0, <1>2, <2>2
    <3>5. (IF X <= Edge(h) THEN X ELSE Edge(h)) = IF X <= L THEN X ELSE L
      BY <1>1, <2>1, <2>2, <3>3, <3>4
    <3>. QED  BY <2>3, <3>2, <3>5
  <2>5. CASE ~(k <= B - 1)
    <3>1. z = B - 1 /\ z # k /\ z + 1 = B /\ B <= k
      BY <1>1, <1>3, <2>2, <2>5
    <3>2. HighCut(B, off, lim, z) = Edge(B)
      BY <1>0, <3>1 DEF HighCut
    <3>3. B * m <= k * m /\ B * m \in Nat /\ k * m \in Nat
      BY <1>1, <1>2, <2>2, <3>1
    <3>4. (IF X <= L THEN X ELSE L) = L
      BY <1>1, <2>1, <2>2, <3>3
    <3>. QED  BY <1>4, <2>3, <3>2, <3>4
  <2>. QED  BY <2>4, <2>5
<1>. QED  BY <1>5, <1>6

(* A read at an offset gives the bytes from there, as far as the limit.    *)
LEMMA ReadAtIs ==
  ASSUME NEW c, NEW B, IsStored(c, B), NEW off \in 0 .. B * chunk_size,
         NEW lim, lim = -1 \/ lim \in Nat
  PROVE  Private!ReadAt(c, off, lim) = Part(content, off, EndOf(off, lim))
<1>0. PICK m, L, E : m = chunk_size /\ L = Len(content) /\ E = EndOf(off, lim)
  OBVIOUS
<1>1. /\ m \in Nat \ {0} /\ L \in Nat /\ B \in Nat /\ L <= B * m
      /\ content \in Seq(Nat)
  BY <1>0, LenProperties DEF IsStored
<1>2. B * m \in Nat
  BY <1>1, TimesIs
<1>3. off \in Nat /\ off <= B * m
  BY <1>0, <1>2
<1>4. E \in 0 .. L
  BY <1>0, <1>1, <1>3, EndIs
<1>5. c.block_count = B
  BY BlocksAre
<1>6. Private!GetSizeUpperBound(c) = B * m
  BY <1>0, <1>5 DEF Private!GetSizeUpperBound
<1>7. CASE off = B * m \/ lim = 0
  <2>1. Private!ReadAt(c, off, lim) = <<>>
    BY <1>6, <1>7 DEF Private!ReadAt
  <2>2. E <= off
    <3>1. CASE off = B * m
      BY <1>1, <1>2, <1>4, <3>1
    <3>2. CASE lim = 0
      <4>1. E = IF off <= L THEN off ELSE L
        BY <1>0, <1>3, <3>2 DEF EndOf, Private!LesserOf
      <4>. QED  BY <1>1, <1>3, <4>1
    <3>. QED  BY <1>7, <3>1, <3>2
  <2>3. Part(content, off, E) = <<>>
    <3>1. E \in 0 .. Len(content)
      BY <1>0, <1>4
    <3>. QED  BY <1>1, <1>3, <2>2, <3>1, PartIs
  <2>. QED  BY <1>0, <2>1, <2>3
<1>8. CASE ~(off = B * m \/ lim = 0)
  <2>1. off # B * chunk_size
    BY <1>0, <1>8
  <2>2. PICK q, k, z : /\ q = off \div chunk_size /\ k = LastOf(B, off, lim)
                       /\ z = Private!LesserOf(k, B - 1)
    OBVIOUS
  <2>3. q \in 0 .. B - 1 /\ k \in Nat /\ q <= k
    BY <2>1, <2>2, BlocksToRead
  <2>4. z = IF k <= B - 1 THEN k ELSE B - 1
    BY <2>2 DEF Private!LesserOf
  <2>5. z \in 0 .. B - 1 /\ q \in 0 .. z /\ z <= k /\ B # 0
    BY <1>1, <2>3, <2>4
  <2>6. PICK ss : ss = [i \in 1 .. z - q + 1 |-> Private!Slice(c, off, lim, q + i - 1)]
    OBVIOUS
  <2>7. Private!ReadAt(c, off, lim) = FlattenSeq(ss)
    <3>1. Private!LastBlock(c, off, lim) = k
      BY <1>5, <2>2 DEF Private!LastBlock, Private!NoLimit, LastOf
    <3>2. Private!ReadAt(c, off, lim) = Private!FlattenSeq(ss)
      BY <1>5, <1>6, <1>8, <2>2, <2>6, <3>1 DEF Private!ReadAt
    <3>. QED  BY <3>2, PrivateFlatten
  <2>8. FlattenSeq(ss) = Part(content, LowCut(off, q), HighCut(B, off, lim, z))
    <3>1. LastOf(B, off, lim) \in Nat /\ z <= LastOf(B, off, lim)
      BY <2>2, <2>3, <2>5
    <3>. QED  BY <1>3, <2>2, <2>5, <2>6, <3>1, SlicesJoin
  <2>9. LowCut(off, q) = Private!LesserOf(off, L)
    BY <1>0, <1>3, <2>2, LowCutIs
  <2>10. HighCut(B, off, lim, z) = E
    <3>1. z = Private!LesserOf(LastOf(B, off, lim), B - 1)
      BY <2>2
    <3>. QED  BY <1>0, <1>3, <2>5, <3>1, HighCutIs
  <2>11. Part(content, Private!LesserOf(off, L), E) = Part(content, off, E)
    <3>1. CASE off <= L
      BY <3>1 DEF Private!LesserOf
    <3>2. CASE ~(off <= L)
      <4>1. Private!LesserOf(off, L) = L
        BY <3>2 DEF Private!LesserOf
      <4>2. E \in 0 .. Len(content) /\ E <= L /\ E <= off
        BY <1>0, <1>1, <1>3, <1>4, <3>2
      <4>3. Part(content, L, E) = <<>>
        BY <1>1, <4>2, PartIs
      <4>4. Part(content, off, E) = <<>>
        BY <1>1, <1>3, <4>2, PartIs
      <4>. QED  BY <4>1, <4>3, <4>4
    <3>. QED  BY <3>1, <3>2
  <2>. QED  BY <1>0, <2>7, <2>8, <2>9, <2>10, <2>11
<1>. QED  BY <1>7, <1>8

LEMMA SizeIs ==
  ASSUME NEW c, NEW B, IsStored(c, B), B # 0
  PROVE  Private!Size(c) = Len(content)
<1>0. PICK m, L, h, o : m = chunk_size /\ L = Len(content) /\ h = B - 1 /\ o = h * m
  OBVIOUS
<1>1. /\ m \in Nat \ {0} /\ L \in Nat /\ B \in Nat /\ h \in Nat /\ h + 1 = B
      /\ o <= L /\ L <= B * m /\ content \in Seq(Nat)
  BY <1>0, LenProperties DEF IsStored
<1>2. o \in Nat /\ B * m \in Nat
  BY <1>0, <1>1, TimesIs
<1>3. o \in 0 .. B * chunk_size
  BY <1>0, <1>1, <1>2
<1>4. EndOf(o, -1) = L
  BY <1>0 DEF EndOf
<1>5. Private!ReadAt(c, o, -1) = Part(content, o, L)
  <2>1. Private!ReadAt(c, o, -1) = Part(content, o, EndOf(o, -1))
    BY <1>3, ReadAtIs
  <2>. QED  BY <1>4, <2>1
<1>6. Len(Part(content, o, L)) = L - o
  <2>1. L \in 0 .. Len(content)
    BY <1>0, <1>1
  <2>. QED  BY <1>1, <1>2, <2>1, PartIs
<1>7. Private!Size(c) = o + Len(Private!ReadAt(c, o, -1))
  BY <1>0, BlocksAre DEF Private!Size, Private!NoLimit
<1>. QED  BY <1>0, <1>1, <1>2, <1>5, <1>6, <1>7

LEMMA NewIsStored ==
  ASSUME content \in Seq(Nat), chunk_size \in Nat \ {0}
  PROVE  \E B : IsStored(Private!New(content), B)
<1>0. PICK m, L, N, B, h : /\ m = chunk_size /\ L = Len(content) /\ N = L + m - 1
                           /\ B = N \div m /\ h = B - 1
  OBVIOUS
<1>1. m \in Nat \ {0} /\ L \in Nat
  BY <1>0, LenProperties
<1>2. N \in Nat
  BY <1>0, <1>1
<1>3. B \in Nat /\ B * m <= N /\ N < B * m + m
  BY <1>0, <1>1, <1>2, DivIs
<1>4. B * m \in Nat
  BY <1>1, <1>3, TimesIs
<1>5. L <= B * m
  BY <1>0, <1>1, <1>3, <1>4
<1>6. ASSUME B # 0 PROVE h * m <= L
  <2>1. h \in Nat /\ h + 1 = B
    BY <1>0, <1>3, <1>6
  <2>2. B * m = h * m + m /\ h * m \in Nat
    BY <1>1, <2>1, TimesIs
  <2>. QED  BY <1>0, <1>1, <1>3, <2>2
<1>7. Private!New(content) = Private!Stored(content, B)
  BY <1>0 DEF Private!New
<1>. QED  BY <1>0, <1>3, <1>5, <1>6, <1>7 DEF IsStored

LEMMA NewStreamingIsStored ==
  ASSUME content \in Seq(Nat), chunk_size \in Nat \ {0}
  PROVE  \E B : IsStored(Private!NewStreaming(content), B)
<1>0. PICK m, L, h, B : m = chunk_size /\ L = Len(content) /\ h = L \div m /\ B = h + 1
  OBVIOUS
<1>1. m \in Nat \ {0} /\ L \in Nat
  BY <1>0, LenProperties
<1>2. h \in Nat /\ h * m <= L /\ L < h * m + m
  BY <1>0, <1>1, DivIs
<1>3. B * m = h * m + m /\ h * m \in Nat
  BY <1>0, <1>1, <1>2, TimesIs
<1>4. L <= B * m /\ B \in Nat /\ B - 1 = h
  BY <1>0, <1>1, <1>2, <1>3
<1>5. Private!NewStreaming(content) = Private!Stored(content, B)
  BY <1>0 DEF Private!NewStreaming
<1>. QED  BY <1>0, <1>2, <1>4, <1>5 DEF IsStored

(* What is proved of a content that is stored, and of both ways to.        *)
LEMMA StoredReads ==
  ASSUME NEW c, NEW B, IsStored(c, B)
  PROVE  /\ Private!GetContent(c) = content
         /\ \A offset \in 0 .. Private!GetSizeUpperBound(c),
               limit \in {Private!NoLimit} \cup 0 .. MaxSeek :
              Private!ReadAt(c, offset, limit) = BytesFrom(offset, limit)
         /\ c.block_count > 0 => Private!Size(c) = Len(content)
<1>1. c.block_count = B
  BY BlocksAre
<1>2. Private!GetSizeUpperBound(c) = B * chunk_size
  BY <1>1 DEF Private!GetSizeUpperBound
<1>3. ASSUME NEW offset \in 0 .. Private!GetSizeUpperBound(c),
             NEW limit \in {Private!NoLimit} \cup 0 .. MaxSeek
      PROVE  Private!ReadAt(c, offset, limit) = BytesFrom(offset, limit)
  <2>1. offset \in 0 .. B * chunk_size
    BY <1>2
  <2>2. limit = -1 \/ limit \in Nat
    BY UnixFsAssumption DEF UnixFsAssumption, Private!NoLimit
  <2>3. Private!ReadAt(c, offset, limit) = Part(content, offset, EndOf(offset, limit))
    BY <2>1, <2>2, ReadAtIs
  <2>4. Part(content, offset, EndOf(offset, limit)) = BytesFrom(offset, limit)
    BY DEF Part, EndOf, BytesFrom, Private!NoLimit
  <2>. QED  BY <2>3, <2>4
<1>4. ASSUME c.block_count > 0 PROVE Private!Size(c) = Len(content)
  <2>1. B # 0
    BY <1>1, <1>4 DEF IsStored
  <2>. QED  BY <2>1, SizeIs
<1>5. Private!GetContent(c) = content
  BY PrivateContentIs
<1>. QED  BY <1>3, <1>4, <1>5

LEMMA PrivateReadsHold ==
  ASSUME content \in Seq(Nat), chunk_size \in Nat \ {0}
  PROVE  PrivateReadsAreContent
<1>1. ASSUME NEW c \in {Private!New(content), Private!NewStreaming(content)}
      PROVE  \E B : IsStored(c, B)
  BY <1>1, NewIsStored, NewStreamingIsStored
<1>2. ASSUME NEW c \in {Private!New(content), Private!NewStreaming(content)}
      PROVE  /\ Private!GetContent(c) = content
             /\ \A offset \in 0 .. Private!GetSizeUpperBound(c),
                   limit \in {Private!NoLimit} \cup 0 .. MaxSeek :
                  Private!ReadAt(c, offset, limit) = BytesFrom(offset, limit)
             /\ c.block_count > 0 => Private!Size(c) = Len(content)
  <2>1. PICK B : IsStored(c, B)
    BY <1>1
  <2>. QED  BY <2>1, StoredReads
<1>. QED  BY <1>2 DEF PrivateReadsAreContent

(* However the content of a private file was stored, by new or, block by   *)
(* block, by new_streaming, and wherever in a block a read begins or ends, *)
(* stream, read_at and size give what was stored: for every length, every  *)
(* block size and every limit.                                             *)
THEOREM PrivateReadsGiveContent == Spec => []PrivateReadsAreContent
<1>1. IInv /\ [Next]_vars => IInv'
  BY NextKeeps
<1>2. IInv => PrivateReadsAreContent
  <2>1. IInv => content \in Seq(Nat) /\ chunk_size \in Nat \ {0}
    BY DEF IInv, BuildInv
  <2>. QED  BY <2>1, PrivateReadsHold
<1>. QED  BY <1>1, <1>2, InitIInv, PTL DEF Spec
================================================================================
