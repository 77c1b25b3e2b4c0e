--------------------------- MODULE PrivateTreeProofs ---------------------------
(***************************************************************************)
(* The private file system keeps its types; the forest of each device      *)
(* stays closed, so that whatever a device finds in it leads to more of    *)
(* it; and concurrent writes of the root are neither missed by a search    *)
(* nor lost by a merge.                                                    *)
(***************************************************************************)
EXTENDS PrivateTree, SharedFacts

Types == {"dir", "file"}

Headers ==
  {h \in [id : Nat, rev : Nat, name : SUBSET Nat] :
     h.id \in h.name /\ IsFiniteSet(h.name)}

Links(B) == [back : Nat, cid : DOMAIN B, key : Nat \X Nat]

NodesOver(B) ==
  [type : Types, header : Headers, previous : SUBSET Links(B),
   content : Contents \cup {NoContent},
   persisted_as : {{}} \cup {{c} : c \in DOMAIN B}]

RefsOf(B) == {Ref(B[c].header, c) : c \in DOMAIN B}

(* A link has the key of what it leads to, and one to a revision of the    *)
(* same node says how far back that is.                                    *)
IsLink(B, F, h, l) ==
  /\ l.key = TemporalKey(B[l.cid].header)
  /\ l.key[1] = h.id =>
       /\ l.back \in 1 .. h.rev
       /\ Ref(AtRevision(h, h.rev - l.back), l.cid) \in F

(* The ratchet of the root is never that of a node that was moved.         *)
IsNamed(h) == h.id = 1 => h.name = {1}

(* No revision was skipped.                                                *)
HasEarlier(F, h) == \A k \in 0 .. h.rev - 1 : \E r \in F : r.label = AtRevision(h, k)

(* The ids that are in use are those that kind is defined for: an id is    *)
(* always that of a directory or always that of a file.                    *)
HasKind(kind, n) ==
  /\ n.header.name \subseteq DOMAIN kind /\ n.type = kind[n.header.id]
  /\ IsNamed(n.header)

IsKnown(B, F, kind, n) ==
  /\ n \in NodesOver(B)
  /\ IsFiniteSet(n.previous)
  /\ HasKind(kind, n)
  /\ \A l \in n.previous : IsLink(B, F, n.header, l)
  /\ \A c \in n.persisted_as : Ref(n.header, c) \in F
  /\ HasEarlier(F, n.header)

(* The entries of a stored node.                                           *)
AreEntries(F, type, entries) ==
  /\ entries = [n \in DOMAIN entries |-> entries[n]]
  /\ IsFiniteSet(DOMAIN entries) /\ DOMAIN entries \subseteq Names
  /\ \A n \in DOMAIN entries : entries[n] \in F
  /\ type = "file" => DOMAIN entries = {}

AreBlocks(B, kind) ==
  /\ B = [c \in DOMAIN B |-> B[c]] /\ IsFiniteSet(DOMAIN B)
  /\ \E c \in DOMAIN B : B[c].header = RootHeader
  /\ \A c \in DOMAIN B :
       /\ c \in Ranks \X (1 .. Cardinality(DOMAIN B))
       /\ AsNode(B[c], c) \in NodesOver(B)
       /\ HasKind(kind, AsNode(B[c], c))
       /\ AreEntries(RefsOf(B), B[c].type, B[c].entries)
       /\ \A l \in B[c].previous : l.key = TemporalKey(B[l.cid].header)

IsForest(B, F, kind) ==
  /\ F \subseteq RefsOf(B) /\ IsFiniteSet(F)
  /\ \A r \in F : /\ IsKnown(B, F, kind, AsNode(B[r.cid], r.cid))
                  /\ AreEntries(F, B[r.cid].type, B[r.cid].entries)

IsTree(B, F, kind, t) ==
  /\ t = [p \in DOMAIN t |-> t[p]] /\ IsFiniteSet(DOMAIN t)
  /\ DOMAIN t \subseteq Seq(Names)
  /\ <<>> \in DOMAIN t /\ t[<<>>].type = "dir"
  /\ \A p \in DOMAIN t : t[p] \in F \/ IsKnown(B, F, kind, t[p])
  /\ \A p \in DOMAIN t \ {<<>>} : Front(p) \in DOMAIN t /\ t[Front(p)].type = "dir"

Kinds(U) == [U -> Types]

AllAre(B, forests, trees, kind) ==
  /\ AreBlocks(B, kind)
  /\ \A d \in Devices : IsForest(B, forests[d], kind) /\ IsTree(B, forests[d], kind, trees[d])

(* The inductive invariant.                                                *)
IInv ==
  /\ forest = [d \in Devices |-> forest[d]]
  /\ tree = [d \in Devices |-> tree[d]]
  /\ \E kind \in Kinds(UsedIds) : AllAre(blocks, forest, tree, kind)
  /\ \A key \in keys : key \in RefsOf(blocks) /\ blocks[key.cid].type = "dir"

--------------------------------------------------------------------------------
(* Records.                                                                *)

LEMMA RefOf ==
  ASSUME NEW h, NEW c
  PROVE  /\ Ref(h, c).type = "ref" /\ Ref(h, c).label = h /\ Ref(h, c).cid = c
         /\ \A g, d : Ref(h, c) = Ref(g, d) => h = g /\ c = d
BY DEF Ref

LEMMA RefInForest ==
  ASSUME NEW B, NEW F, F \subseteq RefsOf(B), NEW r \in F
  PROVE  /\ r.type = "ref" /\ r.cid \in DOMAIN B
         /\ r = Ref(B[r.cid].header, r.cid) /\ r.label = B[r.cid].header
<1>1. PICK c \in DOMAIN B : r = Ref(B[c].header, c)
  BY DEF RefsOf
<1>. QED  BY <1>1, RefOf

LEMMA HeaderOf ==
  ASSUME NEW h \in Headers
  PROVE  /\ h.id \in Nat /\ h.rev \in Nat /\ h.name \subseteq Nat
         /\ h.id \in h.name /\ IsFiniteSet(h.name)
         /\ h = Header(h.id, h.rev, h.name)
         /\ AtRevision(h, h.rev) = h
         /\ TemporalKey(h) \in Nat \X Nat
         /\ \A k \in Nat : /\ AtRevision(h, k) \in Headers
                           /\ AtRevision(h, k).id = h.id
                           /\ AtRevision(h, k).rev = k
                           /\ AtRevision(h, k).name = h.name
         /\ \A j, k : AtRevision(AtRevision(h, j), k) = AtRevision(h, k)
BY DEF Headers, Header, AtRevision, TemporalKey

LEMMA NodeOf ==
  ASSUME NEW type, NEW h, NEW previous, NEW content, NEW cell
  PROVE  LET n == Node(type, h, previous, content, cell)
         IN /\ n.type = type /\ n.header = h /\ n.previous = previous
            /\ n.content = content /\ n.persisted_as = cell
BY DEF Node

LEMMA NodeIn ==
  ASSUME NEW B, NEW type \in Types, NEW h \in Headers,
         NEW previous \in SUBSET Links(B), NEW content \in Contents \cup {NoContent},
         NEW cell \in {{}} \cup {{c} : c \in DOMAIN B}
  PROVE  Node(type, h, previous, content, cell) \in NodesOver(B)
BY DEF Node, NodesOver

LEMMA FieldsIn ==
  ASSUME NEW B, NEW n \in NodesOver(B)
  PROVE  /\ n.type \in Types /\ n.header \in Headers
         /\ n.previous \in SUBSET Links(B) /\ n.content \in Contents \cup {NoContent}
         /\ n.persisted_as \in {{}} \cup {{c} : c \in DOMAIN B}
         /\ n = Node(n.type, n.header, n.previous, n.content, n.persisted_as)
BY DEF Node, NodesOver

LEMMA LinkOf ==
  ASSUME NEW B, NEW l \in Links(B)
  PROVE  /\ l.back \in Nat /\ l.cid \in DOMAIN B /\ l.key \in Nat \X Nat
         /\ l = Link(l.back, l.cid, l.key)
BY DEF Links, Link

LEMMA LinkIn ==
  ASSUME NEW B, NEW back \in Nat, NEW c \in DOMAIN B, NEW key \in Nat \X Nat
  PROVE  /\ Link(back, c, key) \in Links(B) /\ Link(back, c, key).back = back
         /\ Link(back, c, key).cid = c /\ Link(back, c, key).key = key
BY DEF Links, Link

(* A node with this header and this history is known.                      *)
LEMMA KnownIf ==
  ASSUME NEW B, NEW F, NEW kind, NEW type \in Types, NEW h \in Headers,
         NEW previous, NEW content \in Contents \cup {NoContent}, NEW cell,
         previous \subseteq Links(B), IsFiniteSet(previous),
         \A l \in previous : IsLink(B, F, h, l),
         cell \in {{}} \cup {{c} : c \in DOMAIN B},
         \A c \in cell : Ref(h, c) \in F,
         h.name \subseteq DOMAIN kind, type = kind[h.id], IsNamed(h), HasEarlier(F, h)
  PROVE  IsKnown(B, F, kind, Node(type, h, previous, content, cell))
<1> DEFINE n == Node(type, h, previous, content, cell)
<1>1. n \in NodesOver(B)
  BY NodeIn
<1>2. /\ n.type = type /\ n.header = h /\ n.previous = previous
      /\ n.persisted_as = cell
  BY NodeOf
<1>3. IsKnown(B, F, kind, n)
  <2> HIDE DEF n
  <2>. QED  BY <1>1, <1>2 DEF IsKnown, HasKind
<1>. QED  BY <1>3

LEMMA KnownOf ==
  ASSUME NEW B, NEW F, NEW kind, NEW n, IsKnown(B, F, kind, n)
  PROVE  /\ n.type \in Types /\ n.header \in Headers
         /\ n.previous \subseteq Links(B) /\ IsFiniteSet(n.previous)
         /\ n.content \in Contents \cup {NoContent}
         /\ n.persisted_as \in {{}} \cup {{c} : c \in DOMAIN B}
         /\ \A c \in n.persisted_as : Ref(n.header, c) \in F
         /\ \A l \in n.previous : IsLink(B, F, n.header, l)
         /\ n.header.name \subseteq DOMAIN kind /\ n.type = kind[n.header.id]
         /\ IsNamed(n.header) /\ HasEarlier(F, n.header)
         /\ n = Node(n.type, n.header, n.previous, n.content, n.persisted_as)
         /\ n.type # "ref"
<1>1. n \in NodesOver(B)
  BY DEF IsKnown
<1>2. /\ n.type \in Types /\ n.header \in Headers
      /\ n.previous \in SUBSET Links(B) /\ n.content \in Contents \cup {NoContent}
      /\ n.persisted_as \in {{}} \cup {{c} : c \in DOMAIN B}
      /\ n = Node(n.type, n.header, n.previous, n.content, n.persisted_as)
  BY <1>1, FieldsIn
<1>. QED  BY <1>2 DEF IsKnown, HasKind, Types

LEMMA SameKind ==
  ASSUME NEW B, NEW F, NEW kind, NEW other, NEW n, IsKnown(B, F, kind, n),
         \A k \in n.header.name : k \in DOMAIN other /\ other[k] = kind[k]
  PROVE  IsKnown(B, F, other, n)
<1>1. n.header.id \in n.header.name
  BY KnownOf, HeaderOf
<1>. QED  BY <1>1 DEF IsKnown, HasKind

(* Blocks and forests only grow.                                           *)
Grows(B, F, B2, F2) ==
  /\ DOMAIN B \subseteq DOMAIN B2 /\ \A c \in DOMAIN B : B2[c] = B[c]
  /\ F \subseteq F2

LEMMA KnownLater ==
  ASSUME NEW B, NEW F, NEW B2, NEW F2, NEW kind, NEW n,
         IsKnown(B, F, kind, n), Grows(B, F, B2, F2)
  PROVE  IsKnown(B2, F2, kind, n)
<1>1. NodesOver(B) \subseteq NodesOver(B2) /\ Links(B) \subseteq Links(B2)
  BY DEF NodesOver, Links, Grows
<1>2. \A l \in n.previous : l.cid \in DOMAIN B
  BY KnownOf, LinkOf
<1>3. ASSUME NEW l \in n.previous PROVE IsLink(B2, F2, n.header, l)
  <2>1. IsLink(B, F, n.header, l)
    BY KnownOf
  <2>. QED  BY <1>2, <2>1 DEF IsLink, Grows
<1>4. HasEarlier(F2, n.header)
  BY KnownOf DEF HasEarlier, Grows
<1>. QED  BY <1>1, <1>3, <1>4 DEF IsKnown, Grows

--------------------------------------------------------------------------------
(* Searching a forest.                                                     *)

LEMMA MoreThanOne ==
  ASSUME NEW S, IsFiniteSet(S)
  PROVE  Cardinality(S) > 1 <=> \E x, y \in S : x # y
<1>1. Cardinality(S) \in Nat
  BY FS_CardinalityType
<1>2. ASSUME NEW x \in S, NEW y \in S, x # y PROVE Cardinality(S) > 1
  <2>1. IsFiniteSet(S \ {x}) /\ Cardinality(S \ {x}) = Cardinality(S) - 1
    BY FS_RemoveElement
  <2>2. S \ {x} # {}
    BY <1>2
  <2>3. Cardinality(S \ {x}) # 0
    BY <2>1, <2>2, FS_EmptySet
  <2>4. Cardinality(S \ {x}) \in Nat
    BY <2>1, FS_CardinalityType
  <2>. QED  BY <1>1, <2>1, <2>3, <2>4
<1>3. ASSUME Cardinality(S) > 1 PROVE \E x, y \in S : x # y
  <2>1. S # {}
    BY <1>3, FS_EmptySet
  <2>2. PICK x : x \in S
    BY <2>1
  <2>3. Cardinality(S) # 1
    BY <1>1, <1>3
  <2>4. S # {x}
    BY <2>3, FS_Singleton
  <2>. QED  BY <2>2, <2>4
<1>. QED  BY <1>2, <1>3

LEMMA InForest ==
  ASSUME NEW B, NEW F, NEW kind, IsForest(B, F, kind), NEW r \in F
  PROVE  /\ r.type = "ref" /\ r.cid \in DOMAIN B
         /\ r = Ref(B[r.cid].header, r.cid) /\ r.label = B[r.cid].header
         /\ r.label \in Headers
         /\ IsKnown(B, F, kind, AsNode(B[r.cid], r.cid))
         /\ AreEntries(F, B[r.cid].type, B[r.cid].entries)
<1>1. /\ r.type = "ref" /\ r.cid \in DOMAIN B
      /\ r = Ref(B[r.cid].header, r.cid) /\ r.label = B[r.cid].header
  BY RefInForest DEF IsForest
<1>2. IsKnown(B, F, kind, AsNode(B[r.cid], r.cid))
  BY DEF IsForest
<1>3. AsNode(B[r.cid], r.cid).header = B[r.cid].header
  BY NodeOf DEF AsNode
<1>. QED  BY <1>1, <1>2, <1>3, KnownOf DEF IsForest

LEMMA RevisionsUsed ==
  ASSUME NEW B, NEW F, NEW kind, IsForest(B, F, kind), NEW h,
         NEW used, used = {r.label.rev : r \in Revisions(F, h)}
  PROVE  used \subseteq Nat /\ IsFiniteSet(used) /\ Cardinality(used) <= Cardinality(F)
<1> DEFINE R == Revisions(F, h)
           f == [r \in R |-> r.label.rev]
<1>1. R \subseteq F
  BY DEF Revisions
<1>2. IsFiniteSet(R) /\ Cardinality(R) <= Cardinality(F)
  BY <1>1, FS_Subset DEF IsForest
<1>3. f \in Surjection(R, used)
  BY DEF Surjection
<1>4. IsFiniteSet(used) /\ Cardinality(used) <= Cardinality(R)
  BY <1>2, <1>3, FS_Surjection
<1>5. \A r \in R : r.label.rev \in Nat
  BY <1>1, InForest, HeaderOf
<1>6. Cardinality(used) \in Nat /\ Cardinality(R) \in Nat /\ Cardinality(F) \in Nat
  BY <1>2, <1>4, FS_CardinalityType DEF IsForest
<1> HIDE DEF R
<1>. QED  BY <1>2, <1>4, <1>5, <1>6 DEF R

(* The ratchet comes to a revision that nothing is stored at.              *)
LEMMA FreeRevisionOf ==
  ASSUME NEW B, NEW F, NEW kind, IsForest(B, F, kind), NEW h \in Headers,
         NEW used, used = {r.label.rev : r \in Revisions(F, h)},
         NEW k, k = FreeRevision(F, h)
  PROVE  /\ k \in h.rev .. h.rev + Cardinality(F)
         /\ k \notin used /\ h.rev .. k - 1 \subseteq used
<1>1. used \subseteq Nat /\ IsFiniteSet(used) /\ Cardinality(used) <= Cardinality(F)
  BY RevisionsUsed
<1>2. h.rev \in Nat /\ Cardinality(F) \in Nat /\ Cardinality(used) \in Nat
  BY <1>1, HeaderOf, FS_CardinalityType DEF IsForest
<1> DEFINE n == Cardinality(F)
           J == h.rev .. h.rev + n
<1>3. IsFiniteSet(J) /\ Cardinality(J) = n + 1
  <2>1. h.rev \in Int /\ h.rev + n \in Int /\ ~(h.rev > h.rev + n)
        /\ (h.rev + n) - h.rev + 1 = n + 1
    BY <1>2
  <2> HIDE DEF n
  <2>. QED  BY <2>1, FS_Interval
<1>4. J \ used # {}
  <2>1. SUFFICES ASSUME J \in SUBSET used PROVE FALSE
    OBVIOUS
  <2>2. Cardinality(J) <= Cardinality(used)
    BY <1>1, <2>1, FS_Subset
  <2>. QED  BY <1>1, <1>2, <1>3, <2>2
<1>5. J \ used \subseteq Nat
  BY <1>2
<1>6. PICK j \in J \ used : \A m \in J \ used : j <= m
  <2> HIDE DEF J
  <2>. QED  BY <1>4, <1>5, LeastOf
<1>7. h.rev .. j - 1 \subseteq used
  BY <1>2, <1>6
<1>8. \E m \in J : m \notin used /\ h.rev .. m - 1 \subseteq used
  BY <1>6, <1>7
<1>. QED  BY <1>8 DEF FreeRevision

(* What a search finds.                                                    *)
IsFound(B, F, h, free, c) ==
  /\ c \in DOMAIN B /\ B[c].header \in Headers /\ Ref(B[c].header, c) \in F
  /\ B[c].header.id = h.id /\ B[c].header.name = h.name
  /\ B[c].header.rev \in h.rev .. free - 1

LEMMA FoundAre ==
  ASSUME NEW B, NEW F, NEW kind, IsForest(B, F, kind), NEW h \in Headers
  PROVE  /\ \A c \in FoundFrom(F, h) : IsFound(B, F, h, FreeRevision(F, h), c)
         /\ IsFiniteSet(FoundFrom(F, h))
<1> DEFINE free == FreeRevision(F, h)
           R == {s \in Revisions(F, h) : s.label.rev \in h.rev .. free - 1}
           f == [r \in F |-> r.cid]
<1>1. R \subseteq F
  BY DEF Revisions
<1>2. FoundFrom(F, h) = {f[r] : r \in R}
  BY <1>1 DEF FoundFrom
<1>3. IsFiniteSet(R)
  BY <1>1, FS_Subset DEF IsForest
<1>4. IsFiniteSet(FoundFrom(F, h))
  <2> HIDE DEF R, f
  <2>. QED  BY <1>2, <1>3, ValuesOf
<1>5. ASSUME NEW r \in R PROVE IsFound(B, F, h, free, r.cid)
  <2>1. /\ r \in F /\ r.label.id = h.id /\ r.label.name = h.name
        /\ r.label.rev \in h.rev .. free - 1
    BY DEF Revisions
  <2> HIDE DEF R, free
  <2>2. /\ r.cid \in DOMAIN B /\ r = Ref(B[r.cid].header, r.cid)
        /\ r.label = B[r.cid].header /\ r.label \in Headers
    BY <2>1, InForest
  <2>. QED  BY <2>1, <2>2 DEF IsFound
<1>. QED  BY <1>1, <1>2, <1>4, <1>5

(* A link that a search follows leads to an earlier revision.              *)
LEMMA LinkGoesBack ==
  ASSUME NEW B, NEW F, NEW kind, IsForest(B, F, kind), NEW h \in Headers,
         NEW c \in FoundFrom(F, h), NEW d \in FoundFrom(F, h),
         NEW l \in B[d].previous, l.cid = c
  PROVE  B[c].header.rev < B[d].header.rev
<1>1. PICK free : free = FreeRevision(F, h)
  OBVIOUS
<1>2. IsFound(B, F, h, free, d) /\ IsFound(B, F, h, free, c)
  BY <1>1, FoundAre
<1>3. IsKnown(B, F, kind, AsNode(B[d], d))
  <2>1. Ref(B[d].header, d).cid = d
    BY RefOf
  <2>. QED  BY <1>2, <2>1 DEF IsFound, IsForest
<1>4. AsNode(B[d], d).previous = B[d].previous /\ AsNode(B[d], d).header = B[d].header
  BY NodeOf DEF AsNode
<1>5. IsLink(B, F, B[d].header, l)
  BY <1>3, <1>4, KnownOf
<1>6. l.key[1] = B[d].header.id
  BY <1>2, <1>5 DEF IsLink, IsFound, TemporalKey
<1>7. /\ l.back \in 1 .. B[d].header.rev
      /\ Ref(AtRevision(B[d].header, B[d].header.rev - l.back), c) \in F
  BY <1>5, <1>6 DEF IsLink
<1>8. B[c].header = AtRevision(B[d].header, B[d].header.rev - l.back)
  BY <1>7, InForest, RefOf
<1>9. B[d].header \in Headers /\ B[d].header.rev \in Nat
  BY <1>2, HeaderOf DEF IsFound
<1>10. B[c].header.rev = B[d].header.rev - l.back
  BY <1>8 DEF AtRevision, Header
<1>. QED  BY <1>7, <1>9, <1>10

(* The latest of what is found is linked to by nothing that is found.      *)
LEMMA SomeHead ==
  ASSUME NEW B, NEW F, NEW kind, IsForest(B, F, kind), NEW h \in Headers,
         Multivalue(F, h) # {}
  PROVE  /\ UnmergedHeads(F, B, h) \subseteq FoundFrom(F, h)
         /\ UnmergedHeads(F, B, h) # {}
         /\ IsFiniteSet(UnmergedHeads(F, B, h))
         /\ FreeRevision(F, h) \in Nat
<1> DEFINE free == FreeRevision(F, h)
           used == {r.label.rev : r \in Revisions(F, h)}
           found == FoundFrom(F, h)
           rev == [c \in found |-> B[c].header.rev]
           revs == {rev[c] : c \in found}
<1>1. h.rev \in Nat /\ Cardinality(F) \in Nat
  BY HeaderOf, FS_CardinalityType DEF IsForest
<1>2. /\ free \in h.rev .. h.rev + Cardinality(F)
      /\ free \notin used /\ h.rev .. free - 1 \subseteq used
  BY FreeRevisionOf
<1>3. free \in Nat
  BY <1>1, <1>2
<1>4. \A c \in found : IsFound(B, F, h, free, c)
  BY FoundAre
<1>5. IsFiniteSet(found)
  BY FoundAre
<1>6. PICK r \in F : r.label = h
  BY DEF Multivalue
<1>7. r.cid \in found
  <2>1. r \in Revisions(F, h)
    BY <1>6 DEF Revisions
  <2>2. r.label.rev \in used
    BY <2>1
  <2>3. h.rev \in used
    BY <1>6, <2>2
  <2>4. h.rev # free
    BY <1>2, <2>3
  <2>5. h.rev \in h.rev .. free - 1
    BY <1>1, <1>2, <2>4
  <2>. QED  BY <1>6, <2>1, <2>5 DEF FoundFrom
<1>8. revs \subseteq Nat /\ revs # {} /\ IsFiniteSet(revs)
  <2>1. \A c \in found : B[c].header.rev \in Nat
    BY <1>4, HeaderOf DEF IsFound
  <2> HIDE DEF found
  <2>2. revs \subseteq Nat
    BY <2>1
  <2>3. rev[r.cid] \in revs
    BY <1>7
  <2>4. IsFiniteSet(revs)
    <3> HIDE DEF rev
    <3>. QED  BY <1>5, ValuesOf
  <2>. QED  BY <2>2, <2>3, <2>4
<1>9. PICK n \in revs : \A m \in revs : m <= n
  <2> HIDE DEF revs
  <2>. QED  BY <1>8, GreatestOf
<1>10. PICK c \in found : n = rev[c]
  OBVIOUS
<1>11. ASSUME NEW d \in found, NEW l \in LinksWithin(B, d, h.rev), l.cid = c
       PROVE  FALSE
  <2>1. l \in B[d].previous
    BY DEF LinksWithin
  <2>2. B[c].header.rev < B[d].header.rev
    BY <1>11, <2>1, LinkGoesBack
  <2>3. rev[d] <= rev[c]
    BY <1>9, <1>10
  <2>4. B[c].header.rev \in Nat /\ B[d].header.rev \in Nat
    BY <1>4, HeaderOf DEF IsFound
  <2>. QED  BY <2>2, <2>3, <2>4
<1>12. c \in UnmergedHeads(F, B, h)
  BY <1>11 DEF UnmergedHeads
<1>13. UnmergedHeads(F, B, h) \subseteq found
  BY DEF UnmergedHeads
<1>. QED  BY <1>3, <1>5, <1>12, <1>13, FS_Subset

(* The first free revision is after others only.                           *)
LEMMA FreeHasEarlier ==
  ASSUME NEW B, NEW F, NEW kind, IsForest(B, F, kind), NEW h \in Headers,
         Multivalue(F, h) # {}
  PROVE  HasEarlier(F, AtRevision(h, FreeRevision(F, h)))
<1> DEFINE used == {r.label.rev : r \in Revisions(F, h)}
<1>1. PICK free : free = FreeRevision(F, h)
  OBVIOUS
<1>2. free \in h.rev .. h.rev + Cardinality(F) /\ h.rev .. free - 1 \subseteq used
  BY <1>1, FreeRevisionOf
<1>3. HasEarlier(F, h)
  <2>1. PICK r \in F : r.label = h
    BY DEF Multivalue
  <2>2. IsKnown(B, F, kind, AsNode(B[r.cid], r.cid)) /\ r.label = B[r.cid].header
    BY InForest
  <2>3. AsNode(B[r.cid], r.cid).header = h
    BY <2>1, <2>2, NodeOf DEF AsNode
  <2>. QED  BY <2>2, <2>3, KnownOf
<1>4. h.rev \in Nat /\ Cardinality(F) \in Nat
  BY HeaderOf, FS_CardinalityType DEF IsForest
<1>5. ASSUME NEW k \in 0 .. free - 1 PROVE \E r \in F : r.label = AtRevision(h, k)
  <2>1. CASE k < h.rev
    <3>1. k \in 0 .. h.rev - 1
      BY <1>2, <1>4, <2>1
    <3>. QED  BY <1>3, <3>1 DEF HasEarlier
  <2>2. CASE ~(k < h.rev)
    <3>1. k \in used
      <4>1. k \in h.rev .. free - 1
        BY <1>2, <1>4, <2>2
      <4> HIDE DEF used
      <4>. QED  BY <1>2, <4>1
    <3>2. PICK r \in Revisions(F, h) : r.label.rev = k
      BY <3>1
    <3>3. r \in F /\ r.label.id = h.id /\ r.label.name = h.name
      BY DEF Revisions
    <3>4. r.label \in Headers
      BY <3>3, InForest
    <3>5. r.label = Header(h.id, k, h.name)
      BY <3>2, <3>3, <3>4, HeaderOf
    <3>. QED  BY <3>3, <3>5 DEF AtRevision
  <2>. QED  BY <2>1, <2>2
<1>6. PICK g : g = AtRevision(h, free)
  OBVIOUS
<1>7. g.rev = free /\ \A k : AtRevision(g, k) = AtRevision(h, k)
  BY <1>6 DEF AtRevision, Header
<1>8. HasEarlier(F, g)
  BY <1>5, <1>7 DEF HasEarlier
<1>. QED  BY <1>1, <1>6, <1>8

(* CIDs are ordered, and some have a lowest.                               *)
LEMMA LowestOf ==
  ASSUME NEW S, S \subseteq Nat \X Nat, S # {}
  PROVE  LowestCid(S) \in S /\ \A d \in S \ {LowestCid(S)} : CidLess(LowestCid(S), d)
<1> DEFINE Upper == {c[1] : c \in S}
<1>1. Upper \subseteq Nat /\ Upper # {}
  OBVIOUS
<1>2. PICK u \in Upper : \A v \in Upper : u <= v
  <2> HIDE DEF Upper
  <2>. QED  BY <1>1, LeastOf
<1> DEFINE Lower == {c[2] : c \in {d \in S : d[1] = u}}
<1>3. Lower \subseteq Nat /\ Lower # {}
  BY <1>2
<1>4. PICK w \in Lower : \A v \in Lower : w <= v
  <2> HIDE DEF Lower
  <2>. QED  BY <1>3, LeastOf
<1>5. PICK c \in S : c[1] = u /\ c[2] = w
  BY <1>4
<1>6. ASSUME NEW d \in S \ {c} PROVE CidLess(c, d)
  <2>1. c = <<c[1], c[2]>> /\ d = <<d[1], d[2]>> /\ c[1] \in Nat /\ d[1] \in Nat
        /\ c[2] \in Nat /\ d[2] \in Nat
    OBVIOUS
  <2>2. c[1] <= d[1]
    BY <1>2, <1>5
  <2>3. d[1] = u => w <= d[2]
    BY <1>4
  <2>4. c[1] # d[1] \/ c[2] # d[2]
    BY <2>1
  <2>. QED  BY <1>5, <2>1, <2>2, <2>3, <2>4 DEF CidLess
<1>7. \E b \in S : \A d \in S \ {b} : CidLess(b, d)
  BY <1>6
<1>. QED  BY <1>7 DEF LowestCid

(* Links that are moved along with the ratchet.                            *)
LEMMA FartherLinks ==
  ASSUME NEW B, NEW F, NEW h \in Headers, NEW to \in Nat, h.rev <= to,
         NEW links, links \subseteq Links(B), IsFiniteSet(links),
         \A l \in links : IsLink(B, F, h, l),
         NEW n, n = to - h.rev
  PROVE  /\ Farther(links, n) \subseteq Links(B) /\ IsFiniteSet(Farther(links, n))
         /\ \A l \in Farther(links, n) : IsLink(B, F, AtRevision(h, to), l)
         /\ Cardinality(links) > 1 => Cardinality(Farther(links, n)) > 1
<1> DEFINE f == [l \in links |-> Link(l.back + n, l.cid, l.key)]
           g == AtRevision(h, to)
<1>1. h.rev \in Nat /\ n \in Nat /\ g.id = h.id /\ g.rev = to
  BY HeaderOf DEF AtRevision, Header
<1>2. Farther(links, n) = {f[l] : l \in links}
  BY DEF Farther
<1>3. IsFiniteSet(Farther(links, n))
  <2> HIDE DEF f
  <2>. QED  BY <1>2, ValuesOf
<1>4. ASSUME NEW l \in links
      PROVE  /\ f[l] \in Links(B) /\ IsLink(B, F, g, f[l])
             /\ f[l].back = l.back + n /\ f[l].cid = l.cid /\ f[l].key = l.key
  <2>1. l.back \in Nat /\ l.cid \in DOMAIN B /\ l.key \in Nat \X Nat
    BY LinkOf
  <2>2. /\ f[l] \in Links(B) /\ f[l].back = l.back + n
        /\ f[l].cid = l.cid /\ f[l].key = l.key
    <3>1. l.back + n \in Nat
      BY <1>1, <2>1
    <3> DEFINE m == l.back + n
    <3>2. m \in Nat /\ f[l] = Link(m, l.cid, l.key)
      BY <3>1
    <3> HIDE DEF m, f
    <3>3. /\ f[l] \in Links(B) /\ f[l].back = m
          /\ f[l].cid = l.cid /\ f[l].key = l.key
      BY <2>1, <3>2, LinkIn
    <3>. QED  BY <3>3 DEF m
  <2>3. IsLink(B, F, h, l)
    OBVIOUS
  <2>4. ASSUME l.key[1] = h.id
        PROVE  /\ l.back + n \in 1 .. to
               /\ Ref(AtRevision(g, to - (l.back + n)), l.cid) \in F
    <3>1. l.back \in 1 .. h.rev /\ Ref(AtRevision(h, h.rev - l.back), l.cid) \in F
      BY <2>3, <2>4 DEF IsLink
    <3>2. to - (l.back + n) = h.rev - l.back /\ l.back + n \in 1 .. to
      BY <1>1, <3>1
    <3>3. AtRevision(g, to - (l.back + n)) = AtRevision(h, h.rev - l.back)
      BY <3>2, HeaderOf
    <3>. QED  BY <3>1, <3>2, <3>3
  <2> HIDE DEF f, g
  <2>. QED  BY <1>1, <2>2, <2>3, <2>4 DEF IsLink
<1>5. ASSUME Cardinality(links) > 1 PROVE Cardinality(Farther(links, n)) > 1
  <2>1. PICK x \in links, y \in links : x # y
    BY <1>5, MoreThanOne
  <2>2. /\ x = Link(x.back, x.cid, x.key) /\ y = Link(y.back, y.cid, y.key)
        /\ x.back \in Nat /\ y.back \in Nat
    BY LinkOf
  <2>3. f[x] # f[y]
    <3> SUFFICES ASSUME f[x] = f[y] PROVE FALSE
      OBVIOUS
    <3>1. x.back + n = y.back + n /\ x.cid = y.cid /\ x.key = y.key
      BY <1>4
    <3>. QED  BY <1>1, <2>1, <2>2, <3>1
  <2> HIDE DEF f
  <2>. QED  BY <1>2, <1>3, <2>3, MoreThanOne
<1> HIDE DEF f
<1>. QED  BY <1>2, <1>3, <1>4, <1>5

--------------------------------------------------------------------------------
(* Merging what a search finds.                                            *)

LEMMA FoundNode ==
  ASSUME NEW B, NEW F, NEW kind, IsForest(B, F, kind), NEW h \in Headers,
         NEW free \in Nat, NEW c, IsFound(B, F, h, free, c)
  PROVE  /\ c \in DOMAIN B
         /\ IsKnown(B, F, kind, AsNode(B[c], c))
         /\ AreEntries(F, B[c].type, B[c].entries)
         /\ AsNode(B[c], c).header = B[c].header /\ AsNode(B[c], c).type = B[c].type
         /\ AsNode(B[c], c).previous = B[c].previous
         /\ AsNode(B[c], c).content = B[c].content
         /\ B[c].type = kind[h.id] /\ h.name \subseteq DOMAIN kind
         /\ IsNamed(h) /\ HasEarlier(F, B[c].header)
         /\ B[c].header \in Headers
         /\ B[c].header.rev \in Nat /\ B[c].header.rev < free
         /\ AtRevision(B[c].header, free) = AtRevision(h, free)
<1>1. Ref(B[c].header, c).cid = c
  BY RefOf
<1>2. /\ IsKnown(B, F, kind, AsNode(B[c], c))
      /\ AreEntries(F, B[c].type, B[c].entries)
  BY <1>1 DEF IsFound, IsForest
<1>3. /\ AsNode(B[c], c).header = B[c].header /\ AsNode(B[c], c).type = B[c].type
      /\ AsNode(B[c], c).previous = B[c].previous
      /\ AsNode(B[c], c).content = B[c].content
  BY NodeOf DEF AsNode
<1>4. /\ B[c].type = kind[h.id] /\ h.name \subseteq DOMAIN kind
      /\ IsNamed(h) /\ HasEarlier(F, B[c].header)
  BY <1>2, <1>3, KnownOf DEF IsFound, IsNamed
<1>5. h.rev \in Nat /\ B[c].header.rev \in Nat
  BY HeaderOf DEF IsFound
<1>6. AtRevision(B[c].header, free) = AtRevision(h, free)
  BY DEF IsFound, AtRevision
<1>. QED  BY <1>2, <1>3, <1>4, <1>5, <1>6 DEF IsFound

LEMMA LinkToFound ==
  ASSUME NEW B, NEW F, NEW kind, IsForest(B, F, kind), NEW h \in Headers,
         NEW free \in Nat, NEW c, IsFound(B, F, h, free, c),
         NEW target, target = AtRevision(h, free),
         NEW l, l = Link(target.rev - B[c].header.rev, c, TemporalKey(B[c].header))
  PROVE  l \in Links(B) /\ IsLink(B, F, target, l) /\ l.cid = c
<1> DEFINE n == free - B[c].header.rev
<1>1. target.rev = free /\ target.id = h.id
  BY DEF AtRevision, Header
<1>2. /\ c \in DOMAIN B /\ B[c].header \in Headers
      /\ B[c].header.rev \in Nat /\ B[c].header.rev < free
      /\ AtRevision(B[c].header, free) = target
  BY FoundNode
<1>3. n \in 1 .. free /\ free - n = B[c].header.rev /\ n \in Nat
  BY <1>2
<1>4. TemporalKey(B[c].header) \in Nat \X Nat
  BY <1>2, HeaderOf
<1>5. AtRevision(target, free - n) = B[c].header
  <2>1. AtRevision(target, free - n) = AtRevision(B[c].header, B[c].header.rev)
    BY <1>2, <1>3 DEF AtRevision, Header
  <2>. QED  BY <1>2, <2>1, HeaderOf
<1>6. l = Link(n, c, TemporalKey(B[c].header))
  BY <1>1
<1>7. Ref(B[c].header, c) \in F
  BY DEF IsFound
<1> HIDE DEF n
<1>8. /\ l \in Links(B) /\ l.back = n /\ l.cid = c
      /\ l.key = TemporalKey(B[c].header)
  BY <1>2, <1>3, <1>4, <1>6, LinkIn
<1>. QED  BY <1>1, <1>3, <1>5, <1>7, <1>8 DEF IsLink

(* What was merged so far: at first a node as it was stored, then one at   *)
(* the target, with a link to each of the merged ones at least.            *)
IsMerging(B, F, kind, first, target, our) ==
  /\ IsKnown(B, F, kind, our.node)
  /\ AreEntries(F, our.node.type, our.entries)
  /\ our.node.header.id = target.id
  /\ \/ our.node = AsNode(B[first], first)
     \/ our.node.header = target /\ Cardinality(our.node.previous) > 1

LEMMA ReadyToMerge ==
  ASSUME NEW B, NEW F, NEW kind, IsForest(B, F, kind), NEW h \in Headers,
         NEW free \in Nat, NEW target, target = AtRevision(h, free),
         NEW first, IsFound(B, F, h, free, first),
         NEW our, IsMerging(B, F, kind, first, target, our),
         NEW ready, ready = PrepareNextMerge(our.node, first, target)
  PROVE  /\ ready.type = our.node.type /\ ready.content = our.node.content
         /\ ready.previous \subseteq Links(B) /\ IsFiniteSet(ready.previous)
         /\ \A l \in ready.previous : IsLink(B, F, target, l)
         /\ \/ Cardinality(ready.previous) > 1
            \/ \E l \in ready.previous : l.cid = first
<1> DEFINE n == target.rev - our.node.header.rev
           far == Farther(our.node.previous, n)
           one == Link(n, first, TemporalKey(our.node.header))
           links == IF Cardinality(our.node.previous) > 1 THEN far ELSE {one}
<1>1. ready = Node(our.node.type, target, links, our.node.content, {})
  BY DEF PrepareNextMerge
<1>2. /\ ready.type = our.node.type /\ ready.content = our.node.content
      /\ ready.previous = links
  <2> HIDE DEF links
  <2>. QED  BY <1>1, NodeOf
<1>3. target \in Headers /\ target.rev = free /\ AtRevision(target, free) = target
  BY HeaderOf DEF AtRevision, Header
<1>4. /\ our.node.previous \subseteq Links(B) /\ IsFiniteSet(our.node.previous)
      /\ \A l \in our.node.previous : IsLink(B, F, our.node.header, l)
  BY KnownOf DEF IsMerging
<1>5. CASE our.node = AsNode(B[first], first)
  <2>1. /\ our.node.header = B[first].header /\ B[first].header \in Headers
        /\ B[first].header.rev \in Nat /\ B[first].header.rev < free
        /\ AtRevision(B[first].header, free) = target
    BY <1>5, FoundNode
  <2>2. CASE Cardinality(our.node.previous) > 1
    <3>1. /\ far \subseteq Links(B) /\ IsFiniteSet(far)
          /\ \A l \in far : IsLink(B, F, target, l)
          /\ Cardinality(far) > 1
      <4>1. our.node.header \in Headers /\ our.node.header.rev <= free
            /\ n = free - our.node.header.rev
            /\ AtRevision(our.node.header, free) = target
        BY <1>3, <2>1
      <4> HIDE DEF n
      <4>. QED  BY <1>4, <2>2, <4>1, FartherLinks
    <3> HIDE DEF far, one
    <3>. QED  BY <1>2, <2>2, <3>1
  <2>3. CASE ~(Cardinality(our.node.previous) > 1)
    <3>1. one = Link(target.rev - B[first].header.rev, first, TemporalKey(B[first].header))
      BY <2>1
    <3>2. one \in Links(B) /\ IsLink(B, F, target, one) /\ one.cid = first
      <4> HIDE DEF one
      <4>. QED  BY <3>1, LinkToFound
    <3>3. IsFiniteSet({one})
      BY FS_Singleton
    <3> HIDE DEF far, one
    <3>. QED  BY <1>2, <2>3, <3>2, <3>3
  <2>. QED  BY <2>2, <2>3
<1>6. CASE our.node.header = target /\ Cardinality(our.node.previous) > 1
  <2>1. n = free - target.rev /\ target.rev <= free
    BY <1>3, <1>6
  <2>2. /\ far \subseteq Links(B) /\ IsFiniteSet(far)
        /\ \A l \in far : IsLink(B, F, target, l)
        /\ Cardinality(far) > 1
    <3>1. \A l \in our.node.previous : IsLink(B, F, target, l)
      BY <1>4, <1>6
    <3> HIDE DEF n
    <3>. QED  BY <1>3, <1>4, <1>6, <2>1, <3>1, FartherLinks
  <2> HIDE DEF far, one
  <2>. QED  BY <1>2, <1>6, <2>2
<1>. QED  BY <1>5, <1>6 DEF IsMerging

LEMMA MergedLinks ==
  ASSUME NEW B, NEW F, NEW kind, IsForest(B, F, kind), NEW h \in Headers,
         NEW free \in Nat, NEW target, target = AtRevision(h, free),
         NEW first, NEW c, c # first, IsFound(B, F, h, free, c),
         NEW ready, ready.previous \subseteq Links(B), IsFiniteSet(ready.previous),
         \A l \in ready.previous : IsLink(B, F, target, l),
         Cardinality(ready.previous) > 1 \/ \E l \in ready.previous : l.cid = first,
         NEW links, links = MergedPrevious(ready, B[c], c, target)
  PROVE  /\ links \subseteq Links(B) /\ IsFiniteSet(links)
         /\ \A l \in links : IsLink(B, F, target, l)
         /\ Cardinality(links) > 1
<1> DEFINE n == target.rev - B[c].header.rev
           far == Farther(B[c].previous, n)
           one == Link(n, c, TemporalKey(B[c].header))
<1>1. /\ links = ready.previous \cup
                   IF Cardinality(ready.previous) > 1 THEN far ELSE {one}
      /\ target.rev = free
  BY DEF MergedPrevious, AtRevision, Header
<1>2. one \in Links(B) /\ IsLink(B, F, target, one) /\ one.cid = c
  <2>1. PICK l : l = one
    OBVIOUS
  <2> HIDE DEF one
  <2>. QED  BY <2>1, LinkToFound DEF one
<1>3. /\ far \subseteq Links(B) /\ IsFiniteSet(far)
      /\ \A l \in far : IsLink(B, F, target, l)
  <2>1. /\ IsKnown(B, F, kind, AsNode(B[c], c)) /\ B[c].header \in Headers
        /\ AsNode(B[c], c).previous = B[c].previous
        /\ AsNode(B[c], c).header = B[c].header
        /\ AtRevision(B[c].header, free) = target
        /\ B[c].header.rev <= free
    BY FoundNode
  <2>2. /\ B[c].previous \subseteq Links(B) /\ IsFiniteSet(B[c].previous)
        /\ \A l \in B[c].previous : IsLink(B, F, B[c].header, l)
    BY <2>1, KnownOf
  <2>3. n = free - B[c].header.rev
    BY <1>1
  <2> HIDE DEF n
  <2>. QED  BY <2>1, <2>2, <2>3, FartherLinks
<1>4. IsFiniteSet({one})
  BY FS_Singleton
<1> HIDE DEF far, one
<1>5. links \subseteq Links(B) /\ \A l \in links : IsLink(B, F, target, l)
  BY <1>1, <1>2, <1>3
<1>6. IsFiniteSet(links)
  <2>1. IsFiniteSet(ready.previous \cup far) /\ IsFiniteSet(ready.previous \cup {one})
    BY <1>3, <1>4, FS_Union
  <2>. QED  BY <1>1, <2>1
<1>7. \E x, y \in links : x # y
  <2>1. CASE Cardinality(ready.previous) > 1
    <3>1. \E x, y \in ready.previous : x # y
      BY <2>1, MoreThanOne
    <3>. QED  BY <1>1, <3>1
  <2>2. CASE ~(Cardinality(ready.previous) > 1)
    <3>1. PICK l \in ready.previous : l.cid = first
      BY <2>2
    <3>2. one # l
      BY <1>2, <3>1
    <3>. QED  BY <1>1, <2>2, <3>1, <3>2
  <2>. QED  BY <2>1, <2>2
<1>. QED  BY <1>5, <1>6, <1>7, MoreThanOne

LEMMA MergedEntriesOf ==
  ASSUME NEW B, NEW F, NEW type, NEW ours, NEW others,
         AreEntries(F, type, ours), AreEntries(F, type, others)
  PROVE  AreEntries(F, type, MergedEntries(B, ours, others))
<1> DEFINE es == MergedEntries(B, ours, others)
<1>1. /\ DOMAIN es = DOMAIN ours \cup DOMAIN others
      /\ es = [n \in DOMAIN es |-> es[n]]
  BY DEF MergedEntries
<1>2. ASSUME NEW n \in DOMAIN es PROVE es[n] \in F
  <2>1. es[n] = IF n \notin DOMAIN ours THEN others[n]
                ELSE IF n \notin DOMAIN others THEN ours[n]
                ELSE WinningEntry(B, ours[n], others[n])
    BY DEF MergedEntries
  <2>2. WinningEntry(B, ours[n], others[n]) \in {ours[n], others[n]}
    BY DEF WinningEntry
  <2> HIDE DEF es
  <2>. QED  BY <1>1, <2>1, <2>2 DEF AreEntries
<1>3. /\ IsFiniteSet(DOMAIN ours) /\ IsFiniteSet(DOMAIN others)
      /\ DOMAIN ours \subseteq Names /\ DOMAIN others \subseteq Names
      /\ type = "file" => DOMAIN ours = {} /\ DOMAIN others = {}
  BY DEF AreEntries
<1>4. IsFiniteSet(DOMAIN ours \cup DOMAIN others)
  BY <1>3, FS_Union
<1> HIDE DEF es
<1>5. /\ IsFiniteSet(DOMAIN es) /\ DOMAIN es \subseteq Names
      /\ type = "file" => DOMAIN es = {}
  BY <1>1, <1>3, <1>4
<1>6. AreEntries(F, type, es)
  BY <1>1, <1>2, <1>5 DEF AreEntries
<1>. QED  BY <1>6 DEF es

LEMMA MergedOne ==
  ASSUME NEW B, NEW F, NEW kind, IsForest(B, F, kind), NEW h \in Headers,
         NEW free \in Nat, NEW target, target = AtRevision(h, free),
         NEW first, IsFound(B, F, h, free, first),
         NEW c, c # first, IsFound(B, F, h, free, c),
         NEW our, IsMerging(B, F, kind, first, target, our), HasEarlier(F, target)
  PROVE  /\ IsMerging(B, F, kind, first, target, MergedWith(B, our, first, c, target))
         /\ MergedWith(B, our, first, c, target).entries =
              MergedEntries(B, our.entries, B[c].entries)
<1>1. PICK ready : ready = PrepareNextMerge(our.node, first, target)
  OBVIOUS
<1>2. /\ ready.type = our.node.type /\ ready.content = our.node.content
      /\ ready.previous \subseteq Links(B) /\ IsFiniteSet(ready.previous)
      /\ \A l \in ready.previous : IsLink(B, F, target, l)
      /\ \/ Cardinality(ready.previous) > 1
         \/ \E l \in ready.previous : l.cid = first
  BY <1>1, ReadyToMerge
<1>3. PICK links : links = MergedPrevious(ready, B[c], c, target)
  OBVIOUS
<1>4. /\ links \subseteq Links(B) /\ IsFiniteSet(links)
      /\ \A l \in links : IsLink(B, F, target, l)
      /\ Cardinality(links) > 1
  BY <1>2, <1>3, MergedLinks
<1>5. /\ target \in Headers /\ target.id = h.id /\ target.name = h.name
  BY HeaderOf DEF AtRevision, Header
<1>6. /\ IsKnown(B, F, kind, AsNode(B[c], c))
      /\ AreEntries(F, B[c].type, B[c].entries)
      /\ AsNode(B[c], c).content = B[c].content
      /\ B[c].type = kind[h.id] /\ h.name \subseteq DOMAIN kind
      /\ IsNamed(h)
  BY FoundNode
<1>7. /\ our.node.type \in Types /\ our.node.content \in Contents \cup {NoContent}
      /\ our.node.type = kind[h.id]
  BY <1>5, KnownOf DEF IsMerging
<1>8. PICK content : content = MergedContent(ready, B[c])
  OBVIOUS
<1>9. content \in Contents \cup {NoContent}
  <2>1. B[c].content \in Contents \cup {NoContent}
    BY <1>6, KnownOf
  <2>. QED  BY <1>2, <1>7, <1>8, <2>1 DEF MergedContent
<1>10. PICK node : node = Node(ready.type, target, links, content, {})
  OBVIOUS
<1>11. IsKnown(B, F, kind, node)
  <2>1. IsNamed(target)
    BY <1>5, <1>6 DEF IsNamed
  <2>. QED  BY <1>2, <1>4, <1>5, <1>6, <1>7, <1>9, <1>10, <2>1, KnownIf
<1>12. node.type = our.node.type /\ node.header = target /\ node.previous = links
  BY <1>2, <1>10, NodeOf
<1>13. PICK entries : entries = MergedEntries(B, our.entries, B[c].entries)
  OBVIOUS
<1>14. AreEntries(F, node.type, entries)
  BY <1>6, <1>7, <1>12, <1>13, MergedEntriesOf DEF IsMerging
<1>15. MergedWith(B, our, first, c, target) = [node |-> node, entries |-> entries]
  BY <1>1, <1>3, <1>6, <1>7, <1>8, <1>10, <1>13 DEF MergedWith
<1>. QED  BY <1>4, <1>11, <1>12, <1>13, <1>14, <1>15 DEF IsMerging

(* The entries are those of the merged nodes.                              *)
Gathered(B, merged, entries) ==
  /\ DOMAIN entries = UNION {DOMAIN B[c].entries : c \in merged}
  /\ \A n \in DOMAIN entries :
       \E c \in merged : n \in DOMAIN B[c].entries /\ entries[n] = B[c].entries[n]

LEMMA GatheredOne ==
  ASSUME NEW B, NEW merged, NEW ours, Gathered(B, merged, ours), NEW c
  PROVE  Gathered(B, merged \cup {c}, MergedEntries(B, ours, B[c].entries))
<1> DEFINE others == B[c].entries
           es == MergedEntries(B, ours, others)
<1>1. DOMAIN es = DOMAIN ours \cup DOMAIN others
  BY DEF MergedEntries
<1>2. ASSUME NEW n \in DOMAIN es
      PROVE  \E x \in merged \cup {c} : n \in DOMAIN B[x].entries /\ es[n] = B[x].entries[n]
  <2>1. es[n] = IF n \notin DOMAIN ours THEN others[n]
                ELSE IF n \notin DOMAIN others THEN ours[n]
                ELSE WinningEntry(B, ours[n], others[n])
    BY DEF MergedEntries
  <2>2. WinningEntry(B, ours[n], others[n]) \in {ours[n], others[n]}
    BY DEF WinningEntry
  <2>3. \/ n \in DOMAIN ours /\ es[n] = ours[n]
        \/ n \in DOMAIN others /\ es[n] = others[n]
    <3> HIDE DEF es, others
    <3>. QED  BY <1>1, <2>1, <2>2
  <2>. QED  BY <2>3 DEF Gathered
<1>3. DOMAIN es = UNION {DOMAIN B[x].entries : x \in merged \cup {c}}
  BY <1>1 DEF Gathered
<1> HIDE DEF es
<1>4. Gathered(B, merged \cup {c}, es)
  BY <1>2, <1>3 DEF Gathered
<1>. QED  BY <1>4 DEF es

(* MergeOf, one node after the other.                                      *)
MergeStart(B, heads) ==
  [our |-> AsStored(B, LowestCid(heads)), left |-> heads \ {LowestCid(heads)}]

MergeNext(B, heads, target, so) ==
  [our  |-> MergedWith(B, so.our, LowestCid(heads), LowestCid(so.left), target),
   left |-> so.left \ {LowestCid(so.left)}]

LEMMA MergeSteps ==
  ASSUME NEW B, NEW heads, NEW target, NEW K \in Nat, K = Cardinality(heads) - 1
  PROVE  \E merged :
           /\ merged[0] = MergeStart(B, heads)
           /\ \A n \in 0 .. K - 1 :
                merged[n + 1] = MergeNext(B, heads, target, merged[n])
           /\ MergeOf(B, heads, target) = merged[K].our
<1> DEFINE Start == MergeStart(B, heads)
           Then(so) == MergeNext(B, heads, target, so)
           G(m, i) == [n \in 0 .. i |-> IF n = 0 THEN Start ELSE Then(m[n - 1])]
           merged == CHOOSE m : m = G(m, K)
<1>1. MergeOf(B, heads, target) = merged[K].our
  BY DEF MergeOf, MergeStart, MergeNext
<1> HIDE DEF Start, Then
<1>2. \E m : m = G(m, K)
  <2> DEFINE S == {i \in Nat : \E m : m = G(m, i)}
  <2>1. 0 \in S
    <3> DEFINE m == [n \in 0 .. 0 |-> Start]
    <3>1. m = G(m, 0)
      OBVIOUS
    <3>. QED  BY <3>1
  <2>2. ASSUME NEW i \in 0 .. K - 1, i \in S PROVE i + 1 \in S
    <3>1. PICK m : m = G(m, i)
      BY <2>2
    <3> DEFINE o == [n \in 0 .. i + 1 |-> IF n = i + 1 THEN Then(m[i]) ELSE m[n]]
    <3>2. ASSUME NEW n \in 0 .. i + 1
          PROVE  o[n] = IF n = 0 THEN Start ELSE Then(o[n - 1])
      <4>1. CASE n = i + 1
        BY <4>1
      <4>2. CASE n # i + 1
        <5>1. n \in 0 .. i /\ o[n] = m[n] /\ (n # 0 => o[n - 1] = m[n - 1])
          BY <4>2
        <5>2. m[n] = IF n = 0 THEN Start ELSE Then(m[n - 1])
          BY <3>1, <5>1
        <5>. QED  BY <5>1, <5>2
      <4>. QED  BY <4>1, <4>2
    <3>3. o = [n \in 0 .. i + 1 |-> o[n]]
      OBVIOUS
    <3> HIDE DEF o
    <3>4. o = G(o, i + 1)
      BY <3>2, <3>3
    <3>. QED  BY <3>4
  <2>3. K \in S
    <3> HIDE DEF S
    <3>1. \A i \in 0 .. K : i \in S
      BY <2>1, <2>2, HoldsUpTo
    <3>. QED  BY <3>1
  <2>. QED  BY <2>3
<1>3. merged = G(merged, K)
  BY <1>2
<1> HIDE DEF merged
<1>4. merged[0] = Start /\ \A n \in 0 .. K - 1 : merged[n + 1] = Then(merged[n])
  BY <1>3
<1>. QED  BY <1>1, <1>4 DEF Start, Then

LEMMA MergeIsMerging ==
  ASSUME NEW B, NEW F, NEW kind, IsForest(B, F, kind), NEW h \in Headers,
         NEW free \in Nat, NEW target, target = AtRevision(h, free),
         NEW heads, heads # {}, IsFiniteSet(heads), heads \subseteq Nat \X Nat,
         \A c \in heads : IsFound(B, F, h, free, c), HasEarlier(F, target)
  PROVE  /\ \E first \in heads :
              IsMerging(B, F, kind, first, target, MergeOf(B, heads, target))
         /\ Gathered(B, heads, MergeOf(B, heads, target).entries)
<1> DEFINE first == LowestCid(heads)
           K == Cardinality(heads) - 1
<1>1. first \in heads /\ K \in Nat
  <2>1. Cardinality(heads) \in Nat /\ Cardinality(heads) # 0
    BY FS_CardinalityType, FS_EmptySet
  <2>. QED  BY <2>1, LowestOf
<1>2. PICK merged :
        /\ merged[0] = MergeStart(B, heads)
        /\ \A n \in 0 .. K - 1 :
             merged[n + 1] = MergeNext(B, heads, target, merged[n])
        /\ MergeOf(B, heads, target) = merged[K].our
  BY <1>1, MergeSteps
<1> HIDE DEF first, K
<1> DEFINE I == {n \in Nat :
                   n <= K =>
                     /\ IsMerging(B, F, kind, first, target, merged[n].our)
                     /\ merged[n].left \subseteq heads \ {first}
                     /\ IsFiniteSet(merged[n].left)
                     /\ Cardinality(merged[n].left) = K - n
                     /\ Gathered(B, heads \ merged[n].left, merged[n].our.entries)}
<1>5. 0 \in I
  <2>1. PICK so : so = MergeStart(B, heads)
    OBVIOUS
  <2>2. /\ IsKnown(B, F, kind, AsNode(B[first], first))
        /\ AreEntries(F, B[first].type, B[first].entries)
        /\ AsNode(B[first], first).header = B[first].header
        /\ AsNode(B[first], first).type = B[first].type
    BY <1>1, FoundNode
  <2>3. B[first].header.id = target.id
    BY <1>1 DEF IsFound, AtRevision, Header
  <2>4. /\ so.our.node = AsNode(B[first], first)
        /\ so.our.entries = B[first].entries /\ so.left = heads \ {first}
    BY <2>1 DEF MergeStart, AsStored, first
  <2>5. IsMerging(B, F, kind, first, target, so.our)
    BY <2>2, <2>3, <2>4 DEF IsMerging
  <2>6. IsFiniteSet(heads \ {first}) /\ Cardinality(heads \ {first}) = K
    BY <1>1, FS_RemoveElement DEF K
  <2>7. Gathered(B, {first}, B[first].entries)
    BY DEF Gathered
  <2>8. heads \ so.left = {first}
    BY <1>1, <2>4
  <2>9. merged[0] = so
    BY <1>2, <2>1
  <2>10. Gathered(B, heads \ so.left, so.our.entries)
    BY <2>4, <2>7, <2>8
  <2>11. /\ so.left \subseteq heads \ {first} /\ IsFiniteSet(so.left)
         /\ Cardinality(so.left) = K - 0
    BY <1>1, <2>4, <2>6
  <2>. QED  BY <1>1, <2>5, <2>9, <2>10, <2>11
<1>6. ASSUME NEW n \in 0 .. K - 1, n \in I PROVE n + 1 \in I
  <2>1. PICK our : our = merged[n].our
    OBVIOUS
  <2>2. PICK left : left = merged[n].left
    OBVIOUS
  <2>3. PICK c : c = LowestCid(left)
    OBVIOUS
  <2>4. /\ IsMerging(B, F, kind, first, target, our)
        /\ left \subseteq heads \ {first} /\ IsFiniteSet(left)
        /\ Cardinality(left) = K - n
        /\ Gathered(B, heads \ left, our.entries)
    BY <1>1, <1>6, <2>1, <2>2
  <2>5. left # {}
    BY <1>1, <2>4, FS_EmptySet
  <2>6. c \in left
    BY <2>3, <2>4, <2>5, LowestOf
  <2>7. merged[n + 1] = MergeNext(B, heads, target, merged[n])
    BY <1>1, <1>2
  <2>8. PICK both : both = MergedWith(B, our, first, c, target)
    OBVIOUS
  <2>9. merged[n + 1].our = both /\ merged[n + 1].left = left \ {c}
    BY <2>1, <2>2, <2>3, <2>7, <2>8 DEF MergeNext, first
  <2>10. /\ IsMerging(B, F, kind, first, target, both)
         /\ both.entries = MergedEntries(B, our.entries, B[c].entries)
    BY <1>1, <2>4, <2>6, <2>8, MergedOne
  <2>11. Gathered(B, (heads \ left) \cup {c}, both.entries)
    <3>1. PICK done : done = heads \ left
      OBVIOUS
    <3>2. PICK ours : ours = our.entries
      OBVIOUS
    <3>3. Gathered(B, done \cup {c}, MergedEntries(B, ours, B[c].entries))
      BY <2>4, <3>1, <3>2, GatheredOne
    <3>. QED  BY <2>10, <3>1, <3>2, <3>3
  <2>12. heads \ (left \ {c}) = (heads \ left) \cup {c}
    BY <2>4, <2>6
  <2>13. IsFiniteSet(left \ {c}) /\ Cardinality(left \ {c}) = K - (n + 1)
    <3>1. IsFiniteSet(left \ {c}) /\ Cardinality(left \ {c}) = Cardinality(left) - 1
      BY <2>4, <2>6, FS_RemoveElement
    <3>. QED  BY <1>1, <2>4, <3>1
  <2>14. n + 1 \in Nat
    BY <1>1
  <2>. QED  BY <2>4, <2>9, <2>10, <2>11, <2>12, <2>13, <2>14
<1>7. K \in I
  <2> HIDE DEF I
  <2>1. \A n \in 0 .. K : n \in I
    BY <1>1, <1>5, <1>6, HoldsUpTo
  <2>. QED  BY <1>1, <2>1
<1>8. merged[K].left = {}
  BY <1>1, <1>7, FS_EmptySet
<1>. QED  BY <1>1, <1>2, <1>7, <1>8

LEMMA ReconciledIs ==
  ASSUME NEW B, NEW F, NEW kind, AreBlocks(B, kind), IsForest(B, F, kind),
         NEW h \in Headers, Multivalue(F, h) # {}, NEW r \in Reconciled(F, B, h)
  PROVE  /\ IsKnown(B, F, kind, r.node) /\ AreEntries(F, r.node.type, r.entries)
         /\ r.node.header.id = h.id /\ r.node.type = kind[h.id]
         /\ Gathered(B, UnmergedHeads(F, B, h), r.entries)
<1> DEFINE heads == UnmergedHeads(F, B, h)
           free == FreeRevision(F, h)
           target == AtRevision(h, free)
<1>1. /\ heads \subseteq FoundFrom(F, h) /\ heads # {} /\ IsFiniteSet(heads)
      /\ free \in Nat
  BY SomeHead
<1>2. \A c \in heads : IsFound(B, F, h, free, c)
  BY <1>1, FoundAre
<1>3. heads \subseteq Nat \X Nat
  BY <1>2, RanksAssumption DEF IsFound, AreBlocks
<1>4. \/ r = MergeOf(B, heads, target)
      \/ Cardinality(heads) = 1 /\ \E c \in heads : r = AsStored(B, c)
  BY DEF Reconciled
<1>5. CASE r = MergeOf(B, heads, target)
  <2>0. /\ \E first \in heads : IsMerging(B, F, kind, first, target, r)
        /\ Gathered(B, heads, r.entries)
    <3>1. HasEarlier(F, target)
      BY FreeHasEarlier
    <3> HIDE DEF heads, free
    <3>. QED  BY <1>1, <1>2, <1>3, <1>5, <3>1, MergeIsMerging
  <2>1. PICK first \in heads : IsMerging(B, F, kind, first, target, r)
    BY <2>0
  <2>2. target.id = h.id
    BY DEF AtRevision, Header
  <2>3. r.node.type = kind[r.node.header.id]
    BY <2>1, KnownOf DEF IsMerging
  <2>. QED  BY <2>0, <2>1, <2>2, <2>3 DEF IsMerging
<1>6. CASE Cardinality(heads) = 1 /\ \E c \in heads : r = AsStored(B, c)
  <2>1. PICK c \in heads : r = AsStored(B, c)
    BY <1>6
  <2>2. r.node = AsNode(B[c], c) /\ r.entries = B[c].entries
    BY <2>1 DEF AsStored
  <2>3. IsFound(B, F, h, free, c)
    BY <1>2
  <2> HIDE DEF free, heads
  <2>4. /\ IsKnown(B, F, kind, r.node) /\ AreEntries(F, B[c].type, r.entries)
        /\ r.node.header = B[c].header /\ r.node.type = B[c].type
        /\ B[c].type = kind[h.id]
    BY <1>1, <2>2, <2>3, FoundNode
  <2>5. heads = {c}
    <3>1. \A x, y \in heads : x = y
      BY <1>1, <1>6, MoreThanOne
    <3>. QED  BY <3>1
  <2>6. Gathered(B, heads, r.entries)
    BY <2>2, <2>5 DEF Gathered
  <2>. QED  BY <2>3, <2>4, <2>6 DEF IsFound, heads
<1>. QED  BY <1>4, <1>5, <1>6

--------------------------------------------------------------------------------
(* The tree in memory.                                                     *)

LEMMA TreeOf ==
  ASSUME NEW B, NEW F, NEW kind, NEW t, F \subseteq RefsOf(B), IsTree(B, F, kind, t)
  PROVE  /\ IsNode(t, <<>>)
         /\ \A p \in DOMAIN t :
              /\ p \in Seq(Names)
              /\ IsNode(t, p) => IsKnown(B, F, kind, t[p])
              /\ ~IsNode(t, p) => p # <<>> /\ t[p] \in F
              /\ t[p].type = "dir" => IsNode(t, p)
              /\ p # <<>> => Front(p) \in DOMAIN t /\ t[Front(p)].type = "dir"
<1>1. \A r \in F : r.type = "ref"
  BY RefInForest
<1>2. \A p \in DOMAIN t : t[p] \in F \/ IsKnown(B, F, kind, t[p])
  BY DEF IsTree
<1>3. \A p \in DOMAIN t : t[p].type = "ref" => t[p] \in F
  BY <1>2, KnownOf
<1>4. \A p \in DOMAIN t : t[p].type # "ref" => IsKnown(B, F, kind, t[p])
  BY <1>1, <1>2
<1>. QED  BY <1>3, <1>4 DEF IsTree, IsNode

LEMMA PlacedIs ==
  ASSUME NEW B, NEW F, NEW kind, NEW t, F \subseteq RefsOf(B), IsTree(B, F, kind, t),
         NEW p \in DOMAIN t, NEW loaded, IsKnown(B, F, kind, loaded.node),
         AreEntries(F, loaded.node.type, loaded.entries),
         p = <<>> => loaded.node.type = "dir",
         NEW u, u = Placed(t, p, loaded)
  PROVE  /\ IsTree(B, F, kind, u) /\ p \in DOMAIN u /\ u[p] = loaded.node
         /\ \A q \in DOMAIN t : ~IsPrefix(p, q) => q \in DOMAIN u /\ u[q] = t[q]
<1> DEFINE kept == {q \in DOMAIN t : ~IsPrefix(p, q)}
           E == {Append(p, n) : n \in DOMAIN loaded.entries}
<1>1. /\ u = [q \in DOMAIN u |-> u[q]] /\ DOMAIN u = kept \cup {p} \cup E
      /\ \A q \in DOMAIN u : u[q] = IF q \in kept THEN t[q]
                                    ELSE IF q = p THEN loaded.node
                                    ELSE loaded.entries[Last(q)]
  BY DEF Placed, Pruned
<1>2. /\ p \in Seq(Names) /\ DOMAIN t \subseteq Seq(Names) /\ IsPrefix(p, p)
      /\ <<>> \in DOMAIN t /\ t[<<>>].type = "dir" /\ IsFiniteSet(DOMAIN t)
  BY PrefixOrder DEF IsTree
<1>3. ASSUME NEW n \in DOMAIN loaded.entries
      PROVE  /\ Append(p, n) \in Seq(Names) /\ Append(p, n) # <<>>
             /\ Append(p, n) \notin kept /\ Append(p, n) # p
             /\ Front(Append(p, n)) = p /\ u[Append(p, n)] = loaded.entries[n]
             /\ loaded.entries[n] \in F
  <2>1. /\ Append(p, n) # <<>> /\ Len(Append(p, n)) = Len(p) + 1
        /\ Front(Append(p, n)) = p /\ Last(Append(p, n)) = n
    BY <1>2, AppendOf
  <2>2. Append(p, n) \in Seq(Names)
    <3>1. n \in Names
      BY DEF AreEntries
    <3>. QED  BY <1>2, <3>1, AppendProperties
  <2>3. IsPrefix(p, Append(p, n))
    BY <1>2, <2>1, <2>2, PrefixStep
  <2>4. Append(p, n) # p
    <3>1. Len(p) \in Nat
      BY <1>2, LenProperties
    <3>. QED  BY <2>1, <3>1
  <2>5. loaded.entries[n] \in F
    BY DEF AreEntries
  <2>. QED  BY <1>1, <2>1, <2>2, <2>3, <2>4, <2>5
<1>4. p \in DOMAIN u /\ u[p] = loaded.node
  BY <1>1, <1>2
<1>5. \A q \in DOMAIN t : ~IsPrefix(p, q) => q \in DOMAIN u /\ u[q] = t[q]
  BY <1>1
<1>6. IsFiniteSet(DOMAIN u)
  <2>1. IsFiniteSet(kept)
    BY <1>2, FS_Subset
  <2>2. IsFiniteSet(E)
    <3> DEFINE f == [n \in DOMAIN loaded.entries |-> Append(p, n)]
    <3>1. IsFiniteSet(DOMAIN loaded.entries)
      BY DEF AreEntries
    <3>2. E = {f[n] : n \in DOMAIN loaded.entries}
      OBVIOUS
    <3> HIDE DEF f, E
    <3>. QED  BY <3>1, <3>2, ValuesOf
  <2>3. IsFiniteSet(kept \cup {p})
    BY <2>1, FS_AddElement
  <2> HIDE DEF kept, E
  <2>4. IsFiniteSet(kept \cup {p} \cup E)
    BY <2>2, <2>3, FS_Union
  <2>. QED  BY <1>1, <2>4
<1>7. DOMAIN u \subseteq Seq(Names)
  BY <1>1, <1>2, <1>3
<1>8. <<>> \in DOMAIN u /\ u[<<>>].type = "dir"
  <2>1. CASE p = <<>>
    BY <1>4, <2>1
  <2>2. CASE p # <<>>
    <3>1. ~IsPrefix(p, <<>>)
      <4>1. <<>> \in Seq(Names) /\ IsPrefix(<<>>, p)
        BY <1>2, PrefixOrder
      <4>. QED  BY <1>2, <2>2, <4>1, PrefixOrder
    <3>. QED  BY <1>2, <1>5, <3>1
  <2>. QED  BY <2>1, <2>2
<1>9. ASSUME NEW q \in DOMAIN u PROVE u[q] \in F \/ IsKnown(B, F, kind, u[q])
  <2>1. CASE q \in kept
    BY <1>1, <2>1 DEF IsTree
  <2>2. CASE q = p
    BY <1>4, <2>2
  <2>3. CASE q \in E
    BY <1>3, <2>3
  <2>. QED  BY <1>1, <2>1, <2>2, <2>3
<1>10. ASSUME NEW q \in DOMAIN u \ {<<>>}
       PROVE  Front(q) \in DOMAIN u /\ u[Front(q)].type = "dir"
  <2>1. CASE q \in kept \/ q = p
    <3>1. q \in DOMAIN t /\ q \in Seq(Names) /\ (IsPrefix(p, q) => q = p)
      BY <1>2, <2>1
    <3>2. Front(q) \in DOMAIN t /\ t[Front(q)].type = "dir"
      BY <3>1 DEF IsTree
    <3>3. ~IsPrefix(p, Front(q))
      BY <1>2, <3>1, PrefixStep
    <3>. QED  BY <1>5, <3>2, <3>3
  <2>2. CASE q \in E
    <3>1. PICK n \in DOMAIN loaded.entries : q = Append(p, n)
      BY <2>2
    <3>2. loaded.node.type # "file"
      BY DEF AreEntries
    <3>3. loaded.node.type = "dir"
      BY <3>2, KnownOf DEF Types
    <3>. QED  BY <1>3, <1>4, <3>1, <3>3
  <2>. QED  BY <1>1, <2>1, <2>2
<1> HIDE DEF kept, E
<1>. QED  BY <1>1, <1>4, <1>5, <1>6, <1>7, <1>8, <1>9, <1>10 DEF IsTree

(* What operations read and edit: the blockstore, a forest and a tree.     *)
AreThere(F, kind) == AreBlocks(blocks, kind) /\ IsForest(blocks, F, kind)

IsOpen(F, kind, t) == IsTree(blocks, F, kind, t)

(* u is t, except at p and below.                                          *)
KeepsRest(t, u, p) ==
  \A q \in DOMAIN t : ~IsPrefix(p, q) => q \in DOMAIN u /\ u[q] = t[q]

LEMMA OpenOf ==
  ASSUME NEW F, NEW kind, NEW t, AreThere(F, kind), IsOpen(F, kind, t)
  PROVE  /\ IsNode(t, <<>>)
         /\ \A p \in DOMAIN t :
              /\ p \in Seq(Names)
              /\ IsNode(t, p) => IsKnown(blocks, F, kind, t[p])
              /\ ~IsNode(t, p) => p # <<>> /\ t[p] \in F
              /\ t[p].type = "dir" => IsNode(t, p)
              /\ p # <<>> => Front(p) \in DOMAIN t /\ t[Front(p)].type = "dir"
BY TreeOf DEF AreThere, IsOpen, IsForest

LEMMA ResolvedIs ==
  ASSUME NEW F, NEW kind, NEW t, AreThere(F, kind), IsOpen(F, kind, t),
         NEW p \in DOMAIN t, NEW u \in Resolved(F, t, p)
  PROVE  /\ IsOpen(F, kind, u) /\ p \in DOMAIN u /\ IsNode(u, p)
         /\ KeepsRest(t, u, p)
<1>1. CASE IsNode(t, p)
  BY <1>1 DEF Resolved, KeepsRest
<1>2. CASE ~IsNode(t, p)
  <2>1. p # <<>> /\ t[p] \in F
    BY <1>2, OpenOf
  <2> DEFINE c == t[p].cid
             loaded == [node |-> AsNode(blocks[c], c), entries |-> blocks[c].entries]
  <2>2. u = Placed(t, p, loaded)
    BY <1>2 DEF Resolved
  <2>3. /\ IsKnown(blocks, F, kind, AsNode(blocks[c], c))
        /\ AreEntries(F, blocks[c].type, blocks[c].entries)
        /\ F \subseteq RefsOf(blocks)
    BY <2>1, InForest DEF AreThere, IsForest
  <2>4. AsNode(blocks[c], c).type = blocks[c].type
    BY NodeOf DEF AsNode
  <2>5. /\ IsKnown(blocks, F, kind, loaded.node)
        /\ AreEntries(F, loaded.node.type, loaded.entries)
    BY <2>3, <2>4
  <2> HIDE DEF loaded
  <2>6. /\ IsTree(blocks, F, kind, u) /\ p \in DOMAIN u /\ u[p] = loaded.node
        /\ \A q \in DOMAIN t : ~IsPrefix(p, q) => q \in DOMAIN u /\ u[q] = t[q]
    BY <2>1, <2>2, <2>3, <2>5, PlacedIs DEF IsOpen
  <2>. QED  BY <2>5, <2>6, KnownOf DEF IsOpen, IsNode, KeepsRest
<1>. QED  BY <1>1, <1>2

LEMMA SearchedIs ==
  ASSUME NEW F, NEW kind, NEW t, AreThere(F, kind), IsOpen(F, kind, t),
         NEW p \in DOMAIN t, IsNode(t, p), NEW u \in Searched(F, t, p)
  PROVE  /\ IsOpen(F, kind, u) /\ p \in DOMAIN u /\ IsNode(u, p)
         /\ u[p].type = t[p].type /\ u[p].header.id = t[p].header.id
         /\ KeepsRest(t, u, p)
<1>1. CASE Multivalue(F, t[p].header) = {}
  BY <1>1 DEF Searched, KeepsRest
<1>2. CASE Multivalue(F, t[p].header) # {}
  <2>1. PICK r \in Reconciled(F, blocks, t[p].header) : u = Placed(t, p, r)
    BY <1>2 DEF Searched
  <2>2. IsKnown(blocks, F, kind, t[p])
    BY OpenOf
  <2>3. t[p].header \in Headers /\ t[p].type = kind[t[p].header.id]
    BY <2>2, KnownOf
  <2>4. /\ IsKnown(blocks, F, kind, r.node) /\ AreEntries(F, r.node.type, r.entries)
        /\ r.node.header.id = t[p].header.id
        /\ r.node.type = t[p].type
    BY <1>2, <2>3, ReconciledIs DEF AreThere
  <2>5. p = <<>> => r.node.type = "dir"
    BY <2>4 DEF IsOpen, IsTree
  <2>6. F \subseteq RefsOf(blocks)
    BY DEF AreThere, IsForest
  <2>7. /\ IsTree(blocks, F, kind, u) /\ p \in DOMAIN u /\ u[p] = r.node
        /\ \A q \in DOMAIN t : ~IsPrefix(p, q) => q \in DOMAIN u /\ u[q] = t[q]
    BY <2>1, <2>4, <2>5, <2>6, PlacedIs DEF IsOpen
  <2>. QED  BY <2>4, <2>7, KnownOf DEF IsOpen, IsNode, KeepsRest
<1>. QED  BY <1>1, <1>2

LEMMA KeepsKept ==
  ASSUME NEW t, NEW u, NEW v, NEW p, KeepsRest(t, u, p), KeepsRest(u, v, p)
  PROVE  KeepsRest(t, v, p)
BY DEF KeepsRest

LEMMA OpenedIs ==
  ASSUME NEW F, NEW kind, NEW t, AreThere(F, kind), IsOpen(F, kind, t),
         NEW p \in DOMAIN t, NEW v \in Opened(F, t, p)
  PROVE  /\ IsOpen(F, kind, v) /\ p \in DOMAIN v /\ IsNode(v, p)
         /\ KeepsRest(t, v, p)
<1>1. PICK u \in Resolved(F, t, p) : v \in Searched(F, u, p)
  BY DEF Opened
<1>2. IsOpen(F, kind, u) /\ p \in DOMAIN u /\ IsNode(u, p) /\ KeepsRest(t, u, p)
  BY ResolvedIs
<1>3. IsOpen(F, kind, v) /\ p \in DOMAIN v /\ IsNode(v, p) /\ KeepsRest(u, v, p)
  BY <1>1, <1>2, SearchedIs
<1>. QED  BY <1>2, <1>3, KeepsKept

(* A node at p for another one of its type.                                *)
LEMMA ExchangedIs ==
  ASSUME NEW F, NEW kind, NEW t, IsOpen(F, kind, t), NEW p \in DOMAIN t,
         NEW n, IsKnown(blocks, F, kind, n), n.type = t[p].type,
         NEW u, u = [t EXCEPT ![p] = n]
  PROVE  /\ IsOpen(F, kind, u) /\ DOMAIN u = DOMAIN t /\ u[p] = n
         /\ \A q \in DOMAIN t : u[q].type = t[q].type
<1>1. /\ DOMAIN u = DOMAIN t /\ u[p] = n /\ u = [q \in DOMAIN u |-> u[q]]
      /\ \A q \in DOMAIN t : q # p => u[q] = t[q]
  BY DEF IsOpen, IsTree
<1>2. \A q \in DOMAIN t : u[q].type = t[q].type
  BY <1>1
<1>3. IsTree(blocks, F, kind, u)
  BY <1>1, <1>2 DEF IsOpen, IsTree
<1>. QED  BY <1>1, <1>2, <1>3 DEF IsOpen

LEMMA NextRevisionIs ==
  ASSUME NEW F, NEW kind, AreThere(F, kind), NEW n, IsKnown(blocks, F, kind, n)
  PROVE  /\ IsKnown(blocks, F, kind, PrepareNextRevision(n))
         /\ PrepareNextRevision(n).type = n.type
         /\ PrepareNextRevision(n).header.id = n.header.id
         /\ PrepareNextRevision(n).header.name = n.header.name
<1>1. CASE n.persisted_as = {}
  BY <1>1 DEF PrepareNextRevision, NextRevision
<1>2. CASE n.persisted_as # {}
  <2>1. /\ n.type \in Types /\ n.header \in Headers
        /\ n.content \in Contents \cup {NoContent}
        /\ n.header.name \subseteq DOMAIN kind /\ n.type = kind[n.header.id]
        /\ IsNamed(n.header) /\ HasEarlier(F, n.header)
    BY KnownOf
  <2>2. PICK c \in DOMAIN blocks : n.persisted_as = {c} /\ Ref(n.header, c) \in F
    BY <1>2, KnownOf
  <2> DEFINE h == AtRevision(n.header, n.header.rev + 1)
             l == Link(1, c, TemporalKey(n.header))
  <2>3. PrepareNextRevision(n) = Node(n.type, h, {l}, n.content, {})
    <3>1. {Link(1, d, TemporalKey(n.header)) : d \in n.persisted_as} = {l}
      BY <2>2
    <3>. QED  BY <1>2, <3>1 DEF PrepareNextRevision, NextRevision
  <2>4. /\ n.header.rev \in Nat /\ n.header.rev + 1 \in Nat
        /\ (n.header.rev + 1) - 1 = n.header.rev
        /\ TemporalKey(n.header) \in Nat \X Nat
        /\ AtRevision(n.header, n.header.rev) = n.header
    <3>1. /\ n.header.rev \in Nat /\ TemporalKey(n.header) \in Nat \X Nat
          /\ AtRevision(n.header, n.header.rev) = n.header
      BY <2>1, HeaderOf
    <3>2. n.header.rev + 1 \in Nat /\ (n.header.rev + 1) - 1 = n.header.rev
      BY <3>1
    <3>. QED  BY <3>1, <3>2
  <2>5. /\ h \in Headers /\ h.id = n.header.id /\ h.name = n.header.name
        /\ h.rev = n.header.rev + 1
    BY <2>1, <2>4, HeaderOf DEF AtRevision, Header
  <2>6. AtRevision(h, h.rev - 1) = n.header
    <3>1. h.rev - 1 = n.header.rev
      BY <2>4, <2>5
    <3>2. AtRevision(h, n.header.rev) = AtRevision(n.header, n.header.rev)
      BY DEF AtRevision, Header
    <3>. QED  BY <2>4, <3>1, <3>2
  <2>7. l \in Links(blocks) /\ l.back = 1 /\ l.cid = c /\ l.key = TemporalKey(n.header)
    BY <2>4, LinkIn
  <2>8. blocks[c].header = n.header
    BY <2>2, InForest, RefOf DEF AreThere
  <2> HIDE DEF h, l
  <2>9. IsLink(blocks, F, h, l)
    BY <2>2, <2>4, <2>5, <2>6, <2>7, <2>8 DEF IsLink
  <2>10. IsFiniteSet({l})
    BY FS_Singleton
  <2>11. IsNamed(h)
    BY <2>1, <2>5 DEF IsNamed
  <2>12. HasEarlier(F, h)
    <3> SUFFICES ASSUME NEW k \in 0 .. h.rev - 1
                 PROVE  \E r \in F : r.label = AtRevision(h, k)
      BY DEF HasEarlier
    <3>1. AtRevision(h, k) = AtRevision(n.header, k)
      BY <2>5 DEF AtRevision
    <3>2. CASE k = n.header.rev
      BY <2>2, <2>4, <3>1, <3>2, RefOf
    <3>3. CASE k # n.header.rev
      <4>1. k \in 0 .. n.header.rev - 1
        BY <2>4, <2>5, <3>3
      <4>. QED  BY <2>1, <3>1, <4>1 DEF HasEarlier
    <3>. QED  BY <3>2, <3>3
  <2>13. IsKnown(blocks, F, kind, Node(n.type, h, {l}, n.content, {}))
    BY <2>1, <2>5, <2>7, <2>9, <2>10, <2>11, <2>12, KnownIf
  <2>. QED  BY <2>3, <2>5, <2>13, NodeOf
<1>. QED  BY <1>1, <1>2

LEMMA AdvancedIs ==
  ASSUME NEW F, NEW kind, NEW t, AreThere(F, kind), IsOpen(F, kind, t),
         NEW p \in DOMAIN t, IsNode(t, p)
  PROVE  /\ IsOpen(F, kind, Advanced(t, p)) /\ DOMAIN Advanced(t, p) = DOMAIN t
         /\ IsNode(Advanced(t, p), p)
         /\ \A q \in DOMAIN t : Advanced(t, p)[q].type = t[q].type
         /\ Advanced(t, p)[p].header.id = t[p].header.id
         /\ IsKnown(blocks, F, kind, Advanced(t, p)[p])
<1> DEFINE n == PrepareNextRevision(t[p])
<1>1. IsKnown(blocks, F, kind, t[p])
  BY OpenOf
<1>2. IsKnown(blocks, F, kind, n) /\ n.type = t[p].type /\ n.header.id = t[p].header.id
  BY <1>1, NextRevisionIs
<1>3. Advanced(t, p) = [t EXCEPT ![p] = n]
  BY DEF Advanced
<1> HIDE DEF n
<1>4. PICK u : u = Advanced(t, p)
  OBVIOUS
<1>5. /\ IsOpen(F, kind, u) /\ DOMAIN u = DOMAIN t /\ u[p] = n
      /\ \A q \in DOMAIN t : u[q].type = t[q].type
  <2>1. u = [t EXCEPT ![p] = n]
    BY <1>3, <1>4
  <2>2. IsKnown(blocks, F, kind, n) /\ n.type = t[p].type
    BY <1>2
  <2>. QED  BY <2>1, <2>2, ExchangedIs, Zenon
<1>. QED  BY <1>2, <1>4, <1>5, KnownOf DEF IsNode

--------------------------------------------------------------------------------
(* The operations.                                                         *)

LEMMA OneIs ==
  ASSUME NEW results, NEW otherwise
  PROVE  /\ results = {} => OneOf(results, otherwise) = otherwise
         /\ results # {} => OneOf(results, otherwise) \in results
BY DEF OneOf

(* The first names of a path.                                              *)
Part(path, i) == SubSeq(path, 1, i)

LEMMA PartOf ==
  ASSUME NEW S, NEW path \in Seq(S), NEW i \in 0 .. Len(path),
         NEW p, p = Part(path, i)
  PROVE  /\ p \in Seq(S) /\ Len(p) = i
         /\ i = 0 => p = <<>>
         /\ i = Len(path) => p = path
         /\ i # 0 => p # <<>> /\ Front(p) = Part(path, i - 1)
         /\ p \in Prefixes(path)
<1>1. Len(path) \in Nat
  BY LenProperties
<1>2. \A k \in 0 .. Len(path) :
        /\ Part(path, k) \in Seq(S) /\ Len(Part(path, k)) = k
        /\ \A x \in 1 .. k : Part(path, k)[x] = path[x]
  <2> TAKE k \in 0 .. Len(path)
  <2>1. \A x \in 1 .. k : path[x] \in S
    BY <1>1, ElementOfSeq
  <2>2. Part(path, k) = [x \in 1 .. k |-> path[x]]
    BY <1>1 DEF Part
  <2>. QED  BY <1>1, <2>1, <2>2, IsASeq, LenProperties
<1>3. p \in Seq(S) /\ Len(p) = i /\ \A x \in 1 .. i : p[x] = path[x]
  BY <1>2
<1>4. i = 0 => p = <<>>
  BY <1>3, EmptySeq
<1>5. i = Len(path) => p = path
  BY <1>3, SeqEqual
<1>6. ASSUME i # 0 PROVE p # <<>> /\ Front(p) = Part(path, i - 1)
  <2>1. p # <<>>
    BY <1>1, <1>3, <1>6, EmptySeq
  <2>2. /\ Front(p) \in Seq(S) /\ Len(Front(p)) = i - 1
        /\ \A x \in 1 .. i - 1 : Front(p)[x] = p[x]
    BY <1>3, <2>1, FrontOf
  <2>3. i - 1 \in 0 .. Len(path) /\ i - 1 \in Nat
    BY <1>1, <1>6
  <2>4. Front(p) = Part(path, i - 1)
    <3> DEFINE q == Part(path, i - 1)
    <3>1. q \in Seq(S) /\ Len(q) = i - 1 /\ \A x \in 1 .. i - 1 : q[x] = path[x]
      BY <1>2, <2>3
    <3>2. \A x \in 1 .. i - 1 : Front(p)[x] = q[x]
      BY <1>3, <2>2, <3>1
    <3> HIDE DEF q
    <3>3. Front(p) = q
      BY <2>2, <3>1, <3>2, SeqEqual
    <3>. QED  BY <3>3 DEF q
  <2>. QED  BY <2>1, <2>4
<1>7. p \in Prefixes(path)
  <2>1. IsPrefix(p, path)
    <3>1. Len(p) <= Len(path) /\ \A x \in 1 .. Len(p) : p[x] = path[x]
      BY <1>1, <1>3
    <3>. QED  BY <1>3, <3>1, PrefixOf
  <2>. QED  BY <1>3, <2>1, PrefixesAre
<1>. QED  BY <1>3, <1>4, <1>5, <1>6, <1>7

(* On the way to a directory: it was opened so far, or the next one on the *)
(* way does not exist.                                                     *)
IsDirIn(t, p) == p \in DOMAIN t /\ t[p].type = "dir"

IsWalk(F, kind, path, i, w) ==
  /\ IsOpen(F, kind, w.tree)
  /\ w.at = "dir" => IsDirIn(w.tree, Part(path, i))
  /\ w.at = "missing" =>
       \E j \in 0 .. Len(path) - 1 : /\ IsDirIn(w.tree, Part(path, j))
                                     /\ Part(path, j + 1) \notin DOMAIN w.tree

LEMMA AtOf ==
  ASSUME NEW t, NEW at PROVE At(t, at).tree = t /\ At(t, at).at = at
BY DEF At

LEMMA StepIs ==
  ASSUME NEW F, NEW kind, AreThere(F, kind), NEW path \in Seq(Names),
         NEW i \in 0 .. Len(path) - 1, NEW w, IsWalk(F, kind, path, i, w)
  PROVE  IsWalk(F, kind, path, i + 1, Step(F, w, Part(path, i + 1)))
<1>1. Len(path) \in Nat
  BY LenProperties
<1>2. PICK p : p = Part(path, i + 1)
  OBVIOUS
<1>3. PICK s : s = Step(F, w, p)
  OBVIOUS
<1>4. CASE w.at # "dir"
  <2>1. s = w
    BY <1>3, <1>4 DEF Step
  <2>. QED  BY <1>2, <1>3, <1>4, <2>1 DEF IsWalk
<1>5. CASE w.at = "dir" /\ p \notin DOMAIN w.tree
  <2>1. s.tree = w.tree /\ s.at = "missing"
    BY <1>3, <1>5, AtOf DEF Step
  <2>. QED  BY <1>2, <1>3, <1>5, <2>1 DEF IsWalk
<1>6. CASE w.at = "dir" /\ p \in DOMAIN w.tree
  <2> DEFINE results == {Entered(u, p) : u \in Opened(F, w.tree, p)}
  <2>1. s = OneOf(results, At(w.tree, "failed"))
    BY <1>3, <1>6 DEF Step
  <2>2. CASE results = {}
    <3>1. s.tree = w.tree /\ s.at = "failed"
      BY <2>1, <2>2, OneIs, AtOf
    <3>. QED  BY <1>2, <1>3, <3>1 DEF IsWalk
  <2>3. CASE results # {}
    <3>0. s \in results
      <4> HIDE DEF results
      <4>. QED  BY <2>1, <2>3, OneIs
    <3>1. PICK u \in Opened(F, w.tree, p) : s = Entered(u, p)
      BY <3>0
    <3>2. IsOpen(F, kind, u) /\ p \in DOMAIN u /\ IsNode(u, p)
      BY <1>6, OpenedIs DEF IsWalk
    <3>3. CASE u[p].type = "file"
      <4>1. s.tree = u /\ s.at = "file"
        BY <3>1, <3>3, AtOf DEF Entered
      <4>. QED  BY <1>2, <1>3, <3>2, <4>1 DEF IsWalk
    <3>4. CASE u[p].type # "file"
      <4>1. u[p].type = "dir"
        BY <3>2, <3>4, OpenOf, KnownOf DEF Types
      <4>2. s.tree = Advanced(u, p) /\ s.at = "dir"
        BY <3>1, <3>4, AtOf DEF Entered
      <4>3. IsOpen(F, kind, s.tree) /\ IsDirIn(s.tree, p)
        BY <3>2, <4>1, <4>2, AdvancedIs DEF IsDirIn
      <4>. QED  BY <1>2, <1>3, <4>2, <4>3 DEF IsWalk
    <3>. QED  BY <3>3, <3>4
  <2>. QED  BY <2>2, <2>3
<1>. QED  BY <1>4, <1>5, <1>6

LEMMA WalkedIs ==
  ASSUME NEW F, NEW kind, AreThere(F, kind), NEW path \in Seq(Names),
         NEW u, IsOpen(F, kind, u)
  PROVE  IsWalk(F, kind, path, Len(path), Walked(F, u, path))
<1> DEFINE K == Len(path)
           Start == At(Advanced(u, <<>>), "dir")
           Then(w, i) == Step(F, w, Part(path, i))
           G(m, i) == [n \in 0 .. i |-> IF n = 0 THEN Start ELSE Then(m[n - 1], n)]
           walk == CHOOSE m : m = G(m, K)
<1>1. K \in Nat
  BY LenProperties
<1>2. Walked(F, u, path) = walk[K]
  BY DEF Walked, Part
<1> HIDE DEF K, Start, Then
<1>3. \E m : m = G(m, K)
  <2> DEFINE S == {i \in Nat : \E m : m = G(m, i)}
  <2>1. 0 \in S
    <3> DEFINE m == [n \in 0 .. 0 |-> Start]
    <3>1. m = G(m, 0)
      OBVIOUS
    <3>. QED  BY <3>1
  <2>2. ASSUME NEW i \in 0 .. K - 1, i \in S PROVE i + 1 \in S
    <3>1. PICK m : m = G(m, i)
      BY <2>2
    <3> DEFINE o == [n \in 0 .. i + 1 |-> IF n = i + 1 THEN Then(m[i], n) ELSE m[n]]
    <3>2. ASSUME NEW n \in 0 .. i + 1
          PROVE  o[n] = IF n = 0 THEN Start ELSE Then(o[n - 1], n)
      <4>1. CASE n = i + 1
        BY <4>1
      <4>2. CASE n # i + 1
        <5>1. n \in 0 .. i /\ o[n] = m[n] /\ (n # 0 => o[n - 1] = m[n - 1])
          BY <4>2
        <5>2. m[n] = IF n = 0 THEN Start ELSE Then(m[n - 1], n)
          BY <3>1, <5>1
        <5>. QED  BY <5>1, <5>2
      <4>. QED  BY <4>1, <4>2
    <3>3. o = [n \in 0 .. i + 1 |-> o[n]]
      OBVIOUS
    <3> HIDE DEF o
    <3>4. o = G(o, i + 1)
      BY <3>2, <3>3
    <3>. QED  BY <3>4
  <2>3. K \in S
    <3> HIDE DEF S
    <3>1. \A i \in 0 .. K : i \in S
      BY <1>1, <2>1, <2>2, HoldsUpTo
    <3>. QED  BY <1>1, <3>1
  <2>. QED  BY <2>3
<1>4. walk = G(walk, K)
  BY <1>3
<1> HIDE DEF walk
<1> DEFINE I == {i \in Nat : i <= K => IsWalk(F, kind, path, i, walk[i])}
<1>5. 0 \in I
  <2>1. walk[0] = Start
    BY <1>1, <1>4
  <2>2. Start.tree = Advanced(u, <<>>) /\ Start.at = "dir"
    BY AtOf DEF Start
  <2>3. Part(path, 0) = <<>>
    BY <1>1, PartOf DEF K
  <2>4. IsNode(u, <<>>) /\ <<>> \in DOMAIN u /\ u[<<>>].type = "dir"
    BY OpenOf DEF IsOpen, IsTree
  <2>5. IsOpen(F, kind, Start.tree) /\ IsDirIn(Start.tree, <<>>)
    BY <2>2, <2>4, AdvancedIs DEF IsDirIn
  <2>. QED  BY <2>1, <2>2, <2>3, <2>5 DEF IsWalk
<1>6. ASSUME NEW i \in 0 .. K - 1, i \in I PROVE i + 1 \in I
  <2>1. walk[i + 1] = Then(walk[i], i + 1)
    BY <1>1, <1>4
  <2>2. IsWalk(F, kind, path, i, walk[i])
    BY <1>1, <1>6
  <2>3. IsWalk(F, kind, path, i + 1, walk[i + 1])
    BY <2>1, <2>2, StepIs DEF Then, K
  <2>. QED  BY <1>1, <2>3
<1>7. K \in I
  <2> HIDE DEF I
  <2>1. \A i \in 0 .. K : i \in I
    BY <1>1, <1>5, <1>6, HoldsUpTo
  <2>. QED  BY <1>1, <2>1
<1>. QED  BY <1>1, <1>2, <1>7 DEF K

LEMMA LeafDirMutIs ==
  ASSUME NEW F, NEW kind, AreThere(F, kind), NEW path \in Seq(Names),
         NEW t, IsOpen(F, kind, t), NEW w, w = LeafDirMut(F, t, path)
  PROVE  /\ IsWalk(F, kind, path, Len(path), w)
         /\ w.at = "dir" => IsDirIn(w.tree, path)
<1> DEFINE results == {Walked(F, u, path) : u \in Searched(F, t, <<>>)}
<1>1. w = OneOf(results, At(t, "failed"))
  BY DEF LeafDirMut
<1>2. CASE results = {}
  <2>1. w.tree = t /\ w.at = "failed"
    BY <1>1, <1>2, OneIs, AtOf
  <2>. QED  BY <2>1 DEF IsWalk
<1>3. CASE results # {}
  <2>0. w \in results
    <3> HIDE DEF results
    <3>. QED  BY <1>1, <1>3, OneIs
  <2>1. PICK u \in Searched(F, t, <<>>) : w = Walked(F, u, path)
    BY <2>0
  <2>2. IsOpen(F, kind, u)
    <3>1. <<>> \in DOMAIN t /\ IsNode(t, <<>>)
      BY OpenOf DEF IsOpen, IsTree
    <3>. QED  BY <3>1, SearchedIs
  <2>3. IsWalk(F, kind, path, Len(path), w)
    BY <2>1, <2>2, WalkedIs
  <2>4. Part(path, Len(path)) = path
    <3>1. Len(path) \in 0 .. Len(path)
      BY LenProperties
    <3>. QED  BY <3>1, PartOf
  <2>. QED  BY <2>3, <2>4 DEF IsWalk
<1>. QED  BY <1>2, <1>3

--------------------------------------------------------------------------------
(* Fresh ids.                                                              *)

(* The n-th number from one on that is not in U.                           *)
LEMMA GapOf ==
  ASSUME NEW U, U \subseteq Nat, IsFiniteSet(U), NEW n \in Nat \ {0}
  PROVE  \E k \in 1 .. Cardinality(U) + n : k \notin U /\ Cardinality((1 .. k) \ U) = n
<1> DEFINE gaps(k) == Cardinality((1 .. k) \ U)
           S == {k \in Nat : gaps(k) >= n}
           m == Cardinality(U) + n
<1>1. Cardinality(U) \in Nat /\ m \in Nat
  BY FS_CardinalityType
<1>2. ASSUME NEW k \in Nat
      PROVE  IsFiniteSet((1 .. k) \ U) /\ gaps(k) \in Nat /\ IsFiniteSet(1 .. k)
             /\ gaps(k) = k - Cardinality((1 .. k) \cap U)
  <2>0. 1 \in Int /\ k \in Int
    OBVIOUS
  <2>1. IsFiniteSet(1 .. k) /\ Cardinality(1 .. k) = IF 1 > k THEN 0 ELSE k - 1 + 1
    BY <2>0, FS_Interval
  <2>2. Cardinality(1 .. k) = k
    BY <2>1
  <2>3. IsFiniteSet((1 .. k) \ U)
    BY <2>1, FS_Difference
  <2>4. Cardinality((1 .. k) \ U) = Cardinality(1 .. k) - Cardinality((1 .. k) \cap U)
    BY <2>1, FS_Difference
  <2>. QED  BY <2>1, <2>2, <2>3, <2>4, FS_CardinalityType
<1>3. m \in S
  <2>1. IsFiniteSet(U \cap (1 .. m)) /\ Cardinality((1 .. m) \cap U) <= Cardinality(U)
    BY FS_Intersection
  <2>2. IsFiniteSet((1 .. m) \cap U)
    BY FS_Intersection
  <2>3. Cardinality((1 .. m) \cap U) \in Nat
    BY <2>2, FS_CardinalityType
  <2>4. gaps(m) = m - Cardinality((1 .. m) \cap U)
    BY <1>1, <1>2
  <2> HIDE DEF gaps
  <2>. QED  BY <1>1, <2>1, <2>3, <2>4
<1>4. PICK k \in S : \A j \in S : k <= j
  <2>1. S \subseteq Nat /\ S # {}
    BY <1>3
  <2> HIDE DEF S
  <2>. QED  BY <2>1, LeastOf
<1>5. k \in Nat /\ k <= m /\ gaps(k) >= n
  BY <1>3, <1>4
<1>6. gaps(0) = 0
  <2>1. (1 .. 0) \ U = {}
    OBVIOUS
  <2>. QED  BY <2>1, FS_EmptySet
<1>7. k # 0
  <2> HIDE DEF gaps
  <2>. QED  BY <1>5, <1>6
<1>8. k - 1 \in Nat /\ ~(gaps(k - 1) >= n)
  BY <1>4, <1>5, <1>7
<1>9. k \notin U /\ gaps(k) = gaps(k - 1) + 1
  <2>1. 1 .. k = (1 .. k - 1) \cup {k} /\ k \notin 1 .. k - 1
    BY <1>5, <1>7
  <2>2. CASE k \in U
    <3>1. (1 .. k) \ U = (1 .. k - 1) \ U
      BY <2>1, <2>2
    <3>2. gaps(k) = gaps(k - 1)
      BY <3>1
    <3> HIDE DEF gaps
    <3>. QED  BY <1>5, <1>8, <3>2
  <2>3. CASE k \notin U
    <3>1. (1 .. k) \ U = ((1 .. k - 1) \ U) \cup {k} /\ k \notin (1 .. k - 1) \ U
      BY <2>1, <2>3
    <3>2. IsFiniteSet((1 .. k - 1) \ U)
      BY <1>2, <1>8
    <3>3. Cardinality(((1 .. k - 1) \ U) \cup {k}) = Cardinality((1 .. k - 1) \ U) + 1
      BY <3>1, <3>2, FS_AddElement
    <3>. QED  BY <2>3, <3>1, <3>3
  <2>. QED  BY <2>2, <2>3
<1>10. gaps(k) = n /\ k \in 1 .. m
  <2>1. gaps(k) \in Nat /\ gaps(k - 1) \in Nat
    BY <1>2, <1>5, <1>8
  <2> HIDE DEF gaps
  <2>. QED  BY <1>1, <1>5, <1>7, <1>8, <1>9, <2>1
<1>. QED  BY <1>9, <1>10

AreIds == UsedIds \subseteq Nat /\ IsFiniteSet(UsedIds) /\ 1 \in UsedIds

LEMMA FreshIdOf ==
  ASSUME AreIds, NEW n \in Nat \ {0}
  PROVE  /\ FreshId(n) \in Nat /\ FreshId(n) \notin UsedIds /\ FreshId(n) # 1
         /\ Cardinality((1 .. FreshId(n)) \ UsedIds) = n
<1> DEFINE P(k) == k \notin UsedIds /\ Cardinality((1 .. k) \ UsedIds) = n
           S == 1 .. Cardinality(UsedIds) + n
<1>1. \E k \in S : P(k)
  BY GapOf DEF AreIds
<1>2. FreshId(n) = CHOOSE k \in S : P(k)
  BY DEF FreshId
<1>3. FreshId(n) \in S /\ P(FreshId(n))
  <2> HIDE DEF P, S
  <2>. QED  BY <1>1, <1>2
<1>4. S \subseteq Nat /\ 1 \in UsedIds
  BY FS_CardinalityType DEF AreIds
<1>. QED  BY <1>3, <1>4

LEMMA FreshIdsDiffer ==
  ASSUME AreIds, NEW m \in Nat \ {0}, NEW n \in Nat \ {0}, FreshId(m) = FreshId(n)
  PROVE  m = n
BY FreshIdOf

LEMMA NumberingOf ==
  ASSUME NEW S, IsFiniteSet(S), NEW f, f = Numbering(S)
  PROVE  /\ f \in [S -> 1 .. Cardinality(S)]
         /\ \A x, y \in S : f[x] = f[y] => x = y
         /\ \A x \in S : f[x] \in Nat \ {0}
<1> DEFINE n == Cardinality(S)
<1>1. n \in Nat /\ ExistsBijection(1 .. n, S)
  BY FS_CardinalityType
<1>2. PICK g : g \in Bijection(1 .. n, S)
  BY <1>1 DEF ExistsBijection
<1>3. /\ g \in [1 .. n -> S]
      /\ \A s \in S : \E i \in 1 .. n : g[i] = s
  BY <1>2 DEF Bijection, Surjection
<1> DEFINE h == [s \in S |-> CHOOSE i \in 1 .. n : g[i] = s]
<1>4. \A s \in S : h[s] \in 1 .. n /\ g[h[s]] = s
  BY <1>3
<1>5. h \in [S -> 1 .. n] /\ DOMAIN h = S
  BY <1>4
<1>6. IsInjective(h)
  <2> HIDE DEF h
  <2>. QED  BY <1>4, <1>5 DEF IsInjective
<1>7. f \in [S -> 1 .. n] /\ IsInjective(f)
  <2> HIDE DEF h
  <2>. QED  BY <1>5, <1>6 DEF Numbering
<1>. QED  BY <1>1, <1>7 DEF IsInjective

(* The ids in use are finitely many.                                       *)
LEMMA AreIdsIf ==
  ASSUME NEW kind, AreBlocks(blocks, kind), tree = [d \in Devices |-> tree[d]],
         \A d \in Devices : /\ IsForest(blocks, forest[d], kind)
                            /\ IsTree(blocks, forest[d], kind, tree[d])
  PROVE  AreIds
<1> DEFINE stored == [c \in DOMAIN blocks |-> blocks[c].header.name]
           S == {stored[c] : c \in DOMAIN blocks}
<1>1. UNION S \subseteq Nat /\ IsFiniteSet(UNION S)
  <2>1. \A c \in DOMAIN blocks : stored[c] \subseteq Nat /\ IsFiniteSet(stored[c])
    <3> TAKE c \in DOMAIN blocks
    <3>1. blocks[c].header \in Headers
      <4>1. AsNode(blocks[c], c) \in NodesOver(blocks)
        BY DEF AreBlocks
      <4>2. AsNode(blocks[c], c).header = blocks[c].header
        BY NodeOf DEF AsNode
      <4>. QED  BY <4>1, <4>2, FieldsIn
    <3>. QED  BY <3>1, HeaderOf
  <2>2. IsFiniteSet(DOMAIN blocks)
    BY DEF AreBlocks
  <2>3. \A T \in S : T \subseteq Nat /\ IsFiniteSet(T)
    BY <2>1
  <2>4. IsFiniteSet(S)
    <3> HIDE DEF stored
    <3>. QED  BY <2>2, ValuesOf
  <2> HIDE DEF S
  <2>. QED  BY <2>3, <2>4, FS_UNION
<1> DEFINE nodes(d) == {q \in DOMAIN tree[d] : IsNode(tree[d], q)}
           names(d) == [p \in nodes(d) |-> tree[d][p].header.name]
           N(d) == {names(d)[p] : p \in nodes(d)}
           inTree == [d \in Devices |-> UNION N(d)]
           T == {inTree[d] : d \in Devices}
<1>2. \A d \in Devices : inTree[d] \subseteq Nat /\ IsFiniteSet(inTree[d])
  <2> TAKE d \in Devices
  <2>1. AreThere(forest[d], kind) /\ IsOpen(forest[d], kind, tree[d])
    BY DEF AreThere, IsOpen
  <2>2. \A p \in nodes(d) : names(d)[p] \subseteq Nat /\ IsFiniteSet(names(d)[p])
    BY <2>1, OpenOf, KnownOf, HeaderOf
  <2>3. IsFiniteSet(nodes(d))
    <3>1. nodes(d) \in SUBSET DOMAIN tree[d] /\ IsFiniteSet(DOMAIN tree[d])
      BY <2>1 DEF IsOpen, IsTree
    <3> HIDE DEF nodes
    <3>. QED  BY <3>1, FS_Subset
  <2>4. \A x \in N(d) : x \subseteq Nat /\ IsFiniteSet(x)
    BY <2>2
  <2>5. IsFiniteSet(N(d))
    <3> HIDE DEF names, nodes
    <3>. QED  BY <2>3, ValuesOf
  <2>6. inTree[d] = UNION N(d)
    OBVIOUS
  <2> HIDE DEF N, inTree
  <2>. QED  BY <2>4, <2>5, <2>6, FS_UNION
<1>3. UNION T \subseteq Nat /\ IsFiniteSet(UNION T)
  <2>1. \A x \in T : x \subseteq Nat /\ IsFiniteSet(x)
    BY <1>2
  <2>2. IsFiniteSet(T)
    <3> HIDE DEF inTree
    <3>. QED  BY DevicesAssumption, ValuesOf
  <2> HIDE DEF T
  <2>. QED  BY <2>1, <2>2, FS_UNION
<1>4. UsedIds = (UNION S) \cup (UNION T)
  <2>1. DOMAIN tree = Devices
    OBVIOUS
  <2>2. UNION S = UNION {blocks[c].header.name : c \in DOMAIN blocks}
    OBVIOUS
  <2>3. \A d \in Devices : inTree[d] = UNION {tree[d][p].header.name : p \in nodes(d)}
    OBVIOUS
  <2>4. UNION T = UNION {UNION {tree[d][p].header.name : p \in nodes(d)} : d \in Devices}
    <3> HIDE DEF nodes, inTree
    <3>. QED  BY <2>3
  <2>5. UsedIds = (UNION {blocks[c].header.name : c \in DOMAIN blocks})
                    \cup (UNION {UNION {tree[d][p].header.name : p \in nodes(d)} :
                                   d \in DOMAIN tree})
    BY DEF UsedIds
  <2> HIDE DEF S, T, nodes
  <2>. QED  BY <2>1, <2>2, <2>4, <2>5
<1>5. IsFiniteSet((UNION S) \cup (UNION T))
  <2> HIDE DEF S, T
  <2>. QED  BY <1>1, <1>3, FS_Union
<1>6. 1 \in UNION S
  <2>1. PICK c \in DOMAIN blocks : blocks[c].header = RootHeader
    BY DEF AreBlocks
  <2>2. 1 \in stored[c]
    BY <2>1 DEF RootHeader, NewHeader, Header
  <2>. QED  BY <2>2
<1> HIDE DEF S, T
<1>. QED  BY <1>1, <1>3, <1>4, <1>5, <1>6 DEF AreIds

--------------------------------------------------------------------------------
(* New nodes.                                                              *)

(* More ids are in use.                                                    *)
Extends(kind, other) ==
  /\ other \in Kinds(DOMAIN other) /\ DOMAIN kind \subseteq DOMAIN other
  /\ \A k \in DOMAIN kind : other[k] = kind[k]

LEMMA ExtendedIs ==
  ASSUME NEW B, NEW F, NEW kind, NEW other, Extends(kind, other)
  PROVE  /\ \A n : IsKnown(B, F, kind, n) => IsKnown(B, F, other, n)
         /\ AreBlocks(B, kind) => AreBlocks(B, other)
         /\ IsForest(B, F, kind) => IsForest(B, F, other)
         /\ \A t : IsTree(B, F, kind, t) => IsTree(B, F, other, t)
<1>1. ASSUME NEW n, IsKnown(B, F, kind, n) PROVE IsKnown(B, F, other, n)
  BY <1>1, KnownOf, SameKind DEF Extends
<1>2. ASSUME AreBlocks(B, kind) PROVE AreBlocks(B, other)
  <2>1. ASSUME NEW c \in DOMAIN B PROVE HasKind(other, AsNode(B[c], c))
    <3>1. HasKind(kind, AsNode(B[c], c)) /\ AsNode(B[c], c) \in NodesOver(B)
      BY <1>2 DEF AreBlocks
    <3>2. AsNode(B[c], c).header.id \in AsNode(B[c], c).header.name
      BY <3>1, FieldsIn, HeaderOf
    <3>. QED  BY <3>1, <3>2 DEF HasKind, Extends
  <2>. QED  BY <1>2, <2>1 DEF AreBlocks
<1>3. ASSUME IsForest(B, F, kind) PROVE IsForest(B, F, other)
  BY <1>1, <1>3 DEF IsForest
<1>4. ASSUME NEW t, IsTree(B, F, kind, t) PROVE IsTree(B, F, other, t)
  BY <1>1, <1>4 DEF IsTree
<1>. QED  BY <1>1, <1>2, <1>3, <1>4

LEMMA ExtendedThere ==
  ASSUME NEW F, NEW kind, NEW other, Extends(kind, other)
  PROVE  /\ \A n : IsKnown(blocks, F, kind, n) => IsKnown(blocks, F, other, n)
         /\ AreThere(F, kind) => AreThere(F, other)
         /\ \A t : IsOpen(F, kind, t) => IsOpen(F, other, t)
BY ExtendedIs DEF AreThere, IsOpen

(* What is above a path that is not in the tree ends with the last one     *)
(* that is.                                                                *)
LEMMA DeepestOf ==
  ASSUME NEW t, NEW p \in Seq(Names), NEW there, there = Prefixes(p) \cap DOMAIN t,
         NEW q \in there, \A r \in there : IsPrefix(r, q)
  PROVE  (CHOOSE x \in there : \A r \in there : IsPrefix(r, x)) = q
<1> DEFINE x == CHOOSE x \in there : \A r \in there : IsPrefix(r, x)
<1>1. x \in there /\ \A r \in there : IsPrefix(r, x)
  OBVIOUS
<1>2. x \in Seq(Names) /\ q \in Seq(Names)
  BY <1>1, PrefixesAre
<1>. QED  BY <1>1, <1>2, PrefixOrder

(* A tree holds what is above each of its paths.                           *)
LEMMA AboveAre ==
  ASSUME NEW F, NEW kind, NEW t, AreThere(F, kind), IsOpen(F, kind, t),
         NEW p \in DOMAIN t, NEW q \in Seq(Names), IsPrefix(q, p)
  PROVE  q \in DOMAIN t /\ (q # p => t[q].type = "dir")
<1> DEFINE S == {n \in Nat : \A x \in DOMAIN t : Len(x) = n /\ IsPrefix(q, x) =>
                               q \in DOMAIN t /\ (q # x => t[q].type = "dir")}
<1>1. \A x \in DOMAIN t : x \in Seq(Names) /\ Len(x) \in Nat
  BY OpenOf, LenProperties
<1>2. 0 \in S
  <2> SUFFICES ASSUME NEW x \in DOMAIN t, Len(x) = 0, IsPrefix(q, x)
               PROVE  q \in DOMAIN t /\ (q # x => t[q].type = "dir")
    OBVIOUS
  <2>1. x = <<>>
    BY <1>1, EmptySeq
  <2>2. q = <<>>
    <3>1. <<>> \in Seq(Names)
      BY <1>1, <2>1
    <3>2. IsPrefix(<<>>, q)
      BY PrefixOrder
    <3>. QED  BY <2>1, <3>1, <3>2, PrefixOrder
  <2>. QED  BY <2>1, <2>2
<1>3. ASSUME NEW n \in 0 .. Len(p) - 1, n \in S PROVE n + 1 \in S
  <2> SUFFICES ASSUME NEW x \in DOMAIN t, Len(x) = n + 1, IsPrefix(q, x), q # x
               PROVE  q \in DOMAIN t /\ t[q].type = "dir"
    BY <1>1, <1>3
  <2>1. x \in Seq(Names) /\ x # <<>>
    BY <1>1, <1>3, EmptySeq
  <2>2. IsPrefix(q, Front(x)) /\ Len(Front(x)) = n
    BY <1>3, <2>1, PrefixStep, FrontOf
  <2>3. Front(x) \in DOMAIN t /\ t[Front(x)].type = "dir"
    BY <2>1, OpenOf
  <2>. QED  BY <1>3, <2>2, <2>3
<1>4. Len(p) \in S
  <2>1. Len(p) \in Nat
    BY <1>1
  <2> HIDE DEF S
  <2>2. \A n \in 0 .. Len(p) : n \in S
    BY <1>2, <1>3, <2>1, HoldsUpTo
  <2>. QED  BY <2>1, <2>2
<1>5. p \in DOMAIN t => q \in DOMAIN t /\ (q # p => t[q].type = "dir")
  BY <1>1, <1>4
<1>. QED  BY <1>5

(* A new node below a directory in memory.                                 *)
LEMMA NewChildIs ==
  ASSUME NEW F, NEW kind, NEW other, NEW t, AreIds, AreThere(F, other), IsOpen(F, other, t),
         NEW p \in Seq(Names), p \notin DOMAIN t, NEW q \in Prefixes(p), IsDirIn(t, q),
         \A r \in Prefixes(p) \cap DOMAIN t : IsPrefix(r, q),
         \A n \in 1 .. Len(p) : FreshId(n) \in DOMAIN other,
         NEW type \in Types, other[FreshId(Len(p))] = type,
         NEW content \in Contents \cup {NoContent}
  PROVE  /\ IsKnown(blocks, F, other, NewChild(t, type, p, content))
         /\ NewChild(t, type, p, content).type = type
         /\ NewChild(t, type, p, content).previous = {}
         /\ NewChild(t, type, p, content).persisted_as = {}
<1> DEFINE missing == Prefixes(Front(p)) \ DOMAIN t
           above == {FreshId(Len(r)) : r \in missing}
           there == Prefixes(p) \cap DOMAIN t
           name  == t[q].header.name \cup above
           id    == FreshId(Len(p))
           h     == NewHeader(name, id)
<1>1. (CHOOSE x \in there : \A r \in there : IsPrefix(r, x)) = q
  <2>1. q \in there
    BY DEF IsDirIn
  <2>. QED  BY <2>1, DeepestOf
<1>2. NewChild(t, type, p, content) = Node(type, h, {}, content, {})
  <2>1. NewChild(t, type, p, content) =
          Node(type, NewHeader(t[CHOOSE x \in there : \A r \in there : IsPrefix(r, x)].header.name
                                 \cup above, id),
               {}, content, {})
    BY DEF NewChild
  <2>. QED  BY <1>1, <2>1
<1>3. <<>> \in DOMAIN t
  BY DEF IsOpen, IsTree
<1>4. p # <<>> /\ Len(p) \in Nat \ {0} /\ Front(p) \in Seq(Names) /\ Len(Front(p)) = Len(p) - 1
  BY <1>3, FrontOf
<1>5. \A r \in missing : Len(r) \in 1 .. Len(p)
  <2> TAKE r \in missing
  <2>1. r \in Seq(Names) /\ IsPrefix(r, Front(p))
    BY <1>4, PrefixesAre
  <2>2. Len(r) <= Len(Front(p)) /\ Len(r) \in Nat
    BY <1>4, <2>1, PrefixOf, LenProperties
  <2>3. Len(r) # 0
    BY <1>3, <2>1, EmptySeq
  <2>. QED  BY <1>4, <2>2, <2>3
<1>6. above \subseteq DOMAIN other /\ above \subseteq Nat
  <2>1. ASSUME NEW r \in missing PROVE FreshId(Len(r)) \in DOMAIN other \cap Nat
    <3>1. Len(r) \in 1 .. Len(p) /\ Len(r) \in Nat \ {0}
      BY <1>4, <1>5
    <3> HIDE DEF missing
    <3>. QED  BY <3>1, FreshIdOf
  <2> HIDE DEF missing
  <2>. QED  BY <2>1
<1>7. IsFiniteSet(above)
  <2> DEFINE ids == [n \in 1 .. Len(p) |-> FreshId(n)]
             all == {ids[n] : n \in 1 .. Len(p)}
  <2>1. IsFiniteSet(1 .. Len(p))
    <3>1. 1 \in Int /\ Len(p) \in Int
      BY <1>4
    <3>. QED  BY <3>1, FS_Interval
  <2>2. IsFiniteSet(all)
    <3> HIDE DEF ids
    <3>. QED  BY <2>1, ValuesOf
  <2>3. above \in SUBSET all
    BY <1>5
  <2> HIDE DEF all, above
  <2>. QED  BY <2>2, <2>3, FS_Subset
<1>8. /\ t[q].header.name \subseteq Nat /\ IsFiniteSet(t[q].header.name)
      /\ t[q].header.name \subseteq DOMAIN other
  <2>1. IsKnown(blocks, F, other, t[q])
    BY OpenOf DEF IsDirIn
  <2>. QED  BY <2>1, KnownOf, HeaderOf
<1>9. id \in Nat /\ id \in DOMAIN other /\ id # 1
  <2>1. Len(p) \in 1 .. Len(p)
    BY <1>4
  <2>. QED  BY <1>4, <2>1, FreshIdOf
<1> HIDE DEF missing, above, id
<1>10. name \subseteq Nat /\ IsFiniteSet(name) /\ name \subseteq DOMAIN other
  <2>1. IsFiniteSet(t[q].header.name \cup above)
    BY <1>7, <1>8, FS_Union
  <2>. QED  BY <1>6, <1>8, <2>1
<1> HIDE DEF name
<1>11. /\ h \in Headers /\ h.id = id /\ h.name = name \cup {id} /\ h.rev = 0
  <2>1. IsFiniteSet(name \cup {id})
    BY <1>10, FS_AddElement
  <2>. QED  BY <1>9, <1>10, <2>1 DEF NewHeader, Header, Headers
<1> HIDE DEF h
<1>12. IsKnown(blocks, F, other, Node(type, h, {}, content, {}))
  <2>1. IsFiniteSet({})
    BY FS_EmptySet
  <2>2. h.name \subseteq DOMAIN other /\ type = other[h.id]
    BY <1>9, <1>10, <1>11 DEF id
  <2>3. IsNamed(h) /\ HasEarlier(F, h)
    BY <1>9, <1>11 DEF IsNamed, HasEarlier
  <2>. QED  BY <1>11, <2>1, <2>2, <2>3, KnownIf
<1>. QED  BY <1>2, <1>12, NodeOf

(* Known nodes to add below what is there.                                 *)
AreNew(F, kind, t, new) ==
  /\ IsFiniteSet(DOMAIN new) /\ DOMAIN new \subseteq Seq(Names)
  /\ DOMAIN new \cap DOMAIN t = {}
  /\ \A q \in DOMAIN new :
       /\ IsKnown(blocks, F, kind, new[q])
       /\ \/ Front(q) \in DOMAIN t /\ t[Front(q)].type = "dir"
          \/ Front(q) \in DOMAIN new /\ new[Front(q)].type = "dir"

LEMMA JoinedIs ==
  ASSUME NEW F, NEW kind, NEW t, IsOpen(F, kind, t), NEW new, AreNew(F, kind, t, new),
         NEW u, u = Joined(t, new)
  PROVE  /\ IsOpen(F, kind, u) /\ DOMAIN u = DOMAIN t \cup DOMAIN new
         /\ \A q \in DOMAIN new : u[q] = new[q]
         /\ \A q \in DOMAIN t : u[q] = t[q]
<1> DEFINE N == DOMAIN new
<1>0. /\ IsFiniteSet(N) /\ N \subseteq Seq(Names) /\ N \cap DOMAIN t = {}
      /\ \A q \in N : IsKnown(blocks, F, kind, new[q])
      /\ \A q \in N : \/ Front(q) \in DOMAIN t /\ t[Front(q)].type = "dir"
                      \/ Front(q) \in N /\ new[Front(q)].type = "dir"
  BY DEF AreNew
<1>1. /\ DOMAIN u = DOMAIN t \cup N /\ u = [q \in DOMAIN u |-> u[q]]
      /\ \A q \in N : u[q] = new[q]
      /\ \A q \in DOMAIN t : u[q] = t[q]
  BY <1>0 DEF Joined
<1>2. IsFiniteSet(DOMAIN t \cup N)
  BY <1>0, FS_Union DEF IsOpen, IsTree
<1>3. <<>> \in DOMAIN u /\ u[<<>>].type = "dir"
  BY <1>1 DEF IsOpen, IsTree
<1>4. \A q \in DOMAIN u : u[q] \in F \/ IsKnown(blocks, F, kind, u[q])
  BY <1>0, <1>1 DEF IsOpen, IsTree
<1>5. \A q \in DOMAIN u \ {<<>>} : Front(q) \in DOMAIN u /\ u[Front(q)].type = "dir"
  <2> TAKE q \in DOMAIN u \ {<<>>}
  <2>1. CASE q \in N
    BY <1>0, <1>1, <2>1
  <2>2. CASE q \in DOMAIN t
    BY <1>1, <2>2 DEF IsOpen, IsTree
  <2>. QED  BY <1>1, <2>1, <2>2
<1>6. DOMAIN u \subseteq Seq(Names)
  BY <1>0, <1>1 DEF IsOpen, IsTree
<1>7. IsTree(blocks, F, kind, u)
  BY <1>1, <1>2, <1>3, <1>4, <1>5, <1>6 DEF IsTree
<1>. QED  BY <1>1, <1>7 DEF IsOpen

LEMMA PrefixesFinite ==
  ASSUME NEW S, NEW p \in Seq(S)
  PROVE  IsFiniteSet(Prefixes(p))
<1> DEFINE part == [n \in 0 .. Len(p) |-> Part(p, n)]
           all == {part[n] : n \in 0 .. Len(p)}
<1>1. Len(p) \in Nat
  BY LenProperties
<1>2. IsFiniteSet(all)
  <2>1. 0 \in Int /\ Len(p) \in Int
    BY <1>1
  <2>2. IsFiniteSet(0 .. Len(p))
    BY <2>1, FS_Interval
  <2> HIDE DEF part
  <2>. QED  BY <2>2, ValuesOf
<1>3. ASSUME NEW q \in Prefixes(p) PROVE q \in all
  <2>1. q \in Seq(S) /\ IsPrefix(q, p)
    BY PrefixesAre
  <2>2. Len(q) \in 0 .. Len(p) /\ \A i \in 1 .. Len(q) : q[i] = p[i]
    BY <1>1, <2>1, PrefixOf, LenProperties
  <2>3. PICK r : r = Part(p, Len(q))
    OBVIOUS
  <2>4. r \in Seq(S) /\ Len(r) = Len(q) /\ r \in Prefixes(p)
    <3>1. r \in Seq(S) /\ Len(r) = Len(q)
      BY <2>2, <2>3, PartOf
    <3>2. r \in Prefixes(p)
      BY <2>2, <2>3, PartOf
    <3>. QED  BY <3>1, <3>2
  <2>5. \A i \in 1 .. Len(r) : r[i] = p[i]
    <3>1. IsPrefix(r, p)
      BY <2>4, PrefixesAre
    <3>. QED  BY <2>4, <3>1, PrefixOf
  <2>6. r = q
    BY <2>1, <2>2, <2>4, <2>5, SeqEqual
  <2>. QED  BY <2>2, <2>3, <2>6
<1> HIDE DEF all
<1>4. Prefixes(p) \in SUBSET all
  BY <1>3
<1>. QED  BY <1>2, <1>4, FS_Subset

(* The ids of new directories down to a path and of a node there.          *)
FreshFor(other, n, type) ==
  \A i \in 1 .. n : /\ FreshId(i) \in DOMAIN other
                    /\ other[FreshId(i)] = IF i = n THEN type ELSE "dir"

LEMMA CreatedIs ==
  ASSUME NEW F, NEW kind, NEW other, AreIds, AreThere(F, kind), Extends(kind, other),
         NEW path \in Seq(Names), \A i \in 1 .. Len(path) :
           FreshId(i) \in DOMAIN other /\ other[FreshId(i)] = "dir",
         NEW t, IsOpen(F, kind, t), NEW w, w = CreateLeafDirMut(F, t, path)
  PROVE  /\ IsOpen(F, other, w.tree)
         /\ w.at = "dir" => IsDirIn(w.tree, path)
<1>1. PICK v : v = LeafDirMut(F, t, path)
  OBVIOUS
<1>2. /\ IsWalk(F, kind, path, Len(path), v)
      /\ v.at = "dir" => IsDirIn(v.tree, path)
  BY <1>1, LeafDirMutIs
<1>3. w = Created(v, path)
  BY <1>1 DEF CreateLeafDirMut
<1>4. IsOpen(F, other, v.tree) /\ AreThere(F, other)
  BY <1>2, ExtendedThere DEF IsWalk
<1>5. CASE v.at # "missing"
  BY <1>2, <1>3, <1>4, <1>5 DEF Created
<1>6. CASE v.at = "missing"
  <2> DEFINE s == v.tree
             N == Prefixes(path) \ DOMAIN s
             new == [q \in N |-> NewChild(s, "dir", q, NoContent)]
  <2>1. PICK j \in 0 .. Len(path) - 1 :
          /\ IsDirIn(s, Part(path, j))
          /\ Part(path, j + 1) \notin DOMAIN s
    BY <1>2, <1>6 DEF IsWalk
  <2>2. Len(path) \in Nat /\ j \in 0 .. Len(path) /\ j + 1 \in 0 .. Len(path)
        /\ (j + 1) - 1 = j
    BY <2>1, LenProperties
  <2>3. PICK d, e : d = Part(path, j) /\ e = Part(path, j + 1)
    OBVIOUS
  <2>4. /\ d \in Seq(Names) /\ Len(d) = j /\ d \in Prefixes(path)
        /\ e \in Seq(Names) /\ Len(e) = j + 1 /\ e \in Prefixes(path)
        /\ e # <<>> /\ Front(e) = d
    <3>1. d \in Seq(Names) /\ Len(d) = j
      BY <2>2, <2>3, PartOf
    <3>2. d \in Prefixes(path)
      BY <2>2, <2>3, PartOf
    <3>3. PICK i : i = j + 1
      OBVIOUS
    <3>4. i \in 0 .. Len(path) /\ e = Part(path, i) /\ i - 1 = j /\ i # 0
      BY <2>1, <2>2, <2>3, <3>3
    <3>5. e \in Seq(Names) /\ Len(e) = i
      BY <3>4, PartOf
    <3>6. e \in Prefixes(path)
      BY <3>4, PartOf
    <3>7. e # <<>> /\ Front(e) = Part(path, i - 1)
      BY <3>4, PartOf
    <3>. QED  BY <2>3, <3>1, <3>2, <3>3, <3>4, <3>5, <3>6, <3>7
  <2>5. IsDirIn(s, d) /\ e \notin DOMAIN s
    BY <2>1, <2>3
  <2> HIDE DEF s
  <2>6. IsOpen(F, other, s) /\ AreThere(F, other)
    BY <1>4 DEF s
  <2>7. ASSUME NEW q \in Prefixes(path)
        PROVE  /\ q \in Seq(Names)
               /\ q \notin DOMAIN s => IsPrefix(e, q)
               /\ q \in DOMAIN s => IsPrefix(q, d)
    <3>1. q \in Seq(Names) /\ IsPrefix(q, path) /\ IsPrefix(e, path) /\ IsPrefix(d, e)
      BY <2>4, PrefixesAre, PrefixStep, PrefixOrder
    <3>2. IsPrefix(q, e) \/ IsPrefix(e, q)
      BY <2>4, <3>1, PrefixOrder
    <3>3. IsPrefix(q, d) \/ IsPrefix(e, q)
      BY <2>4, <3>1, <3>2, PrefixStep, PrefixOrder
    <3>4. IsPrefix(q, d) => q \in DOMAIN s
      BY <2>5, <2>6, <3>1, AboveAre DEF IsDirIn
    <3>5. IsPrefix(e, q) => q \notin DOMAIN s
      BY <2>4, <2>5, <2>6, AboveAre
    <3>. QED  BY <3>1, <3>3, <3>4, <3>5
  <2>8. ASSUME NEW q \in N
        PROVE  IsKnown(blocks, F, other, new[q]) /\ new[q].type = "dir"
    <3>1. q \in Seq(Names) /\ q \notin DOMAIN s /\ q \in Prefixes(path)
      BY <2>7
    <3>2. IsPrefix(e, q) /\ IsPrefix(d, e)
      BY <2>4, <2>7, <3>1, PrefixStep, PrefixOrder
    <3>3. d \in Prefixes(q)
      BY <2>4, <3>1, <3>2, PrefixOrder, PrefixesAre
    <3>4. \A r \in Prefixes(q) \cap DOMAIN s : IsPrefix(r, d)
      <4> TAKE r \in Prefixes(q) \cap DOMAIN s
      <4>1. r \in Seq(Names) /\ IsPrefix(r, q) /\ IsPrefix(q, path)
        BY <3>1, PrefixesAre
      <4>2. r \in Prefixes(path)
        BY <3>1, <4>1, PrefixOrder, PrefixesAre
      <4>. QED  BY <2>7, <4>2
    <3>5. Len(q) <= Len(path) /\ Len(q) \in Nat
      BY <3>1, PrefixesAre, PrefixOf, LenProperties
    <3>6. Len(q) # 0
      <4>1. <<>> \in DOMAIN s
        BY <2>6 DEF IsOpen, IsTree
      <4>. QED  BY <3>1, <4>1, EmptySeq
    <3>7. /\ \A i \in 1 .. Len(q) : FreshId(i) \in DOMAIN other
          /\ other[FreshId(Len(q))] = "dir"
      BY <2>2, <3>5, <3>6
    <3>8. "dir" \in Types /\ NoContent \in Contents \cup {NoContent}
      BY DEF Types
    <3>9. PICK type, content : type = "dir" /\ content = NoContent
      OBVIOUS
    <3>10. type \in Types /\ other[FreshId(Len(q))] = type /\ content \in Contents \cup {NoContent}
      BY <3>7, <3>8, <3>9
    <3>11. PICK n : n = NewChild(s, type, q, content)
      OBVIOUS
    <3>12. IsKnown(blocks, F, other, n) /\ n.type = type
      <4> HIDE DEF N
      <4>1. IsKnown(blocks, F, other, n)
        BY <2>5, <2>6, <3>1, <3>3, <3>4, <3>7, <3>10, <3>11, NewChildIs
      <4>2. n.type = type
        BY <2>5, <2>6, <3>1, <3>3, <3>4, <3>7, <3>10, <3>11, NewChildIs
      <4>. QED  BY <4>1, <4>2
    <3>. QED  BY <3>9, <3>11, <3>12
  <2>9. ASSUME NEW q \in N
        PROVE  \/ Front(q) \in DOMAIN s /\ s[Front(q)].type = "dir"
               \/ Front(q) \in N /\ new[Front(q)].type = "dir"
    <3>1. q \in Seq(Names) /\ q \in Prefixes(path) /\ IsPrefix(e, q)
      BY <2>7
    <3>2. q # <<>>
      <4>1. <<>> \in DOMAIN s
        BY <2>6 DEF IsOpen, IsTree
      <4>. QED  BY <4>1
    <3>3. CASE q = e
      BY <2>4, <2>5, <3>3 DEF IsDirIn
    <3>4. CASE q # e
      <4>1. IsPrefix(e, Front(q)) /\ Front(q) \in Seq(Names) /\ IsPrefix(Front(q), q)
        BY <2>4, <3>1, <3>2, <3>4, PrefixStep, PrefixOrder, FrontOf
      <4>2. Front(q) \in Prefixes(path)
        BY <3>1, <4>1, PrefixesAre, PrefixOrder
      <4>3. Front(q) \notin DOMAIN s
        BY <2>4, <2>5, <2>6, <4>1, AboveAre
      <4>. QED  BY <2>8, <4>2, <4>3
    <3>. QED  BY <3>3, <3>4
  <2>10. IsFiniteSet(N)
    <3>1. IsFiniteSet(Prefixes(path))
      BY PrefixesFinite
    <3>. QED  BY <3>1, FS_Difference
  <2>11. N \subseteq Seq(Names) /\ N \cap DOMAIN s = {}
    BY <2>7
  <2>12. w.tree = Joined(s, new) /\ w.at = "dir"
    BY <1>3, <1>6, AtOf DEF Created, s
  <2>13. DOMAIN new = N
    OBVIOUS
  <2>14. path \in N
    <3>1. path \in Prefixes(path) /\ IsPrefix(e, path)
      BY <2>4, PrefixOrder, PrefixesAre
    <3>2. path \notin DOMAIN s
      BY <2>4, <2>5, <2>6, <3>1, AboveAre
    <3>. QED  BY <3>1, <3>2
  <2> HIDE DEF new, N
  <2>15. PICK u : u = w.tree
    OBVIOUS
  <2>16. IsOpen(F, other, u) /\ DOMAIN u = DOMAIN s \cup N /\ \A q \in N : u[q] = new[q]
    <3>1. u = Joined(s, new)
      BY <2>12, <2>15
    <3>2. \A q \in N : IsKnown(blocks, F, other, new[q])
      BY <2>8
    <3>3. \A q \in N : \/ Front(q) \in DOMAIN s /\ s[Front(q)].type = "dir"
                       \/ Front(q) \in N /\ new[Front(q)].type = "dir"
      BY <2>9
    <3>4. AreNew(F, other, s, new)
      BY <2>10, <2>11, <2>13, <3>2, <3>3 DEF AreNew
    <3>5. IsOpen(F, other, u)
      BY <2>6, <3>1, <3>4, JoinedIs
    <3>6. /\ DOMAIN u = DOMAIN s \cup DOMAIN new
          /\ \A q \in DOMAIN new : u[q] = new[q]
      BY <2>11, <2>13, <3>1 DEF Joined
    <3>. QED  BY <2>13, <3>5, <3>6
  <2>. QED  BY <2>8, <2>14, <2>15, <2>16 DEF IsDirIn
<1>. QED  BY <1>5, <1>6

LEMMA FreshKind ==
  ASSUME AreIds, NEW kind \in Kinds(UsedIds), NEW n \in Nat, NEW type \in Types
  PROVE  \E other : Extends(kind, other) /\ FreshFor(other, n, type)
<1> DEFINE new == {FreshId(i) : i \in 1 .. n}
           other == [k \in UsedIds \cup new |->
                       IF k \in UsedIds THEN kind[k]
                       ELSE IF k = FreshId(n) THEN type ELSE "dir"]
<1>1. DOMAIN kind = UsedIds /\ \A k \in UsedIds : kind[k] \in Types
  BY DEF Kinds
<1>2. DOMAIN other = UsedIds \cup new
  OBVIOUS
<1>3. \A k \in UsedIds : other[k] = kind[k]
  OBVIOUS
<1>4. \A k \in DOMAIN other : other[k] \in Types
  BY <1>1 DEF Types
<1>5. other = [k \in DOMAIN other |-> other[k]]
  OBVIOUS
<1>6. ASSUME NEW i \in 1 .. n
      PROVE  /\ FreshId(i) \in DOMAIN other
             /\ other[FreshId(i)] = IF i = n THEN type ELSE "dir"
  <2>1. i \in Nat \ {0} /\ n \in Nat \ {0}
    OBVIOUS
  <2>2. FreshId(i) \notin UsedIds
    BY <2>1, FreshIdOf
  <2>3. FreshId(i) = FreshId(n) <=> i = n
    BY <2>1, FreshIdsDiffer
  <2>4. FreshId(i) \in new
    OBVIOUS
  <2>. QED  BY <2>2, <2>3, <2>4
<1> HIDE DEF other, new
<1>7. Extends(kind, other)
  BY <1>1, <1>2, <1>3, <1>4, <1>5 DEF Extends, Kinds
<1>. QED  BY <1>6, <1>7 DEF FreshFor

LEMMA OutcomeOf ==
  ASSUME NEW t, NEW done PROVE Outcome(t, done).tree = t /\ Outcome(t, done).done = done
BY DEF Outcome

LEMMA EditedIs ==
  ASSUME NEW F, NEW kind, NEW u, AreThere(F, kind), IsOpen(F, kind, u),
         NEW p \in DOMAIN u, IsNode(u, p), NEW newContent \in Contents \cup {NoContent},
         NEW keep \in BOOLEAN
  PROVE  IsOpen(F, kind, Edited(u, p, newContent, keep).tree)
<1>1. PICK v : v = Advanced(u, p)
  OBVIOUS
<1>2. IsOpen(F, kind, v) /\ p \in DOMAIN v /\ IsKnown(blocks, F, kind, v[p])
  BY <1>1, AdvancedIs
<1>3. PICK n : n = WithContent(v[p], newContent)
  OBVIOUS
<1>4. IsKnown(blocks, F, kind, n) /\ n.type = v[p].type
  <2>1. n = Node(v[p].type, v[p].header, v[p].previous, newContent, v[p].persisted_as)
    BY <1>3 DEF WithContent
  <2>2. IsKnown(blocks, F, kind,
                Node(v[p].type, v[p].header, v[p].previous, newContent, v[p].persisted_as))
    <3>1. PICK m : m = v[p]
      OBVIOUS
    <3>2. /\ m.type \in Types /\ m.header \in Headers
          /\ m.previous \subseteq Links(blocks) /\ IsFiniteSet(m.previous)
          /\ m.persisted_as \in {{}} \cup {{c} : c \in DOMAIN blocks}
          /\ \A c \in m.persisted_as : Ref(m.header, c) \in F
          /\ \A l \in m.previous : IsLink(blocks, F, m.header, l)
          /\ m.header.name \subseteq DOMAIN kind /\ m.type = kind[m.header.id]
          /\ IsNamed(m.header) /\ HasEarlier(F, m.header)
      BY <1>2, <3>1, KnownOf
    <3>3. IsKnown(blocks, F, kind, Node(m.type, m.header, m.previous, newContent, m.persisted_as))
      BY <3>2, KnownIf
    <3>. QED  BY <3>1, <3>3
  <2>. QED  BY <2>1, <2>2, NodeOf
<1>5. PICK x : x = [v EXCEPT ![p] = n]
  OBVIOUS
<1>6. IsOpen(F, kind, x)
  BY <1>2, <1>4, <1>5, ExchangedIs
<1>7. Edited(u, p, newContent, keep).tree \in {u, v, x}
  <2>1. x = [Advanced(u, p) EXCEPT ![p] = WithContent(Advanced(u, p)[p], newContent)]
    BY <1>1, <1>3, <1>5
  <2>2. PICK y : y = [Advanced(u, p) EXCEPT ![p] = WithContent(@, newContent)]
    OBVIOUS
  <2>3. y = x
    BY <2>1, <2>2
  <2>4. Edited(u, p, newContent, keep) \in
          {Outcome(u, FALSE), Outcome(Advanced(u, p), TRUE), Outcome(y, TRUE)}
    <3>1. CASE u[p].type = "dir"
      BY <3>1 DEF Edited
    <3>2. CASE u[p].type # "dir" /\ keep
      BY <3>2 DEF Edited
    <3>3. CASE u[p].type # "dir" /\ ~keep
      <4>1. Edited(u, p, newContent, keep) =
              Outcome([Advanced(u, p) EXCEPT ![p] = WithContent(@, newContent)], TRUE)
        BY <3>3 DEF Edited
      <4>. QED  BY <2>2, <4>1
    <3>. QED  BY <3>1, <3>2, <3>3
  <2>5. PICK e : e = Edited(u, p, newContent, keep)
    OBVIOUS
  <2>6. e \in {Outcome(u, FALSE), Outcome(v, TRUE), Outcome(x, TRUE)}
    BY <1>1, <2>3, <2>4, <2>5
  <2>7. /\ Outcome(u, FALSE).tree = u /\ Outcome(v, TRUE).tree = v
        /\ Outcome(x, TRUE).tree = x
    BY OutcomeOf
  <2>8. e.tree \in {u, v, x}
    BY <2>6, <2>7
  <2>. QED  BY <2>5, <2>8
<1>. QED  BY <1>2, <1>6, <1>7

(* Writing or opening a file.                                              *)
LEMMA WithFileIs ==
  ASSUME NEW F, NEW kind \in Kinds(UsedIds), AreIds, AreThere(F, kind),
         NEW t, IsOpen(F, kind, t), NEW p \in Seq(Names), p # <<>>,
         NEW newContent \in Contents \cup {NoContent}, NEW keep \in BOOLEAN
  PROVE  \E other : /\ Extends(kind, other)
                    /\ IsOpen(F, other, WithFile(F, t, p, newContent, keep).tree)
<1>1. Front(p) \in Seq(Names) /\ Len(p) \in Nat \ {0} /\ Len(Front(p)) = Len(p) - 1
  BY FrontOf
<1>2. PICK other : Extends(kind, other) /\ FreshFor(other, Len(p), "file")
  BY <1>1, FreshKind DEF Types
<1>3. PICK w : w = CreateLeafDirMut(F, t, Front(p))
  OBVIOUS
<1>4. AreThere(F, other)
  BY <1>2, ExtendedThere
<1>5. \A i \in 1 .. Len(Front(p)) : FreshId(i) \in DOMAIN other /\ other[FreshId(i)] = "dir"
  BY <1>1, <1>2 DEF FreshFor
<1>6. IsOpen(F, other, w.tree) /\ (w.at = "dir" => IsDirIn(w.tree, Front(p)))
  BY <1>1, <1>2, <1>3, <1>5, CreatedIs
<1>7. PICK x : x = FileIn(F, w, p, newContent, keep)
  OBVIOUS
<1>8. IsOpen(F, other, x.tree)
  <2>1. CASE w.at # "dir"
    BY <1>6, <1>7, <2>1, OutcomeOf DEF FileIn
  <2>2. CASE w.at = "dir" /\ p \notin DOMAIN w.tree
    <3> DEFINE new == [q \in {p} |-> NewChild(w.tree, "file", q, newContent)]
    <3>1. x.tree = Joined(w.tree, new)
      BY <1>7, <2>2, OutcomeOf DEF FileIn
    <3>2. DOMAIN new = {p} /\ new[p] = NewChild(w.tree, "file", p, newContent)
      OBVIOUS
    <3>3. IsDirIn(w.tree, Front(p)) /\ Front(p) \in Prefixes(p)
      <4>1. IsPrefix(Front(p), p)
        BY <1>1, PrefixStep, PrefixOrder
      <4>. QED  BY <1>1, <1>6, <2>2, <4>1, PrefixesAre
    <3>4. \A r \in Prefixes(p) \cap DOMAIN w.tree : IsPrefix(r, Front(p))
      BY <2>2, PrefixesAre, PrefixStep
    <3>5. \A i \in 1 .. Len(p) : FreshId(i) \in DOMAIN other
      BY <1>2 DEF FreshFor
    <3>6. PICK type : type = "file"
      OBVIOUS
    <3>7. type \in Types /\ other[FreshId(Len(p))] = type
      BY <1>1, <1>2, <3>6 DEF FreshFor, Types
    <3>8. IsKnown(blocks, F, other, NewChild(w.tree, type, p, newContent))
      BY <1>4, <1>6, <2>2, <3>3, <3>4, <3>5, <3>7, NewChildIs
    <3>9. IsFiniteSet({p})
      BY FS_Singleton
    <3> HIDE DEF new
    <3>10. AreNew(F, other, w.tree, new)
      BY <2>2, <3>2, <3>3, <3>6, <3>8, <3>9 DEF AreNew, IsDirIn
    <3>11. PICK s, u : s = w.tree /\ u = x.tree
      OBVIOUS
    <3>12. IsOpen(F, other, s) /\ AreNew(F, other, s, new) /\ u = Joined(s, new)
      BY <1>6, <3>1, <3>10, <3>11
    <3>13. IsOpen(F, other, u)
      BY <3>12, JoinedIs
    <3>. QED  BY <3>11, <3>13
  <2>3. CASE w.at = "dir" /\ p \in DOMAIN w.tree
    <3> DEFINE results == {Edited(u, p, newContent, keep) : u \in Opened(F, w.tree, p)}
    <3>1. x = OneOf(results, Outcome(w.tree, FALSE))
      BY <1>7, <2>3 DEF FileIn
    <3>2. CASE results = {}
      <4>1. x = Outcome(w.tree, FALSE)
        <5> HIDE DEF results
        <5>. QED  BY <3>1, <3>2, OneIs
      <4>. QED  BY <1>6, <4>1, OutcomeOf
    <3>3. CASE results # {}
      <4>1. x \in results
        <5> HIDE DEF results
        <5>. QED  BY <3>1, <3>3, OneIs
      <4>2. PICK u \in Opened(F, w.tree, p) : x = Edited(u, p, newContent, keep)
        BY <4>1
      <4>3. IsOpen(F, other, u) /\ p \in DOMAIN u /\ IsNode(u, p)
        BY <1>4, <1>6, <2>3, OpenedIs
      <4>. QED  BY <1>4, <4>2, <4>3, EditedIs
    <3>. QED  BY <3>2, <3>3
  <2>. QED  BY <2>1, <2>2, <2>3
<1>. QED  BY <1>2, <1>3, <1>7, <1>8 DEF WithFile

LEMMA MadeDirIs ==
  ASSUME NEW F, NEW kind \in Kinds(UsedIds), AreIds, AreThere(F, kind),
         NEW t, IsOpen(F, kind, t), NEW path \in Seq(Names)
  PROVE  \E other : Extends(kind, other) /\ IsOpen(F, other, MadeDir(F, t, path).tree)
<1>1. Len(path) \in Nat
  BY LenProperties
<1>2. PICK other : Extends(kind, other) /\ FreshFor(other, Len(path), "dir")
  BY <1>1, FreshKind DEF Types
<1>3. PICK w : w = CreateLeafDirMut(F, t, path)
  OBVIOUS
<1>4. \A i \in 1 .. Len(path) : FreshId(i) \in DOMAIN other /\ other[FreshId(i)] = "dir"
  BY <1>2 DEF FreshFor
<1>5. IsOpen(F, other, w.tree)
  BY <1>2, <1>3, <1>4, CreatedIs
<1>6. MadeDir(F, t, path).tree = w.tree
  BY <1>3, OutcomeOf DEF MadeDir
<1>. QED  BY <1>2, <1>5, <1>6

(* A tree without a path and what is below it.                             *)
LEMMA PrunedIs ==
  ASSUME NEW F, NEW kind, NEW t, AreThere(F, kind), IsOpen(F, kind, t),
         NEW p \in Seq(Names), p # <<>>, NEW u, u = Pruned(t, p)
  PROVE  IsOpen(F, kind, u) /\ p \notin DOMAIN u
<1>1. /\ DOMAIN u = {x \in DOMAIN t : ~IsPrefix(p, x)}
      /\ u = [q \in DOMAIN u |-> u[q]] /\ \A q \in DOMAIN u : u[q] = t[q]
  BY DEF Pruned
<1>2. \A q \in DOMAIN u : q \in DOMAIN t /\ q \in Seq(Names) /\ ~IsPrefix(p, q)
  BY <1>1, OpenOf
<1>3. IsFiniteSet(DOMAIN u)
  <2>1. DOMAIN u \in SUBSET DOMAIN t
    BY <1>2
  <2>. QED  BY <2>1, FS_Subset DEF IsOpen, IsTree
<1>4. <<>> \in DOMAIN u /\ u[<<>>].type = "dir"
  <2>1. <<>> \in DOMAIN t /\ t[<<>>].type = "dir"
    BY DEF IsOpen, IsTree
  <2>2. <<>> \in Seq(Names)
    BY <2>1, OpenOf
  <2>3. ~IsPrefix(p, <<>>)
    BY <2>2, PrefixOrder
  <2>. QED  BY <1>1, <2>1, <2>3
<1>5. \A q \in DOMAIN u \ {<<>>} : Front(q) \in DOMAIN u /\ u[Front(q)].type = "dir"
  <2> TAKE q \in DOMAIN u \ {<<>>}
  <2>1. Front(q) \in DOMAIN t /\ t[Front(q)].type = "dir"
    BY <1>2, OpenOf
  <2>2. ~IsPrefix(p, Front(q))
    BY <1>2, PrefixStep
  <2>. QED  BY <1>1, <2>1, <2>2
<1>6. \A q \in DOMAIN u : u[q] \in F \/ IsKnown(blocks, F, kind, u[q])
  BY <1>1, <1>2 DEF IsOpen, IsTree
<1>7. IsTree(blocks, F, kind, u)
  BY <1>1, <1>2, <1>3, <1>4, <1>5, <1>6 DEF IsTree
<1>. QED  BY <1>2, <1>7, PrefixOrder DEF IsOpen

LEMMA RemovedIs ==
  ASSUME NEW F, NEW kind, AreThere(F, kind), NEW t, IsOpen(F, kind, t),
         NEW p \in Seq(Names), p # <<>>
  PROVE  /\ IsOpen(F, kind, Removed(F, t, p).tree)
         /\ \A u \in TakenOut(F, t, p) : IsOpen(F, kind, u) /\ p \in DOMAIN u
<1>1. PICK w : w = LeafDirMut(F, t, Front(p))
  OBVIOUS
<1>2. IsOpen(F, kind, w.tree)
  BY <1>1, FrontOf, LeafDirMutIs DEF IsWalk
<1>3. Removed(F, t, p).tree = IF w.at = "dir" THEN Pruned(w.tree, p) ELSE w.tree
  BY <1>1, OutcomeOf DEF Removed
<1>4. IsOpen(F, kind, Removed(F, t, p).tree)
  <2>1. CASE w.at = "dir"
    <3>1. PICK u : u = Pruned(w.tree, p)
      OBVIOUS
    <3>2. IsOpen(F, kind, u)
      BY <1>2, <3>1, PrunedIs
    <3>. QED  BY <1>3, <2>1, <3>1, <3>2
  <2>. QED  BY <1>2, <1>3, <2>1
<1>5. ASSUME NEW u \in TakenOut(F, t, p) PROVE IsOpen(F, kind, u) /\ p \in DOMAIN u
  <2>1. p \in DOMAIN w.tree /\ u \in Resolved(F, w.tree, p)
    BY <1>1 DEF TakenOut, TakenFrom
  <2>. QED  BY <1>2, <2>1, ResolvedIs
<1>. QED  BY <1>4, <1>5

(* What is at a path, found on a copy.                                     *)
AreFound(F, kind, p, i, S) ==
  \A u \in S : IsOpen(F, kind, u) /\ Part(p, i) \in DOMAIN u /\ IsNode(u, Part(p, i))

LEMMA FoundIs ==
  ASSUME NEW F, NEW kind, AreThere(F, kind), NEW t, IsOpen(F, kind, t),
         NEW p \in Seq(Names), NEW u \in Found(F, t, p)
  PROVE  IsOpen(F, kind, u) /\ p \in DOMAIN u /\ IsNode(u, p)
<1> DEFINE K == Len(p)
           Start == Searched(F, t, <<>>)
           Then(S, i) == UNION {Opened(F, v, Part(p, i)) :
                                  v \in {x \in S : Part(p, i) \in DOMAIN x}}
           G(m, i) == [n \in 0 .. i |-> IF n = 0 THEN Start ELSE Then(m[n - 1], n)]
           found == CHOOSE m : m = G(m, K)
<1>1. K \in Nat
  BY LenProperties
<1>2. Found(F, t, p) = found[K]
  BY DEF Found, Part
<1>3. AreFound(F, kind, p, 0, Start)
  <2>1. <<>> \in DOMAIN t /\ IsNode(t, <<>>)
    BY OpenOf DEF IsOpen, IsTree
  <2>2. Part(p, 0) = <<>>
    BY <1>1, PartOf
  <2>3. \A v \in Searched(F, t, <<>>) :
          IsOpen(F, kind, v) /\ <<>> \in DOMAIN v /\ IsNode(v, <<>>)
    BY <2>1, SearchedIs
  <2>. QED  BY <2>2, <2>3 DEF AreFound
<1>4. ASSUME NEW S, NEW i \in 0 .. K - 1, AreFound(F, kind, p, i, S)
      PROVE  AreFound(F, kind, p, i + 1, Then(S, i + 1))
  <2>1. PICK q : q = Part(p, i + 1)
    OBVIOUS
  <2>2. ASSUME NEW y \in Then(S, i + 1)
        PROVE  IsOpen(F, kind, y) /\ q \in DOMAIN y /\ IsNode(y, q)
    <3>1. PICK v \in S : q \in DOMAIN v /\ y \in Opened(F, v, q)
      BY <2>1
    <3>2. IsOpen(F, kind, v)
      BY <1>4 DEF AreFound
    <3>. QED  BY <3>1, <3>2, OpenedIs
  <2> HIDE DEF Then
  <2>. QED  BY <2>1, <2>2 DEF AreFound
<1> HIDE DEF K, Start, Then
<1>5. \E m : m = G(m, K)
  <2> DEFINE S == {i \in Nat : \E m : m = G(m, i)}
  <2>1. 0 \in S
    <3> DEFINE m == [n \in 0 .. 0 |-> Start]
    <3>1. m = G(m, 0)
      OBVIOUS
    <3>. QED  BY <3>1
  <2>2. ASSUME NEW i \in 0 .. K - 1, i \in S PROVE i + 1 \in S
    <3>1. PICK m : m = G(m, i)
      BY <2>2
    <3> DEFINE o == [n \in 0 .. i + 1 |-> IF n = i + 1 THEN Then(m[i], n) ELSE m[n]]
    <3>2. ASSUME NEW n \in 0 .. i + 1
          PROVE  o[n] = IF n = 0 THEN Start ELSE Then(o[n - 1], n)
      <4>1. CASE n = i + 1
        BY <4>1
      <4>2. CASE n # i + 1
        <5>1. n \in 0 .. i /\ o[n] = m[n] /\ (n # 0 => o[n - 1] = m[n - 1])
          BY <4>2
        <5>2. m[n] = IF n = 0 THEN Start ELSE Then(m[n - 1], n)
          BY <3>1, <5>1
        <5>. QED  BY <5>1, <5>2
      <4>. QED  BY <4>1, <4>2
    <3>3. o = [n \in 0 .. i + 1 |-> o[n]]
      OBVIOUS
    <3> HIDE DEF o
    <3>4. o = G(o, i + 1)
      BY <3>2, <3>3
    <3>. QED  BY <3>4
  <2>3. K \in S
    <3> HIDE DEF S
    <3>1. \A i \in 0 .. K : i \in S
      BY <1>1, <2>1, <2>2, HoldsUpTo
    <3>. QED  BY <1>1, <3>1
  <2>. QED  BY <2>3
<1>6. found = G(found, K)
  BY <1>5
<1> HIDE DEF found
<1> DEFINE I == {i \in Nat : i <= K => AreFound(F, kind, p, i, found[i])}
<1>7. 0 \in I
  BY <1>1, <1>3, <1>6
<1>8. ASSUME NEW i \in 0 .. K - 1, i \in I PROVE i + 1 \in I
  <2>1. found[i + 1] = Then(found[i], i + 1)
    BY <1>1, <1>6
  <2>2. AreFound(F, kind, p, i, found[i])
    BY <1>1, <1>8
  <2>3. AreFound(F, kind, p, i + 1, found[i + 1])
    BY <1>4, <2>1, <2>2
  <2>. QED  BY <1>1, <2>3
<1>9. K \in I
  <2> HIDE DEF I
  <2>1. \A i \in 0 .. K : i \in I
    BY <1>1, <1>7, <1>8, HoldsUpTo
  <2>. QED  BY <1>1, <2>1
<1>10. AreFound(F, kind, p, K, found[K])
  BY <1>1, <1>9
<1>11. Part(p, K) = p
  <2>1. K \in 0 .. Len(p)
    BY <1>1 DEF K
  <2>. QED  BY <2>1, PartOf DEF K
<1>. QED  BY <1>2, <1>10, <1>11 DEF AreFound

(* A tree that is loaded below a path.                                     *)
LEMMA FullyResolvedIs ==
  ASSUME NEW F, NEW kind, AreThere(F, kind), NEW t, IsOpen(F, kind, t),
         NEW p, NEW u \in FullyResolved(F, t, p)
  PROVE  /\ IsOpen(F, kind, u) /\ \A q \in Below(u, p) : IsNode(u, q)
<1> DEFINE K == Len(PathsInUse)
           Start == {t}
           Then(S, i) == UNION {IF PathsInUse[i] \in Below(v, p)
                                THEN Resolved(F, v, PathsInUse[i]) ELSE {v} : v \in S}
           G(m, i) == [n \in 0 .. i |-> IF n = 0 THEN Start ELSE Then(m[n - 1], n)]
           loaded == CHOOSE m : m = G(m, K)
           AreOpen(S) == \A v \in S : IsOpen(F, kind, v)
<1>1. K \in Nat
  BY PathsAssumption, LenProperties
<1>2. FullyResolved(F, t, p) = {v \in loaded[K] : \A q \in Below(v, p) : IsNode(v, q)}
  BY DEF FullyResolved
<1>3. AreOpen(Start)
  OBVIOUS
<1>4. ASSUME NEW S, NEW i, AreOpen(S) PROVE AreOpen(Then(S, i))
  <2> SUFFICES ASSUME NEW y \in Then(S, i) PROVE IsOpen(F, kind, y)
    OBVIOUS
  <2>1. PICK v \in S : y \in IF PathsInUse[i] \in Below(v, p)
                             THEN Resolved(F, v, PathsInUse[i]) ELSE {v}
    OBVIOUS
  <2>2. IsOpen(F, kind, v)
    BY <1>4
  <2>3. PathsInUse[i] \in Below(v, p) => PathsInUse[i] \in DOMAIN v
    BY DEF Below
  <2>. QED  BY <2>1, <2>2, <2>3, ResolvedIs
<1> HIDE DEF K, Start, Then, AreOpen
<1>5. \E m : m = G(m, K)
  <2> DEFINE S == {i \in Nat : \E m : m = G(m, i)}
  <2>1. 0 \in S
    <3> DEFINE m == [n \in 0 .. 0 |-> Start]
    <3>1. m = G(m, 0)
      OBVIOUS
    <3>. QED  BY <3>1
  <2>2. ASSUME NEW i \in 0 .. K - 1, i \in S PROVE i + 1 \in S
    <3>1. PICK m : m = G(m, i)
      BY <2>2
    <3> DEFINE o == [n \in 0 .. i + 1 |-> IF n = i + 1 THEN Then(m[i], n) ELSE m[n]]
    <3>2. ASSUME NEW n \in 0 .. i + 1
          PROVE  o[n] = IF n = 0 THEN Start ELSE Then(o[n - 1], n)
      <4>1. CASE n = i + 1
        BY <4>1
      <4>2. CASE n # i + 1
        <5>1. n \in 0 .. i /\ o[n] = m[n] /\ (n # 0 => o[n - 1] = m[n - 1])
          BY <4>2
        <5>2. m[n] = IF n = 0 THEN Start ELSE Then(m[n - 1], n)
          BY <3>1, <5>1
        <5>. QED  BY <5>1, <5>2
      <4>. QED  BY <4>1, <4>2
    <3>3. o = [n \in 0 .. i + 1 |-> o[n]]
      OBVIOUS
    <3> HIDE DEF o
    <3>4. o = G(o, i + 1)
      BY <3>2, <3>3
    <3>. QED  BY <3>4
  <2>3. K \in S
    <3> HIDE DEF S
    <3>1. \A i \in 0 .. K : i \in S
      BY <1>1, <2>1, <2>2, HoldsUpTo
    <3>. QED  BY <1>1, <3>1
  <2>. QED  BY <2>3
<1>6. loaded = G(loaded, K)
  BY <1>5
<1> HIDE DEF loaded
<1> DEFINE I == {i \in Nat : i <= K => AreOpen(loaded[i])}
<1>7. 0 \in I
  BY <1>1, <1>3, <1>6
<1>8. ASSUME NEW i \in 0 .. K - 1, i \in I PROVE i + 1 \in I
  <2>1. loaded[i + 1] = Then(loaded[i], i + 1)
    BY <1>1, <1>6
  <2>2. AreOpen(loaded[i])
    BY <1>1, <1>8
  <2>3. AreOpen(loaded[i + 1])
    BY <1>4, <2>1, <2>2
  <2>. QED  BY <1>1, <2>3
<1>9. K \in I
  <2> HIDE DEF I
  <2>1. \A i \in 0 .. K : i \in I
    BY <1>1, <1>7, <1>8, HoldsUpTo
  <2>. QED  BY <1>1, <2>1
<1>10. AreOpen(loaded[K])
  BY <1>1, <1>9
<1>. QED  BY <1>2, <1>10 DEF AreOpen

(* A node with a new name and a new ratchet: none of its links lead to a   *)
(* revision of its own any more.                                           *)
LEMMA RotatedNodeIs ==
  ASSUME NEW F, NEW kind \in Kinds(UsedIds), AreIds, AreThere(F, kind),
         NEW other, Extends(kind, other), NEW n, IsKnown(blocks, F, kind, n),
         NEW above, above \subseteq UsedIds, NEW i \in Nat \ {0}, NEW id, id = FreshId(i),
         id \in DOMAIN other, other[id] = n.type
  PROVE  IsKnown(blocks, F, other,
                 Node(n.type, NewHeader(above, id), n.previous, n.content, {}))
<1>1. /\ n.type \in Types /\ n.previous \subseteq Links(blocks) /\ IsFiniteSet(n.previous)
      /\ n.content \in Contents \cup {NoContent}
      /\ \A l \in n.previous : IsLink(blocks, F, n.header, l)
  BY KnownOf
<1>2. id \in Nat /\ id \notin UsedIds /\ id # 1
  BY FreshIdOf
<1>3. above \subseteq Nat /\ IsFiniteSet(above \cup {id})
  <2>1. above \in SUBSET UsedIds
    OBVIOUS
  <2>2. IsFiniteSet(above)
    BY <2>1, FS_Subset DEF AreIds
  <2>. QED  BY <2>2, FS_AddElement DEF AreIds
<1>4. PICK h : h = NewHeader(above, id)
  OBVIOUS
<1>5. h \in Headers /\ h.id = id /\ h.name = above \cup {id} /\ h.rev = 0
  BY <1>2, <1>3, <1>4 DEF NewHeader, Header, Headers
<1>6. h.name \subseteq DOMAIN other /\ n.type = other[h.id]
  BY <1>5 DEF Extends, Kinds
<1>7. ASSUME NEW l \in n.previous PROVE IsLink(blocks, F, h, l)
  <2>1. l.key = TemporalKey(blocks[l.cid].header) /\ l.cid \in DOMAIN blocks
    BY <1>1, LinkOf DEF IsLink
  <2>2. PICK m : m = AsNode(blocks[l.cid], l.cid)
    OBVIOUS
  <2>3. m \in NodesOver(blocks) /\ HasKind(kind, m)
    BY <2>1, <2>2 DEF AreThere, AreBlocks
  <2>4. m.header = blocks[l.cid].header
    BY <2>2, NodeOf DEF AsNode
  <2>5. m.header \in Headers
    BY <2>3, FieldsIn
  <2>6. m.header.id \in UsedIds
    BY <2>3, <2>5, HeaderOf DEF HasKind, Kinds
  <2>7. l.key[1] = m.header.id
    BY <2>1, <2>4 DEF TemporalKey
  <2>. QED  BY <1>2, <1>5, <2>1, <2>6, <2>7 DEF IsLink
<1>8. {} \in {{}} \cup {{c} : c \in DOMAIN blocks}
  OBVIOUS
<1>9. IsKnown(blocks, F, other, Node(n.type, h, n.previous, n.content, {}))
  <2>1. IsNamed(h) /\ HasEarlier(F, h)
    BY <1>2, <1>5 DEF IsNamed, HasEarlier
  <2>. QED  BY <1>1, <1>5, <1>6, <1>7, <1>8, <2>1, KnownIf
<1>. QED  BY <1>4, <1>9

LEMMA RotatedIs ==
  ASSUME NEW F, NEW kind \in Kinds(UsedIds), AreIds, AreThere(F, kind),
         NEW u, IsOpen(F, kind, u), NEW from \in Seq(Names),
         \A q \in Below(u, from) : IsNode(u, q),
         NEW parentName, parentName \subseteq UsedIds,
         NEW moved, moved = Rotated(u, from, parentName)
  PROVE  \E other :
           /\ Extends(kind, other)
           /\ DOMAIN moved = Below(u, from)
           /\ \A q \in Below(u, from) : /\ IsKnown(blocks, F, other, moved[q])
                                        /\ moved[q].type = u[q].type
<1> DEFINE S == Below(u, from)
           num == Numbering(S)
           id == [q \in S |-> FreshId(num[q])]
           new == {id[q] : q \in S}
           other == [k \in UsedIds \cup new |->
                       IF k \in UsedIds THEN kind[k]
                       ELSE u[CHOOSE q \in S : id[q] = k].type]
           above == [q \in S |-> IF q = from THEN parentName ELSE u[Front(q)].header.name]
<1>1. \A q \in S : q \in DOMAIN u /\ q \in Seq(Names) /\ IsPrefix(from, q)
  BY OpenOf DEF Below
<1>2. IsFiniteSet(S)
  <2>1. S \in SUBSET DOMAIN u
    BY <1>1
  <2> HIDE DEF S
  <2>. QED  BY <2>1, FS_Subset DEF IsOpen, IsTree
<1>3. /\ \A q \in S : num[q] \in Nat \ {0}
      /\ \A q, r \in S : num[q] = num[r] => q = r
  <2> HIDE DEF S
  <2>. QED  BY <1>2, NumberingOf
<1>4. \A q \in S : IsKnown(blocks, F, kind, u[q]) /\ u[q].type \in Types
  BY <1>1, OpenOf, KnownOf
<1>5. ASSUME NEW q \in S PROVE above[q] \subseteq UsedIds
  <2>1. CASE q = from
    BY <2>1
  <2>2. CASE q # from
    <3>1. q # <<>>
      <4>1. q = <<>> => from = <<>>
        BY <1>1, PrefixOrder
      <4>. QED  BY <2>2, <4>1
    <3>2. Front(q) \in DOMAIN u /\ IsPrefix(from, Front(q))
      BY <1>1, <2>2, <3>1, OpenOf, PrefixStep
    <3>3. Front(q) \in S
      BY <3>2 DEF Below
    <3>4. IsKnown(blocks, F, kind, u[Front(q)])
      BY <1>4, <3>3
    <3>5. u[Front(q)].header.name \subseteq UsedIds
      BY <3>4, KnownOf DEF Kinds
    <3>. QED  BY <2>2, <3>5
  <2>. QED  BY <2>1, <2>2
<1>6. \A q \in S : id[q] = FreshId(num[q]) /\ id[q] \notin UsedIds
  BY <1>3, FreshIdOf
<1>7. \A q, r \in S : id[q] = id[r] => q = r
  <2> SUFFICES ASSUME NEW q \in S, NEW r \in S, id[q] = id[r] PROVE q = r
    OBVIOUS
  <2>1. num[q] \in Nat \ {0} /\ num[r] \in Nat \ {0} /\ FreshId(num[q]) = FreshId(num[r])
    BY <1>3
  <2>2. num[q] = num[r]
    <3> HIDE DEF num
    <3>. QED  BY <2>1, FreshIdsDiffer
  <2>. QED  BY <1>3, <2>2
<1>8. /\ moved = [q \in S |-> moved[q]]
      /\ \A q \in S :
           moved[q] = Node(u[q].type, NewHeader(above[q], id[q]),
                           u[q].previous, u[q].content, {})
  <2>1. moved = [q \in S |-> RotatedNode(u, from, q, parentName, {})]
    BY DEF Rotated
  <2>2. ASSUME NEW q \in S
        PROVE  RotatedNode(u, from, q, parentName, {}) =
                 Node(u[q].type, NewHeader(above[q], id[q]), u[q].previous, u[q].content, {})
    BY DEF RotatedNode
  <2> HIDE DEF S
  <2>. QED  BY <2>1, <2>2
<1>9. /\ other = [k \in DOMAIN other |-> other[k]] /\ DOMAIN other = UsedIds \cup new
      /\ \A k \in UsedIds : other[k] = kind[k]
  OBVIOUS
<1>10. ASSUME NEW q \in S PROVE id[q] \in DOMAIN other /\ other[id[q]] = u[q].type
  <2>1. id[q] \in new /\ id[q] \notin UsedIds
    BY <1>6
  <2>2. (CHOOSE r \in S : id[r] = id[q]) = q
    <3> HIDE DEF S, id
    <3>. QED  BY <1>7
  <2> HIDE DEF S, id, new
  <2>. QED  BY <2>1, <2>2
<1>11. DOMAIN kind = UsedIds /\ \A k \in UsedIds : kind[k] \in Types
  BY DEF Kinds
<1>12. \A k \in DOMAIN other : other[k] \in Types
  <2> TAKE k \in DOMAIN other
  <2>1. CASE k \in UsedIds
    BY <1>9, <1>11, <2>1
  <2>2. CASE k \notin UsedIds
    <3>1. PICK q \in S : k = id[q]
      BY <1>9, <2>2
    <3> HIDE DEF other, S, id
    <3>. QED  BY <1>4, <1>10, <3>1
  <2>. QED  BY <2>1, <2>2
<1> HIDE DEF S, num, id, new, other, above
<1>13. Extends(kind, other)
  BY <1>9, <1>11, <1>12 DEF Extends, Kinds
<1>14. ASSUME NEW q \in S PROVE IsKnown(blocks, F, other, moved[q]) /\ moved[q].type = u[q].type
  <2>1. PICK n, a, k : n = u[q] /\ a = above[q] /\ k = id[q]
    OBVIOUS
  <2>2. /\ IsKnown(blocks, F, kind, n) /\ a \subseteq UsedIds /\ k = FreshId(num[q])
        /\ k \in DOMAIN other /\ other[k] = n.type /\ num[q] \in Nat \ {0}
    BY <1>3, <1>4, <1>5, <1>6, <1>10, <2>1
  <2>3. IsKnown(blocks, F, other, Node(n.type, NewHeader(a, k), n.previous, n.content, {}))
    BY <1>13, <2>2, RotatedNodeIs
  <2>4. moved[q] = Node(n.type, NewHeader(a, k), n.previous, n.content, {})
    BY <1>8, <2>1
  <2>. QED  BY <2>1, <2>3, <2>4, NodeOf
<1>. QED  BY <1>8, <1>13, <1>14 DEF S

LEMMA ExtendsItself ==
  ASSUME NEW U, NEW kind \in Kinds(U)
  PROVE  Extends(kind, kind)
BY DEF Extends, Kinds

(* What is below one path of a tree, grafted to a directory.               *)
LEMMA GraftedIs ==
  ASSUME NEW F, NEW kind, NEW other, AreThere(F, kind), Extends(kind, other),
         NEW t, IsOpen(F, kind, t), NEW u, IsOpen(F, kind, u),
         NEW from \in Seq(Names), NEW to \in Seq(Names), to # <<>>,
         IsDirIn(t, Front(to)), to \notin DOMAIN t,
         NEW moved, DOMAIN moved = Below(u, from),
         \A q \in Below(u, from) : /\ IsKnown(blocks, F, other, moved[q])
                                   /\ moved[q].type = u[q].type,
         NEW g, g = Grafted(t, moved, from, to)
  PROVE  IsOpen(F, other, g)
<1> DEFINE S == Below(u, from)
           c(q) == Corresponding(from, to, q)
           N == {c(q) : q \in S}
           new == [x \in N |-> moved[Corresponding(to, from, x)]]
<1>1. g = Joined(t, new)
  <2>1. N = {to \o Suffix(from, q) : q \in DOMAIN moved}
    BY DEF Corresponding, Suffix
  <2>2. new = [x \in {to \o Suffix(from, q) : q \in DOMAIN moved} |-> moved[from \o Suffix(to, x)]]
    BY <2>1 DEF Corresponding, Suffix
  <2>. QED  BY <2>2 DEF Grafted
<1>2. \A q \in S : q \in DOMAIN u /\ q \in Seq(Names) /\ IsPrefix(from, q)
  BY OpenOf DEF Below
<1>3. ASSUME NEW q \in S
      PROVE  /\ c(q) \in Seq(Names) /\ IsPrefix(to, c(q)) /\ new[c(q)] = moved[q]
             /\ c(q) \notin DOMAIN t
  <2>1. q \in Seq(Names) /\ IsPrefix(from, q)
    BY <1>2
  <2>2. Replaces(Names, from, to, q, c(q)) /\ Corresponding(to, from, c(q)) = q
    BY <2>1, CorrespondingOf, CorrespondingSteps
  <2>3. c(q) \in Seq(Names) /\ IsPrefix(to, c(q))
    BY <2>2 DEF Replaces
  <2>4. c(q) \notin DOMAIN t
    <3> HIDE DEF c
    <3>. QED  BY <2>3, AboveAre
  <2>5. c(q) \in N
    OBVIOUS
  <2> HIDE DEF c, N
  <2>. QED  BY <2>2, <2>3, <2>4, <2>5
<1>4. IsFiniteSet(N)
  <2>1. S \in SUBSET DOMAIN u
    BY <1>2
  <2>2. IsFiniteSet(S)
    <3> HIDE DEF S
    <3>. QED  BY <2>1, FS_Subset DEF IsOpen, IsTree
  <2> DEFINE f == [q \in S |-> c(q)]
  <2>3. N = {f[q] : q \in S}
    OBVIOUS
  <2> HIDE DEF f, S, N
  <2>. QED  BY <2>2, <2>3, ValuesOf
<1>5. ASSUME NEW q \in S
      PROVE  \/ Front(c(q)) \in DOMAIN t /\ t[Front(c(q))].type = "dir"
             \/ Front(c(q)) \in N /\ new[Front(c(q))].type = "dir"
  <2>1. q \in Seq(Names) /\ IsPrefix(from, q) /\ q \in DOMAIN u
    BY <1>2
  <2>2. CASE q = from
    <3>1. c(q) = to
      BY <2>2, CorrespondingSteps, PrefixOrder
    <3> HIDE DEF c
    <3>. QED  BY <3>1 DEF IsDirIn
  <2>3. CASE q # from
    <3>1. /\ IsPrefix(from, Front(q))
          /\ Front(c(q)) = c(Front(q))
      BY <2>1, <2>3, CorrespondingSteps
    <3>2. q # <<>>
      <4>1. q = <<>> => from = <<>>
        BY <2>1, PrefixOrder
      <4>. QED  BY <2>3, <4>1
    <3>3. Front(q) \in DOMAIN u /\ u[Front(q)].type = "dir"
      BY <2>1, <3>2, OpenOf
    <3>4. Front(q) \in S
      BY <3>1, <3>3 DEF Below
    <3>5. c(Front(q)) \in N
      BY <3>4
    <3>6. new[c(Front(q))].type = "dir"
      <4>1. new[c(Front(q))] = moved[Front(q)]
        BY <1>3, <3>4
      <4>2. moved[Front(q)].type = u[Front(q)].type
        BY <3>4
      <4>. QED  BY <3>3, <4>1, <4>2
    <3> HIDE DEF c, N, new
    <3>. QED  BY <3>1, <3>5, <3>6
  <2>. QED  BY <2>2, <2>3
<1>6. DOMAIN new = N
  OBVIOUS
<1>7. \A x \in N : \E q \in S : x = c(q)
  OBVIOUS
<1>8. \A q \in S : IsKnown(blocks, F, other, moved[q])
  OBVIOUS
<1> HIDE DEF c, N, new, S
<1>9. AreNew(F, other, t, new)
  <2>1. \A x \in N : /\ x \in Seq(Names) /\ x \notin DOMAIN t
                     /\ IsKnown(blocks, F, other, new[x])
    BY <1>3, <1>7, <1>8
  <2>2. \A x \in N : \/ Front(x) \in DOMAIN t /\ t[Front(x)].type = "dir"
                     \/ Front(x) \in N /\ new[Front(x)].type = "dir"
    BY <1>5, <1>7
  <2>. QED  BY <1>4, <1>6, <2>1, <2>2 DEF AreNew
<1>10. IsOpen(F, other, t)
  BY ExtendedThere
<1>. QED  BY <1>1, <1>9, <1>10, JoinedIs

LEMMA AttachedIs ==
  ASSUME NEW F, NEW kind \in Kinds(UsedIds), AreIds, AreThere(F, kind),
         NEW t, IsOpen(F, kind, t), NEW sources, \A s \in sources : IsOpen(F, kind, s),
         NEW from \in Seq(Names), NEW to \in Seq(Names), to # <<>>
  PROVE  \E other : /\ Extends(kind, other)
                    /\ IsOpen(F, other, Attached(F, t, sources, from, to).tree)
<1>1. PICK w : w = LeafDirMut(F, t, Front(to))
  OBVIOUS
<1>2. IsOpen(F, kind, w.tree) /\ (w.at = "dir" => IsDirIn(w.tree, Front(to)))
  BY <1>1, FrontOf, LeafDirMutIs DEF IsWalk
<1>3. PICK x : x = AttachedIn(F, w, sources, from, to)
  OBVIOUS
<1>4. Extends(kind, kind)
  BY ExtendsItself
<1>5. \E other : Extends(kind, other) /\ IsOpen(F, other, x.tree)
  <2>1. CASE w.at # "dir" \/ to \in DOMAIN w.tree
    <3>1. x = Outcome(w.tree, FALSE)
      BY <1>3, <2>1 DEF AttachedIn
    <3>2. x.tree = w.tree
      BY <3>1, OutcomeOf
    <3>. QED  BY <1>2, <1>4, <3>2
  <2>2. CASE w.at = "dir" /\ to \notin DOMAIN w.tree
    <3> DEFINE name == w.tree[Front(to)].header.name
               rotated(u) == Rotated(u, from, name)
               grafted(u) == Grafted(w.tree, rotated(u), from, to)
               results == {Outcome(grafted(u), TRUE) :
                             u \in UNION {FullyResolved(F, s, from) : s \in sources}}
    <3>1. x = OneOf(results, Outcome(w.tree, FALSE))
      BY <1>3, <2>2 DEF AttachedIn
    <3>2. CASE results = {}
      <4>1. x = Outcome(w.tree, FALSE)
        <5> HIDE DEF results
        <5>. QED  BY <3>1, <3>2, OneIs
      <4>2. x.tree = w.tree
        BY <4>1, OutcomeOf
      <4>. QED  BY <1>2, <1>4, <4>2
    <3>3. CASE results # {}
      <4>1. x \in results
        <5> HIDE DEF results
        <5>. QED  BY <3>1, <3>3, OneIs
      <4>2. PICK u \in UNION {FullyResolved(F, s, from) : s \in sources} :
              x = Outcome(grafted(u), TRUE)
        BY <4>1
      <4>3. PICK s \in sources : u \in FullyResolved(F, s, from)
        BY <4>2
      <4>4. IsOpen(F, kind, u) /\ \A q \in Below(u, from) : IsNode(u, q)
        BY <4>3, FullyResolvedIs
      <4>5. name \subseteq UsedIds
        <5>1. IsKnown(blocks, F, kind, w.tree[Front(to)])
          BY <1>2, <2>2, OpenOf DEF IsDirIn
        <5>. QED  BY <5>1, KnownOf DEF Kinds
      <4>6. PICK moved : moved = rotated(u)
        OBVIOUS
      <4>7. PICK other :
              /\ Extends(kind, other)
              /\ DOMAIN moved = Below(u, from)
              /\ \A q \in Below(u, from) : /\ IsKnown(blocks, F, other, moved[q])
                                           /\ moved[q].type = u[q].type
        <5>1. PICK parentName : parentName = name
          OBVIOUS
        <5>2. moved = Rotated(u, from, parentName) /\ parentName \subseteq UsedIds
          BY <4>5, <4>6, <5>1
        <5> HIDE DEF name
        <5>. QED  BY <4>4, <5>2, RotatedIs
      <4>8. PICK g, v : v = w.tree /\ g = Grafted(v, moved, from, to)
        OBVIOUS
      <4>9. IsOpen(F, kind, v) /\ IsDirIn(v, Front(to)) /\ to \notin DOMAIN v
        BY <1>2, <2>2, <4>8
      <4>10. IsOpen(F, other, g)
        BY <4>4, <4>7, <4>8, <4>9, GraftedIs
      <4>11. x.tree = g
        BY <4>2, <4>6, <4>8, OutcomeOf
      <4>. QED  BY <4>7, <4>10, <4>11
    <3>. QED  BY <3>2, <3>3
  <2>. QED  BY <2>1, <2>2
<1>. QED  BY <1>1, <1>3, <1>5 DEF Attached

LEMMA MovedIs ==
  ASSUME NEW F, NEW kind \in Kinds(UsedIds), AreIds, AreThere(F, kind),
         NEW t, IsOpen(F, kind, t), NEW from \in Seq(Names), from # <<>>,
         NEW to \in Seq(Names), to # <<>>
  PROVE  \E other : /\ Extends(kind, other)
                    /\ IsOpen(F, other, Moved(F, t, from, to).tree)
<1>1. PICK taken : taken = Removed(F, t, from)
  OBVIOUS
<1>2. /\ IsOpen(F, kind, taken.tree)
      /\ \A s \in TakenOut(F, t, from) : IsOpen(F, kind, s)
  BY <1>1, RemovedIs
<1>3. CASE ~taken.done
  BY <1>1, <1>2, <1>3, ExtendsItself DEF Moved
<1>4. CASE taken.done
  <2>1. PICK u, sources : u = taken.tree /\ sources = TakenOut(F, t, from)
    OBVIOUS
  <2>2. \E other : /\ Extends(kind, other)
                   /\ IsOpen(F, other, Attached(F, u, sources, from, to).tree)
    BY <1>2, <2>1, AttachedIs
  <2>3. Moved(F, t, from, to) = Attached(F, u, sources, from, to)
    BY <1>1, <1>4, <2>1 DEF Moved
  <2>. QED  BY <2>2, <2>3
<1>. QED  BY <1>3, <1>4

LEMMA CopiedIs ==
  ASSUME NEW F, NEW kind \in Kinds(UsedIds), AreIds, AreThere(F, kind),
         NEW t, IsOpen(F, kind, t), NEW from \in Seq(Names),
         NEW to \in Seq(Names), to # <<>>
  PROVE  \E other : /\ Extends(kind, other)
                    /\ IsOpen(F, other, Copied(F, t, from, to).tree)
<1>1. PICK sources : sources = Found(F, t, from)
  OBVIOUS
<1>2. CASE sources = {}
  <2>1. Copied(F, t, from, to) = Outcome(t, FALSE)
    BY <1>1, <1>2 DEF Copied
  <2>. QED  BY <2>1, OutcomeOf, ExtendsItself
<1>3. CASE sources # {}
  <2>1. \A s \in sources : IsOpen(F, kind, s)
    BY <1>1, FoundIs
  <2>2. \E other : /\ Extends(kind, other)
                   /\ IsOpen(F, other, Attached(F, t, sources, from, to).tree)
    BY <2>1, AttachedIs
  <2>3. Copied(F, t, from, to) = Attached(F, t, sources, from, to)
    BY <1>1, <1>3 DEF Copied
  <2>. QED  BY <2>2, <2>3
<1>. QED  BY <1>2, <1>3

--------------------------------------------------------------------------------
(* Storing a tree.                                                         *)

CidAt(t, fresh, p) ==
  IF p \in DOMAIN fresh THEN fresh[p] ELSE CHOOSE c \in t[p].persisted_as : TRUE

RefAt(t, fresh, p) ==
  IF IsNode(t, p) THEN Ref(t[p].header, CidAt(t, fresh, p)) ELSE t[p]

EntriesAt(t, fresh, p) ==
  [n \in {Last(q) : q \in Children(t, p)} |-> RefAt(t, fresh, Append(p, n))]

(* What a store writes, part by part.                                      *)
TreeAfter(t, fresh) ==
  [p \in DOMAIN t |-> IF p \in DOMAIN fresh THEN AsNode(t[p], fresh[p]) ELSE t[p]]

BlocksAfter(t, fresh) ==
  [c \in Range(fresh) |->
     LET p == CHOOSE q \in DOMAIN fresh : fresh[q] = c
     IN Block(t[p], EntriesAt(t, fresh, p))]

RefsAfter(t, fresh) == {RefAt(t, fresh, p) : p \in Reached(t)}

LEMMA StoredParts ==
  ASSUME NEW t, NEW fresh, NEW s, s = Stored(t, fresh)
  PROVE  /\ s.tree = TreeAfter(t, fresh) /\ s.blocks = BlocksAfter(t, fresh)
         /\ s.refs = RefsAfter(t, fresh) /\ s.key = RefAt(t, fresh, <<>>)
BY DEF Stored, TreeAfter, BlocksAfter, RefsAfter, EntriesAt, RefAt, CidAt

(* New CIDs for the nodes to store, n of them.                             *)
AreFresh(B, t, fresh) ==
  /\ fresh = [p \in Unsaved(t) |-> fresh[p]]
  /\ \A p, q \in Unsaved(t) : fresh[p] = fresh[q] => p = q
  /\ \A p \in Unsaved(t) :
       /\ fresh[p] \in Ranks \X (1 .. Cardinality(DOMAIN B) + Cardinality(Unsaved(t)))
       /\ fresh[p] \notin DOMAIN B

LEMMA UnsavedIs ==
  ASSUME NEW F, NEW kind, NEW t, AreThere(F, kind), IsOpen(F, kind, t)
  PROVE  /\ IsFiniteSet(Reached(t)) /\ IsFiniteSet(Unsaved(t))
         /\ Reached(t) \subseteq DOMAIN t /\ Unsaved(t) \subseteq Reached(t)
         /\ <<>> \in Reached(t)
         /\ \A p \in Reached(t) : IsNode(t, p)
         /\ \A p \in Unsaved(t) : t[p].persisted_as = {}
         /\ \A p \in Reached(t) \ Unsaved(t) : t[p].persisted_as # {}
         /\ \A p \in Unsaved(t) : \A q \in Children(t, p) : IsNode(t, q) => q \in Reached(t)
<1>1. /\ Reached(t) \subseteq DOMAIN t /\ Unsaved(t) \subseteq Reached(t)
      /\ \A p \in Reached(t) : IsNode(t, p)
      /\ \A p \in Unsaved(t) : t[p].persisted_as = {}
      /\ \A p \in Reached(t) \ Unsaved(t) : t[p].persisted_as # {}
  BY DEF Reached, Unsaved, IsPersisted
<1>2. IsFiniteSet(Reached(t)) /\ IsFiniteSet(Unsaved(t))
  <2>1. IsFiniteSet(DOMAIN t) /\ Reached(t) \in SUBSET DOMAIN t /\ Unsaved(t) \in SUBSET DOMAIN t
    BY <1>1 DEF IsOpen, IsTree
  <2>. QED  BY <2>1, FS_Subset
<1>3. \A p \in DOMAIN t : p \in Seq(Names)
  BY OpenOf
<1>4. <<>> \in Reached(t)
  <2>1. <<>> \in DOMAIN t /\ IsNode(t, <<>>) /\ <<>> \in Seq(Names)
    BY <1>3, OpenOf DEF IsOpen, IsTree
  <2>2. \A q \in Prefixes(<<>>) : q = <<>>
    <3> TAKE q \in Prefixes(<<>>)
    <3>1. q \in Seq(Names) /\ IsPrefix(q, <<>>)
      BY <2>1, PrefixesAre
    <3>. QED  BY <2>1, <3>1, PrefixOrder
  <2>. QED  BY <2>1, <2>2 DEF Reached
<1>5. ASSUME NEW p \in Unsaved(t), NEW q \in Children(t, p), IsNode(t, q)
      PROVE  q \in Reached(t)
  <2>1. q \in DOMAIN t /\ q # <<>> /\ Front(q) = p /\ q \in Seq(Names) /\ p \in Seq(Names)
    BY <1>1, <1>3 DEF Children
  <2>2. ASSUME NEW r \in Prefixes(q) \ {q} PROVE ~IsPersisted(t, r)
    <3>1. r \in Seq(Names) /\ IsPrefix(r, q)
      BY <2>1, PrefixesAre
    <3>2. IsPrefix(r, p)
      BY <2>1, <3>1, PrefixStep
    <3>3. r \in Prefixes(p)
      BY <2>1, <3>1, <3>2, PrefixesAre
    <3>. QED  BY <3>3 DEF Unsaved, Reached
  <2>. QED  BY <1>5, <2>1, <2>2 DEF Reached
<1>. QED  BY <1>1, <1>2, <1>4, <1>5

LEMMA FreshCidsAre ==
  ASSUME NEW F, NEW kind, NEW t, AreThere(F, kind), IsOpen(F, kind, t),
         NEW rank \in [Unsaved(t) -> Ranks],
         NEW fresh, fresh = FreshCids(Unsaved(t), rank, 0)
  PROVE  AreFresh(blocks, t, fresh)
<1> DEFINE U == Unsaved(t)
           number == Numbering(U)
           n == Cardinality(DOMAIN blocks)
<1>1. IsFiniteSet(U)
  BY UnsavedIs
<1>2. /\ \A p \in U : number[p] \in 1 .. Cardinality(U)
      /\ \A p, q \in U : number[p] = number[q] => p = q
  <2> HIDE DEF U
  <2>. QED  BY <1>1, NumberingOf
<1>3. n \in Nat /\ Cardinality(U) \in Nat
  <2>1. IsFiniteSet(DOMAIN blocks)
    BY DEF AreThere, AreBlocks
  <2>. QED  BY <1>1, <2>1, FS_CardinalityType
<1>4. fresh = [p \in U |-> <<rank[p], n + 0 + number[p]>>]
  BY DEF FreshCids
<1> HIDE DEF number
<1>5. \A p, q \in U : fresh[p] = fresh[q] => p = q
  <2> SUFFICES ASSUME NEW p \in U, NEW q \in U, fresh[p] = fresh[q] PROVE p = q
    OBVIOUS
  <2>1. n + 0 + number[p] = n + 0 + number[q]
    BY <1>4
  <2>2. number[p] = number[q]
    BY <1>2, <1>3, <2>1
  <2>. QED  BY <1>2, <2>2
<1>6. ASSUME NEW p \in U
      PROVE  /\ fresh[p] \in Ranks \X (1 .. n + Cardinality(U))
             /\ fresh[p] \notin DOMAIN blocks
  <2>1. fresh[p] = <<rank[p], n + 0 + number[p]>> /\ rank[p] \in Ranks
    BY <1>4
  <2>2. /\ n + 0 + number[p] \in 1 .. n + Cardinality(U)
        /\ n + 0 + number[p] \notin 1 .. n
    BY <1>2, <1>3
  <2>3. \A c \in DOMAIN blocks : c[2] \in 1 .. n
    BY DEF AreThere, AreBlocks
  <2>4. fresh[p][2] = n + 0 + number[p]
    BY <2>1
  <2>5. fresh[p] \notin DOMAIN blocks
    BY <2>2, <2>3, <2>4
  <2>. QED  BY <2>1, <2>2, <2>5
<1>7. fresh = [p \in U |-> fresh[p]]
  BY <1>4
<1>. QED  BY <1>5, <1>6, <1>7 DEF AreFresh

LEMMA BlockOf ==
  ASSUME NEW n, NEW entries, NEW c, NEW b, b = Block(n, entries)
  PROVE  /\ b.type = n.type /\ b.header = n.header /\ b.previous = n.previous
         /\ b.content = n.content /\ b.entries = entries
         /\ AsNode(b, c) = AsNode(n, c)
BY DEF Block, AsNode

LEMMA StoredBlocks ==
  ASSUME NEW t, NEW fresh, AreFresh(blocks, t, fresh),
         NEW B2, B2 = Joined(blocks, Stored(t, fresh).blocks)
  PROVE  /\ B2 = [c \in DOMAIN B2 |-> B2[c]]
         /\ DOMAIN B2 = DOMAIN blocks \cup {fresh[p] : p \in Unsaved(t)}
         /\ \A c \in DOMAIN blocks : B2[c] = blocks[c]
         /\ \A p \in Unsaved(t) : B2[fresh[p]] = Block(t[p], EntriesAt(t, fresh, p))
<1> DEFINE U == Unsaved(t)
           at(c) == CHOOSE q \in U : fresh[q] = c
           new == [c \in {fresh[p] : p \in U} |-> Block(t[at(c)], EntriesAt(t, fresh, at(c)))]
<1>1. DOMAIN fresh = U /\ Range(fresh) = {fresh[p] : p \in U}
  BY DEF AreFresh, Range
<1>2. PICK s : s = Stored(t, fresh)
  OBVIOUS
<1>3. s.blocks = new
  <2>1. s.blocks = [c \in Range(fresh) |->
                      LET p == CHOOSE q \in DOMAIN fresh : fresh[q] = c
                      IN Block(t[p], EntriesAt(t, fresh, p))]
    BY <1>2, StoredParts DEF BlocksAfter
  <2> HIDE DEF U
  <2>. QED  BY <1>1, <2>1
<1>4. ASSUME NEW p \in U PROVE at(fresh[p]) = p
  BY DEF AreFresh
<1>5. \A p \in U : new[fresh[p]] = Block(t[p], EntriesAt(t, fresh, p))
  <2> TAKE p \in U
  <2>1. fresh[p] \in {fresh[q] : q \in U}
    OBVIOUS
  <2>2. new[fresh[p]] = Block(t[at(fresh[p])], EntriesAt(t, fresh, at(fresh[p])))
    BY <2>1
  <2> HIDE DEF at, new, U
  <2>. QED  BY <1>4, <2>2
<1>6. DOMAIN new = {fresh[p] : p \in U}
  OBVIOUS
<1>7. \A p \in U : fresh[p] \notin DOMAIN blocks
  BY DEF AreFresh
<1>8. B2 = Joined(blocks, new)
  BY <1>2, <1>3
<1> HIDE DEF new, U
<1>9. /\ B2 = [c \in DOMAIN B2 |-> B2[c]]
      /\ DOMAIN B2 = DOMAIN blocks \cup {fresh[p] : p \in U}
      /\ \A c \in DOMAIN blocks : B2[c] = blocks[c]
      /\ \A c \in DOMAIN new : c \notin DOMAIN blocks => B2[c] = new[c]
  BY <1>6, <1>8 DEF Joined
<1>10. \A p \in U : B2[fresh[p]] = Block(t[p], EntriesAt(t, fresh, p))
  BY <1>5, <1>6, <1>7, <1>9
<1>. QED  BY <1>9, <1>10 DEF U

(* The nodes that are stored, the refs to them, and what else they lead    *)
(* to.                                                                     *)
AreStored(F, kind, t, fresh, B2, F2) ==
  /\ Grows(blocks, F, B2, F2) /\ F2 \subseteq RefsOf(B2) /\ IsFiniteSet(F2)
  /\ \A p \in Reached(t) : RefAt(t, fresh, p) \in F2
  /\ \A r \in F2 : r \in F \/ \E p \in Unsaved(t) : r = Ref(t[p].header, fresh[p])
  /\ \A p \in Unsaved(t) :
       /\ fresh[p] \in DOMAIN B2
       /\ IsKnown(B2, F2, kind, AsNode(t[p], fresh[p]))
       /\ AsNode(B2[fresh[p]], fresh[p]) = AsNode(t[p], fresh[p])
       /\ B2[fresh[p]].header = t[p].header /\ B2[fresh[p]].type = t[p].type
       /\ B2[fresh[p]].previous = t[p].previous
       /\ AreEntries(F2, B2[fresh[p]].type, B2[fresh[p]].entries)

LEMMA StoredNodes ==
  ASSUME NEW F, NEW kind, NEW t, AreThere(F, kind), IsOpen(F, kind, t),
         NEW fresh, AreFresh(blocks, t, fresh),
         NEW B2, B2 = Joined(blocks, Stored(t, fresh).blocks),
         NEW F2, F2 = F \cup Stored(t, fresh).refs
  PROVE  AreStored(F, kind, t, fresh, B2, F2)
<1> DEFINE U == Unsaved(t)
<1>1. /\ IsFiniteSet(Reached(t)) /\ Reached(t) \subseteq DOMAIN t /\ U \subseteq Reached(t)
      /\ \A p \in Reached(t) : IsNode(t, p)
      /\ \A p \in Reached(t) \ U : t[p].persisted_as # {}
      /\ \A p \in U : \A q \in Children(t, p) : IsNode(t, q) => q \in Reached(t)
  BY UnsavedIs
<1>2. DOMAIN fresh = U
  BY DEF AreFresh
<1>3. /\ DOMAIN B2 = DOMAIN blocks \cup {fresh[p] : p \in U}
      /\ \A c \in DOMAIN blocks : B2[c] = blocks[c]
      /\ \A p \in U : B2[fresh[p]] = Block(t[p], EntriesAt(t, fresh, p))
  BY StoredBlocks
<1>4. F2 = F \cup {RefAt(t, fresh, p) : p \in Reached(t)}
  <2>1. PICK s : s = Stored(t, fresh)
    OBVIOUS
  <2>2. s.refs = {RefAt(t, fresh, p) : p \in Reached(t)}
    BY <2>1, StoredParts DEF RefsAfter
  <2>. QED  BY <2>1, <2>2
<1>5. ASSUME NEW p \in U
      PROVE  /\ fresh[p] \in DOMAIN B2
             /\ RefAt(t, fresh, p) = Ref(t[p].header, fresh[p])
             /\ B2[fresh[p]].header = t[p].header /\ B2[fresh[p]].type = t[p].type
             /\ B2[fresh[p]].previous = t[p].previous
             /\ B2[fresh[p]].entries = EntriesAt(t, fresh, p)
             /\ AsNode(B2[fresh[p]], fresh[p]) = AsNode(t[p], fresh[p])
  <2>1. RefAt(t, fresh, p) = Ref(t[p].header, fresh[p])
    BY <1>1, <1>2 DEF RefAt, CidAt
  <2>2. PICK b, e : b = B2[fresh[p]] /\ e = EntriesAt(t, fresh, p)
    OBVIOUS
  <2>3. b = Block(t[p], e)
    BY <1>3, <2>2
  <2>4. /\ b.header = t[p].header /\ b.type = t[p].type /\ b.previous = t[p].previous
        /\ b.entries = e /\ AsNode(b, fresh[p]) = AsNode(t[p], fresh[p])
    BY <2>3, BlockOf
  <2>. QED  BY <1>3, <2>1, <2>2, <2>4
<1>6. ASSUME NEW p \in Reached(t), p \notin U PROVE RefAt(t, fresh, p) \in F
  <2>1. IsKnown(blocks, F, kind, t[p]) /\ t[p].persisted_as # {} /\ IsNode(t, p)
    BY <1>1, <1>6, OpenOf
  <2>2. \A c \in t[p].persisted_as : Ref(t[p].header, c) \in F
    BY <2>1, KnownOf
  <2>3. CidAt(t, fresh, p) \in t[p].persisted_as
    BY <1>2, <1>6, <2>1 DEF CidAt
  <2>. QED  BY <2>1, <2>2, <2>3 DEF RefAt
<1>7. F \subseteq RefsOf(blocks) /\ IsFiniteSet(F)
  BY DEF AreThere, IsForest
<1>8. RefsOf(blocks) \subseteq RefsOf(B2)
  BY <1>3 DEF RefsOf
<1>9. \A p \in U : Ref(t[p].header, fresh[p]) \in RefsOf(B2)
  BY <1>5 DEF RefsOf
<1>10. /\ F2 \subseteq RefsOf(B2)
       /\ \A r \in F2 : r \in F \/ \E p \in U : r = Ref(t[p].header, fresh[p])
  <2>1. ASSUME NEW r \in F2 PROVE r \in F \/ \E p \in U : r = Ref(t[p].header, fresh[p])
    <3>1. CASE r \in F
      BY <3>1
    <3>2. CASE r \notin F
      <4>1. PICK p \in Reached(t) : r = RefAt(t, fresh, p)
        BY <1>4, <3>2
      <4>2. p \in U
        BY <1>6, <3>2, <4>1
      <4>. QED  BY <1>5, <4>1, <4>2
    <3>. QED  BY <3>1, <3>2
  <2>. QED  BY <1>7, <1>8, <1>9, <2>1
<1>11. IsFiniteSet(F2)
  <2> DEFINE f == [p \in Reached(t) |-> RefAt(t, fresh, p)]
             R == {f[p] : p \in Reached(t)}
  <2>1. F2 = F \cup R
    BY <1>4
  <2>2. IsFiniteSet(R)
    <3> HIDE DEF f
    <3>. QED  BY <1>1, ValuesOf
  <2> HIDE DEF R
  <2>. QED  BY <1>7, <2>1, <2>2, FS_Union
<1>12. Grows(blocks, F, B2, F2)
  BY <1>3, <1>4 DEF Grows
<1>13. \A p \in Reached(t) : RefAt(t, fresh, p) \in F2
  BY <1>4
<1>14. ASSUME NEW p \in U PROVE IsKnown(B2, F2, kind, AsNode(t[p], fresh[p]))
  <2>1. IsKnown(blocks, F, kind, t[p])
    BY <1>1, OpenOf
  <2>2. PICK n, c : n = t[p] /\ c = fresh[p]
    OBVIOUS
  <2>3. IsKnown(B2, F2, kind, n)
    BY <1>12, <2>1, <2>2, KnownLater
  <2>4. /\ n.type \in Types /\ n.header \in Headers
        /\ n.previous \subseteq Links(B2) /\ IsFiniteSet(n.previous)
        /\ n.content \in Contents \cup {NoContent}
        /\ \A l \in n.previous : IsLink(B2, F2, n.header, l)
        /\ n.header.name \subseteq DOMAIN kind /\ n.type = kind[n.header.id]
        /\ IsNamed(n.header) /\ HasEarlier(F2, n.header)
    BY <2>3, KnownOf
  <2>5. c \in DOMAIN B2 /\ Ref(n.header, c) \in F2
    BY <1>1, <1>5, <1>13, <2>2
  <2>6. {c} \in {{}} \cup {{d} : d \in DOMAIN B2} /\ \A d \in {c} : Ref(n.header, d) \in F2
    BY <2>5
  <2>7. IsKnown(B2, F2, kind, Node(n.type, n.header, n.previous, n.content, {c}))
    BY <2>4, <2>6, KnownIf
  <2>. QED  BY <2>2, <2>7 DEF AsNode
<1>15. ASSUME NEW p \in U PROVE AreEntries(F2, t[p].type, EntriesAt(t, fresh, p))
  <2> DEFINE e == EntriesAt(t, fresh, p)
             N == {Last(q) : q \in Children(t, p)}
  <2>1. /\ e = [n \in N |-> RefAt(t, fresh, Append(p, n))] /\ DOMAIN e = N
        /\ e = [n \in DOMAIN e |-> e[n]]
    BY DEF EntriesAt
  <2>2. \A q \in Children(t, p) :
          /\ q \in DOMAIN t /\ q \in Seq(Names) /\ q # <<>> /\ Front(q) = p
          /\ t[p].type = "dir"
    BY OpenOf DEF Children
  <2>3. IsFiniteSet(N)
    <3>1. Children(t, p) \in SUBSET DOMAIN t
      BY <2>2
    <3>2. IsFiniteSet(Children(t, p))
      BY <3>1, FS_Subset DEF IsOpen, IsTree
    <3> DEFINE f == [q \in Children(t, p) |-> Last(q)]
    <3>3. N = {f[q] : q \in Children(t, p)}
      OBVIOUS
    <3> HIDE DEF f, N
    <3>. QED  BY <3>2, <3>3, ValuesOf
  <2>4. N \subseteq Names
    BY <2>2, FrontOf
  <2>5. ASSUME NEW n \in N PROVE e[n] \in F2
    <3>1. PICK q \in Children(t, p) : n = Last(q)
      OBVIOUS
    <3>2. Append(p, n) = q
      BY <2>2, <3>1, FrontOf
    <3>3. e[n] = RefAt(t, fresh, q)
      BY <2>1, <3>2
    <3>4. CASE IsNode(t, q)
      BY <1>1, <1>13, <3>1, <3>3, <3>4
    <3>5. CASE ~IsNode(t, q)
      <4>1. t[q] \in F
        BY <2>2, <3>1, <3>5, OpenOf
      <4>2. e[n] = t[q]
        BY <3>3, <3>5 DEF RefAt
      <4>. QED  BY <1>4, <4>1, <4>2
    <3>. QED  BY <3>4, <3>5
  <2>6. t[p].type = "file" => N = {}
    BY <2>2
  <2> HIDE DEF e, N
  <2>7. AreEntries(F2, t[p].type, e)
    BY <2>1, <2>3, <2>4, <2>5, <2>6 DEF AreEntries
  <2>. QED  BY <2>7 DEF e
<1>. QED  BY <1>5, <1>10, <1>11, <1>12, <1>13, <1>14, <1>15 DEF AreStored

(* Forests and trees where blocks and forests have grown.                  *)
LEMMA EntriesLater ==
  ASSUME NEW F, NEW F2, F \subseteq F2, NEW type, NEW entries, AreEntries(F, type, entries)
  PROVE  AreEntries(F2, type, entries)
BY DEF AreEntries

LEMMA TreeLater ==
  ASSUME NEW B, NEW F, NEW B2, NEW F2, NEW kind, Grows(B, F, B2, F2),
         NEW t, IsTree(B, F, kind, t)
  PROVE  IsTree(B2, F2, kind, t)
<1>1. \A p \in DOMAIN t : t[p] \in F2 \/ IsKnown(B2, F2, kind, t[p])
  <2> TAKE p \in DOMAIN t
  <2>1. t[p] \in F \/ IsKnown(B, F, kind, t[p])
    BY DEF IsTree
  <2>2. IsKnown(B, F, kind, t[p]) => IsKnown(B2, F2, kind, t[p])
    BY KnownLater
  <2>. QED  BY <2>1, <2>2 DEF Grows
<1>. QED  BY <1>1 DEF IsTree

LEMMA RefLater ==
  ASSUME NEW B, NEW F, NEW B2, NEW F2, NEW kind, Grows(B, F, B2, F2),
         IsForest(B, F, kind), NEW r \in F
  PROVE  /\ r \in RefsOf(B2)
         /\ IsKnown(B2, F2, kind, AsNode(B2[r.cid], r.cid))
         /\ AreEntries(F2, B2[r.cid].type, B2[r.cid].entries)
<1>1. /\ r.cid \in DOMAIN B /\ r = Ref(B[r.cid].header, r.cid)
      /\ IsKnown(B, F, kind, AsNode(B[r.cid], r.cid))
      /\ AreEntries(F, B[r.cid].type, B[r.cid].entries)
  BY InForest
<1>2. B2[r.cid] = B[r.cid] /\ r.cid \in DOMAIN B2 /\ F \subseteq F2
  BY <1>1 DEF Grows
<1>3. r \in RefsOf(B2)
  BY <1>1, <1>2 DEF RefsOf
<1>4. IsKnown(B2, F2, kind, AsNode(B[r.cid], r.cid))
  BY <1>1, KnownLater
<1>5. AreEntries(F2, B[r.cid].type, B[r.cid].entries)
  BY <1>1, <1>2, EntriesLater
<1>. QED  BY <1>2, <1>3, <1>4, <1>5

LEMMA ForestLater ==
  ASSUME NEW B, NEW F, NEW B2, NEW kind, IsForest(B, F, kind), Grows(B, F, B2, F)
  PROVE  IsForest(B2, F, kind)
<1>1. ASSUME NEW r \in F
      PROVE  /\ r \in RefsOf(B2)
             /\ IsKnown(B2, F, kind, AsNode(B2[r.cid], r.cid))
             /\ AreEntries(F, B2[r.cid].type, B2[r.cid].entries)
  BY RefLater
<1>. QED  BY <1>1 DEF IsForest

LEMMA StoredIs ==
  ASSUME NEW F, NEW kind, NEW t, AreThere(F, kind), IsOpen(F, kind, t),
         NEW fresh, AreFresh(blocks, t, fresh), NEW s, s = Stored(t, fresh),
         NEW B2, B2 = Joined(blocks, s.blocks), NEW F2, F2 = F \cup s.refs
  PROVE  /\ Grows(blocks, F, B2, F2) /\ AreBlocks(B2, kind) /\ IsForest(B2, F2, kind)
         /\ IsTree(B2, F2, kind, s.tree)
         /\ s.key \in RefsOf(B2) /\ B2[s.key.cid].type = "dir"
         /\ DOMAIN s.tree = DOMAIN t /\ \A p \in DOMAIN t : s.tree[p].type = t[p].type
<1> DEFINE U == Unsaved(t)
<1>1. /\ IsFiniteSet(Reached(t)) /\ Reached(t) \subseteq DOMAIN t /\ U \subseteq Reached(t)
      /\ IsFiniteSet(U) /\ <<>> \in Reached(t) /\ \A p \in Reached(t) : IsNode(t, p)
  BY UnsavedIs
<1>2. /\ Grows(blocks, F, B2, F2) /\ F2 \subseteq RefsOf(B2) /\ IsFiniteSet(F2)
      /\ \A p \in Reached(t) : RefAt(t, fresh, p) \in F2
      /\ \A r \in F2 : r \in F \/ \E p \in U : r = Ref(t[p].header, fresh[p])
      /\ \A p \in U :
           /\ fresh[p] \in DOMAIN B2
           /\ IsKnown(B2, F2, kind, AsNode(t[p], fresh[p]))
           /\ AsNode(B2[fresh[p]], fresh[p]) = AsNode(t[p], fresh[p])
           /\ B2[fresh[p]].header = t[p].header /\ B2[fresh[p]].type = t[p].type
           /\ B2[fresh[p]].previous = t[p].previous
           /\ AreEntries(F2, B2[fresh[p]].type, B2[fresh[p]].entries)
  <2>1. AreStored(F, kind, t, fresh, B2, F2)
    <3>1. B2 = Joined(blocks, Stored(t, fresh).blocks) /\ F2 = F \cup Stored(t, fresh).refs
      OBVIOUS
    <3>. QED  BY <3>1, StoredNodes
  <2>. QED  BY <2>1 DEF AreStored
<1>3. /\ B2 = [c \in DOMAIN B2 |-> B2[c]]
      /\ DOMAIN B2 = DOMAIN blocks \cup {fresh[p] : p \in U}
      /\ \A c \in DOMAIN blocks : B2[c] = blocks[c]
  BY StoredBlocks
<1>4. IsForest(B2, F2, kind)
  <2>1. ASSUME NEW r \in F2
        PROVE  /\ IsKnown(B2, F2, kind, AsNode(B2[r.cid], r.cid))
               /\ AreEntries(F2, B2[r.cid].type, B2[r.cid].entries)
    <3>1. CASE r \in F
      BY <1>2, <3>1, RefLater DEF AreThere
    <3>2. CASE r \notin F
      <4>1. PICK p \in U : r = Ref(t[p].header, fresh[p])
        BY <1>2, <3>2
      <4>2. r.cid = fresh[p]
        BY <4>1, RefOf
      <4>. QED  BY <1>2, <4>2
    <3>. QED  BY <3>1, <3>2
  <2>. QED  BY <1>2, <2>1 DEF IsForest
<1>5. AreBlocks(B2, kind)
  <2> DEFINE n == Cardinality(DOMAIN blocks)
             new == {fresh[p] : p \in U}
  <2>1. IsFiniteSet(DOMAIN blocks) /\ n \in Nat /\ IsFiniteSet(new)
    <3>1. IsFiniteSet(DOMAIN blocks)
      BY DEF AreThere, AreBlocks
    <3> HIDE DEF U
    <3>. QED  BY <1>1, <3>1, ValuesOf, FS_CardinalityType
  <2>2. Cardinality(new) = Cardinality(U) /\ Cardinality(U) \in Nat
    <3> DEFINE f == [p \in U |-> fresh[p]]
    <3>1. f \in Surjection(U, new)
      BY DEF Surjection
    <3>2. f \in Injection(U, new)
      <4>1. \A p, q \in U : f[p] = f[q] => p = q
        BY DEF AreFresh
      <4>2. f \in [U -> new]
        OBVIOUS
      <4> HIDE DEF f, U, new
      <4>. QED  BY <4>1, <4>2 DEF Injection, IsInjective
    <3> HIDE DEF f, U, new
    <3>. QED  BY <1>1, <3>1, <3>2, FS_Surjection, FS_CardinalityType
  <2>3. DOMAIN blocks \cap new = {}
    BY DEF AreFresh
  <2>4. IsFiniteSet(DOMAIN B2) /\ Cardinality(DOMAIN B2) = n + Cardinality(U)
    <3> HIDE DEF U, new
    <3>1. IsFiniteSet(DOMAIN blocks \cup new)
      BY <2>1, FS_Union
    <3>2. Cardinality(DOMAIN blocks \cup new) =
            Cardinality(DOMAIN blocks) + Cardinality(new) - Cardinality(DOMAIN blocks \cap new)
      BY <2>1, FS_Union
    <3>3. Cardinality(DOMAIN blocks \cap new) = 0
      BY <2>3, FS_EmptySet
    <3>4. DOMAIN B2 = DOMAIN blocks \cup new
      BY <1>3 DEF new, U
    <3>. QED  BY <2>1, <2>2, <3>1, <3>2, <3>3, <3>4
  <2>5. ASSUME NEW c \in DOMAIN blocks
        PROVE  /\ c \in Ranks \X (1 .. Cardinality(DOMAIN B2))
               /\ AsNode(B2[c], c) \in NodesOver(B2)
               /\ HasKind(kind, AsNode(B2[c], c))
               /\ AreEntries(RefsOf(B2), B2[c].type, B2[c].entries)
               /\ \A l \in B2[c].previous : l.key = TemporalKey(B2[l.cid].header)
    <3>1. /\ c \in Ranks \X (1 .. n) /\ AsNode(blocks[c], c) \in NodesOver(blocks)
          /\ HasKind(kind, AsNode(blocks[c], c))
          /\ AreEntries(RefsOf(blocks), blocks[c].type, blocks[c].entries)
          /\ \A l \in blocks[c].previous : l.key = TemporalKey(blocks[l.cid].header)
      BY DEF AreThere, AreBlocks
    <3>2. c \in Ranks \X (1 .. Cardinality(DOMAIN B2))
      <4>1. 1 .. n \subseteq 1 .. Cardinality(DOMAIN B2)
        BY <2>1, <2>2, <2>4
      <4>. QED  BY <3>1, <4>1
    <3>3. NodesOver(blocks) \subseteq NodesOver(B2)
      BY <1>3 DEF NodesOver, Links
    <3>4. RefsOf(blocks) \subseteq RefsOf(B2)
      BY <1>3 DEF RefsOf
    <3>5. \A l \in blocks[c].previous : l.cid \in DOMAIN blocks
      <4>1. AsNode(blocks[c], c).previous = blocks[c].previous
        BY NodeOf DEF AsNode
      <4>2. blocks[c].previous \subseteq Links(blocks)
        BY <3>1, <4>1, FieldsIn
      <4>. QED  BY <4>2, LinkOf
    <3>6. AreEntries(RefsOf(B2), blocks[c].type, blocks[c].entries)
      BY <3>1, <3>4, EntriesLater
    <3>. QED  BY <1>3, <3>1, <3>2, <3>3, <3>5, <3>6
  <2>6. ASSUME NEW p \in U, NEW c, c = fresh[p]
        PROVE  /\ c \in Ranks \X (1 .. Cardinality(DOMAIN B2))
               /\ AsNode(B2[c], c) \in NodesOver(B2)
               /\ HasKind(kind, AsNode(B2[c], c))
               /\ AreEntries(RefsOf(B2), B2[c].type, B2[c].entries)
               /\ \A l \in B2[c].previous : l.key = TemporalKey(B2[l.cid].header)
    <3>1. c \in Ranks \X (1 .. Cardinality(DOMAIN B2))
      BY <2>4, <2>6 DEF AreFresh
    <3>2. PICK m : m = AsNode(B2[c], c)
      OBVIOUS
    <3>3. IsKnown(B2, F2, kind, m) /\ m.previous = B2[c].previous
      <4>1. IsKnown(B2, F2, kind, m)
        BY <1>2, <2>6, <3>2
      <4>2. m.previous = B2[c].previous
        BY <3>2, NodeOf DEF AsNode
      <4>. QED  BY <4>1, <4>2
    <3>4. /\ m \in NodesOver(B2) /\ HasKind(kind, m)
          /\ \A l \in m.previous : l.key = TemporalKey(B2[l.cid].header)
      BY <3>3 DEF IsKnown, IsLink
    <3>5. AreEntries(RefsOf(B2), B2[c].type, B2[c].entries)
      BY <1>2, <2>6, EntriesLater
    <3>. QED  BY <3>1, <3>2, <3>3, <3>4, <3>5
  <2>7. \A c \in DOMAIN B2 : c \in DOMAIN blocks \/ \E p \in U : c = fresh[p]
    BY <1>3
  <2> HIDE DEF n, new, U
  <2>8. \A c \in DOMAIN B2 :
          /\ c \in Ranks \X (1 .. Cardinality(DOMAIN B2))
          /\ AsNode(B2[c], c) \in NodesOver(B2)
          /\ HasKind(kind, AsNode(B2[c], c))
          /\ AreEntries(RefsOf(B2), B2[c].type, B2[c].entries)
          /\ \A l \in B2[c].previous : l.key = TemporalKey(B2[l.cid].header)
    BY <2>5, <2>6, <2>7
  <2>9. \E c \in DOMAIN B2 : B2[c].header = RootHeader
    <3>1. PICK c \in DOMAIN blocks : blocks[c].header = RootHeader
      BY DEF AreThere, AreBlocks
    <3>2. c \in DOMAIN B2 /\ B2[c] = blocks[c]
      BY <1>2 DEF Grows
    <3>. QED  BY <3>1, <3>2
  <2>. QED  BY <1>3, <2>4, <2>8, <2>9 DEF AreBlocks
<1>6. s.tree = TreeAfter(t, fresh) /\ s.key = RefAt(t, fresh, <<>>)
  BY StoredParts
<1>7. /\ DOMAIN s.tree = DOMAIN t /\ s.tree = [p \in DOMAIN t |-> s.tree[p]]
      /\ \A p \in DOMAIN t : s.tree[p] = IF p \in U THEN AsNode(t[p], fresh[p]) ELSE t[p]
  <2>1. DOMAIN fresh = U
    BY DEF AreFresh
  <2>. QED  BY <1>6, <2>1 DEF TreeAfter
<1>8. \A p \in DOMAIN t : s.tree[p].type = t[p].type
  <2> TAKE p \in DOMAIN t
  <2>1. AsNode(t[p], fresh[p]).type = t[p].type
    BY NodeOf DEF AsNode
  <2>. QED  BY <1>7, <2>1
<1>9. \A p \in DOMAIN t : t[p] \in F2 \/ IsKnown(B2, F2, kind, t[p])
  <2>1. IsTree(B2, F2, kind, t)
    BY <1>2, TreeLater DEF IsOpen
  <2>. QED  BY <2>1 DEF IsTree
<1>10. IsTree(B2, F2, kind, s.tree)
  <2>1. \A p \in DOMAIN t : s.tree[p] \in F2 \/ IsKnown(B2, F2, kind, s.tree[p])
    BY <1>2, <1>7, <1>9
  <2>2. /\ IsFiniteSet(DOMAIN t) /\ DOMAIN t \subseteq Seq(Names)
        /\ <<>> \in DOMAIN t /\ t[<<>>].type = "dir"
        /\ \A p \in DOMAIN t \ {<<>>} : Front(p) \in DOMAIN t /\ t[Front(p)].type = "dir"
    BY DEF IsOpen, IsTree
  <2>. QED  BY <1>7, <1>8, <2>1, <2>2 DEF IsTree
<1>11. s.key \in RefsOf(B2) /\ B2[s.key.cid].type = "dir"
  <2>1. PICK root : root = <<>>
    OBVIOUS
  <2>2. PICK k : k = s.key
    OBVIOUS
  <2>3. k \in F2 /\ k \in RefsOf(B2) /\ t[root].type = "dir" /\ root \in DOMAIN t
        /\ root \in Reached(t) /\ k = RefAt(t, fresh, root)
    BY <1>1, <1>2, <1>6, <2>1, <2>2 DEF IsOpen, IsTree
  <2>4. k.label = t[root].header
    BY <1>1, <2>3, RefOf DEF RefAt
  <2>5. IsKnown(blocks, F, kind, t[root])
    BY <1>1, <2>3, OpenOf
  <2>6. t[root].type = kind[t[root].header.id]
    BY <2>5, KnownOf
  <2>7. /\ k.label = B2[k.cid].header
        /\ IsKnown(B2, F2, kind, AsNode(B2[k.cid], k.cid))
    BY <1>4, <2>3, InForest
  <2>8. B2[k.cid].type = kind[B2[k.cid].header.id]
    BY <2>7, KnownOf, NodeOf DEF AsNode
  <2>. QED  BY <2>2, <2>3, <2>4, <2>6, <2>7, <2>8
<1>. QED  BY <1>2, <1>4, <1>5, <1>7, <1>8, <1>10, <1>11

--------------------------------------------------------------------------------
(* The steps.                                                              *)

(* UsedIds, of any blockstore and working copies.                          *)
UsedIn(B, T) ==
  (UNION {B[c].header.name : c \in DOMAIN B})
    \cup (UNION {UNION {T[d][p].header.name : p \in {q \in DOMAIN T[d] : IsNode(T[d], q)}} :
                   d \in DOMAIN T})

LEMMA UsedAre ==
  ASSUME NEW B, NEW T, DOMAIN T = Devices
  PROVE  /\ \A c \in DOMAIN B : B[c].header.name \subseteq UsedIn(B, T)
         /\ \A d \in Devices : \A p \in DOMAIN T[d] :
              IsNode(T[d], p) => T[d][p].header.name \subseteq UsedIn(B, T)
         /\ \A k \in UsedIn(B, T) :
              \/ \E c \in DOMAIN B : k \in B[c].header.name
              \/ \E d \in Devices : \E p \in DOMAIN T[d] :
                   IsNode(T[d], p) /\ k \in T[d][p].header.name
BY DEF UsedIn

(* A kind is one for the ids in use.                                       *)
LEMMA KindOfUsed ==
  ASSUME NEW B, NEW Fs, NEW T, T = [d \in Devices |-> T[d]],
         NEW other, other \in Kinds(DOMAIN other), AllAre(B, Fs, T, other)
  PROVE  \E kind \in Kinds(UsedIn(B, T)) : AllAre(B, Fs, T, kind)
<1> DEFINE U == UsedIn(B, T)
           kind == [k \in U |-> other[k]]
<1>1. DOMAIN T = Devices
  OBVIOUS
<1>2. /\ \A c \in DOMAIN B : B[c].header.name \subseteq U
      /\ \A d \in Devices : \A p \in DOMAIN T[d] :
           IsNode(T[d], p) => T[d][p].header.name \subseteq U
  BY <1>1, UsedAre
<1>3. ASSUME NEW c \in DOMAIN B
      PROVE  /\ B[c].header.name \subseteq DOMAIN other
             /\ AsNode(B[c], c).header = B[c].header
             /\ B[c].header.id \in B[c].header.name
             /\ HasKind(other, AsNode(B[c], c))
  <2>1. AsNode(B[c], c) \in NodesOver(B) /\ HasKind(other, AsNode(B[c], c))
    BY DEF AllAre, AreBlocks
  <2>2. AsNode(B[c], c).header = B[c].header
    BY NodeOf DEF AsNode
  <2>. QED  BY <2>1, <2>2, FieldsIn, HeaderOf DEF HasKind
<1>4. ASSUME NEW d \in Devices, NEW p \in DOMAIN T[d], IsNode(T[d], p)
      PROVE  IsKnown(B, Fs[d], other, T[d][p])
  <2>1. Fs[d] \subseteq RefsOf(B) /\ IsTree(B, Fs[d], other, T[d])
    BY DEF AllAre, IsForest
  <2>. QED  BY <1>4, <2>1, TreeOf
<1>5. U \subseteq DOMAIN other
  <2>1. ASSUME NEW k \in U PROVE k \in DOMAIN other
    <3>1. CASE \E c \in DOMAIN B : k \in B[c].header.name
      BY <1>3, <3>1
    <3>2. CASE \E d \in Devices : \E p \in DOMAIN T[d] :
                 IsNode(T[d], p) /\ k \in T[d][p].header.name
      <4>1. PICK d \in Devices : \E p \in DOMAIN T[d] :
                 IsNode(T[d], p) /\ k \in T[d][p].header.name
        BY <3>2
      <4>2. PICK p \in DOMAIN T[d] : IsNode(T[d], p) /\ k \in T[d][p].header.name
        BY <4>1
      <4>. QED  BY <1>4, <4>2, KnownOf
    <3>. QED  BY <1>1, <2>1, <3>1, <3>2, UsedAre
  <2>. QED  BY <2>1
<1>6. kind \in Kinds(U) /\ DOMAIN kind = U /\ \A k \in U : kind[k] = other[k]
  BY <1>5 DEF Kinds
<1> HIDE DEF kind, U
<1>7. ASSUME NEW F, NEW n, IsKnown(B, F, other, n), n.header.name \subseteq U
      PROVE  IsKnown(B, F, kind, n)
  BY <1>6, <1>7, SameKind
<1>8. AreBlocks(B, kind)
  <2>1. ASSUME NEW c \in DOMAIN B PROVE HasKind(kind, AsNode(B[c], c))
    BY <1>2, <1>3, <1>6 DEF HasKind
  <2>. QED  BY <2>1 DEF AllAre, AreBlocks
<1>9. ASSUME NEW d \in Devices PROVE IsForest(B, Fs[d], kind)
  <2>1. IsForest(B, Fs[d], other)
    BY DEF AllAre
  <2>2. ASSUME NEW r \in Fs[d] PROVE IsKnown(B, Fs[d], kind, AsNode(B[r.cid], r.cid))
    <3>1. r.cid \in DOMAIN B /\ IsKnown(B, Fs[d], other, AsNode(B[r.cid], r.cid))
      BY <2>1, InForest
    <3>2. AsNode(B[r.cid], r.cid).header.name \subseteq U
      BY <1>2, <1>3, <3>1
    <3>. QED  BY <1>7, <3>1, <3>2
  <2>. QED  BY <2>1, <2>2 DEF IsForest
<1>10. ASSUME NEW d \in Devices PROVE IsTree(B, Fs[d], kind, T[d])
  <2>1. IsTree(B, Fs[d], other, T[d])
    BY DEF AllAre
  <2>2. ASSUME NEW p \in DOMAIN T[d]
        PROVE  T[d][p] \in Fs[d] \/ IsKnown(B, Fs[d], kind, T[d][p])
    <3>1. CASE T[d][p] \in Fs[d]
      BY <3>1
    <3>2. CASE IsKnown(B, Fs[d], other, T[d][p])
      <4>1. IsNode(T[d], p)
        BY <3>2, KnownOf DEF IsNode
      <4>. QED  BY <1>2, <1>7, <3>2, <4>1
    <3>. QED  BY <2>1, <3>1, <3>2 DEF IsTree
  <2>. QED  BY <2>1, <2>2 DEF IsTree
<1>. QED  BY <1>6, <1>8, <1>9, <1>10 DEF AllAre, U

(* What a step leaves is as it should be if it is so for some kind.        *)
LEMMA IInvNext ==
  ASSUME forest' = [d \in Devices |-> forest'[d]], tree' = [d \in Devices |-> tree'[d]],
         NEW other, other \in Kinds(DOMAIN other), AllAre(blocks', forest', tree', other),
         \A key \in keys' : key \in RefsOf(blocks') /\ blocks'[key.cid].type = "dir"
  PROVE  IInv'
<1>1. \E kind \in Kinds(UsedIn(blocks', tree')) : AllAre(blocks', forest', tree', kind)
  BY KindOfUsed
<1>2. UsedIds' = UsedIn(blocks', tree')
  BY DEF UsedIds, UsedIn, IsNode
<1>3. \E kind \in Kinds(UsedIds') : AllAre(blocks', forest', tree', kind)
  BY <1>1, <1>2
<1>. QED  BY <1>3 DEF IInv, AllAre, Kinds, AreBlocks, IsForest, IsTree, RefsOf

(* What an operation of a device finds.                                    *)
LEMMA IsThere ==
  ASSUME IInv, NEW kind \in Kinds(UsedIds), AllAre(blocks, forest, tree, kind)
  PROVE  /\ AreIds /\ Extends(kind, kind) /\ kind \in Kinds(DOMAIN kind)
         /\ \A d \in Devices : /\ AreThere(forest[d], kind)
                               /\ IsOpen(forest[d], kind, tree[d])
<1>1. \A d \in Devices : /\ IsForest(blocks, forest[d], kind)
                         /\ IsTree(blocks, forest[d], kind, tree[d])
  BY DEF AllAre
<1>2. AreBlocks(blocks, kind) /\ tree = [d \in Devices |-> tree[d]]
  BY DEF AllAre, IInv
<1>3. AreIds
  BY <1>1, <1>2, AreIdsIf
<1>4. Extends(kind, kind)
  BY ExtendsItself
<1>5. kind \in Kinds(DOMAIN kind)
  BY <1>4 DEF Extends
<1>. QED  BY <1>1, <1>2, <1>3, <1>4, <1>5 DEF AreThere, IsOpen

LEMMA PathsAre ==
  /\ PathsInUse \in Seq(Seq(Names)) /\ Paths \subseteq Seq(Names)
  /\ \A n : \A p \in Paths : n \in Range(p) => n \in Names
<1>1. PathsInUse \in Seq(Seq(Names))
  BY PathsAssumption
<1>2. \A i \in DOMAIN PathsInUse : PathsInUse[i] \in Seq(Names)
  BY <1>1
<1>. QED  BY <1>1, <1>2 DEF Paths, Names, Range

(* An operation that only changes the working copy of one device.          *)
LEMMA BecomesKeeps ==
  ASSUME IInv, NEW kind \in Kinds(UsedIds), AllAre(blocks, forest, tree, kind),
         NEW d \in Devices, NEW other, Extends(kind, other),
         NEW t, IsOpen(forest[d], other, t), Becomes(d, t)
  PROVE  IInv'
<1>1. /\ forest = [e \in Devices |-> forest[e]] /\ tree = [e \in Devices |-> tree[e]]
      /\ \A key \in keys : key \in RefsOf(blocks) /\ blocks[key.cid].type = "dir"
  BY DEF IInv
<1>2. /\ tree' = [tree EXCEPT ![d] = t]
      /\ blocks' = blocks /\ forest' = forest /\ keys' = keys
  BY DEF Becomes
<1>3. /\ tree' = [e \in Devices |-> tree'[e]]
      /\ tree'[d] = t /\ \A e \in Devices \ {d} : tree'[e] = tree[e]
  BY <1>1, <1>2
<1>4. AllAre(blocks', forest', tree', other)
  <2>1. AreBlocks(blocks, other)
    BY ExtendedIs DEF AllAre
  <2>2. ASSUME NEW e \in Devices
        PROVE  IsForest(blocks, forest[e], other) /\ IsTree(blocks, forest[e], other, tree'[e])
    <3>1. IsForest(blocks, forest[e], other) /\ IsTree(blocks, forest[e], other, tree[e])
      BY ExtendedIs DEF AllAre
    <3>. QED  BY <1>3, <3>1 DEF IsOpen
  <2>. QED  BY <1>2, <2>1, <2>2 DEF AllAre
<1>5. other \in Kinds(DOMAIN other)
  BY DEF Extends
<1>6. \A key \in keys' : key \in RefsOf(blocks') /\ blocks'[key.cid].type = "dir"
  BY <1>1, <1>2
<1>7. forest' = [e \in Devices |-> forest'[e]]
  BY <1>1, <1>2
<1>. QED  BY <1>3, <1>4, <1>5, <1>6, <1>7, IInvNext

(* A store of a tree that a device has, or of what it has below a path.    *)
LEMMA StoringKeeps ==
  ASSUME IInv, NEW kind \in Kinds(UsedIds), AllAre(blocks, forest, tree, kind),
         NEW d \in Devices, NEW other, Extends(kind, other),
         NEW t, IsOpen(forest[d], other, t), NEW rank \in [Unsaved(t) -> Ranks],
         NEW s, s = Stored(t, FreshCids(Unsaved(t), rank, 0)),
         blocks' = Joined(blocks, s.blocks),
         forest' = [forest EXCEPT ![d] = @ \cup s.refs],
         tree' = tree \/ tree' = [tree EXCEPT ![d] = s.tree],
         keys' = keys \/ keys' = keys \cup {s.key}
  PROVE  IInv'
<1> DEFINE F == forest[d]
           F2 == F \cup s.refs
           B2 == Joined(blocks, s.blocks)
<1>1. /\ forest = [e \in Devices |-> forest[e]] /\ tree = [e \in Devices |-> tree[e]]
      /\ \A key \in keys : key \in RefsOf(blocks) /\ blocks[key.cid].type = "dir"
  BY DEF IInv
<1>2. /\ forest' = [e \in Devices |-> forest'[e]] /\ tree' = [e \in Devices |-> tree'[e]]
      /\ forest'[d] = F2 /\ (tree'[d] = tree[d] \/ tree'[d] = s.tree)
      /\ \A e \in Devices \ {d} : forest'[e] = forest[e] /\ tree'[e] = tree[e]
  BY <1>1
<1>3. AreBlocks(blocks, other) /\ AreThere(F, other) /\ other \in Kinds(DOMAIN other)
      /\ \A e \in Devices : /\ IsForest(blocks, forest[e], other)
                            /\ IsTree(blocks, forest[e], other, tree[e])
  <2>1. AreBlocks(blocks, other)
    BY ExtendedIs DEF AllAre
  <2>2. \A e \in Devices : /\ IsForest(blocks, forest[e], other)
                           /\ IsTree(blocks, forest[e], other, tree[e])
    BY ExtendedIs DEF AllAre
  <2>3. other \in Kinds(DOMAIN other)
    BY DEF Extends
  <2>. QED  BY <2>1, <2>2, <2>3 DEF AreThere
<1>4. PICK fresh : fresh = FreshCids(Unsaved(t), rank, 0)
  OBVIOUS
<1>5. AreFresh(blocks, t, fresh)
  BY <1>3, <1>4, FreshCidsAre
<1>6. /\ Grows(blocks, F, B2, F2) /\ AreBlocks(B2, other) /\ IsForest(B2, F2, other)
      /\ IsTree(B2, F2, other, s.tree)
      /\ s.key \in RefsOf(B2) /\ B2[s.key.cid].type = "dir"
  <2>1. s = Stored(t, fresh)
    BY <1>4
  <2>. QED  BY <1>3, <1>5, <2>1, StoredIs
<1> HIDE DEF B2, F2, F
<1>7. blocks' = B2
  BY DEF B2
<1>8. ASSUME NEW e \in Devices \ {d}
      PROVE  IsForest(B2, forest'[e], other) /\ IsTree(B2, forest'[e], other, tree'[e])
  <2>1. Grows(blocks, forest[e], B2, forest[e])
    BY <1>6 DEF Grows
  <2>2. IsForest(B2, forest[e], other) /\ IsTree(B2, forest[e], other, tree[e])
    BY <1>3, <2>1, ForestLater, TreeLater
  <2>. QED  BY <1>2, <2>2
<1>9. IsForest(B2, forest'[d], other) /\ IsTree(B2, forest'[d], other, tree'[d])
  <2>1. IsTree(B2, F2, other, tree[d])
    BY <1>3, <1>6, TreeLater DEF F
  <2>. QED  BY <1>2, <1>6, <2>1
<1>10. AllAre(blocks', forest', tree', other)
  BY <1>6, <1>7, <1>8, <1>9 DEF AllAre
<1>11. \A key \in keys' : key \in RefsOf(blocks') /\ blocks'[key.cid].type = "dir"
  <2>1. ASSUME NEW key \in keys PROVE key \in RefsOf(B2) /\ B2[key.cid].type = "dir"
    <3>1. key \in RefsOf(blocks) /\ blocks[key.cid].type = "dir"
      BY <1>1
    <3>2. PICK c \in DOMAIN blocks : key = Ref(blocks[c].header, c)
      BY <3>1 DEF RefsOf
    <3>3. key.cid = c
      BY <3>2, RefOf
    <3>4. c \in DOMAIN B2 /\ B2[c] = blocks[c]
      BY <1>6 DEF Grows
    <3>. QED  BY <3>1, <3>2, <3>3, <3>4 DEF RefsOf
  <2>. QED  BY <1>6, <1>7, <2>1
<1>. QED  BY <1>2, <1>3, <1>10, <1>11, IInvNext

(* The store of a whole working copy.                                      *)
LEMMA StoreKeeps ==
  ASSUME IInv, NEW d \in Devices, Store(d)
  PROVE  IInv'
<1>1. PICK kind \in Kinds(UsedIds) : AllAre(blocks, forest, tree, kind)
  BY DEF IInv
<1>2. Extends(kind, kind) /\ IsOpen(forest[d], kind, tree[d])
  BY <1>1, IsThere
<1>3. PICK t : t = tree[d]
  OBVIOUS
<1>4. PICK rank \in [Unsaved(t) -> Ranks] :
        LET s == Stored(t, FreshCids(Unsaved(t), rank, 0))
        IN /\ tree'   = [tree EXCEPT ![d] = s.tree]
           /\ blocks' = Joined(blocks, s.blocks)
           /\ forest' = [forest EXCEPT ![d] = @ \cup s.refs]
           /\ keys'   = keys \cup {s.key}
  BY <1>3 DEF Store
<1>5. PICK s : s = Stored(t, FreshCids(Unsaved(t), rank, 0))
  OBVIOUS
<1>6. /\ tree'   = [tree EXCEPT ![d] = s.tree]
      /\ blocks' = Joined(blocks, s.blocks)
      /\ forest' = [forest EXCEPT ![d] = @ \cup s.refs]
      /\ keys'   = keys \cup {s.key}
  BY <1>4, <1>5
<1>. QED  BY <1>1, <1>2, <1>3, <1>5, <1>6, StoringKeeps

(* HamtForest::merge.                                                      *)
LEMMA SyncKeeps ==
  ASSUME IInv, NEW d \in Devices, NEW e \in Devices, Sync(d, e)
  PROVE  IInv'
<1>1. PICK kind \in Kinds(UsedIds) : AllAre(blocks, forest, tree, kind)
  BY DEF IInv
<1>2. /\ forest' = [forest EXCEPT ![d] = @ \cup forest[e]]
      /\ blocks' = blocks /\ keys' = keys /\ tree' = tree
  BY DEF Sync
<1> DEFINE F2 == forest[d] \cup forest[e]
<1>3. /\ forest = [x \in Devices |-> forest[x]] /\ tree = [x \in Devices |-> tree[x]]
      /\ \A key \in keys : key \in RefsOf(blocks) /\ blocks[key.cid].type = "dir"
  BY DEF IInv
<1>4. /\ forest' = [x \in Devices |-> forest'[x]] /\ forest'[d] = F2
      /\ \A x \in Devices \ {d} : forest'[x] = forest[x]
  BY <1>2, <1>3
<1>5. /\ AreBlocks(blocks, kind)
      /\ \A x \in Devices : /\ IsForest(blocks, forest[x], kind)
                            /\ IsTree(blocks, forest[x], kind, tree[x])
  BY <1>1 DEF AllAre
<1>6. Grows(blocks, forest[d], blocks, F2) /\ Grows(blocks, forest[e], blocks, F2)
  BY DEF Grows
<1>7. IsForest(blocks, F2, kind)
  <2>1. F2 \subseteq RefsOf(blocks) /\ IsFiniteSet(F2)
    <3>1. /\ forest[d] \subseteq RefsOf(blocks) /\ IsFiniteSet(forest[d])
          /\ forest[e] \subseteq RefsOf(blocks) /\ IsFiniteSet(forest[e])
      BY <1>5 DEF IsForest
    <3>. QED  BY <3>1, FS_Union
  <2>2. ASSUME NEW r \in forest[d] \cup forest[e]
        PROVE  /\ IsKnown(blocks, F2, kind, AsNode(blocks[r.cid], r.cid))
               /\ AreEntries(F2, blocks[r.cid].type, blocks[r.cid].entries)
    <3> HIDE DEF F2
    <3>1. CASE r \in forest[d]
      BY <1>5, <1>6, <3>1, RefLater
    <3>2. CASE r \in forest[e]
      BY <1>5, <1>6, <3>2, RefLater
    <3>. QED  BY <2>2, <3>1, <3>2
  <2>. QED  BY <2>1, <2>2 DEF IsForest
<1>8. IsTree(blocks, F2, kind, tree[d])
  BY <1>5, <1>6, TreeLater
<1> HIDE DEF F2
<1>9. AllAre(blocks', forest', tree', kind)
  <2>1. \A x \in Devices : /\ IsForest(blocks, forest'[x], kind)
                           /\ IsTree(blocks, forest'[x], kind, tree[x])
    BY <1>4, <1>5, <1>7, <1>8
  <2>. QED  BY <1>2, <1>5, <2>1 DEF AllAre
<1>10. kind \in Kinds(DOMAIN kind)
  BY <1>1, IsThere
<1>11. /\ tree' = [x \in Devices |-> tree'[x]]
       /\ \A key \in keys' : key \in RefsOf(blocks') /\ blocks'[key.cid].type = "dir"
  BY <1>2, <1>3
<1>. QED  BY <1>4, <1>9, <1>10, <1>11, IInvNext

(* A directory below the root is a root of its own.                        *)
LEMMA SubtreeIs ==
  ASSUME NEW F, NEW kind, NEW u, AreThere(F, kind), IsOpen(F, kind, u),
         NEW p \in Seq(Names), p \in DOMAIN u, u[p].type = "dir",
         NEW s, s = Subtree(u, p)
  PROVE  IsOpen(F, kind, s)
<1> DEFINE S == Below(u, p)
           root == <<>>
           c(q) == Corresponding(p, root, q)
           N == {c(q) : q \in S}
<1>1. \A q \in S : q \in DOMAIN u /\ q \in Seq(Names) /\ IsPrefix(p, q)
  BY OpenOf DEF Below
<1>2. root \in Seq(Names)
  BY EmptySeq
<1>3. ASSUME NEW q \in S
      PROVE  /\ c(q) \in Seq(Names) /\ c(q) = Suffix(p, q) /\ p \o c(q) = q
  <2>1. q \in Seq(Names) /\ IsPrefix(p, q)
    BY <1>1
  <2>2. Replaces(Names, p, root, q, c(q)) /\ Corresponding(root, p, c(q)) = q
    <3> HIDE DEF root
    <3>. QED  BY <1>2, <2>1, CorrespondingOf, CorrespondingSteps
  <2>3. c(q) \in Seq(Names)
    BY <2>2 DEF Replaces
  <2>4. c(q) = Suffix(p, q)
    <3>1. Suffix(p, q) \in Seq(Names)
      <4>1. /\ Len(p) + 1 \in Int /\ Len(q) \in Int
            /\ \A i \in Len(p) + 1 .. Len(q) : q[i] \in Names
        <5>1. Len(p) \in Nat /\ Len(q) \in Nat
          BY <2>1, LenProperties
        <5>2. \A i \in 1 .. Len(q) : q[i] \in Names
          BY <2>1, ElementOfSeq
        <5>. QED  BY <5>1, <5>2
      <4>. QED  BY <4>1, SubSeqProperties DEF Suffix
    <3>. QED  BY <3>1, ConcatEmptySeq DEF Corresponding, Suffix
  <2>5. SubSeq(c(q), 1, Len(c(q))) = c(q)
    <3> HIDE DEF c
    <3>. QED  BY <2>3, SubSeqFull
  <2>6. Len(root) + 1 = 1
    OBVIOUS
  <2>7. Corresponding(root, p, c(q)) = p \o c(q)
    <3> HIDE DEF c
    <3>. QED  BY <2>5, <2>6 DEF Corresponding
  <2>. QED  BY <2>2, <2>3, <2>4, <2>7
<1>4. /\ s = [x \in N |-> s[x]] /\ DOMAIN s = N
      /\ \A q \in S : c(q) \in N /\ s[c(q)] = u[q]
  <2>1. N = {Suffix(p, q) : q \in S}
    BY <1>3
  <2>2. s = [x \in {Suffix(p, q) : q \in S} |-> u[p \o x]]
    BY DEF Subtree, Below
  <2>3. s = [x \in N |-> u[p \o x]]
    BY <2>1, <2>2
  <2>4. \A q \in S : c(q) \in N
    OBVIOUS
  <2> HIDE DEF N, c
  <2>. QED  BY <1>3, <2>3, <2>4
<1>5. IsFiniteSet(N)
  <2>1. S \in SUBSET DOMAIN u
    BY <1>1
  <2>2. IsFiniteSet(S)
    <3> HIDE DEF S
    <3>. QED  BY <2>1, FS_Subset DEF IsOpen, IsTree
  <2> DEFINE f == [q \in S |-> c(q)]
  <2>3. N = {f[q] : q \in S}
    OBVIOUS
  <2> HIDE DEF f, S, N
  <2>. QED  BY <2>2, <2>3, ValuesOf
<1>6. p \in S /\ c(p) = root
  <2>1. IsPrefix(p, p)
    BY PrefixOrder
  <2>2. c(p) = root
    <3> HIDE DEF root
    <3>. QED  BY <1>2, <2>1, CorrespondingSteps
  <2>. QED  BY <2>1, <2>2 DEF Below
<1>7. ASSUME NEW q \in S, c(q) # root
      PROVE  Front(c(q)) \in N /\ s[Front(c(q))].type = "dir"
  <2>1. q \in Seq(Names) /\ IsPrefix(p, q) /\ q \in DOMAIN u
    BY <1>1
  <2>2. q # p
    BY <1>6, <1>7
  <2>3. IsPrefix(p, Front(q)) /\ Front(c(q)) = c(Front(q))
    <3> HIDE DEF root
    <3>. QED  BY <1>2, <2>1, <2>2, CorrespondingSteps
  <2>4. q # <<>>
    <3>1. q = <<>> => p = <<>>
      BY <2>1, PrefixOrder
    <3>. QED  BY <2>2, <3>1
  <2>5. Front(q) \in DOMAIN u /\ u[Front(q)].type = "dir"
    BY <2>1, <2>4, OpenOf
  <2>6. Front(q) \in S
    BY <2>3, <2>5 DEF Below
  <2> HIDE DEF c, N, S
  <2>. QED  BY <1>4, <2>3, <2>5, <2>6
<1>8. \A q \in S : u[q] \in F \/ IsKnown(blocks, F, kind, u[q])
  BY <1>1 DEF IsOpen, IsTree
<1>9. \A x \in N : \E q \in S : x = c(q)
  OBVIOUS
<1> HIDE DEF c, N, S
<1>10. N \subseteq Seq(Names) /\ <<>> \in N /\ s[<<>>].type = "dir"
  BY <1>3, <1>4, <1>6, <1>9
<1>11. /\ \A x \in N : s[x] \in F \/ IsKnown(blocks, F, kind, s[x])
       /\ \A x \in N \ {<<>>} : Front(x) \in N /\ s[Front(x)].type = "dir"
  <2>1. \A x \in N : s[x] \in F \/ IsKnown(blocks, F, kind, s[x])
    BY <1>4, <1>8, <1>9
  <2>2. \A x \in N \ {root} : Front(x) \in N /\ s[Front(x)].type = "dir"
    BY <1>7, <1>9
  <2>. QED  BY <2>1, <2>2
<1>. QED  BY <1>4, <1>5, <1>10, <1>11 DEF IsOpen, IsTree

(* A write and a store in a directory that was got from the root.          *)
LEMMA WriteBelowKeeps ==
  ASSUME IInv, NEW d \in Devices, NEW p \in Seq(Names), NEW name \in Names,
         NEW x \in Contents, WriteBelow(d, p, name, x)
  PROVE  IInv'
<1>1. PICK kind \in Kinds(UsedIds) : AllAre(blocks, forest, tree, kind)
  BY DEF IInv
<1>2. /\ AreIds /\ AreThere(forest[d], kind) /\ IsOpen(forest[d], kind, tree[d])
  BY <1>1, IsThere
<1>3. PICK u \in Found(forest[d], tree[d], p) :
        \E w \in {Written(forest[d], Subtree(u, p), <<name>>, x)} :
          /\ u[p].type = "dir"
          /\ \E rank \in [Unsaved(w.tree) -> Ranks] :
               LET s == Stored(w.tree, FreshCids(Unsaved(w.tree), rank, 0))
               IN /\ blocks' = Joined(blocks, s.blocks)
                  /\ forest' = [forest EXCEPT ![d] = @ \cup s.refs]
                  /\ UNCHANGED <<keys, tree>>
  BY DEF WriteBelow
<1>4. PICK v : v = Subtree(u, p)
  OBVIOUS
<1>5. PICK w : w = Written(forest[d], v, <<name>>, x)
  OBVIOUS
<1>6. PICK t : t = w.tree
  OBVIOUS
<1>7. PICK rank \in [Unsaved(t) -> Ranks] :
        LET s == Stored(t, FreshCids(Unsaved(t), rank, 0))
        IN /\ blocks' = Joined(blocks, s.blocks)
           /\ forest' = [forest EXCEPT ![d] = @ \cup s.refs]
           /\ UNCHANGED <<keys, tree>>
  BY <1>3, <1>4, <1>5, <1>6
<1>8. PICK s : s = Stored(t, FreshCids(Unsaved(t), rank, 0))
  OBVIOUS
<1>9. /\ blocks' = Joined(blocks, s.blocks)
      /\ forest' = [forest EXCEPT ![d] = @ \cup s.refs]
      /\ keys' = keys /\ tree' = tree
  BY <1>7, <1>8
<1>10. IsOpen(forest[d], kind, v)
  <2>1. IsOpen(forest[d], kind, u) /\ p \in DOMAIN u
    BY <1>2, FoundIs
  <2>. QED  BY <1>2, <1>3, <1>4, <2>1, SubtreeIs
<1>11. PICK other : Extends(kind, other) /\ IsOpen(forest[d], other, t)
  <2>1. PICK q : q = <<name>>
    OBVIOUS
  <2>2. q \in Seq(Names) /\ q # <<>>
    BY <2>1
  <2>3. x \in Contents \cup {NoContent} /\ FALSE \in BOOLEAN
    OBVIOUS
  <2>4. t = WithFile(forest[d], v, q, x, FALSE).tree
    BY <1>5, <1>6, <2>1 DEF Written
  <2>5. \E other : /\ Extends(kind, other)
                   /\ IsOpen(forest[d], other, WithFile(forest[d], v, q, x, FALSE).tree)
    BY <1>2, <1>10, <2>2, <2>3, WithFileIs
  <2>. QED  BY <2>4, <2>5
<1>. QED  BY <1>1, <1>8, <1>9, <1>11, StoringKeeps

(* A restart from an access key.                                           *)
LEMMA LoadKeeps ==
  ASSUME IInv, NEW d \in Devices, NEW key \in keys, Load(d, key)
  PROVE  IInv'
<1>1. PICK kind \in Kinds(UsedIds) : AllAre(blocks, forest, tree, kind)
  BY DEF IInv
<1>2. /\ Extends(kind, kind) /\ AreThere(forest[d], kind)
      /\ IsOpen(forest[d], kind, tree[d])
  BY <1>1, IsThere
<1>3. PICK loaded : loaded = [node    |-> AsNode(blocks[key.cid], key.cid),
                              entries |-> blocks[key.cid].entries]
  OBVIOUS
<1>4. PICK t : t = tree[d]
  OBVIOUS
<1>5. PICK u : u = Placed(<<>>, <<>>, loaded)
  OBVIOUS
<1>6. key \in forest[d] /\ Becomes(d, u)
  BY <1>3, <1>5 DEF Load
<1>7. u = Placed(t, <<>>, loaded)
  <2>1. \A q \in DOMAIN t : IsPrefix(<<>>, q)
    BY <1>2, <1>4, OpenOf, PrefixOrder
  <2>2. DOMAIN Pruned(t, <<>>) = {}
    BY <2>1 DEF Pruned
  <2>3. PICK none : none = <<>>
    OBVIOUS
  <2>4. DOMAIN none = {}
    BY <2>3
  <2>5. DOMAIN Pruned(none, <<>>) = {}
    BY <2>4 DEF Pruned
  <2>6. Placed(none, <<>>, loaded) = Placed(t, <<>>, loaded)
    BY <2>2, <2>5 DEF Placed
  <2>. QED  BY <1>5, <2>3, <2>6
<1>8. loaded.node = AsNode(blocks[key.cid], key.cid) /\ loaded.entries = blocks[key.cid].entries
  BY <1>3
<1>9. loaded.node.type = blocks[key.cid].type /\ blocks[key.cid].type = "dir"
  BY <1>8, NodeOf DEF AsNode, IInv
<1>10. /\ IsKnown(blocks, forest[d], kind, loaded.node)
       /\ AreEntries(forest[d], loaded.node.type, loaded.entries)
       /\ forest[d] \subseteq RefsOf(blocks)
  BY <1>2, <1>6, <1>8, <1>9, InForest DEF AreThere, IsForest
<1>11. IsTree(blocks, forest[d], kind, t) /\ <<>> \in DOMAIN t
  BY <1>2, <1>4 DEF IsOpen, IsTree
<1>12. IsOpen(forest[d], kind, u)
  <2>1. PICK root : root = <<>>
    OBVIOUS
  <2>2. u = Placed(t, root, loaded) /\ root \in DOMAIN t
    BY <1>7, <1>11, <2>1
  <2>. QED  BY <1>9, <1>10, <1>11, <2>2, PlacedIs DEF IsOpen
<1>. QED  BY <1>1, <1>2, <1>6, <1>12, BecomesKeeps

(* The operations on a working copy.                                       *)
LEMMA EditsKeep ==
  ASSUME IInv, NEW d \in Devices, NEW p \in Paths
  PROVE  /\ p # <<>> => \A x \in Contents : Write(d, p, x) => IInv'
         /\ p # <<>> /\ OpenFileMut(d, p) => IInv'
         /\ Mkdir(d, p) => IInv'
         /\ p # <<>> /\ Rm(d, p) => IInv'
<1>1. PICK kind \in Kinds(UsedIds) : AllAre(blocks, forest, tree, kind)
  BY DEF IInv
<1>2. PICK t : t = tree[d]
  OBVIOUS
<1>3. PICK F : F = forest[d]
  OBVIOUS
<1>4. AreIds /\ Extends(kind, kind) /\ AreThere(F, kind) /\ IsOpen(F, kind, t)
  BY <1>1, <1>2, <1>3, IsThere
<1>5. p \in Seq(Names)
  BY PathsAre
<1>6. ASSUME p # <<>>, NEW x \in Contents, Write(d, p, x) PROVE IInv'
  <2>1. PICK u : u = WithFile(F, t, p, x, FALSE).tree
    OBVIOUS
  <2>2. x \in Contents \cup {NoContent} /\ FALSE \in BOOLEAN
    OBVIOUS
  <2>3. PICK other : Extends(kind, other) /\ IsOpen(F, other, u)
    BY <1>4, <1>5, <1>6, <2>1, <2>2, WithFileIs
  <2>4. Becomes(d, u)
    BY <1>2, <1>3, <1>6, <2>1 DEF Write, Written
  <2>. QED  BY <1>1, <1>3, <2>3, <2>4, BecomesKeeps
<1>7. ASSUME p # <<>>, OpenFileMut(d, p) PROVE IInv'
  <2>1. PICK u : u = WithFile(F, t, p, NoContent, TRUE).tree
    OBVIOUS
  <2>2. NoContent \in Contents \cup {NoContent} /\ TRUE \in BOOLEAN
    OBVIOUS
  <2>3. PICK other : Extends(kind, other) /\ IsOpen(F, other, u)
    BY <1>4, <1>5, <1>7, <2>1, <2>2, WithFileIs
  <2>4. Becomes(d, u)
    BY <1>2, <1>3, <1>7, <2>1 DEF OpenFileMut, FileOpened
  <2>. QED  BY <1>1, <1>3, <2>3, <2>4, BecomesKeeps
<1>8. ASSUME Mkdir(d, p) PROVE IInv'
  <2>1. PICK u : u = MadeDir(F, t, p).tree
    OBVIOUS
  <2>2. PICK other : Extends(kind, other) /\ IsOpen(F, other, u)
    BY <1>4, <1>5, <2>1, MadeDirIs
  <2>3. Becomes(d, u)
    BY <1>2, <1>3, <1>8, <2>1 DEF Mkdir
  <2>. QED  BY <1>1, <1>3, <2>2, <2>3, BecomesKeeps
<1>9. ASSUME p # <<>>, Rm(d, p) PROVE IInv'
  <2>1. PICK u : u = Removed(F, t, p).tree
    OBVIOUS
  <2>2. IsOpen(F, kind, u)
    BY <1>4, <1>5, <1>9, <2>1, RemovedIs
  <2>3. Becomes(d, u)
    BY <1>2, <1>3, <1>9, <2>1 DEF Rm
  <2>. QED  BY <1>1, <1>3, <1>4, <2>2, <2>3, BecomesKeeps
<1>. QED  BY <1>6, <1>7, <1>8, <1>9

LEMMA MovesKeep ==
  ASSUME IInv, NEW d \in Devices, NEW from \in Paths, NEW to \in Paths \ {<<>>}
  PROVE  /\ from # <<>> /\ BasicMv(d, from, to) => IInv'
         /\ Cp(d, from, to) => IInv'
<1>1. PICK kind \in Kinds(UsedIds) : AllAre(blocks, forest, tree, kind)
  BY DEF IInv
<1>2. PICK t : t = tree[d]
  OBVIOUS
<1>3. PICK F : F = forest[d]
  OBVIOUS
<1>4. AreIds /\ AreThere(F, kind) /\ IsOpen(F, kind, t)
  BY <1>1, <1>2, <1>3, IsThere
<1>5. from \in Seq(Names) /\ to \in Seq(Names) /\ to # <<>>
  BY PathsAre
<1>6. ASSUME from # <<>>, BasicMv(d, from, to) PROVE IInv'
  <2>1. PICK u : u = Moved(F, t, from, to).tree
    OBVIOUS
  <2>2. PICK other : Extends(kind, other) /\ IsOpen(F, other, u)
    BY <1>4, <1>5, <1>6, <2>1, MovedIs
  <2>3. Becomes(d, u)
    BY <1>2, <1>3, <1>6, <2>1 DEF BasicMv
  <2>. QED  BY <1>1, <1>3, <2>2, <2>3, BecomesKeeps
<1>7. ASSUME Cp(d, from, to) PROVE IInv'
  <2>1. PICK u : u = Copied(F, t, from, to).tree
    OBVIOUS
  <2>2. PICK other : Extends(kind, other) /\ IsOpen(F, other, u)
    BY <1>4, <1>5, <2>1, CopiedIs
  <2>3. Becomes(d, u)
    BY <1>2, <1>3, <1>7, <2>1 DEF Cp
  <2>. QED  BY <1>1, <1>3, <2>2, <2>3, BecomesKeeps
<1>. QED  BY <1>6, <1>7

LEMMA SearchKeeps ==
  ASSUME IInv, NEW d \in Devices, SearchLatestReconciled(d)
  PROVE  IInv'
<1>1. PICK kind \in Kinds(UsedIds) : AllAre(blocks, forest, tree, kind)
  BY DEF IInv
<1>2. PICK root : root = <<>>
  OBVIOUS
<1>3. PICK t : t = tree[d]
  OBVIOUS
<1>4. PICK u \in Searched(forest[d], t, root) : Becomes(d, u)
  BY <1>2, <1>3 DEF SearchLatestReconciled
<1>5. /\ Extends(kind, kind) /\ AreThere(forest[d], kind)
      /\ IsOpen(forest[d], kind, t)
  BY <1>1, <1>3, IsThere
<1>6. root \in DOMAIN t /\ IsNode(t, root)
  BY <1>2, <1>5, OpenOf DEF IsNode
<1>7. IsOpen(forest[d], kind, u)
  BY <1>4, <1>5, <1>6, SearchedIs
<1>. QED  BY <1>1, <1>4, <1>5, <1>7, BecomesKeeps

(* A root that was created and stored.                                     *)
LEMMA IInvInit ==
  ASSUME Init
  PROVE  IInv
<1>1. PICK rank \in Ranks :
        LET cid  == <<rank, 1>>
            root == Node("dir", NewHeader({}, 1), {}, NoContent, {cid})
        IN /\ blocks = [c \in {cid} |-> Block(root, <<>>)]
           /\ forest = [d \in Devices |-> {Ref(root.header, cid)}]
           /\ keys   = {Ref(root.header, cid)}
           /\ tree   = [d \in Devices |-> [p \in {<<>>} |-> root]]
  BY DEF Init
<1>2. PICK cid : cid = <<rank, 1>>
  OBVIOUS
<1>3. PICK h : h = NewHeader({}, 1)
  OBVIOUS
<1>4. PICK root : root = Node("dir", h, {}, NoContent, {cid})
  OBVIOUS
<1>5. PICK none : none = <<>>
  OBVIOUS
<1>6. PICK r : r = Ref(h, cid)
  OBVIOUS
<1>7. /\ root.header = h /\ root.type = "dir" /\ root.previous = {}
      /\ root.content = NoContent /\ root.persisted_as = {cid}
  BY <1>4, NodeOf
<1>8. /\ blocks = [c \in {cid} |-> Block(root, none)]
      /\ forest = [d \in Devices |-> {r}]
      /\ keys   = {r}
      /\ tree   = [d \in Devices |-> [p \in {none} |-> root]]
  <2>1. root.header = h
    BY <1>7
  <2>. QED  BY <1>1, <1>2, <1>3, <1>4, <1>5, <1>6, <2>1
<1>9. DOMAIN blocks = {cid} /\ blocks[cid] = Block(root, none)
  BY <1>8
<1>10. /\ blocks[cid].type = "dir" /\ blocks[cid].header = h
       /\ blocks[cid].previous = {} /\ blocks[cid].entries = none
       /\ AsNode(blocks[cid], cid) = root
  <2>1. PICK b : b = Block(root, none)
    OBVIOUS
  <2>2. /\ b.type = root.type /\ b.header = root.header /\ b.previous = root.previous
        /\ b.entries = none /\ AsNode(b, cid) = AsNode(root, cid)
    BY <2>1, BlockOf
  <2>3. AsNode(root, cid) = root
    BY <1>4, <1>7 DEF AsNode
  <2>. QED  BY <1>7, <1>9, <2>1, <2>2, <2>3
<1>11. h \in Headers /\ h.id = 1 /\ h.name = {1} /\ h.rev = 0
  <2>1. h.id = 1 /\ h.rev = 0 /\ h.name = {1} /\ h = Header(1, 0, {1})
    BY <1>3 DEF NewHeader, Header
  <2>2. IsFiniteSet({1})
    BY FS_Singleton
  <2>3. h \in [id : Nat, rev : Nat, name : SUBSET Nat]
    BY <2>1 DEF Header
  <2>. QED  BY <2>1, <2>2, <2>3 DEF Headers
<1> DEFINE kind == [k \in {1} |-> "dir"]
<1>12. kind \in Kinds(DOMAIN kind) /\ DOMAIN kind = {1} /\ kind[1] = "dir"
  BY DEF Kinds, Types
<1> HIDE DEF kind
<1>13. IsKnown(blocks, {r}, kind, root)
  <2>1. {cid} \in {{}} \cup {{c} : c \in DOMAIN blocks}
    BY <1>9
  <2>2. /\ "dir" \in Types /\ NoContent \in Contents \cup {NoContent}
        /\ {} \subseteq Links(blocks) /\ IsFiniteSet({})
        /\ \A l \in {} : IsLink(blocks, {r}, h, l)
    BY FS_EmptySet DEF Types
  <2>3. \A c \in {cid} : Ref(h, c) \in {r}
    BY <1>6
  <2>4. h.name \subseteq DOMAIN kind /\ "dir" = kind[h.id]
    BY <1>11, <1>12
  <2>5. IsNamed(h) /\ HasEarlier({r}, h)
    BY <1>11 DEF IsNamed, HasEarlier
  <2>. QED  BY <1>4, <1>11, <2>1, <2>2, <2>3, <2>4, <2>5, KnownIf
<1>14. RefsOf(blocks) = {r}
  BY <1>6, <1>9, <1>10 DEF RefsOf
<1>15. \A S : AreEntries(S, "dir", none)
  <2>1. DOMAIN none = {} /\ none = [n \in DOMAIN none |-> none[n]]
    BY <1>5
  <2>. QED  BY <2>1, FS_EmptySet DEF AreEntries
<1>16. AreBlocks(blocks, kind)
  <2>1. IsFiniteSet(DOMAIN blocks) /\ Cardinality(DOMAIN blocks) = 1
    BY <1>9, FS_Singleton
  <2>2. cid \in Ranks \X (1 .. 1)
    BY <1>2
  <2>3. root \in NodesOver(blocks) /\ HasKind(kind, root)
    BY <1>13 DEF IsKnown
  <2>4. blocks = [c \in DOMAIN blocks |-> blocks[c]]
    BY <1>8
  <2>5. blocks[cid].header = RootHeader
    BY <1>3, <1>10 DEF RootHeader
  <2>. QED  BY <1>9, <1>10, <1>15, <2>1, <2>2, <2>3, <2>4, <2>5 DEF AreBlocks
<1>17. IsForest(blocks, {r}, kind)
  <2>1. r.cid = cid
    BY <1>6, RefOf
  <2>2. IsFiniteSet({r})
    BY FS_Singleton
  <2>. QED  BY <1>10, <1>13, <1>14, <1>15, <2>1, <2>2 DEF IsForest
<1>18. ASSUME NEW t, t = [p \in {none} |-> root] PROVE IsTree(blocks, {r}, kind, t)
  <2>1. DOMAIN t = {none} /\ t[none] = root /\ t = [p \in DOMAIN t |-> t[p]]
    BY <1>18
  <2>2. IsFiniteSet({none}) /\ none \in Seq(Names)
    BY <1>5, FS_Singleton, EmptySeq
  <2>. QED  BY <1>5, <1>7, <1>13, <2>1, <2>2 DEF IsTree
<1>19. AllAre(blocks, forest, tree, kind)
  <2>1. \A d \in Devices : forest[d] = {r} /\ tree[d] = [p \in {none} |-> root]
    BY <1>8
  <2>. QED  BY <1>16, <1>17, <1>18, <2>1 DEF AllAre
<1>20. forest = [d \in Devices |-> forest[d]] /\ tree = [d \in Devices |-> tree[d]]
  BY <1>8
<1>21. \E k \in Kinds(UsedIn(blocks, tree)) : AllAre(blocks, forest, tree, k)
  BY <1>12, <1>19, <1>20, KindOfUsed
<1>22. UsedIds = UsedIn(blocks, tree)
  BY DEF UsedIds, UsedIn
<1>23. \A key \in keys : key \in RefsOf(blocks) /\ blocks[key.cid].type = "dir"
  <2>1. r.cid = cid
    BY <1>6, RefOf
  <2>. QED  BY <1>8, <1>10, <1>14, <2>1
<1>. QED  BY <1>20, <1>21, <1>22, <1>23 DEF IInv

LEMMA IInvStep ==
  ASSUME IInv, [Next]_vars
  PROVE  IInv'
<1>1. CASE UNCHANGED vars
  <2>1. blocks' = blocks /\ forest' = forest /\ keys' = keys /\ tree' = tree
    BY <1>1 DEF vars
  <2>2. PICK kind \in Kinds(UsedIds) : AllAre(blocks, forest, tree, kind)
    BY DEF IInv
  <2>3. kind \in Kinds(DOMAIN kind)
    BY <2>2, IsThere
  <2>. QED  BY <2>1, <2>2, <2>3, IInvNext DEF IInv
<1>2. CASE Next
  <2>1. PICK d \in Devices :
          \/ \E p \in CalledWith("write"), x \in Contents : Write(d, p, x)
          \/ \E p \in CalledWith("open") : OpenFileMut(d, p)
          \/ \E p \in CalledWith("mkdir") : Mkdir(d, p)
          \/ \E p \in CalledWith("rm") : Rm(d, p)
          \/ \E p \in CalledWith("mv"), q \in Paths \ {<<>>} : BasicMv(d, p, q)
          \/ \E p \in CalledWith("cp"), q \in Paths \ {<<>>} : Cp(d, p, q)
          \/ "reconcile" \in DOMAIN Calls /\ SearchLatestReconciled(d)
          \/ \E p \in {q \in Paths : q # <<>> /\ Front(q) \in CalledWith("below")},
                x \in Contents : WriteBelow(d, Front(p), Last(p), x)
          \/ Store(d)
          \/ \E key \in keys : Load(d, key)
          \/ \E e \in Devices : Sync(d, e)
    BY <1>2 DEF Next
  <2>2. \A op : CalledWith(op) \subseteq Paths
    BY CallsAssumption DEF CalledWith
  <2>3. \A op \in {"write", "open", "rm", "mv", "cp"} : <<>> \notin CalledWith(op)
    BY CallsAssumption DEF CalledWith
  <2>4. ASSUME NEW p \in CalledWith("write"), NEW x \in Contents, Write(d, p, x) PROVE IInv'
    BY <2>2, <2>3, <2>4, EditsKeep
  <2>5. ASSUME NEW p \in CalledWith("open"), OpenFileMut(d, p) PROVE IInv'
    BY <2>2, <2>3, <2>5, EditsKeep
  <2>6. ASSUME NEW p \in CalledWith("mkdir"), Mkdir(d, p) PROVE IInv'
    BY <2>2, <2>6, EditsKeep
  <2>7. ASSUME NEW p \in CalledWith("rm"), Rm(d, p) PROVE IInv'
    BY <2>2, <2>3, <2>7, EditsKeep
  <2>8. ASSUME NEW p \in CalledWith("mv"), NEW q \in Paths \ {<<>>}, BasicMv(d, p, q)
        PROVE  IInv'
    BY <2>2, <2>3, <2>8, MovesKeep
  <2>9. ASSUME NEW p \in CalledWith("cp"), NEW q \in Paths \ {<<>>}, Cp(d, p, q)
        PROVE  IInv'
    BY <2>2, <2>9, MovesKeep
  <2>10. ASSUME NEW p \in Paths, p # <<>>, NEW x \in Contents,
                WriteBelow(d, Front(p), Last(p), x)
         PROVE  IInv'
    <3>1. Front(p) \in Seq(Names) /\ Last(p) \in Names
      BY <2>10, PathsAre, FrontOf
    <3>. QED  BY <2>10, <3>1, WriteBelowKeeps
  <2>. QED  BY <2>1, <2>4, <2>5, <2>6, <2>7, <2>8, <2>9, <2>10, SearchKeeps, StoreKeeps,
               LoadKeeps, SyncKeeps
<1>. QED  BY <1>1, <1>2

LEMMA IInvHolds == Spec => []IInv
BY IInvInit, IInvStep, PTL DEF Spec

LEMMA IInvTypes ==
  ASSUME IInv
  PROVE  TypeOK
<1>1. PICK kind \in Kinds(UsedIds) : AllAre(blocks, forest, tree, kind)
  BY DEF IInv
<1>2. DOMAIN kind = UsedIds
  BY DEF Kinds
<1>3. Refs = RefsOf(blocks)
  BY DEF Refs, RefsOf
<1>4. ASSUME NEW n \in NodesOver(blocks), n.header.name \subseteq UsedIds PROVE n \in Nodes
  <2>1. /\ n.type \in Types /\ n.header \in Headers /\ n.previous \in SUBSET Links(blocks)
        /\ n.content \in Contents \cup {NoContent}
        /\ n.persisted_as \in {{}} \cup {{c} : c \in DOMAIN blocks}
        /\ n = Node(n.type, n.header, n.previous, n.content, n.persisted_as)
    BY FieldsIn
  <2>2. n.header \in [id : Nat, rev : Nat, name : SUBSET UsedIds]
    <3>1. n.header = Header(n.header.id, n.header.rev, n.header.name)
          /\ n.header.id \in Nat /\ n.header.rev \in Nat
      BY <2>1, HeaderOf
    <3>. QED  BY <1>4, <3>1 DEF Header
  <2>3. Links(blocks) = [back : Nat, cid : DOMAIN blocks, key : Nat \X Nat]
    BY DEF Links
  <2>. QED  BY <2>1, <2>2, <2>3 DEF Nodes, Node, Types
<1>5. ASSUME NEW d \in Devices PROVE keys \cup forest[d] \subseteq Refs
  BY <1>1, <1>3 DEF IInv, AllAre, IsForest
<1>6. ASSUME NEW c \in DOMAIN blocks
      PROVE  AsNode(blocks[c], c) \in Nodes /\ Range(blocks[c].entries) \subseteq Refs
  <2>1. /\ AsNode(blocks[c], c) \in NodesOver(blocks) /\ HasKind(kind, AsNode(blocks[c], c))
        /\ AreEntries(RefsOf(blocks), blocks[c].type, blocks[c].entries)
    BY <1>1 DEF AllAre, AreBlocks
  <2>2. AsNode(blocks[c], c) \in Nodes
    BY <1>2, <1>4, <2>1 DEF HasKind
  <2>. QED  BY <1>3, <2>1, <2>2 DEF AreEntries, Range
<1>7. ASSUME NEW d \in Devices
      PROVE  /\ tree[d][<<>>].type = "dir"
             /\ Range(tree[d]) \subseteq Nodes \cup Refs
             /\ \A p \in DOMAIN tree[d] \ {<<>>} : tree[d][Front(p)].type = "dir"
  <2>1. IsTree(blocks, forest[d], kind, tree[d]) /\ forest[d] \subseteq Refs
    BY <1>1, <1>5 DEF AllAre
  <2>2. ASSUME NEW p \in DOMAIN tree[d] PROVE tree[d][p] \in Nodes \cup Refs
    <3>1. CASE tree[d][p] \in forest[d]
      BY <2>1, <3>1
    <3>2. CASE IsKnown(blocks, forest[d], kind, tree[d][p])
      BY <1>2, <1>4, <3>2 DEF IsKnown, HasKind
    <3>. QED  BY <2>1, <3>1, <3>2 DEF IsTree
  <2>. QED  BY <2>1, <2>2 DEF IsTree, Range
<1>. QED  BY <1>5, <1>6, <1>7 DEF TypeOK

LEMMA IInvCloses ==
  ASSUME IInv
  PROVE  ForestIsClosed
<1>1. PICK kind \in Kinds(UsedIds) : AllAre(blocks, forest, tree, kind)
  BY DEF IInv
<1>2. ASSUME NEW d \in Devices, NEW r \in forest[d], NEW b, b = blocks[r.cid]
      PROVE  /\ Range(b.entries) \subseteq forest[d]
             /\ \A l \in {x \in b.previous : x.key[1] = b.header.id} :
                  /\ l.back > 0 /\ Opens(blocks, r.cid, l)
                  /\ Ref(AtRevision(b.header, b.header.rev - l.back), l.cid) \in forest[d]
  <2> DEFINE F == forest[d]
             n == AsNode(b, r.cid)
  <2>1. IsForest(blocks, F, kind)
    BY <1>1 DEF AllAre
  <2>2. IsKnown(blocks, F, kind, n) /\ AreEntries(F, b.type, b.entries)
    BY <1>2, <2>1, InForest
  <2>3. n.header = b.header /\ n.previous = b.previous
    BY NodeOf DEF AsNode
  <2>4. b.header \in Headers
    BY <2>2, <2>3, KnownOf
  <2> HIDE DEF n
  <2>5. ASSUME NEW l \in b.previous, l.key[1] = b.header.id
        PROVE  /\ l.back > 0 /\ Opens(blocks, r.cid, l)
               /\ Ref(AtRevision(b.header, b.header.rev - l.back), l.cid) \in F
    <3>1. IsLink(blocks, F, b.header, l)
      BY <2>2, <2>3 DEF IsKnown
    <3>2. PICK h : h = AtRevision(b.header, b.header.rev - l.back)
      OBVIOUS
    <3>3. l.back \in 1 .. b.header.rev /\ Ref(h, l.cid) \in F
      BY <2>5, <3>1, <3>2 DEF IsLink
    <3>4. h = blocks[l.cid].header
      BY <2>1, <3>3, InForest, RefOf
    <3>5. l.key = TemporalKey(h)
      BY <3>1, <3>4 DEF IsLink
    <3>6. b.header.rev \in Nat
      BY <2>4, HeaderOf
    <3>. QED  BY <1>2, <3>2, <3>3, <3>5, <3>6 DEF Opens
  <2>. QED  BY <2>2, <2>5 DEF AreEntries, Range
<1>. QED  BY <1>2 DEF ForestIsClosed

--------------------------------------------------------------------------------
(* Concurrent writes.                                                      *)

(* Every device can start from the first revision of the root.             *)
RootIsShared == \E c : \A d \in Devices : Ref(RootHeader, c) \in forest[d]

LEMMA RootIsSharedInit ==
  ASSUME Init
  PROVE  RootIsShared
<1>1. PICK rank \in Ranks :
        LET cid  == <<rank, 1>>
            root == Node("dir", NewHeader({}, 1), {}, NoContent, {cid})
        IN forest = [d \in Devices |-> {Ref(root.header, cid)}]
  BY DEF Init
<1>2. PICK root : root = Node("dir", NewHeader({}, 1), {}, NoContent, {<<rank, 1>>})
  OBVIOUS
<1>3. root.header = RootHeader
  BY <1>2, NodeOf DEF RootHeader
<1>4. forest = [d \in Devices |-> {Ref(RootHeader, <<rank, 1>>)}]
  BY <1>1, <1>2, <1>3
<1>. QED  BY <1>4 DEF RootIsShared

(* A forest never loses what was put into it.                              *)
LEMMA ForestsGrow ==
  ASSUME IInv, [Next]_vars
  PROVE  \A d \in Devices : forest[d] \subseteq forest'[d]
<1>1. forest = [d \in Devices |-> forest[d]]
  BY DEF IInv
<1>2. CASE forest' = forest
  BY <1>2
<1>3. CASE \E d \in Devices : \E S : forest' = [forest EXCEPT ![d] = @ \cup S]
  BY <1>1, <1>3
<1>4. CASE Next
  <2>1. PICK d \in Devices :
          \/ \E p \in CalledWith("write"), x \in Contents : Write(d, p, x)
          \/ \E p \in CalledWith("open") : OpenFileMut(d, p)
          \/ \E p \in CalledWith("mkdir") : Mkdir(d, p)
          \/ \E p \in CalledWith("rm") : Rm(d, p)
          \/ \E p \in CalledWith("mv"), q \in Paths \ {<<>>} : BasicMv(d, p, q)
          \/ \E p \in CalledWith("cp"), q \in Paths \ {<<>>} : Cp(d, p, q)
          \/ "reconcile" \in DOMAIN Calls /\ SearchLatestReconciled(d)
          \/ \E p \in {q \in Paths : q # <<>> /\ Front(q) \in CalledWith("below")},
                x \in Contents : WriteBelow(d, Front(p), Last(p), x)
          \/ Store(d)
          \/ \E key \in keys : Load(d, key)
          \/ \E e \in Devices : Sync(d, e)
    BY <1>4 DEF Next
  <2>2. \A t : Becomes(d, t) => forest' = forest
    BY DEF Becomes
  <2>3. ASSUME NEW p, NEW x, Write(d, p, x) PROVE forest' = forest
    BY <2>2, <2>3 DEF Write
  <2>4. ASSUME NEW p, OpenFileMut(d, p) PROVE forest' = forest
    BY <2>2, <2>4 DEF OpenFileMut
  <2>5. ASSUME NEW p, Mkdir(d, p) PROVE forest' = forest
    BY <2>2, <2>5 DEF Mkdir
  <2>6. ASSUME NEW p, Rm(d, p) PROVE forest' = forest
    BY <2>2, <2>6 DEF Rm
  <2>7. ASSUME NEW p, NEW q, BasicMv(d, p, q) PROVE forest' = forest
    BY <2>2, <2>7 DEF BasicMv
  <2>8. ASSUME NEW p, NEW q, Cp(d, p, q) PROVE forest' = forest
    BY <2>2, <2>8 DEF Cp
  <2>9. ASSUME SearchLatestReconciled(d) PROVE forest' = forest
    BY <2>2, <2>9 DEF SearchLatestReconciled
  <2>10. ASSUME NEW p, NEW n, NEW x, WriteBelow(d, p, n, x)
         PROVE  \E S : forest' = [forest EXCEPT ![d] = @ \cup S]
    BY <2>10 DEF WriteBelow
  <2>11. ASSUME Store(d) PROVE \E S : forest' = [forest EXCEPT ![d] = @ \cup S]
    BY <2>11 DEF Store
  <2>12. ASSUME NEW key, Load(d, key) PROVE forest' = forest
    BY <2>2, <2>12 DEF Load
  <2>13. ASSUME NEW e, Sync(d, e) PROVE \E S : forest' = [forest EXCEPT ![d] = @ \cup S]
    BY <2>13 DEF Sync
  <2>14. \/ forest' = forest \/ \E S : forest' = [forest EXCEPT ![d] = @ \cup S]
    BY <2>1, <2>3, <2>4, <2>5, <2>6, <2>7, <2>8, <2>9, <2>10, <2>11, <2>12, <2>13
  <2>. QED  BY <1>2, <1>3, <2>14
<1>. QED  BY <1>2, <1>4 DEF vars

LEMMA RootIsSharedStep ==
  ASSUME IInv, RootIsShared, [Next]_vars
  PROVE  RootIsShared'
<1>1. PICK c : \A d \in Devices : Ref(RootHeader, c) \in forest[d]
  BY DEF RootIsShared
<1>2. \A d \in Devices : Ref(RootHeader, c) \in forest'[d]
  BY <1>1, ForestsGrow
<1>. QED  BY <1>2 DEF RootIsShared, RootHeader

LEMMA RootIsSharedHolds == Spec => [](IInv /\ RootIsShared)
BY IInvInit, IInvStep, RootIsSharedInit, RootIsSharedStep, PTL DEF Spec

LEMMA RootSearch ==
  ASSUME IInv, RootIsShared, NEW d \in Devices
  PROVE  /\ RootHeader \in Headers /\ Multivalue(forest[d], RootHeader) # {}
         /\ RootHeader.id = 1 /\ RootHeader.rev = 0 /\ RootHeader.name = {1}
<1>1. PICK c : Ref(RootHeader, c) \in forest[d]
  BY DEF RootIsShared
<1>2. PICK kind \in Kinds(UsedIds) : AllAre(blocks, forest, tree, kind)
  BY DEF IInv
<1>3. IsForest(blocks, forest[d], kind)
  BY <1>2 DEF AllAre
<1>4. PICK r : r = Ref(RootHeader, c)
  OBVIOUS
<1>5. r \in forest[d] /\ r.label = RootHeader /\ r.cid = c
  BY <1>1, <1>4, RefOf
<1>6. RootHeader \in Headers
  BY <1>3, <1>5, InForest
<1>7. c \in Multivalue(forest[d], RootHeader)
  BY <1>5 DEF Multivalue
<1>. QED  BY <1>6, <1>7 DEF RootHeader, NewHeader, Header

LEMMA RootMerges ==
  ASSUME IInv, RootIsShared
  PROVE  NoEntryForgotten
<1>1. PICK kind \in Kinds(UsedIds) : AllAre(blocks, forest, tree, kind)
  BY DEF IInv
<1>2. ASSUME NEW d \in Devices, NEW r \in Reconciled(forest[d], blocks, RootHeader),
             NEW heads, heads = UnmergedHeads(forest[d], blocks, RootHeader)
      PROVE  /\ DOMAIN r.entries = UNION {DOMAIN blocks[c].entries : c \in heads}
             /\ \A n \in DOMAIN r.entries :
                  r.entries[n] \in {blocks[c].entries[n] :
                                      c \in {x \in heads : n \in DOMAIN blocks[x].entries}}
  <2>1. AreBlocks(blocks, kind) /\ IsForest(blocks, forest[d], kind)
    BY <1>1 DEF AllAre
  <2>2. RootHeader \in Headers /\ Multivalue(forest[d], RootHeader) # {}
    BY RootSearch
  <2>3. Gathered(blocks, heads, r.entries)
    BY <1>2, <2>1, <2>2, ReconciledIs
  <2>. QED  BY <2>3 DEF Gathered
<1>. QED  BY <1>2 DEF NoEntryForgotten

(* Two nodes of a kind, neither of them a merge, leave a link to each.     *)
LEMMA TwoAreMerged ==
  ASSUME NEW B, NEW F, NEW kind, IsForest(B, F, kind), NEW h \in Headers,
         NEW free \in Nat, NEW target, target = AtRevision(h, free),
         NEW heads, Cardinality(heads) = 2, IsFiniteSet(heads), heads \subseteq Nat \X Nat,
         \A c \in heads : /\ IsFound(B, F, h, free, c)
                          /\ ~(Cardinality(B[c].previous) > 1),
         NEW r, r = MergeOf(B, heads, target)
  PROVE  r.node.previous = {Link(r.node.header.rev - B[c].header.rev, c,
                                 TemporalKey(B[c].header)) : c \in heads}
<1> DEFINE ToIt(c) == Link(target.rev - B[c].header.rev, c, TemporalKey(B[c].header))
<1>1. PICK first : first = LowestCid(heads)
  OBVIOUS
<1>2. heads # {}
  BY FS_EmptySet
<1>3. first \in heads
  BY <1>1, <1>2, LowestOf
<1>4. PICK other \in heads : other # first
  BY <1>3, MoreThanOne
<1>5. heads = {first, other}
  <2>1. IsFiniteSet(heads \ {first}) /\ Cardinality(heads \ {first}) = 1
    <3>1. /\ IsFiniteSet(heads \ {first})
          /\ Cardinality(heads \ {first}) = Cardinality(heads) - 1
      BY <1>3, FS_RemoveElement
    <3>. QED  BY <3>1
  <2>2. \A x, y \in heads \ {first} : x = y
    BY <2>1, MoreThanOne
  <2>. QED  BY <1>3, <1>4, <2>2
<1>6. LowestCid(heads \ {first}) = other
  <2>1. heads \ {first} = {other}
    BY <1>4, <1>5
  <2>2. LowestCid({other}) \in {other}
    <3>1. PICK S : S = {other}
      OBVIOUS
    <3>2. LowestCid(S) \in S
      BY <3>1, LowestOf
    <3>. QED  BY <3>1, <3>2
  <2>. QED  BY <2>1, <2>2
<1>7. r = MergedWith(B, AsStored(B, first), first, other, target)
  <2>1. PICK merged :
          /\ merged[0] = MergeStart(B, heads)
          /\ \A n \in 0 .. 1 - 1 :
               merged[n + 1] = MergeNext(B, heads, target, merged[n])
          /\ MergeOf(B, heads, target) = merged[1].our
    BY MergeSteps
  <2>2. merged[0 + 1] = MergeNext(B, heads, target, merged[0])
    BY <2>1
  <2>3. merged[1].our =
          MergedWith(B, merged[0].our, LowestCid(heads), LowestCid(merged[0].left), target)
    BY <2>2 DEF MergeNext
  <2>4. merged[0].our = AsStored(B, first) /\ merged[0].left = heads \ {first}
    BY <1>1, <2>1 DEF MergeStart
  <2>. QED  BY <1>1, <1>6, <2>1, <2>3, <2>4
<1>8. PICK our : our = AsStored(B, first)
  OBVIOUS
<1>9. /\ our.node.header = B[first].header /\ our.node.type = B[first].type
      /\ our.node.previous = B[first].previous
      /\ B[first].type = kind[h.id] /\ B[other].type = kind[h.id]
  <2>1. our.node = AsNode(B[first], first)
    BY <1>8 DEF AsStored
  <2>. QED  BY <1>3, <1>4, <2>1, FoundNode
<1>10. PICK ready : ready = PrepareNextMerge(our.node, first, target)
  OBVIOUS
<1>11. ready.previous = {ToIt(first)}
  <2>1. ~(Cardinality(our.node.previous) > 1)
    BY <1>3, <1>9
  <2>2. PICK links : links = {ToIt(first)}
    OBVIOUS
  <2>3. ready = Node(our.node.type, target, links, our.node.content, {})
    BY <1>9, <1>10, <2>1, <2>2 DEF PrepareNextMerge
  <2>. QED  BY <2>2, <2>3, NodeOf
<1>12. ~(Cardinality(ready.previous) > 1)
  <2>1. PICK l : l = ToIt(first)
    OBVIOUS
  <2>2. Cardinality({l}) = 1
    BY FS_Singleton
  <2>. QED  BY <1>11, <2>1, <2>2
<1>13. MergedPrevious(ready, B[other], other, target) = {ToIt(first)} \cup {ToIt(other)}
  BY <1>11, <1>12 DEF MergedPrevious
<1>14. PICK links : links = MergedPrevious(ready, B[other], other, target)
  OBVIOUS
<1>15. r.node = Node(ready.type, target, links, MergedContent(ready, B[other]), {})
  BY <1>7, <1>8, <1>9, <1>10, <1>14 DEF MergedWith
<1>16. r.node.header = target /\ r.node.previous = links
  BY <1>15, NodeOf
<1>. QED  BY <1>5, <1>13, <1>14, <1>16

LEMMA TwoWritesMerge ==
  ASSUME IInv, RootIsShared
  PROVE  TwoWritesSettle
<1>1. PICK kind \in Kinds(UsedIds) : AllAre(blocks, forest, tree, kind)
  BY DEF IInv
<1>2. ASSUME NEW d \in Devices, NEW r \in Reconciled(forest[d], blocks, RootHeader),
             NEW heads, heads = UnmergedHeads(forest[d], blocks, RootHeader),
             Cardinality(heads) = 2, \A c \in heads : ~IsMerge(c)
      PROVE  r.node.previous =
               {Link(r.node.header.rev - blocks[c].header.rev, c,
                     TemporalKey(blocks[c].header)) : c \in heads}
  <2>1. AreBlocks(blocks, kind) /\ IsForest(blocks, forest[d], kind)
    BY <1>1 DEF AllAre
  <2>2. RootHeader \in Headers /\ Multivalue(forest[d], RootHeader) # {}
    BY RootSearch
  <2>3. PICK h \in Headers : h = RootHeader
    BY <2>2
  <2>4. PICK free : free = FreeRevision(forest[d], h)
    OBVIOUS
  <2>5. /\ heads \subseteq FoundFrom(forest[d], h) /\ IsFiniteSet(heads) /\ free \in Nat
    BY <1>2, <2>1, <2>2, <2>3, <2>4, SomeHead
  <2>6. \A c \in heads : IsFound(blocks, forest[d], h, free, c)
    BY <2>1, <2>4, <2>5, FoundAre
  <2>7. heads \subseteq Nat \X Nat
    BY <2>1, <2>6, RanksAssumption DEF IsFound, AreBlocks
  <2>8. PICK target : target = AtRevision(h, free)
    OBVIOUS
  <2>9. r = MergeOf(blocks, heads, target)
    BY <1>2, <2>3, <2>4, <2>8 DEF Reconciled
  <2>10. \A c \in heads : ~(Cardinality(blocks[c].previous) > 1)
    BY <1>2 DEF IsMerge
  <2>. QED  BY <1>2, <2>1, <2>5, <2>6, <2>7, <2>8, <2>9, <2>10, TwoAreMerged
<1>. QED  BY <1>2 DEF TwoWritesSettle

(* Ancestry takes as many rounds as there are blocks, and each that finds  *)
(* something new finds one more of them: the last finds nothing new.       *)
LEMMA AncestryOf ==
  ASSUME NEW kind, AreBlocks(blocks, kind), NEW e \in DOMAIN blocks
  PROVE  /\ e \in Ancestry(e)
         /\ \A x \in Ancestry(e) : \A l \in blocks[x].previous : l.cid \in Ancestry(e)
<1> DEFINE D == DOMAIN blocks
           K == Cardinality(D)
           more(S) == S \cup {l.cid : l \in UNION {blocks[x].previous : x \in S}}
           G(m, i) == [n \in 0 .. i |-> IF n = 0 THEN {e} ELSE more(m[n - 1])]
           back == CHOOSE m : m = G(m, K)
<1>1. IsFiniteSet(D) /\ K \in Nat
  BY FS_CardinalityType DEF AreBlocks
<1>2. Ancestry(e) = back[K]
  BY DEF Ancestry
<1>3. \A S : S \subseteq D => more(S) \subseteq D /\ S \subseteq more(S)
  <2>1. ASSUME NEW c \in D, NEW l \in blocks[c].previous PROVE l.cid \in D
    <3>1. AsNode(blocks[c], c) \in NodesOver(blocks)
      BY DEF AreBlocks
    <3>2. AsNode(blocks[c], c).previous = blocks[c].previous
      BY NodeOf DEF AsNode
    <3>3. blocks[c].previous \subseteq Links(blocks)
      BY <3>1, <3>2, FieldsIn
    <3>. QED  BY <3>3, LinkOf
  <2>. QED  BY <2>1
<1>4. \A S : \A x \in more(S) : x \in S \/ \E y \in S : \E l \in blocks[y].previous : x = l.cid
  OBVIOUS
<1>5. \A S : \A x \in S : \A l \in blocks[x].previous : l.cid \in more(S)
  OBVIOUS
<1> HIDE DEF D, K, more
<1>6. \E m : m = G(m, K)
  <2> DEFINE S == {i \in Nat : \E m : m = G(m, i)}
  <2>1. 0 \in S
    <3> DEFINE m == [n \in 0 .. 0 |-> {e}]
    <3>1. m = G(m, 0)
      OBVIOUS
    <3>. QED  BY <3>1
  <2>2. ASSUME NEW i \in 0 .. K - 1, i \in S PROVE i + 1 \in S
    <3>1. PICK m : m = G(m, i)
      BY <2>2
    <3> DEFINE o == [n \in 0 .. i + 1 |-> IF n = i + 1 THEN more(m[i]) ELSE m[n]]
    <3>2. ASSUME NEW n \in 0 .. i + 1
          PROVE  o[n] = IF n = 0 THEN {e} ELSE more(o[n - 1])
      <4>1. CASE n = i + 1
        BY <4>1
      <4>2. CASE n # i + 1
        <5>1. n \in 0 .. i /\ o[n] = m[n] /\ (n # 0 => o[n - 1] = m[n - 1])
          BY <4>2
        <5>2. m[n] = IF n = 0 THEN {e} ELSE more(m[n - 1])
          BY <3>1, <5>1
        <5>. QED  BY <5>1, <5>2
      <4>. QED  BY <4>1, <4>2
    <3>3. o = [n \in 0 .. i + 1 |-> o[n]]
      OBVIOUS
    <3> HIDE DEF o
    <3>4. o = G(o, i + 1)
      BY <3>2, <3>3
    <3>. QED  BY <3>4
  <2>3. K \in S
    <3> HIDE DEF S
    <3>1. \A i \in 0 .. K : i \in S
      BY <1>1, <2>1, <2>2, HoldsUpTo
    <3>. QED  BY <1>1, <3>1
  <2>. QED  BY <2>3
<1>7. back = G(back, K)
  BY <1>6
<1> HIDE DEF back
<1>8. back[0] = {e} /\ \A n \in 0 .. K - 1 : back[n + 1] = more(back[n])
  <2>1. \A n \in 0 .. K : back[n] = IF n = 0 THEN {e} ELSE more(back[n - 1])
    BY <1>7
  <2>2. ASSUME NEW n \in 0 .. K - 1 PROVE back[n + 1] = more(back[n])
    <3>1. n + 1 \in 0 .. K /\ n + 1 # 0 /\ (n + 1) - 1 = n
      BY <1>1
    <3>. QED  BY <2>1, <3>1
  <2>3. 0 \in 0 .. K
    BY <1>1
  <2>. QED  BY <2>1, <2>2, <2>3
<1> DEFINE I == {n \in Nat :
                   n <= K =>
                     /\ back[n] \subseteq D /\ e \in back[n] /\ IsFiniteSet(back[n])
                     /\ Cardinality(back[n]) >= n + 1 \/ more(back[n]) = back[n]}
<1>9. 0 \in I
  <2>1. IsFiniteSet({e}) /\ Cardinality({e}) = 1
    BY FS_Singleton
  <2>2. e \in D
    BY DEF D
  <2>. QED  BY <1>8, <2>1, <2>2
<1>10. ASSUME NEW n \in 0 .. K - 1, n \in I PROVE n + 1 \in I
  <2>1. PICK S : S = back[n]
    OBVIOUS
  <2>2. PICK T : T = more(S)
    OBVIOUS
  <2>3. back[n + 1] = T
    BY <1>8, <2>1, <2>2
  <2>4. /\ S \subseteq D /\ e \in S /\ IsFiniteSet(S)
        /\ Cardinality(S) >= n + 1 \/ more(S) = S
    BY <1>1, <1>10, <2>1
  <2>5. T \subseteq D /\ S \subseteq T
    BY <1>3, <2>2, <2>4
  <2>6. IsFiniteSet(T)
    <3>1. T \in SUBSET D
      BY <2>5
    <3>. QED  BY <1>1, <3>1, FS_Subset
  <2>7. Cardinality(T) >= (n + 1) + 1 \/ more(T) = T
    <3>1. CASE S = T
      BY <2>2, <3>1
    <3>2. CASE S # T
      <4>1. more(S) # S /\ Cardinality(S) >= n + 1
        BY <2>2, <2>4, <3>2
      <4>2. Cardinality(S) <= Cardinality(T) /\ Cardinality(S) # Cardinality(T)
        <5>1. S \in SUBSET T
          BY <2>5
        <5>. QED  BY <2>6, <3>2, <5>1, FS_Subset
      <4>3. Cardinality(S) \in Nat /\ Cardinality(T) \in Nat
        BY <2>4, <2>6, FS_CardinalityType
      <4>. QED  BY <1>1, <4>1, <4>2, <4>3
    <3>. QED  BY <3>1, <3>2
  <2>8. n + 1 \in Nat
    BY <1>1
  <2>. QED  BY <2>3, <2>4, <2>5, <2>6, <2>7, <2>8
<1>11. K \in I
  <2> HIDE DEF I
  <2>1. \A n \in 0 .. K : n \in I
    BY <1>1, <1>9, <1>10, HoldsUpTo
  <2>. QED  BY <1>1, <2>1
<1>12. more(back[K]) = back[K]
  <2>1. PICK S : S = back[K]
    OBVIOUS
  <2>2. S \in SUBSET D /\ (Cardinality(S) >= K + 1 \/ more(S) = S)
    BY <1>1, <1>11, <2>1
  <2>3. ASSUME S \in SUBSET D PROVE Cardinality(S) <= K
    BY <1>1, <2>3, FS_Subset DEF K
  <2>4. ASSUME S \in SUBSET D PROVE Cardinality(S) \in Nat
    BY <1>1, <2>4, FS_Subset, FS_CardinalityType
  <2>5. S \in SUBSET D
    BY <1>1, <1>11, <2>1
  <2>. QED  BY <1>1, <2>1, <2>2, <2>3, <2>4, <2>5
<1>13. e \in back[K]
  BY <1>1, <1>11
<1>. QED  BY <1>2, <1>5, <1>12, <1>13

(* A search finds all there is from where it starts.                       *)
LEMMA AllAreFound ==
  ASSUME NEW B, NEW F, NEW kind, IsForest(B, F, kind), NEW h \in Headers,
         NEW r \in F, r.label.id = h.id, r.label.name = h.name, r.label.rev >= h.rev
  PROVE  r.cid \in FoundFrom(F, h) /\ r.label.rev < FreeRevision(F, h)
<1> DEFINE used == {s.label.rev : s \in Revisions(F, h)}
<1>1. PICK free : free = FreeRevision(F, h)
  OBVIOUS
<1>2. free \in h.rev .. h.rev + Cardinality(F) /\ free \notin used
  BY <1>1, FreeRevisionOf
<1>3. Cardinality(F) \in Nat /\ h.rev \in Nat
  BY HeaderOf, FS_CardinalityType DEF IsForest
<1>4. /\ r.label \in Headers /\ r.label = B[r.cid].header
      /\ IsKnown(B, F, kind, AsNode(B[r.cid], r.cid))
  BY InForest
<1>5. HasEarlier(F, r.label)
  <2>1. AsNode(B[r.cid], r.cid).header = B[r.cid].header
    BY NodeOf DEF AsNode
  <2>. QED  BY <1>4, <2>1, KnownOf
<1>6. r.label.rev \in Nat
  BY <1>4, HeaderOf
<1>7. r \in Revisions(F, h)
  BY DEF Revisions
<1>8. r.label.rev < free
  <2>1. r.label.rev \in used
    BY <1>7
  <2>2. r.label.rev # free
    <3> HIDE DEF used
    <3>. QED  BY <1>2, <2>1
  <2>3. ASSUME r.label.rev > free PROVE FALSE
    <3>1. free \in 0 .. r.label.rev - 1
      BY <1>2, <1>3, <1>6, <2>3
    <3>2. PICK s \in F : s.label = AtRevision(r.label, free)
      BY <1>5, <3>1 DEF HasEarlier
    <3>3. s.label.id = h.id /\ s.label.name = h.name /\ s.label.rev = free
      BY <3>2 DEF AtRevision, Header
    <3>4. s \in Revisions(F, h)
      BY <3>3 DEF Revisions
    <3>. QED  BY <1>2, <3>3, <3>4
  <2>4. free \in Nat
    BY <1>2, <1>3
  <2>. QED  BY <1>6, <2>2, <2>3, <2>4
<1>9. r.label.rev \in h.rev .. FreeRevision(F, h) - 1
  <2>1. free \in Nat
    BY <1>2, <1>3
  <2>. QED  BY <1>1, <1>3, <1>6, <1>8, <2>1
<1>. QED  BY <1>1, <1>7, <1>8, <1>9 DEF FoundFrom

(* The latest revision that no head had seen would have to be a head.      *)
LEMMA HeadsCover ==
  ASSUME NEW kind, AreBlocks(blocks, kind), NEW F, IsForest(blocks, F, kind),
         NEW h \in Headers, NEW heads, heads = UnmergedHeads(F, blocks, h),
         NEW c \in FoundFrom(F, h)
  PROVE  \E e \in heads : c \in Ancestry(e)
<1> DEFINE found == FoundFrom(F, h)
           Covered(x) == \E e \in heads : x \in Ancestry(e)
           unseen == {x \in found : ~Covered(x)}
           rev == [x \in unseen |-> blocks[x].header.rev]
           revs == {rev[x] : x \in unseen}
<1> SUFFICES ASSUME unseen # {} PROVE FALSE
  OBVIOUS
<1>1. \A x \in found : x \in DOMAIN blocks /\ blocks[x].header.rev \in Nat
  BY FoundAre, HeaderOf DEF IsFound
<1>2. heads \subseteq found
  BY DEF UnmergedHeads
<1>3. IsFiniteSet(unseen)
  <2>1. IsFiniteSet(found) /\ unseen \in SUBSET found
    BY FoundAre
  <2>. QED  BY <2>1, FS_Subset
<1>4. revs \subseteq Nat /\ revs # {}
  BY <1>1
<1>5. IsFiniteSet(revs)
  <2> HIDE DEF unseen, rev
  <2>. QED  BY <1>3, ValuesOf
<1>6. PICK k \in revs : \A m \in revs : m <= k
  <2> HIDE DEF revs
  <2>. QED  BY <1>4, <1>5, GreatestOf
<1>7. PICK x \in unseen : k = blocks[x].header.rev
  OBVIOUS
<1>8. x \in found /\ x \notin heads
  <2>1. ASSUME x \in heads PROVE Covered(x)
    <3>1. x \in Ancestry(x)
      BY <1>1, <1>2, <2>1, AncestryOf
    <3>. QED  BY <2>1, <3>1
  <2>. QED  BY <2>1
<1>9. PICK d \in found : \E l \in LinksWithin(blocks, d, h.rev) : l.cid = x
  BY <1>8 DEF UnmergedHeads
<1>10. PICK l \in blocks[d].previous : l.cid = x
  BY <1>9 DEF LinksWithin
<1>11. blocks[x].header.rev < blocks[d].header.rev
  BY <1>8, <1>10, LinkGoesBack
<1>12. Covered(d)
  <2> SUFFICES ASSUME ~Covered(d) PROVE FALSE
    OBVIOUS
  <2>1. d \in unseen
    OBVIOUS
  <2>2. rev[d] \in revs
    BY <2>1
  <2>3. blocks[d].header.rev <= k
    BY <1>6, <2>1, <2>2
  <2>. QED  BY <1>1, <1>7, <1>8, <1>11, <2>3
<1>13. PICK e \in heads : d \in Ancestry(e)
  BY <1>12
<1>14. x \in Ancestry(e)
  BY <1>1, <1>2, <1>10, <1>13, AncestryOf
<1>. QED  BY <1>13, <1>14

LEMMA RootIsCovered ==
  ASSUME IInv, RootIsShared
  PROVE  HeadsCoverHistory
<1>1. PICK kind \in Kinds(UsedIds) : AllAre(blocks, forest, tree, kind)
  BY DEF IInv
<1>2. ASSUME NEW d \in Devices, NEW s \in forest[d], s.label.id = 1,
             NEW heads, heads = UnmergedHeads(forest[d], blocks, RootHeader)
      PROVE  \E e \in heads : s.cid \in Ancestry(e)
  <2>1. AreBlocks(blocks, kind) /\ IsForest(blocks, forest[d], kind)
    BY <1>1 DEF AllAre
  <2>2. /\ RootHeader \in Headers /\ RootHeader.id = 1 /\ RootHeader.rev = 0
        /\ RootHeader.name = {1}
    BY RootSearch
  <2>3. IsNamed(s.label)
    <3>1. /\ s.label = blocks[s.cid].header
          /\ IsKnown(blocks, forest[d], kind, AsNode(blocks[s.cid], s.cid))
      BY <2>1, InForest
    <3>2. AsNode(blocks[s.cid], s.cid).header = s.label
      BY <3>1, NodeOf DEF AsNode
    <3>. QED  BY <3>1, <3>2, KnownOf
  <2>4. s.label.name = RootHeader.name
    BY <1>2, <2>2, <2>3 DEF IsNamed
  <2>5. s.label.rev \in Nat
    BY <2>1, InForest, HeaderOf
  <2>6. s.label.rev >= RootHeader.rev
    BY <2>2, <2>5
  <2>7. s.cid \in FoundFrom(forest[d], RootHeader)
    BY <1>2, <2>1, <2>2, <2>4, <2>6, AllAreFound
  <2>. QED  BY <1>2, <2>1, <2>2, <2>7, HeadsCover
<1>. QED  BY <1>2 DEF HeadsCoverHistory

--------------------------------------------------------------------------------
(* The exponential search.                                                 *)

(* The jumps, each twice as long as the one before, and back.              *)
Jump(has, from, jump, step) ==
  IF ~has[from + step] THEN step ELSE jump[2 * step]

Halve(has, halve, step) ==
  IF step = 0 THEN [k \in Nat |-> k]
  ELSE [k \in Nat |-> halve[step \div 2][IF has[k + step] THEN k + step ELSE k]]

LEMMA JumpsEnd ==
  ASSUME NEW has, NEW from \in Nat, NEW N \in Nat,
         \A step \in Nat : step >= N => ~has[from + step]
  PROVE  \E jump : jump = [step \in Nat \ {0} |-> Jump(has, from, jump, step)]
<1> DEFINE J(f, i) == /\ f = [step \in Nat \ {0} |-> f[step]]
                      /\ \A step \in Nat \ {0} :
                           step >= N - i => f[step] = Jump(has, from, f, step)
           S == {i \in Nat : \E f : J(f, i)}
<1>1. 0 \in S
  <2> DEFINE f == [step \in Nat \ {0} |-> step]
  <2>1. f = [step \in Nat \ {0} |-> f[step]] /\ \A step \in Nat \ {0} : f[step] = step
    OBVIOUS
  <2> HIDE DEF f
  <2>2. J(f, 0)
    BY <2>1 DEF Jump
  <2>. QED  BY <2>2
<1>2. ASSUME NEW i \in 0 .. N - 1, i \in S PROVE i + 1 \in S
  <2>1. PICK f : J(f, i)
    BY <1>2
  <2> DEFINE s == N - (i + 1)
             o == [step \in Nat \ {0} |-> IF step = s THEN Jump(has, from, f, s) ELSE f[step]]
  <2>2. \A step \in Nat \ {0} : o[step] = IF step = s THEN Jump(has, from, f, s) ELSE f[step]
    OBVIOUS
  <2>3. o = [step \in Nat \ {0} |-> o[step]]
    OBVIOUS
  <2>4. s \in Nat
    OBVIOUS
  <2> HIDE DEF o
  <2>5. ASSUME NEW step \in Nat \ {0}, step >= s PROVE o[step] = Jump(has, from, o, step)
    <3>1. 2 * step \in Nat \ {0} /\ 2 * step # s
      BY <2>4, <2>5
    <3>2. o[2 * step] = f[2 * step]
      BY <2>2, <3>1
    <3>3. Jump(has, from, o, step) = Jump(has, from, f, step)
      BY <3>2 DEF Jump
    <3>4. CASE step = s
      BY <2>2, <3>3, <3>4
    <3>5. CASE step # s
      <4>1. step >= N - i
        BY <2>4, <2>5, <3>5
      <4>2. f[step] = Jump(has, from, f, step)
        BY <2>1, <4>1
      <4>. QED  BY <2>2, <3>3, <3>5, <4>2
    <3>. QED  BY <3>4, <3>5
  <2>6. J(o, i + 1)
    BY <2>3, <2>5
  <2>. QED  BY <2>6
<1>3. N \in S
  <2> HIDE DEF S
  <2>1. \A i \in 0 .. N : i \in S
    BY <1>1, <1>2, HoldsUpTo
  <2>. QED  BY <2>1
<1>4. PICK f : J(f, N)
  BY <1>3
<1>5. \A step \in Nat \ {0} : f[step] = Jump(has, from, f, step)
  BY <1>4
<1>6. f = [step \in Nat \ {0} |-> Jump(has, from, f, step)]
  BY <1>4, <1>5
<1>. QED  BY <1>6

LEMMA HalvesEnd ==
  ASSUME NEW has, NEW top \in Nat
  PROVE  \E halve : halve = [step \in 0 .. top |-> Halve(has, halve, step)]
<1> DEFINE J(f, i) == /\ f = [step \in 0 .. top |-> f[step]]
                      /\ \A step \in 0 .. top :
                           step <= i => f[step] = Halve(has, f, step)
           S == {i \in Nat : \E f : J(f, i)}
<1>1. 0 \in S
  <2> DEFINE f == [step \in 0 .. top |-> [k \in Nat |-> k]]
  <2>1. /\ f = [step \in 0 .. top |-> f[step]]
        /\ \A step \in 0 .. top : f[step] = [k \in Nat |-> k]
    OBVIOUS
  <2> HIDE DEF f
  <2>2. J(f, 0)
    BY <2>1 DEF Halve
  <2>. QED  BY <2>2
<1>2. ASSUME NEW i \in 0 .. top - 1, i \in S PROVE i + 1 \in S
  <2>1. PICK f : J(f, i)
    BY <1>2
  <2> DEFINE o == [step \in 0 .. top |->
                     IF step = i + 1 THEN Halve(has, f, step) ELSE f[step]]
  <2>2. \A step \in 0 .. top :
          o[step] = IF step = i + 1 THEN Halve(has, f, step) ELSE f[step]
    OBVIOUS
  <2>3. o = [step \in 0 .. top |-> o[step]]
    OBVIOUS
  <2> HIDE DEF o
  <2>4. ASSUME NEW step \in 0 .. top, step <= i + 1
        PROVE  o[step] = Halve(has, o, step)
    <3>1. Halve(has, o, step) = Halve(has, f, step)
      <4>1. CASE step = 0
        BY <4>1 DEF Halve
      <4>2. CASE step # 0
        <5>1. step \div 2 \in 0 .. top /\ step \div 2 # i + 1
          BY <2>4, <4>2
        <5>2. o[step \div 2] = f[step \div 2]
          BY <2>2, <5>1
        <5>. QED  BY <5>2 DEF Halve
      <4>. QED  BY <4>1, <4>2
    <3>2. CASE step = i + 1
      BY <2>2, <3>1, <3>2
    <3>3. CASE step # i + 1
      BY <2>1, <2>2, <2>4, <3>1, <3>3
    <3>. QED  BY <3>2, <3>3
  <2>5. J(o, i + 1)
    BY <2>3, <2>4
  <2>. QED  BY <2>5
<1>3. top \in S
  <2> HIDE DEF S
  <2>1. \A i \in 0 .. top : i \in S
    BY <1>1, <1>2, HoldsUpTo
  <2>. QED  BY <2>1
<1>4. PICK f : J(f, top)
  BY <1>3
<1>5. \A step \in 0 .. top : f[step] = Halve(has, f, step)
  BY <1>4
<1>6. f = [step \in 0 .. top |-> Halve(has, f, step)]
  BY <1>4, <1>5
<1>. QED  BY <1>6

(* The jumps end beyond the last one.                                      *)
LEMMA JumpLands ==
  ASSUME NEW has, NEW from \in Nat, NEW N \in Nat,
         \A step \in Nat : step >= N => ~has[from + step],
         NEW jump, \A step \in Nat \ {0} : jump[step] = Jump(has, from, jump, step),
         NEW G, G \subseteq Nat \ {0}, 1 \in G, \A step \in G : 2 * step \in G
  PROVE  jump[1] \in G /\ ~has[from + jump[1]]
<1> DEFINE S == {i \in Nat : \A step \in G :
                   step >= N - i => jump[step] \in G /\ ~has[from + jump[step]]}
<1>1. 0 \in S
  <2>1. ASSUME NEW step \in G, step >= N PROVE jump[step] = step /\ ~has[from + step]
    <3>1. ~has[from + step]
      BY <2>1
    <3>. QED  BY <3>1 DEF Jump
  <2>. QED  BY <2>1
<1>2. ASSUME NEW i \in 0 .. N - 1, i \in S PROVE i + 1 \in S
  <2>1. ASSUME NEW step \in G, step >= N - (i + 1)
        PROVE  jump[step] \in G /\ ~has[from + jump[step]]
    <3>1. CASE ~has[from + step]
      BY <3>1 DEF Jump
    <3>2. CASE has[from + step]
      <4>1. jump[step] = jump[2 * step]
        BY <3>2 DEF Jump
      <4>2. 2 * step \in G /\ 2 * step >= N - i
        BY <2>1
      <4>. QED  BY <1>2, <4>1, <4>2
    <3>. QED  BY <3>1, <3>2
  <2>. QED  BY <2>1
<1>3. N \in S
  <2> HIDE DEF S
  <2>1. \A i \in 0 .. N : i \in S
    BY <1>1, <1>2, HoldsUpTo
  <2>. QED  BY <2>1
<1>4. 1 >= N - N
  OBVIOUS
<1>. QED  BY <1>3, <1>4

(* Where all positions up to the last are in use and none after it, the    *)
(* search ends there.                                                      *)
LEMMA SeekLastIs ==
  ASSUME NEW has, NEW from \in Nat, NEW last \in Nat, from <= last,
         \A k \in Nat : k >= from => (has[k] <=> k <= last)
  PROVE  SeekLast(has, from) = last
<1> DEFINE N == last - from + 1
           jump == CHOOSE f : f = [step \in Nat \ {0} |-> Jump(has, from, f, step)]
           top == jump[1]
           halve == CHOOSE f : f = [step \in 0 .. top |-> Halve(has, f, step)]
<1>1. SeekLast(has, from) = halve[top][from]
  BY DEF SeekLast, Jump, Halve
<1>2. N \in Nat /\ \A step \in Nat : step >= N => ~has[from + step]
  OBVIOUS
<1>3. \A step \in Nat \ {0} : jump[step] = Jump(has, from, jump, step)
  <2>1. \E f : f = [step \in Nat \ {0} |-> Jump(has, from, f, step)]
    <3> HIDE DEF N
    <3>. QED  BY <1>2, JumpsEnd
  <2>2. jump = [step \in Nat \ {0} |-> Jump(has, from, jump, step)]
    BY <2>1
  <2> HIDE DEF jump
  <2>. QED  BY <2>2
<1> HIDE DEF jump, N
<1>4. top \in Nat \ {0}
  <2>1. PICK G : G = Nat \ {0}
    OBVIOUS
  <2>2. G \subseteq Nat \ {0} /\ 1 \in G /\ \A step \in G : 2 * step \in G
    BY <2>1
  <2>3. jump[1] \in G
    BY <1>2, <1>3, <2>2, JumpLands
  <2>. QED  BY <2>1, <2>3
<1>5. \A step \in 0 .. top : halve[step] = Halve(has, halve, step)
  <2> HIDE DEF top
  <2>1. \E f : f = [step \in 0 .. top |-> Halve(has, f, step)]
    BY <1>4, HalvesEnd
  <2>2. halve = [step \in 0 .. top |-> Halve(has, halve, step)]
    BY <2>1
  <2> HIDE DEF halve
  <2>. QED  BY <2>2
<1> HIDE DEF halve
<1> DEFINE Ends(step) == \A k \in from .. last : last < k + 2 * step => halve[step][k] = last
           G == {step \in Nat \ {0} : step <= top => Ends(step)}
<1>6. ASSUME NEW step \in 1 .. top, NEW k \in from .. last
      PROVE  halve[step][k] = halve[step \div 2][IF k + step <= last THEN k + step ELSE k]
  <2>1. halve[step] = [j \in Nat |->
                         halve[step \div 2][IF has[j + step] THEN j + step ELSE j]]
    <3>1. step \in 0 .. top /\ step # 0
      BY <1>4
    <3>. QED  BY <1>5, <3>1 DEF Halve
  <2>2. k \in Nat /\ k + step \in Nat /\ k + step >= from
    BY <1>4
  <2>3. has[k + step] <=> k + step <= last
    BY <2>2
  <2>. QED  BY <2>1, <2>2, <2>3
<1>7. 1 \in G
  <2>1. ASSUME 1 <= top, NEW k \in from .. last, last < k + 2 * 1 PROVE halve[1][k] = last
    <3>1. halve[0] = [j \in Nat |-> j]
      <4>1. 0 \in 0 .. top
        BY <1>4
      <4>2. halve[0] = Halve(has, halve, 0)
        BY <1>5, <4>1
      <4>. QED  BY <4>2 DEF Halve
    <3>2. 1 \div 2 = 0 /\ 1 \in 1 .. top
      BY <1>4, <2>1
    <3>3. halve[1][k] = halve[0][IF k + 1 <= last THEN k + 1 ELSE k]
      BY <1>6, <3>2
    <3>. QED  BY <2>1, <3>1, <3>3
  <2>. QED  BY <2>1
<1>8. ASSUME NEW step \in G PROVE 2 * step \in G
  <2>1. ASSUME 2 * step <= top, NEW k \in from .. last, last < k + 2 * (2 * step)
        PROVE  halve[2 * step][k] = last
    <3>1. step \in Nat \ {0} /\ step <= top /\ Ends(step)
      BY <1>4, <2>1
    <3>2. (2 * step) \div 2 = step /\ 2 * step \in 1 .. top
      BY <1>4, <2>1, <3>1
    <3> DEFINE j == IF k + 2 * step <= last THEN k + 2 * step ELSE k
    <3>3. halve[2 * step][k] = halve[step][j]
      BY <1>6, <3>2
    <3>4. j \in from .. last /\ last < j + 2 * step
      BY <2>1, <3>1
    <3>. QED  BY <3>1, <3>3, <3>4
  <2>. QED  BY <2>1
<1>9. top \in G /\ ~has[from + top]
  <2>1. G \subseteq Nat \ {0}
    OBVIOUS
  <2> HIDE DEF G
  <2>. QED  BY <1>2, <1>3, <1>7, <1>8, <2>1, JumpLands
<1>10. last < from + 2 * top
  BY <1>4, <1>9
<1>11. Ends(top)
  BY <1>4, <1>9
<1>. QED  BY <1>1, <1>10, <1>11

LEMMA LatestAre ==
  ASSUME NEW B, NEW F, NEW kind, IsForest(B, F, kind), NEW r \in F,
         NEW last, last = FreeRevision(F, r.label) - 1
  PROVE  /\ LatestNodes(F, r.label) = Multivalue(F, AtRevision(r.label, last))
         /\ \A s \in F : s.label = AtRevision(r.label, s.label.rev) => s.label.rev <= last
<1>1. PICK h \in Headers : h = r.label
  BY InForest
<1>2. PICK free : free = FreeRevision(F, h)
  OBVIOUS
<1> DEFINE used == {s.label.rev : s \in Revisions(F, h)}
           has == [k \in Nat |-> Multivalue(F, AtRevision(h, k)) # {}]
<1>3. free \in h.rev .. h.rev + Cardinality(F) /\ h.rev .. free - 1 \subseteq used
  BY <1>2, FreeRevisionOf
<1>4. Cardinality(F) \in Nat /\ h.rev \in Nat
  BY HeaderOf, FS_CardinalityType DEF IsForest
<1>5. ASSUME NEW s \in F, s.label.id = h.id, s.label.name = h.name
      PROVE  s.label.rev \in Nat /\ s.label.rev < free
  <2>1. s.label.rev \in Nat
    BY InForest, HeaderOf
  <2>2. CASE s.label.rev >= h.rev
    BY <1>2, <1>5, <2>1, <2>2, AllAreFound
  <2>3. CASE ~(s.label.rev >= h.rev)
    BY <1>3, <1>4, <2>1, <2>3
  <2>. QED  BY <2>1, <2>2, <2>3
<1>6. ASSUME NEW k \in Nat
      PROVE  has[k] <=> \E s \in F : s.label.id = h.id /\ s.label.name = h.name
                                     /\ s.label.rev = k
  <2>1. ASSUME NEW s \in F
        PROVE  s.label = AtRevision(h, k)
                 <=> s.label.id = h.id /\ s.label.name = h.name /\ s.label.rev = k
    <3>1. s.label \in Headers
      BY InForest
    <3>2. s.label = Header(s.label.id, s.label.rev, s.label.name)
      BY <3>1, HeaderOf
    <3>. QED  BY <3>2, HeaderOf DEF AtRevision, Header
  <2>2. has[k] <=> \E s \in F : s.label = AtRevision(h, k)
    BY DEF Multivalue
  <2> HIDE DEF has
  <2>. QED  BY <2>1, <2>2
<1>7. last \in Nat /\ h.rev <= last /\ last = free - 1 /\ free \in Nat
  <2>1. h.rev < free
    BY <1>1, <1>5
  <2>. QED  BY <1>1, <1>2, <1>3, <1>4, <2>1
<1>8. \A k \in Nat : k >= h.rev => (has[k] <=> k <= last)
  <2> SUFFICES ASSUME NEW k \in Nat, k >= h.rev PROVE has[k] <=> k <= last
    OBVIOUS
  <2>1. ASSUME has[k] PROVE k <= last
    <3>1. PICK s \in F : s.label.id = h.id /\ s.label.name = h.name /\ s.label.rev = k
      BY <1>6, <2>1
    <3>. QED  BY <1>5, <1>7, <3>1
  <2>2. ASSUME k <= last PROVE has[k]
    <3>1. k \in h.rev .. free - 1
      BY <1>4, <1>7, <2>2
    <3>2. k \in used
      <4> HIDE DEF used
      <4>. QED  BY <1>3, <3>1
    <3>3. PICK s \in Revisions(F, h) : s.label.rev = k
      BY <3>2
    <3> HIDE DEF has
    <3>. QED  BY <1>6, <3>3 DEF Revisions
  <2> HIDE DEF has
  <2>. QED  BY <2>1, <2>2
<1>9. SeekLast(has, h.rev) = last
  <2>1. PICK f : f = has
    OBVIOUS
  <2> HIDE DEF has
  <2>. QED  BY <1>4, <1>7, <1>8, <2>1, SeekLastIs
<1>10. Multivalue(F, h) # {}
  BY <1>1 DEF Multivalue
<1>11. LatestNodes(F, h) = Multivalue(F, AtRevision(h, SeekLast(has, h.rev)))
  BY <1>10 DEF LatestNodes
<1>12. ASSUME NEW s \in F, s.label = AtRevision(h, s.label.rev) PROVE s.label.rev <= last
  <2>1. s.label.id = h.id /\ s.label.name = h.name
    BY <1>12 DEF AtRevision, Header
  <2>. QED  BY <1>5, <1>7, <2>1
<1> HIDE DEF has
<1>. QED  BY <1>1, <1>9, <1>11, <1>12

LEMMA AllSearchesAgree ==
  ASSUME IInv
  PROVE  SearchesAgree
<1>1. PICK kind \in Kinds(UsedIds) : AllAre(blocks, forest, tree, kind)
  BY DEF IInv
<1>2. ASSUME NEW d \in Devices, NEW r \in forest[d],
             NEW last, last = FreeRevision(forest[d], r.label) - 1
      PROVE  /\ LatestNodes(forest[d], r.label) =
                  Multivalue(forest[d], AtRevision(r.label, last))
             /\ \A s \in forest[d] :
                  s.label = AtRevision(r.label, s.label.rev) => s.label.rev <= last
  <2>1. IsForest(blocks, forest[d], kind)
    BY <1>1 DEF AllAre
  <2>. QED  BY <1>2, <2>1, LatestAre
<1>. QED  BY <1>2 DEF SearchesAgree

--------------------------------------------------------------------------------
(* What is in memory hangs together, and all that was stored is of the     *)
(* types the code has: nodes with headers and links, and refs to them.     *)
THEOREM TypesKept == Spec => []TypeOK
BY IInvHolds, IInvTypes, PTL

(* Whatever edits, merges, stores, restarts and exchanges of forests there *)
(* were, on however many devices: the entries of what a device's forest    *)
(* has are in it, and so are the earlier revisions that its links point    *)
(* to, under the keys the links carry.                                     *)
THEOREM ForestKeptClosed == Spec => []ForestIsClosed
BY IInvHolds, IInvCloses, PTL

(* No revision of a node is ever missing from a forest that has a later    *)
(* one, whatever was exchanged in which order: the jumps of                *)
(* search_latest_nodes end where the scan of seek_unmerged_heads does.     *)
THEOREM SearchesKeepAgreeing == Spec => []SearchesAgree
BY IInvHolds, AllSearchesAgree, PTL

(* Whatever devices wrote concurrently, and however many of them:          *)
(* reconciling gives the root every entry that one of the heads has, and   *)
(* none of another value.                                                  *)
THEOREM EntriesAreKept == Spec => []NoEntryForgotten
BY RootIsSharedHolds, RootMerges, PTL

(* No root that a device has ever falls out of the history of the heads.   *)
THEOREM HistoryIsCovered == Spec => []HeadsCoverHistory
BY RootIsSharedHolds, RootIsCovered, PTL

(* Two concurrent writes are settled by one merge.                         *)
THEOREM TwoWritesAreSettled == Spec => []TwoWritesSettle
BY RootIsSharedHolds, TwoWritesMerge, PTL
================================================================================
