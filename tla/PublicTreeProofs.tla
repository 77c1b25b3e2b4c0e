---------------------------- MODULE PublicTreeProofs ----------------------------
(***************************************************************************)
(* The public tree keeps its types, and a filled persisted_as cell names   *)
(* the content, entries and history that its node has now.  It implements  *)
(* a plain tree of folders and files: each step is one of FileSystem, or   *)
(* changes nothing that a user sees.                                       *)
(*                                                                         *)
(* PublicFile::merge is commutative and associative, for any files with    *)
(* any contents and histories, as its documentation says                   *)
(* (wnfs/src/public/file.rs:498).  A file block is known by three things:  *)
(* its content, its time, and its parents, which are what it merged or, if *)
(* it merged nothing, itself.  A merge takes the least content, the least  *)
(* time of that content and the union of the parents, and each of these is *)
(* commutative and associative.                                            *)
(*                                                                         *)
(* Two sides that reconcile with each other get the same root: no revision *)
(* is in its own history, so the two comparisons of a pair of nodes mirror *)
(* each other, and so do the fates of the paths below.                     *)
(***************************************************************************)
EXTENDS PublicTree, SharedFacts

(* Directories down to everything that is there.                           *)
HasShape(store, t) ==
  /\ t \in [Paths -> Nodes(store) \cup {Absent}]
  /\ IsDir(t, <<>>)
  /\ \A p \in Below : t[p] # Absent => IsDir(t, Front(p))

(* The cell at p, if it is filled, names what is there.                    *)
Names1(t, p, c) ==
  /\ c.type = t[p].type /\ c.content = t[p].content
  /\ c.previous = t[p].previous
  /\ DOMAIN c.entries = Userland(t, p)
  /\ \A n \in DOMAIN c.entries : t[Append(p, n)].persisted_as = c.entries[n]

CellsName(t) ==
  \A p \in Paths : t[p] # Absent /\ HasCid(t[p]) => Names1(t, p, t[p].persisted_as)

Sound(store, t) == HasShape(store, t) /\ CellsName(t)

AreBlocks(store) ==
  \A b \in store : /\ b.type \in {"dir", "file"} /\ b.mtime \in Times
                   /\ \A n \in DOMAIN b.entries : b.entries[n] \in store

(* The inductive invariant: what was stored is sound as well, since it may *)
(* be loaded again.                                                        *)
IInv ==
  /\ AreBlocks(blocks)
  /\ roots \subseteq blocks
  /\ tree \in [Replicas -> [Paths -> Nodes(blocks) \cup {Absent}]]
  /\ \A r \in Replicas : Sound(blocks, tree[r])
  /\ \A c \in roots : Sound(blocks, Loaded(c))

--------------------------------------------------------------------------------
(* Paths and nodes.                                                        *)

LEMMA PathsOf ==
  ASSUME NEW p \in Paths
  PROVE  /\ p \in Seq(Names) /\ <<>> \in Paths
         /\ p # <<>> => Front(p) \in Paths /\ p = Append(Front(p), Last(p))
         /\ \A n : Append(p, n) # <<>> /\ Front(Append(p, n)) = p
                                       /\ Last(Append(p, n)) = n
BY PathsAssumption, FrontOf, AppendOf

LEMMA DeepestOf == \E deepest \in Paths : \A p \in Paths : Len(p) <= Len(deepest)
<1> DEFINE Lengths == {Len(p) : p \in Paths}
<1>1. \A p \in Paths : Len(p) \in Nat
  BY PathsAssumption, LenProperties
<1> DEFINE len == [p \in Paths |-> Len(p)]
<1>2. Lengths \subseteq Nat /\ Lengths # {} /\ IsFiniteSet(Lengths)
  <2>1. Lengths = {len[p] : p \in Paths}
    OBVIOUS
  <2>2. IsFiniteSet(Paths) /\ Paths # {}
    BY PathsAssumption
  <2> HIDE DEF len
  <2>3. IsFiniteSet(Lengths)
    <3> HIDE DEF Lengths
    <3>. QED  BY <2>1, <2>2, ValuesOf
  <2>. QED  BY <1>1, <2>2, <2>3
<1> HIDE DEF Lengths
<1>3. PICK n \in Lengths : \A m \in Lengths : m <= n
  BY <1>2, GreatestOf
<1>. QED  BY <1>3 DEF Lengths

LEMMA UserlandOf ==
  ASSUME NEW t, NEW p \in Paths
  PROVE  \A n : n \in Userland(t, p) <=> Append(p, n) \in Paths /\ t[Append(p, n)] # Absent
<1>1. ASSUME NEW n, n \in Userland(t, p)
      PROVE  Append(p, n) \in Paths /\ t[Append(p, n)] # Absent
  <2>1. PICK q \in Paths : q # <<>> /\ Front(q) = p /\ t[q] # Absent /\ n = Last(q)
    BY <1>1 DEF Userland
  <2>2. q = Append(p, n)
    BY <2>1, PathsOf
  <2>. QED  BY <2>1, <2>2
<1>2. ASSUME NEW n, Append(p, n) \in Paths, t[Append(p, n)] # Absent
      PROVE  n \in Userland(t, p)
  <2>1. Append(p, n) # <<>> /\ Front(Append(p, n)) = p /\ Last(Append(p, n)) = n
    BY PathsOf
  <2>2. n \in {Last(q) : q \in {x \in Paths : x # <<>> /\ Front(x) = p /\ t[x] # Absent}}
    <3> DEFINE q == Append(p, n)
    <3>1. q \in {x \in Paths : x # <<>> /\ Front(x) = p /\ t[x] # Absent} /\ n = Last(q)
      BY <1>2, <2>1
    <3> HIDE DEF q
    <3>. QED  BY <3>1
  <2>. QED  BY <2>2 DEF Userland
<1>. QED  BY <1>1, <1>2

(* What is above a path in use is in use.                                  *)
LEMMA AboveOf ==
  ASSUME NEW p \in Paths
  PROVE  \A q : IsPrefix(q, p) /\ q \in Seq(Names) => q \in Paths
<1> DEFINE S == {k \in Nat : \A r \in Paths : Len(r) = k =>
                    \A q \in Seq(Names) : IsPrefix(q, r) => q \in Paths}
<1>1. 0 \in S
  <2>1. ASSUME NEW q \in Seq(Names), NEW r \in Seq(Names), Len(r) = 0, IsPrefix(q, r)
        PROVE  Len(q) = 0
    <3>1. Len(q) \in Nat /\ Len(q) <= Len(r)
      BY <2>1, PrefixOf, LenProperties
    <3>. QED  BY <2>1, <3>1
  <2>2. \A q \in Seq(Names) : Len(q) = 0 => q = <<>>
    BY EmptySeq
  <2>. QED  BY <2>1, <2>2, PathsAssumption
<1>2. ASSUME NEW i \in 0 .. Len(p) - 1, i \in S PROVE i + 1 \in S
  <2> SUFFICES ASSUME NEW r \in Paths, Len(r) = i + 1, NEW q \in Seq(Names), IsPrefix(q, r)
               PROVE  q \in Paths
    OBVIOUS
  <2>1. r \in Seq(Names) /\ r # <<>> /\ Front(r) \in Paths
    BY PathsOf, EmptySeq
  <2>2. Len(Front(r)) = i
    BY <2>1, FrontOf
  <2>3. q = r \/ IsPrefix(q, Front(r))
    BY <2>1, PrefixStep
  <2>. QED  BY <1>2, <2>1, <2>2, <2>3
<1>3. p \in Seq(Names) /\ Len(p) \in Nat
  BY PathsOf, LenProperties
<1> HIDE DEF S
<1>4. \A i \in 0 .. Len(p) : i \in S
  BY <1>1, <1>2, <1>3, HoldsUpTo
<1>5. Len(p) \in S
  BY <1>3, <1>4
<1>. QED  BY <1>5 DEF S

LEMMA NodeFields ==
  ASSUME NEW store, NEW node \in Nodes(store)
  PROVE  /\ node.type \in {"dir", "file"} /\ node # Absent
         /\ node.content \in Contents \cup {NoContent} /\ node.mtime \in Times
         /\ node.previous \subseteq store
         /\ node.persisted_as \in store \cup {Unset}
         /\ node = Node(node.type, node.content, node.mtime, node.previous,
                        node.persisted_as)
BY DEF Nodes, Absent, Node

LEMMA NodeOf ==
  ASSUME NEW store, NEW type \in {"dir", "file"}, NEW content \in Contents \cup {NoContent},
         NEW mtime \in Times, NEW previous \in SUBSET store,
         NEW cid \in store \cup {Unset}
  PROVE  /\ Node(type, content, mtime, previous, cid) \in Nodes(store)
         /\ Node(type, content, mtime, previous, cid).type = type
         /\ Node(type, content, mtime, previous, cid).content = content
         /\ Node(type, content, mtime, previous, cid).mtime = mtime
         /\ Node(type, content, mtime, previous, cid).previous = previous
         /\ Node(type, content, mtime, previous, cid).persisted_as = cid
BY DEF Nodes, Node

LEMMA NodeAtTime ==
  ASSUME NEW store, NEW node \in Nodes(store), NEW t \in Times
  PROVE  [node EXCEPT !.mtime = t] =
           Node(node.type, node.content, t, node.previous, node.persisted_as)
<1>1. \A a, b, m, p, c :
         [Node(a, b, m, p, c) EXCEPT !.mtime = t] = Node(a, b, t, p, c)
  BY DEF Node
<1>. QED  BY <1>1, NodeFields

LEMMA NextRevisionOf ==
  ASSUME NEW store, NEW node \in Nodes(store)
  PROVE  PrepareNextRevision(node) =
           Node(node.type, node.content, node.mtime,
                IF HasCid(node) THEN {node.persisted_as} ELSE node.previous, Unset)
<1>1. ASSUME NEW r
      PROVE  \A a, b, m, p, c :
               [Node(a, b, m, p, c) EXCEPT !.previous = r] = Node(a, b, m, r, c)
  BY DEF Node
<1>2. ASSUME NEW r
      PROVE  \A a, b, m, p, c :
               [Node(a, b, m, p, c) EXCEPT !.persisted_as = r] = Node(a, b, m, p, r)
  BY DEF Node
<1> DEFINE next == [node EXCEPT !.previous = {node.persisted_as}]
<1>3. next = Node(node.type, node.content, node.mtime, {node.persisted_as},
                  node.persisted_as)
  BY <1>1, NodeFields
<1>4. [next EXCEPT !.persisted_as = Unset]
        = Node(node.type, node.content, node.mtime, {node.persisted_as}, Unset)
  <2> HIDE DEF next
  <2>. QED  BY <1>2, <1>3
<1>. QED  BY <1>4, NodeFields DEF PrepareNextRevision, HasCid

LEMMA FileEdited ==
  ASSUME NEW store, NEW node \in Nodes(store), NEW content, NEW time,
         node.type = "file", node.persisted_as = Unset
  PROVE  [node EXCEPT !.content = content, !.mtime = time] =
           Node("file", content, time, node.previous, Unset)
<1>1. \A a, b, m, p, c :
         [Node(a, b, m, p, c) EXCEPT !.content = content] = Node(a, content, m, p, c)
  BY DEF Node
<1>2. \A a, b, m, p, c :
         [Node(a, b, m, p, c) EXCEPT !.mtime = time] = Node(a, b, time, p, c)
  BY DEF Node
<1> DEFINE next == [node EXCEPT !.content = content]
<1>3. next = Node(node.type, content, node.mtime, node.previous, node.persisted_as)
  BY <1>1, NodeFields
<1>4. [next EXCEPT !.mtime = time]
        = Node(node.type, content, time, node.previous, node.persisted_as)
  <2> HIDE DEF next
  <2>. QED  BY <1>2, <1>3
<1>. QED  BY <1>4

LEMMA NodesOf ==
  ASSUME NEW store, NEW node \in Nodes(store)
  PROVE  /\ node.type \in {"dir", "file"} /\ node # Absent
         /\ PrepareNextRevision(node) \in Nodes(store)
         /\ PrepareNextRevision(node).type = node.type
         /\ PrepareNextRevision(node).persisted_as = Unset
<1>1. (IF HasCid(node) THEN {node.persisted_as} ELSE node.previous) \in SUBSET store
  BY NodeFields DEF HasCid
<1> DEFINE previous == IF HasCid(node) THEN {node.persisted_as} ELSE node.previous
<1>2. previous \in SUBSET store /\ Unset \in store \cup {Unset}
  BY <1>1
<1>3. PrepareNextRevision(node) =
         Node(node.type, node.content, node.mtime, previous, Unset)
  BY NextRevisionOf
<1> HIDE DEF previous
<1>4. /\ node.type \in {"dir", "file"} /\ node # Absent
      /\ node.content \in Contents \cup {NoContent} /\ node.mtime \in Times
  BY NodeFields
<1>. QED  BY <1>2, <1>3, <1>4, NodeOf

LEMMA NewNodes ==
  ASSUME NEW store, NEW time \in Times
  PROVE  /\ NewDirectory(time) \in Nodes(store) /\ NewDirectory(time).type = "dir"
         /\ NewDirectory(time).persisted_as = Unset
         /\ \A c \in Contents \cup {NoContent} :
              /\ NewFile(c, time) \in Nodes(store) /\ NewFile(c, time).type = "file"
              /\ NewFile(c, time).persisted_as = Unset
BY DEF Nodes, NewDirectory, NewFile, Node, Unset

LEMMA MoreNodes ==
  ASSUME NEW store, NEW more, store \subseteq more
  PROVE  Nodes(store) \subseteq Nodes(more)
BY DEF Nodes

LEMMA SoundAmongMore ==
  ASSUME NEW store, NEW more, store \subseteq more, NEW t, Sound(store, t)
  PROVE  Sound(more, t)
BY MoreNodes DEF Sound, HasShape

--------------------------------------------------------------------------------
(* Editing.                                                                *)

(* A cell that is right of a node is right of a node with the same entries. *)
LEMMA NamesMove ==
  ASSUME NEW t, NEW u, NEW o \in Paths, NEW p \in Paths, NEW c, Names1(t, o, c),
         u[p].type = t[o].type, u[p].content = t[o].content,
         u[p].previous = t[o].previous,
         \A n : (Append(p, n) \in Paths /\ u[Append(p, n)] # Absent) <=>
                (Append(o, n) \in Paths /\ t[Append(o, n)] # Absent),
         \A n : Append(o, n) \in Paths /\ t[Append(o, n)] # Absent =>
                  u[Append(p, n)].persisted_as = t[Append(o, n)].persisted_as
  PROVE  Names1(u, p, c)
<1>1. \A n : n \in Userland(u, p) <=> Append(p, n) \in Paths /\ u[Append(p, n)] # Absent
  BY UserlandOf
<1>2. \A n : n \in Userland(t, o) <=> Append(o, n) \in Paths /\ t[Append(o, n)] # Absent
  BY UserlandOf
<1>3. Userland(u, p) = Userland(t, o)
  BY <1>1, <1>2
<1>4. \A n \in Userland(u, p) :
         u[Append(p, n)].persisted_as = t[Append(o, n)].persisted_as
  BY <1>2, <1>3
<1>. QED  BY <1>3, <1>4 DEF Names1

(* Cells stay right if what changed has no filled cell at it or above it.  *)
LEMMA CellsStay ==
  ASSUME NEW t, NEW u, CellsName(t),
         \A p \in Paths : u[p] # Absent /\ HasCid(u[p]) =>
            /\ u[p] = t[p]
            /\ \A n : Append(p, n) \in Paths => u[Append(p, n)] = t[Append(p, n)]
  PROVE  CellsName(u)
<1> SUFFICES ASSUME NEW p \in Paths, u[p] # Absent, HasCid(u[p])
             PROVE  Names1(u, p, u[p].persisted_as)
  BY DEF CellsName
<1>1. /\ u[p] = t[p]
      /\ \A n : Append(p, n) \in Paths => u[Append(p, n)] = t[Append(p, n)]
  OBVIOUS
<1>2. Names1(t, p, u[p].persisted_as)
  BY <1>1 DEF CellsName
<1>. QED  BY <1>1, <1>2, NamesMove

(* No cell of a directory at a path, or above it, is filled.               *)
IsOpen(t, path) == \A q \in Paths : IsPrefix(q, path) /\ IsDir(t, q) => ~HasCid(t[q])

LEMMA WalkedIsSound ==
  ASSUME NEW store, NEW t, Sound(store, t), NEW path \in Paths
  PROVE  /\ Sound(store, LeafDirMut(t, path))
         /\ IsOpen(LeafDirMut(t, path), path)
         /\ \A q \in Paths : LeafDirMut(t, path)[q].type = t[q].type
         /\ \A q \in Paths : LeafDirMut(t, path)[q] # Absent <=> t[q] # Absent
         /\ \A q \in Paths : ~IsDir(t, q) => LeafDirMut(t, path)[q] = t[q]
<1> DEFINE u == LeafDirMut(t, path)
<1>1. /\ t \in [Paths -> Nodes(store) \cup {Absent}] /\ IsDir(t, <<>>) /\ CellsName(t)
      /\ \A p \in Below : t[p] # Absent => IsDir(t, Front(p))
  BY DEF Sound, HasShape
<1>2. \A q \in Paths : u[q] = IF IsPrefix(q, path) /\ IsDir(t, q)
                              THEN PrepareNextRevision(t[q]) ELSE t[q]
  BY DEF LeafDirMut
<1>3. \A q \in Paths : IsDir(t, q) => t[q] \in Nodes(store)
  BY <1>1 DEF IsDir, Absent
<1>4. u \in [Paths -> Nodes(store) \cup {Absent}]
  BY <1>1, <1>3, NodesOf DEF LeafDirMut
<1> HIDE DEF u
<1>5. \A q \in Paths : u[q].type = t[q].type
  BY <1>2, <1>3, NodesOf
<1>6. \A q \in Paths : u[q] # Absent <=> t[q] # Absent
  BY <1>2, <1>3, NodesOf
<1>7. IsOpen(u, path)
  BY <1>2, <1>3, <1>5, NodesOf DEF IsOpen, IsDir, HasCid
<1>8. HasShape(store, u)
  BY <1>1, <1>4, <1>5, <1>6, PathsAssumption DEF HasShape, IsDir, Below
<1>9. ASSUME NEW p \in Paths, u[p] # Absent, HasCid(u[p])
      PROVE  /\ u[p] = t[p]
             /\ \A n : Append(p, n) \in Paths => u[Append(p, n)] = t[Append(p, n)]
  <2>1. ~(IsPrefix(p, path) /\ IsDir(u, p))
    BY <1>7, <1>9 DEF IsOpen
  <2>2. u[p] = t[p]
    BY <1>2, <1>5, <2>1 DEF IsDir
  <2>3. ASSUME NEW n, Append(p, n) \in Paths, u[Append(p, n)] # t[Append(p, n)]
        PROVE  FALSE
    <3> DEFINE q == Append(p, n)
    <3>1. q \in Paths /\ q \in Seq(Names) /\ p \in Seq(Names) /\ path \in Seq(Names)
          /\ q # <<>> /\ Front(q) = p
      BY <2>3, PathsOf
    <3> HIDE DEF q
    <3>2. IsPrefix(q, path) /\ IsDir(t, q)
      BY <1>2, <2>3, <3>1 DEF q
    <3>3. IsPrefix(p, q)
      BY <3>1, PrefixStep, PrefixOrder
    <3>4. IsPrefix(p, path)
      BY <3>1, <3>2, <3>3, PrefixOrder
    <3>5. IsDir(t, p)
      BY <1>1, <3>1, <3>2 DEF Below, IsDir, Absent
    <3>. QED  BY <1>5, <2>1, <3>4, <3>5 DEF IsDir
  <2>. QED  BY <2>2, <2>3
<1>10. CellsName(u)
  BY <1>1, <1>9, CellsStay
<1>. QED  BY <1>2, <1>5, <1>6, <1>7, <1>8, <1>10 DEF Sound, u

LEMMA CreatedIsSound ==
  ASSUME NEW store, NEW t, Sound(store, t), NEW path \in Paths, NEW time \in Times,
         ~NotADir(t, path)
  PROVE  /\ Sound(store, CreateLeafDirMut(t, path, time))
         /\ \A q \in Paths : IsPrefix(q, path) =>
               /\ IsDir(CreateLeafDirMut(t, path, time), q)
               /\ ~HasCid(CreateLeafDirMut(t, path, time)[q])
         /\ \A q \in Paths : ~IsPrefix(q, path) => CreateLeafDirMut(t, path, time)[q] = t[q]
<1> DEFINE u == CreateLeafDirMut(t, path, time)
           w == LeafDirMut(t, path)
<1>1. /\ t \in [Paths -> Nodes(store) \cup {Absent}] /\ IsDir(t, <<>>) /\ CellsName(t)
      /\ \A p \in Below : t[p] # Absent => IsDir(t, Front(p))
  BY DEF Sound, HasShape
<1>2. /\ w \in [Paths -> Nodes(store) \cup {Absent}]
      /\ IsOpen(w, path)
      /\ \A q \in Paths : w[q].type = t[q].type
      /\ \A q \in Paths : ~IsPrefix(q, path) => w[q] = t[q]
  BY WalkedIsSound DEF Sound, HasShape, LeafDirMut
<1>3. u = [q \in Paths |-> IF IsPrefix(q, path) /\ t[q] = Absent
                           THEN NewDirectory(time) ELSE w[q]]
  BY DEF CreateLeafDirMut
<1> HIDE DEF u, w
<1>4. u \in [Paths -> Nodes(store) \cup {Absent}]
  BY <1>2, <1>3, NewNodes
<1>5. \A q \in Paths : ~IsPrefix(q, path) => u[q] = t[q]
  BY <1>2, <1>3
<1>6. \A q \in Paths : IsPrefix(q, path) => IsDir(u, q) /\ ~HasCid(u[q])
  <2> SUFFICES ASSUME NEW q \in Paths, IsPrefix(q, path)
               PROVE  IsDir(u, q) /\ ~HasCid(u[q])
    OBVIOUS
  <2>1. q \in Prefixes(path)
    BY PathsOf, PrefixesAre
  <2>2. ~IsFile(t, q)
    BY <2>1 DEF NotADir
  <2>3. CASE t[q] = Absent
    BY <1>3, <2>3, NewNodes DEF IsDir, HasCid
  <2>4. CASE t[q] # Absent
    <3>1. t[q].type = "dir"
      BY <1>1, <2>2, <2>4, NodesOf DEF IsFile
    <3>2. u[q] = w[q] /\ w[q].type = "dir"
      BY <1>2, <1>3, <2>4, <3>1
    <3>. QED  BY <1>2, <3>2 DEF IsOpen, IsDir
  <2>. QED  BY <2>3, <2>4
<1>7. IsDir(u, <<>>)
  BY <1>6, PathsOf, PrefixOrder, PathsAssumption
<1>8. ASSUME NEW p \in Below, u[p] # Absent PROVE IsDir(u, Front(p))
  <2>1. p \in Paths /\ p # <<>> /\ Front(p) \in Paths /\ p \in Seq(Names)
        /\ Front(p) \in Seq(Names) /\ path \in Seq(Names)
    BY PathsOf DEF Below
  <2>2. IsPrefix(Front(p), p)
    BY <2>1, PrefixStep, PrefixOrder
  <2>3. CASE IsPrefix(p, path)
    <3>1. IsPrefix(Front(p), path)
      BY <2>1, <2>2, <2>3, PrefixOrder
    <3>. QED  BY <1>6, <2>1, <3>1
  <2>4. CASE ~IsPrefix(p, path)
    <3>1. IsDir(t, Front(p))
      BY <1>1, <1>5, <1>8, <2>1, <2>4
    <3>. QED  BY <1>5, <1>6, <2>1, <3>1 DEF IsDir
  <2>. QED  BY <2>3, <2>4
<1>9. ASSUME NEW p \in Paths, u[p] # Absent, HasCid(u[p])
      PROVE  /\ u[p] = t[p]
             /\ \A n : Append(p, n) \in Paths => u[Append(p, n)] = t[Append(p, n)]
  <2>1. ~IsPrefix(p, path)
    BY <1>6, <1>9
  <2>2. ASSUME NEW n, Append(p, n) \in Paths PROVE ~IsPrefix(Append(p, n), path)
    <3> DEFINE q == Append(p, n)
    <3>1. q \in Seq(Names) /\ p \in Seq(Names) /\ path \in Seq(Names)
          /\ q # <<>> /\ Front(q) = p
      BY <2>2, PathsOf
    <3> HIDE DEF q
    <3>2. IsPrefix(p, q)
      BY <3>1, PrefixStep, PrefixOrder
    <3>3. ~IsPrefix(q, path)
      BY <2>1, <3>1, <3>2, PrefixOrder
    <3>. QED  BY <3>3 DEF q
  <2>. QED  BY <1>5, <2>1, <2>2
<1>10. CellsName(u)
  BY <1>1, <1>9, CellsStay
<1>. QED  BY <1>4, <1>5, <1>6, <1>7, <1>8, <1>10 DEF Sound, HasShape, u

LEMMA FilePutIsSound ==
  ASSUME NEW store, NEW t, Sound(store, t), NEW p \in Below,
         IsDir(t, Front(p)), ~HasCid(t[Front(p)]), ~IsDir(t, p),
         NEW file \in Nodes(store), file.type = "file", file.persisted_as = Unset
  PROVE  Sound(store, [t EXCEPT ![p] = file])
<1> DEFINE u == [t EXCEPT ![p] = file]
<1>1. /\ t \in [Paths -> Nodes(store) \cup {Absent}] /\ IsDir(t, <<>>) /\ CellsName(t)
      /\ \A q \in Below : t[q] # Absent => IsDir(t, Front(q))
  BY DEF Sound, HasShape
<1>2. p \in Paths /\ p # <<>> /\ p \in Seq(Names) /\ Front(p) \in Paths
  BY PathsOf DEF Below
<1>3. /\ u \in [Paths -> Nodes(store) \cup {Absent}]
      /\ u[p] = file /\ \A q \in Paths \ {p} : u[q] = t[q]
  BY <1>1, <1>2
<1> HIDE DEF u
<1>4. \A q \in Paths : IsDir(t, q) => IsDir(u, q) /\ u[q] = t[q]
  BY <1>3 DEF IsDir
<1>5. \A q \in Below : u[q] # Absent => IsDir(u, Front(q))
  BY <1>1, <1>2, <1>3, <1>4, PathsOf DEF Below
<1>6. ASSUME NEW q \in Paths, u[q] # Absent, HasCid(u[q])
      PROVE  /\ u[q] = t[q]
             /\ \A n : Append(q, n) \in Paths => u[Append(q, n)] = t[Append(q, n)]
  <2>1. q # p
    BY <1>3, <1>6 DEF HasCid
  <2>2. q # Front(p)
    BY <1>4, <1>6, <1>2
  <2>3. \A n : Append(q, n) # p
    BY <2>2, PathsOf
  <2>. QED  BY <1>3, <2>1, <2>3
<1>7. CellsName(u)
  BY <1>1, <1>6, CellsStay
<1>. QED  BY <1>1, <1>3, <1>4, <1>5, <1>7, PathsAssumption DEF Sound, HasShape, u

LEMMA WithFileIsSound ==
  ASSUME NEW store, NEW t, Sound(store, t), NEW p \in Below, NEW time \in Times,
         NEW newContent \in Contents \cup {NoContent},
         NEW content, IsFile(t, p) => content \in Contents \cup {NoContent}
  PROVE  Sound(store, WithFile(t, p, newContent, content, time))
<1>1. p \in Paths /\ p # <<>> /\ p \in Seq(Names) /\ Front(p) \in Paths
  BY PathsOf DEF Below
<1>2. CASE NotADir(t, Front(p))
  BY <1>1, <1>2, WalkedIsSound DEF WithFile
<1>3. CASE ~NotADir(t, Front(p))
  <2> DEFINE k == CreateLeafDirMut(t, Front(p), time)
             e == [PrepareNextRevision(t[p]) EXCEPT !.content = content, !.mtime = time]
             v == IF t[p] = Absent THEN NewFile(newContent, time)
                  ELSE IF IsDir(t, p) THEN t[p] ELSE e
  <2>1. /\ Sound(store, k)
        /\ \A q \in Paths : IsPrefix(q, Front(p)) => IsDir(k, q) /\ ~HasCid(k[q])
        /\ \A q \in Paths : ~IsPrefix(q, Front(p)) => k[q] = t[q]
    BY <1>1, <1>3, CreatedIsSound
  <2>2. WithFile(t, p, newContent, content, time) = [k EXCEPT ![p] = v]
    BY <1>3, Zenon DEF WithFile
  <2> HIDE DEF k, e
  <2>3. IsDir(k, Front(p)) /\ ~HasCid(k[Front(p)])
    BY <1>1, <2>1, PathsOf, PrefixOrder
  <2>4. k[p] = t[p]
    BY <1>1, <2>1, PrefixStep
  <2>5. t[p] \in Nodes(store) \cup {Absent}
    BY <1>1 DEF Sound, HasShape
  <2>6. CASE t[p] = Absent
    <3>1. v = NewFile(newContent, time)
      BY <2>6
    <3>2. ~IsDir(k, p)
      BY <2>4, <2>6 DEF IsDir, Absent
    <3> HIDE DEF v
    <3>3. v \in Nodes(store) /\ v.type = "file" /\ v.persisted_as = Unset
      BY <3>1, NewNodes
    <3>4. Sound(store, [k EXCEPT ![p] = v])
      BY <2>1, <2>3, <3>2, <3>3, FilePutIsSound, Zenon
    <3>. QED  BY <2>2, <3>4, Zenon
  <2>7. CASE IsDir(t, p)
    <3>1. v = t[p]
      BY <2>7 DEF IsDir, Absent
    <3> HIDE DEF v
    <3>2. [k EXCEPT ![p] = v] = k
      BY <2>1, <2>4, <3>1 DEF Sound, HasShape
    <3>. QED  BY <2>1, <2>2, <3>2
  <2>8. CASE t[p] # Absent /\ ~IsDir(t, p)
    <3> DEFINE n == PrepareNextRevision(t[p])
    <3>1. t[p] \in Nodes(store) /\ IsFile(t, p)
      BY <2>5, <2>8, NodesOf DEF IsDir, IsFile
    <3>2. v = e
      BY <2>8, <3>1
    <3>3. n \in Nodes(store) /\ n.type = "file" /\ n.persisted_as = Unset
      BY <3>1, NodesOf DEF IsFile
    <3>4. e = [n EXCEPT !.content = content, !.mtime = time]
      BY DEF e
    <3> HIDE DEF v, n
    <3>5. v = Node("file", content, time, n.previous, Unset)
      BY <3>2, <3>3, <3>4, FileEdited
    <3>6. /\ n.previous \in SUBSET store /\ "file" \in {"dir", "file"}
          /\ content \in Contents \cup {NoContent} /\ Unset \in store \cup {Unset}
      BY <3>1, <3>3, NodeFields
    <3>7. v \in Nodes(store) /\ v.type = "file" /\ v.persisted_as = Unset
      BY <3>5, <3>6, NodeOf
    <3>8. ~IsDir(k, p)
      BY <2>4, <2>8 DEF IsDir
    <3>9. Sound(store, [k EXCEPT ![p] = v])
      BY <2>1, <2>3, <3>7, <3>8, FilePutIsSound, Zenon
    <3>. QED  BY <2>2, <3>9, Zenon
  <2>. QED  BY <2>6, <2>7, <2>8
<1>. QED  BY <1>2, <1>3

LEMMA MadeDirIsSound ==
  ASSUME NEW store, NEW t, Sound(store, t), NEW path \in Paths, NEW time \in Times
  PROVE  Sound(store, MadeDir(t, path, time))
BY WalkedIsSound, CreatedIsSound DEF MadeDir

LEMMA RemovedIsSound ==
  ASSUME NEW store, NEW t, Sound(store, t), NEW p \in Below
  PROVE  Sound(store, Removed(t, p))
<1> DEFINE u == Removed(t, p)
           w == LeafDirMut(t, Front(p))
<1>1. p \in Paths /\ p # <<>> /\ p \in Seq(Names) /\ Front(p) \in Paths
  BY PathsOf DEF Below
<1>2. Sound(store, w) /\ IsOpen(w, Front(p))
  BY <1>1, WalkedIsSound
<1>3. u = [q \in Paths |-> IF IsPrefix(p, q) THEN Absent ELSE w[q]]
  BY DEF Removed
<1> HIDE DEF u, w
<1>4. /\ w \in [Paths -> Nodes(store) \cup {Absent}] /\ IsDir(w, <<>>) /\ CellsName(w)
      /\ \A q \in Below : w[q] # Absent => IsDir(w, Front(q))
  BY <1>2 DEF Sound, HasShape
<1>5. u \in [Paths -> Nodes(store) \cup {Absent}]
  BY <1>3, <1>4
<1>6. IsDir(u, <<>>)
  <2>1. ~IsPrefix(p, <<>>)
    BY <1>1, PathsOf, PrefixOrder
  <2>. QED  BY <1>3, <1>4, <2>1, PathsAssumption DEF IsDir
<1>7. ASSUME NEW q \in Below, u[q] # Absent PROVE IsDir(u, Front(q))
  <2>1. q \in Paths /\ q # <<>> /\ q \in Seq(Names) /\ Front(q) \in Paths
    BY PathsOf DEF Below
  <2>2. ~IsPrefix(p, q) /\ u[q] = w[q]
    BY <1>3, <1>7, <2>1
  <2>3. ~IsPrefix(p, Front(q))
    BY <1>1, <2>1, <2>2, PrefixStep
  <2>. QED  BY <1>3, <1>4, <1>7, <2>1, <2>2, <2>3 DEF IsDir
<1>8. ASSUME NEW q \in Paths, u[q] # Absent, HasCid(u[q])
      PROVE  /\ u[q] = w[q]
             /\ \A n : Append(q, n) \in Paths => u[Append(q, n)] = w[Append(q, n)]
  <2>1. ~IsPrefix(p, q) /\ u[q] = w[q]
    BY <1>3, <1>8
  <2>2. ASSUME NEW n, Append(q, n) \in Paths, IsPrefix(p, Append(q, n))
        PROVE  w[Append(q, n)] = Absent
    <3> DEFINE x == Append(q, n)
    <3>1. x \in Below /\ x \in Paths /\ x \in Seq(Names) /\ x # <<>> /\ Front(x) = q
      BY <2>2, PathsOf DEF Below
    <3> HIDE DEF x
    <3>2. p = x \/ IsPrefix(p, q)
      <4>1. p \in Seq(Names) /\ IsPrefix(p, x)
        BY <1>1, <2>2, PathsOf DEF x
      <4>. QED  BY <3>1, <4>1, PrefixStep
    <3>3. q = Front(p)
      BY <2>1, <3>1, <3>2
    <3>4. ~IsDir(w, q)
      BY <1>1, <1>2, <1>8, <2>1, <3>3, PrefixOrder, PathsOf DEF IsOpen
    <3>5. w[x] = Absent
      BY <1>4, <3>1, <3>4
    <3>. QED  BY <3>5 DEF x
  <2>. QED  BY <1>3, <2>1, <2>2
<1>9. CellsName(u)
  BY <1>4, <1>8, CellsStay
<1>. QED  BY <1>5, <1>6, <1>7, <1>9 DEF Sound, HasShape, u

LEMMA InsertedIsSound ==
  ASSUME NEW store, NEW t, Sound(store, t), NEW source, Sound(store, source),
         NEW from \in Below, NEW to \in Below, NEW time \in Times,
         source[from] # Absent, FitsAt(source, from, to),
         t[to] = Absent, IsDir(t, Front(to)), ~HasCid(t[Front(to)])
  PROVE  Sound(store, Inserted(t, source, from, to, time))
<1> DEFINE u == Inserted(t, source, from, to, time)
           O(q) == Corresponding(to, from, q)
           Origin(q) == IF O(q) \in Paths THEN source[O(q)] ELSE Absent
<1>1. /\ t \in [Paths -> Nodes(store) \cup {Absent}] /\ IsDir(t, <<>>) /\ CellsName(t)
      /\ \A q \in Below : t[q] # Absent => IsDir(t, Front(q))
  BY DEF Sound, HasShape
<1>2. /\ source \in [Paths -> Nodes(store) \cup {Absent}] /\ CellsName(source)
      /\ \A q \in Below : source[q] # Absent => IsDir(source, Front(q))
  BY DEF Sound, HasShape
<1>3. /\ from \in Paths /\ from # <<>> /\ from \in Seq(Names)
      /\ to \in Paths /\ to # <<>> /\ to \in Seq(Names) /\ Front(to) \in Paths
  BY PathsOf DEF Below
<1>4. \A q \in Paths : u[q] = IF ~IsPrefix(to, q) THEN t[q]
                              ELSE IF q = to THEN [Origin(q) EXCEPT !.mtime = time]
                              ELSE Origin(q)
  BY DEF Inserted, Corresponding, Suffix
<1>5. u = [q \in Paths |-> u[q]]
  BY DEF Inserted
<1>6. O(to) = from /\ IsPrefix(to, to)
  BY <1>3, CorrespondingSteps, PrefixOrder
<1>7. \A q \in Paths : Origin(q) \in Nodes(store) \cup {Absent}
  BY <1>2
<1> HIDE DEF u, O
<1>8. \A q \in Paths : ~IsPrefix(to, q) => u[q] = t[q]
  BY <1>4
<1>9. \A q \in Paths : IsPrefix(to, q) /\ q # to => u[q] = Origin(q)
  BY <1>4
<1>10. Origin(to) = source[from] /\ Origin(to) \in Nodes(store)
  BY <1>2, <1>3, <1>6
<1>11. /\ u[to] \in Nodes(store)
       /\ u[to] = Node(Origin(to).type, Origin(to).content, time, Origin(to).previous,
                       Origin(to).persisted_as)
  <2>1. u[to] = [Origin(to) EXCEPT !.mtime = time]
    BY <1>3, <1>4, <1>6
  <2> HIDE DEF Origin
  <2>2. u[to] = Node(Origin(to).type, Origin(to).content, time, Origin(to).previous,
                     Origin(to).persisted_as)
    BY <1>10, <2>1, NodeAtTime
  <2>3. PICK from_ : from_ = Origin(to)
    OBVIOUS
  <2>4. from_ \in Nodes(store) /\ time \in Times
    BY <1>10, <2>3
  <2>5. /\ from_.type \in {"dir", "file"} /\ from_.content \in Contents \cup {NoContent}
        /\ from_.previous \in SUBSET store /\ from_.persisted_as \in store \cup {Unset}
    BY <2>4, NodeFields
  <2>6. Node(from_.type, from_.content, time, from_.previous, from_.persisted_as)
          \in Nodes(store)
    BY <2>4, <2>5, NodeOf
  <2>. QED  BY <2>2, <2>3, <2>6
(* All that a node of the subtree is known by, but for the time.           *)
<1>12. \A q \in Paths : IsPrefix(to, q) =>
          /\ u[q] # Absent <=> Origin(q) # Absent
          /\ u[q].type = Origin(q).type /\ u[q].content = Origin(q).content
          /\ u[q].previous = Origin(q).previous
          /\ u[q].persisted_as = Origin(q).persisted_as
  <2> SUFFICES ASSUME NEW q \in Paths, IsPrefix(to, q)
               PROVE  /\ u[q] # Absent <=> Origin(q) # Absent
                      /\ u[q].type = Origin(q).type /\ u[q].content = Origin(q).content
                      /\ u[q].previous = Origin(q).previous
                      /\ u[q].persisted_as = Origin(q).persisted_as
    OBVIOUS
  <2> HIDE DEF Origin
  <2>1. CASE q = to
    <3>1. u[to] # Absent /\ Origin(to) # Absent
      BY <1>10, <1>11, NodeFields
    <3>. QED  BY <1>11, <2>1, <3>1 DEF Node
  <2>2. CASE q # to
    BY <1>9, <2>2
  <2>. QED  BY <2>1, <2>2
<1>13. u \in [Paths -> Nodes(store) \cup {Absent}]
  <2>1. \A q \in Paths : u[q] \in Nodes(store) \cup {Absent}
    BY <1>1, <1>7, <1>8, <1>9, <1>11
  <2>. QED  BY <1>5, <2>1
<1>14. IsDir(u, <<>>)
  <2>1. ~IsPrefix(to, <<>>)
    BY <1>3, PathsOf, PrefixOrder
  <2>. QED  BY <1>1, <1>8, <2>1, PathsAssumption DEF IsDir
<1>15. ASSUME NEW q \in Below, u[q] # Absent PROVE IsDir(u, Front(q))
  <2>1. q \in Paths /\ q # <<>> /\ q \in Seq(Names) /\ Front(q) \in Paths
    BY PathsOf DEF Below
  <2>2. CASE ~IsPrefix(to, q)
    <3>1. ~IsPrefix(to, Front(q))
      BY <1>3, <2>1, <2>2, PrefixStep
    <3>. QED  BY <1>1, <1>8, <1>15, <2>1, <2>2, <3>1 DEF IsDir
  <2>3. CASE q = to
    <3>1. ~IsPrefix(to, Front(to))
      BY <1>3, PrefixStep
    <3>. QED  BY <1>3, <1>8, <2>3, <3>1 DEF IsDir
  <2>4. CASE IsPrefix(to, q) /\ q # to
    <3>1. /\ O(q) # <<>> /\ IsPrefix(to, Front(q)) /\ Front(O(q)) = O(Front(q))
      BY <1>3, <2>1, <2>4, CorrespondingSteps DEF O
    <3>2. O(q) \in Paths /\ source[O(q)] # Absent
      BY <1>12, <1>15, <2>1, <2>4
    <3>3. O(Front(q)) \in Paths /\ source[O(Front(q))].type = "dir"
      BY <1>2, <3>1, <3>2, PathsOf DEF Below, IsDir
    <3>. QED  BY <1>12, <2>1, <3>1, <3>3 DEF IsDir
  <2>. QED  BY <2>2, <2>3, <2>4
<1>16. ASSUME NEW p \in Paths, u[p] # Absent, HasCid(u[p])
       PROVE  Names1(u, p, u[p].persisted_as)
  <2>1. CASE ~IsPrefix(to, p)
    <3>1. u[p] = t[p] /\ Names1(t, p, u[p].persisted_as)
      BY <1>1, <1>8, <1>16, <2>1 DEF CellsName
    <3>2. p # Front(to)
      BY <1>3, <1>16, <3>1
    <3>3. ASSUME NEW n, Append(p, n) \in Paths PROVE u[Append(p, n)] = t[Append(p, n)]
      <4> DEFINE q == Append(p, n)
      <4>1. q \in Paths /\ q \in Seq(Names) /\ q # <<>> /\ Front(q) = p
        BY <3>3, PathsOf
      <4> HIDE DEF q
      <4>2. ~IsPrefix(to, q)
        BY <1>3, <2>1, <3>2, <4>1, PrefixStep
      <4>3. u[q] = t[q]
        BY <1>8, <4>1, <4>2
      <4>. QED  BY <4>3 DEF q
    <3>. QED  BY <3>1, <3>3, NamesMove
  <2>2. CASE IsPrefix(to, p)
    <3>1. O(p) \in Paths /\ source[O(p)] # Absent /\ Origin(p) = source[O(p)]
      BY <1>12, <1>16, <2>2
    <3>2. Names1(source, O(p), u[p].persisted_as)
      BY <1>2, <1>12, <1>16, <2>2, <3>1 DEF CellsName, HasCid
    <3>3. \A n : IsPrefix(to, Append(p, n)) /\ O(Append(p, n)) = Append(O(p), n)
      BY <1>3, <2>2, PathsOf, CorrespondingSteps DEF O
    <3>4. ASSUME NEW n, Append(O(p), n) \in Paths, source[Append(O(p), n)] # Absent
          PROVE  Append(p, n) \in Paths
      <4>1. /\ O(p) \in Seq(Names) /\ IsPrefix(from, O(p))
            /\ Corresponding(from, to, O(p)) = p
        BY <1>3, <2>2, PathsOf, CorrespondingSteps, CorrespondingOf DEF O, Replaces
      <4>2. /\ IsPrefix(from, Append(O(p), n))
            /\ Corresponding(from, to, Append(O(p), n)) = Append(p, n)
        BY <1>3, <4>1, CorrespondingSteps
      <4>. QED  BY <3>4, <4>2 DEF FitsAt, Corresponding, Suffix
    <3>5. \A n : (Append(p, n) \in Paths /\ u[Append(p, n)] # Absent) <=>
                 (Append(O(p), n) \in Paths /\ source[Append(O(p), n)] # Absent)
      <4> TAKE n
      <4> DEFINE q == Append(p, n)
                 o == Append(O(p), n)
      <4>1. IsPrefix(to, q) /\ O(q) = o
        BY <3>3
      <4>2. o \in Paths /\ source[o] # Absent => q \in Paths
        BY <3>4
      <4> HIDE DEF q, o
      <4>3. q \in Paths => (u[q] # Absent <=> Origin(q) # Absent)
        BY <1>12, <4>1
      <4>4. q \in Paths /\ u[q] # Absent <=> o \in Paths /\ source[o] # Absent
        BY <4>1, <4>2, <4>3
      <4>. QED  BY <4>4 DEF q, o
    <3>6. ASSUME NEW n, Append(O(p), n) \in Paths, source[Append(O(p), n)] # Absent
          PROVE  u[Append(p, n)].persisted_as = source[Append(O(p), n)].persisted_as
      <4> DEFINE q == Append(p, n)
                 o == Append(O(p), n)
      <4>1. IsPrefix(to, q) /\ O(q) = o /\ q \in Paths /\ o \in Paths
        BY <3>3, <3>4, <3>6
      <4> HIDE DEF q, o
      <4>2. u[q].persisted_as = source[o].persisted_as
        BY <1>12, <4>1
      <4>. QED  BY <4>2 DEF q, o
    <3>7. /\ u[p].type = source[O(p)].type /\ u[p].content = source[O(p)].content
          /\ u[p].previous = source[O(p)].previous
      BY <1>12, <2>2, <3>1
    <3>. QED  BY <3>1, <3>2, <3>5, <3>6, <3>7, NamesMove
  <2>. QED  BY <2>1, <2>2
<1>17. CellsName(u)
  BY <1>16 DEF CellsName
<1>. QED  BY <1>13, <1>14, <1>15, <1>17 DEF Sound, HasShape, u

LEMMA PlacedIsSound ==
  ASSUME NEW store, NEW t, Sound(store, t), NEW source, Sound(store, source),
         NEW from \in Below, NEW to \in Below, NEW time \in Times,
         source[from] # Absent, FitsAt(source, from, to)
  PROVE  Sound(store, Placed(t, source, from, to, time))
<1>1. to \in Paths /\ Front(to) \in Paths /\ Front(to) \in Seq(Names)
  BY PathsOf DEF Below
<1> DEFINE w == LeafDirMut(t, Front(to))
<1>2. /\ Sound(store, w) /\ IsOpen(w, Front(to))
      /\ \A q \in Paths : w[q].type = t[q].type
      /\ \A q \in Paths : w[q] # Absent <=> t[q] # Absent
  BY <1>1, WalkedIsSound
<1> HIDE DEF w
<1>3. CASE IsDir(t, Front(to)) /\ t[to] = Absent
  <2>1. IsDir(w, Front(to)) /\ w[to] = Absent /\ ~HasCid(w[Front(to)])
    BY <1>1, <1>2, <1>3, PrefixOrder DEF IsDir, IsOpen
  <2>. QED  BY <1>2, <1>3, <2>1, InsertedIsSound DEF Placed, w
<1>. QED  BY <1>2, <1>3 DEF Placed, w

LEMMA MovedIsSound ==
  ASSUME NEW store, NEW t, Sound(store, t),
         NEW from \in Below, NEW to \in Below, NEW time \in Times, FitsAt(t, from, to)
  PROVE  Sound(store, Moved(t, from, to, time)) /\ Sound(store, Copied(t, from, to, time))
BY RemovedIsSound, PlacedIsSound DEF Moved, Copied

--------------------------------------------------------------------------------
(* Storing and loading.                                                    *)

CidStep(t, believed, cid, p) ==
  IF t[p] = Absent THEN Unset
  ELSE IF p \in believed THEN t[p].persisted_as
  ELSE Block(t[p], [n \in Userland(t, p) |-> cid[Append(p, n)]])

LEMMA SameCidStep ==
  ASSUME NEW t, NEW believed, NEW f, NEW g, NEW p \in Paths,
         \A n : Append(p, n) \in Paths => f[Append(p, n)] = g[Append(p, n)]
  PROVE  CidStep(t, believed, f, p) = CidStep(t, believed, g, p)
<1> DEFINE F == [n \in Userland(t, p) |-> f[Append(p, n)]]
           G == [n \in Userland(t, p) |-> g[Append(p, n)]]
<1>1. \A n \in Userland(t, p) : f[Append(p, n)] = g[Append(p, n)]
  BY UserlandOf
<1>2. F = G
  BY <1>1
<1> HIDE DEF F, G
<1>3. /\ CidStep(t, believed, f, p) = IF t[p] = Absent THEN Unset
            ELSE IF p \in believed THEN t[p].persisted_as ELSE Block(t[p], F)
      /\ CidStep(t, believed, g, p) = IF t[p] = Absent THEN Unset
            ELSE IF p \in believed THEN t[p].persisted_as ELSE Block(t[p], G)
  BY DEF CidStep, F, G
<1>. QED  BY <1>2, <1>3

(* The CIDs are defined: from the deepest paths up.                        *)
LEMMA CidsExist ==
  ASSUME NEW t, NEW believed
  PROVE  \E g : g = [p \in Paths |-> CidStep(t, believed, g, p)]
<1>1. PICK deepest \in Paths : \A p \in Paths : Len(p) <= Len(deepest)
  BY DeepestOf
<1> DEFINE d == Len(deepest)
           S == {k \in Nat : \E f : \A p \in Paths :
                   Len(p) + k > d => f[p] = CidStep(t, believed, f, p)}
<1>2. \A p \in Paths : Len(p) \in Nat
  BY PathsOf, LenProperties
<1>3. d \in Nat /\ \A p \in Paths : Len(p) <= d
  BY <1>1, <1>2
<1> HIDE DEF d
<1>4. 0 \in S
  BY <1>2, <1>3
<1>5. ASSUME NEW i \in 0 .. (d + 1) - 1, i \in S PROVE i + 1 \in S
  <2>1. PICK f : \A p \in Paths : Len(p) + i > d => f[p] = CidStep(t, believed, f, p)
    BY <1>5
  <2> DEFINE g == [p \in Paths |-> IF Len(p) + i > d THEN f[p]
                                   ELSE CidStep(t, believed, f, p)]
  <2>2. \A p \in Paths : g[p] = CidStep(t, believed, f, p)
    BY <2>1
  <2>3. \A p \in Paths : Len(p) + i > d => g[p] = f[p]
    OBVIOUS
  <2> HIDE DEF g
  <2>4. ASSUME NEW p \in Paths, Len(p) + (i + 1) > d
        PROVE  g[p] = CidStep(t, believed, g, p)
    <3>1. ASSUME NEW n, Append(p, n) \in Paths PROVE g[Append(p, n)] = f[Append(p, n)]
      <4>1. Len(Append(p, n)) = Len(p) + 1
        BY PathsOf, AppendOf
      <4>2. Len(Append(p, n)) + i > d
        BY <1>2, <1>3, <2>4, <4>1
      <4>. QED  BY <2>3, <3>1, <4>2
    <3>. QED  BY <2>2, <3>1, SameCidStep
  <2>5. \E h : \A p \in Paths : Len(p) + (i + 1) > d => h[p] = CidStep(t, believed, h, p)
    BY <2>4
  <2>. QED  BY <2>5
<1> HIDE DEF S
<1>6. \A i \in 0 .. d + 1 : i \in S
  <2>1. d + 1 \in Nat
    BY <1>3
  <2>. QED  BY <1>4, <1>5, <2>1, HoldsUpTo
<1>7. d + 1 \in S
  BY <1>3, <1>6
<1>8. PICK f : \A p \in Paths : Len(p) + (d + 1) > d => f[p] = CidStep(t, believed, f, p)
  BY <1>7 DEF S
<1>9. \A p \in Paths : f[p] = CidStep(t, believed, f, p)
  BY <1>2, <1>3, <1>8
<1> DEFINE g == [p \in Paths |-> f[p]]
<1>10. \A p \in Paths : g[p] = f[p]
  OBVIOUS
<1> HIDE DEF g
<1>11. \A p \in Paths : f[p] = CidStep(t, believed, g, p)
  BY <1>9, <1>10, SameCidStep
<1>12. g = [p \in Paths |-> CidStep(t, believed, g, p)]
  BY <1>11 DEF g
<1>. QED  BY <1>12

LEMMA CidsStep ==
  ASSUME NEW t
  PROVE  /\ \A p \in Paths : Cids(t)[p] = CidStep(t, Filled(t), Cids(t), p)
         /\ Cids(t) = [p \in Paths |-> Cids(t)[p]]
<1> DEFINE F(g) == [p \in Paths |-> CidStep(t, Filled(t), g, p)]
<1>1. \E g : g = F(g)
  BY CidsExist
<1>2. Cids(t) = CHOOSE g : g = F(g)
  BY DEF Cids, CidsBelieving, CidStep
<1> HIDE DEF F
<1>3. Cids(t) = F(Cids(t))
  BY <1>1, <1>2
<1>. QED  BY <1>3 DEF F

LEMMA EntriesAreBlocks ==
  ASSUME NEW store, AreBlocks(store), NEW t, Sound(store, t), NEW p \in Below,
         t[p] # Absent, HasCid(t[Front(p)])
  PROVE  HasCid(t[p])
<1> DEFINE f == Front(p)
           n == Last(p)
<1>1. p \in Paths /\ f \in Paths /\ p = Append(f, n)
  BY PathsOf DEF Below
<1>2. t[f] # Absent /\ t[f] \in Nodes(store)
  BY <1>1 DEF Sound, HasShape, IsDir, Absent
<1>3. Names1(t, f, t[f].persisted_as) /\ t[f].persisted_as \in store
  BY <1>1, <1>2, NodeFields DEF Sound, CellsName, HasCid
<1> HIDE DEF f, n
<1>4. n \in Userland(t, f)
  BY <1>1, UserlandOf
<1>5. t[p].persisted_as = t[f].persisted_as.entries[n] /\ t[p].persisted_as \in store
  BY <1>1, <1>3, <1>4 DEF Names1, AreBlocks
<1>. QED  BY <1>5 DEF AreBlocks, HasCid, Unset

(* What is not reached by a store has its cell filled.                     *)
LEMMA UnreachedIsFilled ==
  ASSUME NEW store, AreBlocks(store), NEW t, Sound(store, t), NEW p \in Paths,
         t[p] # Absent, ~HasCid(t[p])
  PROVE  p \in Serialised(t)
<1> DEFINE S == {k \in Nat : \A q \in Paths :
                   Len(q) = k /\ t[q] # Absent /\ ~HasCid(t[q]) =>
                     \A a \in Seq(Names) : IsPrefix(a, q) => ~HasCid(t[a])}
<1>1. 0 \in S
  <2> SUFFICES ASSUME NEW q \in Paths, Len(q) = 0, ~HasCid(t[q]),
                      NEW a \in Seq(Names), IsPrefix(a, q)
               PROVE  ~HasCid(t[a])
    OBVIOUS
  <2>1. q \in Seq(Names) /\ q = <<>>
    BY PathsOf, EmptySeq
  <2>2. a = q
    BY <2>1, PrefixOrder
  <2>. QED  BY <2>2
<1>2. p \in Seq(Names) /\ Len(p) \in Nat
  BY PathsOf, LenProperties
<1>3. ASSUME NEW i \in 0 .. Len(p) - 1, i \in S PROVE i + 1 \in S
  <2> SUFFICES ASSUME NEW q \in Paths, Len(q) = i + 1, t[q] # Absent, ~HasCid(t[q]),
                      NEW a \in Seq(Names), IsPrefix(a, q)
               PROVE  ~HasCid(t[a])
    OBVIOUS
  <2>1. q \in Seq(Names) /\ q # <<>> /\ q \in Below /\ Front(q) \in Paths
    BY PathsOf, EmptySeq DEF Below
  <2>2. Len(Front(q)) = i
    BY <2>1, FrontOf
  <2>3. a = q \/ IsPrefix(a, Front(q))
    BY <2>1, PrefixStep
  <2>4. t[Front(q)] # Absent /\ ~HasCid(t[Front(q)])
    BY <2>1, EntriesAreBlocks DEF Sound, HasShape, IsDir, Absent
  <2>. QED  BY <1>3, <2>1, <2>2, <2>3, <2>4
<1> HIDE DEF S
<1>4. \A i \in 0 .. Len(p) : i \in S
  BY <1>1, <1>2, <1>3, HoldsUpTo
<1>5. Len(p) \in S
  BY <1>2, <1>4
<1>6. \A a \in Seq(Names) : IsPrefix(a, p) => ~HasCid(t[a])
  BY <1>5 DEF S
<1>. QED  BY <1>2, <1>6, PrefixesAre DEF Serialised

(* The CID of a node names its content, its history and the CIDs of its    *)
(* entries, whether it was believed or not.                                *)
LEMMA CidsName ==
  ASSUME NEW store, AreBlocks(store), NEW t, Sound(store, t), NEW p \in Paths,
         NEW c, c = Cids(t)[p]
  PROVE  /\ t[p] = Absent => c = Unset
         /\ t[p] # Absent =>
              /\ c # Unset /\ c.type = t[p].type /\ c.content = t[p].content
              /\ c.previous = t[p].previous /\ c.mtime \in Times
              /\ DOMAIN c.entries = Userland(t, p)
              /\ \A n \in Userland(t, p) : c.entries[n] = Cids(t)[Append(p, n)]
              /\ HasCid(t[p]) => c = t[p].persisted_as /\ c \in store
<1>1. c = CidStep(t, Filled(t), Cids(t), p)
  BY CidsStep
<1>2. CASE t[p] = Absent
  BY <1>1, <1>2 DEF CidStep
<1>3. ASSUME t[p] # Absent PROVE t[p] \in Nodes(store)
  BY <1>3 DEF Sound, HasShape
<1>4. CASE t[p] # Absent /\ HasCid(t[p])
  <2>1. c = t[p].persisted_as /\ c \in store
    BY <1>1, <1>3, <1>4, NodeFields DEF CidStep, Filled, HasCid
  <2>2. Names1(t, p, c)
    BY <1>4, <2>1 DEF Sound, CellsName
  <2>3. c # Unset /\ c.mtime \in Times
    BY <2>1 DEF AreBlocks, Unset
  <2>4. ASSUME NEW n \in Userland(t, p) PROVE c.entries[n] = Cids(t)[Append(p, n)]
    <3> DEFINE q == Append(p, n)
    <3>0. n \in Userland(t, p) <=> q \in Paths /\ t[q] # Absent
      BY UserlandOf
    <3>1. q \in Paths /\ t[q] # Absent /\ q # <<>> /\ Front(q) = p
      BY <3>0, PathsOf
    <3> HIDE DEF q
    <3>2. HasCid(t[q])
      BY <1>4, <3>1, EntriesAreBlocks DEF Below
    <3>3. Cids(t)[q] = t[q].persisted_as
      <4>1. Cids(t)[q] = CidStep(t, Filled(t), Cids(t), q) /\ q \in Filled(t)
        BY <3>1, <3>2, CidsStep DEF Filled
      <4>. QED  BY <3>1, <4>1 DEF CidStep
    <3>4. t[q].persisted_as = c.entries[n]
      BY <2>2 DEF Names1, q
    <3>. QED  BY <3>3, <3>4 DEF q
  <2>. QED  BY <1>4, <2>1, <2>2, <2>3, <2>4 DEF Names1
<1>5. CASE t[p] # Absent /\ ~HasCid(t[p])
  <2> DEFINE E == [n \in Userland(t, p) |-> Cids(t)[Append(p, n)]]
  <2>1. c = Block(t[p], E)
    BY <1>1, <1>5 DEF CidStep, Filled
  <2>2. DOMAIN E = Userland(t, p) /\ \A n \in Userland(t, p) : E[n] = Cids(t)[Append(p, n)]
    OBVIOUS
  <2> HIDE DEF E
  <2>3. /\ c.type = t[p].type /\ c.content = t[p].content /\ c.previous = t[p].previous
        /\ c.mtime = t[p].mtime /\ c.entries = E
    BY <2>1 DEF Block
  <2>4. c.mtime \in Times /\ c.type \in {"dir", "file"}
    BY <1>3, <1>5, <2>3, NodeFields
  <2>5. c # Unset
    BY <2>4 DEF Unset
  <2>. QED  BY <1>5, <2>2, <2>3, <2>4, <2>5
<1>. QED  BY <1>2, <1>4, <1>5

(* The nodes of u are those of t as they are stored, up to their times.    *)
IsStored(t, u) ==
  /\ u = [p \in Paths |-> u[p]]
  /\ \A p \in Paths :
       IF t[p] = Absent THEN u[p] = Absent
       ELSE \E time \in Times :
              u[p] = Node(t[p].type, t[p].content, time, t[p].previous, Cids(t)[p])

LEMMA StoredIsSound ==
  ASSUME NEW store, AreBlocks(store), NEW t, Sound(store, t),
         NEW more, store \subseteq more,
         \A p \in Paths : t[p] # Absent => Cids(t)[p] \in more,
         NEW u, IsStored(t, u)
  PROVE  Sound(more, u)
<1>1. /\ t \in [Paths -> Nodes(store) \cup {Absent}] /\ IsDir(t, <<>>)
      /\ \A p \in Below : t[p] # Absent => IsDir(t, Front(p))
  BY DEF Sound, HasShape
<1>2. ASSUME NEW p \in Paths, t[p] # Absent
      PROVE  /\ u[p] \in Nodes(more)
             /\ u[p].type = t[p].type /\ u[p].content = t[p].content
             /\ u[p].previous = t[p].previous /\ u[p].persisted_as = Cids(t)[p]
  <2>1. PICK time \in Times :
           u[p] = Node(t[p].type, t[p].content, time, t[p].previous, Cids(t)[p])
    BY <1>2 DEF IsStored
  <2>2. t[p] \in Nodes(store)
    BY <1>1, <1>2
  <2>3. /\ t[p].type \in {"dir", "file"} /\ t[p].content \in Contents \cup {NoContent}
        /\ t[p].previous \in SUBSET more /\ Cids(t)[p] \in more \cup {Unset}
    BY <1>2, <2>2, NodeFields
  <2>. QED  BY <2>1, <2>3, NodeOf
<1>3. \A p \in Paths : t[p] = Absent => u[p] = Absent
  BY DEF IsStored
<1>4. \A p \in Paths : u[p] # Absent <=> t[p] # Absent
  BY <1>2, <1>3, NodeFields
<1>5. u \in [Paths -> Nodes(more) \cup {Absent}]
  <2>1. \A p \in Paths : u[p] \in Nodes(more) \cup {Absent}
    BY <1>2, <1>3
  <2>. QED  BY <2>1 DEF IsStored
<1>6. HasShape(more, u)
  BY <1>1, <1>2, <1>4, <1>5, PathsOf DEF HasShape, IsDir, Below, Absent
<1>7. ASSUME NEW p \in Paths, u[p] # Absent
      PROVE  Names1(u, p, u[p].persisted_as)
  <2>1. t[p] # Absent
    BY <1>4, <1>7
  <2>2. PICK c : c = Cids(t)[p]
    OBVIOUS
  <2>3. u[p].persisted_as = c
    BY <1>2, <2>1, <2>2
  <2>4. /\ c.type = u[p].type /\ c.content = u[p].content /\ c.previous = u[p].previous
        /\ DOMAIN c.entries = Userland(t, p)
        /\ \A n \in Userland(t, p) : c.entries[n] = Cids(t)[Append(p, n)]
    BY <1>2, <2>1, <2>2, CidsName
  <2>5. \A n : n \in Userland(u, p) <=> n \in Userland(t, p)
    BY <1>4, UserlandOf
  <2>6. Userland(u, p) = Userland(t, p)
    BY <2>5
  <2>7. \A n \in Userland(t, p) : u[Append(p, n)].persisted_as = Cids(t)[Append(p, n)]
    BY <1>2, UserlandOf
  <2>. QED  BY <2>3, <2>4, <2>6, <2>7 DEF Names1
<1>. QED  BY <1>6, <1>7 DEF Sound, CellsName

LEMMA PersistedIsStored ==
  ASSUME NEW store, AreBlocks(store), NEW t, Sound(store, t)
  PROVE  IsStored(t, Persisted(t))
<1>1. \A p \in Paths : Persisted(t)[p] = IF p \in Serialised(t)
                         THEN [t[p] EXCEPT !.persisted_as = Cids(t)[p]] ELSE t[p]
  BY DEF Persisted
<1>2. Persisted(t) = [p \in Paths |-> Persisted(t)[p]]
  BY DEF Persisted
<1>3. ASSUME NEW p \in Paths, t[p] = Absent PROVE Persisted(t)[p] = Absent
  BY <1>1, <1>3 DEF Serialised
<1>4. ASSUME NEW p \in Paths, t[p] # Absent
      PROVE  \E time \in Times : Persisted(t)[p] =
               Node(t[p].type, t[p].content, time, t[p].previous, Cids(t)[p])
  <2>1. t[p] \in Nodes(store)
    BY <1>4 DEF Sound, HasShape
  <2>2. CASE p \in Serialised(t)
    <3>1. \A r, a, b, m, q, c :
             [Node(a, b, m, q, c) EXCEPT !.persisted_as = r] = Node(a, b, m, q, r)
      BY DEF Node
    <3>2. [t[p] EXCEPT !.persisted_as = Cids(t)[p]] =
            Node(t[p].type, t[p].content, t[p].mtime, t[p].previous, Cids(t)[p])
      BY <2>1, <3>1, NodeFields
    <3>. QED  BY <1>1, <2>1, <2>2, <3>2, NodeFields
  <2>3. CASE p \notin Serialised(t)
    <3>1. HasCid(t[p])
      BY <1>4, <2>3, UnreachedIsFilled
    <3>2. Cids(t)[p] = t[p].persisted_as
      BY <1>4, <3>1, CidsName
    <3>3. /\ t[p] = Node(t[p].type, t[p].content, t[p].mtime, t[p].previous, Cids(t)[p])
          /\ t[p].mtime \in Times
      BY <2>1, <3>2, NodeFields
    <3>4. Persisted(t)[p] = t[p]
      BY <1>1, <2>3
    <3>. QED  BY <3>3, <3>4
  <2>. QED  BY <2>2, <2>3
<1>. QED  BY <1>2, <1>3, <1>4 DEF IsStored

AtStep(c, at, p) ==
  IF p = <<>> THEN c
  ELSE LET dir == at[Front(p)]
       IN IF dir # Unset /\ Last(p) \in DOMAIN dir.entries
          THEN dir.entries[Last(p)] ELSE Unset

(* Loading what was stored finds, at each path, what was stored there.     *)
LEMMA LoadedIsStored ==
  ASSUME NEW store, AreBlocks(store), NEW t, Sound(store, t)
  PROVE  IsStored(t, Loaded(RootCid(t)))
<1> DEFINE F(at) == [p \in Paths |-> AtStep(RootCid(t), at, p)]
           at == CHOOSE h : h = F(h)
<1>1. ASSUME NEW p \in Paths PROVE Cids(t)[p] = AtStep(RootCid(t), Cids(t), p)
  <2>1. CASE p = <<>>
    BY <2>1 DEF AtStep, RootCid
  <2>2. CASE p # <<>>
    <3> DEFINE f == Front(p)
               n == Last(p)
    <3>1. f \in Paths /\ p = Append(f, n)
      BY <2>2, PathsOf
    <3>2. PICK dir : dir = Cids(t)[f]
      OBVIOUS
    <3>3. AtStep(RootCid(t), Cids(t), p) =
            IF dir # Unset /\ n \in DOMAIN dir.entries THEN dir.entries[n] ELSE Unset
      BY <2>2, <3>2 DEF AtStep
    <3>4. t[p] # Absent => t[f] # Absent
      BY <2>2 DEF Sound, HasShape, Below, IsDir, Absent
    <3> HIDE DEF f, n
    <3>5. n \in Userland(t, f) <=> t[p] # Absent
      BY <3>1, UserlandOf
    <3>6. t[p] = Absent => Cids(t)[p] = Unset
      BY CidsName
    <3>7. CASE t[f] = Absent
      <4>1. dir = Unset
        BY <3>1, <3>2, <3>7, CidsName
      <4>. QED  BY <3>3, <3>4, <3>6, <3>7, <4>1
    <3>8. CASE t[f] # Absent
      <4>1. /\ dir # Unset /\ DOMAIN dir.entries = Userland(t, f)
            /\ \A m \in Userland(t, f) : dir.entries[m] = Cids(t)[Append(f, m)]
        BY <3>1, <3>2, <3>8, CidsName
      <4>. QED  BY <3>1, <3>3, <3>5, <3>6, <4>1
    <3>. QED  BY <3>7, <3>8
  <2>. QED  BY <2>1, <2>2
<1>2. Cids(t) = F(Cids(t))
  BY <1>1, CidsStep
<1>3. at = F(at)
  <2> HIDE DEF F
  <2>. QED  BY <1>2
<1>4. Loaded(RootCid(t)) = [p \in Paths |-> IF at[p] = Unset THEN Absent ELSE AsNode(at[p])]
  BY DEF Loaded, AtStep
<1> HIDE DEF at
<1>5. \A p \in Paths : at[p] = AtStep(RootCid(t), at, p)
  BY <1>3
<1> HIDE DEF F
<1>6. ASSUME NEW p \in Paths PROVE at[p] = Cids(t)[p]
  <2> DEFINE S == {k \in Nat : \A q \in Paths : Len(q) = k => at[q] = Cids(t)[q]}
  <2>1. 0 \in S
    <3>1. \A q \in Paths : Len(q) = 0 => q = <<>>
      BY PathsOf, EmptySeq
    <3>. QED  BY <1>1, <1>5, <3>1 DEF AtStep
  <2>2. p \in Seq(Names) /\ Len(p) \in Nat
    BY PathsOf, LenProperties
  <2>3. ASSUME NEW i \in 0 .. Len(p) - 1, i \in S PROVE i + 1 \in S
    <3> SUFFICES ASSUME NEW q \in Paths, Len(q) = i + 1 PROVE at[q] = Cids(t)[q]
      OBVIOUS
    <3>1. q # <<>> /\ q \in Seq(Names) /\ Front(q) \in Paths
      BY PathsOf, EmptySeq
    <3>2. Len(Front(q)) = i
      BY <3>1, FrontOf
    <3>3. at[Front(q)] = Cids(t)[Front(q)]
      BY <2>3, <3>1, <3>2
    <3>. QED  BY <1>1, <1>5, <3>1, <3>3 DEF AtStep
  <2> HIDE DEF S
  <2>4. \A i \in 0 .. Len(p) : i \in S
    BY <2>1, <2>2, <2>3, HoldsUpTo
  <2>5. Len(p) \in S
    BY <2>2, <2>4
  <2>. QED  BY <2>5 DEF S
<1>7. PICK l : l = Loaded(RootCid(t))
  OBVIOUS
<1>8. \A p \in Paths : l[p] = IF Cids(t)[p] = Unset THEN Absent ELSE AsNode(Cids(t)[p])
  BY <1>4, <1>6, <1>7
<1>9. ASSUME NEW p \in Paths, t[p] # Absent
      PROVE  \E time \in Times :
               l[p] = Node(t[p].type, t[p].content, time, t[p].previous, Cids(t)[p])
  <2>1. PICK c : c = Cids(t)[p]
    OBVIOUS
  <2>2. /\ c # Unset /\ c.type = t[p].type /\ c.content = t[p].content
        /\ c.previous = t[p].previous /\ c.mtime \in Times
    BY <1>9, <2>1, CidsName
  <2>. QED  BY <1>8, <2>1, <2>2 DEF AsNode
<1>10. \A p \in Paths : t[p] = Absent => l[p] = Absent
  BY <1>8, CidsName
<1>11. l = [p \in Paths |-> l[p]]
  BY <1>4, <1>7
<1>12. IsStored(t, l)
  BY <1>9, <1>10, <1>11 DEF IsStored
<1>. QED  BY <1>7, <1>12

--------------------------------------------------------------------------------
(* Reconciling.                                                            *)

FateStep(ours, theirs, orders, fate, p) ==
  IF p = <<>> THEN "merge"
  ELSE IF fate[Front(p)] # "merge" THEN fate[Front(p)]
  ELSE IF theirs[p] = Absent THEN "ours"
  ELSE IF ours[p] = Absent   THEN "theirs"
  ELSE Side(orders[p], ours[p], theirs[p])

LEMMA SameFateStep ==
  ASSUME NEW ours, NEW theirs, NEW orders, NEW f, NEW g, NEW p \in Paths,
         p # <<>> => f[Front(p)] = g[Front(p)]
  PROVE  FateStep(ours, theirs, orders, f, p) = FateStep(ours, theirs, orders, g, p)
<1>1. CASE p = <<>>
  BY <1>1 DEF FateStep
<1>2. CASE p # <<>>
  <2>1. f[Front(p)] = g[Front(p)]
    BY <1>2
  <2>. QED  BY <2>1 DEF FateStep
<1>. QED  BY <1>1, <1>2

(* The fates are defined: from the root down.                              *)
LEMMA FatesExist ==
  ASSUME NEW ours, NEW theirs, NEW orders
  PROVE  \E g : g = [p \in Paths |-> FateStep(ours, theirs, orders, g, p)]
<1> DEFINE G(f, p) == FateStep(ours, theirs, orders, f, p)
<1>1. PICK deepest \in Paths : \A p \in Paths : Len(p) <= Len(deepest)
  BY DeepestOf
<1> DEFINE d == Len(deepest)
           S == {k \in Nat : \E f : \A p \in Paths : Len(p) < k => f[p] = G(f, p)}
<1>2. \A p \in Paths : Len(p) \in Nat
  BY PathsOf, LenProperties
<1>3. d \in Nat /\ \A p \in Paths : Len(p) <= d
  BY <1>1, <1>2
<1>4. ASSUME NEW f, NEW g, NEW p \in Paths, p # <<>> => f[Front(p)] = g[Front(p)]
      PROVE  G(f, p) = G(g, p)
  BY <1>4, SameFateStep
<1> HIDE DEF d, G
<1>5. 0 \in S
  BY <1>2, <1>3
<1>6. ASSUME NEW i \in 0 .. (d + 1) - 1, i \in S PROVE i + 1 \in S
  <2>1. PICK f : \A p \in Paths : Len(p) < i => f[p] = G(f, p)
    BY <1>6
  <2> DEFINE g == [p \in Paths |-> IF Len(p) < i THEN f[p] ELSE G(f, p)]
  <2>2. \A p \in Paths : g[p] = G(f, p)
    BY <2>1
  <2>3. \A p \in Paths : Len(p) < i => g[p] = f[p]
    OBVIOUS
  <2> HIDE DEF g
  <2>4. ASSUME NEW p \in Paths, Len(p) < i + 1 PROVE g[p] = G(g, p)
    <3>1. ASSUME p # <<>> PROVE g[Front(p)] = f[Front(p)]
      <4>1. p \in Seq(Names) /\ Front(p) \in Paths
        BY <3>1, PathsOf
      <4>2. Len(Front(p)) = Len(p) - 1
        BY <3>1, <4>1, FrontOf
      <4>3. Len(Front(p)) < i
        BY <1>2, <2>4, <4>2
      <4>. QED  BY <2>3, <4>1, <4>3
    <3>. QED  BY <1>4, <2>2, <3>1
  <2>5. \E h : \A p \in Paths : Len(p) < i + 1 => h[p] = G(h, p)
    BY <2>4
  <2>. QED  BY <2>5
<1> HIDE DEF S
<1>7. \A i \in 0 .. d + 1 : i \in S
  <2>1. d + 1 \in Nat
    BY <1>3
  <2>. QED  BY <1>5, <1>6, <2>1, HoldsUpTo
<1>8. d + 1 \in S
  BY <1>3, <1>7
<1>9. PICK f : \A p \in Paths : Len(p) < d + 1 => f[p] = G(f, p)
  BY <1>8 DEF S
<1>10. \A p \in Paths : f[p] = G(f, p)
  BY <1>2, <1>3, <1>9
<1> DEFINE g == [p \in Paths |-> f[p]]
<1>11. \A p \in Paths : g[p] = f[p]
  OBVIOUS
<1> HIDE DEF g
<1>12. \A p \in Paths : f[p] = G(g, p)
  BY <1>4, <1>10, <1>11, PathsOf
<1>13. g = [p \in Paths |-> G(g, p)]
  BY <1>12 DEF g
<1>. QED  BY <1>13 DEF G

LEMMA FatesStep ==
  ASSUME NEW ours, NEW theirs, NEW orders, NEW fate, fate = Fates(ours, theirs, orders)
  PROVE  \A p \in Paths : fate[p] = FateStep(ours, theirs, orders, fate, p)
<1> DEFINE F(g) == [p \in Paths |-> FateStep(ours, theirs, orders, g, p)]
<1>1. \E g : g = F(g)
  BY FatesExist
<1>2. Fates(ours, theirs, orders) = CHOOSE g : g = F(g)
  BY DEF Fates, FateStep
<1> HIDE DEF F
<1>3. fate = F(fate)
  BY <1>1, <1>2
<1>. QED  BY <1>3 DEF F

(* Only what both sides have, and as a node of one kind, is merged.        *)
IsFate(ours, theirs, fate, p) ==
  \/ fate[p] = "ours"
  \/ fate[p] = "theirs"
  \/ /\ fate[p] = "merge" /\ ours[p] # Absent /\ theirs[p] # Absent
     /\ ours[p].type = theirs[p].type

LEMMA FatesAre ==
  ASSUME NEW ours, NEW theirs, NEW orders, NEW fate, fate = Fates(ours, theirs, orders),
         IsDir(ours, <<>>), IsDir(theirs, <<>>), NEW p \in Paths
  PROVE  IsFate(ours, theirs, fate, p)
<1> DEFINE S == {k \in Nat : \A q \in Paths : Len(q) = k => IsFate(ours, theirs, fate, q)}
<1>1. \A q \in Paths : fate[q] = FateStep(ours, theirs, orders, fate, q)
  BY FatesStep
<1>2. 0 \in S
  <2>1. \A q \in Paths : Len(q) = 0 => q = <<>>
    BY PathsOf, EmptySeq
  <2>2. IsFate(ours, theirs, fate, <<>>)
    BY <1>1, PathsAssumption DEF FateStep, IsFate, IsDir, Absent
  <2>. QED  BY <2>1, <2>2
<1>3. p \in Seq(Names) /\ Len(p) \in Nat
  BY PathsOf, LenProperties
<1>4. ASSUME NEW i \in 0 .. Len(p) - 1, i \in S PROVE i + 1 \in S
  <2> SUFFICES ASSUME NEW q \in Paths, Len(q) = i + 1 PROVE IsFate(ours, theirs, fate, q)
    OBVIOUS
  <2>1. q # <<>> /\ q \in Seq(Names) /\ Front(q) \in Paths
    BY PathsOf, EmptySeq
  <2>2. Len(Front(q)) = i
    BY <2>1, FrontOf
  <2>3. IsFate(ours, theirs, fate, Front(q))
    BY <1>4, <2>1, <2>2
  <2>4. fate[q] = FateStep(ours, theirs, orders, fate, q)
    BY <1>1
  <2>5. CASE fate[Front(q)] # "merge"
    BY <2>1, <2>3, <2>4, <2>5 DEF FateStep, IsFate
  <2>6. CASE fate[Front(q)] = "merge"
    BY <2>1, <2>4, <2>6 DEF FateStep, IsFate, Side
  <2>. QED  BY <2>5, <2>6
<1> HIDE DEF S
<1>5. \A i \in 0 .. Len(p) : i \in S
  BY <1>2, <1>3, <1>4, HoldsUpTo
<1>6. Len(p) \in S
  BY <1>3, <1>5
<1>. QED  BY <1>6 DEF S

AllFilled(t) == \A p \in Paths : t[p] # Absent => HasCid(t[p])

LEMMA MergedNodeOf ==
  ASSUME NEW store, NEW our \in Nodes(store), NEW other \in Nodes(store),
         HasCid(our), HasCid(other)
  PROVE  /\ MergedNode(our, other) \in Nodes(store)
         /\ MergedNode(our, other).type = our.type
         /\ MergedNode(our, other).persisted_as = Unset
<1>1. /\ our.type \in {"dir", "file"} /\ our.content \in Contents \cup {NoContent}
      /\ other.content \in Contents \cup {NoContent}
      /\ our.mtime \in Times /\ other.mtime \in Times
      /\ our.previous \subseteq store /\ other.previous \subseteq store
      /\ our.persisted_as \in store /\ other.persisted_as \in store
  BY NodeFields DEF HasCid
<1>2. MergedPrevious(our, other) \in SUBSET store
  BY <1>1 DEF MergedPrevious
<1> DEFINE winner == IF our.content <= other.content THEN our ELSE other
           mtime  == IF our.content = other.content
                     THEN Lower(our.mtime, other.mtime) ELSE winner.mtime
<1>3. winner.content \in Contents \cup {NoContent} /\ mtime \in Times
  BY <1>1 DEF Lower
<1>4. MergedNode(our, other) =
        Node(our.type, winner.content, mtime, MergedPrevious(our, other), Unset)
  BY DEF MergedNode
<1>5. Unset \in store \cup {Unset}
  OBVIOUS
<1> DEFINE type     == our.type
           content  == winner.content
           previous == MergedPrevious(our, other)
           merged   == Node(type, content, mtime, previous, Unset)
<1>6. /\ type \in {"dir", "file"} /\ content \in Contents \cup {NoContent}
      /\ previous \in SUBSET store
  BY <1>1, <1>2, <1>3
<1> HIDE DEF winner, type, content, previous, mtime
<1>7. merged \in Nodes(store) /\ merged.type = type /\ merged.persisted_as = Unset
  BY <1>3, <1>5, <1>6, NodeOf
<1>. QED  BY <1>4, <1>7 DEF type, content, previous

LEMMA MergedIsSound ==
  ASSUME NEW store, NEW ours, NEW theirs, Sound(store, ours), Sound(store, theirs),
         AllFilled(ours), AllFilled(theirs), NEW orders,
         NEW fate, fate = Fates(ours, theirs, orders),
         NEW u, u = [p \in Paths |-> CASE fate[p] = "ours"   -> ours[p]
                                       [] fate[p] = "theirs" -> theirs[p]
                                       [] OTHER -> MergedNode(ours[p], theirs[p])]
  PROVE  Sound(store, u)
<1>1. /\ ours \in [Paths -> Nodes(store) \cup {Absent}] /\ CellsName(ours)
      /\ theirs \in [Paths -> Nodes(store) \cup {Absent}] /\ CellsName(theirs)
      /\ IsDir(ours, <<>>) /\ IsDir(theirs, <<>>)
      /\ \A p \in Below : ours[p] # Absent => IsDir(ours, Front(p))
      /\ \A p \in Below : theirs[p] # Absent => IsDir(theirs, Front(p))
  BY DEF Sound, HasShape
<1>2. \A p \in Paths : IsFate(ours, theirs, fate, p)
  BY <1>1, FatesAre
<1>3. \A p \in Paths : fate[p] = FateStep(ours, theirs, orders, fate, p)
  BY FatesStep
<1>4. \A p \in Below : fate[Front(p)] # "merge" => fate[p] = fate[Front(p)]
  BY <1>3 DEF FateStep, Below
<1>5. ASSUME NEW p \in Paths
      PROVE  /\ u[p] \in Nodes(store) \cup {Absent}
             /\ fate[p] = "ours" => u[p] = ours[p]
             /\ fate[p] = "theirs" => u[p] = theirs[p]
             /\ fate[p] = "merge" => /\ u[p].type = ours[p].type
                                     /\ u[p].persisted_as = Unset
  <2>1. CASE fate[p] = "ours"
    BY <1>1, <2>1
  <2>2. CASE fate[p] = "theirs"
    BY <1>1, <2>2
  <2>3. CASE fate[p] = "merge"
    <3>1. /\ ours[p] \in Nodes(store) /\ theirs[p] \in Nodes(store)
          /\ HasCid(ours[p]) /\ HasCid(theirs[p])
      BY <1>1, <1>2, <2>3 DEF IsFate, AllFilled
    <3>2. u[p] = MergedNode(ours[p], theirs[p])
      BY <2>3
    <3>. QED  BY <2>3, <3>1, <3>2, MergedNodeOf
  <2>. QED  BY <1>2, <2>1, <2>2, <2>3 DEF IsFate
<1>6. u \in [Paths -> Nodes(store) \cup {Absent}]
  BY <1>5
<1>7. IsDir(u, <<>>)
  BY <1>1, <1>3, <1>5, PathsAssumption DEF FateStep, IsDir
<1>8. ASSUME NEW p \in Below, u[p] # Absent PROVE IsDir(u, Front(p))
  <2>1. p \in Paths /\ p # <<>> /\ Front(p) \in Paths
    BY PathsOf DEF Below
  <2>2. CASE fate[Front(p)] # "merge"
    BY <1>1, <1>2, <1>4, <1>5, <1>8, <2>1, <2>2 DEF IsFate, IsDir
  <2>3. CASE fate[Front(p)] = "merge"
    <3>1. ours[p] # Absent \/ theirs[p] # Absent
      BY <1>2, <1>5, <1>8, <2>1 DEF IsFate
    <3>2. ours[Front(p)].type = "dir"
      BY <1>1, <1>2, <2>1, <2>3, <3>1 DEF IsFate, IsDir
    <3>. QED  BY <1>5, <2>1, <2>3, <3>2 DEF IsDir
  <2>. QED  BY <2>2, <2>3
<1>9. ASSUME NEW p \in Paths, u[p] # Absent, HasCid(u[p])
      PROVE  Names1(u, p, u[p].persisted_as)
  <2>1. fate[p] # "merge"
    BY <1>5, <1>9 DEF HasCid
  <2>2. \A n : Append(p, n) \in Paths => fate[Append(p, n)] = fate[p]
    BY <1>4, <2>1, PathsOf DEF Below
  <2>3. CASE fate[p] = "ours"
    <3>1. \A n : Append(p, n) \in Paths => u[Append(p, n)] = ours[Append(p, n)]
      BY <1>5, <2>2, <2>3
    <3>2. u[p] = ours[p] /\ Names1(ours, p, u[p].persisted_as)
      BY <1>1, <1>5, <1>9, <2>3 DEF CellsName
    <3>3. PICK c : c = u[p].persisted_as
      OBVIOUS
    <3>4. /\ u[p].type = ours[p].type /\ u[p].content = ours[p].content
          /\ u[p].previous = ours[p].previous
          /\ \A n : (Append(p, n) \in Paths /\ u[Append(p, n)] # Absent) <=>
                  (Append(p, n) \in Paths /\ ours[Append(p, n)] # Absent)
          /\ \A n : Append(p, n) \in Paths /\ ours[Append(p, n)] # Absent =>
                  u[Append(p, n)].persisted_as = ours[Append(p, n)].persisted_as
          /\ Names1(ours, p, c)
      BY <3>1, <3>2, <3>3
    <3>5. Names1(u, p, c)
      BY <3>4, NamesMove
    <3>. QED  BY <3>3, <3>5
  <2>4. CASE fate[p] = "theirs"
    <3>1. \A n : Append(p, n) \in Paths => u[Append(p, n)] = theirs[Append(p, n)]
      BY <1>5, <2>2, <2>4
    <3>2. u[p] = theirs[p] /\ Names1(theirs, p, u[p].persisted_as)
      BY <1>1, <1>5, <1>9, <2>4 DEF CellsName
    <3>3. PICK c : c = u[p].persisted_as
      OBVIOUS
    <3>4. /\ u[p].type = theirs[p].type /\ u[p].content = theirs[p].content
          /\ u[p].previous = theirs[p].previous
          /\ \A n : (Append(p, n) \in Paths /\ u[Append(p, n)] # Absent) <=>
                  (Append(p, n) \in Paths /\ theirs[Append(p, n)] # Absent)
          /\ \A n : Append(p, n) \in Paths /\ theirs[Append(p, n)] # Absent =>
                  u[Append(p, n)].persisted_as = theirs[Append(p, n)].persisted_as
          /\ Names1(theirs, p, c)
      BY <3>1, <3>2, <3>3
    <3>5. Names1(u, p, c)
      BY <3>4, NamesMove
    <3>. QED  BY <3>3, <3>5
  <2>. QED  BY <1>2, <2>1, <2>3, <2>4 DEF IsFate
<1>. QED  BY <1>6, <1>7, <1>8, <1>9 DEF Sound, HasShape, CellsName

LEMMA ReconciledIsSound ==
  ASSUME NEW store, NEW ours, NEW theirs, Sound(store, ours), Sound(store, theirs),
         AllFilled(ours), AllFilled(theirs)
  PROVE  Sound(store, Reconciliation(store, ours, theirs).tree)
<1>1. PICK orders : orders = Orders(store, ours, theirs)
  OBVIOUS
<1>2. PICK fate : fate = Fates(ours, theirs, orders)
  OBVIOUS
<1>3. PICK merged : merged = [p \in Paths |-> CASE fate[p] = "ours"   -> ours[p]
                                [] fate[p] = "theirs" -> theirs[p]
                                [] OTHER -> MergedNode(ours[p], theirs[p])]
  OBVIOUS
<1>4. Sound(store, merged)
  BY <1>2, <1>3, MergedIsSound
<1>5. Reconciliation(store, ours, theirs).tree \in {ours, theirs, merged}
  BY <1>1, <1>2, <1>3 DEF Reconciliation
<1>. QED  BY <1>4, <1>5

--------------------------------------------------------------------------------
(* The invariant.                                                          *)

LEMMA StoredWithBlocks ==
  ASSUME NEW t, AreBlocks(blocks), Sound(blocks, t),
         NEW more, more = BlocksWith(t)
  PROVE  /\ blocks \subseteq more /\ AreBlocks(more)
         /\ \A p \in Paths : t[p] # Absent => Cids(t)[p] \in more
         /\ RootCid(t) \in more
<1>1. more = blocks \cup {Cids(t)[p] : p \in Serialised(t)}
  BY DEF BlocksWith
<1>2. ASSUME NEW p \in Paths, t[p] # Absent PROVE Cids(t)[p] \in more
  <2>1. CASE HasCid(t[p])
    BY <1>1, <1>2, <2>1, CidsName
  <2>2. CASE ~HasCid(t[p])
    <3>1. p \in Serialised(t)
      BY <1>2, <2>2, UnreachedIsFilled
    <3>. QED  BY <1>1, <3>1
  <2>. QED  BY <2>1, <2>2
<1>3. ASSUME NEW c \in more
      PROVE  /\ c.type \in {"dir", "file"} /\ c.mtime \in Times
             /\ \A n \in DOMAIN c.entries : c.entries[n] \in more
  <2>1. CASE c \in blocks
    BY <1>1, <2>1 DEF AreBlocks
  <2>2. ASSUME NEW p \in Serialised(t), c = Cids(t)[p]
        PROVE  /\ c.type \in {"dir", "file"} /\ c.mtime \in Times
               /\ \A n \in DOMAIN c.entries : c.entries[n] \in more
    <3>1. p \in Paths /\ t[p] # Absent
      BY DEF Serialised
    <3>2. t[p] \in Nodes(blocks)
      BY <3>1 DEF Sound, HasShape
    <3>3. /\ c.type = t[p].type /\ c.mtime \in Times /\ DOMAIN c.entries = Userland(t, p)
          /\ \A n \in Userland(t, p) : c.entries[n] = Cids(t)[Append(p, n)]
      BY <2>2, <3>1, CidsName
    <3>4. \A n \in Userland(t, p) : Append(p, n) \in Paths /\ t[Append(p, n)] # Absent
      BY <3>1, UserlandOf
    <3>5. \A n \in Userland(t, p) : Cids(t)[Append(p, n)] \in more
      BY <1>2, <3>4
    <3>. QED  BY <3>2, <3>3, <3>5, NodeFields
  <2>. QED  BY <1>1, <2>1, <2>2
<1>4. t[<<>>] # Absent
  BY DEF Sound, HasShape, IsDir, Absent
<1>. QED  BY <1>1, <1>2, <1>3, <1>4, PathsAssumption DEF AreBlocks, RootCid

LEMMA LoadedIsFilled ==
  ASSUME NEW c
  PROVE  AllFilled(Loaded(c))
<1> DEFINE at == CHOOSE h : h = [p \in Paths |-> AtStep(c, h, p)]
<1>1. Loaded(c) = [p \in Paths |-> IF at[p] = Unset THEN Absent ELSE AsNode(at[p])]
  BY DEF Loaded, AtStep
<1> HIDE DEF at
<1>2. \A p \in Paths : at[p] # Unset => AsNode(at[p]).persisted_as = at[p]
  BY DEF AsNode, Node
<1>. QED  BY <1>1, <1>2 DEF AllFilled, HasCid

LEMMA PersistedIsFilled ==
  ASSUME NEW store, AreBlocks(store), NEW t, Sound(store, t)
  PROVE  AllFilled(Persisted(t))
<1> SUFFICES ASSUME NEW p \in Paths, Persisted(t)[p] # Absent
             PROVE  HasCid(Persisted(t)[p])
  BY DEF AllFilled
<1>1. PICK u : u = Persisted(t)
  OBVIOUS
<1>2. IsStored(t, u)
  BY <1>1, PersistedIsStored
<1>3. t[p] # Absent
  BY <1>1, <1>2 DEF IsStored
<1>4. PICK time \in Times :
         u[p] = Node(t[p].type, t[p].content, time, t[p].previous, Cids(t)[p])
  BY <1>2, <1>3 DEF IsStored
<1>5. u[p].persisted_as = Cids(t)[p] /\ Cids(t)[p] # Unset
  BY <1>3, <1>4, CidsName DEF Node
<1>. QED  BY <1>1, <1>5 DEF HasCid

LEMMA InitHolds == Init => IInv
<1> SUFFICES ASSUME NEW time \in Times,
                    blocks = {RootCid(NewTree(time))}, roots = {RootCid(NewTree(time))},
                    tree = [r \in Replicas |-> Persisted(NewTree(time))]
             PROVE  IInv
  BY DEF Init
<1>1. PICK t : t = NewTree(time)
  OBVIOUS
<1>2. \A p \in Paths : t[p] = IF p = <<>> THEN NewDirectory(time) ELSE Absent
  BY <1>1 DEF NewTree
<1>3. NewDirectory(time) \in Nodes({}) /\ NewDirectory(time).type = "dir"
      /\ NewDirectory(time).persisted_as = Unset /\ NewDirectory(time) # Absent
  BY NewNodes, NodeFields
<1>4. Sound({}, t)
  <2>1. t \in [Paths -> Nodes({}) \cup {Absent}]
    BY <1>1, <1>3 DEF NewTree
  <2>. QED  BY <1>2, <1>3, <2>1, PathsAssumption
            DEF Sound, HasShape, CellsName, HasCid, IsDir, Below
<1>5. AreBlocks({})
  BY DEF AreBlocks
<1>6. PICK c : c = RootCid(t)
  OBVIOUS
<1>7. /\ c # Unset /\ c.type = "dir" /\ c.mtime \in Times
      /\ DOMAIN c.entries = Userland(t, <<>>) /\ c = Cids(t)[<<>>]
  BY <1>2, <1>3, <1>4, <1>5, <1>6, CidsName, PathsAssumption DEF RootCid
<1>8. \A n : n \notin Userland(t, <<>>)
  <2>1. <<>> \in Paths
    BY PathsAssumption
  <2>2. \A n : n \in Userland(t, <<>>) <=>
                Append(<<>>, n) \in Paths /\ t[Append(<<>>, n)] # Absent
    BY <2>1, UserlandOf
  <2>3. \A n : Append(<<>>, n) # <<>>
    BY <2>1, PathsOf
  <2>. QED  BY <1>2, <2>2, <2>3
<1>9. AreBlocks({c})
  BY <1>7, <1>8 DEF AreBlocks
<1>10. \A p \in Paths : t[p] # Absent => Cids(t)[p] \in {c}
  BY <1>2, <1>7
<1>11. Sound({c}, Persisted(t)) /\ Sound({c}, Loaded(c))
  <2>1. IsStored(t, Persisted(t)) /\ IsStored(t, Loaded(c))
    BY <1>4, <1>5, <1>6, PersistedIsStored, LoadedIsStored
  <2>2. {} \subseteq {c}
    OBVIOUS
  <2>. QED  BY <1>4, <1>5, <1>10, <2>1, <2>2, StoredIsSound
<1>. QED  BY <1>1, <1>6, <1>9, <1>11 DEF IInv, Sound, HasShape

LEMMA EditHolds ==
  ASSUME IInv, NEW r \in Replicas, NEW t, Sound(blocks, t), Becomes(r, t)
  PROVE  IInv'
<1>1. /\ tree' = [tree EXCEPT ![r] = t] /\ blocks' = blocks /\ roots' = roots
      /\ tree \in [Replicas -> [Paths -> Nodes(blocks) \cup {Absent}]]
      /\ t \in [Paths -> Nodes(blocks) \cup {Absent}]
  BY DEF Becomes, IInv, Sound, HasShape
<1>2. tree' \in [Replicas -> [Paths -> Nodes(blocks) \cup {Absent}]]
  BY <1>1
<1>3. \A s \in Replicas : Sound(blocks, tree'[s])
  BY <1>1 DEF IInv
<1>. QED  BY <1>1, <1>2, <1>3 DEF IInv

LEMMA StoreHolds ==
  ASSUME IInv, NEW r \in Replicas, NEW t, Sound(BlocksWith(tree[r]), t),
         tree' = [tree EXCEPT ![r] = t], blocks' = BlocksWith(tree[r]),
         roots' = roots \cup {RootCid(tree[r])}
  PROVE  IInv'
<1>1. PICK more : more = BlocksWith(tree[r])
  OBVIOUS
<1>2. Sound(blocks, tree[r]) /\ AreBlocks(blocks)
  BY DEF IInv
<1>3. /\ blocks \subseteq more /\ AreBlocks(more) /\ RootCid(tree[r]) \in more
      /\ \A p \in Paths : tree[r][p] # Absent => Cids(tree[r])[p] \in more
  BY <1>1, <1>2, StoredWithBlocks
<1>4. Sound(more, Loaded(RootCid(tree[r])))
  BY <1>2, <1>3, LoadedIsStored, StoredIsSound
<1>5. \A c \in roots' : Sound(more, Loaded(c))
  BY <1>3, <1>4, SoundAmongMore DEF IInv
<1>6. \A s \in Replicas : Sound(more, tree'[s])
  BY <1>1, <1>3, SoundAmongMore DEF IInv
<1>7. tree' \in [Replicas -> [Paths -> Nodes(more) \cup {Absent}]]
  <2>1. tree' = [s \in Replicas |-> tree'[s]]
    BY DEF IInv
  <2>2. \A s \in Replicas : tree'[s] \in [Paths -> Nodes(more) \cup {Absent}]
    BY <1>6 DEF Sound, HasShape
  <2>. QED  BY <2>1, <2>2
<1>. QED  BY <1>1, <1>3, <1>5, <1>6, <1>7 DEF IInv

LEMMA StepHolds == IInv /\ [Next]_vars => IInv'
<1> SUFFICES ASSUME IInv, [Next]_vars PROVE IInv'
  OBVIOUS
<1>1. CASE UNCHANGED vars
  BY <1>1 DEF vars, IInv
<1>2. ASSUME NEW r \in Replicas, NEW time \in Times, NEW p \in Below, NEW x \in Contents,
             Write(r, p, x, time)
      PROVE  IInv'
  <2>1. Sound(blocks, Written(tree[r], p, x, time))
    BY WithFileIsSound DEF IInv, Written
  <2>. QED  BY <1>2, <2>1, EditHolds DEF Write
<1>3. ASSUME NEW r \in Replicas, NEW time \in Times, NEW p \in Below,
             OpenFileMut(r, p, time)
      PROVE  IInv'
  <2>1. Sound(blocks, tree[r])
    BY DEF IInv
  <2>2. IsFile(tree[r], p) => tree[r][p].content \in Contents \cup {NoContent}
    <3>1. tree[r][p] \in Nodes(blocks) \cup {Absent}
      BY <2>1 DEF Sound, HasShape, Below
    <3>. QED  BY <3>1, NodeFields DEF IsFile, Absent
  <2>3. NoContent \in Contents \cup {NoContent}
    OBVIOUS
  <2>4. Sound(blocks, Opened(tree[r], p, time))
    BY <2>1, <2>2, <2>3, WithFileIsSound DEF Opened
  <2>. QED  BY <1>3, <2>4, EditHolds DEF OpenFileMut
<1>4. ASSUME NEW r \in Replicas, NEW time \in Times, NEW p \in Paths, Mkdir(r, p, time)
      PROVE  IInv'
  <2>1. Sound(blocks, MadeDir(tree[r], p, time))
    BY MadeDirIsSound DEF IInv
  <2>. QED  BY <1>4, <2>1, EditHolds DEF Mkdir
<1>5. ASSUME NEW r \in Replicas, NEW time \in Times, NEW from \in Below, NEW to \in Below,
             BasicMv(r, from, to, time)
      PROVE  IInv'
  <2>1. Sound(blocks, Moved(tree[r], from, to, time))
    BY <1>5, MovedIsSound DEF IInv, BasicMv
  <2>. QED  BY <1>5, <2>1, EditHolds DEF BasicMv
<1>6. ASSUME NEW r \in Replicas, NEW time \in Times, NEW from \in Below, NEW to \in Below,
             Cp(r, from, to, time)
      PROVE  IInv'
  <2>1. Sound(blocks, Copied(tree[r], from, to, time))
    BY <1>6, MovedIsSound DEF IInv, Cp
  <2>. QED  BY <1>6, <2>1, EditHolds DEF Cp
<1>7. ASSUME NEW r \in Replicas, NEW p \in Below, Rm(r, p) PROVE IInv'
  <2>1. Sound(blocks, Removed(tree[r], p))
    BY RemovedIsSound DEF IInv
  <2>. QED  BY <1>7, <2>1, EditHolds DEF Rm
<1>8. ASSUME NEW r \in Replicas PROVE Sound(BlocksWith(tree[r]), Persisted(tree[r]))
  <2>1. Sound(blocks, tree[r]) /\ AreBlocks(blocks)
    BY DEF IInv
  <2>. QED  BY <2>1, StoredWithBlocks, PersistedIsStored, StoredIsSound
<1>9. ASSUME NEW r \in Replicas, Store(r) PROVE IInv'
  BY <1>8, <1>9, StoreHolds DEF Store
<1>10. ASSUME NEW r \in Replicas, NEW c \in roots, Load(r, c) PROVE IInv'
  <2>1. Sound(blocks, Loaded(c))
    BY DEF IInv
  <2>. QED  BY <1>10, <2>1, EditHolds DEF Load
<1>11. ASSUME NEW r \in Replicas, NEW c \in roots, Reconcile(r, c) PROVE IInv'
  <2>1. PICK more : more = BlocksWith(tree[r])
    OBVIOUS
  <2>2. Sound(blocks, tree[r]) /\ AreBlocks(blocks) /\ Sound(blocks, Loaded(c))
    BY DEF IInv
  <2>3. Sound(more, Loaded(c)) /\ Sound(more, Persisted(tree[r]))
    BY <1>8, <2>1, <2>2, StoredWithBlocks, SoundAmongMore
  <2>4. AllFilled(Loaded(c)) /\ AllFilled(Persisted(tree[r]))
    BY <2>2, LoadedIsFilled, PersistedIsFilled
  <2>5. Sound(more, Reconciliation(more, Persisted(tree[r]), Loaded(c)).tree)
    BY <2>3, <2>4, ReconciledIsSound
  <2>. QED  BY <1>11, <2>1, <2>5, StoreHolds DEF Reconcile
<1>. QED  BY <1>1, <1>2, <1>3, <1>4, <1>5, <1>6, <1>7, <1>9, <1>10, <1>11 DEF Next

(* Working copies stay trees of typed nodes in which only directories have *)
(* entries, through every edit, store, load and reconciliation.            *)
THEOREM TreesAreTyped == Spec => []TypeOK
<1>1. IInv => TypeOK
  BY DEF IInv, TypeOK, Sound, HasShape
<1>. QED  BY <1>1, InitHolds, StepHolds, PTL DEF Spec

(* A filled persisted_as cell (wnfs/src/public/link.rs, directory.rs)      *)
(* names the content, entries and history that the node has now: no edit   *)
(* below leaves a stale CID above, so what a store skips is stored.        *)
THEOREM CellsAreNotStale == Spec => []CellsNameContents
<1>1. IInv => CellsNameContents
  <2> SUFFICES ASSUME IInv, NEW r \in Replicas, NEW p \in Paths,
                      tree[r][p] # Absent, HasCid(tree[r][p])
               PROVE  LET c == tree[r][p].persisted_as
                      IN /\ c.type = tree[r][p].type /\ c.content = tree[r][p].content
                         /\ c.previous = tree[r][p].previous
                         /\ DOMAIN c.entries = Userland(tree[r], p)
                         /\ \A n \in DOMAIN c.entries :
                               tree[r][Append(p, n)].persisted_as = c.entries[n]
    BY DEF CellsNameContents
  <2>. QED  BY DEF IInv, Sound, CellsName, Names1
<1>. QED  BY <1>1, InitHolds, StepHolds, PTL DEF Spec

--------------------------------------------------------------------------------
(* The refinement.                                                         *)

LEMMA SeenOf ==
  ASSUME NEW store, NEW t, Sound(store, t), NEW f, f = Seen(t)
  PROVE  /\ f = [p \in Paths |-> f[p]]
         /\ \A p \in Paths :
              /\ t[p] = Absent => f[p] = Abstract!Nothing
              /\ IsDir(t, p) => f[p] = Abstract!Folder
              /\ IsFile(t, p) => f[p] = Abstract!FileWith(t[p].content)
              /\ t[p] = Absent \/ IsDir(t, p) \/ IsFile(t, p)
              /\ f[p] = Abstract!Nothing <=> t[p] = Absent
              /\ f[p] = Abstract!Folder <=> IsDir(t, p)
              /\ Abstract!IsFile(f, p) <=> IsFile(t, p)
<1>1. t \in [Paths -> Nodes(store) \cup {Absent}]
  BY DEF Sound, HasShape
<1>2. ASSUME NEW p \in Paths PROVE t[p] = Absent \/ IsDir(t, p) \/ IsFile(t, p)
  BY <1>1, NodeFields DEF IsDir, IsFile
<1>3. \A p \in Paths : f[p] = Shown(t[p])
  BY DEF Seen
<1>4. ASSUME NEW p \in Paths
      PROVE  /\ t[p] = Absent => f[p] = Abstract!Nothing
             /\ IsDir(t, p) => f[p] = Abstract!Folder
             /\ IsFile(t, p) => f[p] = Abstract!FileWith(t[p].content)
  BY <1>3 DEF Shown, IsDir, IsFile, Absent, Abstract!Nothing, Abstract!Folder,
              Abstract!FileWith
<1>5. /\ Abstract!Nothing # Abstract!Folder
      /\ Abstract!Nothing.type # "file" /\ Abstract!Folder.type # "file"
      /\ \A c : /\ Abstract!FileWith(c).type = "file"
                /\ Abstract!FileWith(c) # Abstract!Nothing
                /\ Abstract!FileWith(c) # Abstract!Folder
  BY DEF Abstract!Nothing, Abstract!Folder, Abstract!FileWith
<1>6. \A p \in Paths : /\ t[p] = Absent => ~IsDir(t, p) /\ ~IsFile(t, p)
                       /\ ~(IsDir(t, p) /\ IsFile(t, p))
  BY DEF Absent, IsDir, IsFile
<1>7. f = [p \in Paths |-> f[p]]
  BY DEF Seen
<1>8. ASSUME NEW p \in Paths
      PROVE  /\ f[p] = Abstract!Nothing <=> t[p] = Absent
             /\ f[p] = Abstract!Folder <=> IsDir(t, p)
             /\ Abstract!IsFile(f, p) <=> IsFile(t, p)
  BY <1>2, <1>4, <1>5, <1>6 DEF Abstract!IsFile
<1>. QED  BY <1>2, <1>4, <1>7, <1>8

LEMMA FoldersAbove ==
  ASSUME NEW store, NEW t, Sound(store, t), NEW p \in Paths, t[p] # Absent
  PROVE  \A q \in Paths : IsPrefix(q, p) /\ q # p => IsDir(t, q)
<1> DEFINE S == {k \in Nat : \A r \in Paths : Len(r) = k /\ t[r] # Absent =>
                   \A q \in Paths : IsPrefix(q, r) /\ q # r => IsDir(t, q)}
<1>1. 0 \in S
  <2> SUFFICES ASSUME NEW r \in Paths, Len(r) = 0, NEW q \in Paths, IsPrefix(q, r)
               PROVE  q = r
    OBVIOUS
  <2>. QED  BY PathsOf, EmptySeq, PrefixOrder
<1>2. p \in Seq(Names) /\ Len(p) \in Nat
  BY PathsOf, LenProperties
<1>3. ASSUME NEW i \in 0 .. Len(p) - 1, i \in S PROVE i + 1 \in S
  <2> SUFFICES ASSUME NEW r \in Paths, Len(r) = i + 1, t[r] # Absent,
                      NEW q \in Paths, IsPrefix(q, r), q # r
               PROVE  IsDir(t, q)
    OBVIOUS
  <2>1. r \in Seq(Names) /\ r # <<>> /\ r \in Below /\ Front(r) \in Paths
        /\ q \in Seq(Names)
    BY PathsOf, EmptySeq DEF Below
  <2>2. Len(Front(r)) = i
    BY <2>1, FrontOf
  <2>3. IsPrefix(q, Front(r))
    BY <2>1, PrefixStep
  <2>4. IsDir(t, Front(r)) /\ t[Front(r)] # Absent
    BY <2>1 DEF Sound, HasShape, IsDir, Absent
  <2>. QED  BY <1>3, <2>1, <2>2, <2>3, <2>4
<1> HIDE DEF S
<1>4. \A i \in 0 .. Len(p) : i \in S
  BY <1>1, <1>2, <1>3, HoldsUpTo
<1>5. Len(p) \in S
  BY <1>2, <1>4
<1>. QED  BY <1>5 DEF S

LEMMA NotADirOf ==
  ASSUME NEW t, NEW path \in Paths
  PROVE  NotADir(t, path) <=> \E q \in Paths : IsPrefix(q, path) /\ IsFile(t, q)
<1>1. path \in Seq(Names)
  BY PathsOf
<1>2. \A q : q \in Prefixes(path) <=> q \in Seq(Names) /\ IsPrefix(q, path)
  BY <1>1, PrefixesAre
<1>3. \A q : q \in Prefixes(path) <=> q \in Paths /\ IsPrefix(q, path)
  BY <1>2, AboveOf, PathsOf
<1>. QED  BY <1>3 DEF NotADir

LEMMA SeenSame ==
  ASSUME NEW t, NEW u,
         \A p \in Paths : Shown(u[p]) = Shown(t[p])
  PROVE  Seen(u) = Seen(t)
BY DEF Seen

(* A walk that only makes new revisions is not seen.                       *)
LEMMA WalkIsUnseen ==
  ASSUME NEW store, NEW t, Sound(store, t), NEW path \in Paths
  PROVE  /\ Seen(LeafDirMut(t, path)) = Seen(t)
         /\ \A q \in Paths : Shown(LeafDirMut(t, path)[q]) = Shown(t[q])
<1> DEFINE u == LeafDirMut(t, path)
<1>1. /\ \A q \in Paths : u[q].type = t[q].type
      /\ \A q \in Paths : u[q] # Absent <=> t[q] # Absent
      /\ \A q \in Paths : ~IsDir(t, q) => u[q] = t[q]
  BY WalkedIsSound
<1> HIDE DEF u
<1>2. \A q \in Paths : Shown(u[q]) = Shown(t[q])
  BY <1>1 DEF Shown, IsDir
<1>3. Seen(u) = Seen(t)
  BY <1>2, SeenSame
<1>. QED  BY <1>2, <1>3 DEF u

(* The words for paths are the same in both.                               *)
LEMMA PathWords ==
  ASSUME NEW p, NEW q
  PROVE  /\ Abstract!IsPrefix(p, q) <=> IsPrefix(p, q)
         /\ Abstract!Below(p, q) <=> IsPrefix(p, q) /\ p # q
         /\ Abstract!Front(p) = Front(p)
         /\ Abstract!Suffix(p, q) = Suffix(p, q)
BY DEF Abstract!IsPrefix, IsPrefix, Abstract!Below, Abstract!IsStrictPrefix,
       Abstract!Front, Front, Abstract!Suffix, Suffix

(* A path below another one, in the words of the plain tree.               *)
LEMMA StrictlyAbove ==
  ASSUME NEW p \in Below, NEW q \in Paths
  PROVE  Abstract!Below(q, p) <=> IsPrefix(q, Front(p))
<1>1. p \in Seq(Names) /\ p # <<>> /\ q \in Seq(Names)
  BY PathsOf DEF Below
<1>. QED  BY <1>1, PathWords, PrefixStep

LEMMA FileSeen ==
  ASSUME NEW store, NEW t, Sound(store, t), NEW p \in Below, NEW time \in Times,
         NEW newContent \in Contents \cup {NoContent},
         NEW content, IsFile(t, p) => content \in Contents \cup {NoContent},
         NEW f, f = Seen(t),
         NEW g, g = Seen(WithFile(t, p, newContent, content, time))
  PROVE  g = f \/ Abstract!Write(f, g)
<1>1. p \in Paths /\ p # <<>> /\ p \in Seq(Names) /\ Front(p) \in Paths
      /\ Front(p) \in Seq(Names)
  BY PathsOf DEF Below
<1>2. CASE NotADir(t, Front(p))
  BY <1>1, <1>2, WalkIsUnseen DEF WithFile
<1>3. CASE ~NotADir(t, Front(p))
  <2> DEFINE k == CreateLeafDirMut(t, Front(p), time)
             e == [PrepareNextRevision(t[p]) EXCEPT !.content = content, !.mtime = time]
             v == IF t[p] = Absent THEN NewFile(newContent, time)
                  ELSE IF IsDir(t, p) THEN t[p] ELSE e
             u == [k EXCEPT ![p] = v]
  <2>1. /\ Sound(store, k)
        /\ \A q \in Paths : IsPrefix(q, Front(p)) => IsDir(k, q)
        /\ \A q \in Paths : ~IsPrefix(q, Front(p)) => k[q] = t[q]
    BY <1>1, <1>3, CreatedIsSound
  <2>2. WithFile(t, p, newContent, content, time) = u
    BY <1>3, Zenon DEF WithFile
  <2> HIDE DEF k, e
  <2>3. k \in [Paths -> Nodes(store) \cup {Absent}]
    BY <2>1 DEF Sound, HasShape
  <2> HIDE DEF v
  <2>4. u[p] = v /\ \A q \in Paths \ {p} : u[q] = k[q]
    BY <1>1, <2>3
  <2> HIDE DEF u
  <2>5. ~IsPrefix(p, Front(p))
    BY <1>1, PrefixStep
  <2>6. /\ f = [q \in Paths |-> f[q]]
        /\ \A q \in Paths :
              /\ f[q] = Abstract!Folder <=> IsDir(t, q)
              /\ Abstract!IsFile(f, q) <=> IsFile(t, q)
    BY SeenOf
  <2>7. g = [q \in Paths |-> Shown(u[q])] /\ f = [q \in Paths |-> Shown(t[q])]
    BY <2>2 DEF Seen
  <2>8. \A q \in Paths : IsPrefix(q, Front(p)) => g[q] = Abstract!Folder
    BY <2>1, <2>4, <2>5, <2>7 DEF Shown, IsDir, Absent, Abstract!Folder
  <2>9. \A q \in Paths : ~IsPrefix(q, Front(p)) /\ q # p => g[q] = f[q]
    BY <2>1, <2>4, <2>7
  <2>10. CASE IsDir(t, p)
    <3>1. v = t[p] /\ t[p] # Absent
      BY <2>10 DEF v, IsDir, Absent
    <3>2. g[p] = f[p]
      BY <1>1, <2>4, <2>7, <3>1
    <3>3. \A q \in Paths : IsPrefix(q, Front(p)) => f[q] = Abstract!Folder
      <4>1. \A q \in Paths : IsPrefix(q, Front(p)) => IsPrefix(q, p) /\ q # p
        BY <1>1, <2>5, PathsOf, PrefixStep
      <4>. QED  BY <1>1, <2>6, <3>1, <4>1, FoldersAbove
    <3>4. \A q \in Paths : g[q] = f[q]
      BY <2>8, <2>9, <3>2, <3>3
    <3>. QED  BY <2>7, <3>4
  <2>11. CASE ~IsDir(t, p)
    <3>1. \E x \in Contents \cup {NoContent} : g[p] = Abstract!FileWith(x)
      <4>1. CASE t[p] = Absent
        <5>1. v = NewFile(newContent, time)
          BY <4>1 DEF v
        <5>2. g[p] = Abstract!FileWith(newContent)
          BY <1>1, <2>4, <2>7, <5>1
             DEF NewFile, Node, Shown, Absent, Abstract!FileWith
        <5>. QED  BY <5>2
      <4>2. CASE t[p] # Absent
        <5>1. t[p] \in Nodes(store) /\ IsFile(t, p)
          BY <1>1, <2>11, <4>2, NodeFields DEF Sound, HasShape, IsDir, IsFile
        <5> DEFINE n == PrepareNextRevision(t[p])
        <5>2. n \in Nodes(store) /\ n.type = "file" /\ n.persisted_as = Unset
          BY <5>1, NodesOf DEF IsFile
        <5>3. v = [n EXCEPT !.content = content, !.mtime = time]
          BY <2>11, <4>2, Zenon DEF v, e
        <5> HIDE DEF n
        <5>4. v = Node("file", content, time, n.previous, Unset)
          BY <5>2, <5>3, FileEdited
        <5>5. g[p] = Abstract!FileWith(content)
          BY <1>1, <2>4, <2>7, <5>4 DEF Node, Shown, Absent, Abstract!FileWith
        <5>. QED  BY <5>1, <5>5
      <4>. QED  BY <4>1, <4>2
    <3>2. PICK x \in Contents \cup {NoContent} : g[p] = Abstract!FileWith(x)
      BY <3>1
    <3>3. \A q \in Paths : Abstract!Below(q, p) <=> IsPrefix(q, Front(p))
      BY StrictlyAbove
    <3>4. Abstract!TakesFile(f, p)
      <4>1. f[p] # Abstract!Folder
        BY <1>1, <2>6, <2>11
      <4>2. \A q \in Paths : Abstract!Below(q, p) => ~Abstract!IsFile(f, q)
        BY <1>1, <1>3, <2>6, <3>3, NotADirOf
      <4>. QED  BY <4>1, <4>2 DEF Abstract!TakesFile
    <3>5. g = Abstract!WithFileAt(f, p, x)
      <4> DEFINE h == Abstract!WithFileAt(f, p, x)
      <4>1. /\ h = [q \in Paths |-> h[q]]
            /\ h[p] = Abstract!FileWith(x)
            /\ \A q \in Paths \ {p} :
                 h[q] = IF Abstract!Below(q, p) THEN Abstract!Folder ELSE f[q]
        BY <1>1 DEF Abstract!WithFileAt, Abstract!WithFoldersAbove
      <4> HIDE DEF h
      <4>2. \A q \in Paths : g[q] = h[q]
        BY <2>5, <2>8, <2>9, <3>2, <3>3, <4>1
      <4>3. g = [q \in Paths |-> g[q]]
        BY <2>7
      <4>4. g = h
        BY <4>1, <4>2, <4>3
      <4>. QED  BY <4>4 DEF h
    <3>. QED  BY <1>1, <3>2, <3>4, <3>5 DEF Abstract!Write
  <2>. QED  BY <2>10, <2>11
<1>. QED  BY <1>2, <1>3

LEMMA FolderSeen ==
  ASSUME NEW store, NEW t, Sound(store, t), NEW path \in Paths, NEW time \in Times,
         NEW f, f = Seen(t), NEW g, g = Seen(MadeDir(t, path, time))
  PROVE  g = f \/ Abstract!MakeFolder(f, g)
<1>1. CASE NotADir(t, path)
  BY <1>1, WalkIsUnseen DEF MadeDir
<1>2. CASE ~NotADir(t, path)
  <2> DEFINE k == CreateLeafDirMut(t, path, time)
             h == Abstract!WithFolderAt(f, path)
  <2>1. /\ Sound(store, k)
        /\ \A q \in Paths : IsPrefix(q, path) => IsDir(k, q)
        /\ \A q \in Paths : ~IsPrefix(q, path) => k[q] = t[q]
    BY <1>2, CreatedIsSound
  <2>2. g = Seen(k)
    BY <1>2 DEF MadeDir
  <2> HIDE DEF k
  <2>3. \A q \in Paths : IsPrefix(q, path) => g[q] = Abstract!Folder
    BY <2>1, <2>2, SeenOf
  <2>4. \A q \in Paths : ~IsPrefix(q, path) => g[q] = f[q]
    BY <2>1, <2>2 DEF Seen
  <2>5. path \in Paths /\ IsPrefix(path, path)
    BY PathsOf, PrefixOrder
  <2>6. \A q \in Paths : /\ Abstract!Below(q, path) <=> IsPrefix(q, path) /\ q # path
                         /\ Abstract!IsPrefix(q, path) <=> IsPrefix(q, path)
    BY PathWords
  <2>7. /\ h = [q \in Paths |-> h[q]]
        /\ h[path] = Abstract!Folder
        /\ \A q \in Paths \ {path} :
             h[q] = IF Abstract!Below(q, path) THEN Abstract!Folder ELSE f[q]
    BY DEF Abstract!WithFolderAt, Abstract!WithFoldersAbove
  <2> HIDE DEF h
  <2>8. \A q \in Paths : g[q] = h[q]
    BY <2>3, <2>4, <2>5, <2>6, <2>7
  <2>9. g = [q \in Paths |-> g[q]]
    BY DEF Seen
  <2>10. g = h
    BY <2>7, <2>8, <2>9
  <2>11. Abstract!TakesFolder(f, path)
    BY <1>2, <2>6, NotADirOf, SeenOf DEF Abstract!TakesFolder
  <2>. QED  BY <2>10, <2>11 DEF h, Abstract!MakeFolder
<1>. QED  BY <1>1, <1>2

LEMMA RemovalSeen ==
  ASSUME NEW store, NEW t, Sound(store, t), NEW p \in Below,
         NEW f, f = Seen(t), NEW g, g = Seen(Removed(t, p))
  PROVE  g = Abstract!Without(f, p)
<1> DEFINE h == Abstract!Without(f, p)
           k == LeafDirMut(t, Front(p))
<1>1. p \in Paths /\ Front(p) \in Paths
  BY PathsOf DEF Below
<1>2. \A q \in Paths : Shown(k[q]) = Shown(t[q])
  BY <1>1, WalkIsUnseen
<1>3. \A q \in Paths : Removed(t, p)[q] = IF IsPrefix(p, q) THEN Absent ELSE k[q]
  BY DEF Removed
<1> HIDE DEF k
<1>4. \A q \in Paths : g[q] = IF IsPrefix(p, q) THEN Abstract!Nothing ELSE f[q]
  BY <1>2, <1>3 DEF Seen, Shown, Absent, Abstract!Nothing
<1>5. /\ h = [q \in Paths |-> h[q]]
      /\ \A q \in Paths : h[q] = IF IsPrefix(p, q) THEN Abstract!Nothing ELSE f[q]
  BY PathWords DEF Abstract!Without
<1> HIDE DEF h
<1>6. g = [q \in Paths |-> g[q]]
  BY DEF Seen
<1>7. g = h
  BY <1>4, <1>5, <1>6
<1>. QED  BY <1>7 DEF h

(* A subtree that is put somewhere, with a new time at its root.           *)
LEMMA GraftSeen ==
  ASSUME NEW store, NEW t, Sound(store, t), NEW source, Sound(store, source),
         NEW from \in Below, NEW to \in Below, NEW time \in Times,
         source[from] # Absent,
         NEW f, f = Seen(t), NEW o, o = Seen(source),
         NEW g, g = Seen(Inserted(LeafDirMut(t, Front(to)), source, from, to, time))
  PROVE  g = Abstract!Grafted(f, o, from, to)
<1> DEFINE k == LeafDirMut(t, Front(to))
           u == Inserted(k, source, from, to, time)
           h == Abstract!Grafted(f, o, from, to)
           origin(q) == from \o Suffix(to, q)
           node(q) == IF origin(q) \in Paths THEN source[origin(q)] ELSE Absent
           timed(q) == [node(q) EXCEPT !.mtime = time]
<1>1. from \in Paths /\ to \in Paths /\ Front(to) \in Paths
      /\ from \in Seq(Names) /\ to \in Seq(Names)
  BY PathsOf DEF Below
<1>2. \A q \in Paths : Shown(k[q]) = Shown(t[q])
  BY <1>1, WalkIsUnseen
<1> HIDE DEF k
<1>3. origin(to) = from
  <2>1. IsPrefix(to, to)
    BY <1>1, PrefixOrder
  <2>2. Corresponding(to, from, to) = from
    BY <1>1, <2>1, CorrespondingSteps
  <2>. QED  BY <2>2 DEF Corresponding, Suffix
<1>4. \A q \in Paths :
        u[q] = IF ~IsPrefix(to, q) THEN k[q]
               ELSE IF q = to THEN timed(q) ELSE node(q)
  BY DEF Inserted
<1>5. \A q \in Paths :
        h[q] = IF IsPrefix(to, q)
               THEN IF origin(q) \in Paths THEN o[origin(q)] ELSE Abstract!Nothing
               ELSE f[q]
  BY PathWords DEF Abstract!Grafted, Abstract!At
<1>6. h = [q \in Paths |-> h[q]] /\ g = [q \in Paths |-> g[q]]
  BY DEF Seen, Abstract!Grafted
<1>7. \A q \in Paths : g[q] = Shown(u[q]) /\ f[q] = Shown(t[q]) /\ o[q] = Shown(source[q])
  <2>1. g = Seen(u)
    BY DEF k
  <2> HIDE DEF u
  <2>. QED  BY <2>1 DEF Seen
<1>8. Shown([source[from] EXCEPT !.mtime = time]) = Shown(source[from])
  <2>1. source[from] \in Nodes(store)
    BY <1>1 DEF Sound, HasShape
  <2> DEFINE n == source[from]
  <2> HIDE DEF n
  <2>2. /\ n # Absent
        /\ [n EXCEPT !.mtime = time] =
             Node(n.type, n.content, time, n.previous, n.persisted_as)
    BY <2>1, NodeFields, NodeAtTime DEF n
  <2>3. Shown(Node(n.type, n.content, time, n.previous, n.persisted_as)) = Shown(n)
    BY <2>2 DEF Node, Shown, Absent
  <2>. QED  BY <2>2, <2>3 DEF n
<1>9. Shown(Absent) = Abstract!Nothing
  BY DEF Shown, Absent, Abstract!Nothing
<1>10. timed(to) = [source[from] EXCEPT !.mtime = time]
  BY <1>1, <1>3
<1>11. \A q \in Paths :
         Shown(node(q)) = IF origin(q) \in Paths THEN o[origin(q)] ELSE Abstract!Nothing
  <2> SUFFICES ASSUME NEW q \in Paths
               PROVE  Shown(node(q)) = IF origin(q) \in Paths THEN o[origin(q)]
                                       ELSE Abstract!Nothing
    OBVIOUS
  <2> HIDE DEF origin
  <2>. QED  BY <1>7, <1>9
<1>12. Shown(timed(to)) = o[from]
  BY <1>1, <1>7, <1>8, <1>10
<1> HIDE DEF u, h, node, timed, origin
<1>13. \A q \in Paths : g[q] = h[q]
  <2> TAKE q \in Paths
  <2>1. CASE ~IsPrefix(to, q)
    <3>1. u[q] = k[q] /\ h[q] = f[q]
      BY <1>4, <1>5, <2>1
    <3>. QED  BY <1>2, <1>7, <3>1
  <2>2. CASE IsPrefix(to, q) /\ q = to
    <3>1. u[q] = timed(to) /\ h[q] = o[from]
      BY <1>1, <1>3, <1>4, <1>5, <2>2
    <3>. QED  BY <1>7, <1>12, <3>1
  <2>3. CASE IsPrefix(to, q) /\ q # to
    <3>1. u[q] = node(q)
      BY <1>4, <2>3
    <3>2. h[q] = Shown(node(q))
      BY <1>5, <1>11, <2>3
    <3>. QED  BY <1>7, <3>1, <3>2
  <2>. QED  BY <2>1, <2>2, <2>3
<1>14. g = h
  BY <1>6, <1>13
<1>. QED  BY <1>14 DEF h

LEMMA PlacingSeen ==
  ASSUME NEW store, NEW t, Sound(store, t), NEW source, Sound(store, source),
         NEW from \in Below, NEW to \in Below, NEW time \in Times,
         source[from] # Absent,
         NEW f, f = Seen(t), NEW o, o = Seen(source),
         NEW g, g = Seen(Placed(t, source, from, to, time))
  PROVE  \/ g = f
         \/ Abstract!HasRoomAt(f, to) /\ g = Abstract!Grafted(f, o, from, to)
<1>1. to \in Paths /\ Front(to) \in Paths
  BY PathsOf DEF Below
<1>2. CASE IsDir(t, Front(to)) /\ t[to] = Absent
  <2>1. Abstract!HasRoomAt(f, to)
    BY <1>1, <1>2, SeenOf, PathWords DEF Abstract!HasRoomAt
  <2>2. g = Seen(Inserted(LeafDirMut(t, Front(to)), source, from, to, time))
    BY <1>2 DEF Placed
  <2>. QED  BY <2>1, <2>2, GraftSeen
<1>3. CASE ~(IsDir(t, Front(to)) /\ t[to] = Absent)
  BY <1>1, <1>3, WalkIsUnseen DEF Placed
<1>. QED  BY <1>2, <1>3

(* basic_mv that finds nothing, or no room, has still removed.             *)
LEMMA MoveSeen ==
  ASSUME NEW store, NEW t, Sound(store, t),
         NEW from \in Below, NEW to \in Below, NEW time \in Times,
         NEW f, f = Seen(t), NEW g, g = Seen(Moved(t, from, to, time))
  PROVE  Abstract!Delete(f, g) \/ Abstract!Move(f, g)
<1>1. from \in Paths \ {<<>>} /\ to \in Paths \ {<<>>}
  BY DEF Below
<1> DEFINE w == Seen(Removed(t, from))
<1>2. w = Abstract!Without(f, from)
  BY RemovalSeen
<1>3. Sound(store, Removed(t, from))
  BY RemovedIsSound
<1>4. CASE g = w
  BY <1>1, <1>2, <1>4 DEF Abstract!Delete
<1>5. CASE g # w
  <2>1. t[from] # Absent /\ g = Seen(Placed(Removed(t, from), t, from, to, time))
    BY <1>5 DEF Moved
  <2> HIDE DEF w
  <2>2. Abstract!HasRoomAt(w, to) /\ g = Abstract!Grafted(w, f, from, to)
    BY <1>3, <1>5, <2>1, PlacingSeen DEF w
  <2>3. f[from] # Abstract!Nothing
    BY <1>1, <2>1, SeenOf
  <2>. QED  BY <1>1, <1>2, <2>2, <2>3
            DEF Abstract!Move, Abstract!CanMove, Abstract!WithMoved
<1>. QED  BY <1>4, <1>5

LEMMA CopySeen ==
  ASSUME NEW store, NEW t, Sound(store, t),
         NEW from \in Below, NEW to \in Below, NEW time \in Times,
         NEW f, f = Seen(t), NEW g, g = Seen(Copied(t, from, to, time))
  PROVE  g = f \/ Abstract!Copy(f, g)
<1>1. from \in Paths \ {<<>>} /\ to \in Paths \ {<<>>}
  BY DEF Below
<1>2. CASE t[from] = Absent
  BY <1>2 DEF Copied
<1>3. CASE t[from] # Absent
  <2>1. g = Seen(Placed(t, t, from, to, time))
    BY <1>3 DEF Copied
  <2>2. f[from] # Abstract!Nothing
    BY <1>1, <1>3, SeenOf
  <2>. QED  BY <1>1, <1>3, <2>1, <2>2, PlacingSeen DEF Abstract!Copy
<1>. QED  BY <1>2, <1>3

(* What is stored looks like the tree that was stored.                     *)
LEMMA StoredSeen ==
  ASSUME NEW store, NEW t, Sound(store, t), NEW u, IsStored(t, u)
  PROVE  Seen(u) = Seen(t)
<1> SUFFICES ASSUME NEW p \in Paths PROVE Shown(u[p]) = Shown(t[p])
  BY SeenSame
<1>1. CASE t[p] = Absent
  BY <1>1 DEF IsStored
<1>2. CASE t[p] # Absent
  <2>1. PICK time \in Times :
           u[p] = Node(t[p].type, t[p].content, time, t[p].previous, Cids(t)[p])
    BY <1>2 DEF IsStored
  <2> DEFINE n == t[p]
  <2> HIDE DEF n
  <2>2. u[p] = Node(n.type, n.content, time, n.previous, Cids(t)[p]) /\ n # Absent
    BY <1>2, <2>1 DEF n
  <2>3. Shown(u[p]) = Shown(n)
    BY <2>2 DEF Shown, Node, Absent
  <2>. QED  BY <2>3 DEF n
<1>. QED  BY <1>1, <1>2

LEMMA TreeSeen ==
  ASSUME NEW store, NEW t, Sound(store, t)
  PROVE  Abstract!IsTree(Seen(t))
<1>1. PICK f : f = Seen(t)
  OBVIOUS
<1>2. f[<<>>] = Abstract!Folder
  BY <1>1, SeenOf, PathsAssumption DEF Sound, HasShape
<1>3. ASSUME NEW p \in Paths, NEW q \in Paths, Abstract!Below(p, q),
             f[q] # Abstract!Nothing
      PROVE  f[p] = Abstract!Folder
  <2>1. IsPrefix(p, q) /\ p # q
    BY <1>3, PathWords
  <2>2. t[q] # Absent
    BY <1>1, <1>3, SeenOf
  <2>3. IsDir(t, p)
    BY <2>1, <2>2, FoldersAbove
  <2>. QED  BY <1>1, <2>3, SeenOf
<1>. QED  BY <1>1, <1>2, <1>3 DEF Abstract!IsTree

(* A merged node shows what one of the two shows.                          *)
LEMMA MergedShows ==
  ASSUME NEW store, NEW our \in Nodes(store), NEW other \in Nodes(store),
         our.type = other.type
  PROVE  Shown(MergedNode(our, other)) \in {Shown(our), Shown(other)}
<1> DEFINE winner == IF our.content <= other.content THEN our ELSE other
           mtime  == IF our.content = other.content
                     THEN Lower(our.mtime, other.mtime) ELSE winner.mtime
           content  == winner.content
           previous == MergedPrevious(our, other)
           type == our.type
<1>1. MergedNode(our, other) = Node(type, content, mtime, previous, Unset)
  BY DEF MergedNode
<1>2. content \in {our.content, other.content}
  OBVIOUS
<1>3. our # Absent /\ other # Absent /\ type = other.type
  BY NodeFields
<1>4. type = our.type
  OBVIOUS
<1> HIDE DEF content, mtime, previous, winner, type
<1>5. /\ Shown(our) = IF type = "dir" THEN [type |-> "dir"]
                      ELSE [type |-> "file", content |-> our.content]
      /\ Shown(other) = IF type = "dir" THEN [type |-> "dir"]
                        ELSE [type |-> "file", content |-> other.content]
  BY <1>3, <1>4 DEF Shown
<1>6. Shown(Node(type, content, mtime, previous, Unset)) =
        IF type = "dir" THEN [type |-> "dir"] ELSE [type |-> "file", content |-> content]
  BY DEF Shown, Node, Absent
<1>. QED  BY <1>1, <1>2, <1>5, <1>6

LEMMA ReconciledShows ==
  ASSUME NEW store, NEW ours, NEW theirs, Sound(store, ours), Sound(store, theirs),
         NEW u, u = Reconciliation(store, ours, theirs).tree, NEW p \in Paths
  PROVE  Shown(u[p]) \in {Shown(ours[p]), Shown(theirs[p])}
<1>1. PICK orders : orders = Orders(store, ours, theirs)
  OBVIOUS
<1>2. PICK fate : fate = Fates(ours, theirs, orders)
  OBVIOUS
<1>3. PICK merged : merged = [q \in Paths |-> CASE fate[q] = "ours"   -> ours[q]
                                [] fate[q] = "theirs" -> theirs[q]
                                [] OTHER -> MergedNode(ours[q], theirs[q])]
  OBVIOUS
<1>4. u \in {ours, theirs, merged}
  BY <1>1, <1>2, <1>3 DEF Reconciliation
<1>5. /\ ours \in [Paths -> Nodes(store) \cup {Absent}] /\ IsDir(ours, <<>>)
      /\ theirs \in [Paths -> Nodes(store) \cup {Absent}] /\ IsDir(theirs, <<>>)
  BY DEF Sound, HasShape
<1>6. IsFate(ours, theirs, fate, p)
  BY <1>2, <1>5, FatesAre
<1>7. Shown(merged[p]) \in {Shown(ours[p]), Shown(theirs[p])}
  <2>1. CASE fate[p] = "ours"
    BY <1>3, <2>1
  <2>2. CASE fate[p] = "theirs"
    BY <1>3, <2>2
  <2>3. CASE fate[p] = "merge"
    <3>1. /\ ours[p] \in Nodes(store) /\ theirs[p] \in Nodes(store)
          /\ ours[p].type = theirs[p].type
      BY <1>5, <1>6, <2>3 DEF IsFate
    <3>2. merged[p] = MergedNode(ours[p], theirs[p])
      BY <1>3, <2>3
    <3>. QED  BY <3>1, <3>2, MergedShows
  <2>. QED  BY <1>6, <2>1, <2>2, <2>3 DEF IsFate
<1>. QED  BY <1>4, <1>7

--------------------------------------------------------------------------------
(* The steps.                                                              *)

ShownTrees == [r \in Replicas |-> Seen(tree[r])]
ShownRoots == {Seen(Loaded(c)) : c \in roots}

LEMMA InitSeen == Init => Abstract!Init
<1> SUFFICES ASSUME NEW time \in Times,
                    roots = {RootCid(NewTree(time))},
                    tree = [r \in Replicas |-> Persisted(NewTree(time))],
                    IInv
             PROVE  Abstract!Init
  BY InitHolds DEF Init
<1>1. PICK t : t = NewTree(time)
  OBVIOUS
<1>2. \A p \in Paths : t[p] = IF p = <<>> THEN NewDirectory(time) ELSE Absent
  BY <1>1 DEF NewTree
<1>3. NewDirectory(time) \in Nodes({}) /\ NewDirectory(time).type = "dir"
      /\ NewDirectory(time).persisted_as = Unset /\ NewDirectory(time) # Absent
  BY NewNodes, NodeFields
<1>4. Sound({}, t)
  <2>1. t \in [Paths -> Nodes({}) \cup {Absent}]
    BY <1>1, <1>3 DEF NewTree
  <2>. QED  BY <1>2, <1>3, <2>1, PathsAssumption
            DEF Sound, HasShape, CellsName, HasCid, IsDir, Below
<1>5. AreBlocks({})
  BY DEF AreBlocks
<1>6. Seen(t) = Abstract!EmptyTree
  <2>1. \A p \in Paths : Shown(t[p]) = IF p = <<>> THEN Abstract!Folder
                                       ELSE Abstract!Nothing
    BY <1>2, <1>3 DEF Shown, Abstract!Folder, Abstract!Nothing
  <2>. QED  BY <2>1 DEF Seen, Abstract!EmptyTree
<1>7. Seen(Persisted(t)) = Seen(t) /\ Seen(Loaded(RootCid(t))) = Seen(t)
  BY <1>4, <1>5, PersistedIsStored, LoadedIsStored, StoredSeen
<1>8. ShownTrees = [r \in Replicas |-> Abstract!EmptyTree]
  BY <1>1, <1>6, <1>7 DEF ShownTrees
<1>9. ShownRoots = {Abstract!EmptyTree}
  BY <1>1, <1>6, <1>7 DEF ShownRoots
<1>. QED  BY <1>8, <1>9 DEF Abstract!Init, ShownTrees, ShownRoots

(* An edit of one working copy, and what is seen of it.                    *)
Edits(f, g) ==
  \/ g = f
  \/ Abstract!Write(f, g) \/ Abstract!MakeFolder(f, g) \/ Abstract!Delete(f, g)
  \/ Abstract!Move(f, g) \/ Abstract!Copy(f, g) \/ g \in ShownRoots

LEMMA ShownTreesStep ==
  ASSUME IInv, NEW r \in Replicas, NEW t, tree' = [tree EXCEPT ![r] = t]
  PROVE  /\ ShownTrees' = [ShownTrees EXCEPT ![r] = Seen(t)]
         /\ ShownTrees[r] = Seen(tree[r]) /\ ShownTrees'[r] = Seen(t)
<1>1. tree' = [s \in Replicas |-> IF s = r THEN t ELSE tree[s]]
  BY DEF IInv
<1>2. ShownTrees' = [s \in Replicas |-> Seen(tree'[s])]
  BY DEF ShownTrees
<1>3. ShownTrees = [s \in Replicas |-> Seen(tree[s])]
  BY DEF ShownTrees
<1>4. \A s \in Replicas : Seen(tree'[s]) = IF s = r THEN Seen(t) ELSE Seen(tree[s])
  BY <1>1
<1>5. [ShownTrees EXCEPT ![r] = Seen(t)] =
        [s \in Replicas |-> IF s = r THEN Seen(t) ELSE Seen(tree[s])]
  BY <1>3
<1>. QED  BY <1>2, <1>3, <1>4, <1>5

LEMMA EditStep ==
  ASSUME IInv, NEW r \in Replicas, NEW t, Becomes(r, t), Edits(Seen(tree[r]), Seen(t))
  PROVE  [Abstract!Next]_(Abstract!fsVars)
<1>1. /\ ShownTrees' = [ShownTrees EXCEPT ![r] = Seen(t)]
      /\ ShownTrees[r] = Seen(tree[r]) /\ ShownTrees'[r] = Seen(t)
  BY ShownTreesStep DEF Becomes
<1>2. ShownRoots' = ShownRoots
  BY DEF Becomes, ShownRoots
<1>3. CASE Seen(t) = Seen(tree[r])
  <2>1. [ShownTrees EXCEPT ![r] = ShownTrees[r]] = ShownTrees
    BY DEF ShownTrees
  <2>2. ShownTrees' = ShownTrees
    BY <1>1, <1>3, <2>1
  <2>. QED  BY <1>2, <2>2 DEF Abstract!fsVars, ShownTrees, ShownRoots
<1>4. CASE Seen(t) # Seen(tree[r])
  <2> DEFINE f == ShownTrees[r]
             g == ShownTrees'[r]
  <2>1. \/ Abstract!Write(f, g) \/ Abstract!MakeFolder(f, g) \/ Abstract!Delete(f, g)
        \/ Abstract!Move(f, g) \/ Abstract!Copy(f, g) \/ Abstract!Open(g)
    BY <1>1, <1>4 DEF Edits, Abstract!Open, ShownRoots
  <2>2. ShownTrees' = [ShownTrees EXCEPT ![r] = g]
    BY <1>1
  <2>. QED  BY <1>2, <2>1, <2>2 DEF Abstract!Next, ShownTrees, ShownRoots
<1>. QED  BY <1>3, <1>4

LEMMA SaveStep ==
  ASSUME IInv, NEW r \in Replicas, NEW t,
         tree' = [tree EXCEPT ![r] = t], roots' = roots \cup {RootCid(tree[r])},
         Seen(t) = Seen(tree[r]) \/ Abstract!Reconcile(Seen(tree[r]), Seen(t))
  PROVE  Abstract!Next
<1>1. /\ ShownTrees' = [ShownTrees EXCEPT ![r] = Seen(t)]
      /\ ShownTrees[r] = Seen(tree[r]) /\ ShownTrees'[r] = Seen(t)
  BY ShownTreesStep
<1>2. Seen(Loaded(RootCid(tree[r]))) = Seen(tree[r])
  BY LoadedIsStored, StoredSeen DEF IInv
<1>3. ShownRoots' = ShownRoots \cup {ShownTrees[r]}
  BY <1>1, <1>2 DEF ShownRoots
<1> DEFINE f == ShownTrees[r]
           g == ShownTrees'[r]
<1>4. g = f \/ Abstract!Reconcile(f, g)
  BY <1>1
<1>5. ShownTrees' = [ShownTrees EXCEPT ![r] = g]
  BY <1>1
<1>. QED  BY <1>3, <1>4, <1>5 DEF Abstract!Next, ShownTrees, ShownRoots

LEMMA StepSeen == IInv /\ [Next]_vars => [Abstract!Next]_(Abstract!fsVars)
<1> SUFFICES ASSUME IInv, [Next]_vars PROVE [Abstract!Next]_(Abstract!fsVars)
  OBVIOUS
<1>0. /\ AreBlocks(blocks) /\ \A r \in Replicas : Sound(blocks, tree[r])
      /\ \A c \in roots : Sound(blocks, Loaded(c))
  BY DEF IInv
<1>1. CASE UNCHANGED vars
  BY <1>1 DEF vars, Abstract!fsVars
<1>2. ASSUME NEW r \in Replicas, NEW time \in Times, NEW p \in Below, NEW x \in Contents,
             Write(r, p, x, time)
      PROVE  [Abstract!Next]_(Abstract!fsVars)
  <2> DEFINE t == Written(tree[r], p, x, time)
  <2>1. t = WithFile(tree[r], p, x, x, time)
    BY DEF Written
  <2>2. Edits(Seen(tree[r]), Seen(t))
    BY <1>0, <2>1, FileSeen DEF Edits
  <2>3. Becomes(r, t)
    BY <1>2 DEF Write
  <2>. QED  BY <2>2, <2>3, EditStep
<1>3. ASSUME NEW r \in Replicas, NEW time \in Times, NEW p \in Below,
             OpenFileMut(r, p, time)
      PROVE  [Abstract!Next]_(Abstract!fsVars)
  <2> DEFINE t == Opened(tree[r], p, time)
  <2>1. t = WithFile(tree[r], p, NoContent, tree[r][p].content, time)
    BY DEF Opened
  <2>2. IsFile(tree[r], p) => tree[r][p].content \in Contents \cup {NoContent}
    <3>1. tree[r][p] \in Nodes(blocks) \cup {Absent}
      BY <1>0 DEF Sound, HasShape, Below
    <3>. QED  BY <3>1, NodeFields DEF IsFile, Absent
  <2>3. NoContent \in Contents \cup {NoContent}
    OBVIOUS
  <2>4. Edits(Seen(tree[r]), Seen(t))
    BY <1>0, <2>1, <2>2, <2>3, FileSeen DEF Edits
  <2>5. Becomes(r, t)
    BY <1>3 DEF OpenFileMut
  <2>. QED  BY <2>4, <2>5, EditStep
<1>4. ASSUME NEW r \in Replicas, NEW time \in Times, NEW p \in Paths, Mkdir(r, p, time)
      PROVE  [Abstract!Next]_(Abstract!fsVars)
  <2>1. Edits(Seen(tree[r]), Seen(MadeDir(tree[r], p, time)))
    BY <1>0, FolderSeen DEF Edits
  <2>. QED  BY <1>4, <2>1, EditStep DEF Mkdir
<1>5. ASSUME NEW r \in Replicas, NEW time \in Times, NEW from \in Below, NEW to \in Below,
             BasicMv(r, from, to, time)
      PROVE  [Abstract!Next]_(Abstract!fsVars)
  <2>1. Edits(Seen(tree[r]), Seen(Moved(tree[r], from, to, time)))
    BY <1>0, MoveSeen DEF Edits
  <2>. QED  BY <1>5, <2>1, EditStep DEF BasicMv
<1>6. ASSUME NEW r \in Replicas, NEW time \in Times, NEW from \in Below, NEW to \in Below,
             Cp(r, from, to, time)
      PROVE  [Abstract!Next]_(Abstract!fsVars)
  <2>1. Edits(Seen(tree[r]), Seen(Copied(tree[r], from, to, time)))
    BY <1>0, CopySeen DEF Edits
  <2>. QED  BY <1>6, <2>1, EditStep DEF Cp
<1>7. ASSUME NEW r \in Replicas, NEW p \in Below, Rm(r, p)
      PROVE  [Abstract!Next]_(Abstract!fsVars)
  <2>1. p \in Paths \ {<<>>}
    BY DEF Below
  <2>2. Edits(Seen(tree[r]), Seen(Removed(tree[r], p)))
    BY <1>0, <2>1, RemovalSeen DEF Edits, Abstract!Delete
  <2>. QED  BY <1>7, <2>2, EditStep DEF Rm
<1>8. ASSUME NEW r \in Replicas, Store(r) PROVE Abstract!Next
  <2>1. Seen(Persisted(tree[r])) = Seen(tree[r])
    BY <1>0, PersistedIsStored, StoredSeen
  <2>. QED  BY <1>8, <2>1, SaveStep DEF Store
<1>9. ASSUME NEW r \in Replicas, NEW c \in roots, Load(r, c)
      PROVE  [Abstract!Next]_(Abstract!fsVars)
  <2>1. Edits(Seen(tree[r]), Seen(Loaded(c)))
    BY DEF Edits, ShownRoots
  <2>. QED  BY <1>9, <2>1, EditStep DEF Load
<1>10. ASSUME NEW r \in Replicas, NEW c \in roots, Reconcile(r, c) PROVE Abstract!Next
  <2>1. PICK more : more = BlocksWith(tree[r])
    OBVIOUS
  <2>2. PICK ours : ours = Persisted(tree[r])
    OBVIOUS
  <2>3. PICK u : u = Reconciliation(more, ours, Loaded(c)).tree
    OBVIOUS
  <2>4. /\ blocks \subseteq more
        /\ \A p \in Paths : tree[r][p] # Absent => Cids(tree[r])[p] \in more
    BY <1>0, <2>1, StoredWithBlocks
  <2>5. IsStored(tree[r], ours)
    BY <1>0, <2>2, PersistedIsStored
  <2>6. Sound(more, ours) /\ Sound(more, Loaded(c))
    BY <1>0, <2>4, <2>5, StoredIsSound, SoundAmongMore
  <2>7. AllFilled(ours) /\ AllFilled(Loaded(c))
    BY <1>0, <2>2, LoadedIsFilled, PersistedIsFilled
  <2>8. Abstract!IsTree(Seen(u))
    BY <2>3, <2>6, <2>7, ReconciledIsSound, TreeSeen
  <2>9. Seen(ours) = Seen(tree[r])
    BY <1>0, <2>5, StoredSeen
  <2>10. \A p \in Paths : Seen(u)[p] \in {Seen(tree[r])[p], Seen(Loaded(c))[p]}
    <3>1. \A p \in Paths : Shown(u[p]) \in {Shown(ours[p]), Shown(Loaded(c)[p])}
      BY <2>3, <2>6, ReconciledShows
    <3>2. \A p \in Paths : Seen(u)[p] \in {Seen(ours)[p], Seen(Loaded(c))[p]}
      BY <3>1 DEF Seen
    <3>. QED  BY <2>9, <3>2
  <2>11. Abstract!Reconcile(Seen(tree[r]), Seen(u))
    BY <2>8, <2>10 DEF Abstract!Reconcile
  <2>12. /\ tree' = [tree EXCEPT ![r] = u]
         /\ roots' = roots \cup {RootCid(tree[r])}
    BY <1>10, <2>1, <2>2, <2>3 DEF Reconcile
  <2>. QED  BY <2>11, <2>12, SaveStep
<1>. QED  BY <1>1, <1>2, <1>3, <1>4, <1>5, <1>6, <1>7, <1>8, <1>9, <1>10 DEF Next

(* Working with nodes, cells and blocks (wnfs/src/public/directory.rs,     *)
(* node/node.rs) is working with a tree of folders and files that is saved *)
(* and opened: walks, stores and a failed cp or mv show nothing else, and  *)
(* a reconciliation makes nothing up.                                      *)
THEOREM ImplementsTree == Spec => ImplementsFileSystem
<1>1. Init => IInv
  BY InitHolds
<1>2. IInv /\ [Next]_vars => IInv'
  BY StepHolds
<1>3. Init => Abstract!Init
  BY InitSeen
<1>4. IInv /\ [Next]_vars => [Abstract!Next]_(Abstract!fsVars)
  BY StepSeen
<1>. QED  BY <1>1, <1>2, <1>3, <1>4, PTL DEF Spec, ImplementsFileSystem, Abstract!Spec

--------------------------------------------------------------------------------
(* Merging files.                                                          *)

IsFileBlock(b) ==
  /\ b = [type |-> "file", content |-> b.content, mtime |-> b.mtime,
          previous |-> b.previous, entries |-> <<>>]
  /\ b.content \in Nat /\ b.mtime \in Nat
  /\ IsFiniteSet(b.previous)

Parents(b) == IF Cardinality(b.previous) > 1 THEN b.previous ELSE {b}

LeastContent(a, b) == Lower(a.content, b.content)

TimeOfLeast(a, b) ==
  IF a.content = b.content THEN Lower(a.mtime, b.mtime)
  ELSE IF a.content < b.content THEN a.mtime ELSE b.mtime

--------------------------------------------------------------------------------
(* Content, time and parents determine a file block.                       *)
LEMMA SameParentsSameFile ==
  ASSUME NEW a, NEW b, IsFileBlock(a), IsFileBlock(b),
         a.content = b.content, a.mtime = b.mtime, Parents(a) = Parents(b)
  PROVE  a = b
<1>1. CASE Cardinality(a.previous) > 1 /\ Cardinality(b.previous) > 1
  BY <1>1 DEF Parents, IsFileBlock
<1>2. CASE ~(Cardinality(a.previous) > 1) /\ ~(Cardinality(b.previous) > 1)
  BY <1>2 DEF Parents
<1>3. CASE Cardinality(a.previous) > 1 /\ ~(Cardinality(b.previous) > 1)
  <2>1. a.previous = {b}
    BY <1>3 DEF Parents
  <2>2. Cardinality(a.previous) = 1
    BY <2>1, FS_Singleton
  <2>. QED  BY <1>3, <2>2
<1>4. CASE ~(Cardinality(a.previous) > 1) /\ Cardinality(b.previous) > 1
  <2>1. b.previous = {a}
    BY <1>4 DEF Parents
  <2>2. Cardinality(b.previous) = 1
    BY <2>1, FS_Singleton
  <2>. QED  BY <1>4, <2>2
<1>. QED  BY <1>1, <1>2, <1>3, <1>4

LEMMA ParentsFinite ==
  ASSUME NEW a, IsFileBlock(a)
  PROVE  IsFiniteSet(Parents(a)) /\ Cardinality(Parents(a)) \in Nat
<1>1. IsFiniteSet({a})
  BY FS_Singleton
<1>2. IsFiniteSet(Parents(a))
  BY <1>1 DEF Parents, IsFileBlock
<1>. QED  BY <1>2, FS_CardinalityType

(* Two different files have at least two parents between them.             *)
LEMMA TwoParents ==
  ASSUME NEW a, NEW b, IsFileBlock(a), IsFileBlock(b), a # b
  PROVE  Cardinality(Parents(a) \cup Parents(b)) > 1
<1> DEFINE Both == Parents(a) \cup Parents(b)
<1>1. IsFiniteSet(Both) /\ Cardinality(Both) \in Nat
  BY ParentsFinite, FS_Union, FS_CardinalityType
<1>2. CASE Cardinality(a.previous) > 1
  <2>1. Parents(a) = a.previous
    BY <1>2 DEF Parents
  <2>2. Cardinality(Parents(a)) <= Cardinality(Both)
    BY <1>1, FS_Subset
  <2>. QED  BY <1>1, <1>2, <2>1, <2>2, ParentsFinite
<1>3. CASE Cardinality(b.previous) > 1
  <2>1. Parents(b) = b.previous
    BY <1>3 DEF Parents
  <2>2. Cardinality(Parents(b)) <= Cardinality(Both)
    BY <1>1, FS_Subset
  <2>. QED  BY <1>1, <1>3, <2>1, <2>2, ParentsFinite
<1>4. CASE ~(Cardinality(a.previous) > 1) /\ ~(Cardinality(b.previous) > 1)
  <2>1. Both = {a} \cup {b}
    BY <1>4 DEF Parents
  <2>2. IsFiniteSet({a}) /\ Cardinality({a}) = 1
    BY FS_Singleton
  <2>3. Cardinality({a} \cup {b}) = 2
    BY <2>2, FS_AddElement
  <2>. QED  BY <2>1, <2>3
<1>. QED  BY <1>2, <1>3, <1>4

(* What PublicFile::merge makes of two files.                              *)
LEMMA MergedFileIs ==
  ASSUME NEW a, NEW b, IsFileBlock(a), IsFileBlock(b)
  PROVE  /\ IsFileBlock(MergedFile(a, b))
         /\ MergedFile(a, b).content = LeastContent(a, b)
         /\ MergedFile(a, b).mtime = TimeOfLeast(a, b)
         /\ Parents(MergedFile(a, b)) = Parents(a) \cup Parents(b)
<1> DEFINE m == MergedFile(a, b)
<1>1. a.content \in Nat /\ b.content \in Nat /\ a.mtime \in Nat /\ b.mtime \in Nat
  BY DEF IsFileBlock
<1>2. CASE a = b
  <2>1. m = a
    BY <1>2 DEF MergedFile
  <2>. QED  BY <1>1, <1>2, <2>1 DEF LeastContent, TimeOfLeast, Lower
<1>3. CASE a # b
  <2>1. MergedPrevious(AsNode(a), AsNode(b)) = Parents(a) \cup Parents(b)
    BY DEF MergedPrevious, AsNode, Node, Parents
  <2>2. m = [type |-> "file", content |-> LeastContent(a, b),
             mtime |-> TimeOfLeast(a, b),
             previous |-> Parents(a) \cup Parents(b), entries |-> <<>>]
    <3> DEFINE n == MergedNode(AsNode(a), AsNode(b))
    <3>1. a.type = "file"
      BY DEF IsFileBlock
    <3>2. /\ AsNode(a).type = "file" /\ AsNode(a).content = a.content
          /\ AsNode(a).mtime = a.mtime /\ AsNode(b).content = b.content
          /\ AsNode(b).mtime = b.mtime
      BY <3>1 DEF AsNode, Node
    <3>3. /\ n.type = "file" /\ n.previous = Parents(a) \cup Parents(b)
      BY <2>1, <3>2 DEF MergedNode, Node
    <3>4. n.content = LeastContent(a, b)
      BY <3>2 DEF MergedNode, Node, LeastContent, Lower
    <3>5. n.mtime = TimeOfLeast(a, b)
      BY <1>1, <3>2 DEF MergedNode, Node, TimeOfLeast, Lower
    <3>6. m = Block(n, <<>>)
      BY <1>3 DEF MergedFile
    <3> HIDE DEF n, m
    <3>7. m = [type |-> "file", content |-> LeastContent(a, b),
               mtime |-> TimeOfLeast(a, b),
               previous |-> Parents(a) \cup Parents(b), entries |-> <<>>]
      BY <3>3, <3>4, <3>5, <3>6 DEF Block
    <3>. QED  BY <3>7 DEF m
  <2>3. IsFiniteSet(Parents(a) \cup Parents(b))
    BY ParentsFinite, FS_Union
  <2>4. LeastContent(a, b) \in Nat /\ TimeOfLeast(a, b) \in Nat
    BY <1>1 DEF LeastContent, TimeOfLeast, Lower
  <2>5. IsFileBlock(m)
    BY <2>2, <2>3, <2>4 DEF IsFileBlock
  <2>6. Cardinality(m.previous) > 1
    BY <1>3, <2>2, TwoParents
  <2>7. Parents(m) = Parents(a) \cup Parents(b)
    BY <2>2, <2>6 DEF Parents
  <2>8. m.content = LeastContent(a, b) /\ m.mtime = TimeOfLeast(a, b)
    BY <2>2
  <2>. QED  BY <2>5, <2>7, <2>8
<1>. QED  BY <1>2, <1>3

--------------------------------------------------------------------------------
(* Which of two replicas merges, and in which order several revisions are  *)
(* merged, makes no difference to the file (PublicFile::merge).            *)
THEOREM FileMergeIsCommutativeAndAssociative ==
  ASSUME NEW files, \A f \in files : IsFileBlock(f)
  PROVE  MergesAgree(files)
<1> SUFFICES ASSUME NEW a \in files, NEW b \in files, NEW c \in files
             PROVE  /\ MergedFile(a, b) = MergedFile(b, a)
                    /\ MergedFile(MergedFile(a, b), c)
                         = MergedFile(a, MergedFile(b, c))
  BY DEF MergesAgree
<1>1. /\ a.content \in Nat /\ b.content \in Nat /\ c.content \in Nat
      /\ a.mtime \in Nat /\ b.mtime \in Nat /\ c.mtime \in Nat
  BY DEF IsFileBlock
<1>2. MergedFile(a, b) = MergedFile(b, a)
  <2>1. LeastContent(a, b) = LeastContent(b, a)
    BY <1>1 DEF LeastContent, Lower
  <2>2. TimeOfLeast(a, b) = TimeOfLeast(b, a)
    BY <1>1 DEF TimeOfLeast, Lower
  <2>3. /\ IsFileBlock(MergedFile(a, b)) /\ IsFileBlock(MergedFile(b, a))
        /\ MergedFile(a, b).content = MergedFile(b, a).content
        /\ MergedFile(a, b).mtime = MergedFile(b, a).mtime
        /\ Parents(MergedFile(a, b)) = Parents(MergedFile(b, a))
    BY <2>1, <2>2, MergedFileIs
  <2>. QED  BY <2>3, SameParentsSameFile
<1>3. MergedFile(MergedFile(a, b), c) = MergedFile(a, MergedFile(b, c))
  <2> DEFINE ab == MergedFile(a, b)
             bc == MergedFile(b, c)
  <2>1. /\ IsFileBlock(ab) /\ ab.content = LeastContent(a, b)
        /\ ab.mtime = TimeOfLeast(a, b) /\ Parents(ab) = Parents(a) \cup Parents(b)
    BY MergedFileIs
  <2>2. /\ IsFileBlock(bc) /\ bc.content = LeastContent(b, c)
        /\ bc.mtime = TimeOfLeast(b, c) /\ Parents(bc) = Parents(b) \cup Parents(c)
    BY MergedFileIs
  <2> HIDE DEF ab, bc
  <2>3. LeastContent(ab, c) = LeastContent(a, bc)
    BY <1>1, <2>1, <2>2 DEF LeastContent, Lower
  <2>4. TimeOfLeast(ab, c) = TimeOfLeast(a, bc)
    BY <1>1, <2>1, <2>2 DEF LeastContent, TimeOfLeast, Lower
  <2>5. /\ IsFileBlock(MergedFile(ab, c))
        /\ MergedFile(ab, c).content = LeastContent(ab, c)
        /\ MergedFile(ab, c).mtime = TimeOfLeast(ab, c)
        /\ Parents(MergedFile(ab, c)) = Parents(ab) \cup Parents(c)
    BY <2>1, MergedFileIs
  <2>6. /\ IsFileBlock(MergedFile(a, bc))
        /\ MergedFile(a, bc).content = LeastContent(a, bc)
        /\ MergedFile(a, bc).mtime = TimeOfLeast(a, bc)
        /\ Parents(MergedFile(a, bc)) = Parents(a) \cup Parents(bc)
    BY <2>2, MergedFileIs
  <2>7. Parents(MergedFile(ab, c)) = Parents(MergedFile(a, bc))
    BY <2>1, <2>2, <2>5, <2>6
  <2>8. MergedFile(ab, c) = MergedFile(a, bc)
    BY <2>3, <2>4, <2>5, <2>6, <2>7, SameParentsSameFile
  <2>. QED  BY <2>8 DEF ab, bc
<1>. QED  BY <1>2, <1>3

--------------------------------------------------------------------------------
(* Histories.  The invariant that comparisons need: the blocks hold their  *)
(* histories, which have no cycle, and a cell at a root names a stored     *)
(* root.                                                                   *)

PreviousOf(store) == [b \in store |-> b.previous]

HasHistory(store) ==
  /\ IsFiniteSet(store)
  /\ Closed(PreviousOf(store), store)
  /\ Acyclic(PreviousOf(store))

RootKnown(t, known) == HasCid(t[<<>>]) => t[<<>>].persisted_as \in known

FilesAreFiles(store) == \A b \in store : b.type = "file" => IsFileBlock(b)

MInv ==
  /\ IInv
  /\ HasHistory(blocks)
  /\ FilesAreFiles(blocks)
  /\ \A r \in Replicas : RootKnown(tree[r], roots)
  /\ \A c \in roots : Loaded(c)[<<>>].persisted_as = c

LEMMA HistoryGrows ==
  ASSUME NEW store, HasHistory(store), NEW more, store \subseteq more,
         IsFiniteSet(more), \A b \in more \ store : b.previous \subseteq store
  PROVE  HasHistory(more)
<1> DEFINE P == PreviousOf(store)
           Q == PreviousOf(more)
<1>1. /\ DOMAIN P = store /\ DOMAIN Q = more
      /\ \A b \in store : P[b] = b.previous
      /\ \A b \in more : Q[b] = b.previous
  BY DEF PreviousOf
<1>2. Closed(P, store) /\ Acyclic(P)
  BY DEF HasHistory
<1> HIDE DEF P, Q
<1>3. Closed(Q, store)
  BY <1>1, <1>2 DEF Closed
<1>4. Closed(Q, more)
  BY <1>1, <1>3 DEF Closed
<1>5. ASSUME NEW c \in more PROVE c \notin History(Q, c)
  <2>1. CASE c \in store
    <3>1. History(Q, c) = History(P, c)
      BY <1>1, <1>2, <2>1, HistoryStable
    <3>. QED  BY <1>1, <1>2, <2>1, <3>1 DEF Acyclic
  <2>2. CASE c \notin store
    <3>1. Q[c] \subseteq store /\ store \in SUBSET DOMAIN Q /\ c \in DOMAIN Q
      BY <1>1, <2>2
    <3>2. History(Q, c) \subseteq store
      BY <1>3, <3>1, HistoryIsLeast
    <3>. QED  BY <2>2, <3>2
  <2>. QED  BY <2>1, <2>2
<1>. QED  BY <1>1, <1>4, <1>5 DEF HasHistory, Acyclic, P, Q

LEMMA StoreHasHistory ==
  ASSUME AreBlocks(blocks), HasHistory(blocks), NEW t, Sound(blocks, t)
  PROVE  HasHistory(BlocksWith(t))
<1> DEFINE cids == Cids(t)
           new  == {cids[p] : p \in Serialised(t)}
<1>1. BlocksWith(t) = blocks \cup new
  BY DEF BlocksWith
<1>2. Serialised(t) \subseteq Paths /\ IsFiniteSet(Serialised(t))
  BY PathsAssumption, FS_Subset DEF Serialised
<1>3. ASSUME NEW p \in Serialised(t) PROVE cids[p].previous \subseteq blocks
  <2>1. p \in Paths /\ t[p] # Absent
    BY DEF Serialised
  <2>2. t[p] \in Nodes(blocks)
    BY <2>1 DEF Sound, HasShape
  <2>3. Cids(t)[p].previous = t[p].previous
    BY <2>1, CidsName
  <2>. QED  BY <2>2, <2>3, NodeFields
<1> HIDE DEF cids
<1>4. IsFiniteSet(new)
  BY <1>2, ValuesOf
<1>5. IsFiniteSet(blocks \cup new)
  BY <1>4, FS_Union DEF HasHistory
<1>6. \A b \in (blocks \cup new) \ blocks : b.previous \subseteq blocks
  BY <1>3
<1> HIDE DEF new
<1>7. HasHistory(blocks \cup new)
  BY <1>5, <1>6, HistoryGrows
<1>. QED  BY <1>1, <1>7

(* A file that is stored has a content, a time, finitely many predecessors *)
(* and no entries.                                                         *)
LEMMA StoreKeepsFiles ==
  ASSUME AreBlocks(blocks), HasHistory(blocks), FilesAreFiles(blocks),
         NEW t, Sound(blocks, t)
  PROVE  FilesAreFiles(BlocksWith(t))
<1> SUFFICES ASSUME NEW p \in Serialised(t), Cids(t)[p].type = "file"
             PROVE  IsFileBlock(Cids(t)[p])
  BY DEF FilesAreFiles, BlocksWith
<1> DEFINE entries == [n \in Userland(t, p) |-> Cids(t)[Append(p, n)]]
<1>1. p \in Paths /\ t[p] # Absent /\ ~HasCid(t[p])
  <2>1. p \in Paths /\ t[p] # Absent /\ \A q \in Prefixes(p) : ~HasCid(t[q])
    BY DEF Serialised
  <2>2. p \in Prefixes(p)
    BY <2>1, PathsOf, PrefixOrder, PrefixesAre
  <2>. QED  BY <2>1, <2>2
<1>2. Cids(t)[p] = Block(t[p], entries)
  <2>1. Cids(t)[p] = CidStep(t, Filled(t), Cids(t), p) /\ p \notin Filled(t)
    BY <1>1, CidsStep DEF Filled
  <2>. QED  BY <1>1, <2>1 DEF CidStep
<1> HIDE DEF entries
<1>3. t[p] \in Nodes(blocks) /\ t[p].type = "file"
  BY <1>1, <1>2 DEF Sound, HasShape, Block
<1>4. Userland(t, p) = {}
  <2> SUFFICES ASSUME NEW q \in Paths, q # <<>>, Front(q) = p, t[q] # Absent
               PROVE  FALSE
    BY DEF Userland
  <2>1. t[p].type = "dir"
    BY DEF Sound, HasShape, IsDir, Below
  <2>. QED  BY <1>3, <2>1
<1>5. entries = <<>>
  BY <1>4 DEF entries
<1>6. /\ t[p].content \in Nat /\ t[p].mtime \in Nat /\ t[p].previous \subseteq blocks
  <2>1. /\ t[p].content \in Contents \cup {0} /\ t[p].mtime \in Times
        /\ t[p].previous \subseteq blocks
    BY <1>3 DEF Nodes, NoContent
  <2>2. \A x \in Contents \cup {0} : x \in Nat
    BY ContentsAssumption
  <2>3. \A x \in Times : x \in Nat
    BY TimesAssumption
  <2>. QED  BY ONLY <2>1, <2>2, <2>3
<1>7. IsFiniteSet(t[p].previous)
  BY <1>6, FS_Subset DEF HasHistory
<1>. QED  BY <1>2, <1>3, <1>5, <1>6, <1>7 DEF IsFileBlock, Block

(* Every edit that gets as far as a walk empties the cell of the root.     *)
LEMMA WalkOpensRoot ==
  ASSUME NEW store, NEW t, Sound(store, t), NEW path \in Paths
  PROVE  ~HasCid(LeafDirMut(t, path)[<<>>])
<1>1. <<>> \in Paths /\ IsPrefix(<<>>, path)
  BY PathsOf, PrefixOrder
<1>2. /\ IsOpen(LeafDirMut(t, path), path)
      /\ IsDir(LeafDirMut(t, path), <<>>)
  BY WalkedIsSound DEF Sound, HasShape
<1>. QED  BY <1>1, <1>2 DEF IsOpen

LEMMA EditOpensRoot ==
  ASSUME NEW store, NEW t, Sound(store, t)
  PROVE  /\ \A p \in Below, time \in Times : \A x, y :
              ~HasCid(WithFile(t, p, x, y, time)[<<>>])
         /\ \A p \in Paths, time \in Times : ~HasCid(MadeDir(t, p, time)[<<>>])
         /\ \A p \in Below : ~HasCid(Removed(t, p)[<<>>])
         /\ \A source, from, time : \A to \in Below :
              ~HasCid(Placed(t, source, from, to, time)[<<>>])
<1>1. <<>> \in Paths /\ \A p \in Below : p \in Paths /\ p # <<>> /\ Front(p) \in Paths
  BY PathsAssumption DEF Below
<1>2. ASSUME NEW p \in Paths, NEW time \in Times, ~NotADir(t, p)
      PROVE  ~HasCid(CreateLeafDirMut(t, p, time)[<<>>])
  <2>1. IsPrefix(<<>>, p)
    BY PathsOf, PrefixOrder
  <2>. QED  BY <1>1, <1>2, <2>1, CreatedIsSound
<1>3. ASSUME NEW p \in Below, NEW x, NEW y, NEW time \in Times
      PROVE  ~HasCid(WithFile(t, p, x, y, time)[<<>>])
  <2>1. CASE NotADir(t, Front(p))
    BY <1>1, <2>1, WalkOpensRoot DEF WithFile
  <2>2. CASE ~NotADir(t, Front(p))
    <3>1. WithFile(t, p, x, y, time)[<<>>] = CreateLeafDirMut(t, Front(p), time)[<<>>]
      <4> DEFINE k == CreateLeafDirMut(t, Front(p), time)
                 v == IF t[p] = Absent THEN NewFile(x, time)
                      ELSE IF IsDir(t, p) THEN t[p]
                      ELSE [PrepareNextRevision(t[p]) EXCEPT !.content = y, !.mtime = time]
      <4>1. WithFile(t, p, x, y, time) = [k EXCEPT ![p] = v]
        BY <2>2, Zenon DEF WithFile
      <4>2. <<>> \in DOMAIN k
        BY <1>1 DEF CreateLeafDirMut
      <4> HIDE DEF k, v
      <4>3. [k EXCEPT ![p] = v][<<>>] = k[<<>>]
        BY <1>1, <4>2
      <4>. QED  BY <4>1, <4>3 DEF k
    <3>. QED  BY <1>1, <1>2, <2>2, <3>1
  <2>. QED  BY <2>1, <2>2
<1>4. ASSUME NEW p \in Paths, NEW time \in Times PROVE ~HasCid(MadeDir(t, p, time)[<<>>])
  BY <1>2, WalkOpensRoot DEF MadeDir
<1>5. \A p \in Below : ~IsPrefix(p, <<>>)
  <2>1. \A p \in Below : p \in Seq(Names) /\ IsPrefix(<<>>, p)
    BY <1>1, PathsOf, PrefixOrder
  <2>2. <<>> \in Seq(Names)
    OBVIOUS
  <2>3. \A p \in Below : IsPrefix(p, <<>>) => p = <<>>
    BY <2>1, <2>2, PrefixOrder
  <2>. QED  BY <1>1, <2>3
<1>6. ASSUME NEW p \in Below PROVE ~HasCid(Removed(t, p)[<<>>])
  <2>1. Removed(t, p)[<<>>] = LeafDirMut(t, Front(p))[<<>>]
    BY <1>1, <1>5 DEF Removed
  <2>. QED  BY <1>1, <2>1, WalkOpensRoot
<1>7. ASSUME NEW source, NEW from, NEW time, NEW to \in Below
      PROVE  ~HasCid(Placed(t, source, from, to, time)[<<>>])
  <2> DEFINE w == LeafDirMut(t, Front(to))
  <2>1. ~HasCid(w[<<>>])
    BY <1>1, WalkOpensRoot
  <2>2. Inserted(w, source, from, to, time)[<<>>] = w[<<>>]
    <3> HIDE DEF w
    <3>. QED  BY <1>1, <1>5 DEF Inserted
  <2>3. Placed(t, source, from, to, time) \in {w, Inserted(w, source, from, to, time)}
    BY DEF Placed
  <2>. QED  BY <2>1, <2>2, <2>3
<1>. QED  BY <1>3, <1>4, <1>6, <1>7

LEMMA MoveOpensRoot ==
  ASSUME NEW store, NEW t, Sound(store, t), NEW from \in Below, NEW to \in Below,
         NEW time \in Times
  PROVE  /\ ~HasCid(Moved(t, from, to, time)[<<>>])
         /\ Copied(t, from, to, time) = t \/ ~HasCid(Copied(t, from, to, time)[<<>>])
<1>1. Sound(store, Removed(t, from))
  BY RemovedIsSound
<1>2. ~HasCid(Removed(t, from)[<<>>])
  BY EditOpensRoot
<1>3. \A source : ~HasCid(Placed(Removed(t, from), source, from, to, time)[<<>>])
  BY <1>1, EditOpensRoot
<1>4. ~HasCid(Placed(t, t, from, to, time)[<<>>])
  BY EditOpensRoot
<1>. QED  BY <1>2, <1>3, <1>4 DEF Moved, Copied

LEMMA StoredRoots ==
  ASSUME NEW store, AreBlocks(store), NEW t, Sound(store, t)
  PROVE  /\ Persisted(t)[<<>>].persisted_as = RootCid(t)
         /\ Loaded(RootCid(t))[<<>>].persisted_as = RootCid(t)
<1>1. <<>> \in Paths /\ t[<<>>] # Absent
  BY PathsAssumption DEF Sound, HasShape, IsDir, Absent
<1>2. ASSUME NEW u, IsStored(t, u) PROVE u[<<>>].persisted_as = RootCid(t)
  BY <1>1, <1>2 DEF IsStored, Node, RootCid
<1>. QED  BY <1>2, PersistedIsStored, LoadedIsStored

LEMMA InitMerges == Init => MInv
<1> SUFFICES ASSUME NEW time \in Times,
                    blocks = {RootCid(NewTree(time))}, roots = {RootCid(NewTree(time))},
                    tree = [r \in Replicas |-> Persisted(NewTree(time))],
                    IInv
             PROVE  MInv
  BY InitHolds DEF Init
<1>1. PICK t : t = NewTree(time)
  OBVIOUS
<1>2. \A p \in Paths : t[p] = IF p = <<>> THEN NewDirectory(time) ELSE Absent
  BY <1>1 DEF NewTree
<1>3. NewDirectory(time) \in Nodes({}) /\ NewDirectory(time).type = "dir"
      /\ NewDirectory(time).persisted_as = Unset /\ NewDirectory(time) # Absent
      /\ NewDirectory(time).previous = {}
  BY NewNodes, NodeFields DEF NewDirectory, Node
<1>4. Sound({}, t)
  <2>1. t \in [Paths -> Nodes({}) \cup {Absent}]
    BY <1>1, <1>3 DEF NewTree
  <2>. QED  BY <1>2, <1>3, <2>1, PathsAssumption
            DEF Sound, HasShape, CellsName, HasCid, IsDir, Below
<1>5. AreBlocks({})
  BY DEF AreBlocks
<1>6. PICK c : c = RootCid(t)
  OBVIOUS
<1>7. c.previous = {}
  BY <1>2, <1>3, <1>4, <1>5, <1>6, CidsName, PathsAssumption DEF RootCid
<1>8. HasHistory({})
  BY FS_EmptySet DEF HasHistory, Closed, Acyclic, PreviousOf
<1>9. HasHistory({c})
  <2>1. IsFiniteSet({c}) /\ \A b \in {c} \ {} : b.previous \subseteq {}
    BY <1>7, FS_Singleton
  <2>2. {} \subseteq {c}
    OBVIOUS
  <2>. QED  BY <1>8, <2>1, <2>2, HistoryGrows
<1>10. Persisted(t)[<<>>].persisted_as = c /\ Loaded(c)[<<>>].persisted_as = c
  BY <1>4, <1>5, <1>6, StoredRoots
<1>11. c.type = "dir"
  BY <1>2, <1>3, <1>4, <1>5, <1>6, CidsName, PathsAssumption DEF RootCid
<1>12. FilesAreFiles({c})
  BY <1>11 DEF FilesAreFiles
<1>. QED  BY <1>1, <1>6, <1>9, <1>10, <1>12 DEF MInv, RootKnown

LEMMA EditMerges ==
  ASSUME MInv, IInv', NEW r \in Replicas, NEW t, Becomes(r, t), RootKnown(t, roots)
  PROVE  MInv'
<1>1. tree' = [s \in Replicas |-> IF s = r THEN t ELSE tree[s]]
      /\ blocks' = blocks /\ roots' = roots
  BY DEF Becomes, MInv, IInv
<1>2. \A s \in Replicas : RootKnown(tree'[s], roots')
  BY <1>1 DEF MInv
<1>. QED  BY <1>1, <1>2 DEF MInv

LEMMA StoreMerges ==
  ASSUME MInv, IInv', NEW r \in Replicas, NEW t,
         tree' = [tree EXCEPT ![r] = t], blocks' = BlocksWith(tree[r]),
         roots' = roots \cup {RootCid(tree[r])}, RootKnown(t, roots')
  PROVE  MInv'
<1>0. AreBlocks(blocks) /\ Sound(blocks, tree[r])
  BY DEF MInv, IInv
<1>1. tree' = [s \in Replicas |-> IF s = r THEN t ELSE tree[s]]
  BY DEF MInv, IInv
<1>2. \A s \in Replicas : RootKnown(tree'[s], roots')
  BY <1>1 DEF MInv, RootKnown
<1>3. HasHistory(blocks')
  BY <1>0, StoreHasHistory DEF MInv
<1>4. \A c \in roots' : Loaded(c)[<<>>].persisted_as = c
  BY <1>0, StoredRoots DEF MInv
<1>5. FilesAreFiles(blocks')
  BY <1>0, StoreKeepsFiles DEF MInv
<1>. QED  BY <1>2, <1>3, <1>4, <1>5 DEF MInv

LEMMA StepMerges == MInv /\ [Next]_vars => MInv'
<1> SUFFICES ASSUME MInv, [Next]_vars PROVE MInv'
  OBVIOUS
<1>0. /\ AreBlocks(blocks) /\ \A r \in Replicas : Sound(blocks, tree[r])
      /\ \A c \in roots : Sound(blocks, Loaded(c))
      /\ IInv /\ IInv'
  BY StepHolds DEF MInv, IInv
<1>1. CASE UNCHANGED vars
  BY <1>1, <1>0 DEF vars, MInv
<1>2. ASSUME NEW r \in Replicas, NEW t, Becomes(r, t), t = tree[r] \/ ~HasCid(t[<<>>])
      PROVE  MInv'
  BY <1>0, <1>2, EditMerges DEF RootKnown, MInv
<1>3. ASSUME NEW r \in Replicas, NEW time \in Times, NEW p \in Below, NEW x \in Contents,
             Write(r, p, x, time)
      PROVE  MInv'
  <2>1. ~HasCid(Written(tree[r], p, x, time)[<<>>])
    BY <1>0, EditOpensRoot DEF Written
  <2>. QED  BY <1>2, <1>3, <2>1 DEF Write
<1>4. ASSUME NEW r \in Replicas, NEW time \in Times, NEW p \in Below,
             OpenFileMut(r, p, time)
      PROVE  MInv'
  <2>1. ~HasCid(Opened(tree[r], p, time)[<<>>])
    BY <1>0, EditOpensRoot DEF Opened
  <2>. QED  BY <1>2, <1>4, <2>1 DEF OpenFileMut
<1>5. ASSUME NEW r \in Replicas, NEW time \in Times, NEW p \in Paths, Mkdir(r, p, time)
      PROVE  MInv'
  <2>1. ~HasCid(MadeDir(tree[r], p, time)[<<>>])
    BY <1>0, EditOpensRoot
  <2>. QED  BY <1>2, <1>5, <2>1 DEF Mkdir
<1>6. ASSUME NEW r \in Replicas, NEW time \in Times, NEW from \in Below, NEW to \in Below,
             BasicMv(r, from, to, time) \/ Cp(r, from, to, time)
      PROVE  MInv'
  <2>1. PICK t : /\ t \in {Moved(tree[r], from, to, time), Copied(tree[r], from, to, time)}
                 /\ Becomes(r, t)
    BY <1>6 DEF BasicMv, Cp
  <2>2. t = tree[r] \/ ~HasCid(t[<<>>])
    BY <1>0, <2>1, MoveOpensRoot
  <2>. QED  BY <1>2, <2>1, <2>2
<1>7. ASSUME NEW r \in Replicas, NEW p \in Below, Rm(r, p) PROVE MInv'
  <2>1. ~HasCid(Removed(tree[r], p)[<<>>])
    BY <1>0, EditOpensRoot
  <2>. QED  BY <1>2, <1>7, <2>1 DEF Rm
<1>8. ASSUME NEW r \in Replicas
      PROVE  Persisted(tree[r])[<<>>].persisted_as = RootCid(tree[r])
  BY <1>0, StoredRoots
<1>9. ASSUME NEW r \in Replicas, Store(r) PROVE MInv'
  BY <1>0, <1>8, <1>9, StoreMerges DEF Store, RootKnown
<1>10. ASSUME NEW r \in Replicas, NEW c \in roots, Load(r, c) PROVE MInv'
  <2>1. RootKnown(Loaded(c), roots)
    BY DEF MInv, RootKnown
  <2>. QED  BY <1>0, <1>10, <2>1, EditMerges DEF Load
<1>11. ASSUME NEW r \in Replicas, NEW c \in roots, Reconcile(r, c) PROVE MInv'
  <2>1. PICK ours : ours = Persisted(tree[r])
    OBVIOUS
  <2>2. PICK u : u = Reconciliation(BlocksWith(tree[r]), ours, Loaded(c)).tree
    OBVIOUS
  <2>3. RootKnown(u, roots \cup {RootCid(tree[r])})
    <3>1. PICK fate, orders : fate = Fates(ours, Loaded(c), orders)
          /\ u \in {ours, Loaded(c),
                    [p \in Paths |-> CASE fate[p] = "ours"   -> ours[p]
                                       [] fate[p] = "theirs" -> Loaded(c)[p]
                                       [] OTHER -> MergedNode(ours[p], Loaded(c)[p])]}
      BY <2>2 DEF Reconciliation
    <3>2. <<>> \in Paths /\ fate[<<>>] = "merge"
      <4>1. <<>> \in Paths
        BY PathsAssumption
      <4>2. fate[<<>>] = FateStep(ours, Loaded(c), orders, fate, <<>>)
        BY <3>1, <4>1, FatesStep
      <4>. QED  BY <4>1, <4>2 DEF FateStep
    <3>3. u \in {ours, Loaded(c)} \/ u[<<>>] = MergedNode(ours[<<>>], Loaded(c)[<<>>])
      BY <3>1, <3>2
    <3>4. \A a, b : ~HasCid(MergedNode(a, b))
      BY DEF HasCid, MergedNode, Node
    <3>. QED  BY <1>8, <2>1, <3>3, <3>4 DEF RootKnown, MInv
  <2>. QED  BY <1>0, <1>11, <2>1, <2>2, <2>3, StoreMerges DEF Reconcile
<1>. QED  BY <1>1, <1>3, <1>4, <1>5, <1>6, <1>7, <1>9, <1>10, <1>11 DEF Next

--------------------------------------------------------------------------------
(* Merging either way around.                                              *)

IsLoaded(t) ==
  \A p \in Paths : t[p] # Absent => HasCid(t[p]) /\ t[p] = AsNode(t[p].persisted_as)

LEMMA LoadedIsLoaded ==
  ASSUME NEW c
  PROVE  IsLoaded(Loaded(c))
<1> DEFINE at == CHOOSE h : h = [p \in Paths |-> AtStep(c, h, p)]
<1>1. Loaded(c) = [p \in Paths |-> IF at[p] = Unset THEN Absent ELSE AsNode(at[p])]
  BY DEF Loaded, AtStep
<1> HIDE DEF at
<1>2. \A p \in Paths : at[p] # Unset => AsNode(at[p]).persisted_as = at[p]
  BY DEF AsNode, Node
<1>. QED  BY <1>1, <1>2 DEF IsLoaded, HasCid

(* What two trees have in one directory they have in common below it.      *)
LEMMA SameBelow ==
  ASSUME NEW store, NEW A, Sound(store, A), IsLoaded(A),
         NEW B, Sound(store, B), IsLoaded(B),
         NEW p \in Below, A[Front(p)] = B[Front(p)]
  PROVE  A[p] = B[p]
<1> DEFINE q == Front(p)
           n == Last(p)
<1>1. p \in Paths /\ q \in Paths /\ p = Append(q, n)
  BY PathsOf DEF Below
<1>2. (A[p] # Absent => A[q] # Absent) /\ (B[p] # Absent => B[q] # Absent)
  BY DEF Sound, HasShape, IsDir, Absent
<1> HIDE DEF q, n
<1>3. CASE A[q] = Absent
  BY <1>2, <1>3 DEF q
<1>4. CASE A[q] # Absent
  <2>1. PICK c : c = A[q].persisted_as
    OBVIOUS
  <2>2. A[q] = B[q]
    BY DEF q
  <2>3. Names1(A, q, c) /\ Names1(B, q, c)
    BY <1>1, <1>4, <2>1, <2>2 DEF Sound, CellsName, IsLoaded
  <2>4. /\ n \in DOMAIN c.entries <=> A[p] # Absent
        /\ n \in DOMAIN c.entries <=> B[p] # Absent
    <3>1. \A t : n \in Userland(t, q) <=> Append(q, n) \in Paths /\ t[Append(q, n)] # Absent
      BY <1>1, UserlandOf
    <3>2. DOMAIN c.entries = Userland(A, q) /\ DOMAIN c.entries = Userland(B, q)
      BY <2>3 DEF Names1
    <3>. QED  BY <1>1, <3>1, <3>2
  <2>5. n \in DOMAIN c.entries => A[p].persisted_as = B[p].persisted_as
    BY <1>1, <2>3 DEF Names1
  <2>. QED  BY <1>1, <2>4, <2>5 DEF IsLoaded
<1>. QED  BY <1>3, <1>4

OrderAt(store, A, B, p) ==
  CausalCompare(PreviousOf(store), A[p].persisted_as, B[p].persisted_as)

LEMMA OrdersAre ==
  ASSUME NEW store, NEW A, NEW B, NEW p \in Paths, A[p] # Absent, B[p] # Absent
  PROVE  Orders(store, A, B)[p] = OrderAt(store, A, B, p)
BY DEF Orders, OrderAt, PreviousOf

LEMMA OrdersAreMirrored ==
  ASSUME NEW store, HasHistory(store),
         NEW A, Sound(store, A), IsLoaded(A), NEW B, Sound(store, B), IsLoaded(B),
         NEW p \in Paths, A[p] # Absent, B[p] # Absent
  PROVE  /\ OrderAt(store, B, A, p) = Flipped(OrderAt(store, A, B, p))
         /\ OrderAt(store, A, B, p) = "Equal" => A[p] = B[p]
<1> DEFINE a == A[p].persisted_as
           b == B[p].persisted_as
           P == PreviousOf(store)
<1>1. A[p] \in Nodes(store) /\ B[p] \in Nodes(store) /\ HasCid(A[p]) /\ HasCid(B[p])
  BY DEF Sound, HasShape, IsLoaded
<1>2. a \in store /\ b \in store
  BY <1>1, NodeFields DEF HasCid
<1>3. A[p] = AsNode(a) /\ B[p] = AsNode(b)
  BY DEF IsLoaded
<1>4. DOMAIN P = store /\ Closed(P, DOMAIN P) /\ IsFiniteSet(DOMAIN P) /\ Acyclic(P)
  BY DEF HasHistory, PreviousOf
<1> HIDE DEF a, b, P
<1>5. CausalCompare(P, b, a) = Flipped(CausalCompare(P, a, b))
  BY <1>2, <1>4, CompareIsMirrored
<1>6. CausalCompare(P, a, b) = "Equal" => a = b
  BY <1>2, <1>4, CompareIsSound
<1>. QED  BY <1>3, <1>5, <1>6 DEF OrderAt, a, b, P

(* The fate of a path, seen from either side.                              *)
IsMirror(A, B, f, g, p) ==
  \/ f[p] = "merge" /\ g[p] = "merge"
  \/ f[p] = "ours" /\ g[p] = "theirs"
  \/ f[p] = "theirs" /\ g[p] = "ours"
  \/ A[p] = B[p] /\ f[p] \in {"ours", "theirs"} /\ g[p] \in {"ours", "theirs"}

LEMMA SideIsMirrored ==
  ASSUME NEW order, NEW our, NEW other, our.type \in {"dir", "file"},
         other.type \in {"dir", "file"}, order # "Equal",
         NEW s, s = Side(order, our, other),
         NEW t, t = Side(Flipped(order), other, our)
  PROVE  \/ s = "merge" /\ t = "merge"
         \/ s = "ours" /\ t = "theirs"
         \/ s = "theirs" /\ t = "ours"
<1>1. CASE order = "Less"
  BY <1>1 DEF Side, Flipped
<1>2. CASE order = "Greater"
  BY <1>2 DEF Side, Flipped
<1>3. CASE order # "Less" /\ order # "Greater"
  <2>1. Flipped(order) = order
    BY <1>3 DEF Flipped
  <2>2. /\ s = IF our.type = other.type THEN "merge"
               ELSE IF our.type = "dir" THEN "ours" ELSE "theirs"
        /\ t = IF other.type = our.type THEN "merge"
               ELSE IF other.type = "dir" THEN "ours" ELSE "theirs"
    BY <1>3, <2>1 DEF Side
  <2>. QED  BY <2>2
<1>. QED  BY <1>1, <1>2, <1>3

LEMMA MirrorStep ==
  ASSUME NEW store, HasHistory(store),
         NEW A, Sound(store, A), IsLoaded(A), NEW B, Sound(store, B), IsLoaded(B),
         NEW f, f = Fates(A, B, Orders(store, A, B)),
         NEW g, g = Fates(B, A, Orders(store, B, A)),
         NEW p \in Below, IsMirror(A, B, f, g, Front(p))
  PROVE  IsMirror(A, B, f, g, p)
<1>1. p \in Paths /\ p # <<>>
  BY DEF Below
<1>2. /\ f[p] = FateStep(A, B, Orders(store, A, B), f, p)
      /\ g[p] = FateStep(B, A, Orders(store, B, A), g, p)
  BY <1>1, FatesStep
<1>3. CASE A[Front(p)] = B[Front(p)] /\ f[Front(p)] \in {"ours", "theirs"}
           /\ g[Front(p)] \in {"ours", "theirs"}
  <2>1. A[p] = B[p]
    BY <1>3, SameBelow
  <2>. QED  BY <1>1, <1>2, <1>3, <2>1 DEF FateStep, IsMirror
<1>4. CASE f[Front(p)] = "ours" /\ g[Front(p)] = "theirs"
  BY <1>1, <1>2, <1>4 DEF FateStep, IsMirror
<1>5. CASE f[Front(p)] = "theirs" /\ g[Front(p)] = "ours"
  BY <1>1, <1>2, <1>5 DEF FateStep, IsMirror
<1>6. CASE f[Front(p)] = "merge" /\ g[Front(p)] = "merge"
  <2>1. /\ f[p] = IF B[p] = Absent THEN "ours" ELSE IF A[p] = Absent THEN "theirs"
                  ELSE Side(Orders(store, A, B)[p], A[p], B[p])
        /\ g[p] = IF A[p] = Absent THEN "ours" ELSE IF B[p] = Absent THEN "theirs"
                  ELSE Side(Orders(store, B, A)[p], B[p], A[p])
    BY <1>1, <1>2, <1>6 DEF FateStep
  <2>2. CASE A[p] = Absent \/ B[p] = Absent
    BY <2>1, <2>2 DEF IsMirror
  <2>3. CASE A[p] # Absent /\ B[p] # Absent
    <3> DEFINE order == OrderAt(store, A, B, p)
    <3>1. /\ f[p] = Side(order, A[p], B[p])
          /\ g[p] = Side(Flipped(order), B[p], A[p])
          /\ order = "Equal" => A[p] = B[p]
      BY <1>1, <2>1, <2>3, OrdersAre, OrdersAreMirrored
    <3>2. A[p].type \in {"dir", "file"} /\ B[p].type \in {"dir", "file"}
      <4>1. A[p] \in Nodes(store) /\ B[p] \in Nodes(store)
        BY <1>1, <2>3 DEF Sound, HasShape
      <4>. QED  BY <4>1, NodeFields
    <3> HIDE DEF order
    <3>3. CASE order = "Equal"
      <4>1. f[p] = "ours" /\ g[p] = "ours"
        BY <3>1, <3>3 DEF Side, Flipped
      <4>. QED  BY <3>1, <3>3, <4>1 DEF IsMirror
    <3>4. CASE order # "Equal"
      BY <3>1, <3>2, <3>4, SideIsMirrored DEF IsMirror
    <3>. QED  BY <3>3, <3>4
  <2>. QED  BY <2>2, <2>3
<1>. QED  BY <1>3, <1>4, <1>5, <1>6 DEF IsMirror

LEMMA FatesAreMirrored ==
  ASSUME NEW store, HasHistory(store),
         NEW A, Sound(store, A), IsLoaded(A), NEW B, Sound(store, B), IsLoaded(B),
         NEW f, f = Fates(A, B, Orders(store, A, B)),
         NEW g, g = Fates(B, A, Orders(store, B, A)),
         NEW p \in Paths
  PROVE  IsMirror(A, B, f, g, p)
<1> DEFINE S == {k \in Nat : \A q \in Paths : Len(q) = k => IsMirror(A, B, f, g, q)}
<1>1. 0 \in S
  <2>1. \A q \in Paths : Len(q) = 0 => q = <<>>
    BY PathsOf, EmptySeq
  <2>2. <<>> \in Paths
    BY PathsAssumption
  <2>3. /\ f[<<>>] = FateStep(A, B, Orders(store, A, B), f, <<>>)
        /\ g[<<>>] = FateStep(B, A, Orders(store, B, A), g, <<>>)
    BY <2>2, FatesStep
  <2>. QED  BY <2>1, <2>3 DEF FateStep, IsMirror
<1>2. p \in Seq(Names) /\ Len(p) \in Nat
  BY PathsOf, LenProperties
<1>3. ASSUME NEW i \in 0 .. Len(p) - 1, i \in S PROVE i + 1 \in S
  <2> SUFFICES ASSUME NEW q \in Paths, Len(q) = i + 1 PROVE IsMirror(A, B, f, g, q)
    OBVIOUS
  <2>1. q # <<>> /\ q \in Seq(Names) /\ Front(q) \in Paths /\ q \in Below
    BY PathsOf, EmptySeq DEF Below
  <2>2. Len(Front(q)) = i
    BY <2>1, FrontOf
  <2>3. IsMirror(A, B, f, g, Front(q))
    BY <1>3, <2>1, <2>2
  <2>. QED  BY <2>1, <2>3, MirrorStep
<1> HIDE DEF S
<1>4. \A i \in 0 .. Len(p) : i \in S
  BY <1>1, <1>2, <1>3, HoldsUpTo
<1>5. Len(p) \in S
  BY <1>2, <1>4
<1>. QED  BY <1>5 DEF S

LEMMA MergedNodeCommutes ==
  ASSUME NEW store, NEW our \in Nodes(store), NEW other \in Nodes(store),
         our.type = other.type
  PROVE  MergedNode(our, other) = MergedNode(other, our)
<1>1. /\ our.content \in Nat /\ other.content \in Nat
      /\ our.mtime \in Nat /\ other.mtime \in Nat
  <2>1. ASSUME NEW node \in Nodes(store) PROVE node.content \in Nat /\ node.mtime \in Nat
    <3>1. node.content \in Contents \cup {NoContent} /\ node.mtime \in Times
      BY NodeFields
    <3>2. Contents \subseteq Nat /\ Times \subseteq Nat /\ NoContent \in Nat
      BY ContentsAssumption, TimesAssumption DEF NoContent
    <3>. QED  BY <3>1, <3>2
  <2>. QED  BY <2>1
<1> DEFINE w(a, b) == IF a.content <= b.content THEN a ELSE b
           m(a, b) == IF a.content = b.content THEN Lower(a.mtime, b.mtime)
                      ELSE w(a, b).mtime
<1>2. \A a, b : MergedNode(a, b) =
                  Node(a.type, w(a, b).content, m(a, b), MergedPrevious(a, b), Unset)
  BY DEF MergedNode
<1>3. w(our, other).content = w(other, our).content
  BY <1>1
<1>4. m(our, other) = m(other, our)
  BY <1>1 DEF Lower
<1>5. MergedPrevious(our, other) = MergedPrevious(other, our)
  BY DEF MergedPrevious
<1> HIDE DEF w, m
<1>. QED  BY <1>2, <1>3, <1>4, <1>5

MergedTree(A, B, fate) ==
  [p \in Paths |-> CASE fate[p] = "ours"   -> A[p]
                     [] fate[p] = "theirs" -> B[p]
                     [] OTHER -> MergedNode(A[p], B[p])]

LEMMA MergedTreesAgree ==
  ASSUME NEW store, HasHistory(store),
         NEW A, Sound(store, A), IsLoaded(A), NEW B, Sound(store, B), IsLoaded(B),
         NEW f, f = Fates(A, B, Orders(store, A, B)),
         NEW g, g = Fates(B, A, Orders(store, B, A))
  PROVE  MergedTree(A, B, f) = MergedTree(B, A, g)
<1> DEFINE u == MergedTree(A, B, f)
           v == MergedTree(B, A, g)
<1>1. u = [p \in Paths |-> u[p]] /\ v = [p \in Paths |-> v[p]]
  BY DEF MergedTree
<1>2. ASSUME NEW p \in Paths PROVE u[p] = v[p]
  <2>1. IsMirror(A, B, f, g, p)
    BY FatesAreMirrored
  <2>2. /\ f[p] = "ours" => u[p] = A[p]
        /\ f[p] = "theirs" => u[p] = B[p]
        /\ f[p] = "merge" => u[p] = MergedNode(A[p], B[p])
        /\ g[p] = "ours" => v[p] = B[p]
        /\ g[p] = "theirs" => v[p] = A[p]
        /\ g[p] = "merge" => v[p] = MergedNode(B[p], A[p])
    BY DEF MergedTree
  <2> HIDE DEF u, v
  <2>3. f[p] = "merge" => MergedNode(A[p], B[p]) = MergedNode(B[p], A[p])
    <3> SUFFICES ASSUME f[p] = "merge"
                 PROVE  MergedNode(A[p], B[p]) = MergedNode(B[p], A[p])
      OBVIOUS
    <3>1. IsFate(A, B, f, p)
      BY FatesAre DEF Sound, HasShape
    <3>2. /\ A[p] \in Nodes(store) /\ B[p] \in Nodes(store)
          /\ A[p].type = B[p].type
      BY <3>1 DEF IsFate, Sound, HasShape
    <3>. QED  BY <3>2, MergedNodeCommutes
  <2>. QED  BY <2>1, <2>2, <2>3 DEF IsMirror
<1> HIDE DEF u, v
<1>3. u = v
  BY <1>1, <1>2
<1>. QED  BY <1>3 DEF u, v

LEMMA ReconciliationOf ==
  ASSUME NEW store, NEW A, NEW B, NEW order, order = Orders(store, A, B)[<<>>],
         NEW fate, fate = Fates(A, B, Orders(store, A, B)),
         NEW m, m = Reconciliation(store, A, B)
  PROVE  /\ order \in {"Equal", "Greater"} => m.tree = A /\ m.file_tie_breaks = {}
         /\ order = "Less" => m.tree = B /\ m.file_tie_breaks = {}
         /\ order \notin {"Equal", "Greater", "Less"} =>
              /\ m.tree = MergedTree(A, B, fate)
              /\ m.file_tie_breaks = {p \in Paths : fate[p] = "merge" /\ IsFile(A, p)}
<1>1. CASE order \in {"Equal", "Greater"}
  BY <1>1 DEF Reconciliation
<1>2. CASE order = "Less"
  BY <1>2 DEF Reconciliation
<1>3. CASE order \notin {"Equal", "Greater", "Less"}
  BY <1>3 DEF Reconciliation, MergedTree
<1>. QED  BY <1>1, <1>2, <1>3

(* reconcile (wnfs/src/public/directory.rs) of two stored roots gives the  *)
(* same root whichever side does it: replicas that reconcile with each     *)
(* other agree, whatever was edited, merged, stored and loaded before.     *)
(* PublicFile::merge of the files that were stored on the way gives the    *)
(* same file in any order, merge nodes or not.                             *)
THEOREM MergingCommutes == Spec => []MergeCommutes
<1>1. MInv => MergesAgree({b \in blocks : b.type = "file"})
  BY FileMergeIsCommutativeAndAssociative DEF MInv, FilesAreFiles
<1>2. MInv => MergeCommutes
  <2> SUFFICES ASSUME MInv, NEW a \in Stored, NEW b \in roots
               PROVE  Merge(blocks, a, b).tree = Merge(blocks, b, a).tree
    BY <1>1 DEF MergeCommutes
  <2>1. a \in roots
    BY DEF Stored, MInv, RootKnown
  <2> DEFINE A == Loaded(a)
             B == Loaded(b)
             o == Orders(blocks, A, B)[<<>>]
             u == Orders(blocks, B, A)[<<>>]
             f == Fates(A, B, Orders(blocks, A, B))
             g == Fates(B, A, Orders(blocks, B, A))
  <2>2. /\ HasHistory(blocks) /\ Sound(blocks, A) /\ IsLoaded(A)
        /\ Sound(blocks, B) /\ IsLoaded(B)
        /\ A[<<>>].persisted_as = a /\ B[<<>>].persisted_as = b
    BY <2>1, LoadedIsLoaded DEF MInv, IInv
  <2>3. <<>> \in Paths /\ A[<<>>] # Absent /\ B[<<>>] # Absent
    BY <2>2, PathsAssumption DEF Sound, HasShape, IsDir, Absent
  <2>4. u = Flipped(o) /\ (o = "Equal" => A = B)
    <3> HIDE DEF A, B
    <3>1. /\ o = OrderAt(blocks, A, B, <<>>) /\ u = OrderAt(blocks, B, A, <<>>)
      BY <2>3, OrdersAre
    <3>2. u = Flipped(o) /\ (o = "Equal" => A[<<>>] = B[<<>>])
      BY <2>2, <2>3, <3>1, OrdersAreMirrored
    <3>3. A[<<>>] = B[<<>>] => A = B
      BY <2>2 DEF A, B
    <3>. QED  BY <3>2, <3>3
  <2>5. MergedTree(A, B, f) = MergedTree(B, A, g)
    BY <2>2, MergedTreesAgree
  <2> DEFINE m == Reconciliation(blocks, A, B)
             n == Reconciliation(blocks, B, A)
  <2>6. /\ o \in {"Equal", "Greater"} => m.tree = A
        /\ o = "Less" => m.tree = B
        /\ o \notin {"Equal", "Greater", "Less"} => m.tree = MergedTree(A, B, f)
    BY ReconciliationOf
  <2>7. /\ u \in {"Equal", "Greater"} => n.tree = B
        /\ u = "Less" => n.tree = A
        /\ u \notin {"Equal", "Greater", "Less"} => n.tree = MergedTree(B, A, g)
    BY ReconciliationOf
  <2>8. m = Merge(blocks, a, b) /\ n = Merge(blocks, b, a)
    BY DEF Merge
  <2> HIDE DEF A, B, o, u, f, g, m, n
  <2>9. m.tree = n.tree
    <3>1. CASE o = "Equal"
      BY <2>4, <2>6, <2>7, <3>1 DEF Flipped
    <3>2. CASE o = "Greater"
      BY <2>4, <2>6, <2>7, <3>2 DEF Flipped
    <3>3. CASE o = "Less"
      BY <2>4, <2>6, <2>7, <3>3 DEF Flipped
    <3>4. CASE o \notin {"Equal", "Greater", "Less"}
      BY <2>4, <2>5, <2>6, <2>7, <3>4 DEF Flipped
    <3>. QED  BY <3>1, <3>2, <3>3, <3>4
  <2>. QED  BY <2>8, <2>9
<1>. QED  BY <1>2, InitMerges, StepMerges, PTL DEF Spec

--------------------------------------------------------------------------------
(* What a root leads to.  The blocks are finitely many, so that going on   *)
(* once for each of them gets everywhere.                                  *)

More(S) == S \cup UNION {b.previous \cup Range(b.entries) : b \in S}

IsReach(c, f, k) ==
  /\ f = [i \in 0 .. k |-> f[i]]
  /\ f[0] = {c}
  /\ \A i \in 1 .. k : f[i] = More(f[i - 1])

LEMMA ReachableRuns ==
  ASSUME NEW c, IsFiniteSet(blocks)
  PROVE  \E k \in Nat : \E f : /\ k = Cardinality(blocks) /\ IsReach(c, f, k)
                               /\ Reachable(c) = f[k]
<1> DEFINE k == Cardinality(blocks)
           F(h) == [i \in 0 .. k |-> IF i = 0 THEN {c} ELSE More(h[i - 1])]
           reach == CHOOSE h : h = F(h)
           S == {i \in Nat : \E f : IsReach(c, f, i)}
<1>1. k \in Nat
  BY FS_CardinalityType
<1>2. Reachable(c) = reach[k]
  BY DEF Reachable, More
<1> HIDE DEF k
<1>3. 0 \in S
  <2> DEFINE f == [i \in 0 .. 0 |-> {c}]
  <2>1. IsReach(c, f, 0)
    BY DEF IsReach
  <2>. QED  BY <2>1
<1>4. ASSUME NEW i \in Nat, i \in S PROVE i + 1 \in S
  <2>1. PICK f : IsReach(c, f, i)
    BY <1>4
  <2> DEFINE g == [j \in 0 .. i + 1 |-> IF j = i + 1 THEN More(f[i]) ELSE f[j]]
  <2>2. \A j \in 0 .. i : g[j] = f[j]
    OBVIOUS
  <2>3. g[i + 1] = More(f[i]) /\ g[0] = {c}
    BY <2>1, <2>2 DEF IsReach
  <2>4. ASSUME NEW j \in 1 .. i + 1 PROVE g[j] = More(g[j - 1])
    <3>1. CASE j = i + 1
      BY <2>2, <2>3, <3>1
    <3>2. CASE j # i + 1
      <4>1. j \in 1 .. i /\ j \in 0 .. i /\ j - 1 \in 0 .. i
        BY <3>2
      <4>2. f[j] = More(f[j - 1])
        BY <2>1, <4>1 DEF IsReach
      <4>3. g[j] = f[j] /\ g[j - 1] = f[j - 1]
        BY <2>2, <4>1
      <4>. QED  BY <4>2, <4>3
    <3>. QED  BY <3>1, <3>2
  <2>5. g = [j \in 0 .. i + 1 |-> g[j]]
    OBVIOUS
  <2> HIDE DEF g
  <2>6. IsReach(c, g, i + 1)
    BY <2>3, <2>4, <2>5 DEF IsReach
  <2>. QED  BY <2>6
<1> HIDE DEF S
<1>5. \A i \in 0 .. k : i \in S
  BY <1>1, <1>3, <1>4, HoldsUpTo
<1>6. PICK f : IsReach(c, f, k)
  BY <1>1, <1>5 DEF S
<1>7. f = F(f)
  <2>1. f = [i \in 0 .. k |-> f[i]] /\ F(f) = [i \in 0 .. k |-> F(f)[i]]
    BY <1>6 DEF IsReach
  <2>2. ASSUME NEW i \in 0 .. k PROVE f[i] = F(f)[i]
    <3>1. CASE i = 0
      BY <1>6, <3>1 DEF IsReach
    <3>2. CASE i # 0
      <4>1. i \in 1 .. k
        BY <1>1, <3>2
      <4>2. f[i] = More(f[i - 1])
        BY <1>6, <4>1 DEF IsReach
      <4>. QED  BY <3>2, <4>2
    <3>. QED  BY <3>1, <3>2
  <2> HIDE DEF F
  <2>. QED  BY <2>1, <2>2
<1>8. reach = F(reach)
  BY <1>7
<1> HIDE DEF reach
<1>9. IsReach(c, reach, k)
  <2>1. reach = [i \in 0 .. k |-> reach[i]] /\ reach[0] = {c}
    BY <1>1, <1>8
  <2>2. ASSUME NEW i \in 1 .. k PROVE reach[i] = More(reach[i - 1])
    <3>1. i \in 0 .. k /\ i # 0
      BY <1>1
    <3>2. F(reach)[i] = More(reach[i - 1])
      BY <3>1
    <3> HIDE DEF F
    <3>. QED  BY <1>8, <3>2
  <2>. QED  BY <2>1, <2>2 DEF IsReach
<1>. QED  BY <1>1, <1>2, <1>9 DEF k

LEMMA ReachableIsClosed ==
  ASSUME AreBlocks(blocks), HasHistory(blocks), NEW c \in blocks,
         NEW R, R = Reachable(c)
  PROVE  /\ c \in R /\ R \subseteq blocks
         /\ \A b \in R : /\ b.previous \subseteq R
                         /\ \A n \in DOMAIN b.entries : b.entries[n] \in R
<1>1. IsFiniteSet(blocks)
  BY DEF HasHistory
<1>0. PICK k \in Nat : \E f : /\ k = Cardinality(blocks)
                              /\ IsReach(c, f, k)
                              /\ R = f[k]
  BY <1>1, ReachableRuns
<1>2. PICK f : /\ k = Cardinality(blocks)
               /\ IsReach(c, f, k)
               /\ R = f[k]
  BY <1>0
<1>3. \A b \in blocks : /\ b.previous \subseteq blocks
                       /\ \A n \in DOMAIN b.entries : b.entries[n] \in blocks
  BY DEF AreBlocks, HasHistory, Closed, PreviousOf
<1>4. ASSUME NEW T \in SUBSET blocks PROVE T \subseteq More(T) /\ More(T) \subseteq blocks
  BY <1>3 DEF More, Range
<1> DEFINE S == {i \in 0 .. k : /\ f[i] \subseteq blocks /\ c \in f[i]
                                /\ More(f[i]) = f[i] \/ Cardinality(f[i]) >= i + 1}
<1>5. 0 \in S
  <2>1. f[0] = {c}
    BY <1>2 DEF IsReach
  <2>2. Cardinality({c}) = 1
    BY FS_Singleton
  <2>. QED  BY <2>1, <2>2
<1>6. ASSUME NEW i \in 0 .. k - 1, i \in S PROVE i + 1 \in S
  <2>1. i + 1 \in 1 .. k /\ (i + 1) - 1 = i /\ i + 1 \in 0 .. k
    OBVIOUS
  <2>2. f[i + 1] = More(f[i])
    BY <1>2, <2>1 DEF IsReach
  <2>3. f[i] \subseteq f[i + 1] /\ f[i + 1] \subseteq blocks /\ c \in f[i + 1]
    BY <1>4, <1>6, <2>2
  <2>4. CASE More(f[i]) = f[i]
    BY <2>1, <2>2, <2>3, <2>4
  <2>5. CASE More(f[i]) # f[i]
    <3> DEFINE m == Cardinality(f[i])
               n == Cardinality(f[i + 1])
    <3>1. IsFiniteSet(f[i]) /\ IsFiniteSet(f[i + 1])
      BY <1>1, <2>3, FS_Subset
    <3>2. m \in Nat /\ n \in Nat /\ m <= n
      BY <2>3, <3>1, FS_Subset, FS_CardinalityType
    <3>3. m # n
      BY <2>2, <2>3, <2>5, <3>1, FS_Subset
    <3>4. m >= i + 1
      BY <1>6, <2>5
    <3> HIDE DEF m, n
    <3>5. n >= (i + 1) + 1
      BY <3>2, <3>3, <3>4
    <3>. QED  BY <2>1, <2>3, <3>5 DEF n
  <2>. QED  BY <2>4, <2>5
<1> HIDE DEF S
<1>7. \A i \in 0 .. k : i \in S
  BY <1>5, <1>6, HoldsUpTo
<1>8. R \subseteq blocks /\ c \in R /\ (More(R) = R \/ Cardinality(R) >= k + 1)
  BY <1>2, <1>7 DEF S
<1>9. More(R) = R
  <2>1. Cardinality(R) <= k /\ Cardinality(R) \in Nat
    BY <1>1, <1>2, <1>8, FS_Subset, FS_CardinalityType
  <2>. QED  BY <1>8, <2>1
<1>. QED  BY <1>8, <1>9 DEF More, Range

IsClosed(R) ==
  \A b \in R : b.previous \subseteq R /\ \A n \in DOMAIN b.entries : b.entries[n] \in R

LEMMA EntryIsIn ==
  ASSUME NEW store, NEW t, Sound(store, t), IsLoaded(t), NEW R, IsClosed(R),
         NEW p \in Below, t[p] # Absent, t[Front(p)].persisted_as \in R
  PROVE  t[p].persisted_as \in R
<1> DEFINE q == Front(p)
           n == Last(p)
<1>1. p \in Paths /\ q \in Paths /\ p = Append(q, n)
  BY PathsOf DEF Below
<1>2. t[q] # Absent
  BY DEF Sound, HasShape, IsDir, Absent
<1> HIDE DEF q, n
<1>3. PICK c : c = t[q].persisted_as
  OBVIOUS
<1>4. Names1(t, q, c)
  BY <1>1, <1>2, <1>3 DEF Sound, CellsName, IsLoaded
<1>5. n \in DOMAIN c.entries
  BY <1>1, <1>4, UserlandOf DEF Names1
<1>6. t[p].persisted_as = c.entries[n]
  BY <1>1, <1>4, <1>5 DEF Names1
<1>7. c \in R
  BY <1>3 DEF q
<1>. QED  BY <1>5, <1>6, <1>7 DEF IsClosed

LEMMA TreeIsIn ==
  ASSUME NEW store, NEW t, Sound(store, t), IsLoaded(t), NEW R, IsClosed(R),
         t[<<>>].persisted_as \in R, NEW p \in Paths, t[p] # Absent
  PROVE  t[p].persisted_as \in R
<1> DEFINE S == {k \in Nat : \A q \in Paths : Len(q) = k /\ t[q] # Absent =>
                                                t[q].persisted_as \in R}
<1>1. 0 \in S
  <2>1. \A q \in Paths : Len(q) = 0 => q = <<>>
    BY PathsOf, EmptySeq
  <2>. QED  BY <2>1
<1>2. p \in Seq(Names) /\ Len(p) \in Nat
  BY PathsOf, LenProperties
<1>3. ASSUME NEW i \in 0 .. Len(p) - 1, i \in S PROVE i + 1 \in S
  <2> SUFFICES ASSUME NEW q \in Paths, Len(q) = i + 1, t[q] # Absent
               PROVE  t[q].persisted_as \in R
    OBVIOUS
  <2>1. q # <<>> /\ q \in Seq(Names) /\ Front(q) \in Paths /\ q \in Below
    BY PathsOf, EmptySeq DEF Below
  <2>2. Len(Front(q)) = i
    BY <2>1, FrontOf
  <2>3. t[Front(q)] # Absent
    BY <2>1 DEF Sound, HasShape, IsDir, Absent
  <2>4. t[Front(q)].persisted_as \in R
    BY <1>3, <2>1, <2>2, <2>3
  <2>. QED  BY <2>1, <2>4, EntryIsIn
<1> HIDE DEF S
<1>4. \A i \in 0 .. Len(p) : i \in S
  BY <1>1, <1>2, <1>3, HoldsUpTo
<1>5. Len(p) \in S
  BY <1>2, <1>4
<1>. QED  BY <1>5 DEF S

LEMMA HistoryIsIn ==
  ASSUME NEW store, HasHistory(store), NEW R \in SUBSET store, IsClosed(R), NEW c \in R
  PROVE  History(PreviousOf(store), c) \subseteq R
<1> DEFINE P == PreviousOf(store)
<1>1. DOMAIN P = store /\ \A b \in store : P[b] = b.previous
  BY DEF PreviousOf
<1> HIDE DEF P
<1>2. R \in SUBSET DOMAIN P /\ c \in DOMAIN P /\ P[c] \subseteq R /\ Closed(P, R)
  BY <1>1 DEF IsClosed, Closed
<1>3. History(P, c) \subseteq R
  BY <1>2, HistoryIsLeast
<1>. QED  BY <1>3 DEF P

(* What an order says about what each side has seen.                       *)
LEMMA OrderIsSeen ==
  ASSUME NEW store, HasHistory(store),
         NEW A, Sound(store, A), IsLoaded(A), NEW B, Sound(store, B), IsLoaded(B),
         NEW p \in Paths, A[p] # Absent, B[p] # Absent,
         NEW Ra \in SUBSET store, IsClosed(Ra), A[p].persisted_as \in Ra,
         NEW Rb \in SUBSET store, IsClosed(Rb), B[p].persisted_as \in Rb,
         NEW order, order = OrderAt(store, A, B, p)
  PROVE  /\ order \in {"Equal", "Greater"} => B[p].persisted_as \in Ra
         /\ order = "Less" => A[p].persisted_as \in Rb
<1> DEFINE a == A[p].persisted_as
           b == B[p].persisted_as
           P == PreviousOf(store)
<1>1. DOMAIN P = store /\ Closed(P, DOMAIN P) /\ IsFiniteSet(DOMAIN P)
  BY DEF HasHistory, PreviousOf
<1>2. History(P, a) \subseteq Ra /\ History(P, b) \subseteq Rb
  BY HistoryIsIn
<1>3. order = CausalCompare(P, a, b) /\ a \in store /\ b \in store
  BY DEF OrderAt
<1> HIDE DEF a, b, P
<1>4. /\ order = "Equal" <=> a = b
      /\ order = "Less" => a \in History(P, b)
      /\ order = "Greater" => b \in History(P, a)
  BY <1>1, <1>3, CompareIsSound
<1>5. a \in Ra /\ b \in Rb
  BY DEF a, b
<1>6. (order \in {"Equal", "Greater"} => b \in Ra) /\ (order = "Less" => a \in Rb)
  BY <1>2, <1>4, <1>5
<1>. QED  BY <1>6 DEF a, b

(* Whose node is not in the result was seen by the other side, or gives    *)
(* way to a directory.                                                     *)
GivesWay(A, B, f, Ra, Rb, p) ==
  /\ f[p] = "ours" /\ B[p] # Absent =>
       B[p].persisted_as \in Ra \/ (IsFile(B, p) /\ IsDir(A, p))
  /\ f[p] = "theirs" /\ A[p] # Absent =>
       A[p].persisted_as \in Rb \/ (IsFile(A, p) /\ IsDir(B, p))

LEMMA GivesWayStep ==
  ASSUME NEW store, HasHistory(store),
         NEW A, Sound(store, A), IsLoaded(A), NEW B, Sound(store, B), IsLoaded(B),
         NEW Ra \in SUBSET store, IsClosed(Ra), A[<<>>].persisted_as \in Ra,
         NEW Rb \in SUBSET store, IsClosed(Rb), B[<<>>].persisted_as \in Rb,
         NEW f, f = Fates(A, B, Orders(store, A, B)),
         NEW p \in Below, GivesWay(A, B, f, Ra, Rb, Front(p))
  PROVE  GivesWay(A, B, f, Ra, Rb, p)
<1>1. p \in Paths /\ p # <<>> /\ Front(p) \in Paths
  BY PathsOf DEF Below
<1>2. f[p] = FateStep(A, B, Orders(store, A, B), f, p)
  BY <1>1, FatesStep
<1>3. /\ A[p] # Absent => IsDir(A, Front(p)) /\ A[Front(p)] # Absent
                          /\ ~IsFile(A, Front(p))
      /\ B[p] # Absent => IsDir(B, Front(p)) /\ B[Front(p)] # Absent
                          /\ ~IsFile(B, Front(p))
  BY DEF Sound, HasShape, IsDir, IsFile, Absent
<1>4. CASE f[Front(p)] # "merge"
  <2>1. f[p] = f[Front(p)]
    BY <1>1, <1>2, <1>4 DEF FateStep
  <2>2. ASSUME f[p] = "ours", B[p] # Absent PROVE B[p].persisted_as \in Ra
    <3>1. B[Front(p)].persisted_as \in Ra
      BY <1>3, <2>1, <2>2 DEF GivesWay
    <3>. QED  BY <2>2, <3>1, EntryIsIn
  <2>3. ASSUME f[p] = "theirs", A[p] # Absent PROVE A[p].persisted_as \in Rb
    <3>1. A[Front(p)].persisted_as \in Rb
      BY <1>3, <2>1, <2>3 DEF GivesWay
    <3>. QED  BY <2>3, <3>1, EntryIsIn
  <2>. QED  BY <2>2, <2>3 DEF GivesWay
<1>5. CASE f[Front(p)] = "merge" /\ (A[p] = Absent \/ B[p] = Absent)
  BY <1>1, <1>2, <1>5 DEF FateStep, GivesWay
<1>6. CASE f[Front(p)] = "merge" /\ A[p] # Absent /\ B[p] # Absent
  <2> DEFINE order == OrderAt(store, A, B, p)
  <2>1. f[p] = Side(order, A[p], B[p])
    BY <1>1, <1>2, <1>6, OrdersAre DEF FateStep
  <2>2. A[p].persisted_as \in Ra /\ B[p].persisted_as \in Rb
    BY <1>1, <1>6, TreeIsIn
  <2>3. /\ order \in {"Equal", "Greater"} => B[p].persisted_as \in Ra
        /\ order = "Less" => A[p].persisted_as \in Rb
    BY <1>1, <1>6, <2>2, OrderIsSeen
  <2>4. A[p].type \in {"dir", "file"} /\ B[p].type \in {"dir", "file"}
    <3>1. A[p] \in Nodes(store) /\ B[p] \in Nodes(store)
      BY <1>1, <1>6 DEF Sound, HasShape
    <3>. QED  BY <3>1, NodeFields
  <2> HIDE DEF order
  <2>5. CASE order \in {"Equal", "Greater"}
    BY <2>1, <2>3, <2>5 DEF Side, GivesWay
  <2>6. CASE order = "Less"
    BY <2>1, <2>3, <2>6 DEF Side, GivesWay
  <2>7. CASE order \notin {"Equal", "Greater", "Less"}
    <3>1. f[p] = IF A[p].type = B[p].type THEN "merge"
                 ELSE IF A[p].type = "dir" THEN "ours" ELSE "theirs"
      BY <2>1, <2>7 DEF Side
    <3>. QED  BY <2>4, <3>1 DEF GivesWay, IsFile, IsDir
  <2>. QED  BY <2>5, <2>6, <2>7
<1>. QED  BY <1>4, <1>5, <1>6

LEMMA AllGiveWay ==
  ASSUME NEW store, HasHistory(store),
         NEW A, Sound(store, A), IsLoaded(A), NEW B, Sound(store, B), IsLoaded(B),
         NEW Ra \in SUBSET store, IsClosed(Ra), A[<<>>].persisted_as \in Ra,
         NEW Rb \in SUBSET store, IsClosed(Rb), B[<<>>].persisted_as \in Rb,
         NEW f, f = Fates(A, B, Orders(store, A, B)),
         NEW p \in Paths
  PROVE  GivesWay(A, B, f, Ra, Rb, p)
<1> DEFINE S == {k \in Nat : \A q \in Paths : Len(q) = k => GivesWay(A, B, f, Ra, Rb, q)}
<1>1. 0 \in S
  <2>1. \A q \in Paths : Len(q) = 0 => q = <<>>
    BY PathsOf, EmptySeq
  <2>2. <<>> \in Paths
    BY PathsAssumption
  <2>3. f[<<>>] = FateStep(A, B, Orders(store, A, B), f, <<>>)
    BY <2>2, FatesStep
  <2>. QED  BY <2>1, <2>3 DEF FateStep, GivesWay
<1>2. p \in Seq(Names) /\ Len(p) \in Nat
  BY PathsOf, LenProperties
<1>3. ASSUME NEW i \in 0 .. Len(p) - 1, i \in S PROVE i + 1 \in S
  <2> SUFFICES ASSUME NEW q \in Paths, Len(q) = i + 1 PROVE GivesWay(A, B, f, Ra, Rb, q)
    OBVIOUS
  <2>1. q # <<>> /\ q \in Seq(Names) /\ Front(q) \in Paths /\ q \in Below
    BY PathsOf, EmptySeq DEF Below
  <2>2. Len(Front(q)) = i
    BY <2>1, FrontOf
  <2>3. GivesWay(A, B, f, Ra, Rb, Front(q))
    BY <1>3, <2>1, <2>2
  <2>. QED  BY <2>1, <2>3, GivesWayStep
<1> HIDE DEF S
<1>4. \A i \in 0 .. Len(p) : i \in S
  BY <1>1, <1>2, <1>3, HoldsUpTo
<1>5. Len(p) \in S
  BY <1>2, <1>4
<1>. QED  BY <1>5 DEF S

(* What becomes of a file of either side that the other has never seen.    *)
Stays(m, t, p) == m.tree[p] = t[p] \/ p \in m.file_tie_breaks \/ IsDir(m.tree, p)

LEMMA UnseenStay ==
  ASSUME NEW store, HasHistory(store),
         NEW A, Sound(store, A), IsLoaded(A), NEW B, Sound(store, B), IsLoaded(B),
         A[<<>>] = B[<<>>] => A = B,
         NEW Ra \in SUBSET store, IsClosed(Ra), A[<<>>].persisted_as \in Ra,
         NEW Rb \in SUBSET store, IsClosed(Rb), B[<<>>].persisted_as \in Rb,
         NEW m, m = Reconciliation(store, A, B), NEW p \in Paths
  PROVE  /\ IsFile(A, p) /\ A[p].persisted_as \notin Rb => Stays(m, A, p)
         /\ IsFile(B, p) /\ B[p].persisted_as \notin Ra => Stays(m, B, p)
<1> DEFINE o == Orders(store, A, B)[<<>>]
           f == Fates(A, B, Orders(store, A, B))
<1>1. <<>> \in Paths /\ A[<<>>] # Absent /\ B[<<>>] # Absent
  BY PathsAssumption DEF Sound, HasShape, IsDir, Absent
<1>2. /\ o \in {"Equal", "Greater"} => B[<<>>].persisted_as \in Ra
      /\ o = "Less" => A[<<>>].persisted_as \in Rb
  BY <1>1, OrderIsSeen, OrdersAre
<1>3. /\ o \in {"Equal", "Greater"} => m.tree = A /\ m.file_tie_breaks = {}
      /\ o = "Less" => m.tree = B /\ m.file_tie_breaks = {}
      /\ o \notin {"Equal", "Greater", "Less"} =>
           /\ m.tree = MergedTree(A, B, f)
           /\ m.file_tie_breaks = {q \in Paths : f[q] = "merge" /\ IsFile(A, q)}
  BY ReconciliationOf
<1>4. GivesWay(A, B, f, Ra, Rb, p) /\ IsFate(A, B, f, p)
  BY AllGiveWay, FatesAre DEF Sound, HasShape
<1>5. /\ f[p] = "ours" => MergedTree(A, B, f)[p] = A[p]
      /\ f[p] = "theirs" => MergedTree(A, B, f)[p] = B[p]
  BY DEF MergedTree
<1>6. (IsFile(A, p) => A[p] # Absent) /\ (IsFile(B, p) => B[p] # Absent)
  BY DEF IsFile, Absent
<1> HIDE DEF o, f
<1>7. CASE o \in {"Equal", "Greater"}
  <2>1. B[p] # Absent => B[p].persisted_as \in Ra
    BY <1>2, <1>7, TreeIsIn
  <2>. QED  BY <1>3, <1>6, <1>7, <2>1 DEF Stays
<1>8. CASE o = "Less"
  <2>1. A[p] # Absent => A[p].persisted_as \in Rb
    BY <1>2, <1>8, TreeIsIn
  <2>. QED  BY <1>3, <1>6, <1>8, <2>1 DEF Stays
<1>9. CASE o \notin {"Equal", "Greater", "Less"}
  <2>1. CASE f[p] = "ours"
    <3>1. m.tree[p] = A[p]
      BY <1>3, <1>5, <1>9, <2>1
    <3>. QED  BY <1>4, <1>6, <2>1, <3>1 DEF Stays, GivesWay, IsDir
  <2>2. CASE f[p] = "theirs"
    <3>1. m.tree[p] = B[p]
      BY <1>3, <1>5, <1>9, <2>2
    <3>. QED  BY <1>4, <1>6, <2>2, <3>1 DEF Stays, GivesWay, IsDir
  <2>3. CASE f[p] = "merge"
    BY <1>3, <1>4, <1>9, <2>3 DEF Stays, IsFate, IsFile
  <2>. QED  BY <1>4, <2>1, <2>2, <2>3 DEF IsFate
<1>. QED  BY <1>7, <1>8, <1>9

(* reconcile (wnfs/src/public/directory.rs) drops no file revision that    *)
(* one side has and the other has never seen, wherever it is, whatever     *)
(* was edited, merged, stored and loaded before.                           *)
THEOREM UnseenFilesAreKept == Spec => []UnseenFilesSurvive
<1>1. MInv => UnseenFilesSurvive
  <2> SUFFICES ASSUME MInv, NEW a \in Stored, NEW b \in roots, NEW p \in Paths
               PROVE  LET m == Merge(blocks, a, b)
                      IN /\ p \in UnseenFiles(a, b) => Stays(m, Loaded(a), p)
                         /\ p \in UnseenFiles(b, a) => Stays(m, Loaded(b), p)
    BY DEF UnseenFilesSurvive, UnseenFiles, Stays
  <2>1. a \in roots
    BY DEF Stored, MInv, RootKnown
  <2> DEFINE A  == Loaded(a)
             B  == Loaded(b)
             Ra == Reachable(a)
             Rb == Reachable(b)
  <2>2. /\ HasHistory(blocks) /\ AreBlocks(blocks) /\ a \in blocks /\ b \in blocks
        /\ Sound(blocks, A) /\ IsLoaded(A) /\ Sound(blocks, B) /\ IsLoaded(B)
        /\ A[<<>>].persisted_as = a /\ B[<<>>].persisted_as = b
    BY <2>1, LoadedIsLoaded DEF MInv, IInv
  <2>3. A[<<>>] = B[<<>>] => A = B
    BY <2>2
  <2>4. /\ a \in Ra /\ Ra \in SUBSET blocks /\ IsClosed(Ra)
        /\ b \in Rb /\ Rb \in SUBSET blocks /\ IsClosed(Rb)
    BY <2>2, ReachableIsClosed DEF IsClosed
  <2>5. PICK m : m = Merge(blocks, a, b)
    OBVIOUS
  <2>6. m = Reconciliation(blocks, A, B)
    BY <2>5 DEF Merge
  <2>7. /\ p \in UnseenFiles(a, b) => IsFile(A, p) /\ A[p].persisted_as \notin Rb
        /\ p \in UnseenFiles(b, a) => IsFile(B, p) /\ B[p].persisted_as \notin Ra
    BY DEF UnseenFiles
  <2> HIDE DEF A, B, Ra, Rb
  <2>8. /\ IsFile(A, p) /\ A[p].persisted_as \notin Rb => Stays(m, A, p)
        /\ IsFile(B, p) /\ B[p].persisted_as \notin Ra => Stays(m, B, p)
    BY <2>2, <2>3, <2>4, <2>6, UnseenStay
  <2>. QED  BY <2>5, <2>7, <2>8 DEF A, B
<1>. QED  BY <1>1, InitMerges, StepMerges, PTL DEF Spec
================================================================================
