------------------------------ MODULE PrivateTree ------------------------------
(***************************************************************************)
(* The private file system: devices with a private root directory in       *)
(* memory and a forest each, the operations of PrivateDirectory on paths   *)
(* with search_latest on, the exchange of forests, and restarts from an    *)
(* access key (wnfs/src/private/directory.rs, file.rs, link.rs, node).     *)
(*                                                                         *)
(* A working copy maps the paths that are in memory to a node              *)
(* (PrivateLink::Decrypted) or to a ref (Encrypted; its cache only         *)
(* remembers what the ref gives).  An operation holds `&mut Arc<..>` and   *)
(* is one step.  Where one fails, what it did to the tree until then stays.*)
(***************************************************************************)
EXTENDS PrivateNode, TLC

CONSTANTS
  Devices,     \* who has a working copy and a forest
  PathsInUse,  \* bound: paths from the root or from a directory below it, a
               \* directory before its entries
  Contents,    \* contents of files; < is the order of their digests
  Ranks,       \* bound: upper bits of the digest of a CID
  Calls,       \* bound: operation |-> the paths it is called with (from)
  MaxBlocks    \* bound: number of nodes stored

Paths == Range(PathsInUse)

Names == UNION {Range(p) : p \in Paths}

ASSUME PathsAssumption ==
  /\ PathsInUse \in Seq(Seq(Names))
  /\ PathsInUse[1] = <<>>
  /\ \A i \in 2 .. Len(PathsInUse) :
        /\ \E j \in 1 .. i - 1 : PathsInUse[j] = Front(PathsInUse[i])
        /\ Tail(PathsInUse[i]) \in Paths
ASSUME DevicesAssumption == IsFiniteSet(Devices)
ASSUME ContentsAssumption == Contents \subseteq Nat \ {0}
ASSUME RanksAssumption == Ranks # {} /\ Ranks \subseteq Nat
ASSUME CallsAssumption ==
  /\ DOMAIN Calls \subseteq {"write", "open", "mkdir", "rm", "mv", "cp", "reconcile",
                      "below"}
  /\ \A op \in DOMAIN Calls :
        /\ Calls[op] \subseteq Paths
        /\ <<>> \in Calls[op] => op \in {"mkdir", "reconcile", "below"}

VARIABLES
  blocks,    \* the blockstore, the same for all devices: CID |-> block
  forest,    \* device |-> refs in its forest
  keys,      \* access keys of the roots that were stored
  tree       \* device |-> path |-> node or ref

vars == <<blocks, forest, keys, tree>>

NoContent == 0

IsNode(t, p) == p \in DOMAIN t /\ t[p].type # "ref"

Children(t, p) == {q \in DOMAIN t : q # <<>> /\ Front(q) = p}

--------------------------------------------------------------------------------
(* The tree in memory.  F is the forest at hand.                           *)

(* f, and where it has nothing, g.                                         *)
Joined(f, g) ==
  [x \in DOMAIN f \cup DOMAIN g |-> IF x \in DOMAIN f THEN f[x] ELSE g[x]]

Pruned(t, p) == [q \in {x \in DOMAIN t : ~IsPrefix(p, x)} |-> t[q]]

(* The node at p, as loaded or merged: its entries are refs.               *)
Placed(t, p, loaded) ==
  LET kept    == DOMAIN Pruned(t, p)
      entries == {Append(p, n) : n \in DOMAIN loaded.entries}
  IN [q \in kept \cup {p} \cup entries |->
        IF q \in kept THEN t[q]
        ELSE IF q = p THEN loaded.node ELSE loaded.entries[Last(q)]]

(* PrivateLink::resolve_node_mut: the tree with the node at p in it, the   *)
(* empty set where it does not load.                                       *)
Resolved(F, t, p) ==
  IF IsNode(t, p) THEN {t}
  ELSE LET b == blocks[t[p].cid]
       IN IF Loads(F, blocks, t[p], t[Front(p)].header.name)
          THEN {Placed(t, p, [node |-> AsNode(b, t[p].cid), entries |-> b.entries])}
          ELSE {}

(* search_latest_reconciled of the node at p; one that nobody stored a     *)
(* revision of stays as it is.                                             *)
Searched(F, t, p) ==
  IF Multivalue(F, t[p].header) = {} THEN {t}
  ELSE {Placed(t, p, r) : r \in Reconciled(F, blocks, t[p].header)}

(* lookup_node and lookup_node_mut.                                        *)
Opened(F, t, p) == UNION {Searched(F, u, p) : u \in Resolved(F, t, p)}

Advanced(t, p) == [t EXCEPT ![p] = PrepareNextRevision(@)]

(* What came out, or what there is if nothing did.                         *)
OneOf(results, otherwise) ==
  IF results = {} THEN otherwise ELSE CHOOSE x \in results : TRUE

(* get_leaf_dir_mut.                                                       *)
At(t, at) == [tree |-> t, at |-> at]

Entered(u, p) ==
  IF u[p].type = "file" THEN At(u, "file") ELSE At(Advanced(u, p), "dir")

Step(F, w, p) ==
  IF w.at # "dir" THEN w
  ELSE IF p \notin DOMAIN w.tree THEN At(w.tree, "missing")
  ELSE OneOf({Entered(u, p) : u \in Opened(F, w.tree, p)}, At(w.tree, "failed"))

Walked(F, u, path) ==
  LET walk[i \in 0 .. Len(path)] ==
        IF i = 0 THEN At(Advanced(u, <<>>), "dir")
        ELSE Step(F, walk[i - 1], SubSeq(path, 1, i))
  IN walk[Len(path)]

LeafDirMut(F, t, path) ==
  OneOf({Walked(F, u, path) : u \in Searched(F, t, <<>>)}, At(t, "failed"))

(* Randomness: ids nobody has used.                                        *)
UsedIds ==
  (UNION {blocks[c].header.name : c \in DOMAIN blocks})
    \cup (UNION {UNION {tree[d][p].header.name :
                          p \in {q \in DOMAIN tree[d] : IsNode(tree[d], q)}} :
                   d \in DOMAIN tree})

FreshId(n) ==
  CHOOSE k \in 1 .. Cardinality(UsedIds) + n :
    k \notin UsedIds /\ Cardinality((1 .. k) \ UsedIds) = n

(* Numbers for the members of a finite set.                                *)
Numbering(S) == CHOOSE f \in [S -> 1 .. Cardinality(S)] : IsInjective(f)

(* A new node at p, where there may be new directories above it.           *)
NewChild(t, type, p, content) ==
  LET there == Prefixes(p) \cap DOMAIN t
      deepest == CHOOSE q \in there : \A r \in there : IsPrefix(r, q)
      above == {FreshId(Len(q)) : q \in Prefixes(Front(p)) \ DOMAIN t}
  IN Node(type, NewHeader(t[deepest].header.name \cup above, FreshId(Len(p))),
          {}, content, {})

(* get_or_create_leaf_dir_mut                                              *)
Created(w, path) ==
  IF w.at # "missing" THEN w
  ELSE At(Joined(w.tree, [q \in Prefixes(path) \ DOMAIN w.tree |->
                            NewChild(w.tree, "dir", q, NoContent)]), "dir")

CreateLeafDirMut(F, t, path) == Created(LeafDirMut(F, t, path), path)

--------------------------------------------------------------------------------
(* The operations on a tree, and whether they succeed.                     *)
Outcome(t, done) == [tree |-> t, done |-> done]

(* write, and open_file_mut, which keeps what the file has.                *)
WithContent(node, content) ==
  Node(node.type, node.header, node.previous, content, node.persisted_as)

Edited(u, p, newContent, keep) ==
  IF u[p].type = "dir" THEN Outcome(u, FALSE)
  ELSE IF keep THEN Outcome(Advanced(u, p), TRUE)
  ELSE Outcome([Advanced(u, p) EXCEPT ![p] = WithContent(@, newContent)], TRUE)

FileIn(F, w, p, newContent, keep) ==
  IF w.at # "dir" THEN Outcome(w.tree, FALSE)
  ELSE IF p \notin DOMAIN w.tree
       THEN Outcome(Joined(w.tree, [q \in {p} |-> NewChild(w.tree, "file", q, newContent)]),
                    TRUE)
  ELSE OneOf({Edited(u, p, newContent, keep) : u \in Opened(F, w.tree, p)},
             Outcome(w.tree, FALSE))

WithFile(F, t, p, newContent, keep) ==
  FileIn(F, CreateLeafDirMut(F, t, Front(p)), p, newContent, keep)

Written(F, t, p, content) == WithFile(F, t, p, content, FALSE)
FileOpened(F, t, p) == WithFile(F, t, p, NoContent, TRUE)

MadeDir(F, t, path) ==
  LET outcome(w) == Outcome(w.tree, w.at = "dir")
  IN outcome(CreateLeafDirMut(F, t, path))

(* rm: the entry goes, and the node it led to is loaded for the caller,    *)
(* without looking for a later revision.                                   *)
TakenFrom(F, w, p) ==
  IF w.at = "dir" /\ p \in DOMAIN w.tree THEN Resolved(F, w.tree, p) ELSE {}

TakenOut(F, t, p) == TakenFrom(F, LeafDirMut(F, t, Front(p)), p)

Removed(F, t, p) ==
  LET outcome(w) == Outcome(IF w.at = "dir" THEN Pruned(w.tree, p) ELSE w.tree,
                            TakenFrom(F, w, p) # {})
  IN outcome(LeafDirMut(F, t, Front(p)))

(* get_node, with search_latest on and on a copy.                          *)
Found(F, t, p) ==
  LET found[i \in 0 .. Len(p)] ==
        IF i = 0 THEN Searched(F, t, <<>>)
        ELSE UNION {Opened(F, u, SubSeq(p, 1, i)) :
                      u \in {v \in found[i - 1] : SubSeq(p, 1, i) \in DOMAIN v}}
  IN found[Len(p)]

Suffix(p, q) == SubSeq(q, Len(p) + 1, Len(q))

Below(t, p) == {q \in DOMAIN t : IsPrefix(p, q)}

(* update_ancestry needs every entry below in memory.                      *)
FullyResolved(F, t, p) ==
  LET loaded[i \in 0 .. Len(PathsInUse)] ==
        IF i = 0 THEN {t}
        ELSE UNION {IF PathsInUse[i] \in Below(u, p)
                    THEN Resolved(F, u, PathsInUse[i]) ELSE {u} : u \in loaded[i - 1]}
  IN {u \in loaded[Len(PathsInUse)] : \A q \in Below(u, p) : IsNode(u, q)}

RotatedNode(u, from, q, parentName, cell) ==
  LET above == IF q = from THEN parentName ELSE u[Front(q)].header.name
      id    == FreshId(Numbering(Below(u, from))[q])
  IN Node(u[q].type, NewHeader(above, id), u[q].previous, u[q].content, cell)

(* Slip: the cell is kept.                                                 *)
RotatedMemoized(u, from, parentName) ==
  [q \in Below(u, from) |-> RotatedNode(u, from, q, parentName, u[q].persisted_as)]

(* update_ancestry and prepare_key_rotation: the entries of a directory    *)
(* are done first, and named below the name the directory still has.       *)
Rotated(u, from, parentName) ==
  [q \in Below(u, from) |-> RotatedNode(u, from, q, parentName, {})]

(* attach, of the node at `from` in one of sources to t.                   *)
Grafted(t, moved, from, to) ==
  Joined(t, [q \in {to \o Suffix(from, p) : p \in DOMAIN moved} |->
               moved[from \o Suffix(to, q)]])

AttachedIn(F, w, sources, from, to) ==
  IF w.at # "dir" \/ to \in DOMAIN w.tree THEN Outcome(w.tree, FALSE)
  ELSE OneOf({Outcome(Grafted(w.tree,
                              Rotated(u, from, w.tree[Front(to)].header.name),
                              from, to), TRUE) :
                u \in UNION {FullyResolved(F, s, from) : s \in sources}},
             Outcome(w.tree, FALSE))

Attached(F, t, sources, from, to) ==
  AttachedIn(F, LeafDirMut(F, t, Front(to)), sources, from, to)

Moved(F, t, from, to) ==
  LET taken == Removed(F, t, from)
  IN IF ~taken.done THEN taken
     ELSE Attached(F, taken.tree, TakenOut(F, t, from), from, to)

Copied(F, t, from, to) ==
  IF Found(F, t, from) = {} THEN Outcome(t, FALSE)
  ELSE Attached(F, t, Found(F, t, from), from, to)

(* Bound: a subtree only goes where all of its paths are in use.           *)
FitsAt(F, t, from, to) ==
  \A u \in Found(F, t, from) \cup TakenOut(F, t, from) : \A v \in FullyResolved(F, u, from) :
    \A q \in Below(v, from) : to \o Suffix(from, q) \in Paths

--------------------------------------------------------------------------------
(* Storing the root: a node whose cell is empty stores its entries and     *)
(* then itself; one whose cell is filled is only put into the forest.      *)

IsPersisted(t, p) == t[p].persisted_as # {}

Reached(t) ==
  {p \in DOMAIN t : IsNode(t, p) /\ \A q \in Prefixes(p) \ {p} : ~IsPersisted(t, q)}

Unsaved(t) == {p \in Reached(t) : ~IsPersisted(t, p)}

(* What a store writes, given the CIDs of the new ciphertexts.             *)
Stored(t, fresh) ==
  LET cid(p) == IF p \in DOMAIN fresh THEN fresh[p]
                ELSE CHOOSE c \in t[p].persisted_as : TRUE
      ref(p) == IF IsNode(t, p) THEN Ref(t[p].header, cid(p)) ELSE t[p]
      entries(p) == [n \in {Last(q) : q \in Children(t, p)} |-> ref(Append(p, n))]
  IN [tree   |-> [p \in DOMAIN t |->
                    IF p \in DOMAIN fresh
                    THEN AsNode(t[p], fresh[p]) ELSE t[p]],
      blocks |-> [c \in Range(fresh) |->
                    LET p == CHOOSE q \in DOMAIN fresh : fresh[q] = c
                    IN Block(t[p], entries(p))],
      refs   |-> {ref(p) : p \in Reached(t)},
      key    |-> ref(<<>>)]

(* CIDs for the new ciphertexts, after n others.                           *)
FreshCids(paths, rank, n) ==
  LET number == Numbering(paths)
  IN [p \in paths |-> <<rank[p], Cardinality(DOMAIN blocks) + n + number[p]>>]

--------------------------------------------------------------------------------
(* A root that was created and stored, and whose key every device got.     *)
Init ==
  \E rank \in Ranks :
    LET cid  == <<rank, 1>>
        root == Node("dir", NewHeader({}, 1), {}, NoContent, {cid})
    IN /\ blocks = [c \in {cid} |-> Block(root, <<>>)]
       /\ forest = [d \in Devices |-> {Ref(root.header, cid)}]
       /\ keys   = {Ref(root.header, cid)}
       /\ tree   = [d \in Devices |-> [p \in {<<>>} |-> root]]

Becomes(d, t) == tree' = [tree EXCEPT ![d] = t] /\ UNCHANGED <<blocks, forest, keys>>

Write(d, p, x) == Becomes(d, Written(forest[d], tree[d], p, x).tree)

OpenFileMut(d, p) == Becomes(d, FileOpened(forest[d], tree[d], p).tree)

Mkdir(d, p) == Becomes(d, MadeDir(forest[d], tree[d], p).tree)

Rm(d, p) == Becomes(d, Removed(forest[d], tree[d], p).tree)

BasicMv(d, from, to) ==
  /\ FitsAt(forest[d], tree[d], from, to)
  /\ Becomes(d, Moved(forest[d], tree[d], from, to).tree)

Cp(d, from, to) ==
  /\ FitsAt(forest[d], tree[d], from, to)
  /\ Becomes(d, Copied(forest[d], tree[d], from, to).tree)

(* PrivateDirectory::search_latest_reconciled of the root.                 *)
SearchLatestReconciled(d) ==
  \E t \in Searched(forest[d], tree[d], <<>>) : Becomes(d, t)

Store(d) ==
  LET t == tree[d]
  IN /\ Cardinality(DOMAIN blocks) + Cardinality(Unsaved(t)) <= MaxBlocks
     /\ \E rank \in [Unsaved(t) -> Ranks] :
          LET s == Stored(t, FreshCids(Unsaved(t), rank, 0))
          IN /\ tree'   = [tree EXCEPT ![d] = s.tree]
             /\ blocks' = Joined(blocks, s.blocks)
             /\ forest' = [forest EXCEPT ![d] = @ \cup s.refs]
             /\ keys'   = keys \cup {s.key}

(* A user of one directory, who gets it from the root and then writes and  *)
(* stores there: the roots keep linking to what they did.                  *)
Subtree(t, p) ==
  [q \in {Suffix(p, x) : x \in {y \in DOMAIN t : IsPrefix(p, y)}} |-> t[p \o q]]

WriteBelow(d, p, name, x) ==
  \E u \in Found(forest[d], tree[d], p) :
    \E w \in {Written(forest[d], Subtree(u, p), <<name>>, x)} :
      /\ u[p].type = "dir" /\ w.done
      /\ Cardinality(DOMAIN blocks) + Cardinality(Unsaved(w.tree)) <= MaxBlocks
      /\ \E rank \in [Unsaved(w.tree) -> Ranks] :
           LET s == Stored(w.tree, FreshCids(Unsaved(w.tree), rank, 0))
           IN /\ blocks' = Joined(blocks, s.blocks)
              /\ forest' = [forest EXCEPT ![d] = @ \cup s.refs]
              /\ UNCHANGED <<keys, tree>>

(* PrivateNode::load, with no parent name: a restart.                      *)
Load(d, key) ==
  /\ key \in forest[d]
  /\ Becomes(d, Placed(<<>>, <<>>, [node    |-> AsNode(blocks[key.cid], key.cid),
                                    entries |-> blocks[key.cid].entries]))

(* HamtForest::merge                                                       *)
Sync(d, e) ==
  /\ forest' = [forest EXCEPT ![d] = @ \cup forest[e]]
  /\ UNCHANGED <<blocks, keys, tree>>

CalledWith(op) == IF op \in DOMAIN Calls THEN Calls[op] ELSE {}

Next ==
  \E d \in Devices :
    \/ \E p \in CalledWith("write"), x \in Contents : Write(d, p, x)
    \/ \E p \in CalledWith("open") : OpenFileMut(d, p)
    \/ \E p \in CalledWith("mkdir") : Mkdir(d, p)
    \/ \E p \in CalledWith("rm") : Rm(d, p)
    \/ \E p \in CalledWith("mv"), q \in Paths \ {<<>>} : BasicMv(d, p, q)
    \/ \E p \in CalledWith("cp"), q \in Paths \ {<<>>} : Cp(d, p, q)
    \/ "reconcile" \in DOMAIN Calls /\ SearchLatestReconciled(d)
    \/ \E p \in {q \in Paths : q # <<>> /\ Front(q) \in CalledWith("below")},
          x \in Contents : WriteBelow(d, Front(p), Last(p), x)
    \/ Store(d)
    \/ \E key \in keys : Load(d, key)
    \/ \E e \in Devices : Sync(d, e)

Spec == Init /\ [][Next]_vars

--------------------------------------------------------------------------------
(* What is in memory hangs together, and what is stored is of the types    *)
(* above.                                                                  *)
Nodes ==
  [type : {"dir", "file"},
   header : [id : Nat, rev : Nat, name : SUBSET UsedIds],
   previous : SUBSET [back : Nat, cid : DOMAIN blocks, key : Nat \X Nat],
   content : Contents \cup {NoContent},
   persisted_as : {{}} \cup {{c} : c \in DOMAIN blocks}]

Refs == {Ref(blocks[c].header, c) : c \in DOMAIN blocks}

TypeOK ==
  /\ \A d \in Devices : keys \cup forest[d] \subseteq Refs
  /\ \A c \in DOMAIN blocks :
        /\ AsNode(blocks[c], c) \in Nodes
        /\ Range(blocks[c].entries) \subseteq Refs
  /\ \A d \in Devices :
        /\ tree[d][<<>>].type = "dir"
        /\ Range(tree[d]) \subseteq Nodes \cup Refs
        /\ \A p \in DOMAIN tree[d] \ {<<>>} : tree[d][Front(p)].type = "dir"

(* Whatever a forest has leads on: the entries of its directories and the  *)
(* links of its nodes to earlier revisions are in it as well, and a link   *)
(* opens with the key of the revision it is said to point back to.  So no  *)
(* walk down or back fails on a device that merges whole forests.          *)
ForestIsClosed ==
  \A d \in Devices : \A r \in forest[d] :
    LET b == blocks[r.cid]
    IN /\ Range(b.entries) \subseteq forest[d]
       /\ \A l \in {x \in b.previous : x.key[1] = b.header.id} :
             /\ l.back > 0 /\ Opens(blocks, r.cid, l)
             /\ Ref(AtRevision(b.header, b.header.rev - l.back), l.cid) \in forest[d]

(* The revisions of a node that a device knows have no gaps, so that the   *)
(* linear and the exponential search end at the same one.                  *)
SearchesAgree ==
  \A d \in Devices : \A r \in forest[d] :
    LET last == FreeRevision(forest[d], r.label) - 1
    IN /\ LatestNodes(forest[d], r.label) =
             Multivalue(forest[d], AtRevision(r.label, last))
       /\ \A s \in forest[d] :
             s.label = AtRevision(r.label, s.label.rev) => s.label.rev <= last

--------------------------------------------------------------------------------
(* What a device sees when it looks for the latest.                        *)
Unreadable == [type |-> "unreadable"]

Shown(node) ==
  IF node.type = "dir" THEN [type |-> "dir"]
  ELSE [type |-> "file", content |-> node.content]

(* Each path is opened in the tree its directory was opened in; one that   *)
(* does not open stays as it is.                                           *)
Revealed(F, t, p) ==
  LET here == CASE p = <<>> -> Searched(F, t, p)
                [] p # <<>> /\ p \in DOMAIN t /\ IsNode(t, Front(p)) -> Opened(F, t, p)
                [] OTHER -> {}
  IN IF here = {} THEN {t} ELSE here

ShownAt(t, p) ==
  IF p \notin DOMAIN t THEN [type |-> "absent"]
  ELSE IF IsNode(t, p) THEN Shown(t[p]) ELSE Unreadable

Seen(F, t) ==
  LET opened == FoldLeft(LAMBDA S, p : UNION {Revealed(F, u, p) : u \in S},
                         {t}, PathsInUse)
  IN CHOOSE seen \in {[p \in Paths |-> ShownAt(u, p)] : u \in opened} : TRUE

(* What the directory behind a key had when it was stored.                 *)
SavedUnder(key) ==
  LET at[p \in Paths] ==
        IF p = <<>> THEN {key.cid}
        ELSE {blocks[c].entries[Last(p)].cid :
                c \in {x \in at[Front(p)] : Last(p) \in DOMAIN blocks[x].entries}}
  IN [p \in Paths |-> IF at[p] = {} THEN [type |-> "absent"]
                      ELSE Shown(blocks[CHOOSE c \in at[p] : TRUE])]

Abstract ==
  INSTANCE FileSystem WITH
    Replicas <- Devices,
    Contents <- Contents \cup {NoContent},
    fs <- [d \in Devices |-> Seen(forest[d], tree[d])],
    saved <- {SavedUnder(key) : key \in keys}

(* A device alone with its forest has a file system: what it reads with    *)
(* search_latest on is what its edits, its stores and its restarts from    *)
(* any old access key make of a plain tree.                                *)
ImplementsFileSystem == Abstract!Spec

--------------------------------------------------------------------------------
(* Concurrent writes.                                                      *)

(* A node and what its previous links lead to.                             *)
Ancestry(c) ==
  LET more(S) == S \cup {l.cid : l \in UNION {blocks[x].previous : x \in S}}
      back[i \in 0 .. Cardinality(DOMAIN blocks)] ==
        IF i = 0 THEN {c} ELSE more(back[i - 1])
  IN back[Cardinality(DOMAIN blocks)]

RootHeader == NewHeader({}, 1)

(* Reconciling from the first access key gives a directory with every      *)
(* entry that some head has, and none of them changed.                     *)
NoEntryForgotten ==
  \A d \in Devices :
    LET heads == UnmergedHeads(forest[d], blocks, RootHeader)
    IN \A r \in Reconciled(forest[d], blocks, RootHeader) :
         /\ DOMAIN r.entries = UNION {DOMAIN blocks[c].entries : c \in heads}
         /\ \A n \in DOMAIN r.entries :
              r.entries[n] \in {blocks[c].entries[n] :
                                  c \in {x \in heads : n \in DOMAIN blocks[x].entries}}

(* The heads cover the history: each root a device has was seen by one.    *)
HeadsCoverHistory ==
  \A d \in Devices :
    LET heads == UnmergedHeads(forest[d], blocks, RootHeader)
    IN {r.cid : r \in {s \in forest[d] : s.label.id = 1}}
         \subseteq UNION {Ancestry(c) : c \in heads}

(* Merging two concurrent writes settles their conflict: stored, the merge *)
(* is the only head, and its links say where the two are.  It is not so    *)
(* with a third head or a merge among them: MergedWith then takes over     *)
(* the links of the other node and none to it, so that it stays a head.    *)
IsMerge(c) == Cardinality(blocks[c].previous) > 1

TwoWritesSettle ==
  \A d \in Devices :
    LET heads == UnmergedHeads(forest[d], blocks, RootHeader)
    IN Cardinality(heads) = 2 /\ (\A c \in heads : ~IsMerge(c)) =>
         \A r \in Reconciled(forest[d], blocks, RootHeader) :
           r.node.previous =
             {Link(r.node.header.rev - blocks[c].header.rev, c,
                   TemporalKey(blocks[c].header)) : c \in heads}
================================================================================
