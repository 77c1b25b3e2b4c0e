-------------------------------- MODULE RootTree --------------------------------
(***************************************************************************)
(* The root of a file system (wnfs/src/root_tree.rs): a public and an      *)
(* exchange directory, private roots mounted at paths, and the one forest  *)
(* they share.                                                             *)
(*                                                                         *)
(* Private directories are those of PrivateTree, over that forest; public  *)
(* ones are plain trees, which is what PublicTree implements.  An          *)
(* operation works on a copy of the directory, which replaces it when      *)
(* there was no error: a call that fails is no step.                       *)
(***************************************************************************)
EXTENDS Integers, SequencesExt, TLC

CONSTANTS
  MountsInUse, \* bound: where private roots are mounted, in the order of
               \* the keys of private_map
  PathsInUse,  \* bound: the paths in use in a partition
  Contents,    \* contents of files
  Calls,       \* bound: operation |-> paths it is called with, "to" for moves
  MaxBlocks,   \* bound: number of private nodes stored
  MaxRoots     \* bound: number of root trees stored

Paths  == Range(PathsInUse)
Mounts == Range(MountsInUse)

ASSUME MountsAssumption == \A m \in Mounts : m # <<>> /\ m[1] = "private"
ASSUME RootCallsAssumption ==
  DOMAIN Calls \subseteq {"write", "mkdir", "rm", "mv", "to", "storeRoot"}

VARIABLES
  public_root, exchange_root,
  private_map,    \* mount |-> private directory
  forest,
  blocks,         \* private nodes in the blockstore
  keys,           \* access keys of directories that were handed out
  stored          \* what the roots that were stored lead to

vars == <<public_root, exchange_root, private_map, forest, blocks, keys, stored>>

Private ==
  INSTANCE PrivateTree WITH
    Devices <- Mounts, Ranks <- {1}, Calls <- <<>>,
    forest <- [m \in DOMAIN private_map |-> forest],
    tree <- private_map

Plain == INSTANCE FileSystem WITH Replicas <- {}, fs <- <<>>, saved <- {}

Public   == <<"public">>
Exchange == <<"exchange">>

--------------------------------------------------------------------------------
FindPrivateRoot(path) ==
  LET at == Prefixes(path) \cap DOMAIN private_map
  IN {m \in at : \A n \in at : Len(m) <= Len(n)}

(* The prefix of the path that says whose it is, or nothing.               *)
Rest(prefix, path) == SubSeq(path, Len(prefix) + 1, Len(path))

GetPartition(path) ==
  {prefix \in IF path[1] \in {"public", "exchange"} THEN {<<path[1]>>}
              ELSE FindPrivateRoot(path) : Rest(prefix, path) \in Paths}

PlainRoot(prefix) == IF prefix = Public THEN public_root ELSE exchange_root

IsPlain(prefix) == prefix \in {Public, Exchange}

SavePartition(prefix, dir) ==
  /\ public_root'   = IF prefix = Public THEN dir ELSE public_root
  /\ exchange_root' = IF prefix = Exchange THEN dir ELSE exchange_root
  /\ private_map'   = IF IsPlain(prefix) THEN private_map
                      ELSE prefix :> dir @@ private_map
  /\ UNCHANGED <<forest, blocks, keys, stored>>

(* Slip: what a failed operation did is kept.                              *)
WhateverItDid(outcome) == {outcome.tree}

OfSuccess(outcome) == IF outcome.done THEN {outcome.tree} ELSE {}

(* The directory that an operation leaves at a prefix, or nothing.  The    *)
(* empty path has no name to write, remove or move.                        *)
Written(prefix, p, x) ==
  IF p = <<>> THEN {}
  ELSE IF IsPlain(prefix)
  THEN {Plain!WithFileAt(f, p, x) :
          f \in {g \in {PlainRoot(prefix)} : Plain!TakesFile(g, p)}}
  ELSE OfSuccess(Private!Written(forest, private_map[prefix], p, x))

MadeDir(prefix, p) ==
  IF IsPlain(prefix)
  THEN {Plain!WithFolderAt(f, p) :
          f \in {g \in {PlainRoot(prefix)} : Plain!TakesFolder(g, p)}}
  ELSE OfSuccess(Private!MadeDir(forest, private_map[prefix], p))

(* Slip: a mount can be removed as well.                                   *)
RemovedAnywhere(prefix, p) ==
  IF IsPlain(prefix)
  THEN {Plain!Without(f, p) :
          f \in {g \in {PlainRoot(prefix)} : g[p] # Plain!Nothing}}
  ELSE {Private!Removed(forest, private_map[prefix], p).tree}

Removed(prefix, p) ==
  IF p = <<>> THEN {}
  ELSE IF IsPlain(prefix)
  THEN {Plain!Without(f, p) :
          f \in {g \in {PlainRoot(prefix)} : g[p] # Plain!Nothing}}
  ELSE OfSuccess(Private!Removed(forest, private_map[prefix], p))

Moved(prefix, p, q) ==
  IF p = <<>> \/ q = <<>> THEN {}
  ELSE IF IsPlain(prefix)
  THEN {Plain!WithMoved(f, p, q) :
          f \in {g \in {PlainRoot(prefix)} : Plain!CanMove(g, p, q)}}
  ELSE IF Private!FitsAt(forest, private_map[prefix], p, q)
       THEN OfSuccess(Private!Moved(forest, private_map[prefix], p, q)) ELSE {}

--------------------------------------------------------------------------------
(* RootTree::empty                                                         *)
Init ==
  /\ public_root = Plain!EmptyTree
  /\ exchange_root = Plain!EmptyTree
  /\ private_map = <<>>
  /\ forest = {}
  /\ blocks = <<>>
  /\ keys = {}
  /\ stored = {}

Write(path, x) ==
  \E prefix \in GetPartition(path) :
    \E dir \in Written(prefix, Rest(prefix, path), x) : SavePartition(prefix, dir)

Mkdir(path) ==
  \E prefix \in GetPartition(path) :
    \E dir \in MadeDir(prefix, Rest(prefix, path)) : SavePartition(prefix, dir)

Rm(path) ==
  \E prefix \in GetPartition(path) :
    \E dir \in Removed(prefix, Rest(prefix, path)) : SavePartition(prefix, dir)

(* Where a move in a partition is saved: what comes out of the exchange    *)
(* partition becomes the public one.                                       *)
SavedAs(prefix) == IF prefix = Exchange THEN Public ELSE prefix

BasicMv(from, to) ==
  \E prefix \in GetPartition(from) \cap GetPartition(to) :
    \E dir \in Moved(prefix, Rest(prefix, from), Rest(prefix, to)) :
      SavePartition(SavedAs(prefix), dir)

(* PrivateDirectory::new_and_store, and a second store for the key.        *)
CreatePrivateRoot(m) ==
  /\ m \notin DOMAIN private_map
  /\ Cardinality(DOMAIN blocks) < MaxBlocks
  /\ LET cid  == <<1, Cardinality(DOMAIN blocks) + 1>>
         root == Private!Node("dir", Private!NewHeader({}, Private!FreshId(1)), {},
                              Private!NoContent, {cid})
         key  == Private!Ref(root.header, cid)
     IN /\ blocks' = cid :> Private!Block(root, <<>>) @@ blocks
        /\ forest' = forest \cup {key}
        /\ private_map' = m :> (<<>> :> root) @@ private_map
        /\ keys' = keys \cup {key}
  /\ UNCHANGED <<public_root, exchange_root, stored>>

OpenedWith(key) ==
  Private!Placed(<<>>, <<>>, [node    |-> Private!AsNode(blocks[key.cid], key.cid),
                              entries |-> blocks[key.cid].entries])

(* Bound: a root is mounted at one place.                                  *)
MountedAt(key) ==
  {m \in DOMAIN private_map : private_map[m][<<>>].header.id = key.label.id}

LoadPrivateRoot(m, key) ==
  /\ MountedAt(key) \subseteq {m}
  /\ key \in forest
  /\ blocks[key.cid].type = "dir"
  /\ private_map' = m :> OpenedWith(key) @@ private_map
  /\ UNCHANGED <<public_root, exchange_root, forest, blocks, keys, stored>>

Fresh(t, n) ==
  LET unsaved == Private!Unsaved(t)
  IN Private!FreshCids(unsaved, [p \in unsaved |-> 1], n)

(* Bound.                                                                  *)
Fits(new) == Cardinality(DOMAIN blocks \cup DOMAIN new) <= MaxBlocks

(* The copy of the forest that the node is stored in is dropped.  Nodes    *)
(* that are shared with the mounted directory have their cells filled.     *)
StorePrivateRoot(path) ==
  \E m \in FindPrivateRoot(path) :
    LET t == private_map[m]
        p == Rest(m, path)
    IN /\ p # <<>>
       /\ \E u \in Private!Found(forest, t, p) :
            LET node   == Private!Subtree(u, p)
                s      == Private!Stored(node, Fresh(node, 0))
                shared == {q \in DOMAIN node : p \o q \in DOMAIN t /\ t[p \o q] = node[q]}
            IN /\ Fits(s.blocks)
               /\ blocks' = blocks @@ s.blocks
               /\ keys' = keys \cup {k \in {s.key} : node[<<>>].type = "dir"}
               /\ private_map' =
                    [private_map EXCEPT ![m] =
                       [q \in {p \o r : r \in shared} |-> s.tree[Rest(p, q)]] @@ t]
  /\ UNCHANGED <<public_root, exchange_root, forest, stored>>

(* The first n private roots are stored one after the other.               *)
StorePrivateRoots(n) ==
  FoldLeft(LAMBDA s, m :
             LET one == Private!Stored(private_map[m],
                          Fresh(private_map[m], Cardinality(DOMAIN s.blocks)))
             IN [map    |-> m :> one.tree @@ s.map,
                 blocks |-> one.blocks @@ s.blocks,
                 refs   |-> one.refs \cup s.refs],
           [map |-> private_map, blocks |-> <<>>, refs |-> {}],
           SubSeq(SelectSeq(MountsInUse, LAMBDA m : m \in DOMAIN private_map), 1, n))

Keeps(s) ==
  /\ Fits(s.blocks)
  /\ private_map' = s.map
  /\ blocks' = blocks @@ s.blocks
  /\ forest' = forest \cup s.refs
  /\ UNCHANGED <<public_root, exchange_root, keys>>

(* Slip: the forest is stored before the private roots are.                *)
RootWithOldForest(refs) ==
  [public |-> public_root, exchange |-> exchange_root, forest |-> forest]

(* RootTreeSerializable, of what has been stored.                          *)
RootWith(refs) ==
  [public |-> public_root, exchange |-> exchange_root, forest |-> refs]

(* store_with: the private roots, then all the rest.                       *)
Store ==
  \E s \in {StorePrivateRoots(Cardinality(DOMAIN private_map))} :
    /\ Cardinality(stored) < MaxRoots
    /\ Keeps(s)
    /\ stored' = stored \cup {RootWith(forest \cup s.refs)}

(* An error of the blockstore after n private roots ends the call.         *)
StoreFails(n) ==
  \E s \in {StorePrivateRoots(n)} : Keeps(s) /\ UNCHANGED stored

(* RootTree::load: private roots are not mounted again.                    *)
Load(root) ==
  /\ public_root' = root.public
  /\ exchange_root' = root.exchange
  /\ private_map' = <<>>
  /\ forest' = root.forest
  /\ UNCHANGED <<blocks, keys, stored>>

CalledWith(op) == IF op \in DOMAIN Calls THEN Calls[op] ELSE {}

Next ==
  \/ \E path \in CalledWith("write"), x \in Contents : Write(path, x)
  \/ \E path \in CalledWith("mkdir") : Mkdir(path)
  \/ \E path \in CalledWith("rm") : Rm(path)
  \/ \E from \in CalledWith("mv"), to \in CalledWith("to") : BasicMv(from, to)
  \/ \E m \in Mounts : CreatePrivateRoot(m)
  \/ \E m \in Mounts, key \in keys : LoadPrivateRoot(m, key)
  \/ \E path \in CalledWith("storeRoot") : StorePrivateRoot(path)
  \/ Store
  \/ \E n \in 1 .. Cardinality(DOMAIN private_map) : StoreFails(n)
  \/ \E root \in stored : Load(root)

Spec == Init /\ [][Next]_vars

--------------------------------------------------------------------------------
Partitions == {Public, Exchange} \cup DOMAIN private_map

(* What a partition shows.                                                 *)
Shows(prefix) ==
  IF IsPlain(prefix) THEN PlainRoot(prefix)
  ELSE Private!Seen(forest, private_map[prefix])

TypeOK ==
  /\ Plain!IsTree(public_root) /\ Plain!IsTree(exchange_root)
  /\ forest \cup keys \subseteq Private!Refs
  /\ DOMAIN private_map \subseteq Mounts
  /\ \A m \in DOMAIN private_map :
        /\ <<>> \in DOMAIN private_map[m] /\ private_map[m][<<>>].type = "dir"
        /\ Range(private_map[m]) \subseteq Private!Nodes \cup Private!Refs
  /\ \A root \in stored : root.forest \subseteq Private!Refs

(* It shows the same, as it must if nothing of it changed.                 *)
Stays(prefix) ==
  \/ ~IsPlain(prefix) /\ UNCHANGED <<forest, blocks, private_map[prefix]>>
  \/ Shows(prefix)' = Shows(prefix)

(* Each edit through the root does to the partition it is in what it does  *)
(* to a plain tree, and no other partition shows a change, although all    *)
(* private ones are in one forest, a mount may lie below another, and one  *)
(* may have been opened with an old access key, whose later revisions are  *)
(* found in the forest.  Moves in the exchange partition are left out:     *)
(* the code saves what they give as the public root (root_tree.rs:390).    *)
Becomes(prefix, f) ==
  /\ Shows(prefix)' = f
  /\ \A q \in Partitions \ {prefix} : Stays(q)

EditsAreThoseOfTrees ==
  [][/\ \A path \in CalledWith("write"), x \in Contents : Write(path, x) =>
          \A prefix \in GetPartition(path) : \A f \in {Shows(prefix)} :
             /\ Plain!TakesFile(f, Rest(prefix, path))
             /\ Becomes(prefix, Plain!WithFileAt(f, Rest(prefix, path), x))
     /\ \A path \in CalledWith("mkdir") : Mkdir(path) =>
          \A prefix \in GetPartition(path) : \A f \in {Shows(prefix)} :
             /\ Plain!TakesFolder(f, Rest(prefix, path))
             /\ Becomes(prefix, Plain!WithFolderAt(f, Rest(prefix, path)))
     /\ \A path \in CalledWith("rm") : Rm(path) =>
          \A prefix \in GetPartition(path) : \A f \in {Shows(prefix)} :
             /\ f[Rest(prefix, path)] # Plain!Nothing
             /\ Becomes(prefix, Plain!Without(f, Rest(prefix, path)))
     /\ \A from \in CalledWith("mv"), to \in CalledWith("to") : BasicMv(from, to) =>
          \A prefix \in GetPartition(from) \ {Exchange} : \A f \in {Shows(prefix)} :
             /\ Plain!CanMove(f, Rest(prefix, from), Rest(prefix, to))
             /\ Becomes(prefix,
                  Plain!WithMoved(f, Rest(prefix, from), Rest(prefix, to)))]_vars

(* Moving through the root is all or nothing: unlike in a directory, where *)
(* what cannot be attached is gone, each move that is made keeps all files *)
(* of the partition.                                                       *)
FilesIn(f) == {[path |-> p, file |-> f[p]] : p \in {q \in Paths : f[q].type = "file"}}

MovesKeepFiles ==
  [][\A from \in CalledWith("mv"), to \in CalledWith("to") : BasicMv(from, to) =>
       \A p \in GetPartition(from) :
         Cardinality(FilesIn(Shows(p))') = Cardinality(FilesIn(Shows(p)))]_vars

(* What is mounted comes back: any access key of a mounted root, however   *)
(* old, opens in the root tree that is stored, and shows what was shown    *)
(* before, even after calls that failed halfway and after one file was     *)
(* stored on its own.  Of a directory stored on its own this would not be  *)
(* so: what is below it never gets into the forest (root_tree.rs:157).     *)
StoredIsShown ==
  [][\A root \in stored' \ stored : \A key \in keys : \A m \in MountedAt(key) :
       /\ key \in root.forest
       /\ Private!Seen(root.forest, OpenedWith(key))' = Shows(m)]_vars
================================================================================
