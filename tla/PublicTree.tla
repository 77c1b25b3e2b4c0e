------------------------------- MODULE PublicTree -------------------------------
(***************************************************************************)
(* The public file system below its root: nested directories and files,    *)
(* each with its own history and its own persisted_as cell, the operations *)
(* of PublicDirectory on paths, and reconciliation of whole trees          *)
(* (wnfs/src/public/directory.rs, file.rs, link.rs, node/node.rs).         *)
(*                                                                         *)
(* A working copy maps every path to the node there.  An operation runs to *)
(* its end in one step: `&mut Arc<PublicDirectory>` excludes everyone      *)
(* else, and the interleaving of loads with other replicas is the subject  *)
(* of PublicReconcile.  Links are followed when they are needed and give   *)
(* back what was stored, so a tree is loaded as a whole.  A CID stands for *)
(* the block it is the hash of.                                            *)
(***************************************************************************)
EXTENDS MerkleClock, SequencesExt

CONSTANTS
  Replicas,    \* processes with a working copy
  Paths,       \* bound: the paths in use, <<>> is the root
  Contents,    \* contents of files; < is the order of their CIDs' digests
  Times,       \* clock readings; < is the order of the metadata digests
  Commands,    \* bound: the operations the users of an instance call
  MaxRoots     \* bound: number of roots stored

AllCommands == {"write", "open", "mkdir", "rm", "mv", "cp", "reconcile"}

Names == UNION {Range(p) : p \in Paths}

ASSUME PathsAssumption ==
  /\ Paths \subseteq Seq(Names) /\ IsFiniteSet(Paths)
  /\ <<>> \in Paths /\ \A p \in Paths : p # <<>> => Front(p) \in Paths
ASSUME ContentsAssumption == Contents \subseteq Nat \ {0}
ASSUME TimesAssumption == Times \subseteq Nat
ASSUME CommandsAssumption == Commands \subseteq AllCommands
ASSUME MaxRootsAssumption == MaxRoots \in Nat

VARIABLES
  blocks,    \* the blockstore
  roots,     \* the CIDs of the roots that were stored
  tree       \* replica |-> path |-> node

vars == <<blocks, roots, tree>>

Absent == [type |-> "absent"]
Unset  == [type |-> "unset"]         \* an empty persisted_as cell
NoContent == 0                       \* of directories, and of a new file

IsDir(t, p)  == t[p].type = "dir"
IsFile(t, p) == t[p].type = "file"

--------------------------------------------------------------------------------
(* Nodes and blocks.  Of the metadata only the modification time is kept.  *)

Node(type, content, mtime, previous, cid) ==
  [type |-> type, content |-> content, mtime |-> mtime,
   previous |-> previous, persisted_as |-> cid]

NewDirectory(time) == Node("dir", NoContent, time, {}, Unset)
NewFile(content, time) == Node("file", content, time, {}, Unset)

NewTree(time) ==
  [p \in Paths |-> IF p = <<>> THEN NewDirectory(time) ELSE Absent]

Block(node, entries) ==
  [type |-> node.type, content |-> node.content, mtime |-> node.mtime,
   previous |-> node.previous, entries |-> entries]

(* from_serializable, of one node.                                         *)
AsNode(c) == Node(c.type, c.content, c.mtime, c.previous, c)

(* Names of the entries of the directory at p.                             *)
Userland(t, p) ==
  {Last(q) : q \in {x \in Paths : x # <<>> /\ Front(x) = p /\ t[x] # Absent}}

(* resolve_cid and store: a filled cell is believed; otherwise the node is *)
(* serialised with the CIDs of its entries.                                *)
CidsBelieving(t, believed) ==
  LET cid[p \in Paths] ==
        IF t[p] = Absent THEN Unset
        ELSE IF p \in believed THEN t[p].persisted_as
        ELSE Block(t[p], [n \in Userland(t, p) |-> cid[Append(p, n)]])
  IN cid

HasCid(node) == node.persisted_as # Unset
Filled(t) == {p \in Paths : t[p] # Absent /\ HasCid(t[p])}
Cids(t) == CidsBelieving(t, Filled(t))
RootCid(t) == Cids(t)[<<>>]

(* The nodes a store from the root gets to: no cell above stopped it.      *)
Serialised(t) ==
  {p \in Paths : /\ t[p] # Absent
                 /\ \A q \in Prefixes(p) : ~HasCid(t[q])}

Persisted(t) ==
  LET cid == Cids(t)
  IN [p \in Paths |-> IF p \in Serialised(t)
                      THEN [t[p] EXCEPT !.persisted_as = cid[p]] ELSE t[p]]

BlocksWith(t) ==
  LET cid == Cids(t) IN blocks \cup {cid[p] : p \in Serialised(t)}

(* from_serializable, all the way down.                                    *)
Loaded(c) ==
  LET at[p \in Paths] ==
        IF p = <<>> THEN c
        ELSE LET dir == at[Front(p)]
             IN IF dir # Unset /\ Last(p) \in DOMAIN dir.entries
                THEN dir.entries[Last(p)] ELSE Unset
  IN [p \in Paths |-> IF at[p] = Unset THEN Absent ELSE AsNode(at[p])]

--------------------------------------------------------------------------------
(* Walking to a directory and changing it.                                 *)

PrepareNextRevision(node) ==
  IF HasCid(node)
  THEN [node EXCEPT !.previous = {node.persisted_as}, !.persisted_as = Unset]
  ELSE node

(* Slip: only the last directory of the walk becomes a new revision.       *)
OnlyLeafDirMut(t, path) ==
  [q \in Paths |-> IF q = path /\ IsDir(t, q)
                   THEN PrepareNextRevision(t[q]) ELSE t[q]]

(* get_leaf_dir_mut: every directory on the way is a new revision, also    *)
(* when the walk ends at a file or a missing entry.                        *)
LeafDirMut(t, path) ==
  [q \in Paths |-> IF IsPrefix(q, path) /\ IsDir(t, q)
                   THEN PrepareNextRevision(t[q]) ELSE t[q]]

NotADir(t, path) == \E q \in Prefixes(path) : IsFile(t, q)

(* get_or_create_leaf_dir_mut, when the walk does not end at a file.       *)
CreateLeafDirMut(t, path, time) ==
  [q \in Paths |-> IF IsPrefix(q, path) /\ t[q] = Absent
                   THEN NewDirectory(time) ELSE LeafDirMut(t, path)[q]]

(* write and open_file_mut: opening keeps the content of a file and        *)
(* creates an empty one where there is nothing.                            *)
WithFile(t, p, newContent, content, time) ==
  IF NotADir(t, Front(p)) THEN LeafDirMut(t, Front(p))
  ELSE [CreateLeafDirMut(t, Front(p), time) EXCEPT ![p] =
          IF t[p] = Absent    THEN NewFile(newContent, time)
          ELSE IF IsDir(t, p) THEN t[p]
          ELSE [PrepareNextRevision(t[p]) EXCEPT !.content = content, !.mtime = time]]

Written(t, p, content, time) == WithFile(t, p, content, content, time)
Opened(t, p, time) == WithFile(t, p, NoContent, t[p].content, time)

(* Slip: a file on the way is not noticed.                                 *)
MadeDirAnywhere(t, path, time) == CreateLeafDirMut(t, path, time)

MadeDir(t, path, time) ==
  IF NotADir(t, path) THEN LeafDirMut(t, path)
                      ELSE CreateLeafDirMut(t, path, time)

Removed(t, p) ==
  [q \in Paths |-> IF IsPrefix(p, q) THEN Absent ELSE LeafDirMut(t, Front(p))[q]]

(* The subtree of `from` in `source` put at `to`; only the node itself     *)
(* gets the time, and PublicNode::upsert_mtime leaves its cell alone.      *)
Suffix(p, q) == SubSeq(q, Len(p) + 1, Len(q))

Inserted(t, source, from, to, time) ==
  [q \in Paths |->
     IF ~IsPrefix(to, q) THEN t[q]
     ELSE LET origin == from \o Suffix(to, q)
              node   == IF origin \in Paths THEN source[origin] ELSE Absent
          IN IF q = to THEN [node EXCEPT !.mtime = time] ELSE node]

(* Slip: the destination is not checked for an existing entry.             *)
PlacedOver(t, source, from, to, time) ==
  LET walked == LeafDirMut(t, Front(to))
  IN IF IsDir(t, Front(to))
     THEN Inserted(walked, source, from, to, time) ELSE walked

(* The tail of basic_mv and cp, with t the tree and source the one the     *)
(* node was taken from: an error leaves the walk's new revisions.          *)
Placed(t, source, from, to, time) ==
  LET walked == LeafDirMut(t, Front(to))
  IN IF IsDir(t, Front(to)) /\ t[to] = Absent
     THEN Inserted(walked, source, from, to, time) ELSE walked

Moved(t, from, to, time) ==
  IF t[from] = Absent THEN Removed(t, from)
  ELSE Placed(Removed(t, from), t, from, to, time)

Copied(t, from, to, time) ==
  IF t[from] = Absent THEN t ELSE Placed(t, t, from, to, time)

(* Bound: a subtree only goes where all of its paths are in use.           *)
FitsAt(t, from, to) ==
  \A q \in Paths : IsPrefix(from, q) /\ t[q] # Absent =>
                     to \o Suffix(from, q) \in Paths

--------------------------------------------------------------------------------
(* Reconciliation.                                                         *)

(* Slip: a merge is recorded itself instead of what it merged.             *)
MergedPreviousOfNodes(our, other) == {our.persisted_as, other.persisted_as}

MergedPrevious(our, other) ==
  LET side(node) == IF Cardinality(node.previous) > 1
                    THEN node.previous ELSE {node.persisted_as}
  IN side(our) \cup side(other)

(* PublicFile::merge and the head of reconcile_helper: the lower digest    *)
(* wins; Metadata::tie_break_with between equal contents.                  *)
Lower(a, b) == IF a <= b THEN a ELSE b

MergedNode(our, other) ==
  LET winner == IF our.content <= other.content THEN our ELSE other
      mtime  == IF our.content = other.content
                THEN Lower(our.mtime, other.mtime) ELSE winner.mtime
  IN Node(our.type, winner.content, mtime, MergedPrevious(our, other), Unset)

(* PublicFile::merge of two stored files, as the block of the result.      *)
MergedFile(a, b) ==
  IF a = b THEN a ELSE Block(MergedNode(AsNode(a), AsNode(b)), <<>>)

(* How the nodes that both sides have at a path are ordered, and which     *)
(* side a node of the result comes from.                                   *)
Orders(store, ours, theirs) ==
  LET previous == [b \in store |-> b.previous]
  IN [p \in {q \in Paths : ours[q] # Absent /\ theirs[q] # Absent} |->
        CausalCompare(previous, ours[p].persisted_as, theirs[p].persisted_as)]

(* Slip: a file and a directory are merged like nodes of one kind.         *)
SideOfAnyKind(order, our, other) ==
  CASE order \in {"Equal", "Greater"} -> "ours"
    [] order = "Less"                 -> "theirs"
    [] OTHER                          -> "merge"

(* Slip: the outcomes of the comparison are swapped.                       *)
SideSwapped(order, our, other) ==
  CASE order \in {"Equal", "Less"} -> "ours"
    [] order = "Greater"           -> "theirs"
    [] OTHER ->
       IF our.type = other.type THEN "merge"
       ELSE IF our.type = "dir" THEN "ours" ELSE "theirs"

(* Directories have priority over files.                                   *)
Side(order, our, other) ==
  CASE order \in {"Equal", "Greater"} -> "ours"
    [] order = "Less"                 -> "theirs"
    [] OTHER ->
       IF our.type = other.type THEN "merge"
       ELSE IF our.type = "dir" THEN "ours" ELSE "theirs"

Fates(ours, theirs, orders) ==
  LET fate[p \in Paths] ==
        IF p = <<>> THEN "merge"
        ELSE IF fate[Front(p)] # "merge" THEN fate[Front(p)]
        ELSE IF theirs[p] = Absent THEN "ours"
        ELSE IF ours[p] = Absent   THEN "theirs"
        ELSE Side(orders[p], ours[p], theirs[p])
  IN fate

(* reconcile, of a persisted tree with a loaded one: the new tree and the  *)
(* paths whose files were tie-broken.                                      *)
Reconciliation(store, ours, theirs) ==
  LET orders == Orders(store, ours, theirs)
      order == orders[<<>>]
      fate == Fates(ours, theirs, orders)
      merged == [p \in Paths |-> CASE fate[p] = "ours"   -> ours[p]
                                   [] fate[p] = "theirs" -> theirs[p]
                                   [] OTHER -> MergedNode(ours[p], theirs[p])]
  IN CASE order \in {"Equal", "Greater"} ->
            [kind |-> "AlreadyAhead", tree |-> ours, file_tie_breaks |-> {}]
       [] order = "Less" ->
            [kind |-> "FastForward", tree |-> theirs, file_tie_breaks |-> {}]
       [] OTHER ->
            [kind |-> "Merged", tree |-> merged,
             file_tie_breaks |-> {p \in Paths : /\ fate[p] = "merge"
                                                /\ IsFile(ours, p)}]

--------------------------------------------------------------------------------
Init ==
  \E time \in Times :
    LET start == NewTree(time)
    IN /\ blocks = {RootCid(start)}
       /\ roots = {RootCid(start)}
       /\ tree = [r \in Replicas |-> Persisted(start)]

Becomes(r, t) == tree' = [tree EXCEPT ![r] = t] /\ UNCHANGED <<blocks, roots>>

Write(r, p, content, time) ==
  "write" \in Commands /\ Becomes(r, Written(tree[r], p, content, time))

OpenFileMut(r, p, time) ==
  "open" \in Commands /\ Becomes(r, Opened(tree[r], p, time))

Mkdir(r, p, time) ==
  "mkdir" \in Commands /\ Becomes(r, MadeDir(tree[r], p, time))

Rm(r, p) == "rm" \in Commands /\ Becomes(r, Removed(tree[r], p))

BasicMv(r, from, to, time) ==
  /\ "mv" \in Commands
  /\ FitsAt(tree[r], from, to)
  /\ Becomes(r, Moved(tree[r], from, to, time))

Cp(r, from, to, time) ==
  /\ "cp" \in Commands
  /\ FitsAt(tree[r], from, to)
  /\ Becomes(r, Copied(tree[r], from, to, time))

Store(r) ==
  LET t == tree[r]
  IN /\ Cardinality(roots \cup {RootCid(t)}) <= MaxRoots
     /\ tree' = [tree EXCEPT ![r] = Persisted(t)]
     /\ blocks' = BlocksWith(t)
     /\ roots' = roots \cup {RootCid(t)}

(* A restart, or opening any root there is.                                *)
Load(r, c) == Becomes(r, Loaded(c))

(* causal_compare stores our side; the other one was loaded.               *)
Reconcile(r, c) ==
  LET ours  == Persisted(tree[r])
      store == BlocksWith(tree[r])
  IN /\ "reconcile" \in Commands
     /\ Cardinality(roots \cup {RootCid(tree[r])}) <= MaxRoots
     /\ tree' = [tree EXCEPT ![r] = Reconciliation(store, ours, Loaded(c)).tree]
     /\ blocks' = store
     /\ roots' = roots \cup {RootCid(tree[r])}

Below == Paths \ {<<>>}

Next ==
  \E r \in Replicas :
    \/ \E time \in Times :
         \/ \E p \in Below : \/ \E x \in Contents : Write(r, p, x, time)
                             \/ OpenFileMut(r, p, time)
         \/ \E p \in Paths : Mkdir(r, p, time)
         \/ \E from, to \in Below : BasicMv(r, from, to, time)
                                      \/ Cp(r, from, to, time)
    \/ \E p \in Below : Rm(r, p)
    \/ Store(r)
    \/ \E c \in roots : Load(r, c)
    \/ \E c \in roots : Reconcile(r, c)

Spec == Init /\ [][Next]_vars

--------------------------------------------------------------------------------
(* Types.  Nothing is below a file or below nothing.                       *)
Nodes(store) ==
  [type : {"dir", "file"}, content : Contents \cup {NoContent},
   mtime : Times, previous : SUBSET store, persisted_as : store \cup {Unset}]

TypeOK ==
  /\ roots \subseteq blocks
  /\ tree \in [Replicas -> [Paths -> Nodes(blocks) \cup {Absent}]]
  /\ \A r \in Replicas :
       /\ IsDir(tree[r], <<>>)
       /\ \A p \in Below : tree[r][p] # Absent => IsDir(tree[r], Front(p))

(* A filled cell names a block with the content, the entries and the       *)
(* history that the node has now, however deep the last edit was: what is  *)
(* stored is what was there, up to times.                                  *)
CellsNameContents ==
  \A r \in Replicas : \A p \in Paths :
    LET node == tree[r][p]
        c    == node.persisted_as
    IN node # Absent /\ HasCid(node) =>
         /\ c.type = node.type /\ c.content = node.content
         /\ c.previous = node.previous
         /\ DOMAIN c.entries = Userland(tree[r], p)
         /\ \A n \in DOMAIN c.entries :
               tree[r][Append(p, n)].persisted_as = c.entries[n]

(* What a user sees of a node.                                             *)
Shown(node) ==
  IF node = Absent THEN [type |-> "absent"]
  ELSE IF node.type = "dir" THEN [type |-> "dir"]
  ELSE [type |-> "file", content |-> node.content]

Seen(t) == [p \in Paths |-> Shown(t[p])]

(* The tree refines a plain tree of folders and files.                     *)
Abstract ==
  INSTANCE FileSystem WITH
    Contents <- Contents \cup {NoContent},
    fs <- [r \in Replicas |-> Seen(tree[r])],
    saved <- {Seen(Loaded(c)) : c \in roots}

ImplementsFileSystem == Abstract!Spec

(* Roots that replicas stand at, and what a root becomes when it is        *)
(* reconciled with another.                                                *)
Stored ==
  {tree[r][<<>>].persisted_as : r \in {s \in Replicas : HasCid(tree[s][<<>>])}}

Merge(store, a, b) == Reconciliation(store, Loaded(a), Loaded(b))

(* PublicFile::merge: commutative and associative.                         *)
MergesAgree(files) ==
  \A a, b, c \in files :
    /\ MergedFile(a, b) = MergedFile(b, a)
    /\ MergedFile(MergedFile(a, b), c) = MergedFile(a, MergedFile(b, c))

(* Two sides that reconcile with each other get the same root; and files   *)
(* that were stored, merges of merges among them, merge to the same file   *)
(* in whichever order several replicas get to it.                          *)
MergeCommutes ==
  /\ \A a \in Stored, b \in roots :
       RootCid(Merge(blocks, a, b).tree) = RootCid(Merge(blocks, b, a).tree)
  /\ MergesAgree({b \in blocks : b.type = "file"})

(* Everything a root leads to: its entries, its history, and theirs.       *)
Reachable(c) ==
  LET more(S) == S \cup UNION {b.previous \cup Range(b.entries) : b \in S}
      reach[i \in 0..Cardinality(blocks)] ==
        IF i = 0 THEN {c} ELSE more(reach[i - 1])
  IN reach[Cardinality(blocks)]

UnseenFiles(a, b) ==
  LET t    == Loaded(a)
      seen == Reachable(b)
  IN {p \in Paths : IsFile(t, p) /\ t[p].persisted_as \notin seen}

(* A file revision of either side that the other one has never seen is not *)
(* dropped by a reconciliation: it stays, is tie-broken, or gives way to a *)
(* directory.                                                              *)
UnseenFilesSurvive ==
  \A a \in Stored, b \in roots :
    LET m == Merge(blocks, a, b)
        stays(c, p) == \/ m.tree[p] = Loaded(c)[p]
                       \/ p \in m.file_tie_breaks
                       \/ IsDir(m.tree, p)
    IN /\ \A p \in UnseenFiles(a, b) : stays(a, p)
       /\ \A p \in UnseenFiles(b, a) : stays(b, p)
================================================================================
