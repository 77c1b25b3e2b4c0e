# A TLA+ model of rs-webnative

rs-webnative is the Rust implementation of WNFS, a versioned file system whose
directories and files are immutable, content-addressed blocks.  A public part is
a Merkle tree with history; a private part hides the same structure as
ciphertexts in a HAMT.  The library keeps no threads of its own: its operations
are `async` functions over a `BlockStore`, and the difficulty lies in what
several devices, each with an in-memory tree, do to a history they share
through that store.

Paths below are relative to the crates: `node.rs` of the public part is
`src/wnfs/src/public/node/node.rs`, and so on; `PROJECT.json` has full paths and
the lines of every definition.

## Inventory

| Component | State | Operations | What makes it correct | Module |
|---|---|---|---|---|
| **Causal order and reconciliation** (`wnfs/src/public/node/node.rs`, `directory.rs`) | two frontiers and two visited sets per comparison; the `previous` set of a root | `causal_compare`, `reconcile`, `reconcile_helper` | an order is only reported when the history has it; a fast-forward loses nothing; `AlreadyAhead` is true; replicas converge | `PublicReconcile`, `PublicTree` |
| **Public working copy** (`public/directory.rs`, `file.rs`, `link.rs`) | `Arc` trees with `userland`, `metadata`, `previous`, and a `persisted_as` cell per node | `write`, `mkdir`, `rm`, `basic_mv`, `cp`, `open_file_mut`, `merge`, `store` | the cell never names old contents; errors leave the tree as it looked; equal merges give equal files | `PublicTree` |
| **Storable, Link, BlockStore** (`wnfs-common`) | content-addressed blocks; once-cells | `store`, `load`, `resolve_value`, `resolve_value_mut`, `resolve_cid` | storing twice gives one CID; a mutated link drops its CID | `PublicTree`, `Hamt` |
| **HAMT** (`wnfs-hamt`) | bitmask nodes with value buckets of at most three pairs and child links | `set`, `get`, `get_mut`, `remove`, `canonicalize`, `diff`, `merge` | it is a map; equal maps have equal roots; `diff` is exact | `Hamt` |
| **Private forest** (`wnfs/src/private/forest`) | HAMT from accumulated names to sets of CIDs; write proofs next to it | `put_encrypted`, `get_encrypted`, `get_multivalue_by_hash`, `remove_encrypted`, `diff`, `merge`, `verify_against_previous_state` | no concurrently written value is lost; merge is a union; only what was proven changes | `PrivateForest`, `WriteProofs` |
| **Private nodes** (`private/node`) | header with name and skip ratchet; content | `store`, `search_latest`, `seek_unmerged_heads`, `search_latest_reconciled`, `merge`, `update_ancestry` | every unmerged head is found; merging heads drops nothing; a link opens what it names | `PrivateNode`, `PrivateTree` |
| **Private directory and file** (`private/directory.rs`, `file.rs`) | entries as private links, `previous` with back-distances; blocks of content | `write`, `open_file_mut`, `rm`, `basic_mv`, `cp`, `attach`, `prepare_key_rotation`, `merge`, reads of content | one device alone has a file system; content is read back at every offset | `PrivateTree`, `PrivateContent` |
| **Previous iterators** (`private/previous.rs`) | a ratchet iterator per path segment | `get_previous` | every old revision once, newest first | `PrivateHistory` |
| **Share** (`private/share.rs`) | labels at (sharer, recipient key, counter) in the sharer's forest | `share`, `find_latest_share_counter`, `receive_share` | the latest counter is found; the recipient gets what was shared | `Share` |
| **Root tree** (`root_tree.rs`) | public, exchange and private roots, the forest | dispatch of each operation, `store`, `load` | an operation happens as a whole or not at all; store then load is what was there | `RootTree` |
| **UnixFS** (`wnfs-unixfs-file`) | balanced tree of links with block sizes; reader position | `build`, `stream_balanced_tree`, `read`, `seek` | the reader returns the bytes written | `UnixFsFile` |
| **Name accumulator** (`wnfs-nameaccumulator`) | RSA accumulators, proofs and their batches | `add`, `prove`, `verify` | a proof passes for its base and commitment only | sets of segments in `WriteProofs` |
| **Metadata, paths, errors** (`wnfs-common`, `wnfs/src/error.rs`) | plain data | `upsert_mtime`, `tie_break_with` | ties are broken the same way on both sides | in `PublicTree` |
| **WebAssembly bindings, benches, examples** | none of their own | translations | | not modelled |

The components meet in four places.  The working copy calls `causal_compare` on
every pair of nodes it reconciles, and `causal_compare` stores both of them, so
comparing fills caches.  Everything persistent goes through `Storable::store`,
which trusts a filled cell.  The private side is the same design again, with the
forest in place of the blockstore and ratchet positions in place of `previous`
CIDs; and its forests, which may be merged from any device at any time, are what
sharing and write proofs rest on.  `RootTree` puts a public directory, the
exchange directory and any number of private ones over one forest.

What is hard: loads happen between the steps of a comparison or a merge, other
replicas store and restart meanwhile, a load may fail after the in-memory tree
was changed, roots, forests and updates arrive late or twice, and merges of
merges must not lose what their history promises.  `PROJECT.json` lists each
hazard at its line, with the properties about it.

## Plan

Done: all modules below.  Each component of the library with state of its own is
modelled; "Not modelled" lists what is left out of them.

Proved so far: the comparison and reconciliation of roots, the public tree with
its refinement and its merges, the private forest with its refinement, all
invariants of the private tree, sharing and write proofs, and the files: how they
are cut up, built into trees and read (see Proofs).  Next, in this order:

1. `RootTree`: `TypeOK` and `StoredIsShown`, with the lemmas about private trees.
2. `PrivateHistory`: that stepping back from a stored revision is complete.
3. `PrivateTree`: the refinement of `FileSystem`.

## The modules

Each module's opening comment says what it abstracts.  Names marked `Slip` are
not part of the specification.  Each is a plausible mistake in the definition
below it and is used to see that a property notices.

### MerkleClock

Operators on `prev`, the function from stored CIDs to their `previous` sets.
`History` is the reference definition (the least closed set);
`NextPreviousSet`, `NextRound` and `CausalCompare` are the loop of
`causal_compare` as a function.

### PublicReconcile

| Model | Code |
|---|---|
| `blocks` | the blockstore; a CID is a position, and equal blocks get one CID |
| `tree[r]` | the `Arc<PublicDirectory>` of replica `r`: `previous`, `userland`, `persisted_as` |
| `op` | the one `reconcile()` in flight with the locals of `causal_compare` and what `reconcile_helper` has still to merge |
| `Write`, `Store`, `Reopen` | `write` on a one-segment path, `Storable::store`, `Storable::load` after a restart |
| `StartReconcile` | the beginning of `reconcile`: both sides stored, CIDs compared |
| `FindLess`, `FindGreater`, `GiveUpEarly`, `Advance`, `FailCompare` | one iteration of the comparison loop, by exit |
| `KeepOurs`, `FastForward`, `BeginMerge`, `MergeEntry`, `FailMerge`, `FinishMerge` | the arms of `reconcile` and the loop of `reconcile_helper` |

Abstractions.  The directory has one level and a name stands for one fixed file,
so `userland` is a set of names.  Files are only created: there are no
tombstones, so a removal and a concurrent revision of the same directory are
merged to a directory with the file, and a property about kept writes has to
leave removal out (`PublicTree` has it).  One reconciliation is in flight at
a time: a replica cannot be used while its `&mut` is borrowed, and two
reconciliations of different replicas share only the growing blockstore, where
the store steps are actions of their own.  The loads within one iteration are
one step, since blocks never change.  Failures of `put_block` are not
modelled: they leave root directory and store as they were or with an empty
cell, a state `Write` also reaches.

### FileSystem, PublicTree

`FileSystem` is what a directory promises: each replica has a tree of folders and
files and can write, make folders, delete, move, copy, save, open what was saved,
and reconcile, which on each path shows what one of the sides had there.
`PublicTree` is the public code below that promise.

| Model | Code |
|---|---|
| `tree[r]` | the tree below replica `r`'s root `Arc<PublicDirectory>`, as a function from paths to nodes; the links between are `Userland` |
| a node | `PublicDirectory` or `PublicFile`: metadata (`mtime`), content, `previous`, `persisted_as` |
| a CID | the block it is the hash of, a value |
| `roots`, `blocks` | the root CIDs there are to load or to be told of; the blockstore |
| `LeafDirMut`, `CreateLeafDirMut` | `get_leaf_dir_mut`, `get_or_create_leaf_dir_mut`, with the revisions they make on the way to an error |
| `Write`, `OpenFileMut`, `Mkdir`, `Rm`, `BasicMv`, `Cp` | the operations of `PublicDirectory`, errors included |
| `Store`, `Load` | `Storable::store` and `load` of the root |
| `Reconcile` | `reconcile` with `causal_compare` at each pair of nodes (`Orders`), `reconcile_helper` (`Fates`) and `PublicFile::merge` (`MergedNode`) |

Abstractions.  A call is one step, because it holds `&mut Arc<PublicDirectory>`;
what other replicas do between two loads is the subject of `PublicReconcile`.
Trees are loaded as a whole: blocks never change, so it makes no difference when
a link is followed.  Digests are compared as the order of small numbers.  Of the
metadata there is the modification time.  Paths form a finite set (`Paths`), and
moves and copies go where all paths of the subtree are in the set (`FitsAt`).

Two operations have an outcome in `FileSystem` that their names do not suggest: a
failed `basic_mv` is a `Delete`, and reconciling may bring back an entry that one
side removed, when the directories diverged.  A third is visible in
`UnseenFilesSurvive`: a directory replaces a file of the same name, and
`file_tie_breaks` does not say so (`directory.rs:951`), so `Merged` with an empty
list does not mean that no file was dropped.

### ForestMap, Hamt, PrivateForest

`ForestMap` is what a forest promises: a map from labels to sets of CIDs for each
device, in which CIDs add up and merging is a union.  `Hamt` is the trie as
operators on trees, laid out flat by the nibbles that lead to a node (`cells`,
with its `persisted_as`) or to a bucket (`slots`): `GetValue`, `SetValue`,
`GetMut`, `RemoveValue` with `canonicalize`, `Diff`, `Merged`, `Stored`, `Loaded`.
`PrivateForest` has a tree per device, `PutEncrypted`, `RemoveEncrypted`,
`Store`, `Load` and `Merge`.  A key is its digest.  CIDs are the nodes below;
where two nodes have CIDs, `Diff` compares those, as the code does.

### PrivateNode, PrivateTree

`PrivateNode` has what a node is and how revisions are found: `Header` (the
ratchet as the id it was seeded with and the steps since; the name as the set of
ids on the way), `Link` (a CID, how far back it is, and the key it was encrypted
with), `UnmergedHeads` (`seek_unmerged_heads`), `LatestNodes`, `Multivalue`,
`Reconciled` (`search_latest_reconciled`) and `MergedWith`.

| `PrivateTree` | Code |
|---|---|
| `blocks` | ciphertexts by CID; a CID has a rank and a number, so that the order of digests is free |
| `forest[d]` | the refs (label, CID) in the `HamtForest` of device `d`, the map of `ForestMap` |
| `keys` | the access keys of roots that were stored |
| `tree[d]` | the `Arc<PrivateDirectory>`: a node for a decrypted link, a ref for an encrypted one |
| `Write`, `OpenFileMut`, `Mkdir`, `Rm`, `BasicMv`, `Cp` | the operations of `PrivateDirectory` with `search_latest` on, what a failing one leaves behind included |
| `WriteBelow` | the same `write`, on the handle of a directory below the root that is stored without the root |
| `SearchLatestReconciled` | `PrivateNode::search_latest_reconciled` on the root |
| `Store`, `Load` | `store` (children first), `PrivateNode::load` and `from_private_ref` of an access key |
| `Sync` | `PrivateForest::merge` with another device's forest |

Where the code depends on the order of ciphertexts (`Multivalue` returns the
first CID that decrypts), operators return the set of outcomes.

### PrivateHistory

`PrivateNodeHistory` and `PrivateNodeOnPathHistory` as functions of a forest:
`NodeHistory`, `PreviousNode`, `PathHistory`, `GetPrevious`.  `Walks` is what an
iterator gives until it ends.  The module adds no variable to `PrivateTree`: the
iterators own a copy of the forest and are looked at in every state.

### PrivateContent, UnixFsFile, MCFiles

`UnixFsFile` builds a file and reads it.  `source`, `buffer` and `layers` are the
state of the chunker and of `stream_balanced_tree`, which work while the source
gives its bytes in pieces of any size or fails (`ReadSource`, `BuildFails`);
`reader` has position, current node and stack of `UnixFsFileReader`, and a call to
`read` goes on through `Pending`, `NodeLoads` and `LoadFails`.  A block is the tree
below it; what all its leaves hold (`Leaves`, `DataOf`) is found by opening the
list of links once for each layer (`Below`), without recursion.  `PrivateContent`
is the content of a private file as blocks under labels, with `New`,
`NewStreaming`, `ReadAt`, `Size`.  `MCFiles` puts the two next to each other on the
same contents and chunk sizes.

### RootTree

`public_root`, `exchange_root`, `private_map` and `forest` are the fields of
`RootTree`.  Private directories are instances of `PrivateTree`'s operators over
the one forest; public ones are plain trees, with the effect `FileSystem` gives
each operation, which is what `PublicTree` is shown to implement.  Operations
work on a copy that is saved when there was no error (`SavePartition`), so that
calls that fail are no steps; `StoreFails` is the exception, since the cells of
stored nodes stay filled.

### Share

`forest` has the encrypted access keys and the nodes behind them, `exchange` the
exchange roots a sharer may know, `count` and `next` the counters that the
application keeps.  `DoShare`, `ShareFails` (after some of the recipient's
devices), `Find`, `ReceiveShare` and `Sync` are the calls; an old copy of
anything is always possible.

### WriteProofs

`proofs[w]` is `ForestProofs`: the base of each label and the batch, a bag of
pairs of base and commitment.  `PutEncrypted`, `RemoveEncrypted`, `CallFails` (the
name is proven before the forest is changed), `Merge`, `Load`, `Publish` belong to
a writer; `Accept` to the service, which calls `verify_against_previous_state` on
updates in any order and any number of times.  The service is the one of
`examples/write_proofs.rs`.  The forests are `ForestMap`'s.

### MCForkedHistory, MCPublicTree, MCPrivateForest, MCPrivateTree, MCPrivateHistory, MCRootTree, MCWriteProofs

They declare the sets of paths, labels, calls and names of the runs.
`MCForkedHistory` starts from a history of six revisions: one branch of four
revisions after the first and one of a single revision, as two replicas leave
behind that store after each write, one of them reopened at the first revision.
Only from branches of such different length, once their ends are merged, the early
return of `causal_compare` gives up on a revision of its own history.

## Runs

| Run | Instance | Shows |
|---|---|---|
| `reconcile_converges` | 2 replicas, 2 names, no restarts, only current roots, `FairSpec` | `HistoryKeepsWrites`, `AlreadyAheadIsTrue`, `NoWriteForgotten`, `Convergence`: no write leaves the history, and both replicas end with the same files |
| `reconcile_forked` | 2 replicas on a forked history of 6 revisions, 7 at most, failing loads, restarts, late roots | `TypeOK`, `CacheIsCurrent`, `VerdictIsSound`, `ExhaustionMeansDiverged`, `AncestorsAreFound`: what the comparison loop answers agrees with the history, whatever the other replica stores meanwhile, and it finds which side is ahead where nothing was merged since |
| `tree_edits` | 1 replica, 2 directories with an entry each; writes, new directories, removals, moves, copies, 2 roots | `TypeOK`, `CellsNameContents`, `ImplementsFileSystem` |
| `tree_merges` | one directory with one entry, 2 contents, 4 roots; writes, removals, reconciling | `MergeCommutes`, `UnseenFilesSurvive`, `ImplementsFileSystem`: a reconciliation gives the same root on either side, and all files that were stored, merges among them, merge to the same file in any order |
| `forest` | 2 devices, 5 labels whose digests agree in up to three nibbles, a bucket of 3, one label with 2 CIDs | `TypeOK`, `EqualMapsEqualRoots`, `DiffIsExact`, `ImplementsForestMap` |
| `private_tree` | 1 device, a directory with an entry and a file, 5 blocks, restarts from any access key | `ImplementsFileSystem` |
| `private_merges` | 2 devices, 2 files of the root, 7 blocks | `TypeOK`, `ForestIsClosed`, `SearchesAgree`, `NoEntryForgotten`, `HeadsCoverHistory`, `TwoWritesSettle` |
| `private_history` | 1 device, a file in a directory and one next to it, 10 blocks | `HistoryStepsBack`, `HistoryIsComplete` |
| `root_tree` | 2 private roots, one mounted where the other has an entry, and the exchange partition; 4 blocks, 1 stored root | `TypeOK`, `EditsAreThoseOfTrees`, `MovesKeepFiles`, `StoredIsShown`; no moves in the exchange partition, and `store_private_root` is called with a file |
| `unixfs` | contents of 0 to 9 bytes, chunks of 1 to 3, degrees 2 and 3, buffers of 1, 2 and 5 | `TypeOK`, `TreeHoldsContent`, `ReadsAreContent`, `PrivateReadsAreContent` |
| `share` | 2 devices of the sharer, 1 of the recipient (so that no share reaches only some of its devices), 2 nodes, limits 1 and 2, counters up to 2, 3 shares | `SharesComeInOrder`, `SharesArrive` |
| `write_proofs` | 2 writers with access at two levels, 5 names, 2 calls between loads, 2 updates | `FairWritesPass`, `ChangesAreProven` |

### Refinements

`PublicTree` implements `FileSystem` with concurrent replicas and
reconciliation (`tree_edits`, `tree_merges`); `PrivateTree` implements the same
`FileSystem` for one device, which may restart from any access key it stored
(`private_tree`).  With `search_latest` on, one device still leaves one head behind
of each node; several heads are the subject of `private_merges`.  The mapping is what a user sees
with `search_latest` on: `Seen` opens each path in the tree its directory was
opened in.  `PrivateForest` implements `ForestMap`; the mapping is `to_hashmap`
of the tree.  `PrivateTree` and `WriteProofs` then use the map in place of the
trie, and `RootTree` uses `FileSystem` in place of `PublicTree`.

### Bounds

`MaxRevisions` stops new blocks in `PublicReconcile`.  The seventh of
`reconcile_forked` is a write on top of any of the six, or the merge of any two of
them, stored by one replica while the other compares.  Its replicas are
interchangeable (`Symmetry`): no property there tells them apart, and none is
temporal.  In `reconcile_converges` the bound of ten is never reached, so it takes
nothing from the liveness result.

`MaxRoots` stops new roots in `PublicTree`, not edits of a working copy: three
are a common ancestor and two diverged sides, the fourth gives their merge a
root, or one side two revisions, so that below the root a file can be ahead on
one side while the directories diverged.  The instances have one replica that
loads any root there is: replicas share nothing but the blockstore and the roots,
so what another one would store between two of its loads, this one stores as
well.  `Commands` leaves out the operations a question does not need.

`FiveLabels` has four labels that split a full bucket over two levels and one that
leaves them after the first, so that removals canonicalize on both, and buckets
meet nodes in `Diff` and `Merged`.  No bound is needed: the states are finite.

`MaxBlocks` stops stores, not edits, in the private modules.  Five blocks of
`private_tree` are the root's first revision and two stores of a directory with
an entry, the second after a restart or not.  Seven of `private_merges` are
the root, two concurrent writes of file and root each, and a merge with a write
on top, or three heads.  Ten of `private_history` are up to four revisions of the
file and of the directories above it.  Four of `root_tree` are two mounts and what
is written in one of them, stored together or apart.  `Calls` says which paths an
operation is called with.  `Ranks` has one member in the runs, so that CIDs are
ordered as they were made; the modules allow any order.

Nine bytes in chunks of one and nodes of two links make a tree of five levels;
the lengths up to nine end with every combination of full and open `layers`.

In `share`, two counters and three shares allow both devices of a sharer to use
one counter, or one to be ahead.  A second device of the recipient would add
nothing: devices of a recipient only read the forests and their own counters.

In `write_proofs`, two calls between loads allow a label that is written twice,
two labels, and one under two names; two updates can come in either order, twice
or never, and be followed by a load.

No run switches the deadlock check off: something can be loaded, stored or
announced again in every state.

### Fairness

`PublicReconcile`: `WF_vars(ReconcileStep)`, a future that was called is polled to
its end.  `SF_vars(Store(r))` and `SF_vars(SyncWith(r, s))`: the application, which
is outside this repository, keeps storing and exchanging roots; strong, because
a replica busy with one exchange is not available for the other.

`Share`: weak fairness of `Sync`, `Find` and `ReceiveShare` of a recipient's
device, and none of the sharer's actions: the application merges in the sharer's
forests, searches, and takes what it found.  That is what the doc example of
`share.rs` does once.

## Proofs

`PublicReconcileProofs`, with lemmas about histories from `SharedFacts`, proves for
any sets of replicas and names and any bound:

- `TypeCorrect`, `CacheNeverStale`, `OrderIsSound`, `ExhaustionIsDivergence`,
  `SubsetRulesOutHit`, with failing loads allowed.  All but the last are
  properties of `reconcile_forked`; the last says that a frontier within the
  other side's visited set cannot reach the other root any more, the reason the
  loop may stop there;
- `WritesAreInherited`, `AlreadyAheadIsEarned`, `NothingForgotten`: those of
  `reconcile_converges`, under `~BlockstoreMayFail`.  With failing loads
  `AlreadyAheadIsTrue` does not hold (see below).

The argument.  Verdicts are not inductive alone: a frontier is only meaningful
together with the visited set.  `IInv` says of each side that the visited set
and the first frontier lie within the history of its root, that the predecessors
of everything visited are visited or on the frontier, and that no root lies in
the part of the history already passed.  A hit is then a member of the history
(`VerdictIsSound`), and when the frontier is empty the explored part is closed,
so by leastness it is the whole history (`ExhaustionMeansDiverged`).  Appending
a block leaves the histories of older CIDs alone (`HistoryStable`), which is
what makes other replicas' stores harmless.  The second group adds that an
unstored tree has the files of the revisions in its `previous`, or still has
them pending.

`LoopAnswersLikeFunction` says that the loop, which loads one layer at a time
while others store, answers what `CausalCompare` answers on the store of any
moment.  `InRounds` is the invariant: the locals of the loop are those of some
round of the pure comparison (`RunsAs`), and a round only looks at revisions that
are there, so that later blocks change nothing.  It is what allows `PublicTree` to
reconcile in one step; whether the answer is right is said by the theorems before
and by the next one.

`AncestorsFound`: where a side was written on top of the other without a merge in
between, the comparison says so, at any distance and with any merges before that.
`WayInv` has the frontier of the side ahead at one single revision at a time, on
the way back to the side behind (`OnTheWay`).  That revision is newer than
everything found going back from the side behind, so neither side's visited set
covers the other's frontier, and the frontier is not empty before the hit
(`NothingInTheWay`).

`SharedFacts` has what several of the proofs need: induction in the form of sets
of numbers (`HoldsUpTo`, from well-foundedness, since a theorem about an operator
cannot be instantiated here), images of finite sets, and sequences as paths
(`PrefixStep`, `PrefixOrder`, `CorrespondingSteps`).

`PublicTreeProofs`, for any finite set of paths that has with each path the one
above it, any contents, times and commands:

- `TreesAreTyped`, `CellsAreNotStale`.  `IInv` adds what makes them inductive:
  blocks are closed under their entries, every tree in memory is `Sound` (it has
  the shape of a tree, and each filled cell names what is there), and so is every
  stored root once it is loaded, since it may be loaded at any time.  A walk
  empties the cells of all directories above an edit (`IsOpen`), and an edit below
  open cells leaves the filled ones right (`CellsStay`).  The CIDs and the fates of
  paths are defined by recursion along paths; that such functions exist and obey
  their equations is proved by depth (`CidsExist`, `FatesExist`).
- `ImplementsTree`: the refinement of `FileSystem`, one lemma for each operation
  (`FileSeen`, `FolderSeen`, `RemovalSeen`, `MoveSeen`, `CopySeen`, `StoredSeen`,
  `MergedShows`), put together in `StepSeen`.  An operation that fails halfway
  shows nothing: what it leaves are new revisions of the same directories.
- `FileMergeIsCommutativeAndAssociative`, of `PublicFile::merge` and any stored
  files.  A file block is determined by its content, its time and its parents,
  which are its `previous` set if it is a merge node and itself if not
  (`SameParentsSameFile`); a merge takes the least content, the least time of that
  content and the union of the parents (`MergedFileIs`).  This is where flattening
  merge nodes matters.  It does not carry over to whole histories: merging with
  an older root, after a merge that already has it, is a fast-forward.
- `MergingCommutes`.  `MInv` adds that the blocks hold their histories, that these
  have no cycles (a new block is in nobody's history), and that a filled root cell
  names a stored root.  Without cycles the two comparisons of a pair mirror each
  other (`CompareIsMirrored`), so do the fates of all paths (`FatesAreMirrored`),
  and the merged trees are equal.  That stored files merge alike in any order is the
  theorem before, for which `MInv` says what a stored file is (`FilesAreFiles`,
  kept by `StoreKeepsFiles`).
- `UnseenFilesAreKept`.  `Reachable` is closed, by counting blocks; whatever order
  the comparison answers, the side that loses was seen by the other
  (`OrderIsSeen`), and what is below it as well.  Only a directory against a file
  is decided without that (`GivesWay`).

`PrivateForestProofs`, for any digests of one length, any CIDs, devices and bucket
size: `ForestsAreTyped`, `RootsAreCanonical`, `DiffsAreExact` and `ImplementsMap`.

- `IInv` says that the map of a forest determines its tree (`Holds`): there is a
  node at the root and at each prefix of more labels than fit into one bucket
  (`Big`), a bucket for the labels of each smaller group right below a node,
  sorted by digest (`IsLaid`), and a filled cell names what is below it now
  (`CellsAre`).  None of the four properties is inductive without it.  Equal
  roots are then immediate; the work is that each operation keeps the layout.
- Setting: a full bucket is split along the nibbles its labels agree in, which
  adds exactly the nodes that became `Big` (`SplitIs`, `BigGrows`).  Removing:
  the way back up takes the nodes that are no longer `Big`, one `Canonicalize`
  after the other, from a layout with the whole way still in it (`Way`, `WayUp`).
  The cells off the way keep their CIDs, and what these name is unchanged
  (`OffTheWay`, `SameContent`).  That a sorted sequence is unique (`SortingIs`)
  makes inserting in the middle and sorting from scratch the same (`InsertedIs`).
- Storing and loading: the CID of a node, whether taken from its cell or
  computed from its children, is its content (`CidIs`), and a content determines
  a tree (`LoadedHolds`).
- `Diff` skips a pair of nodes when their CIDs are equal; a CID determines the
  pairs below it (`ContentPairs`), so nothing is missed (`DiffIs`).  Merging
  applies the changes one after the other, in any order (`MergedHolds`).

`ShareProofs`: `SharesAreInOrder`.  `IInv` adds that each encrypted access
key in a forest was shared at the counter of its label (`KeysAreShared`), and
that a device's forest has the keys of all counters below its next one
(`HasUpTo`).

`WriteProofsProofs`: `ChangesNeedProof` relates a batch to the calls that made it
(`ProofsOfCalls`): the base and the commitment of a label in the batch are those
of the calls about it, so a change of the label under which the batch passes was
made by one of them.  `FairWritesAreAccepted` is the converse for writers that
wrote each label once (`FactorsOfCalls`).

`PrivateTreeProofs`, for any finite set of devices and any paths, contents, ranks
and calls: `TypesKept`, `ForestKeptClosed`, `SearchesKeepAgreeing`,
`EntriesAreKept`, `HistoryIsCovered` and `TwoWritesAreSettled`.

- `IInv` says that some assignment of the ids in use to "dir" and "file" exists
  under which everything is as it should be (`AllAre`).  An id belongs to one
  node for good, but neither a ref nor a link says of which type it leads to;
  without the assignment, a merge of heads could not be known to be one of
  directories only.  Drawing a new id extends it (`Extends`, `FreshKind`).
- A node is known to a forest (`IsKnown`) if the links to its own earlier
  revisions are of positive distance, carry the key of that revision and lead to
  a ref in the forest; a filled cell is in the forest too.  A rotated node keeps
  links to what it was under another id, about which the property says nothing.
- Reading: the ratchet comes to a free position, because the positions in use are
  finitely many (`FreeRevisionOf`); a search finds a head, because the last of the
  revisions it finds is linked to by none (`SomeHead`).  Merging heads one after
  the other keeps the links right at the common target revision, however far
  behind each head was (`LinkToFound`, `FartherLinks`, `MergedOne`,
  `MergeIsMerging`).
- Editing: one lemma for each operation, for whatever it leaves behind when it
  fails as well (`WithFileIs`, `MadeDirIs`, `RemovedIs`, `MovedIs`, `CopiedIs`).
  The ids drawn in one call differ from all in use and from each other
  (`FreshIdOf`, `FreshIdsDiffer`).
- Storing: a store puts a node into the forest only together with its entries
  (`UnsavedIs`, `StoredIs`), and what was there before stays as it was
  (`ForestLater`, `TreeLater`); so forests of different devices can be merged
  (`SyncKeeps`).
- No gaps: `IsKnown` has it that no revision before a known one is missing
  (`HasEarlier`), which a store keeps because it takes the first free revision
  (`FreeHasEarlier`), and an exchange because it only adds.  The exponential
  search therefore brackets the last revision in its jumps and halves down to it
  (`JumpsEnd`, `HalvesEnd`, `JumpLands`, `SeekLastIs`).
- Reconciling the root: every device has the first revision of the root, since all
  start from it and forests only grow (`RootIsShared`, `ForestsGrow`), and no drawn
  id is that of the root (`AreIds`).  All roots are then found by one scan
  (`AllAreFound`).  Merging the heads one after the other gives the entries of
  exactly those that were merged (`Gathered`, `GatheredOne`), and two of them the
  links to both (`TwoAreMerged`).  That the heads cover the history is by
  contradiction: of the roots in no head's history the latest would be linked to
  by none, hence a head itself (`HeadsCover`; `AncestryOf` shows by counting
  blocks that `Ancestry` is closed).

`UnixFsFileProofs`, for any lengths, chunk sizes, degrees from two on, buffers and
bounds on seeks: `FilesAreTyped`, `TreesHoldContent`, `ReadsGiveContent` and
`PrivateReadsGiveContent`.

- `IInv` has three parts.  `BuildInv`: layer i of the tree that is being built has
  trees of height i - 1 and at most `degree` of them, every layer but that of the
  leaves has room for one more (`HasRoom`), all leaves are full, and the bytes below
  the layers, then the buffer, then the source are the content.  Without the heights
  the tree could not be known to be balanced; without the room a flush could
  overflow the layer above.  `ReaderInv`: the node the reader is at and its links,
  the last list first, hold what the content has from the offset on that the reader
  counts with (`Suffix`, `InPlace`), and this offset is not after the position.  The
  third part is `ReadsAreContent`, about an answer already given.
- Nothing in the module recurses over trees: `Grade` is the set of trees of a height,
  and what holds for all trees (`TreesAreWellMade`, the size that is the number of
  bytes) goes by the height.  Flattening, opening, adding up, flushing and closing
  the tree are each followed by a function that has the result of every step
  (`Flattens`, `Descends`, `Stacks`, `Flushes`, `Rises`).
- Flushing takes the lowest full layers at once; the bytes stay in order because
  every node lands behind those of its layer (`Flushes`).  Closing the tree puts
  the last node of each layer behind the others of the next one (`Rises`).
- Reading: `find_block` skips exactly the blocks that end at or before the position
  (`FoundIs`), so the one it opens holds the next byte; a node whose load fails is
  off the stack, and then `failed` says that the reader is no longer in place.
- Private content: blocks are the parts of the content between their edges (`Edge`).
  What a read takes of a block lies between two cuts (`LowCut`, `HighCut`), which
  meet the edges everywhere but at the ends of the read, so that the parts join to
  one (`SlicesJoin`, `CutsJoin`, `ReadAtIs`).  `new` and `new_streaming` differ in
  their number of blocks only, and the proof takes any number that is enough.

Assumptions: only those the modules name (`ASSUME`), checked by TLC in the runs.

Only model-checked so far: liveness (`Convergence`, `SharesArrive`), which is out
of the prover's reach; the private tree's refinement of `FileSystem`; its histories
(`HistoryStepsBack`, `HistoryIsComplete`); and the root tree, whose directories need
an invariant of their own, since `RootTree` may load an old forest and drops the
copy that `store_private_root` stored into, so that what is in memory need not be in
the forest as `PrivateTreeProofs` has it.

## Divergences

What the code does where a reader of its docs would expect something else.  The
models do what the code does; the properties are stated such that they hold, and
say in their comments what they leave out for these reasons.

Public part:

- `causal_compare` returns `None` for a revision and one of its own ancestors
  when the descendant is a merge whose one parent forked early: the early return
  looks at one side only (`node.rs:290-299`).  The effect is a superfluous merge
  node, not lost data.  `AncestorsAreFound` leaves out what was merged since for
  this reason, and no property says otherwise.
- `reconcile_helper` records the other side in `previous` before it loads the
  other side's entries (`directory.rs:918`).  After a failed load, reconciling
  again answers `AlreadyAhead` and the remaining entries are never merged.
  `AlreadyAheadIsTrue`, `NoWriteForgotten` and `Convergence` are checked without
  failing loads.
- A replica that is only ever told of old roots need not get to the current files;
  `reconcile_converges` has current roots only.  `NoWriteForgotten` holds for late
  ones as well, by theorem `NothingForgotten`.
- `basic_mv` removes its source before it checks its destination
  (`directory.rs:760`): when it returns an error the node is gone.  Through
  `RootTree` it is not, because there the move is made on a copy.
- `basic_mv` and `cp` set the time of a node without starting a revision of it
  (`node.rs:67-76`): if it was stored before, the next store ignores the new time.
- A write after a merge and before the next store goes into the merge node
  (`file.rs:398`, `directory.rs:176`), which the comment in `prepare_next_merge`
  means to exclude.

Private part:

- An iterator may give revisions of a node older than the one the past root has,
  when the root was forked: the doc has it go "up until `past_ratchet`"
  (`previous.rs:59`), but ratchets are all the code compares, and those of the other
  side of a fork are the same.  `HistoryStepsBack` says how far histories go where
  nothing forked.
- `update_ancestry` resolves and renames the entries of a moved or copied
  directory below the name the directory had (`node.rs:126-135`), before
  `prepare_key_rotation` (`node.rs:137`) gives it a new id.  After a load they
  fail with `MountPointAndDeserializedNameMismatch` (`header.rs:205-217`), although
  `directory.rs:1089` says that it "Fixes up the subtree bare names to refer to
  the new parent".  `private_tree` moves and copies only what has no entries, so
  that no property shows or excludes this.
- With three concurrent heads, or a merge among the heads, merging never settles:
  `merge` takes over the links of the other node and none to it
  (`directory.rs:1398-1415`, `file.rs:902-919`), so that it stays a head.
  `TwoWritesSettle` states where it does settle.
- Merging is not commutative in `previous`, and the tie break between entries does
  not look at the other writer's later revisions (`directory.rs:1429-1463`).
- A node in memory at a later revision never sees a concurrent head at an older
  one (`header.rs:239`).  `search_latest_reconciled` replaces unsaved edits
  (`node.rs:396-398`), and `reconcile_latest` (`node.rs:385-394`) drops what it
  merged.
- `rm` and `basic_mv` take the node they remove without looking for its latest
  revision, whatever `search_latest` says.
- `PrivateNodeOnPathHistory` ends early at a revision of a directory that left the
  followed entry as it was (the doc at `previous.rs:336-337` does not say so), and
  with two or more directories below the root `repopulate_segment_histories`
  gives the popped ones the wrong ancestors (`previous.rs:447`).  `HistoryIsComplete`
  assumes neither.  Only links one revision back are followed (a TODO in the code,
  `previous.rs:136`).
- `get_size_upper_bound() - byte_offset` and `block_count - 1` are unsigned
  (`file.rs:1134`, `1199`): reading at an offset beyond the bound, and the `size`
  of content stored as empty, wrap around.  `new_streaming` adds an empty block to
  content that ends with a full one, which `PrivateReadsAreContent` shows to be
  harmless.  An inline content panics for a limit past its end.

Root tree and sharing:

- `store_private_root` stores into a copy of the forest that is dropped
  (`root_tree.rs:157`), although the `store` it calls is documented to store "a
  node in the forest".  The access key opens nothing until the node gets into the
  forest in another way, and nodes below it are not stored again, since their
  cells are filled.  `root_tree` calls it with a file, which has nothing below it; what
  `StoredIsShown` says of access keys is about those of mounted roots.
  On the mount itself it fails.
- `basic_mv` in the exchange partition saves its result as the public root
  (`root_tree.rs:390`).  The model does the same, but `root_tree` makes no such move
  and no property states or excludes what it does.
- The shortest matching prefix decides about a path, so that what is mounted
  below another private root is out of reach; `load_private_root` accepts a path
  outside the private partition; `load` leaves no private root mounted.
- A search with a limit of zero subtracts one from the first counter
  (`share.rs:143`); `ShareAssumption` leaves it out.
- A counter that was not shared with a device hides all later ones from it.  Two
  devices of a sharer that use one counter leave two CIDs there, and the recipient
  receives the first it is given.

Write proofs:

- A name that is proven twice (put twice, tried again after a failed put, or
  stored a second time with its directory, `directory.rs:1297-1324`,
  `file.rs:821-845`) is in the batch twice and in the map once
  (`proofs.rs:53-67`), and no proof of that writer passes any more.
  `FairWritesPass` says for which writes they do.
- After a removal that the service accepted, a writer that merges its own old
  forest with the service's brings the entry back without a proof.  An old update
  that comes again takes the writer's own labels back to what they were.

UnixFS:

- A read that is tried again after a failed load silently leaves out the bytes of
  the node that failed, because its link is off the stack (`unixfs.rs:573-577`).
  `ReadsAreContent` speaks of the reads after the next seek.
- Seeking in a file of one block stops one byte before the end, so that reading a
  public file at an offset past its end gives its last byte
  (`public/file.rs:251-345`); in a file of several blocks a seek past the end fails
  or ends where the code says.
- `pos_max - pos` is unsigned (`unixfs.rs:381`): with a limit below the position
  it wraps around.  The model opens readers whose position is within the limit.

## Not modelled

- Cryptography.  Ciphers, keys and hashes stand for what they open: an access key
  for a ref, a ratchet for its position, an accumulator for its set of segments, a
  proof for its base and commitment.  That no other pair passes is number theory.
- Byte formats: CBOR and protobuf codecs, CIDs as byte strings, serialization of
  names, metadata other than the modification time.
- The rabin chunker, whose cuts are arithmetic on bytes; `PrivateReadsAreContent`
  and `TreeHoldsContent` are about the fixed one.  UnixFS files that other programs
  made, which the reader accepts and the builder never produces.
- Failing loads where one call is one step: below the root of a public merge, in
  the middle of a walk, of a HAMT operation or of a private operation.  No state
  is changed before them except as the modelled errors show, or the half-finished
  change is on a copy.
- Private operations with `search_latest` off, other than of iterators; loads by
  access key with the name of a parent; snapshot access.
- The cell a `Link` keeps besides the one of its value.
- The WebAssembly bindings, which have no state of their own; benches and
  examples, apart from the service that checks write proofs.
