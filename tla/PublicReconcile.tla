---------------------------- MODULE PublicReconcile ----------------------------
(***************************************************************************)
(* Replicas of one public directory: in-memory revisions, the blockstore   *)
(* they are stored in, and reconciliation with revisions received from     *)
(* elsewhere (wnfs/src/public/directory.rs, wnfs/src/public/node/node.rs). *)
(*                                                                         *)
(* causal_compare and reconcile_helper are async: they load one block per  *)
(* step, and every load may fail.  Both are modelled one loop iteration at *)
(* a time, while the other replicas keep working against the same store.   *)
(*                                                                         *)
(* The directory is one level deep and every name stands for one fixed     *)
(* file, so that its userland is a set of names; what happens below the    *)
(* root and to files edited on both sides is the subject of PublicTree.    *)
(* Blocks are content addressed: the CID of a block is its position in     *)
(* `blocks`, and storing an equal block again gives the same CID.          *)
(***************************************************************************)
EXTENDS MerkleClock, Sequences

CONSTANTS
  Replicas,            \* processes holding an in-memory root directory
  Names,               \* names of the files that may be created
  MaxRevisions,        \* bound: number of blocks the runs store
  BlockstoreMayFail,   \* may BlockStore::get_block return an error?
  MayReopen,           \* may a replica restart from a stored root?
  LateAnnouncements    \* may roots older than the current ones be received?

ASSUME ReplicasAssumption == Replicas # {}
ASSUME MaxRevisionsAssumption == MaxRevisions \in Nat
ASSUME BlockstoreMayFailAssumption == BlockstoreMayFail \in BOOLEAN
ASSUME MayReopenAssumption == MayReopen \in BOOLEAN
ASSUME LateAnnouncementsAssumption == LateAnnouncements \in BOOLEAN

VARIABLES
  blocks,   \* the blockstore: CID |-> stored revision
  tree,     \* replica |-> the Arc<PublicDirectory> it holds
  op        \* the reconciliation in flight

vars == <<blocks, tree, op>>

Unset == 0                      \* an empty persisted_as cell
Cids == DOMAIN blocks
Block == [previous : SUBSET Nat, userland : SUBSET Names]
Directory == [previous : SUBSET Nat, userland : SUBSET Names,
              persisted_as : Nat]

Verdicts == {"Equal", "Less", "Greater", "NoneByFrontier", "NoneByExhaustion"}

Idle == [stage |-> "idle"]

Previous == [c \in Cids |-> blocks[c].previous]

--------------------------------------------------------------------------------
(* PublicDirectory::new and a load of a stored block.                      *)

NewDirectory == [previous |-> {}, userland |-> {}, persisted_as |-> Unset]

Loaded(c) == [previous     |-> blocks[c].previous,
              userland     |-> blocks[c].userland,
              persisted_as |-> c]

(* Storable::store: the cached CID when there is one, else the CID of the  *)
(* serialised fields.                                                      *)
ToBlock(dir) == [previous |-> dir.previous, userland |-> dir.userland]

StoredAs(dir) ==
  IF dir.persisted_as # Unset THEN dir.persisted_as
  ELSE IF \E c \in Cids : blocks[c] = ToBlock(dir)
       THEN CHOOSE c \in Cids : blocks[c] = ToBlock(dir)
       ELSE Len(blocks) + 1

PutBlock(dir) ==
  blocks' = IF StoredAs(dir) \in Cids THEN blocks
                                      ELSE Append(blocks, ToBlock(dir))

WithinBound(dir) == StoredAs(dir) \in 1..MaxRevisions

Persisted(dir) == [dir EXCEPT !.persisted_as = StoredAs(dir)]

(* prepare_next_revision and prepare_next_merge.                           *)
PrepareNextRevisionOfAny(dir) ==             \* slip: no early return
  [dir EXCEPT !.previous = {dir.persisted_as}, !.persisted_as = Unset]

PrepareNextRevisionKeepingCid(dir) ==        \* slip: persisted_as not reset
  IF dir.persisted_as = Unset THEN dir
  ELSE [dir EXCEPT !.previous = {dir.persisted_as}]

PrepareNextRevision(dir) ==
  IF dir.persisted_as = Unset THEN dir
  ELSE [dir EXCEPT !.previous = {dir.persisted_as}, !.persisted_as = Unset]

IsMergeNode(dir) == Cardinality(dir.previous) > 1

PrepareNextMerge(dir) ==
  [dir EXCEPT !.previous = IF IsMergeNode(dir) THEN dir.previous
                                               ELSE {StoredAs(dir)},
              !.persisted_as = Unset]

(* How a merge records the other side in `previous`.                       *)
MergedPreviousOfOurs(dir, c) ==              \* slip: other side not recorded
  PrepareNextMerge(dir).previous

MergedPrevious(dir, c) ==
  PrepareNextMerge(dir).previous \cup
    (IF IsMergeNode(blocks[c]) THEN blocks[c].previous ELSE {c})

--------------------------------------------------------------------------------
Init ==
  /\ \/ /\ blocks = <<>>
        /\ tree = [r \in Replicas |-> NewDirectory]
     \/ /\ blocks = <<ToBlock(NewDirectory)>>
        /\ tree = [r \in Replicas |-> Loaded(1)]
  /\ op = Idle

(* The roots a replica may be told about: those the others hold stored,    *)
(* or, when announcements can be late, repeated or reordered, any.         *)
Announced(r) ==
  IF LateAnnouncements THEN Cids
  ELSE {tree[s].persisted_as : s \in Replicas \ {r}} \ {Unset}

Busy(r) == op.stage # "idle" /\ op.replica = r
At(stage) == op.stage = stage

(* Creating a file at the root: write() on a path of one segment.          *)
Write(r, n) ==
  /\ ~Busy(r)
  /\ n \notin tree[r].userland
  /\ tree' = [tree EXCEPT ![r] =
                [PrepareNextRevision(tree[r]) EXCEPT !.userland = @ \cup {n}]]
  /\ UNCHANGED <<blocks, op>>

Store(r) ==
  /\ ~Busy(r)
  /\ tree[r].persisted_as = Unset
  /\ WithinBound(tree[r])
  /\ PutBlock(tree[r])
  /\ tree' = [tree EXCEPT ![r] = Persisted(tree[r])]
  /\ UNCHANGED op

(* A restart, or a user opening some stored root: the in-memory tree and   *)
(* a reconciliation it was in the middle of are gone.                      *)
Reopen(r, c) ==
  /\ MayReopen
  /\ tree' = [tree EXCEPT ![r] = Loaded(c)]
  /\ op' = IF Busy(r) THEN Idle ELSE op
  /\ UNCHANGED blocks

(* reconcile(): causal_compare stores both sides and compares their CIDs.  *)
(* `other` has been announced, stored, by some replica.                    *)
StartReconcile(r, c) ==
  /\ op = Idle
  /\ WithinBound(tree[r])
  /\ PutBlock(tree[r])
  /\ tree' = [tree EXCEPT ![r] = Persisted(tree[r])]
  /\ LET our == StoredAs(tree[r])
     IN op' = [stage |-> IF our = c THEN "decided" ELSE "compare",
               replica |-> r, our |-> our, other |-> c,
               ours |-> tree[r].previous, others |-> blocks[c].previous,
               ourSeen |-> {}, otherSeen |-> {},
               verdict |-> IF our = c THEN "Equal" ELSE "Open",
               pending |-> {}]

Decide(verdict) ==
  /\ op' = [op EXCEPT !.stage = "decided", !.verdict = verdict]
  /\ UNCHANGED <<blocks, tree>>

RootsSwapped == op.other \in op.ours         \* slip: orders mixed up
OtherReachedUs == op.our \in op.others
WeReachedOther == op.other \in op.ours
OursIsOwnSubset == ProperPart(op.ours, op.ourSeen)  \* slip: own visited set
OursIsSubset   == ProperPart(op.ours, op.otherSeen)
OtherIsSubset  == ProperPart(op.others, op.ourSeen)

FindLess    == At("compare") /\ OtherReachedUs /\ Decide("Less")

FindGreater ==
  /\ At("compare")
  /\ ~OtherReachedUs
  /\ WeReachedOther
  /\ Decide("Greater")

(* The early return of the loop.                                           *)
GiveUpEarly ==
  /\ At("compare")
  /\ ~OtherReachedUs /\ ~WeReachedOther
  /\ OursIsSubset \/ OtherIsSubset
  /\ Decide("NoneByFrontier")

(* Both frontiers move one step back; the loop ends when both are empty.   *)
EitherExhausted(ours, others) == ours = {} \/ others = {}  \* slip: or for and
Exhausted(ours, others) == ours = {} /\ others = {}

Advance ==
  /\ At("compare")
  /\ ~OtherReachedUs /\ ~WeReachedOther
  /\ ~OursIsSubset /\ ~OtherIsSubset
  /\ LET ours   == NextPreviousSet(Previous, op.ours, op.ourSeen)
         others == NextPreviousSet(Previous, op.others, op.otherSeen)
         over   == Exhausted(ours, others)
     IN op' = [op EXCEPT !.ours = ours, !.others = others,
                         !.ourSeen = @ \cup ours,
                         !.otherSeen = @ \cup others,
                         !.stage = IF over THEN "decided" ELSE "compare",
                         !.verdict = IF over THEN "NoneByExhaustion" ELSE "Open"]
  /\ UNCHANGED <<blocks, tree>>

(* A load fails in causal_compare: reconcile() returns the error.          *)
FailCompare ==
  /\ BlockstoreMayFail
  /\ At("compare")
  /\ op' = Idle
  /\ UNCHANGED <<blocks, tree>>

KeepOurs ==
  /\ At("decided")
  /\ op.verdict \in {"Equal", "Greater"}
  /\ op' = Idle
  /\ UNCHANGED <<blocks, tree>>

FastForward ==
  /\ At("decided")
  /\ op.verdict = "Less"
  /\ tree' = [tree EXCEPT ![op.replica] = Loaded(op.other)]
  /\ op' = Idle
  /\ UNCHANGED blocks

(* reconcile_helper: the merge node first gets its `previous` links, then  *)
(* the entries of the other side one after the other.                      *)
BeginMerge ==
  /\ At("decided")
  /\ op.verdict \in {"NoneByFrontier", "NoneByExhaustion"}
  /\ LET dir == tree[op.replica]
     IN tree' = [tree EXCEPT ![op.replica] =
                   [PrepareNextMerge(dir) EXCEPT
                      !.previous = MergedPrevious(dir, op.other)]]
  /\ op' = [op EXCEPT !.stage = "merge",
                      !.pending = blocks[op.other].userland]
  /\ UNCHANGED blocks

MergeEntry(n) ==
  /\ At("merge")
  /\ n \in op.pending
  /\ tree' = [tree EXCEPT ![op.replica].userland = @ \cup {n}]
  /\ op' = [op EXCEPT !.pending = @ \ {n}]
  /\ UNCHANGED blocks

(* Resolving an entry of the other side fails: the error is returned and   *)
(* the replica keeps what was merged so far.                               *)
FailMerge ==
  /\ BlockstoreMayFail
  /\ At("merge")
  /\ op.pending # {}
  /\ op' = Idle
  /\ UNCHANGED <<blocks, tree>>

FinishMergeEarly ==                          \* slip: entries left behind
  /\ At("merge")
  /\ op' = Idle
  /\ UNCHANGED <<blocks, tree>>

FinishMerge ==
  /\ At("merge")
  /\ op.pending = {}
  /\ op' = Idle
  /\ UNCHANGED <<blocks, tree>>

ReconcileStep ==
  \/ FindLess \/ FindGreater \/ GiveUpEarly \/ Advance
  \/ KeepOurs \/ FastForward
  \/ BeginMerge \/ (\E n \in Names : MergeEntry(n)) \/ FinishMerge

Next ==
  \/ \E r \in Replicas : \E n \in Names : Write(r, n)
  \/ \E r \in Replicas : Store(r)
  \/ \E r \in Replicas : \E c \in Cids : Reopen(r, c)
  \/ \E r \in Replicas : \E c \in Announced(r) : StartReconcile(r, c)
  \/ ReconcileStep
  \/ FailCompare
  \/ FailMerge

Spec == Init /\ [][Next]_vars

(***************************************************************************)
(* Fairness.  A reconcile() that was called is polled to its end, and a    *)
(* replica that is not reconciling stores its tree and reconciles with the *)
(* roots the other replicas hold stored: the application that syncs roots, *)
(* which is outside this repository.                                       *)
(***************************************************************************)
SyncWith(r, s) ==
  /\ tree[s].persisted_as # tree[r].persisted_as
  /\ tree[s].persisted_as # Unset
  /\ StartReconcile(r, tree[s].persisted_as)

FairSpec ==
  /\ Spec
  /\ WF_vars(ReconcileStep)
  /\ \A r \in Replicas : SF_vars(Store(r))
  /\ \A r \in Replicas : \A s \in Replicas \ {r} : SF_vars(SyncWith(r, s))

--------------------------------------------------------------------------------
(* Types.  `previous` only holds older CIDs, because a revision is         *)
(* serialised with the CIDs it names.                                      *)
Comparison ==
  [stage : {"compare", "decided", "merge"}, replica : Replicas,
   our : Cids, other : Cids,
   ours : SUBSET Cids, others : SUBSET Cids,
   ourSeen : SUBSET Cids, otherSeen : SUBSET Cids,
   verdict : Verdicts \cup {"Open"}, pending : SUBSET Names]

TypeOK ==
  /\ blocks \in Seq(Block)
  /\ tree \in [Replicas -> Directory]
  /\ op \in Comparison \cup {Idle}
  /\ \A c \in Cids : blocks[c].previous \subseteq 1..(c - 1)
  /\ \A r \in Replicas : /\ tree[r].previous \subseteq Cids
                         /\ tree[r].persisted_as \in Cids \cup {Unset}

(* A filled persisted_as cell names the block with the fields the          *)
(* directory has now: no path to a mutable directory keeps a stale CID.    *)
CacheIsCurrent ==
  \A r \in Replicas :
     tree[r].persisted_as # Unset =>
        blocks[tree[r].persisted_as] = ToBlock(tree[r])

(* Whatever causal_compare answers about the order of two revisions is     *)
(* what their histories say, however the frontiers got there.              *)
VerdictIsSound ==
  At("decided") =>
    /\ op.verdict = "Equal"   => op.our = op.other
    /\ op.verdict = "Less"    => op.our \in History(Previous, op.other)
    /\ op.verdict = "Greater" => op.other \in History(Previous, op.our)

Diverged(a, b) ==
  a # b /\ a \notin History(Previous, b) /\ b \notin History(Previous, a)

(* When causal_compare ran out of history on both sides without meeting    *)
(* either root, the two revisions really are concurrent.                   *)
ExhaustionMeansDiverged ==
  At("decided") /\ op.verdict = "NoneByExhaustion" =>
    Diverged(op.our, op.other)

(* The comment at the early return says that a frontier inside the other   *)
(* side's visited set cannot hit the other root.  That much is so.         *)
SubsetCannotHitRoot ==
  At("compare") /\ ~OtherReachedUs /\ ~WeReachedOther =>
    /\ OursIsSubset  => op.other \notin History(Previous, op.our)
    /\ OtherIsSubset => op.our \notin History(Previous, op.other)

(* What b has in its history, itself included, and a does not.             *)
Since(a, b) == ({b} \cup History(Previous, b)) \ ({a} \cup History(Previous, a))

(* b was written on top of a without a merge.                              *)
WrittenOnTop(a, b) ==
  /\ a \in History(Previous, b)
  /\ \A c \in Since(a, b) : ~IsMergeNode(blocks[c])

(* causal_compare finds that a side is ahead, however far it is and        *)
(* however often the side behind was merged before: neither the early      *)
(* return nor the end of a shorter history may come first and make a merge *)
(* node of what is a fast-forward.  Where something was merged since, the  *)
(* early return does come first (node.rs, lines 290 to 299).               *)
AncestorsAreFound ==
  At("decided") =>
    /\ WrittenOnTop(op.our, op.other) => op.verdict = "Less"
    /\ WrittenOnTop(op.other, op.our) => op.verdict = "Greater"

(* Files are only created here, so a revision has every file of every      *)
(* revision in its history: a merge node stands for both of its sides, and *)
(* recording a revision in `previous` commits to having its changes.       *)
HistoryKeepsWrites ==
  \A c \in Cids : \A p \in blocks[c].previous :
    blocks[p].userland \subseteq blocks[c].userland

(* Reconciliation::AlreadyAhead: what the other side has is here already.  *)
AlreadyAheadIsTrue ==
  At("decided") /\ op.verdict \in {"Equal", "Greater"} =>
    blocks[op.other].userland \subseteq tree[op.replica].userland

(* Reconciling takes no file from a replica; in particular a fast-forward  *)
(* only replaces a tree by one that has everything in it.                  *)
NoWriteForgotten ==
  [][ReconcileStep =>
       \A r \in Replicas : tree[r].userland \subseteq tree'[r].userland]_vars

(* Replicas that keep exchanging their stored roots end up with one root.  *)
Convergence ==
  <>[](\A r, s \in Replicas : tree[r] = tree[s])
================================================================================
