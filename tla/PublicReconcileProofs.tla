------------------------- MODULE PublicReconcileProofs -------------------------
(***************************************************************************)
(* Theorems of PublicReconcile for any set of replicas, any set of names   *)
(* and any bound, whether or not the blockstore fails.                     *)
(***************************************************************************)
EXTENDS PublicReconcile, SharedFacts

(* What storing a directory does to the blockstore: nothing stored changes *)
(* and the CID it returns names a block with the directory's fields.       *)
Appended ==
  /\ blocks' \in Seq(Block)
  /\ Cids \subseteq Cids'
  /\ \A c \in Cids : blocks'[c] = blocks[c]
  /\ \A c \in Cids' : blocks'[c].previous \subseteq 1..(c - 1)

LEMMA CidsAreNumbers ==
  ASSUME TypeOK PROVE Len(blocks) \in Nat /\ Cids = 1..Len(blocks)
BY DEF TypeOK, Cids

LEMMA PutBlockAppends ==
  ASSUME TypeOK, NEW dir \in Directory,
         dir.previous \subseteq Cids, dir.persisted_as \in Cids \cup {Unset},
         dir.persisted_as # Unset => blocks[dir.persisted_as] = ToBlock(dir),
         PutBlock(dir)
  PROVE  /\ Appended
         /\ StoredAs(dir) \in Cids'
         /\ blocks'[StoredAs(dir)] = ToBlock(dir)
<1> DEFINE n == Len(blocks)
<1> DEFINE known == \E c \in Cids : blocks[c] = ToBlock(dir)
<1>1. blocks \in Seq(Block) /\ n \in Nat /\ Cids = 1..n
  BY CidsAreNumbers DEF TypeOK
<1>2. \A c \in Cids : blocks[c].previous \subseteq 1..(c - 1)
  BY DEF TypeOK
<1>3. ToBlock(dir) \in Block
  BY DEF ToBlock, Directory, Block
<1>4. CASE dir.persisted_as # Unset
  <2>1. StoredAs(dir) = dir.persisted_as /\ dir.persisted_as \in Cids
    BY <1>4 DEF StoredAs
  <2>2. blocks' = blocks
    BY <2>1 DEF PutBlock
  <2> QED
    BY <1>1, <1>2, <1>4, <2>1, <2>2 DEF Appended, Cids
<1>5. CASE dir.persisted_as = Unset /\ known
  <2>1. StoredAs(dir) = CHOOSE c \in Cids : blocks[c] = ToBlock(dir)
    BY <1>5 DEF StoredAs
  <2>2. StoredAs(dir) \in Cids /\ blocks[StoredAs(dir)] = ToBlock(dir)
    BY <1>5, <2>1
  <2>3. blocks' = blocks
    BY <2>2 DEF PutBlock
  <2> QED
    BY <1>1, <1>2, <2>2, <2>3 DEF Appended, Cids
<1>6. CASE dir.persisted_as = Unset /\ ~known
  <2>1. StoredAs(dir) = n + 1
    BY <1>6 DEF StoredAs
  <2>2. blocks' = Append(blocks, ToBlock(dir))
    BY <1>1, <2>1 DEF PutBlock
  <2>3. /\ blocks' \in Seq(Block) /\ DOMAIN blocks' = 1..(n + 1)
        /\ \A c \in 1..n : blocks'[c] = blocks[c]
        /\ blocks'[n + 1] = ToBlock(dir)
    BY <1>1, <1>3, <2>2
  <2>4. ToBlock(dir).previous \subseteq 1..n
    BY <1>1 DEF ToBlock
  <2>5. \A c \in 1..(n + 1) : blocks'[c].previous \subseteq 1..(c - 1)
    <3> TAKE c \in 1..(n + 1)
    <3>1. CASE c \in 1..n
      BY <3>1, <1>1, <1>2, <2>3
    <3>2. CASE c = n + 1
      BY <3>2, <1>1, <2>3, <2>4
    <3> QED
      BY <3>1, <3>2, <1>1
  <2> QED
    BY <1>1, <2>1, <2>3, <2>5 DEF Appended, Cids
<1> QED
  BY <1>4, <1>5, <1>6

(* The clock of a well-typed blockstore is closed.                         *)
LEMMA ClockIsClosed ==
  ASSUME NEW n \in Nat, NEW prev, DOMAIN prev = 1..n,
         \A c \in 1..n : prev[c] \subseteq 1..(c - 1)
  PROVE  Closed(prev, DOMAIN prev)
BY SMT DEF Closed

LEMMA PreviousIsClosed ==
  ASSUME TypeOK
  PROVE  /\ DOMAIN Previous = Cids
         /\ \A c \in Cids : Previous[c] = blocks[c].previous
         /\ Closed(Previous, Cids)
<1>1. DOMAIN Previous = Cids /\ \A c \in Cids : Previous[c] = blocks[c].previous
  BY DEF Previous
<1>2. \A c \in Cids : blocks[c].previous \subseteq 1..(c - 1)
  BY DEF TypeOK
<1> QED
  BY <1>1, <1>2, CidsAreNumbers, ClockIsClosed

(* Appending to the blockstore changes the history of nothing stored.      *)
LEMMA AppendedKeepsHistory ==
  ASSUME TypeOK, Appended, NEW c \in Cids
  PROVE  History(Previous, c)' = History(Previous, c)
<1>1. /\ Previous' = [x \in Cids' |-> blocks'[x].previous]
      /\ DOMAIN Previous' = Cids'
  BY DEF Previous
<1>2. \A x \in DOMAIN Previous : Previous'[x] = Previous[x]
  BY <1>1, PreviousIsClosed DEF Appended
<1>3. DOMAIN Previous \subseteq DOMAIN Previous'
  BY <1>1, PreviousIsClosed DEF Appended
<1>4. History(Previous', c) = History(Previous, c)
  BY <1>2, <1>3, PreviousIsClosed, HistoryStable
<1> QED
  BY <1>4

--------------------------------------------------------------------------------
(* Until a merge begins, the replica that reconciles holds the stored      *)
(* revision it compares, so prepare_next_merge finds its CID cached; after *)
(* that its directory is a new one, stored by nobody.                      *)
OperandIsHeld ==
  /\ op.stage \in {"compare", "decided"} =>
       tree[op.replica].persisted_as = op.our
  /\ op.stage = "merge" => tree[op.replica].persisted_as = Unset

(* The frontiers and visited sets of a comparison never leave the          *)
(* histories of the two revisions compared.                                *)
FrontiersInHistory ==
  At("compare") =>
    /\ op.ours \cup op.ourSeen \subseteq History(Previous, op.our)
    /\ op.others \cup op.otherSeen \subseteq History(Previous, op.other)

FoundIsExplored ==
  At("compare") =>
    /\ op.our # op.other
    /\ Explored(Previous, op.our, op.ours, op.ourSeen, op.other)
    /\ Explored(Previous, op.other, op.others, op.otherSeen, op.our)

(* Types alone are not inductive: that BeginMerge links to a stored CID    *)
(* rests on OperandIsHeld, which rests on CacheIsCurrent.                  *)
IInv ==
  /\ TypeOK
  /\ CacheIsCurrent
  /\ OperandIsHeld
  /\ FrontiersInHistory
  /\ FoundIsExplored
  /\ VerdictIsSound
  /\ ExhaustionMeansDiverged

LEMMA InitEstablishesIInv == Init => IInv
<1> SUFFICES ASSUME Init PROVE IInv
  OBVIOUS
<1> USE DEF Init, NewDirectory, ToBlock, Loaded, Unset, Cids
<1>1. /\ op = [stage |-> "idle"]
      /\ op \in Comparison \cup {Idle}
  BY DEF Idle
<1>2. CASE /\ blocks = <<>>
           /\ tree = [r \in Replicas |-> NewDirectory]
  <2>1. TypeOK
    BY <1>1, <1>2 DEF TypeOK, Block, Directory
  <2>2. CacheIsCurrent
    BY <1>2 DEF CacheIsCurrent
  <2> QED
    BY <1>1, <2>1, <2>2
       DEF IInv, OperandIsHeld, FrontiersInHistory, FoundIsExplored,
           VerdictIsSound, ExhaustionMeansDiverged, At
<1>3. CASE /\ blocks = <<ToBlock(NewDirectory)>>
           /\ tree = [r \in Replicas |-> Loaded(1)]
  <2>1. blocks \in Seq(Block) /\ DOMAIN blocks = 1..1
    BY <1>3 DEF Block
  <2>2. blocks[1] = [previous |-> {}, userland |-> {}]
    BY <1>3
  <2>3. tree \in [Replicas -> Directory]
    BY <1>3, <2>2 DEF Directory
  <2>4. TypeOK
    BY <1>1, <1>3, <2>1, <2>2, <2>3 DEF TypeOK
  <2>5. CacheIsCurrent
    BY <1>3, <2>2 DEF CacheIsCurrent
  <2> QED
    BY <1>1, <2>4, <2>5
       DEF IInv, OperandIsHeld, FrontiersInHistory, FoundIsExplored,
           VerdictIsSound, ExhaustionMeansDiverged, At
<1> QED
  BY <1>2, <1>3 DEF Init

(* A step that only adds blocks keeps what is known of a comparison it     *)
(* does not change.                                                        *)
LEMMA AppendedKeepsComparison ==
  ASSUME IInv, Appended, op' = op
  PROVE  /\ op' \in (Comparison \cup {Idle})'
         /\ FrontiersInHistory' /\ FoundIsExplored'
         /\ VerdictIsSound' /\ ExhaustionMeansDiverged'
<1> USE DEF IInv
<1>1. CASE op = Idle
  BY <1>1 DEF Idle, FrontiersInHistory, FoundIsExplored, VerdictIsSound,
              ExhaustionMeansDiverged, At
<1>2. CASE op \in Comparison
  <2>1. op.our \in Cids /\ op.other \in Cids
    BY <1>2 DEF Comparison
  <2>2. op \in Comparison'
    BY <1>2 DEF Comparison, Appended
  <2>3. /\ History(Previous, op.our)' = History(Previous, op.our)
        /\ History(Previous, op.other)' = History(Previous, op.other)
    <3>1. \A c \in Cids : History(Previous', c) = History(Previous, c)
      <4> TAKE c \in Cids
      <4>1. History(Previous, c)' = History(Previous, c)
        BY AppendedKeepsHistory
      <4> QED
        BY <4>1
    <3> QED
      BY <2>1, <3>1
  <2>4. FrontiersInHistory' /\ VerdictIsSound' /\ ExhaustionMeansDiverged'
    BY <2>3 DEF FrontiersInHistory, VerdictIsSound, ExhaustionMeansDiverged,
                Diverged, At
  <2>5. FoundIsExplored'
    <3> SUFFICES ASSUME At("compare")
                 PROVE  /\ Explored(Previous', op.our, op.ours, op.ourSeen,
                                    op.other)
                        /\ Explored(Previous', op.other, op.others,
                                    op.otherSeen, op.our)
      BY DEF FoundIsExplored, At
    <3>1. \A c \in Cids : Previous'[c] = Previous[c]
      BY DEF Previous, Appended
    <3>2. /\ Explored(Previous, op.our, op.ours, op.ourSeen, op.other)
          /\ Explored(Previous, op.other, op.others, op.otherSeen, op.our)
      BY DEF FoundIsExplored
    <3>3. /\ FoundSoFar(Previous, op.our, op.ourSeen) \subseteq Cids
          /\ FoundSoFar(Previous, op.other, op.otherSeen) \subseteq Cids
      BY <1>2, <2>1, PreviousIsClosed DEF FoundSoFar, Comparison, Closed
    <3>4. /\ FoundSoFar(Previous', op.our, op.ourSeen)
               = FoundSoFar(Previous, op.our, op.ourSeen)
          /\ FoundSoFar(Previous', op.other, op.otherSeen)
               = FoundSoFar(Previous, op.other, op.otherSeen)
      BY <2>1, <3>1 DEF FoundSoFar
    <3> QED
      BY <3>1, <3>2, <3>3, <3>4 DEF Explored
  <2> QED
    BY <2>2, <2>4, <2>5
<1> QED
  BY <1>1, <1>2 DEF TypeOK

LEMMA SameBlocksAppended ==
  ASSUME TypeOK, blocks' = blocks PROVE Appended /\ Cids' = Cids
BY DEF TypeOK, Appended, Cids

(* TypeOK and CacheIsCurrent after a step that gives one replica another   *)
(* directory, taken apart for the actions that do.                         *)
LEMMA NewTree ==
  ASSUME IInv, Appended, op' \in (Comparison \cup {Idle})',
         NEW r \in Replicas, NEW dir \in Directory,
         tree' = [tree EXCEPT ![r] = dir],
         dir.previous \subseteq Cids',
         dir.persisted_as \in Cids' \cup {Unset},
         dir.persisted_as # Unset => blocks'[dir.persisted_as] = ToBlock(dir)
  PROVE  TypeOK' /\ CacheIsCurrent'
<1> USE DEF IInv
<1>1. /\ tree' \in [Replicas -> Directory] /\ tree'[r] = dir
      /\ \A s \in Replicas \ {r} : tree'[s] = tree[s]
  BY DEF TypeOK
<1>2. \A s \in Replicas : /\ tree'[s].previous \subseteq Cids'
                          /\ tree'[s].persisted_as \in Cids' \cup {Unset}
  BY <1>1 DEF TypeOK, Appended
<1>3. TypeOK'
  BY <1>1, <1>2 DEF TypeOK, Appended
<1>4. CacheIsCurrent'
  <2> SUFFICES ASSUME NEW s \in Replicas, tree'[s].persisted_as # Unset
               PROVE  blocks'[tree'[s].persisted_as] = ToBlock(tree'[s])
    BY DEF CacheIsCurrent, ToBlock
  <2>1. CASE s = r
    BY <1>1, <2>1
  <2>2. CASE s # r
    BY <1>1, <2>2 DEF CacheIsCurrent, TypeOK, Appended
  <2> QED
    BY <2>1, <2>2
<1> QED
  BY <1>3, <1>4

(* A step that leaves the reconciliation in flight alone, only adds blocks *)
(* and changes the directory of a replica that is not reconciling.         *)
LEMMA OtherReplicaStep ==
  ASSUME IInv, Appended, op' = op, NEW r \in Replicas, ~Busy(r),
         NEW dir \in Directory, tree' = [tree EXCEPT ![r] = dir],
         dir.previous \subseteq Cids',
         dir.persisted_as \in Cids' \cup {Unset},
         dir.persisted_as # Unset => blocks'[dir.persisted_as] = ToBlock(dir)
  PROVE  IInv'
<1>1. /\ op' \in (Comparison \cup {Idle})'
      /\ FrontiersInHistory' /\ FoundIsExplored'
      /\ VerdictIsSound' /\ ExhaustionMeansDiverged'
  BY AppendedKeepsComparison
<1>2. TypeOK' /\ CacheIsCurrent'
  BY <1>1, NewTree
<1>3. OperandIsHeld'
  <2> SUFFICES ASSUME op.stage # "idle"
               PROVE  tree'[op.replica] = tree[op.replica]
    BY DEF IInv, OperandIsHeld
  <2>1. op \in Comparison
    BY DEF IInv, TypeOK, Idle
  <2>2. op.replica \in Replicas /\ op.replica # r
    BY <2>1 DEF Busy, Comparison
  <2> QED
    BY <2>2 DEF IInv, TypeOK
<1> QED
  BY <1>1, <1>2, <1>3 DEF IInv

LEMMA WriteKeepsIInv ==
  ASSUME IInv, NEW r \in Replicas, NEW n \in Names, Write(r, n)
  PROVE  IInv'
<1> DEFINE dir == [PrepareNextRevision(tree[r]) EXCEPT !.userland = @ \cup {n}]
<1>1. tree[r] \in Directory /\ tree[r].previous \subseteq Cids
      /\ tree[r].persisted_as \in Cids \cup {Unset}
  BY DEF IInv, TypeOK
<1>2. /\ dir \in Directory
      /\ dir.previous \subseteq Cids
      /\ dir.persisted_as = Unset
  BY <1>1, CidsAreNumbers DEF PrepareNextRevision, Directory, Unset, IInv
<1>3. Appended /\ Cids' = Cids
  BY SameBlocksAppended DEF IInv, Write
<1>4. tree' = [tree EXCEPT ![r] = dir] /\ op' = op /\ ~Busy(r)
  BY DEF Write
<1> QED
  BY <1>2, <1>3, <1>4, OtherReplicaStep

LEMMA PersistedIsCurrent ==
  ASSUME IInv, NEW r \in Replicas, PutBlock(tree[r])
  PROVE  /\ Appended
         /\ StoredAs(tree[r]) \in Cids'
         /\ blocks'[StoredAs(tree[r])] = ToBlock(tree[r])
         /\ Persisted(tree[r]) \in Directory
         /\ Persisted(tree[r]).previous = tree[r].previous
         /\ Persisted(tree[r]).previous \subseteq Cids'
         /\ Persisted(tree[r]).persisted_as = StoredAs(tree[r])
         /\ blocks'[StoredAs(tree[r])] = ToBlock(Persisted(tree[r]))
<1>1. tree[r] \in Directory /\ tree[r].previous \subseteq Cids
      /\ tree[r].persisted_as \in Cids \cup {Unset}
  BY DEF IInv, TypeOK
<1>2. tree[r].persisted_as # Unset =>
        blocks[tree[r].persisted_as] = ToBlock(tree[r])
  BY DEF IInv, CacheIsCurrent
<1>3. /\ Appended
      /\ StoredAs(tree[r]) \in Cids'
      /\ blocks'[StoredAs(tree[r])] = ToBlock(tree[r])
  BY <1>1, <1>2, PutBlockAppends DEF IInv
<1>4. Cids' \subseteq Nat
  BY <1>3 DEF Appended, Cids
<1>5. /\ Persisted(tree[r]) \in Directory
      /\ Persisted(tree[r]).previous = tree[r].previous
      /\ Persisted(tree[r]).persisted_as = StoredAs(tree[r])
      /\ ToBlock(Persisted(tree[r])) = ToBlock(tree[r])
  BY <1>1, <1>3, <1>4 DEF Persisted, Directory, ToBlock
<1> QED
  BY <1>1, <1>3, <1>5 DEF Appended

LEMMA StoreKeepsIInv ==
  ASSUME IInv, NEW r \in Replicas, Store(r)
  PROVE  IInv'
<1>1. PutBlock(tree[r]) /\ ~Busy(r) /\ op' = op
      /\ tree' = [tree EXCEPT ![r] = Persisted(tree[r])]
  BY DEF Store
<1> QED
  BY <1>1, PersistedIsCurrent, OtherReplicaStep

(* Ending the reconciliation leaves nothing to know about it.              *)
LEMMA BackToIdle ==
  ASSUME TypeOK', CacheIsCurrent', op' = Idle
  PROVE  IInv'
BY DEF IInv, OperandIsHeld, FrontiersInHistory, FoundIsExplored,
       VerdictIsSound, ExhaustionMeansDiverged, At, Idle

LEMMA LoadedDirectory ==
  ASSUME TypeOK, NEW c \in Cids
  PROVE  /\ Loaded(c) \in Directory
         /\ Loaded(c).previous \subseteq Cids
         /\ Loaded(c).persisted_as = c
         /\ blocks[c] = ToBlock(Loaded(c))
<1>1. blocks[c] \in Block /\ c \in Nat
  BY CidsAreNumbers DEF TypeOK, Cids
<1>2. blocks[c].previous \subseteq Cids
  BY PreviousIsClosed DEF Closed
<1> QED
  BY <1>1, <1>2 DEF Loaded, Block, Directory, ToBlock

LEMMA ReopenKeepsIInv ==
  ASSUME IInv, NEW r \in Replicas, NEW c \in Cids, Reopen(r, c)
  PROVE  IInv'
<1>1. /\ Appended /\ Cids' = Cids /\ blocks' = blocks
      /\ tree' = [tree EXCEPT ![r] = Loaded(c)]
  BY SameBlocksAppended DEF IInv, Reopen
<1>2. /\ Loaded(c) \in Directory
      /\ Loaded(c).previous \subseteq Cids
      /\ Loaded(c).persisted_as = c
      /\ blocks[c] = ToBlock(Loaded(c))
  BY LoadedDirectory DEF IInv
<1>3. CASE Busy(r)
  <2>1. op' = Idle
    BY <1>3 DEF Reopen
  <2>2. TypeOK' /\ CacheIsCurrent'
    BY <1>1, <1>2, <2>1, NewTree
  <2> QED
    BY <2>1, <2>2, BackToIdle
<1>4. CASE ~Busy(r)
  <2>1. op' = op
    BY <1>4 DEF Reopen
  <2> QED
    BY <1>1, <1>2, <1>4, <2>1, OtherReplicaStep
<1> QED
  BY <1>3, <1>4

LEMMA StartReconcileKeepsIInv ==
  ASSUME IInv, NEW r \in Replicas, NEW c \in Cids, StartReconcile(r, c)
  PROVE  IInv'
<1> DEFINE our == StoredAs(tree[r])
<1>1. PutBlock(tree[r]) /\ tree' = [tree EXCEPT ![r] = Persisted(tree[r])]
  BY DEF StartReconcile
<1>2. /\ Appended
      /\ our \in Cids'
      /\ blocks'[our] = ToBlock(tree[r])
      /\ Persisted(tree[r]) \in Directory
      /\ Persisted(tree[r]).previous \subseteq Cids'
      /\ Persisted(tree[r]).persisted_as = our
      /\ blocks'[our] = ToBlock(Persisted(tree[r]))
  BY <1>1, PersistedIsCurrent
<1>3. /\ op'.stage = (IF our = c THEN "decided" ELSE "compare")
      /\ op'.replica = r /\ op'.our = our /\ op'.other = c
      /\ op'.ours = tree[r].previous /\ op'.others = blocks[c].previous
      /\ op'.ourSeen = {} /\ op'.otherSeen = {}
      /\ op'.verdict = (IF our = c THEN "Equal" ELSE "Open")
  BY DEF StartReconcile
<1>4. c \in Cids' /\ blocks'[c] = blocks[c]
  BY <1>2 DEF Appended
<1>5. tree[r].previous \subseteq Cids' /\ blocks[c].previous \subseteq Cids'
  BY <1>2, PreviousIsClosed DEF IInv, TypeOK, Closed, Appended
<1>6. op' \in Comparison'
  BY <1>2, <1>4, <1>5 DEF StartReconcile, Comparison, Verdicts
<1>7. TypeOK' /\ CacheIsCurrent'
  BY <1>1, <1>2, <1>6, NewTree
<1>8. OperandIsHeld'
  BY <1>1, <1>2, <1>3 DEF OperandIsHeld, IInv, TypeOK
<1>9. /\ DOMAIN Previous' = Cids' /\ Closed(Previous', Cids')
      /\ Previous'[our] = tree[r].previous
      /\ Previous'[c] = blocks[c].previous
  <2>1. /\ DOMAIN Previous' = Cids'
        /\ \A x \in Cids' : Previous'[x] = blocks'[x].previous
    BY DEF Previous
  <2>2. Len(blocks') \in Nat /\ Cids' = 1..Len(blocks')
    BY <1>2 DEF Appended, Cids
  <2>3. Closed(Previous', Cids')
    BY <1>2, <2>1, <2>2, ClockIsClosed DEF Appended
  <2> QED
    BY <1>2, <1>4, <2>1, <2>3 DEF ToBlock
<1>10. FrontiersInHistory'
  <2>1. /\ Previous'[our] \subseteq History(Previous', our)
        /\ Previous'[c] \subseteq History(Previous', c)
    BY <1>2, <1>4, <1>9, PreviousInHistory
  <2> QED
    BY <1>3, <1>9, <2>1 DEF FrontiersInHistory
<1>11. FoundIsExplored'
  <2> SUFFICES ASSUME At("compare")'
               PROVE  /\ our # c
                      /\ Explored(Previous', our, op'.ours, {}, c)
                      /\ Explored(Previous', c, op'.others, {}, our)
    BY <1>3 DEF FoundIsExplored
  <2>1. our # c
    BY <1>3 DEF At
  <2> QED
    BY <1>3, <1>9, <2>1 DEF Explored, FoundSoFar
<1>12. VerdictIsSound' /\ ExhaustionMeansDiverged'
  BY <1>3 DEF VerdictIsSound, ExhaustionMeansDiverged
<1> QED
  BY <1>7, <1>8, <1>10, <1>11, <1>12 DEF IInv

(* The steps of the reconciliation in flight.                              *)
LEMMA InFlight ==
  ASSUME IInv, op.stage # "idle"
  PROVE  /\ op \in Comparison
         /\ op.our \in Cids /\ op.other \in Cids /\ op.replica \in Replicas
         /\ op.our \notin History(Previous, op.our)
         /\ op.other \notin History(Previous, op.other)
<1>1. op \in Comparison
  BY DEF IInv, TypeOK, Idle
<1>2. op.our \in Cids /\ op.other \in Cids /\ op.replica \in Replicas
  BY <1>1 DEF Comparison
<1>3. ASSUME NEW c \in Cids PROVE c \notin History(Previous, c)
  <2>1. \A x \in Cids : Previous[x] \subseteq 1..(x - 1)
    BY PreviousIsClosed DEF IInv, TypeOK
  <2>2. History(Previous, c) \subseteq 1..(c - 1)
    BY <2>1, CidsAreNumbers, PreviousIsClosed, HistoryIsOlder DEF IInv
  <2>3. c \in Nat
    BY CidsAreNumbers DEF IInv
  <2> QED
    BY <2>2, <2>3
<1> QED
  BY <1>1, <1>2, <1>3

(* A step that only changes what is known of the comparison.               *)
LEMMA OnlyOpChanges ==
  ASSUME IInv, UNCHANGED <<blocks, tree>>, op' \in Comparison
  PROVE  TypeOK' /\ CacheIsCurrent' /\ Previous' = Previous /\ Cids' = Cids
<1>1. Cids' = Cids /\ Previous' = Previous
  BY DEF Cids, Previous
<1>2. op' \in (Comparison \cup {Idle})'
  BY <1>1 DEF Comparison
<1>3. TypeOK'
  BY <1>1, <1>2 DEF IInv, TypeOK
<1>4. CacheIsCurrent'
  BY DEF IInv, CacheIsCurrent, ToBlock
<1> QED
  BY <1>1, <1>3, <1>4

LEMMA DecideKeepsIInv ==
  ASSUME IInv, At("compare"), NEW verdict \in Verdicts, Decide(verdict),
         verdict # "Equal",
         verdict = "Less" => op.our \in History(Previous, op.other),
         verdict = "Greater" => op.other \in History(Previous, op.our),
         verdict = "NoneByExhaustion" => Diverged(op.our, op.other)
  PROVE  IInv'
<1>1. op \in Comparison /\ op.replica \in Replicas
  BY InFlight DEF At
<1>2. /\ op' \in Comparison
      /\ op'.stage = "decided" /\ op'.verdict = verdict
      /\ op'.our = op.our /\ op'.other = op.other /\ op'.replica = op.replica
  BY <1>1 DEF Decide, Comparison
<1>3. TypeOK' /\ CacheIsCurrent' /\ Previous' = Previous /\ tree' = tree
  BY <1>2, OnlyOpChanges DEF Decide
<1>4. OperandIsHeld'
  BY <1>2, <1>3 DEF IInv, OperandIsHeld, At
<1>5. FrontiersInHistory' /\ FoundIsExplored'
  BY <1>2 DEF FrontiersInHistory, FoundIsExplored, At
<1>6. VerdictIsSound' /\ ExhaustionMeansDiverged'
  BY <1>2, <1>3 DEF VerdictIsSound, ExhaustionMeansDiverged, Diverged
<1> QED
  BY <1>3, <1>4, <1>5, <1>6 DEF IInv

LEMMA AdvanceKeepsIInv ==
  ASSUME IInv, Advance
  PROVE  IInv'
<1> DEFINE ours   == NextPreviousSet(Previous, op.ours, op.ourSeen)
           others == NextPreviousSet(Previous, op.others, op.otherSeen)
<1>1. /\ op \in Comparison /\ op.replica \in Replicas
      /\ op.our \in Cids /\ op.other \in Cids
  BY InFlight DEF Advance, At
<1>2. /\ DOMAIN Previous = Cids /\ Closed(Previous, DOMAIN Previous)
      /\ \A c \in Cids : History(Previous, c) \subseteq Cids
  BY PreviousIsClosed DEF IInv, History
<1>3. /\ ours \subseteq History(Previous, op.our)
      /\ others \subseteq History(Previous, op.other)
  BY <1>1, <1>2, HistoryGoesBack DEF IInv, FrontiersInHistory, Advance
<1>4. ours \subseteq Cids /\ others \subseteq Cids
  BY <1>1, <1>2, <1>3
<1>5. /\ op'.ours = ours /\ op'.ourSeen = op.ourSeen \cup ours
      /\ op'.others = others /\ op'.otherSeen = op.otherSeen \cup others
      /\ op'.our = op.our /\ op'.other = op.other /\ op'.replica = op.replica
      /\ op'.stage = (IF ours = {} /\ others = {} THEN "decided" ELSE "compare")
      /\ op'.verdict = (IF ours = {} /\ others = {}
                        THEN "NoneByExhaustion" ELSE "Open")
      /\ op' \in Comparison
  BY <1>1, <1>4 DEF Advance, Exhausted, Comparison, Verdicts
<1>6. TypeOK' /\ CacheIsCurrent' /\ Previous' = Previous /\ tree' = tree
  BY <1>5, OnlyOpChanges DEF Advance
<1>7. OperandIsHeld'
  BY <1>5, <1>6 DEF IInv, OperandIsHeld, Advance, At
<1>8. FrontiersInHistory'
  BY <1>3, <1>5, <1>6 DEF IInv, FrontiersInHistory, Advance
<1>9. /\ op.our # op.other
      /\ Explored(Previous, op.our, ours, op.ourSeen \cup ours, op.other)
      /\ Explored(Previous, op.other, others, op.otherSeen \cup others, op.our)
  BY ExploreFurther
     DEF IInv, FoundIsExplored, Advance, OtherReachedUs, WeReachedOther
<1>10. FoundIsExplored'
  BY <1>5, <1>6, <1>9 DEF FoundIsExplored
<1>11. VerdictIsSound'
  BY <1>5 DEF VerdictIsSound
<1>12. ExhaustionMeansDiverged'
  <2> SUFFICES ASSUME ours = {}, others = {}
               PROVE  Diverged(op.our, op.other)'
    BY <1>5, <1>6 DEF ExhaustionMeansDiverged, Diverged, At
  <2>1. op.other \notin History(Previous, op.our)
    BY <1>1, <1>2, <1>4, <1>9, ExploredToTheEnd DEF Comparison
  <2>2. op.our \notin History(Previous, op.other)
    BY <1>1, <1>2, <1>4, <1>9, ExploredToTheEnd DEF Comparison
  <2> QED
    BY <1>5, <1>6, <1>9, <2>1, <2>2 DEF Diverged
<1> QED
  BY <1>6, <1>7, <1>8, <1>10, <1>11, <1>12 DEF IInv

LEMMA CompareKeepsIInv ==
  ASSUME IInv, FindLess \/ FindGreater \/ GiveUpEarly \/ Advance
  PROVE  IInv'
<1>1. At("compare") /\ op.our \in Cids /\ op.other \in Cids
  BY InFlight DEF FindLess, FindGreater, GiveUpEarly, Advance, At
<1>2. CASE FindLess
  <2>1. op.our \in History(Previous, op.other)
    BY <1>1, <1>2 DEF FindLess, OtherReachedUs, IInv, FrontiersInHistory
  <2> QED
    BY <1>1, <1>2, <2>1, DecideKeepsIInv DEF FindLess, Verdicts
<1>3. CASE FindGreater
  <2>1. op.other \in History(Previous, op.our)
    BY <1>1, <1>3 DEF FindGreater, WeReachedOther, IInv, FrontiersInHistory
  <2> QED
    BY <1>1, <1>3, <2>1, DecideKeepsIInv DEF FindGreater, Verdicts
<1>4. CASE GiveUpEarly
  BY <1>1, <1>4, DecideKeepsIInv DEF GiveUpEarly, Verdicts
<1>5. CASE Advance
  BY <1>5, AdvanceKeepsIInv
<1> QED
  BY <1>2, <1>3, <1>4, <1>5

LEMMA FastForwardKeepsIInv ==
  ASSUME IInv, FastForward
  PROVE  IInv'
<1>1. op.other \in Cids /\ op.replica \in Replicas
  BY InFlight DEF FastForward, At
<1>2. Appended /\ Cids' = Cids /\ op' = Idle
  BY SameBlocksAppended DEF FastForward, IInv
<1>3. TypeOK' /\ CacheIsCurrent'
  <2>1. /\ Loaded(op.other) \in Directory
        /\ Loaded(op.other).previous \subseteq Cids
        /\ Loaded(op.other).persisted_as = op.other
        /\ blocks[op.other] = ToBlock(Loaded(op.other))
    BY <1>1, LoadedDirectory DEF IInv
  <2> QED
    BY <1>1, <1>2, <2>1, NewTree DEF FastForward
<1> QED
  BY <1>2, <1>3, BackToIdle

(* The merge node: what it links to and what it holds before the entries.  *)
LEMMA MergeNode ==
  ASSUME IInv, BeginMerge
  PROVE  /\ op \in Comparison /\ op.other \in Cids /\ op.replica \in Replicas
         /\ MergedPrevious(tree[op.replica], op.other)
               \subseteq tree[op.replica].previous \cup {op.our}
                           \cup blocks[op.other].previous \cup {op.other}
         /\ MergedPrevious(tree[op.replica], op.other) \subseteq Cids
         /\ tree[op.replica].persisted_as = op.our /\ op.our \in Cids
         /\ blocks[op.our] = ToBlock(tree[op.replica])
<1>1. /\ op \in Comparison /\ op.replica \in Replicas
      /\ op.our \in Cids /\ op.other \in Cids
  BY InFlight DEF BeginMerge, At
<1>2. tree[op.replica].persisted_as = op.our /\ op.our # Unset
  BY <1>1, CidsAreNumbers DEF IInv, OperandIsHeld, BeginMerge, At, Unset
<1>3. StoredAs(tree[op.replica]) = op.our
  BY <1>2 DEF StoredAs
<1>4. tree[op.replica] \in Directory /\ tree[op.replica].previous \subseteq Cids
  BY <1>1 DEF IInv, TypeOK
<1>5. PrepareNextMerge(tree[op.replica]).previous
        \subseteq tree[op.replica].previous \cup {op.our}
  BY <1>3, <1>4 DEF PrepareNextMerge, Directory
<1>6. blocks[op.other].previous \subseteq Cids
  BY <1>1, PreviousIsClosed DEF IInv, Closed
<1>7. blocks[op.our] = ToBlock(tree[op.replica])
  BY <1>1, <1>2 DEF IInv, CacheIsCurrent
<1> QED
  BY <1>1, <1>2, <1>4, <1>5, <1>6, <1>7 DEF MergedPrevious

LEMMA BeginMergeKeepsIInv ==
  ASSUME IInv, BeginMerge
  PROVE  IInv'
<1> DEFINE r == op.replica
           dir == [PrepareNextMerge(tree[r]) EXCEPT
                     !.previous = MergedPrevious(tree[r], op.other)]
<1>1. Appended /\ Cids' = Cids /\ blocks' = blocks
  BY SameBlocksAppended DEF BeginMerge, IInv
<1>2. tree[r] \in Directory /\ blocks[op.other] \in Block
  BY MergeNode DEF IInv, TypeOK, Cids
<1>3. /\ dir \in Directory /\ dir.previous \subseteq Cids
      /\ dir.persisted_as = Unset
  <2>1. MergedPrevious(tree[r], op.other) \in SUBSET Nat
    BY MergeNode, CidsAreNumbers DEF IInv
  <2>2. PrepareNextMerge(tree[r])
          \in [previous : SUBSET Nat, userland : SUBSET Names, persisted_as : {Unset}]
    <3>1. {StoredAs(tree[r])} \in SUBSET Nat
      BY MergeNode, CidsAreNumbers DEF StoredAs, IInv
    <3> QED
      BY <1>2, <3>1 DEF PrepareNextMerge, Directory
  <2>3. dir \in Directory /\ dir.persisted_as = Unset
    BY <2>1, <2>2 DEF Directory, Unset
  <2>4. dir.previous = MergedPrevious(tree[r], op.other)
    BY <2>2
  <2> QED
    BY <2>3, <2>4, MergeNode
<1>4. op' \in Comparison /\ op'.stage = "merge" /\ op'.replica = r
  BY <1>2, MergeNode DEF BeginMerge, Comparison, Block
<1>5. op' \in (Comparison \cup {Idle})'
  BY <1>1, <1>4 DEF Comparison
<1>6. tree' = [tree EXCEPT ![r] = dir]
  BY DEF BeginMerge
<1>7. TypeOK' /\ CacheIsCurrent'
  BY <1>1, <1>3, <1>5, <1>6, MergeNode, NewTree
<1>8. OperandIsHeld'
  BY <1>3, <1>4, <1>6, MergeNode DEF OperandIsHeld, IInv, TypeOK
<1> QED
  BY <1>4, <1>7, <1>8 DEF IInv, FrontiersInHistory, FoundIsExplored,
                    VerdictIsSound, ExhaustionMeansDiverged, At

(* One more entry of the other side: the directory still has no CID.       *)
LEMMA MergeEntryKeepsIInv ==
  ASSUME IInv, NEW n \in Names, MergeEntry(n)
  PROVE  IInv'
<1> DEFINE r == op.replica
           dir == [tree[r] EXCEPT !.userland = @ \cup {n}]
<1>1. Appended /\ Cids' = Cids /\ blocks' = blocks
  BY SameBlocksAppended DEF MergeEntry, IInv
<1>2. op \in Comparison /\ r \in Replicas
  BY InFlight DEF MergeEntry, At
<1>3. /\ tree[r] \in Directory /\ tree[r].previous \subseteq Cids
      /\ tree[r].persisted_as = Unset
  BY <1>2 DEF IInv, TypeOK, OperandIsHeld, MergeEntry, At
<1>4. /\ dir \in Directory /\ dir.previous \subseteq Cids
      /\ dir.persisted_as = Unset
  BY <1>3 DEF Directory
<1>5. op' \in Comparison /\ op'.stage = "merge" /\ op'.replica = r
  BY <1>2 DEF MergeEntry, Comparison, At
<1>6. op' \in (Comparison \cup {Idle})'
  BY <1>1, <1>5 DEF Comparison
<1>7. tree' = [tree EXCEPT ![r] = dir]
  BY <1>2, <1>3 DEF MergeEntry, IInv, TypeOK
<1>8. TypeOK' /\ CacheIsCurrent'
  BY <1>1, <1>2, <1>4, <1>6, <1>7, NewTree
<1>9. OperandIsHeld'
  BY <1>2, <1>4, <1>5, <1>7 DEF OperandIsHeld, IInv, TypeOK
<1> QED
  BY <1>5, <1>8, <1>9 DEF IInv, FrontiersInHistory, FoundIsExplored,
                    VerdictIsSound, ExhaustionMeansDiverged, At

LEMMA NextKeepsIInv == IInv /\ [Next]_vars => IInv'
<1> SUFFICES ASSUME IInv, [Next]_vars PROVE IInv'
  OBVIOUS
<1>1. CASE \E r \in Replicas : \E n \in Names : Write(r, n)
  BY <1>1, WriteKeepsIInv
<1>2. CASE \E r \in Replicas : Store(r)
  BY <1>2, StoreKeepsIInv
<1>3. CASE \E r \in Replicas : \E c \in Cids : Reopen(r, c)
  BY <1>3, ReopenKeepsIInv
<1>4. CASE \E r \in Replicas : \E c \in Announced(r) : StartReconcile(r, c)
  <2>1. \A r \in Replicas : Announced(r) \subseteq Cids
    BY DEF Announced, IInv, TypeOK
  <2> QED
    BY <1>4, <2>1, StartReconcileKeepsIInv
<1>5. CASE FindLess \/ FindGreater \/ GiveUpEarly \/ Advance
  BY <1>5, CompareKeepsIInv
<1>6. CASE FastForward
  BY <1>6, FastForwardKeepsIInv
<1>7. CASE BeginMerge
  BY <1>7, BeginMergeKeepsIInv
<1>8. CASE \E n \in Names : MergeEntry(n)
  BY <1>8, MergeEntryKeepsIInv
<1>9. CASE KeepOurs \/ FinishMerge \/ FailCompare \/ FailMerge
  <2>1. op' = Idle /\ blocks' = blocks /\ tree' = tree
    BY <1>9 DEF KeepOurs, FinishMerge, FailCompare, FailMerge
  <2>2. TypeOK' /\ CacheIsCurrent'
    BY <2>1 DEF IInv, TypeOK, CacheIsCurrent, ToBlock, Cids
  <2> QED
    BY <2>1, <2>2, BackToIdle
<1>10. CASE UNCHANGED vars
  BY <1>10 DEF vars, IInv, TypeOK, CacheIsCurrent, OperandIsHeld,
               FrontiersInHistory, FoundIsExplored, VerdictIsSound,
               ExhaustionMeansDiverged, Diverged, At, Cids, Comparison,
               Previous, ToBlock
<1> QED
  BY <1>1, <1>2, <1>3, <1>4, <1>5, <1>6, <1>7, <1>8, <1>9, <1>10
     DEF Next, ReconcileStep

(* The early return is justified this far: a frontier inside the other     *)
(* side's visited set is inside the other side's history.                  *)
LEMMA IInvRulesOutHit == IInv => SubsetCannotHitRoot
<1> SUFFICES ASSUME IInv, At("compare"), ~OtherReachedUs, ~WeReachedOther
             PROVE  /\ OursIsSubset  => op.other \notin History(Previous, op.our)
                    /\ OtherIsSubset => op.our \notin History(Previous, op.other)
  BY DEF SubsetCannotHitRoot
<1>1. /\ op \in Comparison /\ op.our \in Cids /\ op.other \in Cids
      /\ op.our \notin History(Previous, op.our)
      /\ op.other \notin History(Previous, op.other)
  BY InFlight DEF At
<1>2. /\ DOMAIN Previous = Cids /\ Closed(Previous, DOMAIN Previous)
      /\ op.ourSeen \subseteq Cids /\ op.otherSeen \subseteq Cids
  BY <1>1, PreviousIsClosed DEF IInv, Comparison
<1>3. /\ Explored(Previous, op.our, op.ours, op.ourSeen, op.other)
      /\ Explored(Previous, op.other, op.others, op.otherSeen, op.our)
      /\ op.otherSeen \subseteq History(Previous, op.other)
      /\ op.ourSeen \subseteq History(Previous, op.our)
  BY DEF IInv, FoundIsExplored, FrontiersInHistory
<1>4. op.our \notin op.others /\ op.other \notin op.ours
  BY DEF OtherReachedUs, WeReachedOther
<1>5. ASSUME OursIsSubset PROVE op.other \notin History(Previous, op.our)
  <2>1. op.ours \subseteq History(Previous, op.other)
    BY <1>3, <1>5 DEF OursIsSubset, ProperPart
  <2> QED
    BY <1>1, <1>2, <1>3, <1>4, <2>1, FrontierInsideHistory
<1>6. ASSUME OtherIsSubset PROVE op.our \notin History(Previous, op.other)
  <2>1. op.others \subseteq History(Previous, op.our)
    BY <1>3, <1>6 DEF OtherIsSubset, ProperPart
  <2> QED
    BY <1>1, <1>2, <1>3, <1>4, <2>1, FrontierInsideHistory
<1> QED
  BY <1>5, <1>6

--------------------------------------------------------------------------------
(* In every reachable state IInv holds.                                    *)
THEOREM Invariance == Spec => []IInv
<1>1. Init => IInv
  BY InitEstablishesIInv
<1>2. IInv /\ [Next]_vars => IInv'
  BY NextKeepsIInv
<1> QED
  BY <1>1, <1>2, PTL DEF Spec

(* Types are kept, and a revision only links to older ones: the history of *)
(* the public file system is acyclic (prepare_next_revision, reconcile).   *)
THEOREM TypeCorrect == Spec => []TypeOK
<1>1. IInv => TypeOK
  BY DEF IInv
<1> QED
  BY <1>1, Invariance, PTL

(* A filled persisted_as cell always holds the CID of the fields next to   *)
(* it, through writes, fast-forwards, merges and merges that fail midway.  *)
THEOREM CacheNeverStale == Spec => []CacheIsCurrent
<1>1. IInv => CacheIsCurrent
  BY DEF IInv
<1> QED
  BY <1>1, Invariance, PTL

(* What causal_compare answers about an order is so in the history, on     *)
(* every DAG of revisions that replicas can make.                          *)
THEOREM OrderIsSound == Spec => []VerdictIsSound
<1>1. IInv => VerdictIsSound
  BY DEF IInv
<1> QED
  BY <1>1, Invariance, PTL

(* When causal_compare looked at all of both histories, its None is right. *)
THEOREM ExhaustionIsDivergence == Spec => []ExhaustionMeansDiverged
<1>1. IInv => ExhaustionMeansDiverged
  BY DEF IInv
<1> QED
  BY <1>1, Invariance, PTL

(* The half of the early return's comment that is true: the side whose     *)
(* frontier is inside the other's visited set cannot reach the other root. *)
THEOREM SubsetRulesOutHit == Spec => []SubsetCannotHitRoot
BY IInvRulesOutHit, Invariance, PTL

--------------------------------------------------------------------------------
(***************************************************************************)
(* Without blockstore errors nothing that was written is lost.  Linking to *)
(* a revision promises its files: the directory in memory has the files of *)
(* everything in `previous`, except those a merge is still adding.         *)
(***************************************************************************)
Promised(r) ==
  tree[r].userland \cup
    (IF op.stage = "merge" /\ op.replica = r THEN op.pending ELSE {})

TreeKeepsWrites ==
  \A r \in Replicas : \A p \in tree[r].previous :
    blocks[p].userland \subseteq Promised(r)

WritesInv == IInv /\ HistoryKeepsWrites /\ TreeKeepsWrites

(* Files are inherited along whole histories, not only single links.       *)
LEMMA HistoryIsInherited ==
  ASSUME TypeOK, HistoryKeepsWrites, NEW c \in Cids,
         NEW a \in History(Previous, c)
  PROVE  blocks[a].userland \subseteq blocks[c].userland
<1> DEFINE S == {x \in Cids : blocks[x].userland \subseteq blocks[c].userland}
<1>1. DOMAIN Previous = Cids /\ Closed(Previous, Cids)
      /\ \A x \in Cids : Previous[x] = blocks[x].previous
  BY PreviousIsClosed
<1>2. Previous[c] \subseteq S
  BY <1>1 DEF HistoryKeepsWrites, Closed
<1>3. Closed(Previous, S)
  BY <1>1 DEF HistoryKeepsWrites, Closed
<1>4. History(Previous, c) \subseteq S
  BY <1>1, <1>2, <1>3, HistoryIsLeast
<1> QED
  BY <1>4

(* Storing a directory that keeps its promises.                            *)
LEMMA StoringKeepsWrites ==
  ASSUME WritesInv, NEW r \in Replicas, ~Busy(r), PutBlock(tree[r])
  PROVE  /\ HistoryKeepsWrites'
         /\ \A s \in Replicas : \A p \in tree[s].previous :
               blocks'[p] = blocks[p]
<1>1. /\ Appended /\ StoredAs(tree[r]) \in Cids'
      /\ blocks'[StoredAs(tree[r])] = ToBlock(tree[r])
  BY PersistedIsCurrent DEF WritesInv
<1>2. \A s \in Replicas : \A p \in tree[s].previous : blocks'[p] = blocks[p]
  BY <1>1 DEF WritesInv, IInv, TypeOK, Appended
<1>3. \A p \in tree[r].previous : blocks[p].userland \subseteq tree[r].userland
  BY DEF WritesInv, TreeKeepsWrites, Promised, Busy
<1>4. \A c \in Cids' : c \in Cids \/ blocks'[c] = ToBlock(tree[r])
  <2>1. CASE blocks' = blocks
    BY <2>1 DEF Cids
  <2>2. CASE blocks' = Append(blocks, ToBlock(tree[r]))
    <3>1. ToBlock(tree[r]) \in Block
      BY DEF WritesInv, IInv, TypeOK, ToBlock, Directory, Block
    <3> QED
      BY <2>2, <3>1 DEF WritesInv, IInv, TypeOK, Cids
  <2> QED
    BY <2>1, <2>2 DEF PutBlock
<1>5. HistoryKeepsWrites'
  <2> SUFFICES ASSUME NEW c \in Cids', NEW p \in blocks'[c].previous
               PROVE  blocks'[p].userland \subseteq blocks'[c].userland
    BY DEF HistoryKeepsWrites
  <2>1. CASE c \in Cids
    <3>1. blocks'[c] = blocks[c] /\ blocks[c].previous \subseteq Cids
      BY <1>1, <2>1, PreviousIsClosed DEF Appended, Closed, WritesInv, IInv
    <3>2. blocks'[p] = blocks[p]
      BY <1>1, <3>1 DEF Appended
    <3> QED
      BY <2>1, <3>1, <3>2 DEF WritesInv, HistoryKeepsWrites
  <2>2. CASE blocks'[c] = ToBlock(tree[r])
    <3>1. p \in tree[r].previous /\ blocks'[c].userland = tree[r].userland
      BY <2>2 DEF ToBlock
    <3> QED
      BY <1>2, <1>3, <3>1
  <2> QED
    BY <1>4, <2>1, <2>2
<1> QED
  BY <1>2, <1>5

(* A step that stores nothing only has to keep the promises in memory.     *)
LEMMA SameBlocksKeepWrites ==
  ASSUME WritesInv, blocks' = blocks
  PROVE  HistoryKeepsWrites'
BY DEF WritesInv, HistoryKeepsWrites, Cids

LEMMA WriteKeepsWrites ==
  ASSUME WritesInv, NEW r \in Replicas, NEW n \in Names, Write(r, n)
  PROVE  TreeKeepsWrites'
<1> DEFINE dir == [PrepareNextRevision(tree[r]) EXCEPT !.userland = @ \cup {n}]
<1>1. tree[r] \in Directory /\ ~Busy(r)
      /\ tree' = [tree EXCEPT ![r] = dir] /\ tree \in [Replicas -> Directory]
      /\ op' = op /\ blocks' = blocks
  BY DEF Write, WritesInv, IInv, TypeOK
<1>2. /\ dir.userland = tree[r].userland \cup {n}
      /\ dir.previous \in {tree[r].previous, {tree[r].persisted_as}}
      /\ tree[r].persisted_as = Unset => dir.previous = tree[r].previous
  BY <1>1 DEF PrepareNextRevision, Directory
<1>3. tree[r].persisted_as # Unset =>
        blocks[tree[r].persisted_as].userland = tree[r].userland
  <2>1. tree[r].persisted_as # Unset =>
          blocks[tree[r].persisted_as] = ToBlock(tree[r])
    BY DEF WritesInv, IInv, CacheIsCurrent
  <2>2. ToBlock(tree[r]).userland = tree[r].userland
    BY DEF ToBlock
  <2> QED
    BY <2>1, <2>2
<1>4. \A p \in tree[r].previous : blocks[p].userland \subseteq tree[r].userland
  BY <1>1 DEF WritesInv, TreeKeepsWrites, Promised, Busy
<1>5. \A p \in dir.previous : blocks[p].userland \subseteq dir.userland
  <2>1. CASE dir.previous = tree[r].previous
    BY <1>2, <1>4, <2>1
  <2>2. CASE dir.previous = {tree[r].persisted_as} /\ tree[r].persisted_as # Unset
    BY <1>2, <1>3, <2>2
  <2> QED
    BY <1>2, <2>1, <2>2
<1> SUFFICES ASSUME NEW s \in Replicas, NEW p \in tree'[s].previous
             PROVE  blocks[p].userland \subseteq Promised(s)'
  BY <1>1 DEF TreeKeepsWrites
<1>6. CASE s = r
  BY <1>1, <1>5, <1>6 DEF Promised
<1>7. CASE s # r
  BY <1>1, <1>7 DEF WritesInv, TreeKeepsWrites, Promised
<1> QED
  BY <1>6, <1>7

LEMMA StartKeepsWrites ==
  ASSUME WritesInv, NEW r \in Replicas, NEW c \in Cids,
         Store(r) \/ StartReconcile(r, c)
  PROVE  HistoryKeepsWrites' /\ TreeKeepsWrites'
<1>1. PutBlock(tree[r]) /\ ~Busy(r)
      /\ tree' = [tree EXCEPT ![r] = Persisted(tree[r])]
      /\ (op' = op \/ (op = Idle /\ op'.stage # "merge"))
  BY DEF Store, StartReconcile, Busy, Idle
<1>2. /\ HistoryKeepsWrites'
      /\ \A s \in Replicas : \A p \in tree[s].previous : blocks'[p] = blocks[p]
  BY <1>1, StoringKeepsWrites
<1>3. Persisted(tree[r]).previous = tree[r].previous
      /\ Persisted(tree[r]).userland = tree[r].userland
  BY DEF Persisted, WritesInv, IInv, TypeOK, Directory
<1>4. \A s \in Replicas : /\ tree'[s].previous = tree[s].previous
                          /\ tree'[s].userland = tree[s].userland
  BY <1>1, <1>3 DEF WritesInv, IInv, TypeOK
<1>5. \A s \in Replicas : Promised(s)' = Promised(s)
  BY <1>1, <1>4 DEF Promised, Idle
<1>6. TreeKeepsWrites'
  BY <1>2, <1>4, <1>5 DEF WritesInv, TreeKeepsWrites
<1> QED
  BY <1>2, <1>6

(* A loaded revision keeps the promises of its block.                      *)
LEMMA LoadKeepsWrites ==
  ASSUME WritesInv, NEW r \in Replicas, NEW c \in Cids,
         blocks' = blocks, tree' = [tree EXCEPT ![r] = Loaded(c)],
         \/ op' = op /\ ~Busy(r)
         \/ op' = Idle /\ Busy(r)
  PROVE  TreeKeepsWrites'
<1> SUFFICES ASSUME NEW s \in Replicas, NEW p \in tree'[s].previous
             PROVE  blocks[p].userland \subseteq Promised(s)'
  BY DEF TreeKeepsWrites
<1>1. CASE s = r
  <2>1. tree'[s] = Loaded(c)
    BY <1>1 DEF WritesInv, IInv, TypeOK
  <2>2. blocks[p].userland \subseteq blocks[c].userland
    BY <2>1 DEF Loaded, WritesInv, HistoryKeepsWrites
  <2> QED
    BY <2>1, <2>2 DEF Loaded, Promised
<1>2. CASE s # r
  <2>1. tree'[s] = tree[s]
    BY <1>2 DEF WritesInv, IInv, TypeOK
  <2>2. Promised(s)' = Promised(s)
    BY <1>2, <2>1 DEF Promised, Busy, Idle
  <2> QED
    BY <2>1, <2>2 DEF WritesInv, TreeKeepsWrites
<1> QED
  BY <1>1, <1>2

LEMMA BeginMergeKeepsWrites ==
  ASSUME WritesInv, BeginMerge
  PROVE  TreeKeepsWrites'
<1> DEFINE r == op.replica
           dir == [PrepareNextMerge(tree[r]) EXCEPT
                     !.previous = MergedPrevious(tree[r], op.other)]
<1>1. /\ op \in Comparison /\ op.other \in Cids /\ r \in Replicas
      /\ MergedPrevious(tree[r], op.other)
            \subseteq tree[r].previous \cup {op.our}
                        \cup blocks[op.other].previous \cup {op.other}
      /\ blocks[op.our] = ToBlock(tree[r])
  BY MergeNode DEF WritesInv
<1>2. /\ op'.stage = "merge" /\ op'.replica = r
      /\ op'.pending = blocks[op.other].userland
      /\ tree' = [tree EXCEPT ![r] = dir] /\ blocks' = blocks
      /\ op.stage = "decided"
  BY <1>1 DEF BeginMerge, At, Comparison
<1>3. /\ tree'[r] = dir
      /\ dir.previous = MergedPrevious(tree[r], op.other)
      /\ dir.userland = tree[r].userland
  BY <1>1, <1>2 DEF WritesInv, IInv, TypeOK, PrepareNextMerge, Directory
<1>4. \A p \in tree[r].previous : blocks[p].userland \subseteq tree[r].userland
  BY <1>1, <1>2 DEF WritesInv, TreeKeepsWrites, Promised
<1>5. \A p \in blocks[op.other].previous :
        blocks[p].userland \subseteq blocks[op.other].userland
  BY <1>1 DEF WritesInv, HistoryKeepsWrites
<1>6. \A p \in dir.previous :
        blocks[p].userland \subseteq tree[r].userland \cup blocks[op.other].userland
  BY <1>1, <1>3, <1>4, <1>5 DEF ToBlock
<1> SUFFICES ASSUME NEW s \in Replicas, NEW p \in tree'[s].previous
             PROVE  blocks[p].userland \subseteq Promised(s)'
  BY <1>2 DEF TreeKeepsWrites
<1>7. CASE s = r
  BY <1>2, <1>3, <1>6, <1>7 DEF Promised
<1>8. CASE s # r
  <2>1. tree'[s] = tree[s]
    BY <1>2, <1>8 DEF WritesInv, IInv, TypeOK
  <2> QED
    BY <1>2, <1>8, <2>1 DEF WritesInv, TreeKeepsWrites, Promised
<1> QED
  BY <1>7, <1>8

LEMMA MergeEntryKeepsWrites ==
  ASSUME WritesInv, NEW n \in Names, MergeEntry(n)
  PROVE  TreeKeepsWrites'
<1> DEFINE r == op.replica
<1>1. op \in Comparison /\ r \in Replicas
  BY InFlight DEF MergeEntry, At, WritesInv
<1>2. /\ op'.stage = "merge" /\ op'.replica = r /\ op.stage = "merge"
      /\ op'.pending = op.pending \ {n} /\ blocks' = blocks
  BY <1>1 DEF MergeEntry, At, Comparison
<1>3. /\ \A s \in Replicas : tree'[s].previous = tree[s].previous
      /\ \A s \in Replicas \ {r} : tree'[s] = tree[s]
      /\ tree'[r].userland = tree[r].userland \cup {n}
  BY <1>1 DEF MergeEntry, WritesInv, IInv, TypeOK, Directory
<1>4. \A s \in Replicas : Promised(s) \subseteq Promised(s)'
  BY <1>2, <1>3 DEF Promised
<1> QED
  BY <1>2, <1>3, <1>4 DEF WritesInv, TreeKeepsWrites

(* FailMerge is the one step that breaks a promise: it forgets what was    *)
(* still to be merged.                                                     *)
LEMMA NextKeepsWrites ==
  ASSUME ~BlockstoreMayFail
  PROVE  WritesInv /\ [Next]_vars => WritesInv'
<1> SUFFICES ASSUME WritesInv, [Next]_vars
             PROVE  HistoryKeepsWrites' /\ TreeKeepsWrites'
  BY NextKeepsIInv DEF WritesInv
<1>1. CASE \E r \in Replicas : \E n \in Names : Write(r, n)
  BY <1>1, WriteKeepsWrites, SameBlocksKeepWrites DEF Write
<1>2. CASE \E r \in Replicas : Store(r)
  <2>1. PICK r \in Replicas : Store(r)
    BY <1>2
  <2>2. PutBlock(tree[r]) /\ ~Busy(r) /\ op' = op
        /\ tree' = [tree EXCEPT ![r] = Persisted(tree[r])]
    BY <2>1 DEF Store
  <2>3. /\ HistoryKeepsWrites'
        /\ \A s \in Replicas : \A p \in tree[s].previous : blocks'[p] = blocks[p]
    BY <2>2, StoringKeepsWrites
  <2>4. \A s \in Replicas : /\ tree'[s].previous = tree[s].previous
                            /\ tree'[s].userland = tree[s].userland
    BY <2>2 DEF Persisted, WritesInv, IInv, TypeOK, Directory
  <2> QED
    BY <2>2, <2>3, <2>4 DEF WritesInv, TreeKeepsWrites, Promised
<1>3. CASE \E r \in Replicas : \E c \in Cids : Reopen(r, c)
  BY <1>3, LoadKeepsWrites, SameBlocksKeepWrites DEF Reopen
<1>4. CASE \E r \in Replicas : \E c \in Announced(r) : StartReconcile(r, c)
  <2>1. \A r \in Replicas : Announced(r) \subseteq Cids
    BY DEF Announced, WritesInv, IInv, TypeOK
  <2> QED
    BY <1>4, <2>1, StartKeepsWrites
<1>5. CASE FindLess \/ FindGreater \/ GiveUpEarly \/ Advance \/ KeepOurs
  <2>1. /\ UNCHANGED <<blocks, tree>> /\ op.stage \in {"compare", "decided"}
    BY <1>5 DEF FindLess, FindGreater, GiveUpEarly, Advance, KeepOurs,
                Decide, At
  <2>2. op.stage # "merge" /\ op \in Comparison
    BY <2>1, InFlight DEF WritesInv
  <2>3. op'.stage # "merge"
    <3>1. CASE FindLess \/ FindGreater \/ GiveUpEarly
      BY <2>2, <3>1 DEF FindLess, FindGreater, GiveUpEarly, Decide, Comparison
    <3>2. CASE Advance
      BY <2>2, <3>2 DEF Advance, Comparison
    <3>3. CASE KeepOurs
      BY <3>3 DEF KeepOurs, Idle
    <3> QED
      BY <1>5, <3>1, <3>2, <3>3
  <2> QED
    BY <2>1, <2>2, <2>3, SameBlocksKeepWrites
       DEF WritesInv, TreeKeepsWrites, Promised
<1>6. CASE FastForward
  <2>1. op.other \in Cids /\ op.replica \in Replicas
    BY <1>6, InFlight DEF FastForward, At, WritesInv
  <2>2. /\ blocks' = blocks /\ op' = Idle /\ Busy(op.replica)
        /\ tree' = [tree EXCEPT ![op.replica] = Loaded(op.other)]
    BY <1>6 DEF FastForward, At, Busy
  <2> QED
    BY <2>1, <2>2, LoadKeepsWrites, SameBlocksKeepWrites
<1>7. CASE BeginMerge
  BY <1>7, BeginMergeKeepsWrites, SameBlocksKeepWrites DEF BeginMerge
<1>8. CASE \E n \in Names : MergeEntry(n)
  BY <1>8, MergeEntryKeepsWrites, SameBlocksKeepWrites DEF MergeEntry
<1>9. CASE FinishMerge
  <2>1. UNCHANGED <<blocks, tree>> /\ op.pending = {} /\ op' = Idle
    BY <1>9 DEF FinishMerge
  <2> QED
    BY <2>1, SameBlocksKeepWrites
       DEF WritesInv, TreeKeepsWrites, Promised, Idle
<1>10. CASE FailCompare \/ FailMerge
  BY <1>10 DEF FailCompare, FailMerge
<1>11. CASE UNCHANGED vars
  BY <1>11, SameBlocksKeepWrites
     DEF vars, WritesInv, TreeKeepsWrites, Promised
<1> QED
  BY <1>1, <1>2, <1>3, <1>4, <1>5, <1>6, <1>7, <1>8, <1>9, <1>10, <1>11
     DEF Next, ReconcileStep

LEMMA WritesInvariance ==
  ASSUME ~BlockstoreMayFail PROVE Spec => []WritesInv
<1>1. Init => WritesInv
  <2> SUFFICES ASSUME Init PROVE WritesInv
    OBVIOUS
  <2>1. IInv
    BY InitEstablishesIInv
  <2>2. /\ \A c \in Cids : blocks[c].previous = {}
        /\ \A r \in Replicas : tree[r].previous = {}
    BY DEF Init, NewDirectory, ToBlock, Loaded, Cids
  <2> QED
    BY <2>1, <2>2 DEF WritesInv, HistoryKeepsWrites, TreeKeepsWrites
<1>2. WritesInv /\ [Next]_vars => WritesInv'
  BY NextKeepsWrites
<1> QED
  BY <1>1, <1>2, PTL DEF Spec

(* If no load fails, every revision has the files of all its history.      *)
THEOREM WritesAreInherited ==
  ASSUME ~BlockstoreMayFail PROVE Spec => []HistoryKeepsWrites
<1>1. WritesInv => HistoryKeepsWrites
  BY DEF WritesInv
<1> QED
  BY <1>1, WritesInvariance, PTL

(* If no load fails, AlreadyAhead means that nothing is missing here.      *)
THEOREM AlreadyAheadIsEarned ==
  ASSUME ~BlockstoreMayFail PROVE Spec => []AlreadyAheadIsTrue
<1>1. WritesInv => AlreadyAheadIsTrue
  <2> SUFFICES ASSUME WritesInv, At("decided"),
                      op.verdict \in {"Equal", "Greater"}
               PROVE  blocks[op.other].userland
                        \subseteq tree[op.replica].userland
    BY DEF AlreadyAheadIsTrue
  <2>1. op.our \in Cids /\ op.other \in Cids /\ op.replica \in Replicas
    BY InFlight DEF WritesInv, At
  <2>2. blocks[op.our] = ToBlock(tree[op.replica])
    BY <2>1, CidsAreNumbers
       DEF WritesInv, IInv, OperandIsHeld, CacheIsCurrent, At, Unset
  <2>3. op.our = op.other \/ op.other \in History(Previous, op.our)
    BY DEF WritesInv, IInv, VerdictIsSound
  <2>4. blocks[op.other].userland \subseteq blocks[op.our].userland
    BY <2>1, <2>3, HistoryIsInherited DEF WritesInv, IInv
  <2> QED
    BY <2>2, <2>4 DEF ToBlock
<1> QED
  BY <1>1, WritesInvariance, PTL

(* If no load fails, reconciling takes no file from a replica: a           *)
(* fast-forward replaces a tree by one that has all of it.                 *)
THEOREM NothingForgotten ==
  ASSUME ~BlockstoreMayFail PROVE Spec => NoWriteForgotten
<1> DEFINE Kept == \A r \in Replicas :
                     tree[r].userland \subseteq tree'[r].userland
<1>1. WritesInv /\ [Next]_vars => [ReconcileStep => Kept]_vars
  <2> SUFFICES ASSUME WritesInv, ReconcileStep PROVE Kept
    OBVIOUS
  <2> USE DEF WritesInv, IInv, TypeOK
  <2>1. CASE FastForward
    <3>1. op.our \in Cids /\ op.other \in Cids /\ op.replica \in Replicas
      BY <2>1, InFlight DEF FastForward, At
    <3>2. blocks[op.our] = ToBlock(tree[op.replica])
      BY <2>1, <3>1, CidsAreNumbers
         DEF FastForward, OperandIsHeld, CacheIsCurrent, At, Unset
    <3>3. op.our \in History(Previous, op.other)
      BY <2>1 DEF FastForward, VerdictIsSound
    <3>4. blocks[op.our].userland \subseteq blocks[op.other].userland
      BY <3>1, <3>3, HistoryIsInherited
    <3>5. tree[op.replica].userland \subseteq tree'[op.replica].userland
      BY <2>1, <3>1, <3>2, <3>4 DEF FastForward, Loaded, ToBlock
    <3> QED
      BY <2>1, <3>5 DEF FastForward
  <2>2. CASE BeginMerge
    <3>1. op.replica \in Replicas
      BY <2>2, InFlight DEF BeginMerge, At
    <3> QED
      BY <2>2, <3>1 DEF BeginMerge, PrepareNextMerge, Directory
  <2>3. CASE \E n \in Names : MergeEntry(n)
    BY <2>3 DEF MergeEntry, Directory
  <2>4. CASE tree' = tree
    BY <2>4
  <2> QED
    BY <2>1, <2>2, <2>3, <2>4
       DEF ReconcileStep, FindLess, FindGreater, GiveUpEarly, Advance,
           Decide, KeepOurs, FinishMerge
<1> QED
  BY <1>1, WritesInvariance, PTL DEF Spec, NoWriteForgotten

--------------------------------------------------------------------------------
(***************************************************************************)
(* The loop, interleaved with whatever other replicas store, answers as    *)
(* the function CausalCompare does, run on the store as it is then: the    *)
(* comparison in flight is always some round k of that function, and the   *)
(* rounds end in time because each moves the frontiers to older CIDs.      *)
(***************************************************************************)
State ==
  [ours |-> op.ours, others |-> op.others,
   ourSeen |-> op.ourSeen, otherSeen |-> op.otherSeen, verdict |-> "Open"]

Answers(answer) ==
  IF answer = "None" THEN {"NoneByFrontier", "NoneByExhaustion"} ELSE {answer}

(* f is the rounds made so far, the k-th is where the comparison is.       *)
RunsAs(f, k) ==
  /\ IsRounds(Previous, op.our, op.other, f, k)
  /\ \A i \in 0 .. k : Frontiers(f[i]) \subseteq Cids
  /\ k <= Len(blocks) + 1
  /\ At("compare") =>
       /\ f[k] = State
       /\ k <= Len(blocks)
       /\ \A x \in Frontiers(f[k]) : x + k <= Len(blocks)
  /\ At("decided") => f[k].verdict # "Open" /\ op.verdict \in Answers(f[k].verdict)

InRounds ==
  At("compare") \/ At("decided") => \E k \in Nat : \E f : RunsAs(f, k)

(* Every step leaves the stored blocks as they are and may add one.        *)
LEMMA BlocksAreAppended == IInv /\ [Next]_vars => Appended
<1> SUFFICES ASSUME IInv, [Next]_vars PROVE Appended
  OBVIOUS
<1>1. CASE \E r \in Replicas : PutBlock(tree[r])
  BY <1>1, PersistedIsCurrent
<1>2. CASE blocks' = blocks
  BY <1>2, SameBlocksAppended DEF IInv
<1>3. (\E r \in Replicas : PutBlock(tree[r])) \/ blocks' = blocks
  BY DEF Next, vars, Write, Store, Reopen, StartReconcile, ReconcileStep, FindLess,
     FindGreater, GiveUpEarly, Decide, Advance, KeepOurs, FastForward, BeginMerge,
     MergeEntry, FinishMerge, FailCompare, FailMerge
<1> QED
  BY <1>1, <1>2, <1>3

(* What other replicas store changes nothing for the comparison.           *)
LEMMA OthersKeepRounds ==
  ASSUME IInv, Appended, op' = op, InRounds
  PROVE  InRounds'
<1> SUFFICES ASSUME At("compare") \/ At("decided")
             PROVE  \E k \in Nat : \E f : RunsAs(f, k)'
  BY DEF InRounds, At
<1>0. PICK k \in Nat : \E f : RunsAs(f, k)
  BY DEF InRounds
<1>1. PICK f : RunsAs(f, k)
  BY <1>0
<1>2. /\ Cids \subseteq Cids' /\ op.our \in Cids /\ op.other \in Cids
      /\ \A x \in Cids : Previous'[x] = Previous[x]
  BY InFlight DEF Appended, Previous, At
<1>3. IsRounds(Previous', op.our, op.other, f, k)
  <2>1. IsRounds(Previous, op.our, op.other, f, k)
        /\ \A i \in 0 .. k : Frontiers(f[i]) \subseteq Cids
    BY <1>1 DEF RunsAs
  <2> QED
    BY <1>2, <2>1, RoundsStable
<1>4. Len(blocks) \in Nat /\ Len(blocks') \in Nat /\ Len(blocks) <= Len(blocks')
  <2>1. Len(blocks) \in Nat /\ Cids = 1 .. Len(blocks)
    BY CidsAreNumbers DEF IInv
  <2>2. Len(blocks') \in Nat /\ Cids' = 1 .. Len(blocks')
    BY DEF Appended, Cids
  <2> QED
    BY <1>2, <2>1, <2>2
<1>5. ASSUME NEW x \in Cids, x + k <= Len(blocks) PROVE x + k <= Len(blocks')
  BY <1>4, <1>5, CidsAreNumbers DEF IInv
<1>6. RunsAs(f, k)'
  BY <1>1, <1>2, <1>3, <1>4, <1>5 DEF RunsAs, State, At
<1> QED
  BY <1>6

(* The first round is what StartReconcile begins with.                     *)
LEMMA StartsInRounds ==
  ASSUME IInv, NEW r \in Replicas, NEW c \in Cids, StartReconcile(r, c)
  PROVE  InRounds'
<1> DEFINE our == StoredAs(tree[r])
<1> PICK f : f = [i \in 0 .. 0 |-> FirstRound(Previous', our, c)]
  OBVIOUS
<1>1. /\ Appended
      /\ our \in Cids'
      /\ blocks'[our] = ToBlock(tree[r])
  BY PersistedIsCurrent DEF StartReconcile
<1>2. /\ op'.stage = (IF our = c THEN "decided" ELSE "compare")
      /\ op'.our = our /\ op'.other = c
      /\ op'.ours = tree[r].previous /\ op'.others = blocks[c].previous
      /\ op'.ourSeen = {} /\ op'.otherSeen = {}
      /\ op'.verdict = (IF our = c THEN "Equal" ELSE "Open")
  BY DEF StartReconcile
<1>3. c \in Cids' /\ blocks'[c] = blocks[c]
  BY <1>1 DEF Appended
<1>4. /\ Previous'[our] = tree[r].previous /\ Previous'[c] = blocks[c].previous
      /\ Len(blocks') \in Nat /\ Cids' = 1 .. Len(blocks')
      /\ Previous'[our] \subseteq 1 .. (our - 1) /\ Previous'[c] \subseteq 1 .. (c - 1)
  BY <1>1, <1>3 DEF Previous, ToBlock, Appended, Cids
<1>5. \A x \in Previous'[our] \cup Previous'[c] : x \in Cids' /\ x + 0 <= Len(blocks')
  BY <1>1, <1>3, <1>4
<1>6. f[0] = [ours |-> tree[r].previous, others |-> blocks[c].previous,
              ourSeen |-> {}, otherSeen |-> {},
              verdict |-> IF our = c THEN "Equal" ELSE "Open"]
  BY <1>4 DEF FirstRound
<1>7. IsRounds(Previous', our, c, f, 0)
  BY DEF IsRounds
<1>8. \A i \in 0 .. 0 : Frontiers(f[i]) \subseteq Cids'
  BY <1>4, <1>5, <1>6 DEF Frontiers
<1>9. CASE our = c
  <2>1. RunsAs(f, 0)'
    BY <1>2, <1>4, <1>6, <1>7, <1>8, <1>9 DEF RunsAs, At, Answers
  <2> QED
    BY <2>1 DEF InRounds
<1>10. CASE our # c
  <2>1. f[0] = State'
    BY <1>2, <1>6, <1>10 DEF State
  <2>2. \A x \in Frontiers(f[0]) : x + 0 <= Len(blocks')
    BY <1>4, <1>5, <1>6 DEF Frontiers
  <2>3. RunsAs(f, 0)'
    BY <1>2, <1>4, <1>7, <1>8, <1>10, <2>1, <2>2 DEF RunsAs, At
  <2> QED
    BY <2>3 DEF InRounds
<1> QED
  BY <1>9, <1>10

(* Deciding and advancing are the next round.                              *)
LEMMA DecideKeepsRounds ==
  ASSUME IInv, InRounds, NEW verdict, At("compare"), Decide(verdict),
         NEW answer, answer # "Open", verdict \in Answers(answer),
         NextRound(Previous, op.our, op.other, State).verdict = answer,
         Frontiers(NextRound(Previous, op.our, op.other, State)) \subseteq Cids
  PROVE  InRounds'
<1>0. PICK k \in Nat : \E f : RunsAs(f, k)
  BY DEF InRounds
<1>1. PICK f : RunsAs(f, k)
  BY <1>0
<1>2. PICK g : g = [i \in 0 .. k + 1 |->
                      IF i = k + 1 THEN NextRound(Previous, op.our, op.other, f[k])
                                   ELSE f[i]]
  OBVIOUS
<1>3. f[k] = State /\ k <= Len(blocks)
  BY <1>1 DEF RunsAs
<1>4. IsRounds(Previous, op.our, op.other, g, k + 1)
  BY <1>1, <1>2, OneMoreRound DEF RunsAs
<1>5. g[k + 1] = NextRound(Previous, op.our, op.other, State)
      /\ \A i \in 0 .. k : g[i] = f[i]
  BY <1>2, <1>3
<1>6. ASSUME NEW i \in 0 .. k + 1 PROVE Frontiers(g[i]) \subseteq Cids
  <2>1. CASE i = k + 1
    BY <2>1, <1>5
  <2>2. CASE i # k + 1
    <3>1. i \in 0 .. k
      BY <2>2
    <3> QED
      BY <3>1, <1>1, <1>5 DEF RunsAs
  <2> QED
    BY <2>1, <2>2
<1>7. Previous' = Previous /\ Cids' = Cids /\ blocks' = blocks
  BY DEF Decide, Previous, Cids
<1>8. /\ op \in Comparison
      /\ op'.our = op.our /\ op'.other = op.other
      /\ op'.stage = "decided" /\ op'.verdict = verdict
  BY InFlight DEF At, Decide, Comparison
<1>9. k + 1 \in Nat /\ k + 1 <= Len(blocks) + 1
  BY <1>3, CidsAreNumbers DEF IInv
<1>10. RunsAs(g, k + 1)'
  BY <1>4, <1>5, <1>6, <1>7, <1>8, <1>9 DEF RunsAs, At, Answers
<1> QED
  BY <1>9, <1>10 DEF InRounds

LEMMA AdvanceKeepsRounds ==
  ASSUME IInv, InRounds, Advance
  PROVE  InRounds'
<1> DEFINE ours   == NextPreviousSet(Previous, op.ours, op.ourSeen)
           others == NextPreviousSet(Previous, op.others, op.otherSeen)
<1>0. PICK k \in Nat : \E f : RunsAs(f, k)
  BY DEF InRounds, Advance
<1>1. PICK f : RunsAs(f, k)
  BY <1>0
<1>2. PICK g : g = [i \in 0 .. k + 1 |->
                      IF i = k + 1 THEN NextRound(Previous, op.our, op.other, f[k])
                                   ELSE f[i]]
  OBVIOUS
<1>3. /\ f[k] = State /\ k <= Len(blocks)
      /\ \A x \in op.ours \cup op.others : x + k <= Len(blocks)
  BY <1>1 DEF RunsAs, Advance, Frontiers, State
<1>4. IsRounds(Previous, op.our, op.other, g, k + 1)
  BY <1>1, <1>2, OneMoreRound DEF RunsAs
<1>5. NextRound(Previous, op.our, op.other, State) =
        [ours |-> ours, others |-> others,
         ourSeen |-> op.ourSeen \cup ours, otherSeen |-> op.otherSeen \cup others,
         verdict |-> IF Exhausted(ours, others) THEN "None" ELSE "Open"]
  BY DEF NextRound, State, Advance, OtherReachedUs, WeReachedOther, OursIsSubset,
     OtherIsSubset, Exhausted
<1>6. g[k + 1] = NextRound(Previous, op.our, op.other, State)
      /\ \A i \in 0 .. k : g[i] = f[i]
  BY <1>2, <1>3
<1>7. Previous' = Previous /\ Cids' = Cids /\ blocks' = blocks
  BY DEF Advance, Previous, Cids
<1>8. /\ op \in Comparison
      /\ op'.our = op.our /\ op'.other = op.other
      /\ op'.ours = ours /\ op'.ourSeen = op.ourSeen \cup ours
      /\ op'.others = others /\ op'.otherSeen = op.otherSeen \cup others
      /\ op'.stage = (IF Exhausted(ours, others) THEN "decided" ELSE "compare")
      /\ op'.verdict = (IF Exhausted(ours, others) THEN "NoneByExhaustion" ELSE "Open")
  BY InFlight DEF Advance, At, Comparison
<1>9. \A y \in ours \cup others :
         y \in Cids /\ \E x \in op.ours \cup op.others : x \in Cids /\ y \in 1 .. (x - 1)
  <2>1. op.ours \subseteq Cids /\ op.others \subseteq Cids
    BY <1>8 DEF Comparison
  <2>2. \A x \in Cids : Previous[x] \subseteq 1 .. (x - 1) /\ Previous[x] \subseteq Cids
    BY PreviousIsClosed DEF IInv, TypeOK, Closed
  <2> QED
    BY <2>1, <2>2 DEF NextPreviousSet
<1>10. Len(blocks) \in Nat /\ Cids = 1 .. Len(blocks)
  BY CidsAreNumbers DEF IInv
<1> HIDE DEF ours, others
<1>11. ASSUME NEW y \in ours \cup others
       PROVE  y + (k + 1) <= Len(blocks) /\ k + 1 <= Len(blocks)
  <2>1. PICK x \in op.ours \cup op.others : x \in Cids /\ y \in 1 .. (x - 1)
    BY <1>9
  <2>2. x + k <= Len(blocks)
    BY <1>3
  <2> QED
    BY <2>1, <2>2, <1>10
<1>12. ASSUME NEW i \in 0 .. k + 1 PROVE Frontiers(g[i]) \subseteq Cids
  <2>1. CASE i = k + 1
    BY <2>1, <1>5, <1>6, <1>9 DEF Frontiers
  <2>2. CASE i # k + 1
    <3>1. i \in 0 .. k
      BY <2>2
    <3> QED
      BY <3>1, <1>1, <1>6 DEF RunsAs
  <2> QED
    BY <2>1, <2>2
<1>13. k + 1 \in Nat /\ k + 1 <= Len(blocks) + 1
  BY <1>3, <1>10
<1>14. CASE Exhausted(ours, others)
  <2>1. op'.stage = "decided" /\ op'.verdict = "NoneByExhaustion"
        /\ g[k + 1].verdict = "None"
    BY <1>5, <1>6, <1>8, <1>14
  <2>2. RunsAs(g, k + 1)'
    BY <1>4, <1>7, <1>8, <1>12, <1>13, <2>1 DEF RunsAs, At, Answers
  <2> QED
    BY <1>13, <2>2 DEF InRounds
<1>15. CASE ~Exhausted(ours, others)
  <2>1. op'.stage = "compare" /\ g[k + 1] = State'
    BY <1>5, <1>6, <1>8, <1>15 DEF State
  <2>2. \A y \in Frontiers(g[k + 1]) : y + (k + 1) <= Len(blocks)
    BY <1>5, <1>6, <1>11 DEF Frontiers
  <2>3. k + 1 <= Len(blocks)
    BY <1>11, <1>15 DEF Exhausted
  <2>4. RunsAs(g, k + 1)'
    BY <1>4, <1>7, <1>8, <1>12, <1>13, <2>1, <2>2, <2>3 DEF RunsAs, At
  <2> QED
    BY <1>13, <2>4 DEF InRounds
<1> QED
  BY <1>14, <1>15

LEMMA StepKeepsRounds == IInv /\ InRounds /\ [Next]_vars => InRounds'
<1> SUFFICES ASSUME IInv, InRounds, [Next]_vars PROVE InRounds'
  OBVIOUS
<1>1. CASE op' = op
  BY <1>1, BlocksAreAppended, OthersKeepRounds
<1>2. CASE op'.stage \notin {"compare", "decided"}
  BY <1>2 DEF InRounds, At
<1>3. CASE \E r \in Replicas : \E c \in Announced(r) : StartReconcile(r, c)
  <2>1. \A r \in Replicas : Announced(r) \subseteq Cids
    BY DEF Announced, IInv, TypeOK
  <2> QED
    BY <1>3, <2>1, StartsInRounds
<1>4. ASSUME At("compare") PROVE Frontiers(State) \subseteq Cids
  BY <1>4, InFlight DEF At, Comparison, Frontiers, State
<1>5. CASE FindLess
  <2>1. NextRound(Previous, op.our, op.other, State) = [State EXCEPT !.verdict = "Less"]
    BY <1>5 DEF NextRound, State, FindLess, OtherReachedUs
  <2>2. /\ NextRound(Previous, op.our, op.other, State).verdict = "Less"
        /\ Frontiers(NextRound(Previous, op.our, op.other, State)) \subseteq Cids
    BY <1>4, <1>5, <2>1 DEF State, Frontiers, FindLess
  <2> QED
    BY <1>5, <2>2, DecideKeepsRounds DEF FindLess, Answers
<1>6. CASE FindGreater
  <2>1. NextRound(Previous, op.our, op.other, State) = [State EXCEPT !.verdict = "Greater"]
    BY <1>6 DEF NextRound, State, FindGreater, OtherReachedUs, WeReachedOther
  <2>2. /\ NextRound(Previous, op.our, op.other, State).verdict = "Greater"
        /\ Frontiers(NextRound(Previous, op.our, op.other, State)) \subseteq Cids
    BY <1>4, <1>6, <2>1 DEF State, Frontiers, FindGreater
  <2> QED
    BY <1>6, <2>2, DecideKeepsRounds DEF FindGreater, Answers
<1>7. CASE GiveUpEarly
  <2>1. NextRound(Previous, op.our, op.other, State) = [State EXCEPT !.verdict = "None"]
    BY <1>7 DEF NextRound, State, GiveUpEarly, OtherReachedUs, WeReachedOther,
       OursIsSubset, OtherIsSubset
  <2>2. /\ NextRound(Previous, op.our, op.other, State).verdict = "None"
        /\ Frontiers(NextRound(Previous, op.our, op.other, State)) \subseteq Cids
    BY <1>4, <1>7, <2>1 DEF State, Frontiers, GiveUpEarly
  <2> QED
    BY <1>7, <2>2, DecideKeepsRounds DEF GiveUpEarly, Answers
<1>8. CASE Advance
  BY <1>8, AdvanceKeepsRounds
<1>9. CASE BeginMerge
  <2>1. op'.stage = "merge"
    BY <1>9, InFlight DEF BeginMerge, At, Comparison
  <2> QED
    BY <1>2, <2>1
<1>10. CASE \E n \in Names : MergeEntry(n)
  <2>1. op'.stage = "merge"
    BY <1>10, InFlight DEF MergeEntry, At, Comparison
  <2> QED
    BY <1>2, <2>1
<1>11. op' = Idle => op'.stage \notin {"compare", "decided"}
  BY DEF Idle
<1> QED
  BY <1>1, <1>2, <1>3, <1>5, <1>6, <1>7, <1>8, <1>9, <1>10, <1>11
     DEF Next, vars, Write, Store, Reopen, ReconcileStep, KeepOurs, FastForward,
         FinishMerge, FailCompare, FailMerge

(* The loop gives the answer of the function other modules use for it.     *)
LoopIsCausalCompare ==
  At("decided") =>
    LET answer == CausalCompare(Previous, op.our, op.other)
    IN op.verdict \in (IF answer = "None"
                       THEN {"NoneByFrontier", "NoneByExhaustion"}
                       ELSE {answer})

(* With replicas that store and open revisions while it runs, the loop of  *)
(* causal_compare comes to the answer of the comparison on its own.        *)
THEOREM LoopAnswersLikeFunction == Spec => []LoopIsCausalCompare
<1>1. Init => InRounds
  BY DEF Init, InRounds, At, Idle
<1>2. Spec => []InRounds
  BY <1>1, StepKeepsRounds, Invariance, PTL DEF Spec
<1>3. ASSUME IInv, InRounds, At("decided")
      PROVE  LET answer == CausalCompare(Previous, op.our, op.other)
             IN op.verdict \in (IF answer = "None"
                                THEN {"NoneByFrontier", "NoneByExhaustion"}
                                ELSE {answer})
  <2>0. PICK k \in Nat : \E f : RunsAs(f, k)
    BY <1>3 DEF InRounds
  <2>1. PICK f : RunsAs(f, k)
    BY <2>0
  <2>2. Len(blocks) \in Nat /\ DOMAIN Previous = 1 .. Len(blocks)
    BY <1>3, CidsAreNumbers DEF IInv, Previous
  <2>3. k \in 0 .. Len(blocks) + 1
    BY <2>1, <2>2 DEF RunsAs
  <2>4. CausalCompare(Previous, op.our, op.other) = f[k].verdict
    BY <1>3, <2>1, <2>2, <2>3, RoundsGiveTheAnswer DEF RunsAs
  <2> QED
    BY <1>3, <2>1, <2>4 DEF RunsAs, Answers
<1>4. IInv /\ InRounds => LoopIsCausalCompare
  BY <1>3 DEF LoopIsCausalCompare
<1> QED
  BY <1>2, <1>4, Invariance, PTL

--------------------------------------------------------------------------------
(***************************************************************************)
(* That a side is ahead is found.  Where b was written on top of a without *)
(* a merge, each revision on the way back from b to a has one predecessor, *)
(* so the frontier that starts at b is one revision of that way at a time, *)
(* newer than all that the comparison finds going back from a; neither the *)
(* early return nor an end of the history comes before a is met.           *)
(***************************************************************************)
IsClock(prev, n) ==
  /\ n \in Nat /\ DOMAIN prev = 1 .. n
  /\ \A c \in 1 .. n : prev[c] \subseteq 1 .. (c - 1)

OnTop(prev, a, b) ==
  /\ a \in DOMAIN prev /\ b \in DOMAIN prev
  /\ a \in History(prev, b)
  /\ \A c \in ({b} \cup History(prev, b)) \ ({a} \cup History(prev, a)) :
        \A x, y \in prev[c] : x = y

(* A frontier that is one revision of the way from b back to a.            *)
OnTheWay(prev, a, b, frontier, seen) ==
  \E d \in History(prev, b) :
    /\ frontier = {d}
    /\ d = a \/ a \in History(prev, d)
    /\ \A x \in seen : x \in Nat /\ d <= x

LEMMA ClockFacts ==
  ASSUME NEW n, NEW prev, IsClock(prev, n), NEW c \in DOMAIN prev
  PROVE  /\ Closed(prev, DOMAIN prev)
         /\ DOMAIN prev \subseteq Nat
         /\ History(prev, c) \subseteq DOMAIN prev
         /\ \A x \in History(prev, c) : x \in Nat /\ x < c
         /\ prev[c] \subseteq History(prev, c)
         /\ Closed(prev, History(prev, c))
<1>1. n \in Nat /\ DOMAIN prev = 1 .. n /\ \A x \in 1 .. n : prev[x] \subseteq 1 .. (x - 1)
  BY DEF IsClock
<1>2. Closed(prev, DOMAIN prev)
  BY <1>1, ClockIsClosed
<1>3. History(prev, c) \subseteq 1 .. (c - 1)
  BY <1>1, HistoryIsOlder
<1>4. \A x \in History(prev, c) : x \in Nat /\ x < c
  BY <1>1, <1>3
<1>5. prev[c] \subseteq History(prev, c) /\ Closed(prev, History(prev, c))
  BY <1>2, PreviousInHistory, HistoryIsClosed
<1> QED
  BY <1>1, <1>2, <1>4, <1>5 DEF History

(* The way to what is in the history leads over a predecessor.             *)
LEMMA HistoryLeadsOver ==
  ASSUME NEW n, NEW prev, IsClock(prev, n), NEW c \in DOMAIN prev, NEW a \in History(prev, c)
  PROVE  \E e \in prev[c] : e = a \/ a \in History(prev, e)
<1> DEFINE S == prev[c] \cup UNION {History(prev, e) : e \in prev[c]}
<1>1. Closed(prev, DOMAIN prev) /\ prev[c] \subseteq DOMAIN prev
  BY ClockFacts
<1>2. S \in SUBSET DOMAIN prev
  BY <1>1 DEF History
<1>3. Closed(prev, S)
  <2> SUFFICES ASSUME NEW x \in S PROVE prev[x] \subseteq S
    BY DEF Closed
  <2>1. CASE x \in prev[c]
    <3>1. prev[x] \subseteq History(prev, x)
      BY <1>1, <2>1, PreviousInHistory
    <3> QED
      BY <2>1, <3>1
  <2>2. CASE \E e \in prev[c] : x \in History(prev, e)
    <3>1. PICK e \in prev[c] : x \in History(prev, e)
      BY <2>2
    <3>2. Closed(prev, History(prev, e))
      BY <1>1, <3>1, HistoryIsClosed
    <3> QED
      BY <3>1, <3>2 DEF Closed
  <2> QED
    BY <2>1, <2>2
<1>4. History(prev, c) \subseteq S
  BY <1>2, <1>3, HistoryIsLeast
<1> QED
  BY <1>4

(* One step back on the way from b to a.                                   *)
LEMMA OneStepBack ==
  ASSUME NEW n, NEW prev, IsClock(prev, n), NEW a, NEW b, OnTop(prev, a, b),
         NEW c \in {b} \cup History(prev, b), a \in History(prev, c)
  PROVE  \E e \in History(prev, b) :
            prev[c] = {e} /\ e < c /\ (e = a \/ a \in History(prev, e))
<1>1. a \in DOMAIN prev /\ b \in DOMAIN prev /\ DOMAIN prev \subseteq Nat
  BY ClockFacts DEF OnTop
<1>2. c \in DOMAIN prev
  BY <1>1 DEF History
<1>3. a < c /\ a \in Nat /\ c \in Nat
  BY <1>1, <1>2, ClockFacts
<1>4. c \notin {a} \cup History(prev, a)
  <2>1. \A x \in History(prev, a) : x \in Nat /\ x < a
    BY <1>1, ClockFacts
  <2> QED
    BY <1>3, <2>1
<1>5. \A x, y \in prev[c] : x = y
  BY <1>4 DEF OnTop
<1>6. PICK e \in prev[c] : e = a \/ a \in History(prev, e)
  BY <1>2, HistoryLeadsOver
<1>7. prev[c] = {e}
  BY <1>5, <1>6
<1>8. e \in History(prev, b)
  BY <1>1, <1>6, ClockFacts DEF Closed
<1>9. e < c
  BY <1>2, <1>6, ClockFacts
<1> QED
  BY <1>6, <1>7, <1>8, <1>9

LEMMA StartsOnTheWay ==
  ASSUME NEW n, NEW prev, IsClock(prev, n), NEW a, NEW b, OnTop(prev, a, b)
  PROVE  OnTheWay(prev, a, b, prev[b], {})
<1>1. a \in History(prev, b)
  BY DEF OnTop
<1>2. PICK e \in History(prev, b) :
         prev[b] = {e} /\ e < b /\ (e = a \/ a \in History(prev, e))
  BY <1>1, OneStepBack
<1> QED
  BY <1>2 DEF OnTheWay

LEMMA StaysOnTheWay ==
  ASSUME NEW n, NEW prev, IsClock(prev, n), NEW a, NEW b, OnTop(prev, a, b),
         NEW frontier, NEW seen, OnTheWay(prev, a, b, frontier, seen), a \notin frontier
  PROVE  LET next == NextPreviousSet(prev, frontier, seen)
         IN next # {} /\ OnTheWay(prev, a, b, next, seen \cup next)
<1> DEFINE next == NextPreviousSet(prev, frontier, seen)
<1>1. PICK d \in History(prev, b) :
         /\ frontier = {d}
         /\ d = a \/ a \in History(prev, d)
         /\ \A x \in seen : x \in Nat /\ d <= x
  BY DEF OnTheWay
<1>2. a \in History(prev, d) /\ d \in {b} \cup History(prev, b)
  BY <1>1
<1>3. PICK e \in History(prev, b) :
         prev[d] = {e} /\ e < d /\ (e = a \/ a \in History(prev, e))
  BY <1>2, OneStepBack
<1>4. b \in DOMAIN prev
  BY DEF OnTop
<1>5. e \in Nat /\ d \in Nat
  BY <1>4, ClockFacts
<1>6. \A x \in seen : x \in Nat /\ e < x
  BY <1>1, <1>3, <1>5
<1>7. next = {e}
  <2>1. UNION {prev[x] : x \in frontier} = {e}
    BY <1>1, <1>3
  <2>2. e \notin seen
    BY <1>5, <1>6
  <2> QED
    BY <2>1, <2>2 DEF NextPreviousSet
<1>8. \A x \in seen \cup next : x \in Nat /\ e <= x
  BY <1>5, <1>6, <1>7
<1>9. OnTheWay(prev, a, b, next, seen \cup next)
  BY <1>3, <1>7, <1>8 DEF OnTheWay
<1> QED
  BY <1>7, <1>9

(* What is found going back from a keeps the comparison from nothing.      *)
LEMMA NothingInTheWay ==
  ASSUME NEW n, NEW prev, IsClock(prev, n), NEW a, NEW b, OnTop(prev, a, b),
         NEW frontier, NEW seen, OnTheWay(prev, a, b, frontier, seen),
         NEW mine \in SUBSET History(prev, a), NEW mineSeen \in SUBSET History(prev, a)
  PROVE  /\ b \notin mine
         /\ ~ProperPart(mine, seen)
         /\ a \notin frontier => ~ProperPart(frontier, mineSeen)
<1>1. PICK d \in History(prev, b) :
         /\ frontier = {d}
         /\ d = a \/ a \in History(prev, d)
         /\ \A x \in seen : x \in Nat /\ d <= x
  BY DEF OnTheWay
<1>2. /\ a \in DOMAIN prev /\ b \in DOMAIN prev /\ d \in DOMAIN prev
      /\ a \in History(prev, b)
  BY <1>1 DEF OnTop, History
<1>3. /\ a \in Nat /\ b \in Nat /\ a < b
      /\ \A x \in History(prev, a) : x \in Nat /\ x < a
  BY <1>2, ClockFacts
<1>4. d \in Nat /\ a <= d
  <2>1. CASE d = a
    BY <1>3, <2>1
  <2>2. CASE a \in History(prev, d)
    <3>1. a < d /\ d \in Nat
      BY <1>2, <2>2, ClockFacts
    <3> QED
      BY <1>3, <3>1
  <2> QED
    BY <1>1, <2>1, <2>2
<1>5. b \notin mine
  <2> SUFFICES ASSUME b \in mine PROVE FALSE
    OBVIOUS
  <2>1. b < a
    BY <1>3
  <2> QED
    BY <1>3, <2>1
<1>6. ~ProperPart(mine, seen)
  <2> SUFFICES ASSUME NEW x \in mine, x \in seen PROVE FALSE
    BY DEF ProperPart
  <2>1. x \in Nat /\ x < a /\ d <= x
    BY <1>1, <1>3
  <2> QED
    BY <1>3, <1>4, <2>1
<1>7. ASSUME a \notin frontier PROVE ~ProperPart(frontier, mineSeen)
  <2> SUFFICES ASSUME d \in mineSeen PROVE FALSE
    BY <1>1 DEF ProperPart
  <2>1. d < a
    BY <1>3
  <2> QED
    BY <1>3, <1>4, <2>1
<1> QED
  BY <1>5, <1>6, <1>7

(* Storing more revisions changes no way between those there were.         *)
LEMMA WaysAreStable ==
  ASSUME NEW n, NEW prev, IsClock(prev, n), NEW more,
         DOMAIN prev \subseteq DOMAIN more,
         \A x \in DOMAIN prev : more[x] = prev[x],
         NEW a \in DOMAIN prev, NEW b \in DOMAIN prev, NEW frontier, NEW seen
  PROVE  /\ OnTop(more, a, b) => OnTop(prev, a, b)
         /\ OnTheWay(prev, a, b, frontier, seen) => OnTheWay(more, a, b, frontier, seen)
<1>1. \A c \in DOMAIN prev : History(more, c) = History(prev, c)
  <2> TAKE c \in DOMAIN prev
  <2>1. Closed(prev, DOMAIN prev)
    BY ClockFacts
  <2> QED
    BY <2>1, HistoryStable
<1>2. History(prev, b) \subseteq DOMAIN prev
  BY DEF History
<1>3. OnTop(more, a, b) => OnTop(prev, a, b)
  BY <1>1, <1>2 DEF OnTop
<1>4. ASSUME OnTheWay(prev, a, b, frontier, seen)
      PROVE  OnTheWay(more, a, b, frontier, seen)
  BY <1>1, <1>2, <1>4 DEF OnTheWay
<1> QED
  BY <1>3, <1>4

(* Where the comparison is, when a side was written on top of the other.   *)
ComparesOnTheWay ==
  At("compare") =>
    /\ OnTop(Previous, op.our, op.other) =>
         OnTheWay(Previous, op.our, op.other, op.others, op.otherSeen)
    /\ OnTop(Previous, op.other, op.our) =>
         OnTheWay(Previous, op.other, op.our, op.ours, op.ourSeen)

FoundOnTop ==
  At("decided") =>
    /\ OnTop(Previous, op.our, op.other) => op.verdict = "Less"
    /\ OnTop(Previous, op.other, op.our) => op.verdict = "Greater"

WayInv == ComparesOnTheWay /\ FoundOnTop

LEMMA PreviousIsClock == ASSUME TypeOK PROVE IsClock(Previous, Len(blocks))
<1>1. Len(blocks) \in Nat /\ Cids = 1 .. Len(blocks)
  BY CidsAreNumbers
<1>2. DOMAIN Previous = Cids /\ \A c \in Cids : Previous[c] \subseteq 1 .. (c - 1)
  BY PreviousIsClosed DEF TypeOK
<1> QED
  BY <1>1, <1>2 DEF IsClock

LEMMA OthersKeepWay ==
  ASSUME IInv, WayInv, Appended, op' = op
  PROVE  WayInv'
<1> SUFFICES ASSUME op.stage # "idle" PROVE WayInv'
  BY DEF WayInv, ComparesOnTheWay, FoundOnTop, At
<1>1. op.our \in DOMAIN Previous /\ op.other \in DOMAIN Previous
  BY InFlight, PreviousIsClosed DEF IInv
<1>2. IsClock(Previous, Len(blocks))
  BY PreviousIsClock DEF IInv
<1>3. /\ DOMAIN Previous \subseteq DOMAIN Previous'
      /\ \A x \in DOMAIN Previous : Previous'[x] = Previous[x]
  BY DEF Appended, Previous
<1>4. /\ OnTop(Previous', op.our, op.other) => OnTop(Previous, op.our, op.other)
      /\ OnTheWay(Previous, op.our, op.other, op.others, op.otherSeen)
           => OnTheWay(Previous', op.our, op.other, op.others, op.otherSeen)
  BY <1>1, <1>2, <1>3, WaysAreStable
<1>5. /\ OnTop(Previous', op.other, op.our) => OnTop(Previous, op.other, op.our)
      /\ OnTheWay(Previous, op.other, op.our, op.ours, op.ourSeen)
           => OnTheWay(Previous', op.other, op.our, op.ours, op.ourSeen)
  BY <1>1, <1>2, <1>3, WaysAreStable
<1> QED
  BY <1>4, <1>5 DEF WayInv, ComparesOnTheWay, FoundOnTop, At

LEMMA StartsWay ==
  ASSUME IInv, NEW r \in Replicas, NEW c \in Cids, StartReconcile(r, c)
  PROVE  WayInv'
<1> DEFINE our == StoredAs(tree[r])
<1>1. /\ Appended
      /\ our \in Cids'
      /\ blocks'[our] = ToBlock(tree[r])
  BY PersistedIsCurrent DEF StartReconcile
<1>2. IsClock(Previous', Len(blocks'))
  <2>1. /\ DOMAIN Previous' = Cids'
        /\ \A x \in Cids' : Previous'[x] = blocks'[x].previous
    BY DEF Previous
  <2>2. Len(blocks') \in Nat /\ Cids' = 1 .. Len(blocks')
    BY <1>1 DEF Appended, Cids
  <2> QED
    BY <1>1, <2>1, <2>2 DEF IsClock, Appended
<1>3. /\ op'.stage = (IF our = c THEN "decided" ELSE "compare")
      /\ op'.our = our /\ op'.other = c
      /\ op'.ours = tree[r].previous /\ op'.others = blocks[c].previous
      /\ op'.ourSeen = {} /\ op'.otherSeen = {}
  BY DEF StartReconcile
<1>4. /\ Previous'[our] = tree[r].previous /\ Previous'[c] = blocks[c].previous
  BY <1>1 DEF Previous, ToBlock, Appended
<1>5. ComparesOnTheWay'
  <2>1. OnTop(Previous', our, c) => OnTheWay(Previous', our, c, Previous'[c], {})
    BY <1>2, StartsOnTheWay
  <2>2. OnTop(Previous', c, our) => OnTheWay(Previous', c, our, Previous'[our], {})
    BY <1>2, StartsOnTheWay
  <2> QED
    BY <1>3, <1>4, <2>1, <2>2 DEF ComparesOnTheWay
<1>6. FoundOnTop'
  <2> SUFFICES ASSUME our = c PROVE ~OnTop(Previous', c, c)
    BY <1>3 DEF FoundOnTop, At
  <2>1. c \in DOMAIN Previous'
    BY <1>1 DEF Previous, Appended
  <2>2. \A x \in History(Previous', c) : x \in Nat /\ x < c
    BY <1>2, <2>1, ClockFacts
  <2> QED
    BY <2>2 DEF OnTop
<1> QED
  BY <1>5, <1>6 DEF WayInv

(* What a comparison can decide when it is on the way: only that it is.    *)
LEMMA OnlyOrderIsFound ==
  ASSUME IInv, WayInv, At("compare")
  PROVE  /\ OnTop(Previous, op.our, op.other) =>
              ~WeReachedOther /\ (OtherReachedUs \/ (~OursIsSubset /\ ~OtherIsSubset))
         /\ OnTop(Previous, op.other, op.our) =>
              ~OtherReachedUs /\ (WeReachedOther \/ (~OursIsSubset /\ ~OtherIsSubset))
<1>1. IsClock(Previous, Len(blocks))
  BY PreviousIsClock DEF IInv
<1>2. /\ op.ours \in SUBSET History(Previous, op.our)
      /\ op.ourSeen \in SUBSET History(Previous, op.our)
      /\ op.others \in SUBSET History(Previous, op.other)
      /\ op.otherSeen \in SUBSET History(Previous, op.other)
  BY DEF IInv, FrontiersInHistory
<1>3. ASSUME OnTop(Previous, op.our, op.other)
      PROVE  ~WeReachedOther /\ (OtherReachedUs \/ (~OursIsSubset /\ ~OtherIsSubset))
  <2>1. OnTheWay(Previous, op.our, op.other, op.others, op.otherSeen)
    BY <1>3 DEF WayInv, ComparesOnTheWay
  <2>2. /\ op.other \notin op.ours
        /\ ~ProperPart(op.ours, op.otherSeen)
        /\ op.our \notin op.others => ~ProperPart(op.others, op.ourSeen)
    BY <1>1, <1>2, <1>3, <2>1, NothingInTheWay
  <2> QED
    BY <2>2 DEF WeReachedOther, OtherReachedUs, OursIsSubset, OtherIsSubset
<1>4. ASSUME OnTop(Previous, op.other, op.our)
      PROVE  ~OtherReachedUs /\ (WeReachedOther \/ (~OursIsSubset /\ ~OtherIsSubset))
  <2>1. OnTheWay(Previous, op.other, op.our, op.ours, op.ourSeen)
    BY <1>4 DEF WayInv, ComparesOnTheWay
  <2>2. /\ op.our \notin op.others
        /\ ~ProperPart(op.others, op.ourSeen)
        /\ op.other \notin op.ours => ~ProperPart(op.ours, op.otherSeen)
    BY <1>1, <1>2, <1>4, <2>1, NothingInTheWay
  <2> QED
    BY <2>2 DEF WeReachedOther, OtherReachedUs, OursIsSubset, OtherIsSubset
<1> QED
  BY <1>3, <1>4

LEMMA CompareKeepsWay ==
  ASSUME IInv, WayInv, FindLess \/ FindGreater \/ GiveUpEarly \/ Advance
  PROVE  WayInv'
<1> DEFINE ours   == NextPreviousSet(Previous, op.ours, op.ourSeen)
           others == NextPreviousSet(Previous, op.others, op.otherSeen)
<1>1. At("compare") /\ op \in Comparison
  BY InFlight DEF FindLess, FindGreater, GiveUpEarly, Advance, At
<1>2. Previous' = Previous
  BY DEF FindLess, FindGreater, GiveUpEarly, Advance, Decide, Previous, Cids
<1>3. /\ OnTop(Previous, op.our, op.other) =>
           ~WeReachedOther /\ (OtherReachedUs \/ (~OursIsSubset /\ ~OtherIsSubset))
      /\ OnTop(Previous, op.other, op.our) =>
           ~OtherReachedUs /\ (WeReachedOther \/ (~OursIsSubset /\ ~OtherIsSubset))
  BY <1>1, OnlyOrderIsFound
<1>4. CASE FindLess \/ FindGreater \/ GiveUpEarly
  <2>1. /\ op'.stage = "decided" /\ op'.our = op.our /\ op'.other = op.other
        /\ FindLess => op'.verdict = "Less" /\ OtherReachedUs
        /\ FindGreater => op'.verdict = "Greater" /\ WeReachedOther
        /\ GiveUpEarly => /\ ~OtherReachedUs /\ ~WeReachedOther
                          /\ OursIsSubset \/ OtherIsSubset
    BY <1>1, <1>4 DEF FindLess, FindGreater, GiveUpEarly, Decide, Comparison
  <2>2. FoundOnTop'
    BY <1>2, <1>3, <1>4, <2>1 DEF FoundOnTop
  <2> QED
    BY <2>1, <2>2 DEF WayInv, ComparesOnTheWay, At
<1>5. CASE Advance
  <2>1. /\ op'.our = op.our /\ op'.other = op.other
        /\ op'.ours = ours /\ op'.ourSeen = op.ourSeen \cup ours
        /\ op'.others = others /\ op'.otherSeen = op.otherSeen \cup others
        /\ op'.stage = (IF ours = {} /\ others = {} THEN "decided" ELSE "compare")
    BY <1>1, <1>5 DEF Advance, Exhausted, Comparison
  <2>2. IsClock(Previous, Len(blocks))
    BY PreviousIsClock DEF IInv
  <2>3. op.our \notin op.others /\ op.other \notin op.ours
    BY <1>5 DEF Advance, OtherReachedUs, WeReachedOther
  <2>4. ASSUME OnTop(Previous, op.our, op.other)
        PROVE  others # {} /\ OnTheWay(Previous, op.our, op.other, others,
                                       op.otherSeen \cup others)
    <3>1. OnTheWay(Previous, op.our, op.other, op.others, op.otherSeen)
      BY <1>1, <2>4 DEF WayInv, ComparesOnTheWay
    <3> QED
      BY <2>2, <2>3, <2>4, <3>1, StaysOnTheWay
  <2>5. ASSUME OnTop(Previous, op.other, op.our)
        PROVE  ours # {} /\ OnTheWay(Previous, op.other, op.our, ours,
                                     op.ourSeen \cup ours)
    <3>1. OnTheWay(Previous, op.other, op.our, op.ours, op.ourSeen)
      BY <1>1, <2>5 DEF WayInv, ComparesOnTheWay
    <3> QED
      BY <2>2, <2>3, <2>5, <3>1, StaysOnTheWay
  <2> HIDE DEF ours, others
  <2>6. ComparesOnTheWay'
    BY <1>2, <2>1, <2>4, <2>5 DEF ComparesOnTheWay
  <2>7. FoundOnTop'
    BY <1>2, <2>1, <2>4, <2>5 DEF FoundOnTop, At
  <2> QED
    BY <2>6, <2>7 DEF WayInv
<1> QED
  BY <1>4, <1>5

LEMMA StepKeepsWay == IInv /\ WayInv /\ [Next]_vars => WayInv'
<1> SUFFICES ASSUME IInv, WayInv, [Next]_vars PROVE WayInv'
  OBVIOUS
<1>1. CASE op' = op
  BY <1>1, BlocksAreAppended, OthersKeepWay
<1>2. CASE op'.stage \notin {"compare", "decided"}
  BY <1>2 DEF WayInv, ComparesOnTheWay, FoundOnTop, At
<1>3. CASE \E r \in Replicas : \E c \in Announced(r) : StartReconcile(r, c)
  <2>1. \A r \in Replicas : Announced(r) \subseteq Cids
    BY DEF Announced, IInv, TypeOK
  <2> QED
    BY <1>3, <2>1, StartsWay
<1>4. CASE FindLess \/ FindGreater \/ GiveUpEarly \/ Advance
  BY <1>4, CompareKeepsWay
<1>5. CASE BeginMerge \/ \E n \in Names : MergeEntry(n)
  <2>1. op'.stage = "merge"
    BY <1>5, InFlight DEF BeginMerge, MergeEntry, At, Comparison
  <2> QED
    BY <1>2, <2>1
<1>6. op' = Idle => op'.stage \notin {"compare", "decided"}
  BY DEF Idle
<1> QED
  BY <1>1, <1>2, <1>3, <1>4, <1>5, <1>6
     DEF Next, vars, Write, Store, Reopen, ReconcileStep, KeepOurs, FastForward,
         FinishMerge, FailCompare, FailMerge

(* A revision that is no merge node names at most one other.               *)
LEMMA WrittenOnTopIsOnTop ==
  ASSUME TypeOK, NEW a \in Cids, NEW b \in Cids, WrittenOnTop(a, b)
  PROVE  OnTop(Previous, a, b)
<1>1. /\ DOMAIN Previous = Cids
      /\ \A c \in Cids : Previous[c] = blocks[c].previous
  BY PreviousIsClosed
<1>2. ASSUME NEW c \in Since(a, b), NEW x \in Previous[c], NEW y \in Previous[c]
      PROVE  x = y
  <2>1. c \in Cids
    BY <1>1 DEF Since, History
  <2>2. Previous[c] \subseteq 1 .. (c - 1) /\ c \in Nat /\ c - 1 \in Int
    BY <1>1, <2>1, CidsAreNumbers DEF TypeOK
  <2>3. IsFiniteSet(Previous[c])
    <3>1. IsFiniteSet(1 .. (c - 1))
      BY <2>2, FS_Interval
    <3> QED
      BY <2>2, <3>1, FS_Subset
  <2>4. ~(Cardinality(Previous[c]) > 1)
    BY <1>1, <2>1 DEF WrittenOnTop, IsMergeNode
  <2>5. Cardinality(Previous[c]) \in Nat
    BY <2>3, FS_CardinalityType
  <2>6. IsFiniteSet(Previous[c] \ {x}) /\
        Cardinality(Previous[c] \ {x}) = Cardinality(Previous[c]) - 1
    BY <2>3, FS_RemoveElement
  <2>7. Cardinality(Previous[c] \ {x}) \in Nat
    BY <2>6, FS_CardinalityType
  <2>8. Cardinality(Previous[c] \ {x}) = 0
    BY <2>4, <2>5, <2>6, <2>7
  <2>9. Previous[c] \ {x} = {}
    BY <2>6, <2>8, FS_EmptySet
  <2> QED
    BY <2>9
<1> QED
  BY <1>1, <1>2 DEF OnTop, WrittenOnTop, Since

(* Whatever the replicas store, open and merge meanwhile, and however far  *)
(* a revision is from one that was written on top of it without a merge,   *)
(* causal_compare tells which side is ahead: no fast-forward becomes a     *)
(* merge because of the early return or the end of a history.              *)
THEOREM AncestorsFound == Spec => []AncestorsAreFound
<1>1. Init => WayInv
  BY DEF Init, WayInv, ComparesOnTheWay, FoundOnTop, At, Idle
<1>2. Spec => []WayInv
  BY <1>1, StepKeepsWay, Invariance, PTL DEF Spec
<1>3. IInv /\ WayInv => AncestorsAreFound
  <2> SUFFICES ASSUME IInv, WayInv, At("decided")
               PROVE  /\ WrittenOnTop(op.our, op.other) => op.verdict = "Less"
                      /\ WrittenOnTop(op.other, op.our) => op.verdict = "Greater"
    BY DEF AncestorsAreFound
  <2>1. op.our \in Cids /\ op.other \in Cids /\ TypeOK
    BY InFlight DEF At, IInv
  <2>2. /\ WrittenOnTop(op.our, op.other) => OnTop(Previous, op.our, op.other)
        /\ WrittenOnTop(op.other, op.our) => OnTop(Previous, op.other, op.our)
    BY <2>1, WrittenOnTopIsOnTop
  <2> QED
    BY <2>2 DEF WayInv, FoundOnTop
<1> QED
  BY <1>2, <1>3, Invariance, PTL
================================================================================
