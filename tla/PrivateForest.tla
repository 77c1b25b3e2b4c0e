--------------------------- MODULE PrivateForest ---------------------------
(* `HamtForest`: devices write CIDs of encrypted nodes under labels, each   *)
(* to a HAMT of its own, store it, load what another one stored, and merge. *)
EXTENDS Hamt

CONSTANTS
  Devices,  \* who has a forest in memory
  Writes    \* the CIDs of encrypted nodes there are to put under labels,
            \* as pairs of the digest of an accumulated name and a CID

Labels == {w[1] : w \in Writes}

ASSUME LabelsAreDigests ==
  \A k, l \in Labels : /\ k \in Seq(Nat) /\ k # <<>>
                       /\ Len(k) = Len(l)

ASSUME WritesArePairs == \A w \in Writes : w = <<w[1], w[2]>>

VARIABLE forest  \* forest[d]: the root node in the `Arc<HamtForest>` of d

-----------------------------------------------------------------------------
(* The operations. *)

New == EmptyTree

Extended(t, l, c) ==
  LET u == GetMut(t, l)
      s == SlotOf(t, l)
      b == Bucket(t, s)
  IN IF Position(b, l) # {}
     THEN WithBucket(u, s, [i \in DOMAIN b |->
                              IF i \in Position(b, l)
                              THEN [key |-> l, value |-> b[i].value \cup {c}]
                              ELSE b[i]])
     ELSE SetValue(u, l, {c})

PutEncrypted(d, l, c) ==
  forest' = [forest EXCEPT ![d] = Extended(@, l, c)]

GetEncrypted(d, l) == UNION GetValue(forest[d], l)

RemoveEncrypted(d, l) ==
  forest' = [forest EXCEPT ![d] = RemoveValue(@, l)]

(* `store` leaves the CIDs of the nodes in their cells. *)
Store(d) == forest' = [forest EXCEPT ![d] = Stored(@)]

(* d loads what e has stored and not changed since. *)
Load(d, e) ==
  /\ \A p \in DOMAIN forest[e].cells : p # <<>> => forest[e].cells[p] # {}
  /\ forest' = [forest EXCEPT ![d] = Loaded(Cid(forest[e])[<<>>])]

Merge(d, e) == forest' = [forest EXCEPT ![d] = Merged(@, forest[e])]

Init == forest = [d \in Devices |-> New]

Next ==
  \E d \in Devices :
    \/ \E w \in Writes : PutEncrypted(d, w[1], w[2])
    \/ \E l \in Labels : RemoveEncrypted(d, l)
    \/ Store(d)
    \/ \E e \in Devices : Load(d, e) \/ Merge(d, e)

Spec == Init /\ [][Next]_forest

-----------------------------------------------------------------------------
(* Properties. *)

(* Nodes hang together, and a node's buckets are neither empty nor too full *)
(* and sorted by digest, with pairs that belong where they are.             *)
TypeOK ==
  \A d \in Devices :
    LET t == forest[d]
    IN /\ <<>> \in DOMAIN t.cells
       /\ \A p \in (DOMAIN t.cells \cup DOMAIN t.slots) \ {<<>>} :
            Front(p) \in DOMAIN t.cells
       /\ DOMAIN t.cells \cap DOMAIN t.slots = {}
       /\ \A s \in DOMAIN t.slots :
            LET b == t.slots[s]
            IN /\ Len(b) \in 1 .. BucketSize
               /\ \A i \in DOMAIN b : /\ b[i].key \in Labels
                                      /\ IsPrefix(s, b[i].key)
                                      /\ {b[i].key} \X b[i].value \subseteq Writes
               /\ \A i, j \in DOMAIN b : i < j => Before(b[i].key, b[j].key)

(* Two forests with the same CIDs under the same labels have the same       *)
(* nodes and buckets, and so the same root CID, whatever puts, removals and *)
(* merges led there.  This is what `canonicalize` is for.                   *)
EqualMapsEqualRoots ==
  \A d, e \in Devices :
    ToMap(forest[d]) = ToMap(forest[e]) =>
      /\ DOMAIN forest[d].cells = DOMAIN forest[e].cells
      /\ forest[d].slots = forest[e].slots

(* `diff` reports each label whose CIDs differ, with the CIDs of both       *)
(* sides, also where one side has a bucket and the other a node, and where  *)
(* it skips nodes because their CIDs are equal.                             *)
DiffIsExact ==
  \A d, e \in Devices :
    Diff(forest[d], forest[e]) =
      PairChanges(Pairs(forest[d]), Pairs(forest[e]))

(* The shape of the tree is not visible: what devices see of their forests  *)
(* is what a map would show, and merging joins them.                        *)
ForestMapSpec == INSTANCE ForestMap
                   WITH map <- [d \in Devices |->
                                  [l \in DOMAIN ToMap(forest[d]) |->
                                     GetEncrypted(d, l)]]

ImplementsForestMap == ForestMapSpec!Spec
=============================================================================
