-------------------------------- MODULE Hamt --------------------------------
(* The hash array mapped trie of wnfs-hamt, as operators on its trees.      *)
(*                                                                          *)
(* A key is identified with its digest, a sequence of nibbles.  A tree is   *)
(* laid out flat: its nodes and the value buckets of its nodes are known by *)
(* the nibbles that lead to them, so that the pointer a node at p has for   *)
(* nibble i is a link if p \o <<i>> is a node and a bucket if it is a slot. *)
(*                                                                          *)
(* A CID is the block it is the hash of, that is, the nodes and slots below *)
(* a node.  Digests within them make blocks of different places different.  *)
EXTENDS Integers, FiniteSets, SequencesExt, FiniteSetsExt

CONSTANT BucketSize  \* HAMT_VALUES_BUCKET_SIZE

ASSUME BucketSizeIsPositive == BucketSize \in Nat \ {0}

(* Digests are compared as byte arrays. *)
Before(k, l) ==
  \E i \in DOMAIN k : k[i] < l[i] /\ \A j \in 1 .. i - 1 : k[j] = l[j]

Upto(k, d) == SubSeq(k, 1, d)

(* `cells[p]` is the `persisted_as` of the node at p, empty or with a CID;  *)
(* `slots[s]` the bucket of key-value pairs at s.                           *)
EmptyTree == [cells |-> [p \in {<<>>} |-> {}], slots |-> <<>>]

-----------------------------------------------------------------------------
(* Looking up. *)

(* How many links lead along the digest k. *)
Depth(t, k) ==
  CHOOSE d \in 0 .. Len(k) - 1 :
    /\ \A i \in 0 .. d : Upto(k, i) \in DOMAIN t.cells
    /\ Upto(k, d + 1) \notin DOMAIN t.cells

SlotOf(t, k) == Upto(k, Depth(t, k) + 1)

Bucket(t, s) == IF s \in DOMAIN t.slots THEN t.slots[s] ELSE <<>>

Position(b, k) == {i \in DOMAIN b : b[i].key = k}

(* `get_value`: no value, or the one of the pair with this digest. *)
GetValue(t, k) ==
  LET b == Bucket(t, SlotOf(t, k)) IN {b[i].value : i \in Position(b, k)}

(* `flat_map` and `to_hashmap` *)
Pairs(t) == UNION {Range(t.slots[s]) : s \in DOMAIN t.slots}

ToMap(t) ==
  [k \in {pair.key : pair \in Pairs(t)} |->
      (CHOOSE pair \in Pairs(t) : pair.key = k).value]

-----------------------------------------------------------------------------
(* Setting and removing. *)

(* `Arc::make_mut` and a new cell, for the first n nodes on the way to k. *)
Reset(t, k, n) ==
  [cells |-> [p \in DOMAIN t.cells |->
                IF Len(p) < n /\ IsPrefix(p, k) THEN {} ELSE t.cells[p]],
   slots |-> t.slots]

WithBucket(t, s, b) ==
  [cells |-> t.cells,
   slots |-> [r \in DOMAIN t.slots \cup {s} |-> IF r = s THEN b ELSE t.slots[r]]]

Without(t, s) ==
  [cells |-> t.cells, slots |-> [r \in DOMAIN t.slots \ {s} |-> t.slots[r]]]

Sorted(pairs) ==
  CHOOSE b \in [1 .. Cardinality(pairs) -> pairs] :
    \A i, j \in DOMAIN b : i < j => Before(b[i].key, b[j].key)

(* What inserting more pairs than fit into one bucket leaves below s: links *)
(* for as long as the digests agree, then a bucket for each next nibble.    *)
Split(t, s, pairs) ==
  LET some   == (CHOOSE pair \in pairs : TRUE).key
      agreed == CHOOSE d \in Len(s) .. Len(some) - 1 :
                  /\ \A pair \in pairs : Upto(pair.key, d) = Upto(some, d)
                  /\ \E pair \in pairs : pair.key[d + 1] # some[d + 1]
      parts  == {Upto(pair.key, agreed + 1) : pair \in pairs}
      links  == {Upto(some, d) : d \in Len(s) .. agreed}
  IN [cells |-> [p \in DOMAIN t.cells \cup links |->
                   IF p \in links THEN {} ELSE t.cells[p]],
      slots |-> [r \in (DOMAIN t.slots \ {s}) \cup parts |->
                   IF r \in parts
                   THEN Sorted({pair \in pairs : IsPrefix(r, pair.key)})
                   ELSE t.slots[r]]]

(* slip: to the end of the bucket *)
InsertedLast(b, pair) == Append(b, pair)

(* Before the first pair with a greater digest. *)
Inserted(b, pair) ==
  InsertAt(b, 1 + Cardinality({i \in DOMAIN b : Before(b[i].key, pair.key)}),
           pair)

SetValue(t, k, v) ==
  LET s    == SlotOf(t, k)
      b    == Bucket(t, s)
      pair == [key |-> k, value |-> v]
      u    == Reset(t, k, Len(s))
  IN IF Position(b, k) # {}
     THEN WithBucket(u, s, [i \in DOMAIN b |->
                              IF i \in Position(b, k) THEN pair ELSE b[i]])
     ELSE IF Len(b) < BucketSize
     THEN WithBucket(u, s, Inserted(b, pair))
     ELSE Split(u, s, Range(b) \cup {pair})

(* `get_mut`: the cells on the way are reset, the last one only if the bit  *)
(* was set; the caller may write to the value it gets.                      *)
GetMut(t, k) ==
  LET s == SlotOf(t, k)
  IN Reset(t, k, IF s \in DOMAIN t.slots THEN Len(s) ELSE Len(s) - 1)

(* slip: only a node with nothing in it is taken back *)
CanonicalizeEmpty(t, p) ==
  IF \E q \in DOMAIN t.cells \cup DOMAIN t.slots : IsStrictPrefix(p, q)
  THEN t
  ELSE [t EXCEPT !.cells = [q \in DOMAIN @ \ {p} |-> @[q]]]

(* `Pointer::canonicalize` of the link to p, in place of that link: a node  *)
(* with nothing in it is no pointer, one whose pairs fit into one bucket is *)
(* that bucket.  A node of links stays.                                     *)
Canonicalize(t, p) ==
  LET Below(q) == IsStrictPrefix(p, q)
      links    == {q \in DOMAIN t.cells : Below(q)}
      buckets  == {s \in DOMAIN t.slots : Below(s)}
      pairs    == UNION {Range(t.slots[s]) : s \in buckets}
      unlinked == [cells |-> [q \in DOMAIN t.cells \ {p} |-> t.cells[q]],
                   slots |-> [s \in DOMAIN t.slots \ buckets |-> t.slots[s]]]
  IN IF links # {} \/ Cardinality(pairs) > BucketSize THEN t
     ELSE IF pairs = {} THEN unlinked
     ELSE WithBucket(unlinked, p, Sorted(pairs))

RemoveValue(t, k) ==
  LET s    == SlotOf(t, k)
      b    == Bucket(t, s)
      u    == GetMut(t, k)
      rest == IF Len(b) = 1
              THEN Without(u, s)
              ELSE WithBucket(u, s, RemoveAt(b, CHOOSE i \in Position(b, k) : TRUE))
      Up[i \in 0 .. Len(s) - 1] ==
        IF i = 0 THEN rest ELSE Canonicalize(Up[i - 1], Upto(k, Len(s) - i))
  IN IF Position(b, k) = {} THEN u ELSE Up[Len(s) - 1]

-----------------------------------------------------------------------------
(* Storing and loading. *)

(* The CID each node has or gets: a filled cell is trusted. *)
Cid(t) ==
  LET cid[p \in DOMAIN t.cells] ==
        LET kids == {q \in DOMAIN t.cells :
                       Len(q) = Len(p) + 1 /\ IsPrefix(p, q)}
            own  == {s \in DOMAIN t.slots :
                       Len(s) = Len(p) + 1 /\ IsPrefix(p, s)}
        IN IF t.cells[p] # {}
           THEN CHOOSE c \in t.cells[p] : TRUE
           ELSE [nodes |-> {p} \cup UNION {cid[q].nodes : q \in kids},
                 slots |-> {<<s, t.slots[s]>> : s \in own}
                             \cup UNION {cid[q].slots : q \in kids}]
  IN cid

(* `to_serializable` of a HAMT: all but its root become blocks. *)
Stored(t) ==
  [cells |-> [p \in DOMAIN t.cells |->
                IF p = <<>> THEN t.cells[p] ELSE {Cid(t)[p]}],
   slots |-> t.slots]

(* A HAMT decoded from its block c, whose links know their CIDs. *)
Loaded(c) ==
  LET slots == [s \in {x[1] : x \in c.slots} |->
                   (CHOOSE x \in c.slots : x[1] = s)[2]]
      Below(p) == [nodes |-> {q \in c.nodes : IsPrefix(p, q)},
                   slots |-> {x \in c.slots : IsPrefix(p, x[1])}]
  IN [cells |-> [p \in c.nodes |-> IF p = <<>> THEN {} ELSE {Below(p)}],
      slots |-> slots]

-----------------------------------------------------------------------------
(* Comparing and merging. *)

(* What a tree has for a nibble, after the buckets above it were opened as  *)
(* `create_node_from_pairs` does to compare a bucket with a node.           *)
PairsBelow(t, p) == {pair \in Pairs(t) : IsPrefix(p, pair.key)}

(* slip: two nodes that were never stored pass for equal *)
SameCell(t, u, p) ==
  p \in DOMAIN t.cells \cap DOMAIN u.cells /\ t.cells[p] = u.cells[p]

SameCid(t, u, p) ==
  /\ p \in DOMAIN t.cells \cap DOMAIN u.cells
  /\ t.cells[p] # {}
  /\ t.cells[p] = u.cells[p]

Change(type, k, v, w) == [type |-> type, key |-> k, value1 |-> v, value2 |-> w]

(* The changes between two sets of pairs: `generate_add_or_remove_changes`  *)
(* when one of them is empty, and the comparison of two buckets.            *)
PairChanges(main, other) ==
  LET Keys(pairs) == {pair.key : pair \in pairs}
  IN {Change("Add", a.key, {a.value}, {}) :
        a \in {x \in main : x.key \notin Keys(other)}}
     \cup {Change("Remove", b.key, {b.value}, {}) :
             b \in {x \in other : x.key \notin Keys(main)}}
     \cup {Change("Modify", ab[1].key, {ab[1].value}, {ab[2].value}) :
             ab \in {x \in main \X other : /\ x[1].key = x[2].key
                                           /\ x[1].value # x[2].value}}

(* `diff_helper` at the nodes p and `pointers_diff` below it. *)
Diff(main, other) ==
  LET paths == {<<>>} \cup UNION {{Upto(pair.key, d) : d \in 0 .. Len(pair.key)} :
                                     pair \in Pairs(main) \cup Pairs(other)}
      changes[p \in paths] ==
        LET a == PairsBelow(main, p)
            b == PairsBelow(other, p)
        IN IF SameCid(main, other, p) THEN {}
           ELSE IF \/ p = <<>>
                   \/ /\ p \in DOMAIN main.cells \cup DOMAIN other.cells
                      /\ a # {} /\ b # {}
           THEN UNION {changes[q] : q \in {r \in paths :
                          Len(r) = Len(p) + 1 /\ IsPrefix(p, r)}}
           ELSE PairChanges(a, b)
  IN changes[<<>>]

(* slip: of two values, ours *)
MergedOurs(main, other) ==
  LET Step(change, t) ==
        SetValue(t, change.key, CHOOSE v \in change.value1 : TRUE)
  IN FoldSet(Step, main, Diff(main, other))

(* `merge` with the resolver of the forest, the union of both values: what  *)
(* only the other tree has is set, and what both have differently.          *)
Merged(main, other) ==
  LET changes == SetToSeq(Diff(main, other))
      Value(change) ==
        IF change.type = "Remove"
        THEN CHOOSE v \in change.value1 : TRUE
        ELSE UNION (GetValue(main, change.key) \cup GetValue(other, change.key))
      merge[i \in 0 .. Len(changes)] ==
        IF i = 0 THEN main
        ELSE IF changes[i].type = "Add" THEN merge[i - 1]
        ELSE SetValue(merge[i - 1], changes[i].key, Value(changes[i]))
  IN merge[Len(changes)]
=============================================================================
