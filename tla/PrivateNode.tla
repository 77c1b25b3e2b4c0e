------------------------------ MODULE PrivateNode ------------------------------
(***************************************************************************)
(* Private nodes and their revisions (wnfs/src/private/node, file.rs,      *)
(* directory.rs): headers on a ratchet, previous links with their distance *)
(* back, the search for unmerged heads and what merging them gives.        *)
(*                                                                         *)
(* Keys and names are symbolic.  A ratchet is the random id it started     *)
(* from and the number of steps since; `new` and key rotation draw inumber *)
(* and ratchet together, so one id stands for both.  Accumulating a name   *)
(* forgets the order of its segments, so a name is the set of the ids on   *)
(* the way.  The accumulated revision name, and its hash, the label, then  *)
(* is the header.  A CID is that of a fresh ciphertext: a pair of a rank,  *)
(* the upper bits of the digest, and a number.  Header blocks are          *)
(* deterministic ciphertexts, which reads of a label skip: they are kept   *)
(* inside the node's block.  Metadata is left out.                         *)
(***************************************************************************)
EXTENDS Integers, SequencesExt

Header(id, rev, name) == [id |-> id, rev |-> rev, name |-> name]

AtRevision(header, rev) == Header(header.id, rev, header.name)

(* PrivateNodeHeader::new                                                  *)
NewHeader(parentName, id) == Header(id, 0, parentName \cup {id})

(* TemporalKey: the ratchet position.                                      *)
TemporalKey(header) == <<header.id, header.rev>>

Ref(header, cid) == [type |-> "ref", label |-> header, cid |-> cid]

Link(back, cid, key) == [back |-> back, cid |-> cid, key |-> key]

Node(type, header, previous, content, cid) ==
  [type |-> type, header |-> header, previous |-> previous,
   content |-> content, persisted_as |-> cid]

Block(node, entries) ==
  [type |-> node.type, header |-> node.header, previous |-> node.previous,
   content |-> node.content, entries |-> entries]

AsNode(block, cid) ==
  Node(block.type, block.header, block.previous, block.content, {cid})

CidLess(c, d) == c[1] < d[1] \/ (c[1] = d[1] /\ c[2] < d[2])

--------------------------------------------------------------------------------
(* A node that was stored begins a new revision, which is `ahead` of it.   *)
NextRevision(node, back, ahead) ==
  IF node.persisted_as = {} THEN node
  ELSE Node(node.type, AtRevision(node.header, node.header.rev + ahead),
            {Link(back, c, TemporalKey(node.header)) : c \in node.persisted_as},
            node.content, {})

(* Slip: the new revision keeps the position of the stored one.            *)
PrepareNextRevisionInPlace(node) == NextRevision(node, 1, 0)

(* Slip: the ratchet is advanced by the caller as well.                    *)
PrepareNextRevisionTwice(node) == NextRevision(node, 2, 2)

PrepareNextRevision(node) == NextRevision(node, 1, 1)

Farther(links, n) == {Link(l.back + n, l.cid, l.key) : l \in links}

(* Slip: the stored revision is taken for the one before.                  *)
PrepareNextMergeOneBack(node, cid, target) ==
  LET links == IF Cardinality(node.previous) > 1
               THEN Farther(node.previous, 1)
               ELSE {Link(1, cid, TemporalKey(node.header))}
  IN Node(node.type, target, links, node.content, {})

PrepareNextMerge(node, cid, target) ==
  LET diff == target.rev - node.header.rev
      links == IF Cardinality(node.previous) > 1
               THEN Farther(node.previous, diff)
               ELSE {Link(diff, cid, TemporalKey(node.header))}
  IN Node(node.type, target, links, node.content, {})

--------------------------------------------------------------------------------
(* Reading the forest.  F is the set of refs put into it, B maps CIDs to   *)
(* blocks.                                                                 *)

Multivalue(F, header) == {r.cid : r \in {s \in F : s.label = header}}

(* All there is along a ratchet, under one name.                           *)
Revisions(F, header) ==
  {r \in F : r.label.id = header.id /\ r.label.name = header.name}

(* has_by_hash along the ratchet: the first position nothing is stored at. *)
FreeRevision(F, header) ==
  LET used == {r.label.rev : r \in Revisions(F, header)}
  IN CHOOSE k \in header.rev .. header.rev + Cardinality(F) :
       k \notin used /\ header.rev .. k - 1 \subseteq used

FoundFrom(F, header) ==
  {r.cid : r \in {s \in Revisions(F, header) :
                    s.label.rev \in header.rev .. FreeRevision(F, header) - 1}}

(* The links that reach no further back than the search.                   *)
LinksWithin(B, c, start) ==
  {l \in B[c].previous : l.back <= B[c].header.rev - start}

(* The key of the revision a link points back to opens it.                 *)
Opens(B, c, l) ==
  l.key = TemporalKey(AtRevision(B[c].header, B[c].header.rev - l.back))

LinksOpen(F, B, header) ==
  \A c \in FoundFrom(F, header) :
    \A l \in LinksWithin(B, c, header.rev) : Opens(B, c, l)

(* Slip: the heads are what is at the last revision.                       *)
LastAreHeads(F, B, header) ==
  Multivalue(F, AtRevision(header, FreeRevision(F, header) - 1))

(* seek_unmerged_heads                                                     *)
UnmergedHeads(F, B, header) ==
  LET found == FoundFrom(F, header)
  IN found \ {l.cid : l \in UNION {LinksWithin(B, c, header.rev) : c \in found}}

(* search_latest_nodes: RatchetSeeker doubles its step until it passes the *)
(* last revision and then halves it, and lands where a scan would if the   *)
(* positions in use are contiguous.                                        *)
SeekLast(has, from) ==
  LET jump[step \in Nat \ {0}] ==
        IF ~has[from + step] THEN step ELSE jump[2 * step]
      halve[step \in 0 .. jump[1]] ==
        IF step = 0 THEN [k \in Nat |-> k]
        ELSE [k \in Nat |->
                halve[step \div 2][IF has[k + step] THEN k + step ELSE k]]
  IN halve[jump[1]][from]

LatestNodes(F, header) ==
  IF Multivalue(F, header) = {} THEN {}
  ELSE LET has == [k \in Nat |-> Multivalue(F, AtRevision(header, k)) # {}]
       IN Multivalue(F, AtRevision(header, SeekLast(has, header.rev)))

--------------------------------------------------------------------------------
(* Merging.  A link or ref loads when the forest has it and its node was   *)
(* stored under the name its directory mounts it at.                       *)

Loads(F, B, ref, parentName) ==
  ref \in F /\ B[ref.cid].header.name = parentName \cup {B[ref.cid].header.id}

(* PrivateDirectory::merge, of one entry: a directory before a file, then  *)
(* the lower CID.                                                          *)
WinningEntry(B, our, other) ==
  IF B[our.cid].type # B[other.cid].type
  THEN IF B[our.cid].type = "dir" THEN our ELSE other
  ELSE IF CidLess(other.cid, our.cid) THEN other ELSE our

(* Slip: only the entries both have.                                       *)
SharedEntries(B, ours, others) ==
  [n \in DOMAIN ours \cap DOMAIN others |->
     WinningEntry(B, ours[n], others[n])]

MergedEntries(B, ours, others) ==
  [n \in DOMAIN ours \cup DOMAIN others |->
     IF n \notin DOMAIN ours THEN others[n]
     ELSE IF n \notin DOMAIN others THEN ours[n]
     ELSE WinningEntry(B, ours[n], others[n])]

EntriesLoad(F, B, name, ours, others) ==
  \A n \in DOMAIN ours \cap DOMAIN others :
    ours[n].cid # others[n].cid =>
      Loads(F, B, ours[n], name) /\ Loads(F, B, others[n], name)

(* Slip: the ratchets are compared the other way around.                   *)
MergedPreviousSwapped(our, other, otherCid, target) ==
  LET diff == other.header.rev - target.rev
  IN our.previous \cup
       IF Cardinality(our.previous) > 1
       THEN Farther(other.previous, diff)
       ELSE {Link(diff, otherCid, TemporalKey(other.header))}

MergedPrevious(our, other, otherCid, target) ==
  LET diff == target.rev - other.header.rev
  IN our.previous \cup
       IF Cardinality(our.previous) > 1
       THEN Farther(other.previous, diff)
       ELSE {Link(diff, otherCid, TemporalKey(other.header))}

(* The lower digest of the contents wins; equal ones differ in metadata.   *)
MergedContent(our, other) ==
  IF our.content <= other.content THEN our.content ELSE other.content

(* PrivateFile::merge and PrivateDirectory::merge, of our node, which was  *)
(* stored as ourCid before any merging, with a stored one.  Nodes of       *)
(* another kind than ours are passed over.                                 *)
MergedWith(B, our, ourCid, otherCid, target) ==
  LET other == B[otherCid]
      ready == PrepareNextMerge(our.node, ourCid, target)
  IN IF other.type # our.node.type THEN our
     ELSE [node |-> Node(ready.type, target,
                         MergedPrevious(ready, other, otherCid, target),
                         MergedContent(ready, other), {}),
           entries |-> MergedEntries(B, our.entries, other.entries)]

LowestCid(S) == CHOOSE c \in S : \A d \in S \ {c} : CidLess(c, d)

AsStored(B, c) == [node |-> AsNode(B[c], c), entries |-> B[c].entries]

(* PrivateNode::merge, from the lowest CID up.                             *)
MergeOf(B, heads, target) ==
  LET first == LowestCid(heads)
      merged[n \in 0 .. Cardinality(heads) - 1] ==
        IF n = 0 THEN [our |-> AsStored(B, first), left |-> heads \ {first}]
        ELSE LET so == merged[n - 1]
                 c  == LowestCid(so.left)
             IN [our  |-> MergedWith(B, so.our, first, c, target),
                 left |-> so.left \ {c}]
  IN merged[Cardinality(heads) - 1].our

(* search_latest_reconciled of a node with this header, when something is  *)
(* stored at its revision: the node and its entries, or nothing where it   *)
(* fails.                                                                  *)
Reconciled(F, B, header) ==
  LET heads  == UnmergedHeads(F, B, header)
      target == AtRevision(header, FreeRevision(F, header))
  IN IF ~LinksOpen(F, B, header) THEN {}
     ELSE IF Cardinality(heads) = 1 THEN
            {AsStored(B, c) : c \in heads}
     ELSE IF \A c, d \in heads :
               EntriesLoad(F, B, header.name, B[c].entries, B[d].entries)
          THEN {MergeOf(B, heads, target)} ELSE {}
================================================================================
