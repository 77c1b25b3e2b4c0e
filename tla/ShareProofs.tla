------------------------------- MODULE ShareProofs -------------------------------
(***************************************************************************)
(* Shares come in order, for any devices, nodes, limits and bounds.        *)
(*                                                                         *)
(* The property alone says nothing of what lies in the forests, so it is   *)
(* not inductive.  `IInv` adds that each encrypted access key in a forest, *)
(* of whatever age, was shared at the counter of its label, and that what  *)
(* a device received is still in its forest: a search looks only from the  *)
(* next counter on.                                                        *)
(***************************************************************************)
EXTENDS Share, TLAPS

(* The keys in a forest are those that were shared, under their labels.    *)
KeysAreShared(f, shares) ==
  \A e \in f :
    e.type = "key" =>
      /\ e.node \in Nodes
      /\ e.label = ShareName(e.to, e.label[2])
      /\ [to |-> e.to, count |-> e.label[2], node |-> e.node] \in shares

HasUpTo(f, r, n) == \A m \in 0 .. n : Has(f, r, m)

TypeInv ==
  /\ forest = [a \in Sharers \cup Recipients |-> forest[a]]
  /\ keys \subseteq Nodes
  /\ count \in [Sharers -> Nat]
  /\ next \in [Recipients -> Nat]
  /\ found \in [Recipients -> SUBSET Nat]
  /\ received \in [Recipients -> Seq(Nodes)]

IInv ==
  /\ TypeInv
  /\ \A a \in Sharers \cup Recipients : KeysAreShared(forest[a], shared)
  /\ \A r \in Recipients : HasUpTo(forest[r], r, next[r] - 1)
  /\ SharesComeInOrder

--------------------------------------------------------------------------------
(* A forest only grows, so what it has it keeps.                           *)
LEMMA HasIsKept ==
  ASSUME NEW f, NEW g, f \subseteq g, NEW r, NEW n, Has(f, r, n)
  PROVE  Has(g, r, n)
BY DEF Has, KeysAt

(* What find_latest_share_counter reports is there, and so is everything   *)
(* from where the search started.                                          *)
LEMMA LatestIsThere ==
  ASSUME NEW f, NEW r, NEW start \in Nat, NEW limit \in Nat \ {0},
         NEW n \in FindLatest(f, r, start, limit)
  PROVE  n \in Nat /\ \A m \in start .. n : Has(f, r, m)
<1> DEFINE gaps == {m \in start .. start + limit - 1 : ~Has(f, r, m)}
<1>1. CASE gaps = {}
  <2>1. n = start + limit - 1
    BY <1>1 DEF FindLatest
  <2> QED
    BY <2>1, <1>1
<1>2. CASE gaps # {}
  <2>1. PICK g \in gaps \ {start} : n = g - 1 /\ \A h \in gaps : g <= h
    BY <1>2 DEF FindLatest
  <2>2. g \in start + 1 .. start + limit - 1
    BY <2>1
  <2>3. ASSUME NEW m \in start .. n PROVE Has(f, r, m)
    <3>1. m \in start .. start + limit - 1 /\ m < g
      BY <2>1, <2>2
    <3> QED
      BY <3>1, <2>1, <2>2
  <2> QED
    BY <2>1, <2>2, <2>3
<1> QED
  BY <1>1, <1>2

--------------------------------------------------------------------------------
LEMMA InitIInv == Init => IInv
BY DEF Init, IInv, TypeInv, KeysAreShared, HasUpTo, SharesComeInOrder

(* Whatever adds shared keys to forests, and leaves devices of the         *)
(* recipient as they are, keeps the invariant.                             *)
LEMMA GrowthKeepsIInv ==
  ASSUME IInv, TypeInv', UNCHANGED receiving,
         shared \subseteq shared',
         \A a \in Sharers \cup Recipients :
           forest[a] \subseteq forest'[a] /\ KeysAreShared(forest'[a], shared')
  PROVE  IInv'
<1>1. ASSUME NEW r \in Recipients, NEW n, Has(forest[r], r, n)
      PROVE  Has(forest'[r], r, n)
  BY <1>1, HasIsKept
<1>2. \A r \in Recipients : HasUpTo(forest[r], r, next[r] - 1)'
  BY <1>1 DEF IInv, HasUpTo, receiving
<1>3. ASSUME NEW r \in Recipients
      PROVE  /\ (next[r] = Len(received[r]))'
             /\ \A i \in 1 .. Len(received'[r]) :
                  [to |-> r, count |-> i - 1, node |-> received'[r][i]] \in shared'
             /\ \A n \in found'[r] : \A m \in 0 .. n : Has(forest'[r], r, m)
  BY <1>1, <1>3 DEF IInv, SharesComeInOrder, receiving
<1> QED
  BY <1>2, <1>3 DEF IInv, SharesComeInOrder

LEMMA PutForKeepsIInv ==
  ASSUME IInv, NEW s \in Sharers, NEW n \in Nodes, NEW devices,
         PutFor(s, n, devices), count' \in [Sharers -> Nat]
  PROVE  IInv'
<1> DEFINE new == {AccessKey(ShareName(r, count[s]), r, n) : r \in devices}
<1>1. /\ forest' = [forest EXCEPT ![s] = @ \cup new]
      /\ shared' = shared \cup {[to |-> r, count |-> count[s], node |-> n] : r \in devices}
      /\ UNCHANGED <<exchange, keys, receiving>>
  BY DEF PutFor
<1>2. KeysAreShared(new, shared')
  BY <1>1 DEF KeysAreShared, AccessKey, ShareName
<1> HIDE DEF new
<1>3. forest'[s] = forest[s] \cup new
      /\ \A a \in Sharers \cup Recipients : a # s => forest'[a] = forest[a]
  BY <1>1 DEF IInv, TypeInv
<1>4. TypeInv'
  BY <1>1 DEF IInv, TypeInv, receiving
<1>5. \A a \in Sharers \cup Recipients : KeysAreShared(forest'[a], shared')
  BY <1>1, <1>2, <1>3 DEF IInv, KeysAreShared
<1> QED
  BY <1>1, <1>3, <1>4, <1>5, GrowthKeepsIInv

LEMMA ReceiveKeepsIInv ==
  ASSUME IInv, NEW r \in Recipients, ReceiveShare(r)
  PROVE  IInv'
<1>1. PICK n \in found[r] : next[r] <= n
  BY DEF ReceiveShare
<1>2. PICK e \in KeysAt(forest[r], ShareName(r, next[r])) :
        e.to = r /\ received' = [received EXCEPT ![r] = Append(@, e.node)]
  BY DEF ReceiveShare
<1>3. /\ next' = [next EXCEPT ![r] = @ + 1]
      /\ UNCHANGED <<sharing, forest, found>>
  BY DEF ReceiveShare
<1>4. e.node \in Nodes /\ [to |-> r, count |-> next[r], node |-> e.node] \in shared
  BY <1>2 DEF IInv, KeysAt, KeysAreShared, ShareName
<1>5. /\ next[r] \in Nat /\ next'[r] = next[r] + 1
      /\ received[r] \in Seq(Nodes) /\ received'[r] = Append(received[r], e.node)
      /\ \A q \in Recipients : q # r => next'[q] = next[q] /\ received'[q] = received[q]
  BY <1>2, <1>3 DEF IInv, TypeInv
<1>6. TypeInv'
  BY <1>2, <1>3, <1>4, <1>5 DEF IInv, TypeInv, sharing
<1>7. \A a \in Sharers \cup Recipients : KeysAreShared(forest'[a], shared')
  BY <1>3 DEF IInv, KeysAreShared, sharing
<1>8. ASSUME NEW q \in Recipients PROVE HasUpTo(forest[q], q, next[q] - 1)'
  <2>1. CASE q = r
    <3>1. \A m \in 0 .. next[r] - 1 : Has(forest[r], r, m)
      BY DEF IInv, HasUpTo
    <3>2. Has(forest[r], r, next[r])
      BY <1>2 DEF Has
    <3>3. next'[r] - 1 = next[r] /\ forest'[r] = forest[r]
      BY <1>3, <1>5
    <3>4. ASSUME NEW m \in 0 .. next[r] PROVE Has(forest[r], r, m)
      <4>1. m \in 0 .. next[r] - 1 \/ m = next[r]
        BY <1>5
      <4> QED
        BY <4>1, <3>1, <3>2
    <3> QED
      BY <2>1, <3>3, <3>4 DEF HasUpTo
  <2>2. CASE q # r
    BY <2>2, <1>3, <1>5 DEF IInv, HasUpTo
  <2> QED
    BY <2>1, <2>2
<1>9. ASSUME NEW q \in Recipients
      PROVE  /\ (next[q] = Len(received[q]))'
             /\ \A i \in 1 .. Len(received'[q]) :
                  [to |-> q, count |-> i - 1, node |-> received'[q][i]] \in shared'
             /\ \A m \in found'[q] : \A k \in 0 .. m : Has(forest'[q], q, k)
  <2>1. CASE q = r
    <3>1. Len(received'[r]) = Len(received[r]) + 1 /\ next[r] = Len(received[r])
      BY <1>5, <1>4 DEF IInv, SharesComeInOrder
    <3>2. ASSUME NEW i \in 1 .. Len(received'[r])
          PROVE  [to |-> r, count |-> i - 1, node |-> received'[r][i]] \in shared
      <4>1. CASE i = Len(received[r]) + 1
        BY <4>1, <3>1, <1>4, <1>5
      <4>2. CASE i # Len(received[r]) + 1
        <5>1. i \in 1 .. Len(received[r]) /\ received'[r][i] = received[r][i]
          BY <4>2, <3>1, <1>4, <1>5
        <5> QED
          BY <5>1 DEF IInv, SharesComeInOrder
      <4> QED
        BY <4>1, <4>2
    <3>3. \A m \in found[r] : \A k \in 0 .. m : Has(forest[r], r, k)
      BY DEF IInv, SharesComeInOrder
    <3> QED
      BY <2>1, <3>1, <3>2, <3>3, <1>3, <1>5 DEF sharing
  <2>2. CASE q # r
    BY <2>2, <1>3, <1>5 DEF IInv, SharesComeInOrder, sharing
  <2> QED
    BY <2>1, <2>2
<1> QED
  BY <1>6, <1>7, <1>8, <1>9 DEF IInv, SharesComeInOrder

LEMMA FindKeepsIInv ==
  ASSUME IInv, NEW r \in Recipients, NEW limit \in Limits, Find(r, limit)
  PROVE  IInv'
<1> DEFINE latest == FindLatest(forest[r], r, next[r], limit)
<1>1. /\ found' = [found EXCEPT ![r] = latest]
      /\ UNCHANGED <<sharing, forest, next, received>>
  BY DEF Find
<1>2. next[r] \in Nat /\ limit \in Nat \ {0}
  BY ShareAssumption DEF IInv, TypeInv
<1>3. \A n \in latest : n \in Nat /\ \A m \in next[r] .. n : Has(forest[r], r, m)
  BY <1>2, LatestIsThere
<1>4. \A n \in latest : \A m \in 0 .. n : Has(forest[r], r, m)
  BY <1>2, <1>3 DEF IInv, HasUpTo
<1> HIDE DEF latest
<1>5. found'[r] = latest /\ \A q \in Recipients : q # r => found'[q] = found[q]
  BY <1>1 DEF IInv, TypeInv
<1>6. TypeInv'
  BY <1>1, <1>3 DEF IInv, TypeInv, sharing
<1>7. SharesComeInOrder'
  BY <1>1, <1>4, <1>5 DEF IInv, SharesComeInOrder, sharing
<1> QED
  BY <1>1, <1>6, <1>7 DEF IInv, KeysAreShared, HasUpTo, sharing

LEMMA StepKeepsIInv == IInv /\ [Next]_vars => IInv'
<1> SUFFICES ASSUME IInv, [Next]_vars PROVE IInv'
  OBVIOUS
<1>1. ASSUME NEW r \in Recipients, AddExchangeKey(r) PROVE IInv'
  BY <1>1 DEF AddExchangeKey, IInv, TypeInv, KeysAreShared, HasUpTo, SharesComeInOrder,
     receiving
<1>2. ASSUME NEW s \in Sharers, NEW n \in Nodes, StoreNode(s, n) PROVE IInv'
  <2>1. TypeInv'
    BY <1>2 DEF StoreNode, IInv, TypeInv, receiving
  <2>2. \A a \in Sharers \cup Recipients :
          forest[a] \subseteq forest'[a] /\ forest'[a] \subseteq forest[a] \cup {NodeRef(n)}
    BY <1>2 DEF StoreNode, IInv, TypeInv
  <2>3. \A a \in Sharers \cup Recipients : KeysAreShared(forest'[a], shared')
    BY <1>2, <2>2 DEF StoreNode, IInv, KeysAreShared, NodeRef
  <2> QED
    BY <1>2, <2>1, <2>2, <2>3, GrowthKeepsIInv DEF StoreNode
<1>3. ASSUME NEW s \in Sharers, NEW n \in Nodes, DoShare(s, n) PROVE IInv'
  <2>1. count' \in [Sharers -> Nat]
    BY <1>3 DEF DoShare, IInv, TypeInv
  <2> QED
    BY <1>3, <2>1, PutForKeepsIInv DEF DoShare
<1>4. ASSUME NEW s \in Sharers, NEW n \in Nodes, ShareFails(s, n) PROVE IInv'
  <2>1. count' \in [Sharers -> Nat]
    BY <1>4 DEF ShareFails, IInv, TypeInv
  <2> QED
    BY <1>4, <2>1, PutForKeepsIInv DEF ShareFails
<1>5. ASSUME NEW a \in Sharers \cup Recipients, NEW s \in Sharers, Sync(a, s) PROVE IInv'
  <2>1. TypeInv'
    BY <1>5 DEF Sync, IInv, TypeInv, sharing, receiving
  <2>2. forest'[a] = forest[a] \cup forest[s]
        /\ \A b \in Sharers \cup Recipients : b # a => forest'[b] = forest[b]
    BY <1>5 DEF Sync, IInv, TypeInv
  <2>3. \A b \in Sharers \cup Recipients : KeysAreShared(forest'[b], shared')
    BY <1>5, <2>2 DEF Sync, IInv, KeysAreShared, sharing
  <2> QED
    BY <1>5, <2>1, <2>2, <2>3, GrowthKeepsIInv DEF Sync, sharing
<1>6. ASSUME NEW r \in Recipients, NEW limit \in Limits, Find(r, limit) PROVE IInv'
  BY <1>6, FindKeepsIInv
<1>7. ASSUME NEW r \in Recipients, ReceiveShare(r) PROVE IInv'
  BY <1>7, ReceiveKeepsIInv
<1>8. CASE UNCHANGED vars
  BY <1>8 DEF vars, IInv, TypeInv, KeysAreShared, HasUpTo, SharesComeInOrder, sharing,
     receiving
<1> QED
  BY <1>1, <1>2, <1>3, <1>4, <1>5, <1>6, <1>7, <1>8 DEF Next

(* A device of the recipient receives, for each counter in turn, what was  *)
(* shared with it at that counter, with none left out: with forests of any *)
(* age, shares that ended half way and devices of the sharer that used the *)
(* same counters (share, receive_share, find_latest_share_counter).        *)
THEOREM SharesAreInOrder == Spec => []SharesComeInOrder
<1>1. Spec => []IInv
  BY InitIInv, StepKeepsIInv, PTL DEF Spec
<1>2. IInv => SharesComeInOrder
  BY DEF IInv
<1> QED
  BY <1>1, <1>2, PTL
==================================================================================
