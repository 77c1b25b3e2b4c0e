--------------------------------- MODULE Share ---------------------------------
(***************************************************************************)
(* Sharing access to private nodes (wnfs/src/private/share.rs): a sharer   *)
(* encrypts an access key for each exchange key of a recipient and puts it *)
(* into the private forest, under a label made of the key and a counter.   *)
(* The recipient's devices have copies of that forest, of whatever age,    *)
(* and go through the counters.                                            *)
(*                                                                         *)
(* A device stands for its exchange key, and its number for the place of   *)
(* its name in the exchange root.  An encrypted access key stands for its  *)
(* CID: encrypting one again gives a CID that leads to the same.           *)
(***************************************************************************)
EXTENDS Naturals, FiniteSets, Sequences

CONSTANTS
  Sharers,     \* devices of the sharer, each with a forest
  Recipients,  \* devices of the recipient, each with a copy of the forest
  Nodes,       \* private nodes to share
  Limits,      \* limits the counter is searched with
  MaxCount,    \* bound: how many counters a sharer's device uses
  MaxShared    \* bound: how much is shared, with a device at a counter

ASSUME ShareAssumption ==
  /\ Recipients \subseteq Nat
  /\ Limits # {} /\ Limits \subseteq Nat \ {0}
  /\ MaxCount \in Nat

VARIABLES
  exchange,  \* the exchange roots there have been: the devices with a key
  forest,    \* device |-> refs of nodes, and encrypted access keys
  keys,      \* nodes with an access key
  count,     \* sharer |-> the counter it shares with next
  next,      \* recipient |-> the counter it looks from
  found,     \* recipient |-> the counter the last search gave, if any
  received,  \* recipient |-> the nodes it got
  shared     \* history: what was shared with whom, at which counter

sharing   == <<exchange, keys, count, shared>>
receiving == <<next, found, received>>
vars == <<sharing, forest, receiving>>

--------------------------------------------------------------------------------
NodeRef(n) == [type |-> "node", node |-> n]

(* Slip: the counter is left out.                                          *)
ShareNameOfKey(recipient, n) == <<recipient, 0>>

(* create_share_name; there is one sharer, who has one root DID.           *)
ShareName(recipient, n) == <<recipient, n>>

AccessKey(label, recipient, n) ==
  [type |-> "key", label |-> label, to |-> recipient, node |-> n]

(* get_encrypted of a label                                                *)
KeysAt(f, label) == {e \in f : e.type = "key" /\ e.label = label}

Has(f, recipient, n) == KeysAt(f, ShareName(recipient, n)) # {}

(* Slip: a search that ends at its limit found nothing.                    *)
LatestBelowLimit(f, recipient, start, limit) ==
  LET gaps == {n \in start .. start + limit - 1 : ~Has(f, recipient, n)}
  IN {n - 1 : n \in {g \in gaps \ {start} : \A h \in gaps : g <= h}}

(* find_latest_share_counter: the one before the first that is not there,  *)
(* or the last one within the limit.                                       *)
FindLatest(f, recipient, start, limit) ==
  LET gaps == {n \in start .. start + limit - 1 : ~Has(f, recipient, n)}
  IN IF gaps = {} THEN {start + limit - 1}
     ELSE {n - 1 : n \in {g \in gaps \ {start} : \A h \in gaps : g <= h}}

--------------------------------------------------------------------------------
Init ==
  /\ exchange = {{}}
  /\ forest = [a \in Sharers \cup Recipients |-> {}]
  /\ keys = {}
  /\ count = [s \in Sharers |-> 0]
  /\ next = [r \in Recipients |-> 0]
  /\ found = [r \in Recipients |-> {}]
  /\ received = [r \in Recipients |-> <<>>]
  /\ shared = {}

(* A device of the recipient puts its key where sharers look for it.       *)
AddExchangeKey(r) ==
  /\ exchange' = exchange \cup {root \cup {r} : root \in
                    {e \in exchange : \A f \in exchange : f \subseteq e}}
  /\ UNCHANGED <<keys, count, shared, forest, receiving>>

(* PrivateNode::store: the node gets an access key.  Bound: once.          *)
StoreNode(s, n) ==
  /\ n \notin keys
  /\ forest' = [forest EXCEPT ![s] = @ \cup {NodeRef(n)}]
  /\ keys' = keys \cup {n}
  /\ UNCHANGED <<exchange, count, shared, receiving>>

(* share, with the devices that the keys are put for one after the other.  *)
PutFor(s, n, devices) ==
  LET new == {AccessKey(ShareName(r, count[s]), r, n) : r \in devices}
  IN /\ forest' = [forest EXCEPT ![s] = @ \cup new]
     /\ shared' = shared \cup {[to |-> r, count |-> count[s], node |-> n] : r \in devices}
     /\ Cardinality(shared') <= MaxShared
     /\ UNCHANGED <<exchange, keys, receiving>>

(* The sharer may know an old exchange root.  Its next share has the next  *)
(* counter, as in the tests.                                               *)
DoShare(s, n) ==
  /\ n \in keys /\ count[s] < MaxCount
  /\ \E devices \in exchange : PutFor(s, n, devices)
  /\ count' = [count EXCEPT ![s] = @ + 1]

(* An error ends it after some of the devices; it is tried again, with     *)
(* this or another node.                                                   *)
ShareFails(s, n) ==
  /\ n \in keys /\ count[s] < MaxCount
  /\ \E devices \in exchange, last \in Recipients :
       PutFor(s, n, {r \in devices : r <= last})
  /\ UNCHANGED count

(* HamtForest::merge, with a forest of the sharer.                         *)
Sync(a, s) ==
  /\ forest' = [forest EXCEPT ![a] = @ \cup forest[s]]
  /\ UNCHANGED <<sharing, receiving>>

Find(r, limit) ==
  /\ found' = [found EXCEPT ![r] = FindLatest(forest[r], r, next[r], limit)]
  /\ UNCHANGED <<sharing, forest, next, received>>

(* receive_share takes the first of the CIDs, which are in no known order. *)
(* It fails when there is none, or the node is not in the forest.          *)
ReceiveShare(r) ==
  /\ \E n \in found[r] : next[r] <= n
  /\ \E e \in KeysAt(forest[r], ShareName(r, next[r])) :
       /\ e.to = r
       /\ NodeRef(e.node) \in forest[r]
       /\ received' = [received EXCEPT ![r] = Append(@, e.node)]
  /\ next' = [next EXCEPT ![r] = @ + 1]
  /\ UNCHANGED <<sharing, forest, found>>

Next ==
  \/ \E r \in Recipients : AddExchangeKey(r)
  \/ \E s \in Sharers, n \in Nodes :
       StoreNode(s, n) \/ DoShare(s, n) \/ ShareFails(s, n)
  \/ \E a \in Sharers \cup Recipients, s \in Sharers : Sync(a, s)
  \/ \E r \in Recipients, limit \in Limits : Find(r, limit)
  \/ \E r \in Recipients : ReceiveShare(r)

(* A device of the recipient merges in the sharer's forests now and then,  *)
(* looks for shares and takes those it found.                              *)
Spec ==
  /\ Init /\ [][Next]_vars
  /\ \A r \in Recipients :
       /\ \A s \in Sharers : WF_vars(Sync(r, s))
       /\ WF_vars(\E limit \in Limits : Find(r, limit))
       /\ WF_vars(ReceiveShare(r))

--------------------------------------------------------------------------------
(* What a device receives for a counter was shared with it at that counter *)
(* (two devices of the sharer may have used it), without any left out, and *)
(* whatever the search reports is there up to the counter it gives.        *)
SharesComeInOrder ==
  \A r \in Recipients :
    /\ next[r] = Len(received[r])
    /\ \A i \in 1 .. Len(received[r]) :
          [to |-> r, count |-> i - 1, node |-> received[r][i]] \in shared
    /\ \A n \in found[r] : \A m \in 0 .. n : Has(forest[r], r, m)

SharedAt(r, n) == \E h \in shared : h.to = r /\ h.count = n

(* Shares reach a device that is offline when they are made: with each     *)
(* counter up to n shared with it, it comes to receive n.  A counter that  *)
(* was not shared with it, because its key was not in the exchange root    *)
(* the sharer knew, hides those after it for good.                         *)
SharesArrive ==
  \A r \in Recipients, n \in 0 .. MaxCount - 1 :
    (\A m \in 0 .. n : SharedAt(r, m)) ~> Len(received[r]) > n
================================================================================
