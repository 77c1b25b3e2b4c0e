----------------------------- MODULE ForestMap -----------------------------
(* What a private forest promises to those who write to it: a map from      *)
(* labels to the sets of CIDs that were put there, of which every device    *)
(* has a copy.  `PrivateForest` implements it with a HAMT.                  *)
CONSTANTS
  Devices,  \* who has a forest in memory
  Writes    \* the CIDs there are to put under labels, as pairs

VARIABLE map  \* map[d]: a function from some of the labels to sets of CIDs

At(m, l) == IF l \in DOMAIN m THEN m[l] ELSE {}

Init == map = [d \in Devices |-> <<>>]

(* Nothing that was put is replaced: CIDs add up under their label. *)
Put(d, l, c) ==
  map' = [map EXCEPT ![d] = [k \in DOMAIN @ \cup {l} |->
                                At(@, k) \cup IF k = l THEN {c} ELSE {}]]

Remove(d, l) ==
  map' = [map EXCEPT ![d] = [k \in DOMAIN @ \ {l} |-> @[k]]]

(* The join of two maps: what either side has. *)
Merge(d, e) ==
  map' = [map EXCEPT ![d] = [k \in DOMAIN @ \cup DOMAIN map[e] |->
                                At(@, k) \cup At(map[e], k)]]

(* A device starts over from what another one has stored. *)
Load(d, e) == map' = [map EXCEPT ![d] = map[e]]

Next ==
  \E d \in Devices :
    \/ \E w \in Writes : Put(d, w[1], w[2]) \/ Remove(d, w[1])
    \/ \E e \in Devices : Merge(d, e) \/ Load(d, e)

Spec == Init /\ [][Next]_map
=============================================================================
