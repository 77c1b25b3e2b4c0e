------------------------------ MODULE MerkleClock ------------------------------
(***************************************************************************)
(* The Merkle clock of the public file system: every stored revision names *)
(* the CIDs of the revisions it was made from (`previous`), and two        *)
(* revisions are ordered by looking for one in the history of the other    *)
(* (wnfs/src/public/node/node.rs, PublicNode::causal_compare).             *)
(*                                                                         *)
(* `prev` is always the function from the stored CIDs to their `previous`  *)
(* sets.  Nothing here is recursive through RECURSIVE, so that modules     *)
(* with proofs can use it.                                                 *)
(***************************************************************************)
EXTENDS Naturals, FiniteSets

(***************************************************************************)
(* The reference definition of history.  A set is closed when it holds the *)
(* predecessors of its members; the history of c is what lies in every     *)
(* closed set that holds c's predecessors.  History(prev, c) excludes c.   *)
(***************************************************************************)
Closed(prev, S) == \A c \in S : prev[c] \subseteq S

History(prev, c) ==
  {a \in DOMAIN prev :
     \A S \in SUBSET DOMAIN prev :
        prev[c] \subseteq S /\ Closed(prev, S) => a \in S}

(***************************************************************************)
(* next_previous_set: the predecessors of a frontier that were not visited *)
(* yet; the caller adds them to the visited set.                           *)
(***************************************************************************)
NextPreviousSet(prev, frontier, visited) ==
  (UNION {prev[c] : c \in frontier}) \ visited

(***************************************************************************)
(* The comparison run to its end, as a function of the two CIDs.  A round  *)
(* is one iteration of the loop of causal_compare: `ours` and `others` are *)
(* the two frontiers, `ourSeen` and `otherSeen` the visited sets, and      *)
(* `verdict` is "Open" until the loop returns.  The history is finite, so  *)
(* Cardinality(DOMAIN prev) + 1 rounds are enough.                         *)
(***************************************************************************)
FirstRound(prev, our, other) ==
  [ours |-> prev[our], others |-> prev[other],
   ourSeen |-> {}, otherSeen |-> {},
   verdict |-> IF our = other THEN "Equal" ELSE "Open"]

ProperPart(frontier, seen) == frontier # {} /\ frontier \subseteq seen

NextRound(prev, our, other, s) ==
  LET ours   == NextPreviousSet(prev, s.ours, s.ourSeen)
      others == NextPreviousSet(prev, s.others, s.otherSeen)
  IN IF s.verdict # "Open"   THEN s
     ELSE IF our \in s.others THEN [s EXCEPT !.verdict = "Less"]
     ELSE IF other \in s.ours THEN [s EXCEPT !.verdict = "Greater"]
     ELSE IF \/ ProperPart(s.ours, s.otherSeen)
             \/ ProperPart(s.others, s.ourSeen)
          THEN [s EXCEPT !.verdict = "None"]
     ELSE [ours |-> ours, others |-> others,
           ourSeen |-> s.ourSeen \cup ours,
           otherSeen |-> s.otherSeen \cup others,
           verdict |-> IF ours = {} /\ others = {} THEN "None" ELSE "Open"]

CausalCompare(prev, our, other) ==
  LET last == Cardinality(DOMAIN prev) + 1
      round[i \in 0..last] ==
        IF i = 0 THEN FirstRound(prev, our, other)
                 ELSE NextRound(prev, our, other, round[i - 1])
  IN round[last].verdict
================================================================================
