---------------------------- MODULE MCForkedHistory ----------------------------
EXTENDS PublicReconcile, TLC

(***************************************************************************)
(* A longer history to start from: a replica wrote four revisions after    *)
(* the first, another wrote one on top of the first.  It is reachable from *)
(* Init by Write, Store and Reopen; every replica holds some revision of   *)
(* it, as after a restart.                                                 *)
(*                                                                         *)
(* The branches have to be that long: only with them does the early return *)
(* of causal_compare ever give up on a revision of its own history, once   *)
(* the ends of both are merged.                                            *)
(***************************************************************************)
CONSTANTS r1, r2, w1, w2, w3, w4

Rev(previous, userland) == [previous |-> previous, userland |-> userland]

ForkedHistory ==
  << Rev({}, {}), Rev({1}, {w1}), Rev({2}, {w1, w2}), Rev({3}, {w1, w2, w3}),
     Rev({4}, {w1, w2, w3, w4}), Rev({1}, {w4}) >>

ForkedInit ==
  /\ blocks = ForkedHistory
  /\ \E at \in [Replicas -> Cids] : tree = [r \in Replicas |-> Loaded(at[r])]
  /\ op = Idle

ForkedSpec == ForkedInit /\ [][Next]_vars

(* No property of the run tells the replicas apart.                        *)
Symmetry == Permutations(Replicas)
================================================================================
