----------------------------- MODULE MCPrivateTree -----------------------------
EXTENDS PrivateTree

CONSTANTS x, y

(* A directory with one entry, and an entry that takes a file but not the  *)
(* directory with its entry.                                               *)
FolderAndFile == << <<>>, <<x>>, <<y>>, <<x, y>> >>

(* Files of the root.                                                      *)
TwoFiles == << <<>>, <<x>>, <<y>> >>

(* What is moved and copied has no entries.                                *)
Edits ==
  [write |-> Range(Tail(FolderAndFile)), open |-> {<<y>>}, mkdir |-> {<<x>>},
   rm |-> Range(Tail(FolderAndFile)), mv |-> {<<x, y>>}, cp |-> {<<x, y>>}]

Merges == [write |-> {<<x>>, <<y>>}, reconcile |-> {<<>>}]

EitherDevice == Permutations(Devices)
================================================================================
