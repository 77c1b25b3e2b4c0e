------------------------------- MODULE MCRootTree -------------------------------
EXTENDS RootTree

CONSTANTS x, y

(* A private root, and one that is mounted where the first has an entry.   *)
Nested == << <<"private">>, <<"private", x>> >>

TwoFiles == << <<>>, <<x>>, <<y>> >>

Edited ==
  [mkdir |-> {<<"exchange", x>>},
   write |-> {<<"private", x>>, <<"private", x, y>>},
   rm    |-> {<<"private", x>>},
   mv    |-> {<<"private", x>>}, to |-> {<<"private", y>>},
   storeRoot |-> {<<"private", x>>}]
================================================================================
