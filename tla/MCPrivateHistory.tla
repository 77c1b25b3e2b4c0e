---------------------------- MODULE MCPrivateHistory ----------------------------
EXTENDS PrivateHistory

CONSTANTS x, y

(* A file in a directory, and one next to it.                              *)
Docs == << <<>>, <<x>>, <<x, y>>, <<y>> >>

Writes == [write |-> {<<x, y>>, <<y>>}, below |-> {<<x>>}]
================================================================================
