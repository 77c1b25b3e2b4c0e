-------------------------- MODULE MCPrivateForest --------------------------
(* Digests of four bits: four labels agree in the first two, so that their  *)
(* bucket splits over two levels, and one leaves them after the first.  One *)
(* label has two CIDs, so that a value can differ between forests.          *)
EXTENDS PrivateForest

FourTogether == {<<0, 0, 0, 0>>, <<0, 0, 0, 1>>, <<0, 0, 1, 0>>,
                 <<0, 0, 1, 1>>}

FiveLabels == ((FourTogether \cup {<<0, 1, 0, 0>>}) \X {1})
                \cup {<<<<0, 0, 0, 0>>, 2>>}

Symmetry == Permutations(Devices)
=============================================================================
