------------------------------ MODULE MCWriteProofs ------------------------------
(* One writer may write below `a`, the other below `b` in `a`; a file below *)
(* `b` is in reach of both.                                                 *)
EXTENDS WriteProofs, TLC

CONSTANTS w1, w2, a, b, m

Name(base, segments) == [relative_to |-> base, segments |-> segments]

Access == (w1 :> {{a}}) @@ (w2 :> {{a, b}})

(* Of the names of the first writer, the last is not relative to `a`.       *)
NamesUsed ==
  (w1 :> {Name({a}, {m}), Name({a}, {b, m}), Name({}, {a, m})})
    @@ (w2 :> {Name({a, b}, {m}), Name({a, b}, {})})
==================================================================================
