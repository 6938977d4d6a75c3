---------------------------- MODULE MCReviewExport ----------------------------
(* Model-checking instance of ReviewExport.                                 *)
EXTENDS ReviewExport, TLC

\* total / count, where every field may be missing or zero.
Quotient ==
    [v \in [Fields -> Values] |->
        CASE \E f \in Fields : v[f] = "missing" -> "missing input"
          [] \E f \in Fields : v[f] = "zero" -> "division by zero"
          [] OTHER -> "value"]

\* Request threads are interchangeable.
Interchangeable == Permutations(Sessions)
=============================================================================
