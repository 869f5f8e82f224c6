------------------------------- MODULE MCRunq -------------------------------
(* Two schedees that may run anywhere and one that is pinned. *)
EXTENDS Runq, TLC

CONSTANTS c0, c1, s1, s2, s3

MCAffinity == (s1 :> {c0, c1}) @@ (s2 :> {c0, c1}) @@ (s3 :> {c1})

\* The unpinned schedees are alike.
Alike == Permutations({s1, s2})
=============================================================================
