----------------------------- MODULE MCCritical -----------------------------
(* Two CPUs and three threads, so that one can take another's place. *)
EXTENDS Critical

CONSTANTS c0, c1, t1, t2, t3

MCBoot == (c0 :> t1) @@ (c1 :> t2)
MCCalls == (t1 :> 2) @@ (t2 :> 1) @@ (t3 :> 0)
=============================================================================
