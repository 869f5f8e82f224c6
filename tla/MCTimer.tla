------------------------------ MODULE MCTimer -------------------------------
(* Two CPUs, two threads that ask for two jiffies, and the ticker. *)
EXTENDS Timer, TLC

CONSTANTS s1, s2, c0, c1, tk

MCTimeout == (s1 :> 2) @@ (s2 :> 2)
=============================================================================
