------------------------------ MODULE RestoreMC ------------------------------
(* Two processes that restore different states at one destination.         *)
EXTENDS Restore

CONSTANTS p1, p2, s1, s2

MCWanted == [p \in {p1, p2} |-> IF p = p1 THEN s1 ELSE s2]
============================================================================
