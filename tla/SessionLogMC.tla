--------------------------- MODULE SessionLogMC ---------------------------
(* Instances of SessionLog.  SessionChainMC.cfg follows one session through *)
(* every sequence of calls; SessionLogMC.cfg interleaves the transactions   *)
(* of two handles over two sessions, one of which may branch off the other. *)
EXTENDS SessionLog, TLC

CONSTANTS r1, r2, o1, o2

MCReach  == r1 :> {o2} @@ r2 :> {o1, o2}
MCReach1 == r1 :> {o2}

\* The handles, the sessions and the state ids are interchangeable.
Symmetry == Permutations(Clients) \cup Permutations(Sessions) \cup Permutations(States)
============================================================================
