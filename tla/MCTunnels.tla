------------------------------ MODULE MCTunnels ------------------------------
(* Small instances of Tunnels. *)
EXTENDS Tunnels, TLC
CONSTANTS a, b, loop, thread, p1, p2, p3, p4
Symmetry == Permutations(Processes) \cup Permutations(Endpoints)
=============================================================================
