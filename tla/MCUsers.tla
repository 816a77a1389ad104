------------------------------- MODULE MCUsers -------------------------------
(* Small instances of Users. *)
EXTENDS Users, TLC
CONSTANTS a, b, ip, r1, r2

\* Bound: accounts change while the clock stands; it then runs for those who only
\* try to sign in, or ask for links to no account.
Bound ==
  /\ Cardinality(resets) + Cardinality(sessions) <= 2
  /\ now > 0 => sessions = {} /\ resets = {} /\ \A r \in Requests : request[r] = None

Symmetry == Permutations(Requests)
=============================================================================
