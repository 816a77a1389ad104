---------------------------- MODULE MCBroadcaster ----------------------------
(* Small instances of Broadcaster. *)
EXTENDS Broadcaster

CONSTANTS f1, f2, o1, o2, m1, m2
=============================================================================
