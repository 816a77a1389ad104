---------------------------- MODULE FollowedStream ----------------------------
(***************************************************************************)
(* What broadcaster.py promises: an operation publishes messages and ends; *)
(* whoever follows it gets all of them, from the first one, in order, and  *)
(* is told of the end only after the last one.                             *)
(***************************************************************************)
EXTENDS Naturals, Sequences

CONSTANTS Ops, Followers, Batches, None

VARIABLES
  published,  \* what each operation has published
  open,       \* the operations that have started and not ended
  follows,    \* the operation a follower follows, or None
  reached,    \* how many messages a follower has got
  finished,   \* the followers that were told of the end
  left        \* the followers that went away before

streamVars == <<published, open, follows, reached, finished, left>>

StreamInit ==
  /\ published = [o \in Ops |-> <<>>]
  /\ open = {}
  /\ follows = [f \in Followers |-> None]
  /\ reached = [f \in Followers |-> 0]
  /\ finished = {} /\ left = {}

\* Whoever asked for the operation follows it from the start.  If nobody did, it may
\* have something to say at once.
Open(o, owners, ms) ==
  /\ o \notin open
  /\ owners = {} \/ ms = <<>>
  /\ open' = open \cup {o}
  /\ published' = [published EXCEPT ![o] = ms]
  /\ owners \subseteq {f \in Followers : follows[f] = None}
  /\ follows' = [f \in Followers |-> IF f \in owners THEN o ELSE follows[f]]
  /\ UNCHANGED <<reached, finished, left>>

Say(o, ms, last) ==
  /\ o \in open
  /\ published' = [published EXCEPT ![o] = @ \o ms]
  /\ open' = IF last THEN open \ {o} ELSE open
  /\ UNCHANGED <<follows, reached, finished, left>>

Join(f, o) ==
  /\ o \in open
  /\ follows[f] = None
  /\ follows' = [follows EXCEPT ![f] = o]
  /\ UNCHANGED <<published, open, reached, finished, left>>

Hear(f) ==
  /\ follows[f] # None /\ f \notin finished \cup left
  /\ reached[f] < Len(published[follows[f]])
  /\ reached' = [reached EXCEPT ![f] = @ + 1]
  /\ UNCHANGED <<published, open, follows, finished, left>>

Close(f) ==
  /\ follows[f] # None /\ f \notin finished \cup left
  /\ follows[f] \notin open /\ reached[f] = Len(published[follows[f]])
  /\ finished' = finished \cup {f}
  /\ UNCHANGED <<published, open, follows, reached, left>>

Leave(f) ==
  /\ follows[f] # None /\ f \notin finished \cup left
  /\ left' = left \cup {f}
  /\ UNCHANGED <<published, open, follows, reached, finished>>

\* The server dies.
Lose ==
  /\ published' = [o \in Ops |-> <<>>] /\ open' = {}
  /\ follows' = [f \in Followers |-> None] /\ reached' = [f \in Followers |-> 0]
  /\ finished' = {} /\ left' = {}

StreamNext ==
  \/ \E o \in Ops :
       \/ \E owners \in SUBSET Followers, ms \in Batches \cup {<<>>} : Open(o, owners, ms)
       \/ \E ms \in Batches, last \in BOOLEAN : Say(o, ms, last)
  \/ \E f \in Followers :
       \/ \E o \in Ops : Join(f, o)
       \/ Hear(f) \/ Close(f) \/ Leave(f)
  \/ Lose

StreamSpec == StreamInit /\ [][StreamNext]_streamVars
=============================================================================
