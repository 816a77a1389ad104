--------------------------- MODULE OperationsProofs ---------------------------
(***************************************************************************)
(* Proofs about Broadcaster and Operations, for any number of operations,  *)
(* followers and messages and queues of any length.                        *)
(***************************************************************************)
EXTENDS Operations, SequenceTheorems, TLAPS

-----------------------------------------------------------------------------
(* The stream of an operation *)

Streams(f) == conn[f].phase = "streaming"

\* The place in the stream up to which f has been served, or will be by the history.
Reached(f) == IF Len(conn[f].got) < Len(conn[f].history) THEN Len(conn[f].history) ELSE Len(conn[f].got)

\* Where the queue of f stands in the stream: right behind what it was served, and the
\* sentinel behind it all.
Queued(f, stream, ended) ==
  /\ Len(queue[f]) = Len(stream) - Reached(f) + (IF ended THEN 1 ELSE 0)
  /\ \A i \in 1 .. Len(stream) - Reached(f) : queue[f][i] = stream[Reached(f) + i]
  /\ ended => queue[f][Len(queue[f])] = End

\* s is how t begins.
Begins(s, t) == Len(s) <= Len(t) /\ \A i \in 1 .. Len(s) : s[i] = t[i]

HubIInv ==
  /\ BroadcasterTypeOK
  /\ streaming \subseteq kept /\ cleanup \cap streaming = {}
  /\ \A o \in Ops, f \in Followers : f \in subscribers[o] <=> o \in streaming /\ Streams(f) /\ conn[f].op = o
  /\ \A f \in Followers : conn[f].phase = "idle" => conn[f] = NotFollowing /\ queue[f] = <<>>
  /\ \A f \in Followers : conn[f].phase # "idle" =>
       conn[f].op \in Ops /\ (conn[f].op \in streaming \/ buffer[conn[f].op] # <<>>)

\* Whose queue has not overflowed has the stream in what it was served, the rest of its
\* history and its queue.
Served(f) ==
  LET c == conn[f]
      stream == buffer[c.op]
  IN /\ c.phase = "streaming" /\ Roomy(f) =>
          Begins(c.history, stream) /\ Begins(c.got, stream) /\ Queued(f, stream, c.op \notin streaming)
     /\ c.phase = "done" /\ ~ c.gone /\ Roomy(f) => Len(c.got) = Len(stream) /\ c.op \notin streaming

ServedIInv == HubIInv /\ \A f \in Followers : Served(f)

-----------------------------------------------------------------------------
(* The hub *)

Queues == Seq(Messages \cup {End})

LEMMA HubTypes ==
  /\ None \notin Ops /\ End \notin Messages /\ Capacity \in Nat
  /\ NotFollowing \in Conn /\ NotFollowing.phase = "idle" /\ NotFollowing.op = None /\ NotFollowing.got = <<>>
BY BroadcasterConstants DEF BroadcasterConstants, End, NotFollowing, Conn

LEMMA OfferedFits ==
  ASSUME NEW q \in Queues, Len(q) <= Capacity, NEW ms \in Queues
  PROVE  /\ Offered(q, ms) \in Queues /\ Len(Offered(q, ms)) <= Capacity
         /\ Len(q) + Len(ms) <= Capacity => Offered(q, ms) = q \o ms
<1> DEFINE n == IF Len(ms) < Capacity - Len(q) THEN Len(ms) ELSE Capacity - Len(q)
<1>1. n \in Nat /\ n <= Len(ms) /\ Len(q) + n <= Capacity /\ Len(q) \in Nat /\ Len(ms) \in Nat
  BY HubTypes DEF Queues
<1>2. Offered(q, ms) = q \o SubSeq(ms, 1, n)
  BY DEF Offered
<1> HIDE DEF n
<1>3. SubSeq(ms, 1, n) \in Queues /\ Len(SubSeq(ms, 1, n)) = n
  BY <1>1 DEF Queues
<1>4. Offered(q, ms) \in Queues /\ Len(Offered(q, ms)) = Len(q) + n
  BY <1>1, <1>2, <1>3 DEF Queues
<1>5. ASSUME Len(q) + Len(ms) <= Capacity
      PROVE  Offered(q, ms) = q \o ms
  <2>1. n = Len(ms)
    BY <1>1, <1>5, HubTypes DEF n
  <2>2. SubSeq(ms, 1, Len(ms)) = ms
    BY DEF Queues
  <2>3. QED
    BY <1>2, <2>1, <2>2
<1>6. QED
  BY <1>1, <1>4, <1>5

LEMMA HubInitially == BroadcasterInit => HubIInv
BY HubTypes DEF BroadcasterInit, HubIInv, BroadcasterTypeOK, Streams, Queues

LEMMA StreamStartsKeepsHub ==
  ASSUME HubIInv, NEW o \in Ops, NEW owners \in SUBSET Followers, NEW ms \in Seq(Messages), StreamStarts(o, owners, ms),
         \A f \in owners : conn[f].phase = "idle", \A f \in Followers : conn[f].op # o
  PROVE  HubIInv'
<1> DEFINE joined == [NotFollowing EXCEPT !.op = o, !.history = <<>>, !.phase = "streaming"]
<1>1. joined \in Conn /\ joined.op = o /\ joined.phase = "streaming" /\ joined.history = <<>> /\ joined.got = <<>>
  BY HubTypes DEF NotFollowing, Conn
<1>2. conn' = [f \in Followers |-> IF f \in owners THEN joined ELSE conn[f]]
  BY DEF StreamStarts, Subscribing
<1> HIDE DEF joined
<1>3. BroadcasterTypeOK'
  BY <1>1, <1>2 DEF StreamStarts, HubIInv, BroadcasterTypeOK
<1>4. QED
  BY <1>1, <1>2, <1>3 DEF StreamStarts, HubIInv, BroadcasterTypeOK, Streams

LEMMA PushedKeepsQueues ==
  ASSUME BroadcasterTypeOK, NEW o \in Ops, NEW ms \in Queues, Pushed(o, ms)
  PROVE  /\ queue' \in [Followers -> Queues] /\ \A f \in Followers : Len(queue'[f]) <= Capacity
         /\ \A f \in Followers : f \notin subscribers[o] => queue'[f] = queue[f]
         /\ \A f \in Followers : f \in subscribers[o] => queue'[f] = Offered(queue[f], ms)
BY OfferedFits DEF BroadcasterTypeOK, Pushed, Queues

LEMMA PublishedKeepsHub ==
  ASSUME HubIInv, NEW o \in Ops, o \in streaming, NEW ms \in Seq(Messages), Published(o, ms) \/ (PublishedLast(o, ms) /\ ms # <<>>)
  PROVE  HubIInv'
<1>1. ms \in Queues /\ Append(ms, End) \in Queues
  BY DEF Queues
<1>2. /\ queue' \in [Followers -> Queues] /\ \A f \in Followers : Len(queue'[f]) <= Capacity
      /\ \A f \in Followers : f \notin subscribers[o] => queue'[f] = queue[f]
  BY <1>1, PushedKeepsQueues DEF Published, PublishedLast, HubIInv
<1>3. /\ buffer' = [buffer EXCEPT ![o] = buffer[o] \o ms] /\ conn' = conn /\ kept' = kept
      /\ buffer[o] \in Seq(Messages) /\ buffer[o] \o ms \in Seq(Messages)
      /\ (buffer[o] # <<>> \/ ms # <<>>) => buffer[o] \o ms # <<>>
  BY DEF Published, PublishedLast, HubIInv, BroadcasterTypeOK
<1>4. \A p \in Ops : buffer[p] # <<>> => buffer'[p] # <<>>
  BY <1>3 DEF HubIInv, BroadcasterTypeOK
<1>5. CASE Published(o, ms)
  BY <1>2, <1>3, <1>4, <1>5 DEF Published, HubIInv, BroadcasterTypeOK, Streams, Queues
<1>6. CASE PublishedLast(o, ms) /\ ms # <<>>
  <2>1. BroadcasterTypeOK'
    BY <1>2, <1>3, <1>6 DEF PublishedLast, HubIInv, BroadcasterTypeOK, Queues
  <2>2. buffer'[o] # <<>>
    BY <1>3, <1>6 DEF HubIInv, BroadcasterTypeOK
  <2>3. QED
    BY <1>2, <1>3, <1>4, <1>6, <2>1, <2>2 DEF PublishedLast, HubIInv, BroadcasterTypeOK, Streams
<1>7. QED
  BY <1>5, <1>6

LEMMA FollowKeepsHub ==
  ASSUME HubIInv, NEW f \in Followers, NEW o \in Ops, Follow(f, o)
  PROVE  HubIInv'
<1> DEFINE joined == [NotFollowing EXCEPT !.op = o, !.history = buffer[o], !.phase = "streaming"]
<1>1. joined \in Conn /\ joined.op = o /\ joined.phase = "streaming"
  BY HubTypes DEF NotFollowing, Conn, HubIInv, BroadcasterTypeOK
<1>2. conn' = [g \in Followers |-> IF g \in {f} THEN joined ELSE conn[g]]
  BY DEF Follow, Subscribing
<1> HIDE DEF joined
<1>3. BroadcasterTypeOK'
  BY <1>1, <1>2 DEF Follow, HubIInv, BroadcasterTypeOK
<1>4. QED
  BY <1>1, <1>2, <1>3 DEF Follow, HubIInv, BroadcasterTypeOK, Streams

\* A step of one connection that goes on.
LEMMA ConnectionKeepsHub ==
  ASSUME HubIInv, NEW f \in Followers, NEW c \in Conn, conn' = [conn EXCEPT ![f] = c], UNCHANGED hub,
         Streams(f), c.phase = "streaming", c.op = conn[f].op, NEW q \in Queues, Len(q) <= Capacity,
         queue' = [queue EXCEPT ![f] = q]
  PROVE  HubIInv'
<1>1. BroadcasterTypeOK'
  BY DEF hub, HubIInv, BroadcasterTypeOK, Queues
<1>2. QED
  BY <1>1 DEF hub, HubIInv, BroadcasterTypeOK, Streams

LEMMA UnsubscribedKeepsHub ==
  ASSUME HubIInv, NEW f \in Followers, Streams(f), Unsubscribed(f)
  PROVE  HubIInv'
<1> DEFINE c == [conn[f] EXCEPT !.phase = "done"]
<1>1. c \in Conn /\ c.phase = "done" /\ c.op = conn[f].op
  <2>1. conn[f] \in Conn
    BY DEF HubIInv, BroadcasterTypeOK
  <2>2. QED
    BY <2>1 DEF Conn
<1>2. conn' = [conn EXCEPT ![f] = c]
  BY DEF Unsubscribed
<1> HIDE DEF c
<1>3. <<>> \in Queues /\ Len(<<>>) = 0
  BY DEF Queues
<1>4. BroadcasterTypeOK'
  <2>1. queue' \in [Followers -> Queues] /\ \A g \in Followers : Len(queue'[g]) <= Capacity
    <3>1. queue \in [Followers -> Queues] /\ queue' = [queue EXCEPT ![f] = <<>>]
      BY DEF Unsubscribed, HubIInv, BroadcasterTypeOK, Queues
    <3>2. \A g \in Followers : queue'[g] = <<>> \/ queue'[g] = queue[g]
      BY <3>1
    <3>3. QED
      BY <1>3, <3>1, <3>2, HubTypes DEF HubIInv, BroadcasterTypeOK
  <2>2. subscribers' \in [Ops -> SUBSET Followers] /\ conn' \in [Followers -> Conn]
    <3>1. conn' \in [Followers -> Conn]
      BY <1>1, <1>2 DEF HubIInv, BroadcasterTypeOK
    <3>2. \A o \in Ops : subscribers[o] \ {f} \in SUBSET Followers
      BY DEF HubIInv, BroadcasterTypeOK
    <3>3. QED
      BY <3>1, <3>2 DEF Unsubscribed
  <2>3. QED
    BY <2>1, <2>2 DEF Unsubscribed, HubIInv, BroadcasterTypeOK, Queues
<1>5. QED
  BY <1>1, <1>2, <1>3, <1>4 DEF Unsubscribed, HubIInv, BroadcasterTypeOK, Streams

-----------------------------------------------------------------------------
(* Who does not overflow is served *)

LEMMA JoinedSequences ==
  ASSUME NEW S, NEW s \in Seq(S), NEW t \in Seq(S)
  PROVE  /\ s \o t \in Seq(S) /\ Len(s \o t) = Len(s) + Len(t) /\ Len(s) \in Nat /\ Len(t) \in Nat
         /\ \A i \in 1 .. Len(s) + Len(t) : (s \o t)[i] = IF i <= Len(s) THEN s[i] ELSE t[i - Len(s)]
OBVIOUS

LEMMA BeginsOn ==
  ASSUME NEW s \in Seq(Messages), NEW stream \in Seq(Messages), NEW ms \in Seq(Messages), Begins(s, stream)
  PROVE  Begins(s, stream \o ms)
BY JoinedSequences DEF Begins

LEMMA QueueGoesOn ==
  ASSUME NEW stream \in Seq(Messages), NEW ms \in Seq(Messages), NEW q \in Queues, NEW n \in Nat, n <= Len(stream),
         Len(q) = Len(stream) - n, \A i \in 1 .. Len(stream) - n : q[i] = stream[n + i]
  PROVE  /\ Len(q \o ms) = Len(stream \o ms) - n
         /\ \A i \in 1 .. Len(stream \o ms) - n : (q \o ms)[i] = (stream \o ms)[n + i]
         /\ Len(q \o Append(ms, End)) = Len(stream \o ms) - n + 1
         /\ \A i \in 1 .. Len(stream \o ms) - n : (q \o Append(ms, End))[i] = (stream \o ms)[n + i]
         /\ (q \o Append(ms, End))[Len(stream \o ms) - n + 1] = End
<1>1. ms \in Queues /\ Append(ms, End) \in Queues /\ Len(Append(ms, End)) = Len(ms) + 1
      /\ Append(ms, End)[Len(ms) + 1] = End /\ \A i \in 1 .. Len(ms) : Append(ms, End)[i] = ms[i]
  BY DEF Queues
<1>2. Len(stream \o ms) = Len(stream) + Len(ms) /\ Len(stream) \in Nat /\ Len(ms) \in Nat /\ Len(q) \in Nat
      /\ \A i \in 1 .. Len(stream) + Len(ms) : (stream \o ms)[i] = IF i <= Len(stream) THEN stream[i] ELSE ms[i - Len(stream)]
  BY JoinedSequences DEF Queues
<1>3. Len(q \o ms) = Len(q) + Len(ms)
      /\ \A i \in 1 .. Len(q) + Len(ms) : (q \o ms)[i] = IF i <= Len(q) THEN q[i] ELSE ms[i - Len(q)]
  BY <1>1, JoinedSequences DEF Queues
<1>4. Len(q \o Append(ms, End)) = Len(q) + Len(ms) + 1
      /\ \A i \in 1 .. Len(q) + Len(ms) + 1 :
           (q \o Append(ms, End))[i] = IF i <= Len(q) THEN q[i] ELSE Append(ms, End)[i - Len(q)]
  <2> DEFINE t == Append(ms, End)
  <2>1. t \in Seq(Messages \cup {End}) /\ Len(t) = Len(ms) + 1
    BY <1>1 DEF Queues
  <2> HIDE DEF t
  <2>2. Len(q \o t) = Len(q) + Len(t)
        /\ \A i \in 1 .. Len(q) + Len(t) : (q \o t)[i] = IF i <= Len(q) THEN q[i] ELSE t[i - Len(q)]
    BY <2>1, JoinedSequences DEF Queues
  <2>3. Len(q) + Len(t) = Len(q) + Len(ms) + 1
    BY <1>2, <2>1
  <2>4. QED
    BY <2>2, <2>3 DEF t
<1>5. ASSUME NEW i \in 1 .. Len(stream \o ms) - n
      PROVE  /\ (q \o ms)[i] = (stream \o ms)[n + i]
             /\ (q \o Append(ms, End))[i] = (stream \o ms)[n + i]
  <2>1. i \in 1 .. Len(q) + Len(ms) /\ n + i \in 1 .. Len(stream) + Len(ms)
    BY <1>2
  <2>2. CASE i <= Len(q)
    <3>1. q[i] = stream[n + i] /\ n + i <= Len(stream) /\ i \in 1 .. Len(q) + Len(ms) + 1
      BY <1>2, <2>1, <2>2
    <3>2. QED
      BY <1>2, <1>3, <1>4, <2>1, <2>2, <3>1
  <2>3. CASE ~ (i <= Len(q))
    <3>1. n + i - Len(stream) = i - Len(q) /\ ~ (n + i <= Len(stream)) /\ i - Len(q) \in 1 .. Len(ms)
          /\ i \in 1 .. Len(q) + Len(ms) + 1
      BY <1>2, <2>1, <2>3
    <3>2. (stream \o ms)[n + i] = ms[i - Len(q)]
      BY <1>2, <2>1, <3>1
    <3>3. (q \o ms)[i] = ms[i - Len(q)]
      BY <1>3, <2>1, <2>3
    <3>4. (q \o Append(ms, End))[i] = ms[i - Len(q)]
      BY <1>1, <1>4, <2>3, <3>1
    <3>5. QED
      BY <3>2, <3>3, <3>4
  <2>4. QED
    BY <2>2, <2>3
<1>6. (q \o Append(ms, End))[Len(stream \o ms) - n + 1] = End
  <2>1. Len(stream \o ms) - n + 1 = Len(q) + Len(ms) + 1 /\ Len(q) + Len(ms) + 1 \in 1 .. Len(q) + Len(ms) + 1
        /\ ~ (Len(q) + Len(ms) + 1 <= Len(q)) /\ Len(q) + Len(ms) + 1 - Len(q) = Len(ms) + 1
    BY <1>2
  <2>2. QED
    BY <1>1, <1>4, <2>1
<1>7. Len(q \o ms) = Len(stream \o ms) - n /\ Len(q \o Append(ms, End)) = Len(stream \o ms) - n + 1
  <2>1. Len(q \o ms) = Len(q) + Len(ms) /\ Len(q \o Append(ms, End)) = Len(q) + Len(ms) + 1
        /\ Len(stream \o ms) = Len(stream) + Len(ms)
    BY <1>2, <1>3, <1>4
  <2>2. QED
    BY <1>2, <2>1
<1>8. QED
  BY <1>5, <1>6, <1>7

\* A queue that had room for a message still has it for the sentinel.
LEMMA RoomLeft ==
  ASSUME NEW stream \in Seq(Messages), NEW ms \in Seq(Messages), NEW h \in Nat, Len(stream \o ms) - h < Capacity
  PROVE  /\ Len(stream) - h < Capacity
         /\ \A n, k \in Nat : h <= n /\ k = Len(stream) - n => k + Len(ms) + 1 <= Capacity
<1>1. Len(stream \o ms) = Len(stream) + Len(ms) /\ Len(stream) \in Nat /\ Len(ms) \in Nat
  BY JoinedSequences
<1>2. Len(stream) + Len(ms) - h < Capacity
  BY <1>1
<1>3. QED
  BY <1>1, <1>2, HubTypes

\* A step that does not touch what f follows leaves f where it was.
LEMMA ServedStays ==
  ASSUME NEW f \in Followers, Served(f), conn'[f] = conn[f], queue'[f] = queue[f],
         conn[f].phase # "idle" => buffer'[conn[f].op] = buffer[conn[f].op]
                                   /\ (conn[f].op \in streaming' <=> conn[f].op \in streaming)
  PROVE  Served(f)'
BY DEF Served, Roomy, Queued, Reached, Begins

LEMMA RoomyMeans ==
  ASSUME NEW f \in Followers
  PROVE  /\ conn[f].op \in Ops => (Roomy(f) <=> Len(buffer[conn[f].op]) - Len(conn[f].history) < Capacity)
         /\ conn'[f].op \in Ops => (Roomy(f)' <=> Len(buffer'[conn'[f].op]) - Len(conn'[f].history) < Capacity)
BY HubTypes DEF Roomy

LEMMA ServedInitially == BroadcasterInit => ServedIInv
<1>1. BroadcasterInit => \A f \in Followers : Served(f)
  BY HubTypes DEF BroadcasterInit, Served
<1>2. QED
  BY <1>1, HubInitially DEF ServedIInv

LEMMA StreamStartsServes ==
  ASSUME ServedIInv, NEW o \in Ops, NEW owners \in SUBSET Followers, NEW ms \in Seq(Messages), StreamStarts(o, owners, ms),
         \A f \in owners : conn[f].phase = "idle", \A f \in Followers : conn[f].op # o, owners = {} \/ ms = <<>>
  PROVE  ServedIInv'
<1>1. HubIInv /\ HubIInv'
  BY StreamStartsKeepsHub DEF ServedIInv
<1>2. /\ queue' = queue /\ buffer' = [buffer EXCEPT ![o] = ms] /\ streaming' = streaming \cup {o}
      /\ conn' = [f \in Followers |->
                    IF f \in owners THEN [NotFollowing EXCEPT !.op = o, !.history = <<>>, !.phase = "streaming"] ELSE conn[f]]
  BY DEF StreamStarts, Subscribing
<1>3. ASSUME NEW f \in Followers, f \notin owners
      PROVE  Served(f)'
  BY <1>1, <1>2, <1>3, ServedStays DEF ServedIInv, HubIInv, BroadcasterTypeOK
<1>4. ASSUME NEW f \in Followers, f \in owners
      PROVE  Served(f)'
  <2>1. conn'[f].op = o /\ conn'[f].history = <<>> /\ conn'[f].got = <<>> /\ conn'[f].phase = "streaming"
    BY <1>2, <1>4 DEF NotFollowing
  <2>2. queue'[f] = <<>> /\ buffer'[o] = <<>> /\ o \in streaming' /\ Len(<<>>) = 0
    BY <1>1, <1>2, <1>4 DEF HubIInv, BroadcasterTypeOK
  <2>3. QED
    BY <2>1, <2>2 DEF Served, Queued, Reached, Begins
<1>5. QED
  BY <1>1, <1>3, <1>4 DEF ServedIInv

LEMMA PublishedServes ==
  ASSUME ServedIInv, NEW o \in Ops, o \in streaming, NEW ms \in Seq(Messages), Published(o, ms) \/ (PublishedLast(o, ms) /\ ms # <<>>)
  PROVE  ServedIInv'
<1>1. HubIInv /\ HubIInv' /\ BroadcasterTypeOK
  BY PublishedKeepsHub DEF ServedIInv, HubIInv
<1>2. buffer' = [buffer EXCEPT ![o] = buffer[o] \o ms] /\ conn' = conn
      /\ \A p \in Ops : p # o => (p \in streaming' <=> p \in streaming)
  BY DEF Published, PublishedLast
<1>3. PICK t \in {ms, Append(ms, End)} : Pushed(o, t) /\ (t = ms => o \in streaming') /\ (t # ms => o \notin streaming')
  <2>1. Append(ms, End) # ms
    BY DEF Queues
  <2>2. QED
    BY <2>1 DEF Published, PublishedLast
<1>4. t \in Queues /\ Len(t) \in Nat /\ Len(ms) \in Nat /\ Len(t) = Len(ms) + (IF t = ms THEN 0 ELSE 1)
  BY <1>3 DEF Queues
<1>5. ASSUME NEW f \in Followers, conn[f].op = o /\ conn[f].phase = "streaming"
      PROVE  Served(f)'
  <2>1. f \in subscribers[o]
    BY <1>1, <1>5 DEF HubIInv, Streams
  <2>2. queue'[f] = Offered(queue[f], t) /\ queue[f] \in Queues /\ Len(queue[f]) <= Capacity
    BY <1>1, <1>3, <1>4, <2>1, PushedKeepsQueues DEF BroadcasterTypeOK, Queues
  <2> DEFINE stream == buffer[o]
             n == Reached(f)
             q == queue[f]
             h == Len(conn[f].history)
  <2>3. /\ stream \in Seq(Messages) /\ buffer'[o] = stream \o ms /\ conn'[f] = conn[f]
        /\ conn[f].history \in Seq(Messages) /\ conn[f].got \in Seq(Messages) /\ h \in Nat /\ n \in Nat /\ h <= n
    BY <1>1, <1>2 DEF BroadcasterTypeOK, Conn, Reached
  <2>4. (Roomy(f) <=> Len(stream) - h < Capacity) /\ (Roomy(f)' <=> Len(stream \o ms) - h < Capacity)
    BY <1>5, <2>3, RoomyMeans
  <2>5. CASE ~ Roomy(f)'
    BY <1>5, <2>3, <2>5 DEF Served
  <2>6. CASE Roomy(f)'
    <3> HIDE DEF h
    <3>1. Roomy(f)
      <4> HIDE DEF stream
      <4>1. QED
        BY <2>3, <2>4, <2>6, RoomLeft
    <3>2. Begins(conn[f].history, stream) /\ Begins(conn[f].got, stream) /\ Queued(f, stream, FALSE)
      BY <1>5, <3>1 DEF ServedIInv, Served
    <3>3. n <= Len(stream) /\ Len(q) = Len(stream) - n /\ \A i \in 1 .. Len(stream) - n : q[i] = stream[n + i]
      BY <2>3, <3>2 DEF Reached, Begins, Queued
    <3> HIDE DEF stream, q, n
    <3>4. q \in Queues
      BY <2>2 DEF q
    <3>5. Len(q) + Len(t) <= Capacity
      <4>1. Len(q) \in Nat
        BY <3>4 DEF Queues
      <4>2. Len(q) + Len(ms) + 1 <= Capacity
        BY <2>3, <2>4, <2>6, <3>3, <4>1, RoomLeft
      <4>3. QED
        BY <1>4, <4>1, <4>2, HubTypes
    <3>6. queue'[f] = q \o t
      BY <1>4, <2>2, <3>5, OfferedFits DEF q
    <3>7. Begins(conn[f].history, stream \o ms) /\ Begins(conn[f].got, stream \o ms)
      BY <2>3, <3>2, BeginsOn
    <3>8. Reached(f)' = n
      BY <2>3 DEF Reached, n
    <3>9. /\ Len(q \o ms) = Len(stream \o ms) - n
          /\ \A i \in 1 .. Len(stream \o ms) - n : (q \o ms)[i] = (stream \o ms)[n + i]
          /\ Len(q \o Append(ms, End)) = Len(stream \o ms) - n + 1
          /\ \A i \in 1 .. Len(stream \o ms) - n : (q \o Append(ms, End))[i] = (stream \o ms)[n + i]
          /\ (q \o Append(ms, End))[Len(stream \o ms) - n + 1] = End
      BY <2>3, <3>3, <3>4, QueueGoesOn
    <3>10. /\ Len(queue'[f]) = Len(buffer'[o]) - n + (IF o \notin streaming' THEN 1 ELSE 0)
           /\ \A i \in 1 .. Len(buffer'[o]) - n : queue'[f][i] = buffer'[o][n + i]
           /\ o \notin streaming' => queue'[f][Len(queue'[f])] = End
      <4>1. CASE t = ms
        <5>1. queue'[f] = q \o ms /\ o \in streaming' /\ Len(buffer'[o]) - n + 0 = Len(buffer'[o]) - n
          BY <1>3, <2>3, <3>6, <4>1
        <5>2. QED
          BY <2>3, <3>9, <5>1
      <4>2. CASE t # ms
        <5>1. queue'[f] = q \o Append(ms, End) /\ o \notin streaming'
          BY <1>3, <3>6, <4>2
        <5>2. QED
          BY <2>3, <3>9, <5>1
      <4>3. QED
        BY <4>1, <4>2
    <3>11. Begins(conn'[f].history, buffer'[o]) /\ Begins(conn'[f].got, buffer'[o])
      BY <2>3, <3>7
    <3>12. QED
      BY <1>5, <2>3, <3>8, <3>10, <3>11 DEF Served, Queued
  <2>7. QED
    BY <2>5, <2>6
<1>6. ASSUME NEW f \in Followers, ~ (conn[f].op = o /\ conn[f].phase = "streaming")
      PROVE  Served(f)'
  <2>1. f \notin subscribers[o]
    BY <1>1, <1>6 DEF HubIInv, Streams
  <2>2. queue'[f] = queue[f]
    BY <1>1, <1>3, <1>4, <2>1, PushedKeepsQueues
  <2>3. CASE conn[f].op # o
    BY <1>1, <1>2, <2>2, <2>3, ServedStays DEF ServedIInv, HubIInv, BroadcasterTypeOK
  <2>4. CASE conn[f].op = o /\ conn[f].phase = "idle"
    BY <1>2, <2>4 DEF Served
  <2>5. CASE conn[f].op = o /\ conn[f].phase = "done"
    <3>1. buffer[o] \in Seq(Messages) /\ buffer'[o] = buffer[o] \o ms /\ Len(conn[f].history) \in Nat /\ conn'[f] = conn[f]
      BY <1>1, <1>2 DEF BroadcasterTypeOK, Conn
    <3>2. Roomy(f)' => Roomy(f)
      BY <2>5, <3>1, RoomyMeans, RoomLeft
    <3>3. ~ (~ conn[f].gone /\ Roomy(f))
      BY <2>5 DEF ServedIInv, Served
    <3>4. QED
      BY <1>2, <2>5, <3>2, <3>3 DEF Served
  <2>6. QED
    BY <1>1, <1>6, <2>3, <2>4, <2>5 DEF BroadcasterTypeOK, Conn
<1>7. QED
  BY <1>1, <1>5, <1>6 DEF ServedIInv

LEMMA CleanUpServes ==
  ASSUME ServedIInv, NEW o \in Ops, CleanUp(o)
  PROVE  ServedIInv'
<1>1. HubIInv'
  BY DEF ServedIInv, CleanUp, HubIInv, BroadcasterTypeOK, Streams
<1>2. \A f \in Followers : Served(f)'
  BY ServedStays DEF ServedIInv, CleanUp
<1>3. QED
  BY <1>1, <1>2 DEF ServedIInv

LEMMA FollowServes ==
  ASSUME ServedIInv, NEW f \in Followers, NEW o \in Ops, Follow(f, o)
  PROVE  ServedIInv'
<1>1. HubIInv /\ HubIInv'
  BY FollowKeepsHub DEF ServedIInv
<1>2. /\ UNCHANGED <<queue, buffer, streaming>> /\ o \in streaming /\ conn[f].phase = "idle"
      /\ conn' = [g \in Followers |->
                    IF g \in {f} THEN [NotFollowing EXCEPT !.op = o, !.history = buffer[o], !.phase = "streaming"] ELSE conn[g]]
  BY DEF Follow, Subscribing
<1>3. ASSUME NEW g \in Followers, g # f
      PROVE  Served(g)'
  BY <1>2, <1>3, ServedStays DEF ServedIInv
<1>4. Served(f)'
  <2>1. conn'[f].op = o /\ conn'[f].history = buffer[o] /\ conn'[f].got = <<>> /\ conn'[f].phase = "streaming"
    BY <1>2 DEF NotFollowing
  <2>2. queue'[f] = <<>> /\ buffer'[o] = buffer[o] /\ o \in streaming' /\ Len(<<>>) = 0 /\ Len(buffer[o]) \in Nat
    BY <1>1, <1>2 DEF HubIInv, BroadcasterTypeOK
  <2>3. Reached(f)' = Len(buffer[o])
    BY <2>1, <2>2 DEF Reached
  <2>4. QED
    BY <2>1, <2>2, <2>3 DEF Served, Queued, Begins
<1>5. QED
  BY <1>1, <1>3, <1>4 DEF ServedIInv

\* A step of one connection leaves the others where they are.
LEMMA OthersServed ==
  ASSUME ServedIInv, HubIInv', NEW f \in Followers, Served(f)', UNCHANGED <<buffer, streaming>>,
         \A g \in Followers : g # f => conn'[g] = conn[g] /\ queue'[g] = queue[g]
  PROVE  ServedIInv'
BY ServedStays DEF ServedIInv

LEMMA SendsHistoryServes ==
  ASSUME ServedIInv, NEW f \in Followers, SendsHistory(f)
  PROVE  ServedIInv'
<1> DEFINE got == conn[f].got
           h == conn[f].history
           more == Append(got, h[Len(got) + 1])
           c == [conn[f] EXCEPT !.got = more]
<1>1. /\ HubIInv /\ conn \in [Followers -> Conn] /\ conn[f] \in Conn /\ queue[f] \in Queues /\ Len(queue[f]) <= Capacity
      /\ queue \in [Followers -> Queues]
  BY DEF ServedIInv, HubIInv, BroadcasterTypeOK, Queues
<1>2. got \in Seq(Messages) /\ h \in Seq(Messages) /\ Len(got) \in Nat /\ Len(h) \in Nat /\ Len(got) < Len(h)
  BY <1>1 DEF Conn, SendsHistory, Replaying
<1>3. /\ more \in Seq(Messages) /\ Len(more) = Len(got) + 1 /\ \A i \in 1 .. Len(got) : more[i] = got[i]
      /\ more[Len(got) + 1] = h[Len(got) + 1]
  BY <1>2
<1> HIDE DEF more
<1>4. c \in Conn /\ c.phase = "streaming" /\ c.op = conn[f].op /\ c.got = more /\ c.history = h /\ c.gone = conn[f].gone
  BY <1>1, <1>3 DEF Conn, SendsHistory
<1>5. conn' = [conn EXCEPT ![f] = c] /\ UNCHANGED <<hub, queue>> /\ conn[f].phase = "streaming"
  BY <1>1 DEF SendsHistory, Received, more
<1> HIDE DEF c
<1>6. queue' = [queue EXCEPT ![f] = queue[f]]
  BY <1>1, <1>5
<1>7. HubIInv'
  BY <1>1, <1>4, <1>5, <1>6, ConnectionKeepsHub DEF Streams
<1>8. conn'[f] = c /\ UNCHANGED <<buffer, streaming>>
  BY <1>1, <1>5 DEF hub
<1>9. Reached(f) = Len(h) /\ Reached(f)' = Len(h)
  BY <1>2, <1>3, <1>4, <1>8 DEF Reached
<1>10. Roomy(f)' = Roomy(f)
  BY <1>4, <1>8 DEF Roomy
<1>11. Begins(h, buffer[c.op]) /\ Begins(got, buffer[c.op]) => Begins(more, buffer[c.op])
  <2>1. ASSUME Begins(h, buffer[c.op]), Begins(got, buffer[c.op]), NEW i \in 1 .. Len(got) + 1
        PROVE  more[i] = buffer[c.op][i]
    <3>1. CASE i = Len(got) + 1
      <4>1. Len(got) + 1 \in 1 .. Len(h)
        BY <1>2
      <4>2. QED
        BY <1>3, <2>1, <3>1, <4>1 DEF Begins
    <3>2. CASE i # Len(got) + 1
      <4>1. i \in 1 .. Len(got)
        BY <1>2, <3>2
      <4>2. QED
        BY <1>3, <2>1, <4>1 DEF Begins
    <3>3. QED
      BY <3>1, <3>2
  <2>2. Len(buffer[c.op]) \in Nat
    BY <1>1, <1>4, <1>5 DEF HubIInv, BroadcasterTypeOK
  <2>3. Len(h) <= Len(buffer[c.op]) => Len(got) + 1 <= Len(buffer[c.op])
    BY <1>2, <2>2
  <2>4. QED
    BY <1>3, <2>1, <2>3 DEF Begins
<1>12. Served(f)'
  <2>1. Roomy(f) => Begins(h, buffer[c.op]) /\ Begins(more, buffer[c.op]) /\ Queued(f, buffer[c.op], c.op \notin streaming)
    BY <1>4, <1>5, <1>11 DEF ServedIInv, Served
  <2>2. queue'[f] = queue[f]
    BY <1>5
  <2>3. QED
    BY <1>4, <1>8, <1>9, <1>10, <2>1, <2>2 DEF Served, Queued
<1>13. QED
  BY <1>1, <1>5, <1>7, <1>8, <1>12, OthersServed

\* The first of a queue that has not overflowed is what comes next in the stream.
LEMMA FirstQueued ==
  ASSUME HubIInv, NEW f \in Followers, Streams(f), NEW stream \in Seq(Messages), NEW ended \in BOOLEAN,
         Queued(f, stream, ended), Begins(conn[f].got, stream), Begins(conn[f].history, stream), queue[f] # <<>>
  PROVE  /\ Reached(f) \in Nat /\ Reached(f) <= Len(stream) /\ Len(stream) \in Nat
         /\ Head(queue[f]) = queue[f][1]
         /\ Head(queue[f]) # End => Reached(f) < Len(stream) /\ Head(queue[f]) = stream[Reached(f) + 1]
         /\ Head(queue[f]) = End => ended /\ Reached(f) = Len(stream)
<1>1. queue[f] \in Queues /\ conn[f] \in Conn
  BY DEF HubIInv, BroadcasterTypeOK, Queues
<1>2. Reached(f) \in Nat /\ Reached(f) <= Len(stream) /\ Len(stream) \in Nat
  BY <1>1 DEF Conn, Reached, Begins
<1>3. Head(queue[f]) = queue[f][1] /\ Len(queue[f]) \in Nat /\ Len(queue[f]) > 0
  BY <1>1 DEF Queues
<1> DEFINE n == Reached(f)
           q == queue[f]
<1>4. Len(q) = Len(stream) - n + (IF ended THEN 1 ELSE 0) /\ (ended => q[Len(q)] = End)
      /\ \A i \in 1 .. Len(stream) - n : q[i] = stream[n + i]
  BY DEF Queued
<1> HIDE DEF n, q
<1>5. CASE n = Len(stream)
  <2>1. ended /\ Len(q) = 1
    BY <1>2, <1>3, <1>4, <1>5 DEF n, q
  <2>2. q[1] = End
    BY <1>4, <2>1
  <2>3. QED
    BY <1>2, <1>3, <1>5, <2>1, <2>2 DEF n, q
<1>6. CASE n < Len(stream)
  <2>1. 1 \in 1 .. Len(stream) - n /\ n + 1 \in 1 .. Len(stream)
    BY <1>2, <1>6 DEF n
  <2>2. q[1] = stream[n + 1]
    BY <1>4, <2>1
  <2>3. stream[n + 1] \in Messages
    BY <2>1
  <2>4. QED
    BY <1>2, <1>3, <1>6, <2>2, <2>3, HubTypes DEF n, q
<1>7. QED
  BY <1>2, <1>5, <1>6 DEF n

LEMMA SendsLiveServes ==
  ASSUME ServedIInv, NEW f \in Followers, SendsLive(f)
  PROVE  ServedIInv'
<1> DEFINE got == conn[f].got
           h == conn[f].history
           m == Head(queue[f])
           more == Append(got, m)
           rest == Tail(queue[f])
           c == [conn[f] EXCEPT !.got = more]
<1>1. /\ HubIInv /\ conn \in [Followers -> Conn] /\ conn[f] \in Conn /\ queue[f] \in Queues /\ Len(queue[f]) <= Capacity
      /\ queue \in [Followers -> Queues] /\ conn[f].phase = "streaming" /\ queue[f] # <<>> /\ m # End
  BY DEF ServedIInv, HubIInv, BroadcasterTypeOK, Queues, SendsLive
<1>2. got \in Seq(Messages) /\ h \in Seq(Messages) /\ Len(got) \in Nat /\ Len(h) \in Nat /\ ~ (Len(got) < Len(h))
  BY <1>1 DEF Conn, SendsLive, Replaying
<1>3. m \in Messages
  BY <1>1 DEF Queues
<1>4. /\ rest \in Queues /\ Len(rest) = Len(queue[f]) - 1 /\ \A i \in 1 .. Len(rest) : rest[i] = queue[f][i + 1]
      /\ Len(rest) <= Capacity /\ Len(rest) \in Nat /\ Len(queue[f]) \in Nat
  BY <1>1, HubTypes DEF Queues
<1>5. /\ more \in Seq(Messages) /\ Len(more) = Len(got) + 1 /\ \A i \in 1 .. Len(got) : more[i] = got[i]
      /\ more[Len(got) + 1] = m
  BY <1>2, <1>3
<1> HIDE DEF more, rest, m
<1>6. c \in Conn /\ c.phase = "streaming" /\ c.op = conn[f].op /\ c.got = more /\ c.history = h
  BY <1>1, <1>5 DEF Conn
<1>7. conn' = [conn EXCEPT ![f] = c] /\ queue' = [queue EXCEPT ![f] = rest] /\ UNCHANGED hub
  BY <1>1 DEF SendsLive, Received, more, rest, m
<1> HIDE DEF c
<1>8. HubIInv'
  BY <1>1, <1>4, <1>6, <1>7, ConnectionKeepsHub DEF Streams
<1>9. conn'[f] = c /\ queue'[f] = rest /\ UNCHANGED <<buffer, streaming>>
  BY <1>1, <1>7 DEF hub
<1>10. Reached(f) = Len(got) /\ Reached(f)' = Len(got) + 1
  BY <1>2, <1>5, <1>6, <1>9 DEF Reached
<1>11. Roomy(f)' = Roomy(f)
  BY <1>6, <1>9 DEF Roomy
<1>12. Served(f)'
  <2>1. SUFFICES ASSUME Roomy(f)
                 PROVE  /\ Begins(h, buffer[c.op]) /\ Begins(more, buffer[c.op])
                        /\ Len(rest) = Len(buffer[c.op]) - (Len(got) + 1) + (IF c.op \notin streaming THEN 1 ELSE 0)
                        /\ \A i \in 1 .. Len(buffer[c.op]) - (Len(got) + 1) : rest[i] = buffer[c.op][(Len(got) + 1) + i]
                        /\ c.op \notin streaming => rest[Len(rest)] = End
    BY <1>6, <1>9, <1>10, <1>11 DEF Served, Queued
  <2> DEFINE stream == buffer[c.op]
             ended == c.op \notin streaming
             n == Len(got)
  <2>2. stream \in Seq(Messages) /\ ended \in BOOLEAN
    BY <1>1, <1>6 DEF HubIInv, BroadcasterTypeOK
  <2>3. Begins(h, stream) /\ Begins(got, stream) /\ Queued(f, stream, ended)
    BY <1>1, <1>6, <2>1 DEF ServedIInv, Served
  <2>4. n < Len(stream) /\ m = stream[n + 1] /\ Len(stream) \in Nat
    BY <1>1, <1>10, <2>2, <2>3, FirstQueued DEF Streams, m
  <2>5. Begins(more, stream)
    <3> HIDE DEF stream, got
    <3>1. Len(more) <= Len(stream)
      BY <1>2, <1>5, <2>4
    <3>2. ASSUME NEW i \in 1 .. Len(got) + 1
          PROVE  more[i] = stream[i]
      <4>1. CASE i = Len(got) + 1
        BY <1>5, <2>4, <4>1
      <4>2. CASE i # Len(got) + 1
        <5>1. i \in 1 .. Len(got)
          BY <1>2, <4>2
        <5>2. QED
          BY <1>5, <2>3, <5>1 DEF Begins
      <4>3. QED
        BY <4>1, <4>2
    <3>3. QED
      BY <1>5, <3>1, <3>2 DEF Begins
  <2>6. /\ Len(queue[f]) = Len(stream) - n + (IF ended THEN 1 ELSE 0) /\ (ended => queue[f][Len(queue[f])] = End)
        /\ \A i \in 1 .. Len(stream) - n : queue[f][i] = stream[n + i]
    BY <1>10, <2>3 DEF Queued
  <2> HIDE DEF stream, n, ended
  <2>7. n \in Nat
    BY <1>2 DEF n
  <2>8. Len(rest) = Len(stream) - (n + 1) + (IF ended THEN 1 ELSE 0)
    BY <1>4, <2>4, <2>6, <2>7
  <2>9. ended => rest[Len(rest)] = End
    <3>1. SUFFICES ASSUME ended
                   PROVE  rest[Len(rest)] = End
      OBVIOUS
    <3>2. Len(rest) \in 1 .. Len(rest) /\ Len(rest) + 1 = Len(queue[f])
      BY <1>4, <2>4, <2>7, <2>8, <3>1
    <3>3. QED
      BY <1>4, <2>6, <3>1, <3>2
  <2>10. ASSUME NEW i \in 1 .. Len(stream) - (n + 1)
         PROVE  rest[i] = stream[(n + 1) + i]
    <3>1. Len(rest) >= Len(stream) - (n + 1)
      BY <1>4, <2>4, <2>7, <2>8
    <3>2. i \in 1 .. Len(rest) /\ i + 1 \in 1 .. Len(stream) - n /\ n + (i + 1) = (n + 1) + i
      BY <1>4, <2>4, <2>7, <3>1
    <3>3. QED
      BY <1>4, <2>6, <3>2
  <2>11. QED
    BY <2>3, <2>5, <2>8, <2>9, <2>10 DEF stream, ended, n
<1>13. QED
  BY <1>1, <1>7, <1>8, <1>9, <1>12, OthersServed

LEMMA UnsubscribedServes ==
  ASSUME ServedIInv, NEW f \in Followers, SeesEnd(f) \/ SendFails(f)
  PROVE  ServedIInv'
<1>1. HubIInv /\ conn[f] \in Conn /\ conn[f].phase = "streaming" /\ Unsubscribed(f)
  BY DEF ServedIInv, HubIInv, BroadcasterTypeOK, SeesEnd, SendFails
<1>2. HubIInv'
  BY <1>1, UnsubscribedKeepsHub DEF Streams
<1>3. /\ UNCHANGED <<buffer, streaming>> /\ conn'[f] = [conn[f] EXCEPT !.phase = "done"]
      /\ \A g \in Followers : g # f => conn'[g] = conn[g] /\ queue'[g] = queue[g]
  BY <1>1 DEF Unsubscribed, HubIInv, BroadcasterTypeOK
<1>4. conn'[f].phase = "done" /\ conn'[f].op = conn[f].op /\ conn'[f].got = conn[f].got /\ conn'[f].gone = conn[f].gone
      /\ conn'[f].history = conn[f].history
  BY <1>1, <1>3 DEF Conn
<1>5. Roomy(f)' = Roomy(f)
  BY <1>3, <1>4 DEF Roomy
<1>6. Served(f)'
  <2>1. SUFFICES ASSUME Roomy(f), ~ conn[f].gone
                 PROVE  Len(conn[f].got) = Len(buffer[conn[f].op]) /\ conn[f].op \notin streaming
    BY <1>3, <1>4, <1>5 DEF Served
  <2>2. SeesEnd(f)
    BY <2>1 DEF SendFails
  <2> DEFINE stream == buffer[conn[f].op]
             ended == conn[f].op \notin streaming
  <2>3. stream \in Seq(Messages) /\ ended \in BOOLEAN
    BY <1>1 DEF HubIInv, BroadcasterTypeOK
  <2>4. Begins(conn[f].history, stream) /\ Begins(conn[f].got, stream) /\ Queued(f, stream, ended)
    BY <1>1, <2>1 DEF ServedIInv, Served
  <2>5. queue[f] # <<>> /\ Head(queue[f]) = End
    BY <2>2 DEF SeesEnd
  <2> HIDE DEF stream, ended
  <2>6. ended /\ Reached(f) = Len(stream)
    BY <1>1, <2>3, <2>4, <2>5, FirstQueued DEF Streams
  <2>7. Reached(f) = Len(conn[f].got)
    BY <2>2 DEF SeesEnd, Replaying, Reached
  <2>8. QED
    BY <2>6, <2>7 DEF stream, ended
<1>7. QED
  BY <1>1, <1>2, <1>3, <1>6, OthersServed

LEMMA DisconnectsServes ==
  ASSUME ServedIInv, NEW f \in Followers, Disconnects(f)
  PROVE  ServedIInv'
<1> DEFINE c == [conn[f] EXCEPT !.gone = TRUE]
<1>1. HubIInv /\ conn \in [Followers -> Conn] /\ conn[f] \in Conn /\ queue[f] \in Queues /\ Len(queue[f]) <= Capacity
      /\ queue \in [Followers -> Queues] /\ conn[f].phase = "streaming"
  BY DEF ServedIInv, HubIInv, BroadcasterTypeOK, Queues, Disconnects
<1>2. c \in Conn /\ c.phase = "streaming" /\ c.op = conn[f].op /\ c.got = conn[f].got /\ c.history = conn[f].history
  BY <1>1 DEF Conn
<1>3. conn' = [conn EXCEPT ![f] = c] /\ UNCHANGED <<hub, queue>>
  BY DEF Disconnects
<1> HIDE DEF c
<1>4. queue' = [queue EXCEPT ![f] = queue[f]]
  BY <1>1, <1>3
<1>5. HubIInv'
  BY <1>1, <1>2, <1>3, <1>4, ConnectionKeepsHub DEF Streams
<1>6. conn'[f] = c /\ UNCHANGED <<buffer, streaming, queue>>
  BY <1>1, <1>3 DEF hub
<1>7. Served(f)'
  BY <1>1, <1>2, <1>6 DEF ServedIInv, Served, Queued, Reached, Roomy
<1>8. QED
  BY <1>1, <1>3, <1>5, <1>6, <1>7, OthersServed

LEMMA ServerLostServes ==
  ASSUME ServedIInv, ServerLost
  PROVE  ServedIInv'
<1>1. HubIInv'
  BY HubTypes DEF ServerLost, HubIInv, BroadcasterTypeOK, Streams, Queues
<1>2. \A f \in Followers : Served(f)'
  BY HubTypes DEF ServerLost, Served
<1>3. QED
  BY <1>1, <1>2 DEF ServedIInv

LEMMA ConnectionServes ==
  ASSUME ServedIInv, NEW f \in Followers, ConnectionRuns(f) \/ Disconnects(f)
  PROVE  ServedIInv'
BY SendsHistoryServes, SendsLiveServes, UnsubscribedServes, DisconnectsServes DEF ConnectionRuns

LEMMA HubUnchangedServes ==
  ASSUME ServedIInv, UNCHANGED broadcastVars
  PROVE  ServedIInv'
<1>1. HubIInv'
  BY DEF ServedIInv, HubIInv, BroadcasterTypeOK, Streams, broadcastVars, hub
<1>2. \A f \in Followers : Served(f)'
  BY ServedStays DEF ServedIInv, broadcastVars, hub
<1>3. QED
  BY <1>1, <1>2 DEF ServedIInv

\* An identifier that has no stream and no message is nobody's.
LEMMA FreshIsUnknown ==
  ASSUME HubIInv, NEW o \in Ops, o \notin kept, buffer[o] = <<>>
  PROVE  \A f \in Followers : conn[f].op # o
BY HubTypes DEF HubIInv, BroadcasterTypeOK, Conn

LEMMA ServedInductive == ServedIInv /\ [BroadcasterNext]_broadcastVars => ServedIInv'
<1> SUFFICES ASSUME ServedIInv, [BroadcasterNext]_broadcastVars
             PROVE  ServedIInv'
  OBVIOUS
<1>1. ASSUME NEW o \in Ops, o \notin kept, buffer[o] = <<>>,
             NEW owners \in {{}} \cup {{f} : f \in {g \in Followers : conn[g].phase = "idle"}}, StreamStarts(o, owners, <<>>)
      PROVE  ServedIInv'
  <2>1. owners \in SUBSET Followers /\ \A f \in owners : conn[f].phase = "idle"
    BY <1>1
  <2>2. \A f \in Followers : conn[f].op # o
    BY <1>1, FreshIsUnknown DEF ServedIInv
  <2>3. <<>> \in Seq(Messages)
    OBVIOUS
  <2>4. QED
    BY <1>1, <2>1, <2>2, <2>3, StreamStartsServes
<1>2. ASSUME NEW o \in Ops, NEW m \in Messages, o \in streaming, Published(o, <<m>>) \/ PublishedLast(o, <<m>>)
      PROVE  ServedIInv'
  <2>1. <<m>> \in Seq(Messages) /\ <<m>> # <<>>
    BY <1>2
  <2>2. QED
    BY <1>2, <2>1, PublishedServes
<1>3. QED
  BY <1>1, <1>2, CleanUpServes, FollowServes, ConnectionServes, HubUnchangedServes DEF BroadcasterNext

\* Every follower is served: what it has, what is kept for it and what its queue holds are
\* consecutive parts of one stream, through ends, clean-ups, late joins and overflows.
THEOREM ServedInvariant == BroadcasterSpec => []ServedIInv
BY ServedInitially, ServedInductive, PTL DEF BroadcasterSpec

-----------------------------------------------------------------------------
(* What a follower has *)

\* s is what t has behind its r-th element.
Behind(s, t, r) == Len(s) = Len(t) - r /\ \A i \in 1 .. Len(s) : s[i] = t[r + i]

\* The two ends and the rest of the middle make up the whole.
LEMMA ThreeParts ==
  ASSUME NEW a \in Seq(Messages), NEW h \in Seq(Messages), NEW s \in Seq(Messages), NEW t \in Seq(Messages),
         Begins(a, t), Begins(h, t), NEW r \in {Len(a), Len(h)}, Len(a) <= r, Len(h) <= r, Behind(s, t, r)
  PROVE  a \o SubSeq(h, Len(a) + 1, Len(h)) \o s = t
<1>1. /\ Len(a) \in Nat /\ Len(h) \in Nat /\ Len(s) \in Nat /\ Len(t) \in Nat /\ r \in Nat
      /\ Len(a) <= Len(t) /\ Len(h) <= Len(t) /\ Len(s) = Len(t) - r
  BY DEF Begins, Behind
<1> DEFINE m == SubSeq(h, Len(a) + 1, Len(h))
           am == a \o m
<1>2. m \in Seq(Messages) /\ Len(m) = r - Len(a) /\ \A i \in 1 .. Len(m) : m[i] = h[Len(a) + i]
  BY <1>1
<1> HIDE DEF m
<1>3. \A i \in 1 .. Len(m) : m[i] = t[Len(a) + i]
  BY <1>1, <1>2 DEF Begins
<1>4. am \in Seq(Messages) /\ Len(am) = r /\ \A i \in 1 .. r : am[i] = t[i]
  BY <1>1, <1>2, <1>3 DEF Begins
<1> HIDE DEF am
<1>5. /\ am \o s \in Seq(Messages) /\ Len(am \o s) = Len(am) + Len(s)
      /\ \A i \in 1 .. Len(am) + Len(s) : (am \o s)[i] = IF i <= Len(am) THEN am[i] ELSE s[i - Len(am)]
  BY <1>4, ConcatProperties
<1>6. \A i \in 1 .. Len(t) : (am \o s)[i] = t[i]
  <2>1. TAKE i \in 1 .. Len(t)
  <2>2. CASE i <= r
    BY <1>1, <1>4, <1>5, <2>2
  <2>3. CASE ~ i <= r
    <3>1. i - r \in 1 .. Len(s) /\ r + (i - r) = i
      BY <1>1, <2>3
    <3>2. (am \o s)[i] = s[i - r]
      BY <1>1, <1>4, <1>5, <2>1, <2>3
    <3>3. s[i - r] = t[r + (i - r)]
      BY <3>1 DEF Behind
    <3>4. QED
      BY <3>1, <3>2, <3>3
  <2>4. QED
    BY <2>2, <2>3
<1>7. Len(am \o s) = Len(t)
  BY <1>1, <1>4, <1>5
<1>8. QED
  BY <1>5, <1>6, <1>7, SeqEqual DEF m, am

LEMMA SentIs ==
  ASSUME HubIInv, NEW f \in Followers, NEW t \in Seq(Messages), NEW e \in BOOLEAN, Queued(f, t, e), Reached(f) <= Len(t)
  PROVE  Sent(f) \in Seq(Messages) /\ Behind(Sent(f), t, Reached(f))
<1> DEFINE n == Len(t) - Reached(f)
<1>1. conn[f] \in Conn /\ queue[f] \in Queues
  BY DEF HubIInv, BroadcasterTypeOK, Queues
<1>2. Reached(f) \in Nat /\ n \in Nat
  <2>1. conn[f].got \in Seq(Messages) /\ conn[f].history \in Seq(Messages)
    BY <1>1 DEF Conn
  <2>2. QED
    BY <2>1 DEF Reached
<1>3. \A i \in 1 .. n : queue[f][i] \in Messages /\ queue[f][i] = t[Reached(f) + i]
  BY <1>2 DEF Queued
<1>4. Len(queue[f]) = n + (IF e THEN 1 ELSE 0) /\ (e => queue[f][Len(queue[f])] = End)
  BY DEF Queued
<1> HIDE DEF n
<1>5. CASE e
  <2>1. Sent(f) = SubSeq(queue[f], 1, n)
    BY <1>2, <1>4, <1>5 DEF Sent
  <2>2. QED
    BY <1>1, <1>2, <1>3, <1>4, <1>5, <2>1, SubSeqProperties DEF Queues, Behind, n
<1>6. CASE ~e
  <2>1. Sent(f) = queue[f]
    BY <1>1, <1>2, <1>3, <1>4, <1>6, HubTypes DEF Sent, Queues
  <2>2. queue[f] \in Seq(Messages)
    <3>1. SubSeq(queue[f], 1, n) \in Seq(Messages)
      BY <1>2, <1>3, SubSeqProperties
    <3>2. SubSeq(queue[f], 1, Len(queue[f])) = queue[f] /\ Len(queue[f]) = n
      BY <1>1, <1>2, <1>4, <1>6, SubSeqFull DEF Queues
    <3>3. QED
      BY <3>1, <3>2
  <2>3. QED
    BY <1>2, <1>3, <1>4, <1>6, <2>1, <2>2 DEF Behind, n
<1>7. QED
  BY <1>5, <1>6

LEMMA ServedMissNothing == ServedIInv => NothingMissed
<1> SUFFICES ASSUME ServedIInv, NEW f \in Followers, conn[f].phase = "streaming", Roomy(f)
             PROVE  Account(f) = buffer[conn[f].op]
  BY DEF NothingMissed
<1> DEFINE t == buffer[conn[f].op]
<1>1. conn[f].op \in Ops /\ t \in Seq(Messages) /\ conn[f] \in Conn
  BY DEF ServedIInv, HubIInv, BroadcasterTypeOK
<1>2. conn[f].got \in Seq(Messages) /\ conn[f].history \in Seq(Messages)
  BY <1>1 DEF Conn
<1>3. Begins(conn[f].history, t) /\ Begins(conn[f].got, t) /\ Queued(f, t, conn[f].op \notin streaming)
  BY DEF ServedIInv, Served
<1> HIDE DEF t
<1>4. Reached(f) \in Nat /\ Reached(f) <= Len(t)
  BY <1>2, <1>3 DEF Reached, Begins
<1>5. Sent(f) \in Seq(Messages) /\ Behind(Sent(f), t, Reached(f))
  BY <1>1, <1>3, <1>4, SentIs DEF ServedIInv
<1>6. conn[f].got \o SubSeq(conn[f].history, Len(conn[f].got) + 1, Len(conn[f].history)) \o Sent(f) = t
  <2> DEFINE a == conn[f].got
             h == conn[f].history
             s == Sent(f)
             r == Reached(f)
  <2>1. r \in {Len(a), Len(h)} /\ Len(a) <= r /\ Len(h) <= r
    BY <1>2 DEF Reached
  <2>2. a \in Seq(Messages) /\ h \in Seq(Messages) /\ s \in Seq(Messages) /\ t \in Seq(Messages) /\ r \in Nat
    BY <1>1, <1>2, <1>4, <1>5
  <2>3. Begins(a, t) /\ Begins(h, t) /\ Behind(s, t, r)
    BY <1>3, <1>5
  <2> HIDE DEF a, h, s, r
  <2>4. a \o SubSeq(h, Len(a) + 1, Len(h)) \o s = t
    BY <2>1, <2>2, <2>3, ThreeParts
  <2>5. QED
    BY <2>4 DEF a, h, s
<1>7. QED
  BY <1>6 DEF Account, t

\* A follower misses nothing, gets nothing twice and nothing out of order: what
\* _stream_to_websocket() has sent, has left of the history and finds in the queue is
\* what was broadcast, unless the queue may have overflowed.
THEOREM NothingIsMissed == BroadcasterSpec => []NothingMissed
BY ServedInvariant, ServedMissNothing, PTL

-----------------------------------------------------------------------------
(* Broadcaster implements FollowedStream *)

Follows == [f \in Followers |-> conn[f].op]
Heard == [f \in Followers |-> Len(conn[f].got)]
Told == {f \in Followers : conn[f].phase = "done" /\ ~conn[f].gone}
Left == {f \in Followers : conn[f].gone}

\* A step of one connection, in the terms of FollowedStream.
LEMMA ConnectionMaps ==
  ASSUME HubIInv, NEW f \in Followers, NEW c \in Conn, conn' = [conn EXCEPT ![f] = c], c.op = conn[f].op
  PROVE  /\ Follows' = Follows
         /\ Heard' = [Heard EXCEPT ![f] = Len(c.got)]
         /\ Told' = IF c.phase = "done" /\ ~c.gone THEN Told \cup {f} ELSE Told \ {f}
         /\ Left' = IF c.gone THEN Left \cup {f} ELSE Left \ {f}
<1>1. conn \in [Followers -> Conn]
  BY DEF HubIInv, BroadcasterTypeOK
<1>2. conn'[f] = c /\ \A g \in Followers : g # f => conn'[g] = conn[g]
  BY <1>1
<1>3. Follows' = Follows
  BY <1>2 DEF Follows
<1>4. Heard' = [Heard EXCEPT ![f] = Len(c.got)]
  <2>1. Heard' = [g \in Followers |-> IF g = f THEN Len(c.got) ELSE Heard[g]]
    BY <1>2 DEF Heard
  <2>2. Heard = [g \in Followers |-> Heard[g]]
    BY DEF Heard
  <2>3. QED
    BY <2>1, <2>2
<1>5. Told' = IF c.phase = "done" /\ ~c.gone THEN Told \cup {f} ELSE Told \ {f}
  BY <1>2 DEF Told
<1>6. Left' = IF c.gone THEN Left \cup {f} ELSE Left \ {f}
  BY <1>2 DEF Left
<1>7. QED
  BY <1>3, <1>4, <1>5, <1>6

\* Whoever is in the stream follows an operation, and is neither told nor gone.
LEMMA StreamingFollows ==
  ASSUME HubIInv, NEW f \in Followers, Streams(f)
  PROVE  /\ Follows[f] = conn[f].op /\ Follows[f] \in Ops /\ Follows[f] # None
         /\ f \notin Told /\ (f \in Left <=> conn[f].gone)
         /\ Heard[f] = Len(conn[f].got)
BY HubTypes DEF HubIInv, Streams, Follows, Told, Left, Heard

LEMMA StreamInitially == BroadcasterInit => Stream!StreamInit
BY DEF BroadcasterInit, Stream!StreamInit, NotFollowing

\* Whoever subscribes joins, the ones that did not follow anything.
LEMMA SubscribingMaps ==
  ASSUME HubIInv, NEW o \in Ops, NEW fs \in SUBSET Followers, NEW past \in Seq(Messages),
         Subscribing(fs, o, past), \A f \in fs : conn[f].phase = "idle"
  PROVE  /\ Follows' = [f \in Followers |-> IF f \in fs THEN o ELSE Follows[f]]
         /\ fs \subseteq {f \in Followers : Follows[f] = None}
         /\ UNCHANGED <<Heard, Told, Left>>
<1> DEFINE joined == [NotFollowing EXCEPT !.op = o, !.history = past, !.phase = "streaming"]
<1>1. joined.op = o /\ joined.phase = "streaming" /\ joined.got = <<>> /\ joined.gone = FALSE
  BY DEF NotFollowing
<1>2. \A f \in Followers : conn'[f] = IF f \in fs THEN joined ELSE conn[f]
  BY DEF Subscribing
<1> HIDE DEF joined
<1>3. \A f \in fs : conn[f].op = None /\ conn[f].phase = "idle" /\ conn[f].got = <<>> /\ conn[f].gone = FALSE
  BY DEF HubIInv, NotFollowing
<1>4. Follows' = [f \in Followers |-> IF f \in fs THEN o ELSE Follows[f]]
  BY <1>1, <1>2 DEF Follows
<1>5. fs \subseteq {f \in Followers : Follows[f] = None}
  BY <1>3 DEF Follows
<1>6. Heard' = Heard
  BY <1>1, <1>2, <1>3 DEF Heard
<1>7. Told' = Told /\ Left' = Left
  BY <1>1, <1>2, <1>3 DEF Told, Left
<1>8. QED
  BY <1>4, <1>5, <1>6, <1>7

\* The steps of the hub.
LEMMA StreamStartsOpens ==
  ASSUME HubIInv, NEW o \in Ops, o \notin streaming, NEW owners \in SUBSET Followers, NEW ms \in Seq(Messages),
         \A f \in owners : conn[f].phase = "idle", owners = {} \/ ms = <<>>, StreamStarts(o, owners, ms)
  PROVE  Stream!Open(o, owners, ms)
<1>1. /\ Follows' = [f \in Followers |-> IF f \in owners THEN o ELSE Follows[f]]
      /\ owners \subseteq {f \in Followers : Follows[f] = None} /\ UNCHANGED <<Heard, Told, Left>>
  <2>1. <<>> \in Seq(Messages) /\ Subscribing(owners, o, <<>>)
    BY DEF StreamStarts
  <2>2. QED
    BY <2>1, SubscribingMaps
<1>2. streaming' = streaming \cup {o} /\ buffer' = [buffer EXCEPT ![o] = ms]
  BY DEF HubIInv, StreamStarts
<1>3. QED
  BY <1>1, <1>2 DEF Stream!Open, Follows, Heard, Told, Left

LEMMA PublishedSays ==
  ASSUME HubIInv, NEW o \in Ops, o \in streaming, NEW ms \in Seq(Messages), NEW last \in BOOLEAN,
         IF last THEN PublishedLast(o, ms) ELSE Published(o, ms)
  PROVE  Stream!Say(o, ms, last)
BY DEF Stream!Say, Published, PublishedLast

LEMMA FollowJoins ==
  ASSUME HubIInv, NEW f \in Followers, NEW o \in Ops, Follow(f, o)
  PROVE  Stream!Join(f, o)
<1>1. Subscribing({f}, o, buffer[o]) /\ buffer[o] \in Seq(Messages) /\ \A g \in {f} : conn[g].phase = "idle"
  BY DEF Follow, HubIInv, BroadcasterTypeOK
<1>2. /\ Follows' = [g \in Followers |-> IF g \in {f} THEN o ELSE Follows[g]]
      /\ Follows[f] = None /\ UNCHANGED <<Heard, Told, Left>>
  BY <1>1, SubscribingMaps
<1>3. Follows' = [Follows EXCEPT ![f] = o]
  BY <1>2 DEF Follows
<1>4. QED
  BY <1>2, <1>3 DEF Stream!Join, Follow, Follows, Heard, Told, Left

LEMMA CleanUpShowsNothing ==
  ASSUME NEW o \in Ops, CleanUp(o)
  PROVE  UNCHANGED Stream!streamVars
BY DEF CleanUp, Stream!streamVars

\* The steps of a connection.  What it got next was in the stream.
LEMMA SendingHears ==
  ASSUME ServedIInv, ServedIInv', NEW f \in Followers, Roomy(f)', SendsHistory(f) \/ SendsLive(f)
  PROVE  Stream!Hear(f)
<1> DEFINE c == [conn[f] EXCEPT !.got = conn'[f].got]
<1>1. conn[f] \in Conn /\ conn'[f] \in Conn /\ conn \in [Followers -> Conn] /\ buffer' = buffer /\ streaming' = streaming
      /\ Streams(f) /\ ~conn[f].gone
  BY DEF ServedIInv, HubIInv, BroadcasterTypeOK, SendsHistory, SendsLive, Received, hub, Streams
<1>2. PICK m : Received(f, m)
  BY DEF SendsHistory, SendsLive
<1>3. conn' = [conn EXCEPT ![f].got = Append(conn[f].got, m)]
  BY <1>2 DEF Received
<1>4. conn'[f].got = Append(conn[f].got, m) /\ conn' = [conn EXCEPT ![f] = conn'[f]] /\ conn'[f].op = conn[f].op
      /\ conn'[f].phase = conn[f].phase /\ conn'[f].gone = conn[f].gone
  BY <1>1, <1>3 DEF Conn
<1>5. Len(conn'[f].got) = Len(conn[f].got) + 1
  BY <1>1, <1>4 DEF Conn
<1>6. Len(conn'[f].got) <= Len(buffer[conn[f].op])
  BY <1>1, <1>4 DEF ServedIInv, Served, Begins, Streams
<1>7. /\ UNCHANGED <<Follows, Told, Left>>
      /\ Heard' = [Heard EXCEPT ![f] = Len(conn[f].got) + 1]
  <2>1. /\ Follows' = Follows
        /\ Heard' = [Heard EXCEPT ![f] = Len(conn'[f].got)]
        /\ Told' = Told \ {f} /\ Left' = Left \ {f}
    BY <1>1, <1>4, ConnectionMaps DEF ServedIInv, Streams
  <2>2. f \notin Told /\ f \notin Left
    BY <1>1, StreamingFollows DEF ServedIInv
  <2>3. QED
    BY <1>5, <2>1, <2>2
<1>8. QED
  BY <1>1, <1>5, <1>6, <1>7, StreamingFollows DEF Stream!Hear, ServedIInv, Follows, Heard, Told, Left

LEMMA UnsubscribedMaps ==
  ASSUME ServedIInv, ServedIInv', NEW f \in Followers, Streams(f), Roomy(f)', Unsubscribed(f)
  PROVE  Stream!Close(f) \/ UNCHANGED Stream!streamVars
<1> DEFINE c == [conn[f] EXCEPT !.phase = "done"]
<1>1. conn[f] \in Conn /\ conn \in [Followers -> Conn]
  BY DEF ServedIInv, HubIInv, BroadcasterTypeOK
<1>2. c \in Conn /\ c.phase = "done" /\ c.op = conn[f].op /\ c.got = conn[f].got /\ c.gone = conn[f].gone
  BY <1>1 DEF Conn
<1>3. conn' = [conn EXCEPT ![f] = c] /\ buffer' = buffer /\ streaming' = streaming
  BY DEF Unsubscribed
<1> HIDE DEF c
<1>4. conn'[f] = c
  BY <1>1, <1>3
<1>5. /\ Follows' = Follows /\ Heard' = [Heard EXCEPT ![f] = Heard[f]]
      /\ Told' = IF ~c.gone THEN Told \cup {f} ELSE Told \ {f}
      /\ Left' = IF c.gone THEN Left \cup {f} ELSE Left \ {f}
  <2>1. /\ Follows' = Follows /\ Heard' = [Heard EXCEPT ![f] = Len(c.got)]
        /\ Told' = IF c.phase = "done" /\ ~c.gone THEN Told \cup {f} ELSE Told \ {f}
        /\ Left' = IF c.gone THEN Left \cup {f} ELSE Left \ {f}
    BY <1>2, <1>3, ConnectionMaps DEF ServedIInv
  <2>2. Heard[f] = Len(c.got)
    BY <1>2 DEF Heard
  <2>3. QED
    BY <1>2, <2>1, <2>2
<1>6. Heard' = Heard
  BY <1>5 DEF Heard
<1>7. CASE conn[f].gone
  BY <1>2, <1>3, <1>5, <1>6, <1>7, StreamingFollows DEF ServedIInv, Stream!streamVars, Follows, Heard, Told, Left
<1>8. CASE ~conn[f].gone
  <2>1. Len(conn[f].got) = Len(buffer[conn[f].op]) /\ conn[f].op \notin streaming
    BY <1>2, <1>3, <1>4, <1>8 DEF ServedIInv, Served
  <2>2. Told' = Told \cup {f} /\ Left' = Left
    BY <1>2, <1>5, <1>8, StreamingFollows DEF ServedIInv
  <2>3. Stream!Close(f)
    BY <1>3, <1>5, <1>6, <1>8, <2>1, <2>2, StreamingFollows DEF ServedIInv, Stream!Close, Follows, Heard, Told, Left
  <2>4. QED
    BY <2>3
<1>9. QED
  BY <1>7, <1>8

LEMMA DisconnectsLeaves ==
  ASSUME HubIInv, NEW f \in Followers, Disconnects(f)
  PROVE  Stream!Leave(f)
<1> DEFINE c == [conn[f] EXCEPT !.gone = TRUE]
<1>1. conn[f] \in Conn /\ Streams(f) /\ ~conn[f].gone
  BY DEF HubIInv, BroadcasterTypeOK, Disconnects, Streams
<1>2. c \in Conn /\ c.phase = conn[f].phase /\ c.op = conn[f].op /\ c.got = conn[f].got /\ c.gone = TRUE
  BY <1>1 DEF Conn
<1>3. conn' = [conn EXCEPT ![f] = c] /\ buffer' = buffer /\ streaming' = streaming
  BY DEF Disconnects, hub
<1> HIDE DEF c
<1>4. /\ Follows' = Follows /\ Heard' = [Heard EXCEPT ![f] = Heard[f]]
      /\ Told' = Told \ {f} /\ Left' = Left \cup {f}
  <2>1. /\ Follows' = Follows /\ Heard' = [Heard EXCEPT ![f] = Len(c.got)]
        /\ Told' = IF c.phase = "done" /\ ~c.gone THEN Told \cup {f} ELSE Told \ {f}
        /\ Left' = IF c.gone THEN Left \cup {f} ELSE Left \ {f}
    BY <1>2, <1>3, ConnectionMaps
  <2>2. Heard[f] = Len(c.got) /\ c.phase # "done"
    BY <1>1, <1>2 DEF Heard, Streams
  <2>3. QED
    BY <1>2, <2>1, <2>2
<1>5. Heard' = Heard
  BY <1>4 DEF Heard
<1>6. f \notin Told /\ f \notin Left /\ Follows[f] # None
  BY <1>1, StreamingFollows
<1>7. QED
  BY <1>3, <1>4, <1>5, <1>6 DEF Stream!Leave, Follows, Heard, Told, Left

LEMMA BroadcasterStepMaps ==
  ASSUME ServedIInv, ServedIInv', [BroadcasterNext]_broadcastVars, \A f \in Followers : Roomy(f)'
  PROVE  [Stream!StreamNext]_(Stream!streamVars)
<1>1. ASSUME NEW o \in Ops, o \notin kept,
             NEW owners \in {{}} \cup {{f} : f \in {g \in Followers : conn[g].phase = "idle"}}, StreamStarts(o, owners, <<>>)
      PROVE  Stream!StreamNext
  <2>1. owners \in SUBSET Followers /\ (\A f \in owners : conn[f].phase = "idle") /\ <<>> \in Seq(Messages)
    BY <1>1
  <2>2. Stream!Open(o, owners, <<>>)
    BY <1>1, <2>1, StreamStartsOpens DEF ServedIInv, HubIInv
  <2>3. QED
    BY <2>1, <2>2 DEF Stream!StreamNext
<1>2. ASSUME NEW o \in Ops, NEW m \in Messages, o \in streaming, Published(o, <<m>>) \/ PublishedLast(o, <<m>>)
      PROVE  Stream!StreamNext
  <2>1. <<m>> \in Seq(Messages) /\ <<m>> \in {<<n>> : n \in Messages}
    OBVIOUS
  <2>2. \E last \in BOOLEAN : Stream!Say(o, <<m>>, last)
    BY <1>2, <2>1, PublishedSays DEF ServedIInv
  <2>3. QED
    BY <2>1, <2>2 DEF Stream!StreamNext
<1>3. ASSUME NEW f \in Followers, ConnectionRuns(f)
      PROVE  Stream!StreamNext \/ UNCHANGED Stream!streamVars
  <2>1. Roomy(f)'
    OBVIOUS
  <2>2. CASE SendsHistory(f) \/ SendsLive(f)
    BY <2>1, <2>2, SendingHears DEF Stream!StreamNext
  <2>3. CASE SeesEnd(f) \/ SendFails(f)
    <3>1. Streams(f) /\ Unsubscribed(f)
      BY <2>3 DEF SeesEnd, SendFails, Streams
    <3>2. QED
      BY <2>1, <3>1, UnsubscribedMaps DEF Stream!StreamNext
  <2>4. QED
    BY <1>3, <2>2, <2>3 DEF ConnectionRuns
<1>4. ASSUME NEW f \in Followers, NEW o \in Ops, Follow(f, o)
      PROVE  Stream!StreamNext
  BY <1>4, FollowJoins DEF ServedIInv, Stream!StreamNext
<1>5. ASSUME NEW f \in Followers, Disconnects(f)
      PROVE  Stream!StreamNext
  BY <1>5, DisconnectsLeaves DEF ServedIInv, Stream!StreamNext
<1>6. ASSUME NEW o \in Ops, CleanUp(o)
      PROVE  UNCHANGED Stream!streamVars
  BY <1>6, CleanUpShowsNothing
<1>7. CASE UNCHANGED broadcastVars
  BY <1>7 DEF broadcastVars, hub, Stream!streamVars
<1>8. CASE BroadcasterNext
  BY <1>1, <1>2, <1>3, <1>4, <1>5, <1>6, <1>8 DEF BroadcasterNext
<1>9. QED
  BY <1>7, <1>8

LEMMA ServerLostLoses ==
  ASSUME ServerLost
  PROVE  Stream!Lose
<1>1. NotFollowing.op = None /\ NotFollowing.got = <<>> /\ NotFollowing.phase = "idle" /\ NotFollowing.gone = FALSE
  BY DEF NotFollowing
<1>2. QED
  BY <1>1 DEF ServerLost, Stream!Lose

\* While the queues hold, broadcaster.py keeps its promise: every message from the first
\* one, in order, and the end only after the last one.
THEOREM BroadcasterImplementsStream == BroadcasterSpec => ImplementsStream
<1>1. BroadcasterInit => Stream!StreamInit
  BY StreamInitially
<1>2. ServedIInv /\ ServedIInv' /\ [BroadcasterNext]_broadcastVars
        => [(\A f \in Followers : Roomy(f)') => Stream!StreamNext]_(Stream!streamVars)
  BY BroadcasterStepMaps
<1>3. QED
  BY <1>1, <1>2, ServedInvariant, PTL DEF BroadcasterSpec, ImplementsStream

-----------------------------------------------------------------------------
(* What a follower is told last *)

LastOf(s) == s[Len(s)]

\* Whoever gets the sentinel has got the last message of the stream before it.
Ended(f) ==
  LET c == conn[f] IN
    /\ c.phase = "streaming" => \A k \in 1 .. Len(queue[f]) : queue[f][k] = End =>
         /\ c.op \notin streaming
         /\ IF k > 1 THEN queue[f][k - 1] = LastOf(buffer[c.op])
            ELSE ~Replaying(f) /\ c.got # <<>> /\ LastOf(c.got) = LastOf(buffer[c.op])
    /\ c.phase = "done" /\ ~c.gone => c.op \notin streaming /\ c.got # <<>> /\ LastOf(c.got) = LastOf(buffer[c.op])

EndIInv == HubIInv /\ \A f \in Followers : Ended(f)

LEMMA EndedStays ==
  ASSUME NEW f \in Followers, Ended(f), conn'[f] = conn[f], queue'[f] = queue[f],
         conn[f].phase # "idle" => buffer'[conn[f].op] = buffer[conn[f].op] /\ (conn[f].op \in streaming' => conn[f].op \in streaming)
  PROVE  Ended(f)'
BY DEF Ended, Replaying

LEMMA EndInitially == BroadcasterInit => EndIInv
BY HubInitially DEF EndIInv, BroadcasterInit, NotFollowing, Ended

LEMMA StreamStartsEnds ==
  ASSUME EndIInv, HubIInv', NEW o \in Ops, NEW owners \in SUBSET Followers, NEW ms \in Seq(Messages), StreamStarts(o, owners, ms),
         \A f \in owners : conn[f].phase = "idle", \A f \in Followers : conn[f].op # o
  PROVE  EndIInv'
<1>1. /\ queue' = queue /\ buffer' = [buffer EXCEPT ![o] = ms] /\ streaming' = streaming \cup {o}
      /\ conn' = [f \in Followers |->
                    IF f \in owners THEN [NotFollowing EXCEPT !.op = o, !.history = <<>>, !.phase = "streaming"] ELSE conn[f]]
  BY DEF StreamStarts, Subscribing
<1>2. ASSUME NEW f \in owners
      PROVE  Ended(f)'
  <2>1. conn'[f].phase = "streaming" /\ queue'[f] = <<>>
    BY <1>1 DEF NotFollowing, EndIInv, HubIInv
  <2>2. QED
    BY <2>1 DEF Ended
<1>3. ASSUME NEW f \in Followers \ owners
      PROVE  Ended(f)'
  BY <1>1, EndedStays DEF EndIInv, HubIInv, BroadcasterTypeOK
<1>4. QED
  BY <1>2, <1>3 DEF EndIInv

\* What is put behind a queue, all of it or its first part.
LEMMA OfferedIs ==
  ASSUME NEW q \in Queues, Len(q) <= Capacity, NEW ms \in Queues, NEW k \in 1 .. Len(Offered(q, ms))
  PROVE  /\ k <= Len(q) => Offered(q, ms)[k] = q[k]
         /\ k > Len(q) => k - Len(q) \in 1 .. Len(ms) /\ Offered(q, ms)[k] = ms[k - Len(q)]
<1> DEFINE n == IF Len(ms) < Capacity - Len(q) THEN Len(ms) ELSE Capacity - Len(q)
           s == SubSeq(ms, 1, n)
<1>1. n \in Nat /\ n <= Len(ms) /\ Len(q) \in Nat /\ Len(ms) \in Nat
  BY HubTypes DEF Queues
<1>2. Offered(q, ms) = q \o s
  BY DEF Offered
<1> HIDE DEF n
<1>3. s \in Queues /\ Len(s) = n /\ \A i \in 1 .. n : s[i] = ms[i]
  BY <1>1 DEF Queues
<1> HIDE DEF s
<1>4. /\ Len(q \o s) = Len(q) + n
      /\ \A i \in 1 .. Len(q) + n : (q \o s)[i] = IF i <= Len(q) THEN q[i] ELSE s[i - Len(q)]
  BY <1>3, ConcatProperties DEF Queues
<1>5. k \in 1 .. Len(q) + n
  BY <1>2, <1>4
<1>6. CASE k <= Len(q)
  BY <1>1, <1>2, <1>4, <1>5, <1>6
<1>7. CASE k > Len(q)
  <2>1. k - Len(q) \in 1 .. n /\ k - Len(q) \in 1 .. Len(ms)
    BY <1>1, <1>5, <1>7
  <2>2. QED
    BY <1>1, <1>2, <1>3, <1>4, <1>5, <1>7, <2>1
<1>8. QED
  BY <1>1, <1>6, <1>7

\* The sentinel only comes with all that is published with it.
LEMMA SentinelIsLast ==
  ASSUME NEW q \in Queues, Len(q) <= Capacity, \A k \in 1 .. Len(q) : q[k] # End,
         NEW ms \in Seq(Messages), NEW t \in {ms, Append(ms, End)}, t # ms => ms # <<>>,
         NEW k \in 1 .. Len(Offered(q, t)), Offered(q, t)[k] = End
  PROVE  t # ms /\ k > 1 /\ Offered(q, t)[k - 1] = LastOf(ms)
<1>1. t \in Queues /\ ms \in Queues /\ Append(ms, End) \in Queues /\ Offered(q, t) \in Queues
  <2>1. ms \in Queues /\ Append(ms, End) \in Queues
    BY DEF Queues
  <2>2. t \in Queues
    BY <2>1
  <2>3. QED
    BY <2>1, <2>2, OfferedFits
<1>2. /\ Len(ms) \in Nat /\ Len(q) \in Nat /\ Len(Append(ms, End)) = Len(ms) + 1
      /\ \A i \in 1 .. Len(ms) : Append(ms, End)[i] = ms[i] /\ ms[i] \in Messages
  BY <1>1 DEF Queues
<1>3. k > Len(q) /\ k - Len(q) \in 1 .. Len(t) /\ t[k - Len(q)] = End
  <2>1. /\ k <= Len(q) => Offered(q, t)[k] = q[k]
        /\ k > Len(q) => k - Len(q) \in 1 .. Len(t) /\ Offered(q, t)[k] = t[k - Len(q)]
    BY <1>1, OfferedIs
  <2>2. k \in Nat /\ k >= 1
    BY <1>1 DEF Queues
  <2>3. ~ (k <= Len(q))
    BY <1>2, <2>1, <2>2
  <2>4. QED
    BY <1>2, <2>1, <2>2, <2>3
<1>4. ~ (k - Len(q) \in 1 .. Len(ms))
  BY <1>2, <1>3, HubTypes
<1>5. t = Append(ms, End) /\ t # ms
  BY <1>3, <1>4
<1>6. k - Len(q) = Len(ms) + 1 /\ Len(ms) > 0
  BY <1>2, <1>3, <1>4, <1>5
<1>7. k - 1 \in 1 .. Len(Offered(q, t)) /\ k - 1 > Len(q) /\ (k - 1) - Len(q) = Len(ms) /\ Len(ms) \in 1 .. Len(ms) /\ k > 1
  BY <1>1, <1>2, <1>6 DEF Queues
<1>8. Offered(q, t)[k - 1] = t[Len(ms)]
  BY <1>1, <1>7, OfferedIs
<1>9. QED
  BY <1>2, <1>5, <1>7, <1>8 DEF LastOf

LEMMA PublishedEnds ==
  ASSUME EndIInv, HubIInv', NEW o \in Ops, o \in streaming, NEW ms \in Seq(Messages), Published(o, ms) \/ (PublishedLast(o, ms) /\ ms # <<>>)
  PROVE  EndIInv'
<1>1. HubIInv /\ BroadcasterTypeOK
  BY DEF EndIInv, HubIInv
<1>2. buffer' = [buffer EXCEPT ![o] = buffer[o] \o ms] /\ conn' = conn
      /\ \A p \in Ops : p # o => (p \in streaming' <=> p \in streaming)
  BY DEF Published, PublishedLast
<1>3. PICK t \in {ms, Append(ms, End)} : Pushed(o, t) /\ (t # ms => o \notin streaming' /\ ms # <<>>)
  BY DEF Published, PublishedLast
<1>4. t \in Queues
  BY <1>3 DEF Queues
<1>5. ASSUME NEW f \in Followers, conn[f].op = o /\ conn[f].phase = "streaming"
      PROVE  Ended(f)'
  <2>1. f \in subscribers[o]
    BY <1>1, <1>5 DEF HubIInv, Streams
  <2>2. queue'[f] = Offered(queue[f], t) /\ queue[f] \in Queues /\ Len(queue[f]) <= Capacity
    BY <1>1, <1>3, <1>4, <2>1, PushedKeepsQueues DEF BroadcasterTypeOK, Queues
  <2>3. \A k \in 1 .. Len(queue[f]) : queue[f][k] # End
    BY <1>5 DEF EndIInv, Ended
  <2>4. buffer[o] \in Seq(Messages) /\ buffer'[o] = buffer[o] \o ms
    BY <1>1, <1>2 DEF BroadcasterTypeOK
  <2>5. ms # <<>> => LastOf(buffer'[o]) = LastOf(ms)
    <3>1. ms # <<>> => Len(ms) \in Nat /\ Len(ms) > 0 /\ Len(buffer[o]) \in Nat /\ Len(buffer[o] \o ms) = Len(buffer[o]) + Len(ms)
      BY <2>4
    <3>2. QED
      BY <2>4, <3>1, ConcatProperties DEF LastOf
  <2>6. ASSUME NEW k \in 1 .. Len(queue'[f]), queue'[f][k] = End
        PROVE  o \notin streaming' /\ k > 1 /\ queue'[f][k - 1] = LastOf(buffer'[o])
    <3>1. t # ms /\ k > 1 /\ Offered(queue[f], t)[k - 1] = LastOf(ms)
      BY <1>3, <2>2, <2>3, <2>6, SentinelIsLast
    <3>2. QED
      BY <1>3, <2>2, <2>5, <3>1
  <2>7. QED
    BY <1>2, <1>5, <2>6 DEF Ended
<1>6. ASSUME NEW f \in Followers, ~ (conn[f].op = o /\ conn[f].phase = "streaming")
      PROVE  Ended(f)'
  <2>1. f \notin subscribers[o]
    BY <1>1, <1>6 DEF HubIInv, Streams
  <2>2. queue'[f] = queue[f]
    BY <1>1, <1>3, <1>4, <2>1, PushedKeepsQueues
  <2>3. CASE conn[f].op # o
    BY <1>1, <1>2, <2>2, <2>3, EndedStays DEF EndIInv, HubIInv, BroadcasterTypeOK
  <2>4. CASE conn[f].op = o
    BY <1>2, <1>6, <2>4 DEF EndIInv, Ended
  <2>5. QED
    BY <2>3, <2>4
<1>7. QED
  BY <1>5, <1>6 DEF EndIInv

LEMMA FollowEnds ==
  ASSUME EndIInv, HubIInv', NEW f \in Followers, NEW o \in Ops, Follow(f, o)
  PROVE  EndIInv'
<1>1. /\ UNCHANGED <<queue, buffer, streaming>> /\ conn[f].phase = "idle"
      /\ conn' = [g \in Followers |->
                    IF g \in {f} THEN [NotFollowing EXCEPT !.op = o, !.history = buffer[o], !.phase = "streaming"] ELSE conn[g]]
  BY DEF Follow, Subscribing
<1>2. ASSUME NEW g \in Followers, g # f
      PROVE  Ended(g)'
  BY <1>1, <1>2, EndedStays DEF EndIInv
<1>3. Ended(f)'
  <2>1. conn'[f].phase = "streaming" /\ queue'[f] = <<>>
    BY <1>1 DEF NotFollowing, EndIInv, HubIInv
  <2>2. QED
    BY <2>1 DEF Ended
<1>4. QED
  BY <1>2, <1>3 DEF EndIInv

LEMMA OthersEnded ==
  ASSUME EndIInv, HubIInv', NEW f \in Followers, Ended(f)', UNCHANGED <<buffer, streaming>>,
         \A g \in Followers : g # f => conn'[g] = conn[g] /\ queue'[g] = queue[g]
  PROVE  EndIInv'
BY EndedStays DEF EndIInv

\* What a client gets is one message more than it had.
LEMMA ReceivedIs ==
  ASSUME HubIInv, NEW f \in Followers, NEW m \in Messages, Received(f, m)
  PROVE  /\ conn'[f].got = Append(conn[f].got, m) /\ conn'[f].got # <<>> /\ LastOf(conn'[f].got) = m
         /\ Len(conn'[f].got) = Len(conn[f].got) + 1 /\ Len(conn[f].got) \in Nat /\ Len(conn[f].history) \in Nat
         /\ conn'[f].op = conn[f].op /\ conn'[f].history = conn[f].history
         /\ conn'[f].phase = conn[f].phase /\ conn'[f].gone = conn[f].gone
         /\ \A g \in Followers : g # f => conn'[g] = conn[g]
<1>1. conn[f] \in Conn /\ conn \in [Followers -> Conn]
  BY DEF HubIInv, BroadcasterTypeOK
<1>2. conn[f].got \in Seq(Messages) /\ conn[f].history \in Seq(Messages)
  BY <1>1 DEF Conn
<1>3. conn' = [conn EXCEPT ![f].got = Append(conn[f].got, m)]
  BY DEF Received
<1>4. /\ conn'[f].got = Append(conn[f].got, m)
      /\ conn'[f].op = conn[f].op /\ conn'[f].history = conn[f].history
      /\ conn'[f].phase = conn[f].phase /\ conn'[f].gone = conn[f].gone
      /\ \A g \in Followers : g # f => conn'[g] = conn[g]
  BY <1>1, <1>3 DEF Conn
<1>5. /\ Append(conn[f].got, m) # <<>> /\ Len(Append(conn[f].got, m)) = Len(conn[f].got) + 1
      /\ Append(conn[f].got, m)[Len(conn[f].got) + 1] = m
  BY <1>2
<1>6. QED
  BY <1>2, <1>4, <1>5 DEF LastOf

LEMMA SendsHistoryEnds ==
  ASSUME EndIInv, HubIInv', NEW f \in Followers, SendsHistory(f)
  PROVE  EndIInv'
<1> DEFINE m == conn[f].history[Len(conn[f].got) + 1]
<1>1. m \in Messages
  <2>1. conn[f].got \in Seq(Messages) /\ conn[f].history \in Seq(Messages)
    BY DEF EndIInv, HubIInv, BroadcasterTypeOK, Conn
  <2>2. Len(conn[f].got) + 1 \in 1 .. Len(conn[f].history)
    BY <2>1 DEF SendsHistory, Replaying
  <2>3. QED
    BY <2>1, <2>2
<1>2. Received(f, m) /\ UNCHANGED <<buffer, streaming, queue>> /\ Replaying(f) /\ conn[f].phase = "streaming"
  BY DEF SendsHistory, hub
<1> HIDE DEF m
<1>3. conn'[f].op = conn[f].op /\ conn'[f].phase = "streaming" /\ \A g \in Followers : g # f => conn'[g] = conn[g]
  BY <1>1, <1>2, ReceivedIs DEF EndIInv
<1>4. Ended(f)'
  BY <1>2, <1>3 DEF EndIInv, Ended
<1>5. QED
  BY <1>2, <1>3, <1>4, OthersEnded

LEMMA SendsLiveEnds ==
  ASSUME EndIInv, HubIInv', NEW f \in Followers, SendsLive(f)
  PROVE  EndIInv'
<1> DEFINE m == Head(queue[f])
           q == queue[f]
<1>1. q \in Queues /\ q # <<>> /\ m # End /\ m = q[1] /\ queue \in [Followers -> Queues]
  BY DEF EndIInv, HubIInv, BroadcasterTypeOK, Queues, SendsLive
<1>2. m \in Messages
  BY <1>1 DEF Queues
<1>3. /\ Received(f, m) /\ UNCHANGED <<buffer, streaming>> /\ ~Replaying(f) /\ conn[f].phase = "streaming"
      /\ queue' = [queue EXCEPT ![f] = Tail(q)]
  BY DEF SendsLive, hub
<1>4. queue'[f] = Tail(q) /\ \A g \in Followers : g # f => queue'[g] = queue[g]
  BY <1>1, <1>3
<1>5. Len(Tail(q)) = Len(q) - 1 /\ Len(q) \in Nat /\ \A k \in 1 .. Len(Tail(q)) : Tail(q)[k] = q[k + 1] /\ k + 1 \in 1 .. Len(q)
  BY <1>1, HeadTailProperties DEF Queues
<1> HIDE DEF m
<1>6. /\ conn'[f].got # <<>> /\ LastOf(conn'[f].got) = m
      /\ Len(conn'[f].got) = Len(conn[f].got) + 1 /\ Len(conn[f].got) \in Nat /\ Len(conn[f].history) \in Nat
      /\ conn'[f].op = conn[f].op /\ conn'[f].history = conn[f].history /\ conn'[f].phase = "streaming"
      /\ \A g \in Followers : g # f => conn'[g] = conn[g]
  BY <1>2, <1>3, ReceivedIs DEF EndIInv
<1>7. ~Replaying(f)'
  BY <1>3, <1>6 DEF Replaying
<1>8. ASSUME NEW k \in 1 .. Len(queue'[f]), queue'[f][k] = End
      PROVE  /\ conn[f].op \notin streaming
             /\ IF k > 1 THEN queue'[f][k - 1] = LastOf(buffer[conn[f].op])
                ELSE LastOf(conn'[f].got) = LastOf(buffer[conn[f].op])
  <2>1. k + 1 \in 1 .. Len(q) /\ q[k + 1] = End /\ k + 1 > 1 /\ (k + 1) - 1 = k /\ k \in Nat /\ k >= 1
    BY <1>4, <1>5, <1>8
  <2>2. conn[f].op \notin streaming /\ q[k] = LastOf(buffer[conn[f].op])
    BY <1>3, <2>1 DEF EndIInv, Ended
  <2>3. CASE k > 1
    <3>1. k - 1 \in 1 .. Len(Tail(q)) /\ (k - 1) + 1 = k
      BY <1>4, <1>5, <1>8, <2>1, <2>3
    <3>2. QED
      BY <1>4, <1>5, <2>2, <2>3, <3>1
  <2>4. CASE ~ (k > 1)
    <3>1. k = 1
      BY <2>1, <2>4
    <3>2. QED
      BY <1>1, <1>6, <2>2, <2>4, <3>1
  <2>5. QED
    BY <2>3, <2>4
<1>9. Ended(f)'
  BY <1>3, <1>6, <1>7, <1>8 DEF Ended
<1>10. QED
  BY <1>3, <1>4, <1>6, <1>9, OthersEnded

LEMMA UnsubscribedEnds ==
  ASSUME EndIInv, HubIInv', NEW f \in Followers, SeesEnd(f) \/ SendFails(f)
  PROVE  EndIInv'
<1>1. HubIInv /\ conn[f] \in Conn /\ queue[f] \in Queues /\ conn[f].phase = "streaming" /\ Unsubscribed(f)
  BY DEF EndIInv, HubIInv, BroadcasterTypeOK, SeesEnd, SendFails, Queues
<1>2. /\ UNCHANGED <<buffer, streaming>> /\ conn'[f] = [conn[f] EXCEPT !.phase = "done"]
      /\ \A g \in Followers : g # f => conn'[g] = conn[g] /\ queue'[g] = queue[g]
  BY <1>1 DEF Unsubscribed, HubIInv, BroadcasterTypeOK
<1>3. conn'[f].phase = "done" /\ conn'[f].op = conn[f].op /\ conn'[f].got = conn[f].got /\ conn'[f].gone = conn[f].gone
  BY <1>1, <1>2 DEF Conn
<1>4. ASSUME ~conn[f].gone
      PROVE  conn[f].op \notin streaming /\ conn[f].got # <<>> /\ LastOf(conn[f].got) = LastOf(buffer[conn[f].op])
  <2>1. queue[f] # <<>> /\ Head(queue[f]) = End
    BY <1>4 DEF SeesEnd, SendFails
  <2>2. 1 \in 1 .. Len(queue[f]) /\ queue[f][1] = End /\ ~ (1 > 1)
    BY <1>1, <2>1 DEF Queues
  <2>3. QED
    BY <1>1, <2>2 DEF EndIInv, Ended
<1>5. Ended(f)'
  BY <1>2, <1>3, <1>4 DEF Ended
<1>6. QED
  BY <1>2, <1>5, OthersEnded

LEMMA DisconnectsEnds ==
  ASSUME EndIInv, HubIInv', NEW f \in Followers, Disconnects(f)
  PROVE  EndIInv'
<1>1. /\ UNCHANGED <<buffer, streaming, queue>> /\ conn'[f] = [conn[f] EXCEPT !.gone = TRUE] /\ conn[f] \in Conn
      /\ conn[f].phase = "streaming" /\ \A g \in Followers : g # f => conn'[g] = conn[g]
  BY DEF Disconnects, hub, EndIInv, HubIInv, BroadcasterTypeOK
<1>2. /\ conn'[f].phase = conn[f].phase /\ conn'[f].op = conn[f].op /\ conn'[f].got = conn[f].got
      /\ conn'[f].history = conn[f].history
  BY <1>1 DEF Conn
<1>3. Ended(f)'
  BY <1>1, <1>2 DEF EndIInv, Ended, Replaying
<1>4. QED
  BY <1>1, <1>3, OthersEnded

\* What a step of anything does to the hub.
HubStep ==
  \/ UNCHANGED broadcastVars
  \/ \E o \in Ops, owners \in SUBSET Followers, ms \in Seq(Messages) :
       /\ \A f \in owners : conn[f].phase = "idle"
       /\ \A f \in Followers : conn[f].op # o
       /\ owners = {} \/ ms = <<>>
       /\ o \notin streaming
       /\ StreamStarts(o, owners, ms)
  \/ \E o \in Ops, ms \in Seq(Messages) :
       o \in streaming /\ (Published(o, ms) \/ (PublishedLast(o, ms) /\ ms # <<>>))
  \/ \E o \in Ops : CleanUp(o)
  \/ \E f \in Followers, o \in Ops : Follow(f, o)
  \/ \E f \in Followers : ConnectionRuns(f) \/ Disconnects(f)
  \/ ServerLost

LEMMA HubStepServes ==
  ASSUME ServedIInv, HubStep
  PROVE  ServedIInv'
BY StreamStartsServes, PublishedServes, CleanUpServes, FollowServes, ConnectionServes, ServerLostServes, HubUnchangedServes
   DEF HubStep

LEMMA HubStepEnds ==
  ASSUME EndIInv, HubIInv', HubStep
  PROVE  EndIInv'
<1>1. CASE UNCHANGED broadcastVars \/ \E o \in Ops : CleanUp(o)
  <2>1. UNCHANGED <<buffer, queue, conn, streaming>>
    BY <1>1 DEF broadcastVars, hub, CleanUp
  <2>2. QED
    BY <2>1, EndedStays DEF EndIInv
<1>2. CASE ServerLost
  BY <1>2, HubTypes DEF ServerLost, EndIInv, Ended
<1>3. ASSUME NEW f \in Followers, ConnectionRuns(f) \/ Disconnects(f)
      PROVE  EndIInv'
  BY <1>3, SendsHistoryEnds, SendsLiveEnds, UnsubscribedEnds, DisconnectsEnds DEF ConnectionRuns
<1>4. QED
  BY <1>1, <1>2, <1>3, StreamStartsEnds, PublishedEnds, FollowEnds DEF HubStep

-----------------------------------------------------------------------------
(* The records of an operation *)

\* The statuses the records of an operation have.
Said(o) == {history[i].status : i \in Records(o)}

Entry == [op : Ops, status : Statuses]

LEMMA SaidIs ==
  ASSUME NEW o
  PROVE  /\ \A statuses : HasStatus(o, statuses) <=> \E status \in statuses : status \in Said(o)
         /\ Records(o) = {} <=> Said(o) = {}
BY DEF HasStatus, Said

LEMMA CompletedSays ==
  ASSUME history \in Seq(Entry), NEW o \in Ops, NEW status \in Statuses, history' = Completed(o, status)
  PROVE  /\ history' \in Seq(Entry) /\ Len(history') = Len(history)
         /\ Said(o)' \subseteq {status}
         /\ \A p \in Ops : p # o => Said(p)' = Said(p)
<1>1. DOMAIN history = 1 .. Len(history) /\ Len(history) \in Nat
  OBVIOUS
<1>2. DOMAIN history' = 1 .. Len(history)
      /\ \A i \in 1 .. Len(history) : history'[i] = IF history[i].op = o THEN [op |-> o, status |-> status] ELSE history[i]
  BY <1>1 DEF Completed, Records
<1>3. history' \in [1 .. Len(history) -> Entry]
  <2>1. \A i \in 1 .. Len(history) : history[i] \in Entry
    OBVIOUS
  <2>2. \A i \in 1 .. Len(history) : history'[i] \in Entry
    <3>1. [op |-> o, status |-> status] \in Entry
      BY DEF Entry
    <3>2. QED
      BY <1>2, <2>1, <3>1
  <2>3. history' = [i \in 1 .. Len(history) |-> history'[i]]
    BY <1>1, <1>2 DEF Completed
  <2>4. QED
    BY <2>2, <2>3
<1>4. history' \in Seq(Entry)
  BY <1>1, <1>3, SeqDef
<1>5. Len(history') = Len(history)
  BY <1>1, <1>2, <1>4
<1>6. Said(o)' \subseteq {status}
  BY <1>2 DEF Said, Records
<1>7. ASSUME NEW p \in Ops, p # o
      PROVE  Said(p)' = Said(p)
  BY <1>1, <1>2, <1>7 DEF Said, Records
<1>8. QED
  BY <1>4, <1>5, <1>6, <1>7

LEMMA RecordedSays ==
  ASSUME history \in Seq(Entry), NEW o \in Ops, history' = Recorded(o)
  PROVE  /\ history' \in Seq(Entry) /\ Len(history') <= MaxHistory
         /\ Said(o)' \subseteq Said(o) \cup {"running"}
         /\ \A p \in Ops : p # o => Said(p)' \subseteq Said(p)
<1> DEFINE e == [op |-> o, status |-> "running"]
           h == <<e>> \o history
           n == IF Len(h) < MaxHistory THEN Len(h) ELSE MaxHistory
<1>1. e \in Entry /\ <<e>> \in Seq(Entry) /\ Len(<<e>>) = 1 /\ <<e>>[1] = e /\ Len(history) \in Nat
  BY DEF Entry, Statuses
<1>2. /\ h \in Seq(Entry) /\ Len(h) = Len(history) + 1
      /\ \A i \in 1 .. Len(history) + 1 : h[i] = IF i <= 1 THEN <<e>>[i] ELSE history[i - 1]
  BY <1>1, ConcatProperties
<1>3. history' = SubSeq(h, 1, n)
  BY DEF Recorded
<1>4. MaxHistory \in Nat
  BY OperationConstants DEF OperationConstants
<1> HIDE DEF h, e
<1>5. n \in Nat /\ n <= MaxHistory /\ n <= Len(h)
  BY <1>1, <1>2, <1>4
<1> HIDE DEF n
<1>6. history' \in Seq(Entry) /\ Len(history') = n /\ \A i \in 1 .. n : history'[i] = h[i]
  BY <1>2, <1>3, <1>5, <1>1
<1>7. ASSUME NEW i \in DOMAIN history'
      PROVE  history'[i] = e \/ \E j \in DOMAIN history : history'[i] = history[j]
  <2>1. i \in 1 .. n /\ i \in 1 .. Len(history) + 1
    BY <1>1, <1>2, <1>5, <1>6, <1>7
  <2>2. CASE i = 1
    BY <1>1, <1>2, <1>6, <2>1, <2>2
  <2>3. CASE i # 1
    <3>1. i - 1 \in DOMAIN history /\ ~ (i <= 1)
      BY <1>1, <2>1, <2>3
    <3>2. QED
      BY <1>2, <1>6, <2>1, <3>1
  <2>4. QED
    BY <2>2, <2>3
<1>8. e.op = o /\ e.status = "running"
  BY DEF e
<1>9. Said(o)' \subseteq Said(o) \cup {"running"}
  BY <1>7, <1>8 DEF Said, Records
<1>10. ASSUME NEW p \in Ops, p # o
       PROVE  Said(p)' \subseteq Said(p)
  BY <1>7, <1>8, <1>10 DEF Said, Records
<1>11. QED
  BY <1>5, <1>6, <1>9, <1>10

LEMMA ClearedSays ==
  ASSUME history \in Seq(Entry), Len(history) <= MaxHistory, ClearHistory
  PROVE  /\ history' \in Seq(Entry) /\ Len(history') <= MaxHistory
         /\ \A p \in Ops : Said(p)' \subseteq Said(p)
<1> DEFINE stay == {i \in DOMAIN history : history[i].status = "running"}
<1>1. PICK n \in 0 .. Len(history) : \E pick \in [1 .. n -> stay] : history' = [i \in 1 .. n |-> history[pick[i]]]
  BY DEF ClearHistory
<1>2. PICK pick \in [1 .. n -> stay] : history' = [i \in 1 .. n |-> history[pick[i]]]
  BY <1>1
<1>3. n \in Nat /\ n <= Len(history) /\ Len(history) \in Nat /\ MaxHistory \in Nat
  BY <1>2, OperationConstants DEF OperationConstants
<1>4. \A i \in 1 .. n : pick[i] \in DOMAIN history /\ history[pick[i]] \in Entry
  BY <1>2
<1>5. history' \in [1 .. n -> Entry]
  BY <1>2, <1>4
<1>6. history' \in Seq(Entry) /\ Len(history') = n /\ DOMAIN history' = 1 .. n
  BY <1>3, <1>5, SeqDef
<1>7. ASSUME NEW p \in Ops
      PROVE  Said(p)' \subseteq Said(p)
  BY <1>2, <1>4, <1>6 DEF Said, Records
<1>8. QED
  BY <1>3, <1>6, <1>7

LEMMA BootSays ==
  ASSUME history \in Seq(Entry), Boot
  PROVE  /\ history' \in Seq(Entry) /\ Len(history') = Len(history)
         /\ \A p \in Ops : \A status \in Said(p)' : status # "running" /\ (status \in Said(p) \/ (status = "failed" /\ "running" \in Said(p)))
<1>1. DOMAIN history = 1 .. Len(history) /\ Len(history) \in Nat
  OBVIOUS
<1>2. \A i \in 1 .. Len(history) : history[i] \in Entry /\ history[i].op \in Ops /\ history[i].status \in Statuses
  <2>1. \A i \in 1 .. Len(history) : history[i] \in Entry
    OBVIOUS
  <2>2. QED
    BY <2>1 DEF Entry
<1>3. DOMAIN history' = 1 .. Len(history)
      /\ \A i \in 1 .. Len(history) :
           history'[i] = IF history[i].status = "running" THEN [history[i] EXCEPT !.status = "failed"] ELSE history[i]
  BY <1>1 DEF Boot
<1>4. \A i \in 1 .. Len(history) :
        /\ history'[i] \in Entry /\ history'[i].op = history[i].op
        /\ history'[i].status = IF history[i].status = "running" THEN "failed" ELSE history[i].status
  BY <1>2, <1>3 DEF Entry, Statuses
<1>5. history' \in [1 .. Len(history) -> Entry]
  BY <1>1, <1>4 DEF Boot
<1>6. history' \in Seq(Entry)
  BY <1>1, <1>5, SeqDef
<1>7. Len(history') = Len(history)
  BY <1>1, <1>3, <1>6
<1>8. QED
  BY <1>1, <1>3, <1>4, <1>6, <1>7 DEF Said, Records

-----------------------------------------------------------------------------
(* Operations: what each one's record, task, tool and stream say of each other *)

Active == {"created", "toc", "pre", "spawning", "reading", "waiting", "post"}

\* The task, its event and its stream.
TaskIInv(o) ==
  LET r == run[o] IN
    /\ r.phase = "none" <=> r.request = None
    /\ r.phase = "none" => Said(o) = {}
    /\ r.phase \in {"queued", "push"} => Kind(o) = "scheduled"
    /\ o \in running <=> r.phase \in Active
    /\ o \in streaming <=> r.phase \in Active
    /\ o \in kept => r.phase \in Active \cup {"over", "push"}
    /\ r.phase \in {"none", "queued", "lost"} => buffer[o] = <<>>
    /\ ~alive => r.phase \in {"none", "over", "lost"}

\* The record.
RecordIInv(o) ==
  LET r == run[o] IN
    /\ alive /\ "running" \in Said(o) => r.phase \in Active \cup {"queued"}
    /\ r.phase \in Active /\ Kind(o) # "scheduled" => Said(o) \subseteq {"running"}
    /\ "completed" \in Said(o) => r.phase \in {"over", "push", "lost"}
    /\ r.phase = "over" /\ Kind(o) \in {"backup", "restore"} /\ buffer[o] # <<>> =>
         \A status \in Said(o) : status = "completed" <=> LastOf(buffer[o]) = "ok"

\* A restore that has put everything back.
Restores(r) == ~r.faulty /\ (r.proc = "zero" \/ (r.proc = "one" /\ r.request.clean))

\* A completed operation has done what it was asked for.
Truth(o) ==
  IF Kind(o) \in {"backup", "scheduled"} THEN file[o] = "whole" ELSE target[o] = "restored" /\ o \notin restoring

\* The tool and the data.
DataIInv(o) ==
  LET r == run[o] IN
    /\ r.phase # "none" /\ Kind(o) \in {"backup", "scheduled"} => r.tool = "dump"
    /\ r.phase # "none" /\ Kind(o) = "restore" => r.tool = "restore"
    /\ r.phase \in {"none", "queued", "created", "toc", "pre", "spawning"} => r.proc = "none"
    /\ r.tool = "dump" /\ r.phase \in {"reading", "waiting"} /\ r.proc = "zero" => file[o] = "whole"
    /\ r.tool = "restore" /\ r.phase \in {"reading", "waiting", "post"} /\ Restores(r) => target[o] = "restored"
    /\ r.phase # "none" => r.tool # "none"
    /\ r.phase \in {"toc", "pre", "post"} => r.tool = "restore"
    /\ r.phase = "pre" => r.request.ts
    /\ r.phase = "push" => file[o] = "whole"
    /\ r.phase \in {"waiting", "post"} /\ ~r.cut /\ r.faulty => r.errors
    /\ o \in restoring => r.request # None /\ r.request.ts
    /\ "completed" \in Said(o) => Truth(o)

OperationsIInv ==
  /\ OperationTypeOK
  /\ \A o \in Ops : TaskIInv(o) /\ RecordIInv(o) /\ DataIInv(o)

RunRecord == [request : Requests \cup {None}, phase : Phases, tool : {"none", "dump", "restore"},
              proc : {"none", "works", "zero", "one", "bad"}, faulty : BOOLEAN, errors : BOOLEAN, cut : BOOLEAN]

LEMMA OperationTypes ==
  /\ Active \subseteq Phases
  /\ "info" \in Messages /\ "line" \in Messages /\ "phase" \in Messages /\ "ok" \in Messages /\ "fail" \in Messages
  /\ NoRun \in RunRecord /\ NoRun.request = None /\ NoRun.phase = "none" /\ NoRun.proc = "none"
  /\ None \notin Requests /\ MaxHistory \in Nat
  /\ \A q \in Requests : q.kind \in {"backup", "restore", "transfer", "scheduled"} /\ q.ts \in BOOLEAN
BY OperationConstants DEF OperationConstants, Active, Phases, NoRun, RunRecord

\* What is not touched keeps its invariant; of its records some may be dropped.
Untouched(p) ==
  /\ run'[p] = run[p] /\ file'[p] = file[p] /\ target'[p] = target[p] /\ buffer'[p] = buffer[p]
  /\ alive' = alive
  /\ p \in restoring' <=> p \in restoring
  /\ p \in running' <=> p \in running
  /\ p \in streaming' <=> p \in streaming
  /\ p \in kept' => p \in kept
  /\ Said(p)' \subseteq Said(p)

LEMMA UntouchedKeeps ==
  ASSUME NEW p \in Ops, TaskIInv(p), RecordIInv(p), DataIInv(p), Untouched(p)
  PROVE  TaskIInv(p)' /\ RecordIInv(p)' /\ DataIInv(p)'
<1>1. Kind(p)' = Kind(p)
  BY DEF Untouched, Kind
<1>2. TaskIInv(p)'
  BY <1>1 DEF Untouched, TaskIInv
<1>3. RecordIInv(p)'
  BY <1>1 DEF Untouched, RecordIInv
<1>4. DataIInv(p)'
  BY <1>1 DEF Untouched, DataIInv, Truth, Restores
<1>5. QED
  BY <1>2, <1>3, <1>4

\* The data of the other operations are left alone.
DataElsewhere(o) ==
  /\ file' \in [Ops -> {"none", "partial", "whole"}]
  /\ target' \in [Ops -> {"untouched", "partial", "restored"}]
  /\ restoring' \subseteq Ops
  /\ \A p \in Ops : p # o => file'[p] = file[p] /\ target'[p] = target[p] /\ (p \in restoring' <=> p \in restoring)

\* An operation that goes on: its record and its stream stay open.
GoesOn(o, r) ==
  /\ run[o].phase \in Active /\ r.phase \in Active /\ r.request = run[o].request
  /\ run' = [run EXCEPT ![o] = r]
  /\ UNCHANGED <<logVars, serverVars>>
  /\ UNCHANGED broadcastVars \/ \E ms \in Seq(Messages) : Published(o, ms)

LEMMA GoesOnKeeps ==
  ASSUME OperationsIInv, HubIInv', NEW o \in Ops, NEW r \in RunRecord, GoesOn(o, r), DataElsewhere(o), DataIInv(o)'
  PROVE  OperationsIInv'
<1>1. run \in [Ops -> RunRecord] /\ run'[o] = r /\ \A p \in Ops : p # o => run'[p] = run[p]
  BY DEF OperationsIInv, OperationTypeOK, RunRecord, GoesOn
<1>2. /\ UNCHANGED <<history, running, cancel, alive, crashes, told, kept, streaming>>
      /\ \A p \in Ops : p # o => buffer'[p] = buffer[p]
  BY DEF GoesOn, logVars, serverVars, Published, broadcastVars, hub, OperationsIInv, OperationTypeOK, BroadcasterTypeOK
<1>3. \A p \in Ops : Said(p)' = Said(p)
  BY <1>2 DEF Said, Records
<1>4. OperationTypeOK'
  <2>1. run' \in [Ops -> RunRecord]
    BY <1>1 DEF GoesOn
  <2>2. QED
    BY <1>2, <2>1 DEF OperationsIInv, OperationTypeOK, RunRecord, DataElsewhere, HubIInv
<1>5. ASSUME NEW p \in Ops, p # o
      PROVE  TaskIInv(p)' /\ RecordIInv(p)' /\ DataIInv(p)'
  <2>1. Untouched(p)
    BY <1>1, <1>2, <1>3, <1>5 DEF Untouched, DataElsewhere
  <2>2. QED
    BY <2>1, UntouchedKeeps DEF OperationsIInv
<1>6. Kind(o)' = Kind(o)
  BY <1>1 DEF Kind, GoesOn
<1>7. TaskIInv(o)'
  BY <1>1, <1>2, <1>3, <1>6 DEF OperationsIInv, TaskIInv, GoesOn, Active
<1>8. RecordIInv(o)'
  BY <1>1, <1>2, <1>3, <1>6 DEF OperationsIInv, RecordIInv, GoesOn, Active
<1>9. QED
  BY <1>4, <1>5, <1>7, <1>8 DEF OperationsIInv

Outcomes == {"completed", "failed", "cancelled"}

\* An operation that ends: it is told what is recorded.
Concludes(o, status) ==
  /\ run[o].phase \in Active
  /\ history' = Completed(o, status) /\ running' = running \ {o} /\ cancel' = cancel \ {o}
  /\ \E ms \in Seq(Messages) :
       /\ ms # <<>> /\ PublishedLast(o, ms)
       /\ Kind(o) # "transfer" => (status = "completed" <=> LastOf(ms) = "ok")
  /\ \E phase \in {"over", "push"} : Moved(o, phase) /\ (phase = "push" => Kind(o) = "scheduled" /\ status = "completed")
  /\ file' = file \/ (Kind(o) = "transfer" /\ file' = [file EXCEPT ![o] = "none"])

LEMMA LastOfConcat ==
  ASSUME NEW S, NEW s \in Seq(S), NEW t \in Seq(S), t # <<>>
  PROVE  s \o t # <<>> /\ LastOf(s \o t) = LastOf(t)
<1>1. Len(t) \in Nat /\ Len(t) > 0 /\ Len(s) \in Nat /\ Len(s \o t) = Len(s) + Len(t)
  OBVIOUS
<1>2. QED
  BY <1>1, ConcatProperties DEF LastOf

LEMMA ConcludesKeeps ==
  ASSUME OperationsIInv, HubIInv', NEW o \in Ops, NEW status \in Outcomes, Concludes(o, status),
         UNCHANGED <<target, serverVars>>, restoring' \subseteq restoring,
         \A p \in Ops : p # o => (p \in restoring' <=> p \in restoring),
         status = "completed" => IF Kind(o) \in {"backup", "scheduled"} THEN file[o] = "whole"
                                 ELSE target[o] = "restored" /\ o \notin restoring'
  PROVE  OperationsIInv'
<1>1. PICK ms \in Seq(Messages) :
        /\ ms # <<>> /\ PublishedLast(o, ms)
        /\ Kind(o) # "transfer" => (status = "completed" <=> LastOf(ms) = "ok")
  BY DEF Concludes
<1>2. PICK phase \in {"over", "push"} : Moved(o, phase) /\ (phase = "push" => Kind(o) = "scheduled" /\ status = "completed")
  BY DEF Concludes
<1>3. run \in [Ops -> RunRecord] /\ history \in Seq(Entry) /\ Len(history) <= MaxHistory
      /\ file \in [Ops -> {"none", "partial", "whole"}] /\ buffer \in [Ops -> Seq(Messages)]
  BY DEF OperationsIInv, OperationTypeOK, BroadcasterTypeOK, RunRecord, Entry
<1>4. /\ history' \in Seq(Entry) /\ Len(history') = Len(history)
      /\ Said(o)' \subseteq {status} /\ \A p \in Ops : p # o => Said(p)' = Said(p)
  BY <1>3, CompletedSays DEF Concludes, Outcomes, Statuses
<1>5. /\ run' \in [Ops -> RunRecord] /\ run'[o] = [run[o] EXCEPT !.phase = phase]
      /\ \A p \in Ops : p # o => run'[p] = run[p]
  <2>1. [run[o] EXCEPT !.phase = phase] \in RunRecord
    BY <1>3 DEF RunRecord, Phases
  <2>2. QED
    BY <1>2, <1>3, <2>1 DEF Moved
<1>6. /\ run'[o].phase = phase /\ run'[o].request = run[o].request /\ run'[o].tool = run[o].tool
      /\ run'[o].faulty = run[o].faulty /\ run'[o].proc = run[o].proc
  BY <1>3, <1>5 DEF RunRecord
<1>7. /\ buffer' = [buffer EXCEPT ![o] = buffer[o] \o ms] /\ kept' = kept /\ streaming' = streaming \ {o}
      /\ LastOf(buffer'[o]) = LastOf(ms)
  BY <1>1, <1>3, LastOfConcat DEF PublishedLast
<1>8. /\ file' \in [Ops -> {"none", "partial", "whole"}] /\ \A p \in Ops : p # o => file'[p] = file[p]
      /\ Kind(o) # "transfer" => file'[o] = file[o]
  BY <1>3 DEF Concludes
<1>9. OperationTypeOK'
  BY <1>3, <1>4, <1>5, <1>8 DEF OperationsIInv, OperationTypeOK, RunRecord, Entry, Concludes, serverVars, HubIInv
<1>10. ASSUME NEW p \in Ops, p # o
       PROVE  TaskIInv(p)' /\ RecordIInv(p)' /\ DataIInv(p)'
  <2>1. Untouched(p)
    BY <1>3, <1>4, <1>5, <1>7, <1>8, <1>10 DEF Untouched, Concludes, serverVars
  <2>2. QED
    BY <2>1, UntouchedKeeps DEF OperationsIInv
<1>11. Kind(o)' = Kind(o)
  BY <1>6 DEF Kind
<1>12. run[o].phase \in Active /\ run[o].request # None /\ alive' = alive /\ running' = running \ {o}
  BY DEF Concludes, OperationsIInv, TaskIInv, serverVars, Active
<1>13. TaskIInv(o)'
  BY <1>2, <1>4, <1>6, <1>7, <1>11, <1>12 DEF TaskIInv, OperationsIInv, Active
<1>14. RecordIInv(o)'
  BY <1>1, <1>2, <1>4, <1>6, <1>7, <1>11, <1>12 DEF RecordIInv, Outcomes, Active
<1>15. DataIInv(o)'
  BY <1>2, <1>4, <1>6, <1>8, <1>11, <1>12 DEF DataIInv, OperationsIInv, Truth, Restores, Active
<1>16. QED
  BY <1>9, <1>10, <1>13, <1>14, <1>15 DEF OperationsIInv

-----------------------------------------------------------------------------
(* Operations: the steps of a task *)

\* An outcome that is recorded stays.
Final(p) == Kind(p) # "scheduled" /\ Said(p) # {} /\ "running" \notin Said(p) => Said(p)' \subseteq Said(p)

\* What is shown of every step.
Preserves == HubStep /\ (HubIInv' => OperationsIInv') /\ \A p \in Ops : Final(p)

LEMMA GoesOnPreserves ==
  ASSUME OperationsIInv, NEW o \in Ops, NEW r \in RunRecord, GoesOn(o, r), DataElsewhere(o), DataIInv(o)'
  PROVE  Preserves
<1>1. o \in streaming
  BY DEF OperationsIInv, TaskIInv, GoesOn
<1>2. HubStep
  BY <1>1 DEF GoesOn, HubStep
<1>3. \A p \in Ops : Final(p)
  BY DEF GoesOn, logVars, Final, Said, Records
<1>4. QED
  BY <1>2, <1>3, GoesOnKeeps DEF Preserves

LEMMA ConcludesPreserves ==
  ASSUME OperationsIInv, NEW o \in Ops, NEW status \in Outcomes, Concludes(o, status),
         UNCHANGED <<target, serverVars>>, restoring' \subseteq restoring,
         \A p \in Ops : p # o => (p \in restoring' <=> p \in restoring),
         status = "completed" => IF Kind(o) \in {"backup", "scheduled"} THEN file[o] = "whole"
                                 ELSE target[o] = "restored" /\ o \notin restoring'
  PROVE  Preserves
<1>1. o \in streaming
  BY DEF OperationsIInv, TaskIInv, Concludes
<1>2. HubStep
  BY <1>1 DEF Concludes, HubStep
<1>3. HubIInv' => OperationsIInv'
  BY ConcludesKeeps
<1>4. \A p \in Ops : p # o => Said(p)' = Said(p)
  BY CompletedSays DEF OperationsIInv, OperationTypeOK, Entry, Concludes, Outcomes, Statuses
<1>5. Kind(o) # "scheduled" => Said(o) \subseteq {"running"}
  BY DEF OperationsIInv, RecordIInv, Concludes
<1>6. QED
  BY <1>2, <1>3, <1>4, <1>5 DEF Preserves, Final

\* A tool's run ends the operation, or the dump of a transfer is followed by its restore.
LEMMA ToolEndsIs ==
  ASSUME OperationsIInv, NEW o \in Ops, run[o].phase \in Active, NEW verdict \in Outcomes, NEW ms \in Seq(Messages),
         ToolEnds(o, verdict, ms)
  PROVE  \/ \E status \in Outcomes :
              /\ Concludes(o, status)
              /\ status = "completed" => verdict = "completed" /\ (Kind(o) = "transfer" => run[o].tool # "dump")
         \/ verdict = "completed" /\ Kind(o) = "transfer" /\ run[o].tool = "dump" /\ TransferGoesOn(o, ms)
<1>1. CASE Kind(o) # "transfer"
  <2> DEFINE last == IF verdict = "completed" THEN "ok" ELSE "fail"
             ns == Append(ms, last)
  <2>1. SingleEnds(o, verdict, ms)
    BY <1>1 DEF ToolEnds
  <2>2. ns \in Seq(Messages) /\ ns # <<>> /\ LastOf(ns) = last
    BY OperationTypes DEF LastOf
  <2>3. PublishedLast(o, ns) /\ (verdict = "completed" <=> LastOf(ns) = "ok")
    BY <2>1, <2>2 DEF SingleEnds, Concluded
  <2> HIDE DEF ns
  <2>4. \E phase \in {"over", "push"} : Moved(o, phase) /\ (phase = "push" => Kind(o) = "scheduled" /\ verdict = "completed")
    BY <2>1 DEF SingleEnds
  <2>5. Concludes(o, verdict)
    BY <2>1, <2>2, <2>3, <2>4 DEF SingleEnds, Concluded, Concludes
  <2>6. QED
    BY <1>1, <2>5
<1>2. ASSUME Kind(o) = "transfer", NEW v \in Outcomes, NEW ns \in Seq(Messages), TransferEnds(o, v, ns)
      PROVE  \E status \in Outcomes : Concludes(o, status) /\ (status = "completed" => v = "completed")
  <2> DEFINE status == IF o \in cancel THEN "cancelled" ELSE v
             tail == <<"phase", IF v = "completed" THEN "ok" ELSE "fail">>
  <2>1. tail \in Seq(Messages) /\ tail # <<>>
    BY OperationTypes
  <2> HIDE DEF tail
  <2>2. ns \o tail \in Seq(Messages) /\ ns \o tail # <<>>
    BY <1>2, <2>1, LastOfConcat
  <2>3. Concluded(o, status, ns \o tail) /\ Moved(o, "over")
        /\ file' = [file EXCEPT ![o] = IF status = "completed" THEN "none" ELSE file[o]]
    BY <1>2 DEF TransferEnds, tail
  <2>4. status \in Outcomes /\ (status = "completed" => v = "completed")
    BY <1>2 DEF Outcomes
  <2> HIDE DEF status
  <2>5. file' = file \/ file' = [file EXCEPT ![o] = "none"]
    BY <2>3 DEF OperationsIInv, OperationTypeOK
  <2>6. Concludes(o, status)
    BY <1>2, <2>2, <2>3, <2>5 DEF Concludes, Concluded
  <2>7. QED
    BY <2>4, <2>6
<1>3. CASE Kind(o) = "transfer"
  <2>1. ms \o <<"phase", "info">> \in Seq(Messages) /\ "failed" \in Outcomes
    BY OperationTypes DEF Outcomes
  <2>2. CASE run[o].tool = "dump" /\ verdict = "completed" /\ TransferGoesOn(o, ms)
    BY <1>3, <2>2
  <2>3. CASE TransferEnds(o, "failed", ms \o <<"phase", "info">>)
    <3>1. \E status \in Outcomes : Concludes(o, status) /\ (status = "completed" => "failed" = "completed")
      BY <1>2, <1>3, <2>1, <2>3
    <3>2. QED
      BY <3>1
  <2>4. CASE ~ (run[o].tool = "dump" /\ verdict = "completed") /\ TransferEnds(o, verdict, ms)
    BY <1>2, <1>3, <2>4
  <2>5. QED
    BY <1>3, <2>2, <2>3, <2>4 DEF ToolEnds
<1>4. QED
  BY <1>1, <1>3

\* A tool's run that fails.
LEMMA FailurePreserves ==
  ASSUME OperationsIInv, NEW o \in Ops, run[o].phase \in Active, NEW ms \in Seq(Messages), ToolEnds(o, "failed", ms),
         UNCHANGED <<target, serverVars>>, restoring' \subseteq restoring,
         \A p \in Ops : p # o => (p \in restoring' <=> p \in restoring)
  PROVE  Preserves
<1>1. "failed" \in Outcomes
  BY DEF Outcomes
<1>2. PICK status \in Outcomes : Concludes(o, status) /\ status # "completed"
  BY <1>1, ToolEndsIs
<1>3. QED
  BY <1>2, ConcludesPreserves

\* The dump of a transfer is done, and its restore begins.
LEMMA TransferGoesOnPreserves ==
  ASSUME OperationsIInv, NEW o \in Ops, run[o].phase \in Active, Kind(o) = "transfer", NEW ms \in Seq(Messages), TransferGoesOn(o, ms),
         UNCHANGED <<target, restoring, serverVars>>
  PROVE  Preserves
<1> DEFINE r == [NoRun EXCEPT !.request = run[o].request, !.phase = RestorePhase(o), !.tool = "restore"]
<1>1. run[o] \in RunRecord /\ RestorePhase(o) \in {"toc", "pre", "spawning"} /\ (RestorePhase(o) = "pre" => run[o].request.ts)
  BY DEF OperationsIInv, OperationTypeOK, RunRecord, RestorePhase
<1>2. r \in RunRecord /\ r.phase \in {"toc", "pre", "spawning"} /\ (r.phase = "pre" => r.request.ts) /\ r.request = run[o].request /\ r.tool = "restore" /\ r.proc = "none"
  BY <1>1, OperationTypes DEF RunRecord, NoRun, Phases
<1>3. run' = [run EXCEPT ![o] = r] /\ UNCHANGED <<logVars, file>> /\ Published(o, ms \o <<"phase", "info">>)
  BY DEF TransferGoesOn
<1> HIDE DEF r
<1>4. ms \o <<"phase", "info">> \in Seq(Messages)
  BY OperationTypes
<1>5. GoesOn(o, r)
  BY <1>2, <1>3, <1>4 DEF GoesOn, Active
<1>6. DataElsewhere(o)
  BY <1>3 DEF DataElsewhere, OperationsIInv, OperationTypeOK
<1>7. run'[o] = r /\ Kind(o)' = "transfer" /\ Said(o)' = Said(o)
  BY <1>2, <1>3 DEF OperationsIInv, OperationTypeOK, Kind, Said, Records, logVars
<1>8. "completed" \notin Said(o)
  BY DEF OperationsIInv, RecordIInv, Active
<1>9. DataIInv(o)'
  BY <1>2, <1>3, <1>7, <1>8 DEF OperationsIInv, DataIInv
<1>10. QED
  BY <1>2, <1>5, <1>6, <1>9, GoesOnPreserves

\* A tool's run that ends as its exit code and its messages say.
LEMMA VerdictPreserves ==
  ASSUME OperationsIInv, NEW o \in Ops, run[o].phase \in {"waiting", "post"}, NEW ms \in Seq(Messages),
         ToolEnds(o, Verdict(o), ms), UNCHANGED <<target, serverVars>>, restoring' \subseteq restoring,
         \A p \in Ops : p # o => (p \in restoring' <=> p \in restoring),
         run[o].tool = "restore" => o \notin restoring' \/ run[o].cut,
         run[o].tool = "dump" => restoring' = restoring
  PROVE  Preserves
<1>1. run[o].phase \in Active /\ Verdict(o) \in Outcomes
  BY DEF Active, Verdict, DumpVerdict, RestoreVerdict, Outcomes
<1>2. run[o] \in RunRecord /\ DataIInv(o) /\ TaskIInv(o)
  BY DEF OperationsIInv, OperationTypeOK, RunRecord
<1>3. Verdict(o) = "completed" =>
        IF run[o].tool = "dump" THEN run[o].proc = "zero"
        ELSE ~run[o].cut /\ ~run[o].errors /\ (run[o].proc = "zero" \/ (run[o].proc = "one" /\ run[o].request.clean))
  BY DEF Verdict, DumpVerdict, RestoreVerdict
<1>4. CASE Kind(o) = "transfer" /\ run[o].tool = "dump" /\ TransferGoesOn(o, ms)
  BY <1>1, <1>4, TransferGoesOnPreserves
<1>5. ASSUME NEW status \in Outcomes, Concludes(o, status),
             status = "completed" => Verdict(o) = "completed" /\ (Kind(o) = "transfer" => run[o].tool # "dump")
      PROVE  Preserves
  <2>1. run[o].request \in Requests /\ run[o].tool \in {"dump", "restore"}
    BY <1>1, <1>2 DEF RunRecord, TaskIInv, DataIInv, Active
  <2>2. Kind(o) \in {"backup", "restore", "transfer", "scheduled"}
    BY <2>1, OperationTypes DEF Kind
  <2>3. ASSUME status = "completed"
        PROVE  IF Kind(o) \in {"backup", "scheduled"} THEN file[o] = "whole" ELSE target[o] = "restored" /\ o \notin restoring'
    <3>1. CASE Kind(o) \in {"backup", "scheduled"}
      BY <1>2, <1>3, <1>5, <2>3, <3>1 DEF DataIInv
    <3>2. CASE Kind(o) \in {"restore", "transfer"}
      <4>1. run[o].tool = "restore"
        BY <1>2, <1>5, <2>1, <2>3, <3>2 DEF DataIInv
      <4>2. ~run[o].cut /\ ~run[o].faulty
        BY <1>2, <1>3, <1>5, <2>3, <4>1 DEF DataIInv, RunRecord
      <4>3. Restores(run[o])
        BY <1>3, <1>5, <2>3, <4>1, <4>2 DEF Restores
      <4>4. QED
        BY <1>2, <3>2, <4>1, <4>2, <4>3 DEF DataIInv
    <3>3. QED
      BY <2>2, <3>1, <3>2
  <2>4. QED
    BY <1>5, <2>3, ConcludesPreserves
<1>6. QED
  BY <1>1, <1>4, <1>5, ToolEndsIs

LEMMA MovedIs ==
  ASSUME OperationsIInv, NEW o \in Ops, NEW phase \in Phases, Moved(o, phase)
  PROVE  /\ run' \in [Ops -> RunRecord] /\ \A p \in Ops : p # o => run'[p] = run[p]
         /\ run'[o] \in RunRecord /\ run' = [run EXCEPT ![o] = run'[o]]
         /\ run'[o].phase = phase /\ run'[o].request = run[o].request /\ run'[o].tool = run[o].tool /\ run'[o].proc = run[o].proc
         /\ run'[o].faulty = run[o].faulty /\ run'[o].errors = run[o].errors /\ run'[o].cut = run[o].cut
<1> DEFINE r == [run[o] EXCEPT !.phase = phase]
<1>1. run \in [Ops -> RunRecord] /\ run[o] \in RunRecord
  BY DEF OperationsIInv, OperationTypeOK, RunRecord
<1>2. /\ r \in RunRecord /\ r.phase = phase /\ r.request = run[o].request /\ r.tool = run[o].tool /\ r.proc = run[o].proc
      /\ r.faulty = run[o].faulty /\ r.errors = run[o].errors /\ r.cut = run[o].cut
  BY <1>1 DEF RunRecord
<1>3. run' = [run EXCEPT ![o] = r]
  BY <1>1 DEF Moved
<1> HIDE DEF r
<1>4. QED
  BY <1>1, <1>2, <1>3

\* A task that only moves on.
LEMMA MovesPreserves ==
  ASSUME OperationsIInv, NEW o \in Ops, NEW phase \in Active, run[o].phase \in Active, Moved(o, phase),
         UNCHANGED <<logVars, file, target, serverVars>>, UNCHANGED broadcastVars \/ \E ms \in Seq(Messages) : Published(o, ms),
         restoring' \subseteq Ops, \A p \in Ops : p # o => (p \in restoring' <=> p \in restoring),
         o \in restoring' => o \in restoring \/ run[o].request.ts,
         phase \in {"toc", "pre", "spawning"} => run[o].proc = "none" /\ (phase # "spawning" => run[o].tool = "restore"),
         phase = "pre" => run[o].request.ts,
         phase = "waiting" => run[o].phase = "reading" /\ (run[o].faulty => run[o].errors),
         phase = "post" => run[o].phase = "waiting" /\ run[o].tool = "restore",
         phase \notin {"created", "reading"}
  PROVE  Preserves
<1> DEFINE r == run'[o]
<1>1. /\ r \in RunRecord /\ run' = [run EXCEPT ![o] = r]
      /\ r.phase = phase /\ r.request = run[o].request /\ r.tool = run[o].tool /\ r.proc = run[o].proc
      /\ r.faulty = run[o].faulty /\ r.errors = run[o].errors /\ r.cut = run[o].cut
  BY MovedIs, OperationTypes
<1>2. GoesOn(o, r)
  BY <1>1 DEF GoesOn
<1>3. DataElsewhere(o)
  BY DEF DataElsewhere, OperationsIInv, OperationTypeOK
<1>4. Kind(o)' = Kind(o) /\ Said(o)' = Said(o) /\ file'[o] = file[o] /\ target'[o] = target[o]
  BY <1>1 DEF Kind, Said, Records, logVars
<1>5. /\ DataIInv(o) /\ TaskIInv(o) /\ "completed" \notin Said(o)
  BY DEF OperationsIInv, RecordIInv, Active
<1>6. DataIInv(o)'
  <2>1. run[o].request # None
    BY <1>5 DEF TaskIInv, Active
  <2>2. Restores(r) <=> Restores(run[o])
    BY <1>1 DEF Restores
  <2> HIDE DEF r
  <2>3. run'[o] = r
    BY DEF r
  <2>4. QED
    BY <1>1, <1>4, <1>5, <2>1, <2>2, <2>3 DEF DataIInv, Active, Restores
<1>7. QED
  BY <1>1, <1>2, <1>3, <1>6, GoesOnPreserves

LEMMA Ready ==
  ASSUME OperationsIInv, NEW o \in Ops
  PROVE  /\ run[o] \in RunRecord /\ TaskIInv(o) /\ RecordIInv(o) /\ DataIInv(o)
         /\ run[o].phase \in Active => run[o].request \in Requests
         /\ RestorePhase(o) \in {"toc", "pre", "spawning"} /\ (RestorePhase(o) = "pre" => run[o].request.ts)
         /\ <<>> \in Seq(Messages) /\ <<"info">> \in Seq(Messages) /\ <<"line">> \in Seq(Messages) /\ <<"fail">> \in Seq(Messages)
         /\ restoring \subseteq Ops
<1>1. run[o] \in RunRecord /\ TaskIInv(o) /\ RecordIInv(o) /\ DataIInv(o) /\ restoring \subseteq Ops
  BY DEF OperationsIInv, OperationTypeOK, RunRecord
<1>2. run[o].phase \in Active => run[o].request \in Requests
  BY <1>1 DEF TaskIInv, RunRecord, Active
<1>3. QED
  BY <1>1, <1>2, OperationTypes DEF RestorePhase

LEMMA EnterPreserves ==
  ASSUME OperationsIInv, NEW o \in Ops, Enter(o)
  PROVE  Preserves
<1>1. run[o].phase = "created" /\ run[o].phase \in Active /\ UNCHANGED <<target, restoring, serverVars>>
  BY DEF Enter, Active
<1>2. CASE Concluded(o, "failed", <<"fail">>) /\ Moved(o, "over") /\ file' = file
  <2>1. <<"fail">> # <<>> /\ LastOf(<<"fail">>) = "fail" /\ "failed" \in Outcomes
    BY DEF LastOf, Outcomes
  <2>2. Concludes(o, "failed")
    BY <1>1, <1>2, <2>1, Ready DEF Concludes, Concluded
  <2>3. QED
    BY <1>1, <2>1, <2>2, ConcludesPreserves
<1>3. CASE ToolEnds(o, "failed", <<>>)
  BY <1>1, <1>3, Ready, FailurePreserves
<1>4. ASSUME NEW phase \in {RestorePhase(o), "spawning"}, phase = IF run[o].tool = "restore" THEN RestorePhase(o) ELSE "spawning",
             NEW ms \in {<<>>, <<"info">>}, Moved(o, phase), Published(o, ms), UNCHANGED <<logVars, file>>
      PROVE  Preserves
  <2>1. phase \in {"toc", "pre", "spawning"} /\ phase \in Active /\ (phase # "spawning" => run[o].tool = "restore") /\ ms \in Seq(Messages)
        /\ (phase = "pre" => run[o].request.ts)
    BY <1>4, Ready DEF Active
  <2>2. run[o].proc = "none"
    BY <1>1, Ready DEF DataIInv
  <2>3. QED
    BY <1>1, <1>4, <2>1, <2>2, Ready, MovesPreserves
<1>5. QED
  BY <1>1, <1>2, <1>3, <1>4 DEF Enter

LEMMA ListContentsPreserves ==
  ASSUME OperationsIInv, NEW o \in Ops, ListContents(o)
  PROVE  Preserves
<1>1. run[o].phase = "toc" /\ run[o].phase \in Active /\ UNCHANGED <<target, restoring, serverVars>>
  BY DEF ListContents, Active
<1>2. CASE ToolEnds(o, "failed", <<>>)
  BY <1>1, <1>2, Ready, FailurePreserves
<1>3. ASSUME NEW phase \in {"pre", "spawning"}, phase = "pre" => run[o].request.ts, Moved(o, phase), Published(o, <<"info">>), UNCHANGED <<logVars, file>>
      PROVE  Preserves
  <2>1. phase \in Active /\ run[o].proc = "none" /\ run[o].tool = "restore"
    BY <1>1, Ready DEF DataIInv, Active
  <2>2. QED
    BY <1>1, <1>3, <2>1, Ready, MovesPreserves
<1>4. QED
  BY <1>1, <1>2, <1>3 DEF ListContents

LEMMA PreRestorePreserves ==
  ASSUME OperationsIInv, NEW o \in Ops, PreRestore(o)
  PROVE  Preserves
<1>1. run[o].phase = "pre" /\ run[o].phase \in Active /\ UNCHANGED <<target, serverVars>>
  BY DEF PreRestore, Active
<1>2. CASE ToolEnds(o, "failed", <<>>) /\ UNCHANGED restoring
  BY <1>1, <1>2, Ready, FailurePreserves
<1>3. CASE restoring' = restoring \cup {o} /\ Moved(o, "spawning") /\ Published(o, <<"info">>) /\ UNCHANGED <<logVars, file>>
  <2>1. "spawning" \in Active /\ run[o].proc = "none" /\ run[o].request.ts
    BY <1>1, Ready DEF DataIInv, Active
  <2>2. QED
    BY <1>1, <1>3, <2>1, Ready, MovesPreserves
<1>4. QED
  BY <1>1, <1>2, <1>3 DEF PreRestore

LEMMA SpawnPreserves ==
  ASSUME OperationsIInv, NEW o \in Ops, Spawn(o)
  PROVE  Preserves
<1>1. PICK faulty \in BOOLEAN :
        run' = [run EXCEPT ![o] = [run[o] EXCEPT !.phase = "reading", !.proc = "works", !.faulty = faulty]]
  BY DEF Spawn, OperationsIInv, OperationTypeOK
<1> DEFINE r == [run[o] EXCEPT !.phase = "reading", !.proc = "works", !.faulty = faulty]
<1>2. run[o].phase = "spawning" /\ run[o].phase \in Active /\ UNCHANGED <<broadcastVars, logVars, restoring, serverVars>>
  BY DEF Spawn, Active
<1>3. r \in RunRecord /\ r.phase = "reading" /\ r.phase \in Active /\ r.proc = "works" /\ r.request = run[o].request /\ r.tool = run[o].tool
  BY <1>1, Ready, OperationTypes DEF RunRecord, Active
<1>4. run' = [run EXCEPT ![o] = r]
  BY <1>1
<1> HIDE DEF r
<1>5. run'[o] = r /\ GoesOn(o, r)
  BY <1>2, <1>3, <1>4 DEF GoesOn, OperationsIInv, OperationTypeOK
<1>6. DataElsewhere(o)
  BY <1>2 DEF DataElsewhere, Spawn, OperationsIInv, OperationTypeOK
<1>7. Kind(o)' = Kind(o) /\ Said(o)' = Said(o) /\ "completed" \notin Said(o) /\ (run[o].tool = "dump" => target' = target)
  BY <1>2, <1>3, <1>5, Ready DEF Kind, Said, Records, logVars, RecordIInv, Spawn
<1>8. DataIInv(o)'
  BY <1>2, <1>3, <1>5, <1>7, Ready DEF DataIInv, Restores
<1>9. QED
  BY <1>3, <1>5, <1>6, <1>8, GoesOnPreserves

LEMMA SpawnFailsPreserves ==
  ASSUME OperationsIInv, NEW o \in Ops, SpawnFails(o) \/ ReadBreaks(o)
  PROVE  Preserves
<1>1. run[o].phase \in Active /\ ToolEnds(o, "failed", <<>>) /\ UNCHANGED <<target, restoring, serverVars>>
  BY DEF SpawnFails, ReadBreaks, Active
<1>2. QED
  BY <1>1, Ready, FailurePreserves

LEMMA ReadLinePreserves ==
  ASSUME OperationsIInv, NEW o \in Ops, ReadLine(o)
  PROVE  Preserves
<1>1. run[o].phase = "reading" /\ run[o].phase \in Active /\ UNCHANGED <<target, restoring, serverVars>>
  BY DEF ReadLine, Active
<1>2. CASE ToolEnds(o, "failed", <<"line">>)
  BY <1>1, <1>2, Ready, FailurePreserves
<1>3. ASSUME NEW errors \in BOOLEAN, NEW cut \in BOOLEAN, NEW phase \in {"reading", "waiting"}, phase = "waiting" => cut,
             run' = [run EXCEPT ![o] = [run[o] EXCEPT !.errors = errors, !.cut = cut, !.phase = phase]],
             Published(o, <<"line">>), UNCHANGED <<logVars, file>>
      PROVE  Preserves
  <2> DEFINE r == [run[o] EXCEPT !.errors = errors, !.cut = cut, !.phase = phase]
  <2>1. run' = [run EXCEPT ![o] = r]
    BY <1>3
  <2>2. r \in RunRecord
    BY <1>3, Ready DEF RunRecord, Phases
  <2>3. /\ r.phase = phase /\ r.cut = cut /\ r.proc = run[o].proc
        /\ r.request = run[o].request /\ r.tool = run[o].tool /\ r.faulty = run[o].faulty
    BY Ready DEF RunRecord
  <2> HIDE DEF r
  <2>4. run'[o] = r /\ GoesOn(o, r)
    BY <1>1, <1>3, <2>1, <2>3, Ready DEF GoesOn, OperationsIInv, OperationTypeOK, Active
  <2>5. DataElsewhere(o)
    BY <1>1, <1>3 DEF DataElsewhere, OperationsIInv, OperationTypeOK
  <2>6. Kind(o)' = Kind(o) /\ Said(o)' = Said(o) /\ "completed" \notin Said(o)
    BY <1>1, <1>3, <2>3, <2>4, Ready DEF Kind, Said, Records, logVars, RecordIInv
  <2>7. Restores(r) <=> Restores(run[o])
    BY <2>3 DEF Restores
  <2>8. DataIInv(o)'
    BY <1>1, <1>3, <2>3, <2>4, <2>6, <2>7, Ready DEF DataIInv
  <2>9. QED
    BY <2>2, <2>4, <2>5, <2>8, GoesOnPreserves
<1>4. ASSUME NEW error \in {FALSE, run[o].faulty}, Published(o, <<"line">>), UNCHANGED <<logVars, file>>,
             run' = [run EXCEPT ![o] = [@ EXCEPT !.errors = run[o].errors \/ error, !.cut = o \in cancel,
                                                 !.phase = IF o \in cancel THEN "waiting" ELSE "reading"]]
      PROVE  Preserves
  <2> DEFINE errors == run[o].errors \/ error
             cut == o \in cancel
             phase == IF o \in cancel THEN "waiting" ELSE "reading"
  <2>1. run' = [run EXCEPT ![o] = [run[o] EXCEPT !.errors = errors, !.cut = cut, !.phase = phase]]
    BY <1>4
  <2>2. errors \in BOOLEAN /\ cut \in BOOLEAN /\ phase \in {"reading", "waiting"} /\ (phase = "waiting" => cut)
    OBVIOUS
  <2> HIDE DEF errors, cut, phase
  <2>3. QED
    BY <1>3, <1>4, <2>1, <2>2
<1>5. QED
  BY <1>1, <1>2, <1>4 DEF ReadLine

LEMMA ReadEndPreserves ==
  ASSUME OperationsIInv, NEW o \in Ops, ReadEnd(o)
  PROVE  Preserves
<1>1. /\ run[o].phase = "reading" /\ run[o].phase \in Active /\ "waiting" \in Active /\ Moved(o, "waiting")
      /\ run[o].faulty => run[o].errors
      /\ UNCHANGED <<broadcastVars, logVars, file, target, restoring, serverVars>>
  BY DEF ReadEnd, Active, dataVars
<1>2. QED
  BY <1>1, Ready, MovesPreserves

LEMMA WaitPreserves ==
  ASSUME OperationsIInv, NEW o \in Ops, Wait(o)
  PROVE  Preserves
<1>1. run[o].phase = "waiting" /\ run[o].phase \in Active /\ "post" \in Active /\ UNCHANGED <<target, restoring, serverVars>>
  BY DEF Wait, Active
<1>2. CASE /\ run[o].tool = "restore" /\ run[o].request.ts /\ ~run[o].cut
           /\ Moved(o, "post") /\ Published(o, <<"info">>) /\ UNCHANGED <<logVars, file>>
  BY <1>1, <1>2, Ready, MovesPreserves
<1>3. CASE ~ (run[o].tool = "restore" /\ run[o].request.ts /\ ~run[o].cut) /\ ToolEnds(o, Verdict(o), <<>>)
  <2>1. run[o].tool = "restore" => o \notin restoring' \/ run[o].cut
    BY <1>1, <1>3, Ready DEF DataIInv
  <2>2. QED
    BY <1>1, <1>3, <2>1, Ready, VerdictPreserves
<1>4. QED
  BY <1>2, <1>3 DEF Wait

LEMMA PostRestorePreserves ==
  ASSUME OperationsIInv, NEW o \in Ops, PostRestore(o)
  PROVE  Preserves
<1>1. run[o].phase = "post" /\ run[o].phase \in Active /\ run[o].tool = "restore" /\ UNCHANGED <<target, serverVars>>
  BY Ready DEF PostRestore, Active, DataIInv
<1>2. CASE restoring' = restoring \ {o} /\ ToolEnds(o, Verdict(o), <<"info">>)
  BY <1>1, <1>2, Ready, VerdictPreserves
<1>3. CASE UNCHANGED restoring /\ ToolEnds(o, "failed", <<"info">>)
  BY <1>1, <1>3, Ready, FailurePreserves
<1>4. QED
  BY <1>2, <1>3 DEF PostRestore

\* A step of one operation that is neither of these.
LEMMA OwnStep ==
  ASSUME OperationsIInv, NEW o \in Ops, OperationTypeOK', TaskIInv(o)' /\ RecordIInv(o)' /\ DataIInv(o)',
         \A p \in Ops : p # o => Untouched(p)
  PROVE  OperationsIInv'
BY UntouchedKeeps DEF OperationsIInv

LEMMA ToolExitsPreserves ==
  ASSUME OperationsIInv, NEW o \in Ops, ToolExits(o)
  PROVE  Preserves
<1>1. PICK code \in {"zero", "one", "bad"} :
        /\ run' = [run EXCEPT ![o].proc = code]
        /\ IF run[o].tool = "dump"
             THEN /\ file' = [file EXCEPT ![o] = IF code = "zero" THEN "whole" ELSE file[o]]
                  /\ UNCHANGED target
             ELSE /\ target' = [target EXCEPT ![o] =
                       IF ~run[o].faulty /\ (code = "zero" \/ (code = "one" /\ run[o].request.clean))
                         THEN "restored" ELSE target[o]]
                  /\ UNCHANGED file
  BY DEF ToolExits, OperationsIInv, OperationTypeOK
<1>2. run[o].proc = "works" /\ UNCHANGED <<broadcastVars, logVars, restoring, serverVars>>
  BY DEF ToolExits
<1>3. /\ run' \in [Ops -> RunRecord] /\ run'[o].proc = code /\ run'[o].request = run[o].request /\ run'[o].phase = run[o].phase
      /\ run'[o].tool = run[o].tool /\ run'[o].faulty = run[o].faulty /\ run'[o].errors = run[o].errors /\ run'[o].cut = run[o].cut
      /\ \A p \in Ops : p # o => run'[p] = run[p]
  <2>1. run \in [Ops -> RunRecord] /\ run[o] \in RunRecord
    BY DEF OperationsIInv, OperationTypeOK, RunRecord
  <2>2. QED
    BY <1>1, <2>1 DEF RunRecord
<1>4. /\ DataElsewhere(o)
      /\ file'[o] = file[o] \/ file'[o] = "whole"
      /\ target'[o] = target[o] \/ target'[o] = "restored"
      /\ run[o].tool = "dump" /\ code = "zero" => file'[o] = "whole"
      /\ run[o].tool = "restore" /\ ~run[o].faulty /\ (code = "zero" \/ (code = "one" /\ run[o].request.clean)) => target'[o] = "restored"
  BY <1>1, <1>2 DEF DataElsewhere, OperationsIInv, OperationTypeOK
<1>5. /\ \A p \in Ops : Said(p)' = Said(p)
      /\ Kind(o)' = Kind(o) /\ UNCHANGED <<history, running, cancel, alive, crashes, told, kept, streaming, buffer>>
  BY <1>2, <1>3 DEF Said, Records, logVars, serverVars, broadcastVars, hub, Kind
<1>6. ASSUME HubIInv'
      PROVE  OperationsIInv'
  <2>1. OperationTypeOK'
    BY <1>3, <1>4, <1>5, <1>6 DEF OperationsIInv, OperationTypeOK, RunRecord, DataElsewhere, HubIInv
  <2>2. \A p \in Ops : p # o => Untouched(p)
    BY <1>3, <1>4, <1>5 DEF Untouched, DataElsewhere
  <2>3. TaskIInv(o)'
    BY <1>3, <1>5, Ready DEF TaskIInv
  <2>4. RecordIInv(o)'
    BY <1>3, <1>5, Ready DEF RecordIInv
  <2>5. DataIInv(o)'
    BY <1>2, <1>3, <1>4, <1>5, Ready DEF DataIInv, Restores, Truth
  <2>6. QED
    BY <2>1, <2>2, <2>3, <2>4, <2>5, OwnStep
<1>7. QED
  BY <1>2, <1>5, <1>6 DEF Preserves, HubStep, Final

\* A run that has no stream yet is nobody's.
LEMMA NotStarted ==
  ASSUME OperationsIInv, HubIInv, NEW o \in Ops, run[o].phase \in {"none", "queued"}
  PROVE  o \notin kept /\ o \notin streaming /\ buffer[o] = <<>> /\ \A f \in Followers : conn[f].op # o
<1>1. o \notin kept /\ o \notin streaming /\ buffer[o] = <<>>
  BY Ready DEF TaskIInv, Active
<1>2. QED
  BY <1>1, FreshIsUnknown

LEMMA DequeuePreserves ==
  ASSUME OperationsIInv, HubIInv, NEW o \in Ops, DequeueScheduled(o)
  PROVE  Preserves
<1>1. /\ run[o].phase = "queued" /\ UNCHANGED <<cancel, file, target, restoring, serverVars>>
      /\ run[o].request # None /\ Kind(o) = "scheduled" /\ run[o].proc = "none" /\ "completed" \notin Said(o) /\ alive
      /\ run[o].tool = "dump" /\ o \notin running
  BY Ready DEF DequeueScheduled, TaskIInv, RecordIInv, DataIInv, dataVars, Active
<1>2. ASSUME running' = running \cup {o}, StreamStarts(o, {}, <<"info">>), Moved(o, "spawning"), UNCHANGED history
      PROVE  Preserves
  <2>1. HubStep
    <3>1. {} \in SUBSET Followers /\ <<"info">> \in Seq(Messages)
      BY Ready
    <3>2. QED
      BY <1>1, <1>2, <3>1, NotStarted DEF HubStep
  <2>2. /\ run' \in [Ops -> RunRecord] /\ \A p \in Ops : p # o => run'[p] = run[p]
        /\ run'[o].phase = "spawning" /\ run'[o].request = run[o].request /\ run'[o].tool = run[o].tool /\ run'[o].proc = run[o].proc
    BY <1>2, MovedIs DEF Phases
  <2>3. /\ \A p \in Ops : Said(p)' = Said(p)
        /\ \A p \in Ops : p # o => buffer'[p] = buffer[p] /\ (p \in kept' <=> p \in kept) /\ (p \in streaming' <=> p \in streaming)
        /\ o \in streaming' /\ Kind(o)' = Kind(o)
    BY <1>2, <2>2 DEF Said, Records, StreamStarts, HubIInv, BroadcasterTypeOK, Kind
  <2>4. ASSUME HubIInv'
        PROVE  OperationsIInv'
    <3>1. OperationTypeOK'
      BY <1>1, <1>2, <2>2, <2>4 DEF OperationsIInv, OperationTypeOK, RunRecord, HubIInv, serverVars
    <3>2. \A p \in Ops : p # o => Untouched(p)
      BY <1>1, <1>2, <2>2, <2>3 DEF Untouched, serverVars
    <3>3. TaskIInv(o)' /\ RecordIInv(o)'
      BY <1>1, <1>2, <2>2, <2>3 DEF TaskIInv, RecordIInv, Active, serverVars
    <3>4. DataIInv(o)'
      BY <1>1, <2>2, <2>3, Ready DEF DataIInv
    <3>5. QED
      BY <3>1, <3>2, <3>3, <3>4, OwnStep
  <2>5. QED
    BY <2>1, <2>3, <2>4 DEF Preserves, Final
<1>3. ASSUME history' = Completed(o, "failed"), Moved(o, "over"), UNCHANGED <<running, broadcastVars>>
      PROVE  Preserves
  <2>1. /\ run' \in [Ops -> RunRecord] /\ \A p \in Ops : p # o => run'[p] = run[p]
        /\ run'[o].phase = "over" /\ run'[o].request = run[o].request /\ run'[o].tool = run[o].tool /\ run'[o].proc = run[o].proc
    BY <1>3, MovedIs DEF Phases
  <2>2. /\ history' \in Seq(Entry) /\ Len(history') = Len(history) /\ Said(o)' \subseteq {"failed"}
        /\ \A p \in Ops : p # o => Said(p)' = Said(p)
    BY <1>3, CompletedSays DEF OperationsIInv, OperationTypeOK, Entry, Statuses
  <2>3. UNCHANGED <<buffer, kept, streaming>> /\ Kind(o)' = Kind(o)
    BY <1>3, <2>1 DEF broadcastVars, hub, Kind
  <2>4. ASSUME HubIInv'
        PROVE  OperationsIInv'
    <3>1. OperationTypeOK'
      BY <1>1, <1>3, <2>1, <2>2, <2>4 DEF OperationsIInv, OperationTypeOK, RunRecord, HubIInv, serverVars, Entry
    <3>2. \A p \in Ops : p # o => Untouched(p)
      BY <1>1, <1>3, <2>1, <2>2, <2>3 DEF Untouched, serverVars
    <3>3. TaskIInv(o)' /\ RecordIInv(o)'
      BY <1>1, <1>3, <2>1, <2>2, <2>3, Ready DEF TaskIInv, RecordIInv, Active, serverVars
    <3>4. DataIInv(o)'
      BY <1>1, <2>1, <2>2, <2>3, Ready DEF DataIInv
    <3>5. QED
      BY <3>1, <3>2, <3>3, <3>4, OwnStep
  <2>5. QED
    BY <1>1, <1>3, <2>2, <2>4 DEF Preserves, HubStep, Final
<1>4. QED
  BY <1>2, <1>3 DEF DequeueScheduled

LEMMA PushEndsPreserves ==
  ASSUME OperationsIInv, NEW o \in Ops, PushEnds(o)
  PROVE  Preserves
<1>1. /\ run[o].phase = "push" /\ history' = Completed(o, "completed") /\ Moved(o, "over")
      /\ UNCHANGED <<broadcastVars, running, cancel, file, target, restoring, serverVars>>
      /\ run[o].request # None /\ Kind(o) = "scheduled" /\ file[o] = "whole"
  BY Ready DEF PushEnds, TaskIInv, DataIInv, dataVars
<1>2. /\ run' \in [Ops -> RunRecord] /\ \A p \in Ops : p # o => run'[p] = run[p]
      /\ run'[o].phase = "over" /\ run'[o].request = run[o].request /\ run'[o].tool = run[o].tool /\ run'[o].proc = run[o].proc
  BY <1>1, MovedIs DEF Phases
<1>3. /\ history' \in Seq(Entry) /\ Len(history') = Len(history) /\ Said(o)' \subseteq {"completed"}
      /\ \A p \in Ops : p # o => Said(p)' = Said(p)
  BY <1>1, CompletedSays DEF OperationsIInv, OperationTypeOK, Entry, Statuses
<1>4. UNCHANGED <<buffer, kept, streaming>> /\ Kind(o)' = Kind(o)
  BY <1>1, <1>2 DEF broadcastVars, hub, Kind
<1>5. ASSUME HubIInv'
      PROVE  OperationsIInv'
  <2>1. OperationTypeOK'
    BY <1>1, <1>2, <1>3, <1>5 DEF OperationsIInv, OperationTypeOK, RunRecord, HubIInv, serverVars, Entry
  <2>2. \A p \in Ops : p # o => Untouched(p)
    BY <1>1, <1>2, <1>3, <1>4 DEF Untouched, serverVars
  <2>3. TaskIInv(o)' /\ RecordIInv(o)'
    BY <1>1, <1>2, <1>3, <1>4, Ready DEF TaskIInv, RecordIInv, Active, serverVars
  <2>4. DataIInv(o)'
    BY <1>1, <1>2, <1>3, <1>4, Ready DEF DataIInv, Truth
  <2>5. QED
    BY <2>1, <2>2, <2>3, <2>4, OwnStep
<1>6. QED
  BY <1>1, <1>3, <1>5 DEF Preserves, HubStep, Final

LEMMA TaskPreserves ==
  ASSUME OperationsIInv, HubIInv, NEW o \in Ops, OperationRuns(o) \/ ToolExits(o)
  PROVE  Preserves
BY DequeuePreserves, EnterPreserves, ListContentsPreserves, PreRestorePreserves, SpawnPreserves, SpawnFailsPreserves,
   ReadLinePreserves, ReadEndPreserves, WaitPreserves, PostRestorePreserves, PushEndsPreserves, ToolExitsPreserves
   DEF OperationRuns

-----------------------------------------------------------------------------
(* Operations: requests, clients and the process *)

\* An operation that begins, with or without a stream.
LEMMA BeginsKeeps ==
  ASSUME OperationsIInv, HubIInv', NEW o \in Ops, run[o].phase = "none", NEW r \in RunRecord, run' = [run EXCEPT ![o] = r],
         alive, history' = Recorded(o), UNCHANGED <<cancel, file, target, restoring, serverVars>>,
         r.request \in Requests, r.proc = "none", r.tool = IF r.request.kind = "restore" THEN "restore" ELSE "dump",
         \/ r.phase = "created" /\ running' = running \cup {o} /\ o \in streaming'
         \/ r.phase = "queued" /\ r.request.kind = "scheduled" /\ running' = running /\ UNCHANGED broadcastVars,
         \A p \in Ops : p # o => buffer'[p] = buffer[p] /\ (p \in streaming' <=> p \in streaming) /\ (p \in kept' => p \in kept)
  PROVE  OperationsIInv'
<1>1. run'[o] = r /\ run' \in [Ops -> RunRecord] /\ \A p \in Ops : p # o => run'[p] = run[p]
  BY DEF OperationsIInv, OperationTypeOK, RunRecord
<1>2. /\ history' \in Seq(Entry) /\ Len(history') <= MaxHistory /\ Said(o)' \subseteq Said(o) \cup {"running"}
      /\ \A p \in Ops : p # o => Said(p)' \subseteq Said(p)
  BY RecordedSays DEF OperationsIInv, OperationTypeOK, Entry
<1>3. /\ run[o].request = None /\ Said(o) = {} /\ o \notin running /\ o \notin streaming /\ o \notin kept /\ buffer[o] = <<>> /\ o \notin restoring
  BY Ready DEF TaskIInv, DataIInv, Active
<1>4. r.request # None /\ Kind(o)' = r.request.kind
  BY <1>1, OperationTypes DEF Kind
<1>5. OperationTypeOK'
  BY <1>1, <1>2 DEF OperationsIInv, OperationTypeOK, RunRecord, HubIInv, serverVars, Entry
<1>6. \A p \in Ops : p # o => Untouched(p)
  BY <1>1, <1>2 DEF Untouched, serverVars
<1>7. TaskIInv(o)'
  BY <1>1, <1>3, <1>4 DEF TaskIInv, Active, serverVars, broadcastVars, hub
<1>8. RecordIInv(o)'
  BY <1>1, <1>2, <1>3, <1>4 DEF RecordIInv, Active
<1>9. DataIInv(o)'
  BY <1>1, <1>2, <1>3, <1>4 DEF DataIInv
<1>10. QED
  BY <1>5, <1>6, <1>7, <1>8, <1>9, OwnStep

LEMMA RecordedIsFinal ==
  ASSUME OperationsIInv, NEW o \in Ops, run[o].phase = "none", history' = Recorded(o)
  PROVE  \A p \in Ops : Final(p)
<1>1. \A p \in Ops : p # o => Said(p)' \subseteq Said(p)
  BY RecordedSays DEF OperationsIInv, OperationTypeOK, Entry
<1>2. Said(o) = {}
  BY Ready DEF TaskIInv
<1>3. QED
  BY <1>1, <1>2 DEF Final

LEMMA StartPreserves ==
  ASSUME OperationsIInv, HubIInv, NEW o \in Ops, NEW q \in Requests, NEW owners \in {{}} \cup {{f} : f \in Followers}, Start(o, q, owners)
  PROVE  Preserves
<1> DEFINE tool == IF q.kind = "restore" THEN "restore" ELSE "dump"
           r == [NoRun EXCEPT !.request = q, !.phase = "created", !.tool = tool]
<1>1. /\ run[o].phase = "none" /\ alive /\ StreamStarts(o, owners, <<>>) /\ run' = [run EXCEPT ![o] = r]
      /\ history' = Recorded(o) /\ running' = running \cup {o} /\ UNCHANGED <<cancel, file, target, restoring, serverVars>>
      /\ \A f \in owners : conn[f].phase = "idle"
  BY DEF Start, dataVars
<1>2. r \in RunRecord /\ r.phase = "created" /\ r.request = q /\ r.proc = "none" /\ r.tool = tool
  BY OperationTypes DEF NoRun, RunRecord, Phases
<1> HIDE DEF r
<1>3. /\ o \in streaming'
      /\ \A p \in Ops : p # o => buffer'[p] = buffer[p] /\ (p \in streaming' <=> p \in streaming) /\ (p \in kept' => p \in kept)
  BY <1>1 DEF StreamStarts, HubIInv, BroadcasterTypeOK
<1>4. HubStep
  <2>1. owners \in SUBSET Followers /\ <<>> \in Seq(Messages)
    OBVIOUS
  <2>2. QED
    BY <1>1, <2>1, NotStarted DEF HubStep
<1>5. HubIInv' => OperationsIInv'
  BY <1>1, <1>2, <1>3, BeginsKeeps
<1>6. QED
  BY <1>1, <1>4, <1>5, RecordedIsFinal DEF Preserves

LEMMA QueueScheduledPreserves ==
  ASSUME OperationsIInv, NEW o \in Ops, NEW q \in Requests, QueueScheduled(o, q)
  PROVE  Preserves
<1> DEFINE r == [NoRun EXCEPT !.request = q, !.phase = "queued", !.tool = "dump"]
<1>1. /\ run[o].phase = "none" /\ alive /\ q.kind = "scheduled" /\ run' = [run EXCEPT ![o] = r] /\ history' = Recorded(o)
      /\ UNCHANGED <<broadcastVars, running, cancel, file, target, restoring, serverVars>>
  BY DEF QueueScheduled, dataVars
<1>2. r \in RunRecord /\ r.phase = "queued" /\ r.request = q /\ r.proc = "none" /\ r.tool = "dump"
  BY OperationTypes DEF NoRun, RunRecord, Phases
<1> HIDE DEF r
<1>3. \A p \in Ops : p # o => buffer'[p] = buffer[p] /\ (p \in streaming' <=> p \in streaming) /\ (p \in kept' => p \in kept)
  BY <1>1 DEF broadcastVars, hub
<1>4. HubIInv' => OperationsIInv'
  BY <1>1, <1>2, <1>3, BeginsKeeps
<1>5. QED
  BY <1>1, <1>4, RecordedIsFinal DEF Preserves, HubStep

LEMMA CancelPreserves ==
  ASSUME OperationsIInv, NEW o \in Ops, Cancel(o)
  PROVE  Preserves
<1>1. alive /\ UNCHANGED <<broadcastVars, running, run, file, target, restoring, serverVars, buffer, kept, streaming>>
  BY DEF Cancel, dataVars, broadcastVars, hub
<1>2. CASE o \in running /\ cancel' = cancel \cup {o} /\ UNCHANGED history
  <2>1. \A p \in Ops : Untouched(p)
    BY <1>1, <1>2 DEF Untouched, serverVars, Said, Records
  <2>2. ASSUME HubIInv' PROVE OperationsIInv'
    <3>1. OperationTypeOK'
      BY <1>1, <1>2, <2>2 DEF OperationsIInv, OperationTypeOK, HubIInv, serverVars
    <3>2. QED
      BY <2>1, <3>1, UntouchedKeeps DEF OperationsIInv
  <2>3. QED
    BY <1>1, <2>1, <2>2 DEF Preserves, HubStep, Untouched, Final
<1>3. CASE o \notin running /\ HasStatus(o, {"running"}) /\ history' = Completed(o, "failed") /\ UNCHANGED cancel
  <2>1. run[o].phase = "queued" /\ Kind(o)' = Kind(o)
    BY <1>1, <1>3, Ready, SaidIs DEF RecordIInv, TaskIInv, Kind
  <2>2. /\ history' \in Seq(Entry) /\ Len(history') = Len(history) /\ Said(o)' \subseteq {"failed"}
        /\ \A p \in Ops : p # o => Said(p)' = Said(p)
    BY <1>3, CompletedSays DEF OperationsIInv, OperationTypeOK, Entry, Statuses
  <2>3. ASSUME HubIInv'
        PROVE  OperationsIInv'
    <3>1. OperationTypeOK'
      BY <1>1, <1>3, <2>2, <2>3 DEF OperationsIInv, OperationTypeOK, HubIInv, serverVars, Entry
    <3>2. \A p \in Ops : p # o => Untouched(p)
      BY <1>1, <2>2 DEF Untouched, serverVars
    <3>3. TaskIInv(o)' /\ RecordIInv(o)'
      BY <1>1, <2>1, <2>2, Ready DEF TaskIInv, RecordIInv, Active, serverVars
    <3>4. DataIInv(o)'
      BY <1>1, <2>1, <2>2, Ready DEF DataIInv
    <3>5. QED
      BY <3>1, <3>2, <3>3, <3>4, OwnStep
  <2>4. "running" \in Said(o)
    BY <1>3, SaidIs
  <2>5. QED
    BY <1>1, <2>2, <2>3, <2>4 DEF Preserves, HubStep, Final
<1>4. QED
  BY <1>2, <1>3 DEF Cancel

\* A step that leaves the operations alone, and may forget records.
LEMMA ForgetsKeeps ==
  ASSUME OperationsIInv, HubIInv', UNCHANGED <<running, cancel, run, file, target, restoring, alive, crashes, buffer, streaming>>,
         kept' \subseteq kept, history' \in Seq(Entry), Len(history') <= MaxHistory, \A p \in Ops : Said(p)' \subseteq Said(p),
         told' \in [Followers -> [op : Ops \cup {None}, answer : {None, "ok", "fail", "missing"}]]
  PROVE  OperationsIInv'
<1>1. \A p \in Ops : Untouched(p)
  BY DEF Untouched
<1>2. OperationTypeOK'
  BY DEF OperationsIInv, OperationTypeOK, HubIInv, Entry
<1>3. QED
  BY <1>1, <1>2, UntouchedKeeps DEF OperationsIInv

LEMMA SameRecords ==
  ASSUME OperationsIInv, UNCHANGED history
  PROVE  history' \in Seq(Entry) /\ Len(history') <= MaxHistory /\ \A p \in Ops : Said(p)' \subseteq Said(p)
BY DEF OperationsIInv, OperationTypeOK, Entry, Said, Records

LEMMA ClearPreserves ==
  ASSUME OperationsIInv, ClearHistory
  PROVE  Preserves
<1>1. UNCHANGED <<broadcastVars, running, cancel, run, file, target, restoring, alive, crashes, told, buffer, kept, streaming>>
  BY DEF ClearHistory, dataVars, serverVars, broadcastVars, hub
<1>2. history' \in Seq(Entry) /\ Len(history') <= MaxHistory /\ \A p \in Ops : Said(p)' \subseteq Said(p)
  BY ClearedSays DEF OperationsIInv, OperationTypeOK, Entry
<1>3. HubIInv' => OperationsIInv'
  BY <1>1, <1>2, ForgetsKeeps DEF OperationsIInv, OperationTypeOK
<1>4. QED
  BY <1>1, <1>2, <1>3 DEF Preserves, HubStep, Final

LEMMA FollowPreserves ==
  ASSUME OperationsIInv, NEW f \in Followers, NEW o \in Ops, FollowLive(f, o) \/ FollowStatic(f, o)
  PROVE  Preserves
<1>1. UNCHANGED <<history, running, cancel, run, file, target, restoring, alive, crashes, buffer, kept, streaming>>
  BY DEF FollowLive, FollowStatic, Follow, logVars, dataVars, serverVars, broadcastVars, hub
<1>2. told' \in [Followers -> [op : Ops \cup {None}, answer : {None, "ok", "fail", "missing"}]]
  BY DEF FollowLive, FollowStatic, serverVars, OperationsIInv, OperationTypeOK
<1>3. HubIInv' => OperationsIInv'
  BY <1>1, <1>2, SameRecords, ForgetsKeeps
<1>4. HubStep
  BY DEF FollowLive, FollowStatic, HubStep
<1>5. QED
  BY <1>1, <1>3, <1>4, SameRecords DEF Preserves, Final

LEMMA ClientsPreserve ==
  ASSUME OperationsIInv, ClientsRun
  PROVE  Preserves
<1>1. UNCHANGED <<history, running, cancel, run, file, target, restoring, alive, crashes, told>> /\ HubStep
  BY DEF ClientsRun, logVars, dataVars, serverVars, HubStep
<1>2. UNCHANGED <<buffer, streaming>> /\ kept' \subseteq kept
  BY DEF ClientsRun, CleanUp, ConnectionRuns, SendsHistory, SendsLive, SeesEnd, SendFails, Unsubscribed, Disconnects, hub
<1>3. HubIInv' => OperationsIInv'
  BY <1>1, <1>2, SameRecords, ForgetsKeeps DEF OperationsIInv, OperationTypeOK
<1>4. QED
  BY <1>1, <1>3, SameRecords DEF Preserves, Final

LEMMA CrashPreserves ==
  ASSUME OperationsIInv, Crash
  PROVE  Preserves
<1>1. /\ alive' = FALSE /\ crashes' = crashes + 1 /\ crashes < MaxCrashes /\ running' = {} /\ cancel' = {}
      /\ ServerLost /\ buffer' = [o \in Ops |-> <<>>] /\ kept' = {} /\ streaming' = {}
      /\ UNCHANGED <<file, target, restoring>> /\ history' \in {history, <<>>}
  BY DEF Crash, ServerLost, dataVars
<1>2. ASSUME NEW p \in Ops
      PROVE  /\ run'[p] \in RunRecord /\ run'[p].proc = "none" /\ run'[p].request = run[p].request /\ run'[p].tool = run[p].tool
             /\ run'[p].phase = IF run[p].phase \in {"none", "over"} THEN run[p].phase ELSE "lost"
  <2>1. run'[p] = IF run[p].phase \in {"none", "over"} THEN [run[p] EXCEPT !.proc = "none"]
                                                       ELSE [run[p] EXCEPT !.phase = "lost", !.proc = "none"]
    BY DEF Crash
  <2>2. run[p] \in RunRecord
    BY Ready
  <2>3. QED
    BY <2>1, <2>2 DEF RunRecord, Phases
<1>3. history' \in Seq(Entry) /\ Len(history') <= MaxHistory /\ \A p \in Ops : Said(p)' \subseteq Said(p)
  <2>1. CASE history' = history
    BY <2>1, SameRecords
  <2>2. CASE history' = <<>>
    <3>1. <<>> \in Seq(Entry) /\ Len(<<>>) = 0 /\ DOMAIN <<>> = {}
      OBVIOUS
    <3>2. QED
      BY <2>2, <3>1, OperationTypes DEF Said, Records
  <2>3. QED
    BY <1>1, <2>1, <2>2
<1>4. OperationTypeOK' \/ ~HubIInv'
  <2>1. run' \in [Ops -> RunRecord]
    BY <1>2 DEF Crash
  <2>2. told' \in [Followers -> [op : Ops \cup {None}, answer : {None, "ok", "fail", "missing"}]]
    BY DEF Crash
  <2>3. crashes' \in 0 .. MaxCrashes
    BY <1>1, OperationConstants DEF OperationsIInv, OperationTypeOK, OperationConstants
  <2>4. QED
    BY <1>1, <1>3, <2>1, <2>2, <2>3 DEF OperationsIInv, OperationTypeOK, HubIInv, RunRecord, Entry
<1>5. ASSUME NEW p \in Ops
      PROVE  TaskIInv(p)' /\ RecordIInv(p)' /\ DataIInv(p)'
  <2>1. Kind(p)' = Kind(p)
    BY <1>2 DEF Kind
  <2>2. TaskIInv(p)'
    BY <1>1, <1>2, <1>3, <2>1, Ready DEF TaskIInv, Active
  <2>3. RecordIInv(p)'
    BY <1>1, <1>2, <1>3, <2>1, Ready DEF RecordIInv, Active
  <2>4. DataIInv(p)'
    BY <1>1, <1>2, <1>3, <2>1, Ready DEF DataIInv, Truth, Restores
  <2>5. QED
    BY <2>2, <2>3, <2>4
<1>6. QED
  BY <1>1, <1>3, <1>4, <1>5 DEF Preserves, HubStep, Final, OperationsIInv

LEMMA BootPreserves ==
  ASSUME OperationsIInv, Boot
  PROVE  Preserves
<1>1. ~alive /\ alive' = TRUE /\ UNCHANGED <<broadcastVars, running, cancel, run, file, target, restoring, crashes, told>>
      /\ UNCHANGED <<buffer, kept, streaming>>
  BY DEF Boot, dataVars, broadcastVars, hub
<1>2. /\ history' \in Seq(Entry) /\ Len(history') = Len(history)
      /\ \A p \in Ops : \A status \in Said(p)' :
           status # "running" /\ (status \in Said(p) \/ (status = "failed" /\ "running" \in Said(p)))
  BY BootSays DEF OperationsIInv, OperationTypeOK, Entry
<1>3. OperationTypeOK' \/ ~HubIInv'
  BY <1>1, <1>2 DEF OperationsIInv, OperationTypeOK, HubIInv, Entry
<1>4. ASSUME NEW p \in Ops
      PROVE  TaskIInv(p)' /\ RecordIInv(p)' /\ DataIInv(p)'
  <2>1. Kind(p)' = Kind(p)
    BY <1>1 DEF Kind
  <2>2. TaskIInv(p)'
    BY <1>1, <1>2, <2>1, Ready DEF TaskIInv, Active
  <2>3. RecordIInv(p)'
    BY <1>1, <1>2, <2>1, Ready DEF RecordIInv, TaskIInv, Active
  <2>4. DataIInv(p)'
    BY <1>1, <1>2, <2>1, Ready DEF DataIInv, Truth, Restores
  <2>5. QED
    BY <2>2, <2>3, <2>4
<1>5. QED
  BY <1>1, <1>2, <1>3, <1>4 DEF Preserves, HubStep, Final, OperationsIInv

LEMMA OperationsPreserve ==
  ASSUME OperationsIInv, HubIInv, OperationNext
  PROVE  Preserves
BY StartPreserves, QueueScheduledPreserves, TaskPreserves, CancelPreserves, FollowPreserves, ClearPreserves, ClientsPreserve,
   CrashPreserves, BootPreserves DEF OperationNext

LEMMA IdlePreserves ==
  ASSUME OperationsIInv, UNCHANGED operationVars
  PROVE  Preserves
<1>1. UNCHANGED <<broadcastVars, history, running, cancel, run, file, target, restoring, alive, crashes, told, buffer, kept, streaming>>
  BY DEF operationVars, broadcastVars, hub, logVars, dataVars, serverVars
<1>2. HubIInv' => OperationsIInv'
  BY <1>1, SameRecords, ForgetsKeeps DEF OperationsIInv, OperationTypeOK
<1>3. QED
  BY <1>1, <1>2, SameRecords DEF Preserves, HubStep, Final

AllIInv == ServedIInv /\ EndIInv /\ OperationsIInv

LEMMA AllInitially == OperationInit => AllIInv
<1> SUFFICES ASSUME OperationInit PROVE AllIInv
  OBVIOUS
<1>1. ServedIInv /\ EndIInv
  BY ServedInitially, EndInitially DEF OperationInit
<1>2. /\ run = [o \in Ops |-> NoRun] /\ history = <<>> /\ running = {} /\ cancel = {} /\ alive = TRUE /\ crashes = 0
      /\ streaming = {} /\ kept = {} /\ buffer = [o \in Ops |-> <<>>] /\ restoring = {}
  BY DEF OperationInit, BroadcasterInit
<1>3. DOMAIN <<>> = {} /\ <<>> \in Seq(Entry) /\ Len(<<>>) = 0
  OBVIOUS
<1>4. \A o \in Ops : Said(o) = {}
  BY <1>2, <1>3 DEF Said, Records
<1>5. OperationTypeOK
  BY <1>1, <1>2, <1>3, OperationTypes, OperationConstants
     DEF OperationInit, OperationTypeOK, OperationConstants, EndIInv, HubIInv, RunRecord, Entry
<1>6. ASSUME NEW o \in Ops
      PROVE  TaskIInv(o) /\ RecordIInv(o) /\ DataIInv(o)
  <2>1. run[o].request = None /\ run[o].phase = "none" /\ run[o].proc = "none"
    BY <1>2, OperationTypes
  <2>2. TaskIInv(o) /\ RecordIInv(o)
    BY <1>2, <1>4, <2>1 DEF TaskIInv, RecordIInv, Active
  <2>3. DataIInv(o)
    BY <1>2, <1>4, <2>1 DEF DataIInv, Kind
  <2>4. QED
    BY <2>2, <2>3
<1>7. QED
  BY <1>1, <1>5, <1>6 DEF AllIInv, OperationsIInv

LEMMA AllInductive == AllIInv /\ [OperationNext]_operationVars => AllIInv' /\ \A o \in Ops : Final(o)
<1> SUFFICES ASSUME AllIInv, [OperationNext]_operationVars PROVE AllIInv' /\ \A o \in Ops : Final(o)
  OBVIOUS
<1>1. Preserves
  BY OperationsPreserve, IdlePreserves DEF AllIInv, EndIInv
<1>2. ServedIInv'
  BY <1>1, HubStepServes DEF AllIInv, Preserves
<1>3. HubIInv'
  BY <1>2 DEF ServedIInv
<1>4. EndIInv'
  BY <1>1, <1>3, HubStepEnds DEF AllIInv, Preserves
<1>5. QED
  BY <1>1, <1>2, <1>3, <1>4 DEF AllIInv, Preserves

\* What each operation's task, record, tool, stream and followers say of each other holds
\* in every state.
THEOREM OperationsInvariant == OperationSpec => []AllIInv
<1>1. OperationInit => AllIInv
  BY AllInitially
<1>2. AllIInv /\ [OperationNext]_operationVars => AllIInv'
  BY AllInductive
<1>3. QED
  BY <1>1, <1>2, PTL DEF OperationSpec

\* Every variable of the operations, the broadcaster's included, keeps its type.
THEOREM OperationTypesHold == OperationSpec => []OperationTypeOK
BY OperationsInvariant, PTL DEF AllIInv, OperationsIInv

-----------------------------------------------------------------------------
(* What the operations promise *)

\* Under the operation log, too, a follower misses nothing.
THEOREM OperationsMissNothing == OperationSpec => []NothingMissed
<1>1. AllIInv => NothingMissed
  BY ServedMissNothing DEF AllIInv
<1>2. QED
  BY <1>1, OperationsInvariant, PTL

\* A record that says completed tells the truth: the dump is whole, the target has all
\* it was to get and is not left in restoring mode (run_backup(), run_restore()).
THEOREM RecordsAreTrue == OperationSpec => []RecordsTellTheTruth
<1>1. AllIInv => RecordsTellTheTruth
  <2> SUFFICES ASSUME AllIInv, NEW o \in Ops, HasStatus(o, {"completed"})
               PROVE  Truth(o)
    BY DEF RecordsTellTheTruth, Truth
  <2>1. "completed" \in Said(o)
    BY SaidIs
  <2>2. QED
    BY <2>1 DEF AllIInv, OperationsIInv, DataIInv
<1>2. QED
  BY <1>1, OperationsInvariant, PTL

\* While the server runs, a record says running exactly while _running_operations has
\* the operation, or its scheduled run waits for the semaphore.
THEOREM RunningIsRunning == OperationSpec => []RunningMeansRunning
<1>1. AllIInv => RunningMeansRunning
  <2> SUFFICES ASSUME AllIInv, alive, NEW o \in Ops, Records(o) # {}
               PROVE  /\ HasStatus(o, {"running"}) => o \in running \/ run[o].phase = "queued"
                      /\ Kind(o) # "scheduled" => (HasStatus(o, {"running"}) <=> o \in running)
    BY DEF RunningMeansRunning
  <2>1. /\ HasStatus(o, {"running"}) <=> "running" \in Said(o)
        /\ Said(o) # {}
    BY SaidIs
  <2>2. TaskIInv(o) /\ RecordIInv(o)
    BY DEF AllIInv, OperationsIInv
  <2>3. HasStatus(o, {"running"}) => o \in running \/ run[o].phase = "queued"
    BY <2>1, <2>2 DEF TaskIInv, RecordIInv
  <2>4. ASSUME Kind(o) # "scheduled"
        PROVE  HasStatus(o, {"running"}) <=> o \in running
    BY <2>1, <2>2, <2>4 DEF TaskIInv, RecordIInv
  <2>5. QED
    BY <2>3, <2>4
<1>2. QED
  BY <1>1, OperationsInvariant, PTL

\* Whoever watched a backup or a restore to its end was told the outcome the history
\* records: what _stream_to_websocket() sent last agrees with complete_operation().
THEOREM LiveAgreesWithStored == OperationSpec => []LiveAndStoredAgree
<1>1. AllIInv => LiveAndStoredAgree
  <2> SUFFICES ASSUME AllIInv, NEW f \in Followers, conn[f].phase = "done", ~conn[f].gone,
                      Kind(conn[f].op) \in {"backup", "restore"}, Records(conn[f].op) # {}
               PROVE  conn[f].got # <<>> /\ conn[f].got[Len(conn[f].got)] = "ok"
                        <=> HasStatus(conn[f].op, {"completed"})
    BY DEF LiveAndStoredAgree
  <2> DEFINE o == conn[f].op
  <2>1. o \in Ops /\ (o \in streaming \/ buffer[o] # <<>>)
    BY DEF AllIInv, EndIInv, HubIInv
  <2>2. o \notin streaming /\ conn[f].got # <<>> /\ LastOf(conn[f].got) = LastOf(buffer[o])
    BY DEF AllIInv, EndIInv, Ended
  <2>3. TaskIInv(o) /\ RecordIInv(o) /\ run[o].phase \in Phases
    BY <2>1 DEF AllIInv, OperationsIInv, OperationTypeOK
  <2>4. run[o].phase = "over"
    BY <2>1, <2>2, <2>3 DEF TaskIInv, Phases, Active
  <2>5. \A status \in Said(o) : status = "completed" <=> LastOf(buffer[o]) = "ok"
    BY <2>1, <2>2, <2>3, <2>4 DEF RecordIInv
  <2>6. /\ HasStatus(o, {"completed"}) <=> "completed" \in Said(o)
        /\ Said(o) # {}
    BY SaidIs
  <2>7. QED
    BY <2>2, <2>5, <2>6 DEF LastOf
<1>2. QED
  BY <1>1, OperationsInvariant, PTL

\* No step gives an operation a client asked for a second outcome: complete_operation()
\* is called once on every path, and neither a cancel request, a crash nor the next
\* start overwrites what it has written.
THEOREM OutcomesStay == OperationSpec => OutcomesAreFinal
<1> DEFINE Settled == \A o \in Ops : Kind(o) # "scheduled" /\ Records(o) # {} /\ ~HasStatus(o, {"running"}) =>
                        \A i \in Records(o)' : HasStatus(o, {history'[i].status})
<1>1. AllIInv /\ [OperationNext]_operationVars => [Settled]_operationVars
  <2> SUFFICES ASSUME AllIInv, [OperationNext]_operationVars, NEW o \in Ops,
                      Kind(o) # "scheduled", Records(o) # {}, ~HasStatus(o, {"running"}), NEW i \in Records(o)'
               PROVE  HasStatus(o, {history'[i].status})
    OBVIOUS
  <2>1. Said(o) # {} /\ "running" \notin Said(o)
    BY SaidIs
  <2>2. Said(o)' \subseteq Said(o)
    BY <2>1, AllInductive DEF Final
  <2>3. history'[i].status \in Said(o)'
    BY DEF Said
  <2>4. QED
    BY <2>2, <2>3, SaidIs
<1>2. QED
  BY <1>1, OperationsInvariant, PTL DEF OperationSpec, OutcomesAreFinal

-----------------------------------------------------------------------------
(* Operations implements FollowedStream *)

\* An operation broadcasts as many messages at once as it likes.
OperationStream == INSTANCE FollowedStream WITH
  Batches <- Seq(Messages),
  published <- buffer,
  open <- streaming,
  follows <- [f \in Followers |-> conn[f].op],
  reached <- [f \in Followers |-> Len(conn[f].got)],
  finished <- {f \in Followers : conn[f].phase = "done" /\ ~conn[f].gone},
  left <- {f \in Followers : conn[f].gone}

LEMMA SameStream ==
  /\ \A o \in Ops, owners \in SUBSET Followers, ms \in Seq(Messages) :
       Stream!Open(o, owners, ms) => OperationStream!Open(o, owners, ms)
  /\ \A o \in Ops, ms \in Seq(Messages), last \in BOOLEAN : Stream!Say(o, ms, last) => OperationStream!Say(o, ms, last)
  /\ \A f \in Followers, o \in Ops : Stream!Join(f, o) => OperationStream!Join(f, o)
  /\ \A f \in Followers : /\ Stream!Hear(f) => OperationStream!Hear(f)
                          /\ Stream!Close(f) => OperationStream!Close(f)
                          /\ Stream!Leave(f) => OperationStream!Leave(f)
  /\ Stream!Lose => OperationStream!Lose
  /\ UNCHANGED Stream!streamVars => UNCHANGED OperationStream!streamVars
BY DEF Stream!Open, Stream!Say, Stream!Join, Stream!Hear, Stream!Close, Stream!Leave, Stream!Lose, Stream!streamVars,
       OperationStream!Open, OperationStream!Say, OperationStream!Join, OperationStream!Hear, OperationStream!Close,
       OperationStream!Leave, OperationStream!Lose, OperationStream!streamVars

LEMMA OperationStepMaps ==
  ASSUME AllIInv, AllIInv', [OperationNext]_operationVars, \A f \in Followers : Roomy(f)'
  PROVE  [OperationStream!StreamNext]_(OperationStream!streamVars)
<1>1. HubStep /\ ServedIInv /\ ServedIInv' /\ HubIInv
  BY OperationsPreserve, IdlePreserves DEF AllIInv, EndIInv, Preserves
<1>2. ASSUME NEW o \in Ops, NEW owners \in SUBSET Followers, NEW ms \in Seq(Messages),
             \A f \in owners : conn[f].phase = "idle", \A f \in Followers : conn[f].op # o,
             owners = {} \/ ms = <<>>, o \notin streaming, StreamStarts(o, owners, ms)
      PROVE  OperationStream!StreamNext
  <2>1. Stream!Open(o, owners, ms)
    BY <1>1, <1>2, StreamStartsOpens
  <2>2. OperationStream!Open(o, owners, ms)
    BY <2>1, SameStream
  <2>3. QED
    BY <2>2 DEF OperationStream!StreamNext
<1>3. ASSUME NEW o \in Ops, NEW ms \in Seq(Messages), o \in streaming, Published(o, ms) \/ PublishedLast(o, ms)
      PROVE  OperationStream!StreamNext
  <2>1. \E last \in BOOLEAN : Stream!Say(o, ms, last)
    BY <1>1, <1>3, PublishedSays
  <2>2. \E last \in BOOLEAN : OperationStream!Say(o, ms, last)
    BY <2>1, SameStream
  <2>3. QED
    BY <2>2 DEF OperationStream!StreamNext
<1>4. ASSUME NEW f \in Followers, ConnectionRuns(f)
      PROVE  OperationStream!StreamNext \/ UNCHANGED OperationStream!streamVars
  <2>1. CASE SendsHistory(f) \/ SendsLive(f)
    BY <1>1, <2>1, SendingHears, SameStream DEF OperationStream!StreamNext
  <2>2. CASE SeesEnd(f) \/ SendFails(f)
    <3>1. Streams(f) /\ Unsubscribed(f)
      BY <2>2 DEF SeesEnd, SendFails, Streams
    <3>2. QED
      BY <1>1, <3>1, UnsubscribedMaps, SameStream DEF OperationStream!StreamNext
  <2>3. QED
    BY <1>4, <2>1, <2>2 DEF ConnectionRuns
<1>5. ASSUME NEW f \in Followers, NEW o \in Ops, Follow(f, o)
      PROVE  OperationStream!StreamNext
  BY <1>1, <1>5, FollowJoins, SameStream DEF OperationStream!StreamNext
<1>6. ASSUME NEW f \in Followers, Disconnects(f)
      PROVE  OperationStream!StreamNext
  BY <1>1, <1>6, DisconnectsLeaves, SameStream DEF OperationStream!StreamNext
<1>7. ASSUME (\E o \in Ops : CleanUp(o)) \/ UNCHANGED broadcastVars
      PROVE  UNCHANGED OperationStream!streamVars
  BY <1>7, CleanUpShowsNothing, SameStream DEF broadcastVars, hub, Stream!streamVars
<1>8. ASSUME ServerLost PROVE OperationStream!StreamNext
  BY <1>8, ServerLostLoses, SameStream DEF OperationStream!StreamNext
<1>9. QED
  BY <1>1, <1>2, <1>3, <1>4, <1>5, <1>6, <1>7, <1>8 DEF HubStep

\* From the request to the history record, over crashes and boots, every operation keeps
\* the promise of FollowedStream to everybody who watches it while no queue overflows.
THEOREM OperationsImplementStream ==
  OperationSpec => /\ OperationStream!StreamInit
                   /\ [][(\A f \in Followers : Roomy(f)') => OperationStream!StreamNext]_(OperationStream!streamVars)
<1>1. OperationInit => OperationStream!StreamInit
  BY StreamInitially DEF OperationInit, Stream!StreamInit, OperationStream!StreamInit
<1>2. AllIInv /\ AllIInv' /\ [OperationNext]_operationVars
        => [(\A f \in Followers : Roomy(f)') => OperationStream!StreamNext]_(OperationStream!streamVars)
  BY OperationStepMaps
<1>3. QED
  BY <1>1, <1>2, OperationsInvariant, PTL DEF OperationSpec

=============================================================================
