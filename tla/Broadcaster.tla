----------------------------- MODULE Broadcaster -----------------------------
(***************************************************************************)
(* broadcaster.py and the WebSocket side of it, main._stream_to_websocket: *)
(* the messages of running operations, pushed to bounded subscriber queues *)
(* by the runs and sent on by one coroutine per client.                    *)
(***************************************************************************)
EXTENDS Naturals, Sequences, FiniteSets

CONSTANTS
  Ops,          \* operation identifiers; a uuid is never used twice
  Followers,    \* WebSocket connections
  Messages,
  Capacity,     \* maxsize of a subscriber queue
  MaxMessages,  \* bound: how much one operation publishes
  None

ASSUME BroadcasterConstants ==
  /\ Capacity \in Nat \ {0} /\ MaxMessages \in Nat
  /\ None \notin Ops /\ "end" \notin Messages

VARIABLES
  buffer,      \* _buffers; the value of a dropped one is never read
  kept,        \* the keys of _buffers
  subscribers, \* _subscribers
  streaming,   \* the keys of _subscribers
  cleanup,     \* the operations with a task in _cleanup_tasks
  queue,       \* the subscriber queue of each connection
  conn         \* the locals of each _stream_to_websocket()

hub == <<buffer, kept, subscribers, streaming, cleanup>>
broadcastVars == <<hub, queue, conn>>

\* The sentinel of end_operation().
End == "end"

\* got is what the client received; gone, that it has disconnected.
NotFollowing == [op |-> None, history |-> <<>>, got |-> <<>>, phase |-> "idle", gone |-> FALSE]
Conn == [op : Ops \cup {None}, history : Seq(Messages), got : Seq(Messages),
         phase : {"idle", "streaming", "done"}, gone : BOOLEAN]

BroadcasterTypeOK ==
  /\ buffer \in [Ops -> Seq(Messages)]
  /\ kept \subseteq Ops /\ streaming \subseteq Ops /\ cleanup \subseteq Ops
  /\ subscribers \in [Ops -> SUBSET Followers]
  /\ queue \in [Followers -> Seq(Messages \cup {End})]
  /\ \A f \in Followers : Len(queue[f]) <= Capacity
  /\ conn \in [Followers -> Conn]

BroadcasterInit ==
  /\ buffer = [o \in Ops |-> <<>>]
  /\ kept = {} /\ streaming = {} /\ cleanup = {}
  /\ subscribers = [o \in Ops |-> {}]
  /\ queue = [f \in Followers |-> <<>>]
  /\ conn = [f \in Followers |-> NotFollowing]

-----------------------------------------------------------------------------
(* The hub *)

\* subscribe() by the connections fs, with what the buffer holds.
Subscribing(fs, o, history) ==
  conn' = [f \in Followers |->
             IF f \in fs THEN [NotFollowing EXCEPT !.op = o, !.history = history, !.phase = "streaming"]
                         ELSE conn[f]]

\* start_operation() and, in the same step, the subscription of the connection
\* that asked for the operation, or the first messages of a scheduled run, which
\* nobody asked for.
StreamStarts(o, owners, ms) ==
  /\ cleanup' = cleanup \ {o}
  /\ buffer' = [buffer EXCEPT ![o] = ms]
  /\ kept' = kept \cup {o}
  /\ streaming' = streaming \cup {o}
  /\ subscribers' = [subscribers EXCEPT ![o] = owners]
  /\ Subscribing(owners, o, <<>>)
  /\ UNCHANGED queue

\* put_nowait(): what does not fit is dropped.
Offered(q, ms) ==
  LET room == Capacity - Len(q) IN q \o SubSeq(ms, 1, IF Len(ms) < room THEN Len(ms) ELSE room)

Pushed(o, ms) ==
  queue' = [f \in Followers |->
              IF f \in subscribers[o] THEN Offered(queue[f], ms) ELSE queue[f]]

\* Mutant: a message is pushed and not buffered.
PublishedUnbuffered(o, ms) ==
  /\ o \in kept
  /\ Pushed(o, ms)
  /\ UNCHANGED <<hub, conn>>

\* broadcast(), several times in one step.
Published(o, ms) ==
  /\ o \in kept
  /\ buffer' = [buffer EXCEPT ![o] = @ \o ms]
  /\ Pushed(o, ms)
  /\ UNCHANGED <<kept, subscribers, streaming, cleanup, conn>>

\* Mutant: no sentinel.
PublishedSilently(o, ms) ==
  /\ o \in kept
  /\ buffer' = [buffer EXCEPT ![o] = @ \o ms]
  /\ Pushed(o, ms)
  /\ subscribers' = [subscribers EXCEPT ![o] = {}]
  /\ streaming' = streaming \ {o}
  /\ cleanup' = cleanup \cup {o}
  /\ UNCHANGED <<kept, conn>>

\* The last messages and end_operation(), in one step.
PublishedLast(o, ms) ==
  /\ o \in kept
  /\ buffer' = [buffer EXCEPT ![o] = @ \o ms]
  /\ Pushed(o, Append(ms, End))
  /\ subscribers' = [subscribers EXCEPT ![o] = {}]
  /\ streaming' = streaming \ {o}
  /\ cleanup' = cleanup \cup {o}
  /\ UNCHANGED <<kept, conn>>

\* The buffer goes five minutes after the end.
CleanUp(o) ==
  /\ o \in cleanup
  /\ kept' = kept \ {o}
  /\ cleanup' = cleanup \ {o}
  /\ UNCHANGED <<buffer, subscribers, streaming, queue, conn>>

-----------------------------------------------------------------------------
(* The connections *)

\* Mutant: the history is not replayed.
FollowFromNow(f, o) ==
  /\ conn[f].phase = "idle" /\ o \in streaming
  /\ Subscribing({f}, o, <<>>)
  /\ subscribers' = [subscribers EXCEPT ![o] = @ \cup {f}]
  /\ UNCHANGED <<buffer, kept, streaming, cleanup, queue>>

\* websocket_follow_operation() of an active operation: no await lies between
\* is_active() and subscribe().
Follow(f, o) ==
  /\ conn[f].phase = "idle" /\ o \in streaming
  /\ Subscribing({f}, o, buffer[o])
  /\ subscribers' = [subscribers EXCEPT ![o] = @ \cup {f}]
  /\ UNCHANGED <<buffer, kept, streaming, cleanup, queue>>

Replaying(f) == Len(conn[f].got) < Len(conn[f].history)

Received(f, m) == conn' = [conn EXCEPT ![f].got = Append(@, m)]

SendsHistory(f) ==
  /\ conn[f].phase = "streaming" /\ Replaying(f) /\ ~conn[f].gone
  /\ Received(f, conn[f].history[Len(conn[f].got) + 1])
  /\ UNCHANGED <<hub, queue>>

SendsLive(f) ==
  /\ conn[f].phase = "streaming" /\ ~Replaying(f) /\ ~conn[f].gone
  /\ queue[f] # <<>> /\ Head(queue[f]) # End
  /\ Received(f, Head(queue[f]))
  /\ queue' = [queue EXCEPT ![f] = Tail(@)]
  /\ UNCHANGED hub

\* The finally of _stream_to_websocket(); the queue is garbage with it.
Unsubscribed(f) ==
  /\ conn' = [conn EXCEPT ![f].phase = "done"]
  /\ queue' = [queue EXCEPT ![f] = <<>>]
  /\ subscribers' = [o \in Ops |-> subscribers[o] \ {f}]
  /\ UNCHANGED <<buffer, kept, streaming, cleanup>>

SeesEnd(f) ==
  /\ conn[f].phase = "streaming" /\ ~Replaying(f)
  /\ queue[f] # <<>> /\ Head(queue[f]) = End
  /\ Unsubscribed(f)

\* A disconnected client is noticed when there is something to send to it.
SendFails(f) ==
  /\ conn[f].phase = "streaming" /\ conn[f].gone
  /\ Replaying(f) \/ (queue[f] # <<>> /\ Head(queue[f]) # End)
  /\ Unsubscribed(f)

Disconnects(f) ==
  /\ conn[f].phase = "streaming" /\ ~conn[f].gone
  /\ conn' = [conn EXCEPT ![f].gone = TRUE]
  /\ UNCHANGED <<hub, queue>>

ConnectionRuns(f) == SendsHistory(f) \/ SendsLive(f) \/ SeesEnd(f) \/ SendFails(f)

\* The process dies: streams and connections go with it.
ServerLost ==
  /\ buffer' = [o \in Ops |-> <<>>]
  /\ kept' = {} /\ streaming' = {} /\ cleanup' = {}
  /\ subscribers' = [o \in Ops |-> {}]
  /\ queue' = [f \in Followers |-> <<>>]
  /\ conn' = [f \in Followers |-> NotFollowing]

-----------------------------------------------------------------------------
BroadcasterNext ==
  \/ \E o \in Ops :
       \/ /\ o \notin kept /\ buffer[o] = <<>>
          /\ \E owners \in {{}} \cup {{f} : f \in {g \in Followers : conn[g].phase = "idle"}} :
               StreamStarts(o, owners, <<>>)
       \/ \E m \in Messages :
            /\ o \in streaming /\ Len(buffer[o]) < MaxMessages
            /\ Published(o, <<m>>) \/ PublishedLast(o, <<m>>)
       \/ CleanUp(o)
  \/ \E f \in Followers :
       \/ \E o \in Ops : Follow(f, o)
       \/ ConnectionRuns(f)
       \/ Disconnects(f)

BroadcasterSpec == BroadcasterInit /\ [][BroadcasterNext]_broadcastVars

\* The loop runs every connection that can send; clients read what they are sent.
BroadcasterFairness == \A f \in Followers : WF_broadcastVars(ConnectionRuns(f))

FairBroadcasterSpec == BroadcasterSpec /\ BroadcasterFairness

-----------------------------------------------------------------------------
(* Properties *)

\* What is queued, up to the sentinel, after which nothing is.
Sent(f) ==
  LET n == Len(queue[f]) IN IF n > 0 /\ queue[f][n] = End THEN SubSeq(queue[f], 1, n - 1) ELSE queue[f]

\* What a connection has sent, still holds of the history, and has queued.
Account(f) ==
  LET c == conn[f] IN
    c.got \o SubSeq(c.history, Len(c.got) + 1, Len(c.history)) \o Sent(f)

\* The queue of f cannot have overflowed: what was published since it joined, and
\* the sentinel, fit.
Roomy(f) == conn[f].op # None => Len(buffer[conn[f].op]) - Len(conn[f].history) < Capacity

\* A follower misses nothing, gets nothing twice and nothing out of order,
\* whenever it joins, as long as its queue did not overflow.
NothingMissed ==
  \A f \in Followers :
    conn[f].phase = "streaming" /\ Roomy(f) => Account(f) = buffer[conn[f].op]

\* A client that keeps reading is told of the end of an ended operation, if its
\* queue did not overflow.
FollowersAreReleased ==
  \A f \in Followers :
    (conn[f].phase = "streaming" /\ conn[f].op \notin streaming /\ Roomy(f)) ~> conn[f].phase = "done"

\* broadcaster.py: end_operation() notifies the remaining subscribers, all of them.
AllAreReleased ==
  \A f \in Followers :
    (conn[f].phase = "streaming" /\ conn[f].op \notin streaming) ~> conn[f].phase = "done"

Stream == INSTANCE FollowedStream WITH
  Batches <- {<<m>> : m \in Messages},
  published <- buffer,
  open <- streaming,
  follows <- [f \in Followers |-> conn[f].op],
  reached <- [f \in Followers |-> Len(conn[f].got)],
  finished <- {f \in Followers : conn[f].phase = "done" /\ ~conn[f].gone},
  left <- {f \in Followers : conn[f].gone}

\* While no queue has overflowed, every step is one of what the broadcaster
\* promises: a follower that sees the end has got the whole stream before.
ImplementsStream ==
  Stream!StreamInit /\ [][(\A f \in Followers : Roomy(f)') => Stream!StreamNext]_(Stream!streamVars)
=============================================================================
