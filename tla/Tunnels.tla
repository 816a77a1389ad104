------------------------------- MODULE Tunnels -------------------------------
(***************************************************************************)
(* ssm_tunnel.py and its callers: who starts, reuses, stops and lists the  *)
(* port forwarding processes, and the operations that connect through a    *)
(* local port they were given earlier.  The manager has no lock: handlers  *)
(* on the event loop and the threads of scheduled runs call it at once.    *)
(***************************************************************************)
EXTENDS Naturals

CONSTANTS
  Endpoints, \* remote host:port, which is also a tunnel's id
  Loop,      \* the event loop, which runs one handler at a time
  Threads,   \* worker threads of scheduled runs
  Ports,     \* local ports from 15432 on
  Chosen,    \* the local ports requests name themselves
  Processes, \* bound: the aws processes ever started
  None

Starters == Threads \cup {Loop}

ASSUME TunnelConstants ==
  /\ Loop \notin Threads /\ Ports \subseteq Nat /\ Chosen \subseteq Ports
  /\ None \notin Ports \cup Processes \cup Endpoints

VARIABLES
  process, \* every aws process: what it forwards, and whether it listens yet
  tunnels, \* _tunnels: id -> process
  start,   \* where each call of start_tunnel() stands
  stop,    \* the stop_tunnel() the loop is in the middle of
  held,    \* the addresses that operations were given and go on with
  told,    \* history: the processes that were sent SIGTERM
  contested, \* history: those whose start overlapped another start or a stop of the endpoint
  shared   \* history: those that lived beside another one of the same port

marks == <<told, contested, shared>>
tunnelVars == <<process, tunnels, start, stop, held, marks>>

NoCall == [phase |-> "idle", endpoint |-> None, port |-> None, process |-> None, met |-> {}]
NoStop == [endpoint |-> None, process |-> None]
Unused == [state |-> "unused", endpoint |-> None, port |-> None]

Addresses == [endpoint : Endpoints, port : Ports]

TunnelsTypeOK ==
  /\ process \in [Processes -> [state : {"unused", "starting", "listening", "dead"},
                                endpoint : Endpoints \cup {None}, port : Ports \cup {None}]]
  /\ tunnels \in [Endpoints -> Processes \cup {None}]
  /\ start \in [Starters -> [phase : {"idle", "free", "waiting", "open"}, endpoint : Endpoints \cup {None},
                             port : Ports \cup {None}, process : Processes \cup {None}, met : SUBSET Processes]]
  /\ stop \in [endpoint : Endpoints, process : Processes] \cup {NoStop}
  /\ held \subseteq Addresses
  /\ told \subseteq Processes /\ contested \subseteq Processes /\ shared \subseteq Processes

TunnelsInit ==
  /\ process = [p \in Processes |-> Unused]
  /\ tunnels = [e \in Endpoints |-> None]
  /\ start = [s \in Starters |-> NoCall]
  /\ stop = NoStop
  /\ held = {}
  /\ told = {} /\ contested = {} /\ shared = {}

-----------------------------------------------------------------------------
Alive(p) == process[p].state \in {"starting", "listening"}
Listeners(port) == {p \in Processes : process[p].state = "listening" /\ process[p].port = port}
Leads(port, e) == \E p \in Listeners(port) : process[p].endpoint = e

\* poll() of the process the manager knows for this endpoint.
Active(e) == tunnels[e] # None /\ Alive(tunnels[e])

\* The calls of start_tunnel() for e, but for that of s, and their processes.
Rivals(s, e) == {r \in Starters \ {s} : start[r].phase # "idle" /\ start[r].endpoint = e}
Started(calls) == {p \in Processes : \E r \in calls : start[r].process = p}

\* The loop does nothing else while a handler waits in start or stop.
MayCall(s) ==
  /\ start[s].phase = "idle"
  /\ s = Loop => stop = NoStop

\* Mutant: the first port, taken or not.
FreePortsUnbound == Ports

\* _find_available_port() binds and lets go: a port nobody listens on yet is free.
FreePorts == {port \in Ports : Listeners(port) = {}}
FirstFree(port) == port \in FreePorts /\ \A other \in FreePorts : port <= other

Began(s, e, port, met) ==
  start' = [start EXCEPT ![s] = [NoCall EXCEPT !.phase = "free", !.endpoint = e, !.port = port, !.met = met]]

\* The existing tunnel, a dead entry removed, the port: searched, or taken as it was asked for.
StartTunnel(s, e) ==
  /\ MayCall(s)
  /\ IF Active(e)
     THEN /\ held' = held \cup {[endpoint |-> e, port |-> process[tunnels[e]].port]}
          /\ UNCHANGED <<tunnels, start, contested>>
     ELSE /\ tunnels' = [tunnels EXCEPT ![e] = None]
          /\ \/ \E port \in Ports : FirstFree(port) /\ Began(s, e, port, Listeners(port))
             \/ \E port \in Chosen : s = Loop /\ Began(s, e, port, {})
          /\ contested' = contested \cup Started(Rivals(s, e))
          /\ UNCHANGED held
  /\ UNCHANGED <<process, stop, told, shared>>

\* Those that live with the port of the call and did not listen there when it was searched.
Sharers(s) == {q \in Processes : Alive(q) /\ process[q].port = start[s].port} \ start[s].met

Spawn(s, p) ==
  /\ start[s].phase = "free" /\ process[p].state = "unused"
  /\ process' = [process EXCEPT ![p] = [state |-> "starting", endpoint |-> start[s].endpoint, port |-> start[s].port]]
  /\ start' = [start EXCEPT ![s].phase = "waiting", ![s].process = p]
  /\ contested' = IF Rivals(s, start[s].endpoint) # {} \/ stop.endpoint = start[s].endpoint
                  THEN contested \cup {p} ELSE contested
  /\ shared' = IF Sharers(s) # {} THEN shared \cup Sharers(s) \cup {p} ELSE shared
  /\ UNCHANGED <<tunnels, stop, held, told>>

\* No AWS account, or no aws command.
SpawnFails(s) ==
  /\ start[s].phase = "free"
  /\ start' = [start EXCEPT ![s] = NoCall]
  /\ UNCHANGED <<process, tunnels, stop, held, marks>>

\* _wait_for_port(): somebody listens there.
PortOpens(s) ==
  /\ start[s].phase = "waiting" /\ Listeners(start[s].port) # {}
  /\ start' = [start EXCEPT ![s].phase = "open"]
  /\ UNCHANGED <<process, tunnels, stop, held, marks>>

\* Mutant: a process that never listened is left alone.
PortTimesOutUntold(s) ==
  /\ start[s].phase = "waiting" /\ Listeners(start[s].port) = {}
  /\ start' = [start EXCEPT ![s] = NoCall]
  /\ UNCHANGED <<process, tunnels, stop, held, marks>>

\* The process is sent SIGTERM and forgotten; nobody waits for its end, which may come
\* late or never.
PortTimesOut(s) ==
  /\ start[s].phase = "waiting" /\ Listeners(start[s].port) = {}
  /\ told' = told \cup {start[s].process}
  /\ start' = [start EXCEPT ![s] = NoCall]
  /\ UNCHANGED <<process, tunnels, stop, held, contested, shared>>

\* Mutant: what listens on the port is taken for the process.
RegisterUnpolled(s) ==
  /\ start[s].phase = "open"
  /\ tunnels' = [tunnels EXCEPT ![start[s].endpoint] = start[s].process]
  /\ held' = held \cup {[endpoint |-> start[s].endpoint, port |-> start[s].port]}
  /\ start' = [start EXCEPT ![s] = NoCall]
  /\ UNCHANGED <<process, stop, marks>>

\* The process is asked once more whether it lives, then the tunnel is known.
Register(s) ==
  /\ start[s].phase = "open"
  /\ LET c == start[s]
     IN IF Alive(c.process)
        THEN /\ tunnels' = [tunnels EXCEPT ![c.endpoint] = c.process]
             /\ held' = held \cup {[endpoint |-> c.endpoint, port |-> c.port]}
        ELSE UNCHANGED <<tunnels, held>>
  /\ start' = [start EXCEPT ![s] = NoCall]
  /\ UNCHANGED <<process, stop, marks>>

-----------------------------------------------------------------------------
(* Stop and list, on the loop *)

LoopIdle == start[Loop].phase = "idle" /\ stop = NoStop

\* SIGTERM, and up to five seconds until the process has gone.
StopKills(e) ==
  /\ LoopIdle /\ tunnels[e] # None
  /\ told' = told \cup {tunnels[e]}
  /\ stop' = [endpoint |-> e, process |-> tunnels[e]]
  /\ contested' = contested \cup Started(Rivals(Loop, e))
  /\ UNCHANGED <<process, tunnels, start, held, shared>>

\* It has gone by itself or by SIGKILL, and whatever is filed under the id goes with it.
StopForgets ==
  /\ stop # NoStop
  /\ process' = [process EXCEPT ![stop.process].state = "dead"]
  /\ tunnels' = [tunnels EXCEPT ![stop.endpoint] = None]
  /\ stop' = NoStop
  /\ UNCHANGED <<start, held, marks>>

\* An error while it waits or kills, such as a process that went just before SIGKILL.
StopFails ==
  /\ stop # NoStop
  /\ stop' = NoStop
  /\ UNCHANGED <<process, tunnels, start, held, marks>>

\* list_tunnels() drops the dead.
List ==
  /\ LoopIdle /\ \E e \in Endpoints : tunnels[e] # None /\ ~ Active(e)
  /\ tunnels' = [e \in Endpoints |-> IF Active(e) THEN tunnels[e] ELSE None]
  /\ UNCHANGED <<process, start, stop, held, marks>>

-----------------------------------------------------------------------------
(* The processes and the operations *)

\* A process that finds its port taken ends.
Listens(p) ==
  /\ process[p].state = "starting"
  /\ process' = [process EXCEPT ![p].state = IF Listeners(process[p].port) = {} THEN "listening" ELSE "dead"]
  /\ UNCHANGED <<tunnels, start, stop, held, marks>>

Dies(p) ==
  /\ Alive(p)
  /\ process' = [process EXCEPT ![p].state = "dead"]
  /\ UNCHANGED <<tunnels, start, stop, held, marks>>

\* An operation connects now or hours later, and more than once, until it ends.
OperationEnds(a) ==
  /\ a \in held /\ held' = held \ {a}
  /\ UNCHANGED <<process, tunnels, start, stop, marks>>

TunnelsNext ==
  \/ \E s \in Starters :
       \/ \E e \in Endpoints : StartTunnel(s, e)
       \/ \E p \in Processes : Spawn(s, p)
       \/ SpawnFails(s) \/ PortOpens(s) \/ PortTimesOut(s) \/ Register(s)
  \/ StopForgets \/ StopFails \/ List
  \/ \E a \in held : OperationEnds(a)
  \/ \E e \in Endpoints : StopKills(e)
  \/ \E p \in Processes : Listens(p) \/ Dies(p)

TunnelsSpec == TunnelsInit /\ [][TunnelsNext]_tunnelVars

-----------------------------------------------------------------------------
(* Properties *)

\* Threads and requests may contend for a port, but only by asking for it, or between the
\* search for it and the moment its process listens: a live tunnel of the table that never
\* lived beside another process of its port is what listens there, so that who reuses
\* it reaches the endpoint it is filed under.
TunnelsLeadHome ==
  \A e \in Endpoints : Active(e) /\ tunnels[e] \notin shared => Leads(process[tunnels[e]].port, e)

\* A process that forwards can be listed and stopped, at the latest at shutdown: it is
\* in the table or about to be -- unless it was sent SIGTERM, or threads and the loop
\* started or stopped tunnels to its endpoint at once.
NoOrphans ==
  \A p \in Processes \ (told \cup contested) : Alive(p) =>
    \/ \E e \in Endpoints : tunnels[e] = p
    \/ \E s \in Starters : start[s].process = p

\* The address that a caller has just been given reaches the endpoint it asked for, unless
\* processes contend for its port.
GivenAddressesWork ==
  [][\A a \in held' \ held :
       \/ Leads(a.port, a.endpoint)
       \/ \E p \in shared : Alive(p) /\ process[p].port = a.port]_tunnelVars

\* Whatever interleaves, an address is given out only while a process that was
\* started to forward it lives: a dead tunnel is never reused, and one that
\* died while its port was awaited is reported as failed.
GivenByTheLiving ==
  [][\A a \in held' \ held :
       \E p \in Processes : Alive(p) /\ process[p].endpoint = a.endpoint /\ process[p].port = a.port]_tunnelVars

-----------------------------------------------------------------------------
(* What the code does not keep *)

\* A live tunnel of the table leads to its endpoint, whoever starts tunnels and on whatever port.
EveryTunnelLeadsHome == \A e \in Endpoints : Active(e) => Leads(process[tunnels[e]].port, e)

\* Every process that lives can be listed and stopped.
EveryProcessIsKnown ==
  \A p \in Processes : Alive(p) =>
    \/ \E e \in Endpoints : tunnels[e] = p
    \/ \E s \in Starters : start[s].process = p

\* main.py: the operation is routed through the endpoint's tunnel.  While it
\* runs, its port leads there or nowhere.
PortsKeepLeadingHome ==
  \A a \in held : Listeners(a.port) # {} => Leads(a.port, a.endpoint)

=============================================================================
