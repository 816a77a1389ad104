----------------------------- MODULE TunnelsProofs -----------------------------
(***************************************************************************)
(* Proofs about Tunnels, for any number of threads, endpoints, ports and   *)
(* processes: what is given out was started for it, a process escapes the  *)
(* table only if it was told to end or its endpoint was contended for, and *)
(* a tunnel leads astray only if it had to share its port.                 *)
(***************************************************************************)
EXTENDS Tunnels, TLAPS

-----------------------------------------------------------------------------
(* The table *)

\* A process forwards what it was started for, for good; the table and the calls know
\* processes by what they forward.
TableIInv ==
  /\ TunnelsTypeOK
  /\ \A p \in Processes : process[p].state # "unused" => process[p].endpoint \in Endpoints /\ process[p].port \in Ports
  /\ \A e \in Endpoints : tunnels[e] # None =>
       process[tunnels[e]].endpoint = e /\ process[tunnels[e]].state # "unused"
  /\ stop # NoStop => process[stop.process].state # "unused"
  /\ \A s \in Starters :
       /\ start[s].phase # "idle" => start[s].endpoint \in Endpoints /\ start[s].port \in Ports
       /\ start[s].phase \in {"waiting", "open"} =>
            /\ start[s].process \in Processes
            /\ process[start[s].process].endpoint = start[s].endpoint
            /\ process[start[s].process].port = start[s].port
            /\ process[start[s].process].state # "unused"
       /\ start[s].met = {}

LEMMA NamesDiffer ==
  /\ \A e \in Endpoints : e # None
  /\ \A p \in Processes : p # None
  /\ \A port \in Ports : port # None /\ port \in Nat
  /\ Chosen \subseteq Ports /\ Loop \in Starters
BY TunnelConstants DEF TunnelConstants, Starters

LEMMA TableInitially == TunnelsInit => TableIInv
BY DEF TunnelsInit, TableIInv, TunnelsTypeOK, Unused, NoCall, NoStop

\* A step that starts no process: the processes keep what they forward.
ForwardingKept ==
  \A p \in Processes : /\ process'[p].endpoint = process[p].endpoint /\ process'[p].port = process[p].port
                       /\ process[p].state # "unused" => process'[p].state # "unused"
                       /\ process[p].state = "unused" => process'[p].state = "unused"

LEMMA StartKeepsTable ==
  ASSUME TableIInv, NEW s \in Starters, NEW e \in Endpoints, StartTunnel(s, e)
  PROVE  TableIInv'
<1> USE NamesDiffer
<1>1. CASE Active(e)
  <2>1. process[tunnels[e]].port \in Ports
    BY <1>1 DEF TableIInv, TunnelsTypeOK, Active
  <2>2. TunnelsTypeOK'
    BY <1>1, <2>1 DEF StartTunnel, TableIInv, TunnelsTypeOK, Addresses
  <2>3. QED
    BY <1>1, <2>2 DEF StartTunnel, TableIInv
<1>2. CASE ~ Active(e)
  <2>1. PICK port \in Ports : Began(s, e, port, {})
    BY <1>2 DEF StartTunnel, FirstFree, FreePorts
  <2>2. /\ start' = [start EXCEPT ![s] = [phase |-> "free", endpoint |-> e, port |-> port, process |-> None, met |-> {}]]
        /\ tunnels' = [tunnels EXCEPT ![e] = None] /\ UNCHANGED <<process, stop, held, told, shared>>
        /\ contested' = contested \cup Started(Rivals(s, e))
    BY <1>2, <2>1 DEF StartTunnel, Began, NoCall
  <2>3. TunnelsTypeOK'
    BY <2>2 DEF TableIInv, TunnelsTypeOK, Started
  <2>4. QED
    BY <2>2, <2>3 DEF TableIInv, TunnelsTypeOK
<1>3. QED
  BY <1>1, <1>2

LEMMA SpawnKeepsTable ==
  ASSUME TableIInv, NEW s \in Starters, NEW p \in Processes, Spawn(s, p)
  PROVE  TableIInv'
<1> USE NamesDiffer
<1>1. /\ start[s].phase = "free" /\ start[s].endpoint \in Endpoints /\ start[s].port \in Ports
      /\ process[p].state = "unused"
      /\ process' = [process EXCEPT ![p] = [state |-> "starting", endpoint |-> start[s].endpoint, port |-> start[s].port]]
      /\ start' = [start EXCEPT ![s].phase = "waiting", ![s].process = p]
      /\ UNCHANGED <<tunnels, stop, held, told>>
      /\ contested' \in {contested, contested \cup {p}}
      /\ shared' \in {shared, shared \cup Sharers(s) \cup {p}}
  BY DEF Spawn, TableIInv
<1>2. TunnelsTypeOK'
  <2> DEFINE new == [state |-> "starting", endpoint |-> start[s].endpoint, port |-> start[s].port]
             spawned == [start[s] EXCEPT !.phase = "waiting", !.process = p]
  <2>1. new \in [state : {"unused", "starting", "listening", "dead"},
                 endpoint : Endpoints \cup {None}, port : Ports \cup {None}]
    BY <1>1
  <2>2. spawned \in [phase : {"idle", "free", "waiting", "open"}, endpoint : Endpoints \cup {None},
                     port : Ports \cup {None}, process : Processes \cup {None}, met : SUBSET Processes]
    <3>1. start[s] \in [phase : {"idle", "free", "waiting", "open"}, endpoint : Endpoints \cup {None},
                        port : Ports \cup {None}, process : Processes \cup {None}, met : SUBSET Processes]
      BY DEF TableIInv, TunnelsTypeOK
    <3>2. QED
      BY <3>1
  <2>3. process' = [process EXCEPT ![p] = new] /\ start' = [start EXCEPT ![s] = spawned]
    <3>1. start \in [Starters -> [phase : {"idle", "free", "waiting", "open"}, endpoint : Endpoints \cup {None},
                                  port : Ports \cup {None}, process : Processes \cup {None}, met : SUBSET Processes]]
      BY DEF TableIInv, TunnelsTypeOK
    <3>2. QED
      BY <1>1, <3>1
  <2> HIDE DEF new, spawned
  <2>4. process' \in [Processes -> [state : {"unused", "starting", "listening", "dead"},
                                   endpoint : Endpoints \cup {None}, port : Ports \cup {None}]]
    BY <2>1, <2>3 DEF TableIInv, TunnelsTypeOK
  <2>5. start' \in [Starters -> [phase : {"idle", "free", "waiting", "open"}, endpoint : Endpoints \cup {None},
                                port : Ports \cup {None}, process : Processes \cup {None}, met : SUBSET Processes]]
    BY <2>2, <2>3 DEF TableIInv, TunnelsTypeOK
  <2>6. told' \subseteq Processes /\ contested' \subseteq Processes /\ shared' \subseteq Processes
    BY <1>1 DEF TableIInv, TunnelsTypeOK, Sharers
  <2>7. QED
    BY <1>1, <2>4, <2>5, <2>6 DEF TableIInv, TunnelsTypeOK
<1>3. \A e \in Endpoints : tunnels[e] # p
  BY <1>1 DEF TableIInv
<1>4. \A other \in Starters : start[other].phase \in {"waiting", "open"} => start[other].process # p
  BY <1>1 DEF TableIInv
<1>5. QED
  BY <1>1, <1>2, <1>3, <1>4 DEF TableIInv, TunnelsTypeOK

LEMMA CallsKeepTable ==
  ASSUME TableIInv, NEW s \in Starters, SpawnFails(s) \/ PortOpens(s) \/ PortTimesOut(s)
  PROVE  TableIInv'
<1> USE NamesDiffer
<1>1. CASE SpawnFails(s)
  BY <1>1 DEF SpawnFails, marks, TableIInv, TunnelsTypeOK, NoCall
<1>2. CASE PortOpens(s)
  BY <1>2 DEF PortOpens, marks, TableIInv, TunnelsTypeOK
<1>3. CASE PortTimesOut(s)
  BY <1>3 DEF PortTimesOut, TableIInv, TunnelsTypeOK, NoCall
<1>4. QED
  BY <1>1, <1>2, <1>3

LEMMA RegisterKeepsTable ==
  ASSUME TableIInv, NEW s \in Starters, Register(s)
  PROVE  TableIInv'
<1> USE NamesDiffer
<1>1. /\ start[s].endpoint \in Endpoints /\ start[s].port \in Ports /\ start[s].process \in Processes
      /\ process[start[s].process].endpoint = start[s].endpoint /\ process[start[s].process].state # "unused"
  BY DEF Register, TableIInv
<1>2. TunnelsTypeOK'
  BY <1>1 DEF Register, marks, TableIInv, TunnelsTypeOK, NoCall, Addresses
<1>3. start' = [start EXCEPT ![s] = NoCall] /\ UNCHANGED <<process, stop>>
  BY DEF Register
<1>4. tunnels' = tunnels \/ tunnels' = [tunnels EXCEPT ![start[s].endpoint] = start[s].process]
  BY DEF Register
<1>5. QED
  BY <1>1, <1>2, <1>3, <1>4 DEF TableIInv, TunnelsTypeOK, NoCall

\* What happens to processes and what the loop stops and lists.
LEMMA OthersKeepTable ==
  ASSUME TableIInv,
         \/ StopForgets \/ StopFails \/ List \/ UNCHANGED tunnelVars
         \/ \E a \in held : OperationEnds(a)
         \/ \E e \in Endpoints : StopKills(e)
         \/ \E p \in Processes : Listens(p) \/ Dies(p)
  PROVE  TableIInv'
<1> USE NamesDiffer
<1>1. CASE StopFails \/ List \/ (\E a \in held : OperationEnds(a)) \/ UNCHANGED tunnelVars
  BY <1>1 DEF StopFails, List, OperationEnds, tunnelVars, marks, TableIInv, TunnelsTypeOK
<1>2. ASSUME NEW p \in Processes, NEW state \in {"listening", "dead"}, process[p].state # "unused",
             process' = [process EXCEPT ![p].state = state], UNCHANGED <<start, held, marks>>,
             tunnels' \in [Endpoints -> Processes \cup {None}],
             \A e \in Endpoints : tunnels'[e] \in {tunnels[e], None},
             stop' \in {stop, NoStop}
      PROVE  TableIInv'
  <2>1. TunnelsTypeOK'
    BY <1>2 DEF TableIInv, TunnelsTypeOK, marks
  <2>2. ForwardingKept
    BY <1>2 DEF TableIInv, TunnelsTypeOK, ForwardingKept
  <2>3. QED
    BY <1>2, <2>1, <2>2 DEF TableIInv, TunnelsTypeOK, ForwardingKept
<1>3. ASSUME NEW e \in Endpoints, StopKills(e) PROVE TableIInv'
  BY <1>3 DEF StopKills, TableIInv, TunnelsTypeOK, Started
<1>4. ASSUME NEW p \in Processes, Listens(p) \/ Dies(p) PROVE TableIInv'
  BY <1>2, <1>4 DEF Listens, Dies, Alive, TableIInv, TunnelsTypeOK
<1>5. CASE StopForgets
  <2>1. stop.process \in Processes /\ stop.endpoint \in Endpoints
    BY <1>5 DEF StopForgets, TableIInv, TunnelsTypeOK
  <2>2. process[stop.process].state # "unused"
    BY <1>5 DEF StopForgets, TableIInv
  <2>3. QED
    BY <1>2, <1>5, <2>1, <2>2 DEF StopForgets, TableIInv, TunnelsTypeOK
<1>6. QED
  BY <1>1, <1>3, <1>4, <1>5

LEMMA TableInductive == TableIInv /\ [TunnelsNext]_tunnelVars => TableIInv'
BY StartKeepsTable, SpawnKeepsTable, CallsKeepTable, RegisterKeepsTable, OthersKeepTable DEF TunnelsNext

\* The table of ssm_tunnel.py and the calls of start_tunnel() know processes by what they
\* forward, however many threads call.
THEOREM TableInvariant == TunnelsSpec => []TableIInv
<1>1. QED
  BY TableInitially, TableInductive, PTL DEF TunnelsSpec

\* start_tunnel() gives an address out only while a process lives that was started to
\* forward it, whoever else calls, stops or dies.
THEOREM AddressesComeFromTheLiving == TunnelsSpec => GivenByTheLiving
<1>1. ASSUME TableIInv, [TunnelsNext]_tunnelVars, NEW a \in held' \ held
      PROVE  \E p \in Processes : Alive(p) /\ process[p].endpoint = a.endpoint /\ process[p].port = a.port
  <2>1. \/ \E s \in Starters, e \in Endpoints : StartTunnel(s, e)
        \/ \E s \in Starters : Register(s)
    BY <1>1 DEF TunnelsNext, Spawn, SpawnFails, PortOpens, PortTimesOut, StopForgets, StopFails, List,
                OperationEnds, StopKills, Listens, Dies, tunnelVars
  <2>2. ASSUME NEW s \in Starters, NEW e \in Endpoints, StartTunnel(s, e)
        PROVE  \E p \in Processes : Alive(p) /\ process[p].endpoint = a.endpoint /\ process[p].port = a.port
    <3>1. Active(e) /\ a = [endpoint |-> e, port |-> process[tunnels[e]].port]
      BY <1>1, <2>2 DEF StartTunnel
    <3>2. tunnels[e] \in Processes /\ process[tunnels[e]].endpoint = e
      BY <1>1, <3>1 DEF Active, TableIInv, TunnelsTypeOK
    <3>3. QED
      BY <3>1, <3>2 DEF Active
  <2>3. ASSUME NEW s \in Starters, Register(s)
        PROVE  \E p \in Processes : Alive(p) /\ process[p].endpoint = a.endpoint /\ process[p].port = a.port
    <3>1. Alive(start[s].process) /\ a = [endpoint |-> start[s].endpoint, port |-> start[s].port]
      BY <1>1, <2>3 DEF Register
    <3>2. QED
      BY <1>1, <2>3, <3>1 DEF Register, TableIInv
  <2>4. QED
    BY <2>1, <2>2, <2>3
<1>2. TableIInv /\ [TunnelsNext]_tunnelVars =>
        [\A a \in held' \ held :
           \E p \in Processes : Alive(p) /\ process[p].endpoint = a.endpoint /\ process[p].port = a.port]_tunnelVars
  BY <1>1
<1>3. QED
  BY <1>2, TableInvariant, PTL DEF TunnelsSpec, GivenByTheLiving

-----------------------------------------------------------------------------
(* Processes out of reach *)

KnownTo(s) == start[s].phase \in {"waiting", "open"}
Blameless == Processes \ (told \cup contested)

\* A blameless process that lives is filed or its caller still waits for it; a caller
\* whose process is not contested is alone with its endpoint; and while a blameless
\* process is filed and lives nobody starts or stops a tunnel of that endpoint.
KnownIInv ==
  /\ TableIInv
  /\ \A p \in Blameless : Alive(p) =>
       tunnels[process[p].endpoint] = p \/ \E s \in Starters : KnownTo(s) /\ start[s].process = p
  /\ \A s \in Starters : KnownTo(s) /\ start[s].process \notin contested =>
       Rivals(s, start[s].endpoint) = {} /\ stop.endpoint # start[s].endpoint
  /\ \A e \in Endpoints : tunnels[e] \in Blameless /\ Alive(tunnels[e]) =>
       stop.endpoint # e /\ \A s \in Starters : start[s].phase # "idle" => start[s].endpoint # e

LEMMA KnownInitially == TunnelsInit => KnownIInv
BY TableInitially DEF TunnelsInit, KnownIInv, KnownTo, Blameless, Alive, Unused, NoCall, NoStop

LEMMA StartKeepsKnown ==
  ASSUME KnownIInv, TableIInv', NEW s \in Starters, NEW e \in Endpoints, StartTunnel(s, e)
  PROVE  KnownIInv'
<1> USE NamesDiffer
<1>1. CASE Active(e)
  <2>1. UNCHANGED <<process, tunnels, start, stop, told, contested>>
    BY <1>1 DEF StartTunnel
  <2>2. QED
    BY <2>1 DEF KnownIInv, KnownTo, Blameless, Alive, Rivals
<1>2. CASE ~ Active(e)
  <2>1. PICK port \in Ports : Began(s, e, port, {})
    BY <1>2 DEF StartTunnel, FirstFree, FreePorts
  <2>2. /\ start' = [start EXCEPT ![s] = [phase |-> "free", endpoint |-> e, port |-> port, process |-> None, met |-> {}]]
        /\ tunnels' = [tunnels EXCEPT ![e] = None] /\ UNCHANGED <<process, stop, told>>
        /\ contested' = contested \cup Started(Rivals(s, e)) /\ start[s].phase = "idle"
    BY <1>2, <2>1 DEF StartTunnel, Began, NoCall, MayCall
  <2>3. Blameless' \subseteq Blameless /\ start \in [Starters -> [phase : {"idle", "free", "waiting", "open"},
            endpoint : Endpoints \cup {None}, port : Ports \cup {None}, process : Processes \cup {None}, met : SUBSET Processes]]
    BY <2>2 DEF Blameless, KnownIInv, TableIInv, TunnelsTypeOK
  <2>4. /\ start'[s].phase = "free" /\ start'[s].endpoint = e
        /\ \A r \in Starters \ {s} : start'[r] = start[r]
    BY <2>2, <2>3
  <2>5. ASSUME NEW p \in Blameless', Alive(p)'
        PROVE  tunnels'[process'[p].endpoint] = p \/ \E r \in Starters : KnownTo(r)' /\ start'[r].process = p
    <3>1. p \in Blameless /\ Alive(p)
      BY <2>2, <2>3, <2>5 DEF Alive
    <3>2. CASE tunnels[process[p].endpoint] = p
      BY <1>2, <2>2, <3>1, <3>2 DEF Active, KnownIInv, TableIInv, TunnelsTypeOK, Blameless
    <3>3. CASE \E r \in Starters : KnownTo(r) /\ start[r].process = p
      BY <2>2, <2>4, <3>3 DEF KnownTo
    <3>4. QED
      BY <3>1, <3>2, <3>3 DEF KnownIInv
  <2>6. ASSUME NEW r \in Starters, KnownTo(r)', start'[r].process \notin contested'
        PROVE  Rivals(r, start[r].endpoint)' = {} /\ stop'.endpoint # start'[r].endpoint
    <3>1. r # s /\ start'[r] = start[r] /\ KnownTo(r) /\ start[r].process \notin contested
      BY <2>2, <2>4, <2>6 DEF KnownTo
    <3>2. start[r].process \in Processes /\ start[r].phase # "idle"
      BY <3>1 DEF KnownTo, KnownIInv, TableIInv
    <3>3. start[r].endpoint # e
      BY <2>2, <2>6, <3>1, <3>2 DEF Started, Rivals
    <3>4. Rivals(r, start[r].endpoint) = {} /\ stop.endpoint # start[r].endpoint
      BY <3>1 DEF KnownIInv
    <3>5. QED
      BY <2>2, <2>4, <3>1, <3>3, <3>4 DEF Rivals
  <2>7. ASSUME NEW f \in Endpoints, tunnels'[f] \in Blameless', Alive(tunnels[f])'
        PROVE  stop'.endpoint # f /\ \A r \in Starters : start'[r].phase # "idle" => start'[r].endpoint # f
    <3>1. f # e /\ tunnels[f] \in Blameless /\ Alive(tunnels[f])
      BY <2>2, <2>3, <2>7 DEF Alive, Blameless, KnownIInv, TableIInv, TunnelsTypeOK
    <3>2. QED
      BY <2>2, <2>4, <3>1 DEF KnownIInv
  <2>8. QED
    BY <2>5, <2>6, <2>7 DEF KnownIInv
<1>3. QED
  BY <1>1, <1>2

LEMMA SpawnKeepsKnown ==
  ASSUME KnownIInv, TableIInv', NEW s \in Starters, NEW p \in Processes, Spawn(s, p)
  PROVE  KnownIInv'
<1> USE NamesDiffer
<1>1. /\ start[s].phase = "free" /\ process[p].state = "unused"
      /\ process' = [process EXCEPT ![p] = [state |-> "starting", endpoint |-> start[s].endpoint, port |-> start[s].port]]
      /\ UNCHANGED <<tunnels, stop, told>>
      /\ contested' \in {contested, contested \cup {p}}
      /\ p \notin contested' => Rivals(s, start[s].endpoint) = {} /\ stop.endpoint # start[s].endpoint
  BY DEF Spawn
<1>2. /\ start'[s].phase = "waiting" /\ start'[s].process = p /\ start'[s].endpoint = start[s].endpoint
      /\ \A r \in Starters \ {s} : start'[r] = start[r]
  BY DEF Spawn, KnownIInv, TableIInv, TunnelsTypeOK
<1>3. /\ \A r \in Starters : start'[r].endpoint = start[r].endpoint /\ (start'[r].phase # "idle" <=> start[r].phase # "idle")
      /\ \A r \in Starters, e \in Endpoints : Rivals(r, e)' = Rivals(r, e)
  BY <1>1, <1>2 DEF Rivals
<1>4. \A q \in Processes \ {p} : process'[q] = process[q]
  BY <1>1 DEF KnownIInv, TableIInv, TunnelsTypeOK
<1>5. (\A e \in Endpoints : tunnels[e] # p) /\ \A r \in Starters \ {s} : KnownTo(r) => start[r].process # p
  BY <1>1 DEF KnownIInv, TableIInv, KnownTo
<1>6. ASSUME NEW q \in Blameless', Alive(q)'
      PROVE  tunnels'[process'[q].endpoint] = q \/ \E r \in Starters : KnownTo(r)' /\ start'[r].process = q
  <2>1. CASE q = p
    BY <1>2, <2>1 DEF KnownTo
  <2>2. CASE q # p
    <3>1. q \in Blameless /\ Alive(q) /\ process'[q] = process[q]
      BY <1>1, <1>4, <1>6, <2>2 DEF Blameless, Alive
    <3>2. QED
      BY <1>1, <1>2, <3>1 DEF KnownIInv, KnownTo
  <2>3. QED
    BY <2>1, <2>2
<1>7. ASSUME NEW r \in Starters, KnownTo(r)', start'[r].process \notin contested'
      PROVE  Rivals(r, start[r].endpoint)' = {} /\ stop'.endpoint # start'[r].endpoint
  <2>1. start[r].endpoint \in Endpoints
    BY <1>1, <1>2, <1>7 DEF KnownTo, KnownIInv, TableIInv
  <2>2. Rivals(r, start[r].endpoint) = {} /\ stop.endpoint # start[r].endpoint
    BY <1>1, <1>2, <1>7 DEF KnownIInv, KnownTo
  <2>3. Rivals(r, start[r].endpoint)' = {}
    BY <2>1, <2>2, <1>3 DEF Rivals
  <2>4. QED
    BY <1>1, <1>3, <2>2, <2>3
<1>8. ASSUME NEW e \in Endpoints, tunnels'[e] \in Blameless', Alive(tunnels[e])'
      PROVE  stop'.endpoint # e /\ \A r \in Starters : start'[r].phase # "idle" => start'[r].endpoint # e
  <2>1. tunnels[e] \in Blameless /\ tunnels[e] # p
    BY <1>1, <1>5, <1>8 DEF Blameless
  <2>2. Alive(tunnels[e])
    BY <1>1, <1>4, <1>8, <2>1 DEF Alive, Blameless
  <2>3. QED
    BY <1>1, <1>3, <2>1, <2>2 DEF KnownIInv
<1>9. QED
  BY <1>6, <1>7, <1>8 DEF KnownIInv

\* A call that ends or goes on with what it has.
LEMMA CallsKeepKnown ==
  ASSUME KnownIInv, TableIInv', NEW s \in Starters, SpawnFails(s) \/ PortOpens(s) \/ PortTimesOut(s) \/ Register(s)
  PROVE  KnownIInv'
<1> USE NamesDiffer
<1>1. CASE PortOpens(s)
  <2>1. /\ UNCHANGED <<process, tunnels, stop, told, contested>>
        /\ \A r \in Starters : /\ start'[r].endpoint = start[r].endpoint /\ start'[r].process = start[r].process
                               /\ start'[r].phase # "idle" <=> start[r].phase # "idle"
                               /\ KnownTo(r)' <=> KnownTo(r)
    BY <1>1 DEF PortOpens, marks, KnownTo, KnownIInv, TableIInv, TunnelsTypeOK
  <2>2. \A r \in Starters : Rivals(r, start[r].endpoint)' = Rivals(r, start[r].endpoint)
    BY <2>1 DEF Rivals
  <2>3. QED
    BY <2>1, <2>2 DEF KnownIInv, Blameless, Alive
<1>2. CASE SpawnFails(s) \/ PortTimesOut(s) \/ Register(s)
  <2>1. /\ start'[s].phase = "idle" /\ \A r \in Starters \ {s} : start'[r] = start[r]
        /\ UNCHANGED <<process, stop, contested>> /\ told \subseteq told'
    BY <1>2 DEF SpawnFails, PortTimesOut, Register, marks, NoCall, KnownIInv, TableIInv, TunnelsTypeOK
  <2>2. Blameless' \subseteq Blameless
    BY <2>1 DEF Blameless
  <2>3. \A r \in Starters, e \in Endpoints : Rivals(r, e)' \subseteq Rivals(r, e)
    BY <2>1 DEF Rivals
  <2>4. \/ tunnels' = tunnels
        \/ /\ KnownTo(s) /\ start[s].endpoint \in Endpoints /\ start[s].process \in Processes
           /\ tunnels' = [tunnels EXCEPT ![start[s].endpoint] = start[s].process]
    BY <1>2 DEF SpawnFails, PortTimesOut, Register, KnownTo, KnownIInv, TableIInv
  <2>5. KnownTo(s) => \/ start[s].process \in told' \/ ~ Alive(start[s].process)
                      \/ tunnels' = [tunnels EXCEPT ![start[s].endpoint] = start[s].process]
    BY <1>2 DEF SpawnFails, PortTimesOut, Register, KnownTo
  <2>6. ASSUME NEW p \in Blameless', Alive(p)'
        PROVE  tunnels'[process'[p].endpoint] = p \/ \E r \in Starters : KnownTo(r)' /\ start'[r].process = p
    <3>1. p \in Blameless /\ Alive(p) /\ p \notin told'
      BY <2>1, <2>2, <2>6 DEF Alive, Blameless
    <3>2. CASE tunnels[process[p].endpoint] = p
      <4>1. process[p].endpoint \in Endpoints
        BY <3>1 DEF KnownIInv, TableIInv, Alive, Blameless
      <4>2. \A r \in Starters : start[r].phase # "idle" => start[r].endpoint # process[p].endpoint
        BY <3>1, <3>2, <4>1 DEF KnownIInv
      <4>3. tunnels'[process[p].endpoint] = p
        BY <2>4, <3>2, <4>1, <4>2 DEF KnownTo, KnownIInv, TableIInv, TunnelsTypeOK
      <4>4. QED
        BY <2>1, <4>3
    <3>3. CASE \E r \in Starters \ {s} : KnownTo(r) /\ start[r].process = p
      BY <2>1, <3>3 DEF KnownTo
    <3>4. CASE KnownTo(s) /\ start[s].process = p
      <4>1. process[p].endpoint = start[s].endpoint /\ start[s].endpoint \in Endpoints
        BY <3>4 DEF KnownIInv, TableIInv, KnownTo
      <4>2. QED
        BY <2>1, <2>5, <3>1, <3>4, <4>1 DEF KnownIInv, TableIInv, TunnelsTypeOK
    <3>5. QED
      BY <3>1, <3>2, <3>3, <3>4 DEF KnownIInv
  <2>7. ASSUME NEW r \in Starters, KnownTo(r)', start'[r].process \notin contested'
        PROVE  Rivals(r, start[r].endpoint)' = {} /\ stop'.endpoint # start'[r].endpoint
    <3>1. r # s /\ start'[r] = start[r] /\ KnownTo(r) /\ start[r].process \notin contested
      BY <2>1, <2>7 DEF KnownTo
    <3>2. Rivals(r, start[r].endpoint) = {} /\ stop.endpoint # start[r].endpoint
      BY <3>1 DEF KnownIInv
    <3>3. QED
      BY <2>1, <3>1, <3>2 DEF Rivals
  <2>8. ASSUME NEW e \in Endpoints, tunnels'[e] \in Blameless', Alive(tunnels[e])'
        PROVE  stop'.endpoint # e /\ \A r \in Starters : start'[r].phase # "idle" => start'[r].endpoint # e
    <3>1. tunnels'[e] \in Blameless /\ (tunnels'[e] = tunnels[e] \/ (KnownTo(s) /\ e = start[s].endpoint /\ tunnels'[e] = start[s].process))
      BY <2>2, <2>4, <2>8 DEF KnownIInv, TableIInv, TunnelsTypeOK
    <3>2. CASE tunnels'[e] = tunnels[e]
      <4>1. tunnels[e] \in Blameless /\ Alive(tunnels[e])
        BY <2>1, <2>8, <3>1, <3>2 DEF Alive
      <4>2. stop.endpoint # e /\ \A r \in Starters : start[r].phase # "idle" => start[r].endpoint # e
        BY <4>1 DEF KnownIInv
      <4>3. QED
        BY <2>1, <4>2
    <3>3. CASE KnownTo(s) /\ e = start[s].endpoint /\ tunnels'[e] = start[s].process
      <4>1. Rivals(s, e) = {} /\ stop.endpoint # e
        BY <3>1, <3>3 DEF KnownIInv, Blameless
      <4>2. QED
        BY <2>1, <4>1 DEF Rivals
    <3>4. QED
      BY <3>1, <3>2, <3>3
  <2>9. QED
    BY <2>6, <2>7, <2>8 DEF KnownIInv
<1>3. QED
  BY <1>1, <1>2

LEMMA LoopKeepsKnown ==
  ASSUME KnownIInv, TableIInv', StopForgets \/ StopFails \/ List \/ \E e \in Endpoints : StopKills(e)
  PROVE  KnownIInv'
<1> USE NamesDiffer
<1>1. CASE StopFails
  <2>1. UNCHANGED <<process, tunnels, start, told, contested>> /\ stop'.endpoint = None
    BY <1>1 DEF StopFails, NoStop, marks
  <2>2. \A r \in Starters : KnownTo(r) => start[r].endpoint # None
    BY DEF KnownTo, KnownIInv, TableIInv
  <2>3. QED
    BY <2>1, <2>2 DEF KnownIInv, KnownTo, Blameless, Alive, Rivals
<1>2. CASE List
  <2>1. UNCHANGED <<process, start, stop, told, contested>>
        /\ tunnels' = [e \in Endpoints |-> IF Active(e) THEN tunnels[e] ELSE None]
    BY <1>2 DEF List, marks
  <2>2. \A p \in Blameless : Alive(p) /\ tunnels[process[p].endpoint] = p => tunnels'[process[p].endpoint] = p
    BY <2>1 DEF Active, Blameless, KnownIInv, TableIInv, Alive
  <2>3. \A e \in Endpoints : tunnels'[e] \in Blameless => tunnels'[e] = tunnels[e]
    BY <2>1 DEF Blameless
  <2>4. QED
    BY <2>1, <2>2, <2>3 DEF KnownIInv, KnownTo, Blameless, Alive, Rivals
<1>3. ASSUME NEW e \in Endpoints, StopKills(e) PROVE KnownIInv'
  <2>1. /\ start[Loop].phase = "idle" /\ told' = told \cup {tunnels[e]} /\ stop'.endpoint = e
        /\ contested' = contested \cup Started(Rivals(Loop, e)) /\ UNCHANGED <<process, tunnels, start>>
    BY <1>3 DEF StopKills, LoopIdle
  <2>2. Blameless' \subseteq Blameless
    BY <2>1 DEF Blameless
  <2>3. ASSUME NEW r \in Starters, KnownTo(r)', start'[r].process \notin contested'
        PROVE  Rivals(r, start[r].endpoint)' = {} /\ stop'.endpoint # start'[r].endpoint
    <3>1. r # Loop /\ KnownTo(r) /\ start[r].process \notin contested /\ start[r].process \in Processes
      BY <2>1, <2>3 DEF KnownTo, KnownIInv, TableIInv
    <3>2. start[r].endpoint # e
      BY <2>1, <2>3, <3>1 DEF Started, Rivals, KnownTo
    <3>3. QED
      BY <2>1, <3>1, <3>2 DEF KnownIInv, Rivals
  <2>4. QED
    BY <2>1, <2>2, <2>3 DEF KnownIInv, KnownTo, Blameless, Alive
<1>4. CASE StopForgets
  <2>1. /\ stop \in [endpoint : Endpoints, process : Processes] /\ stop'.endpoint = None
        /\ process' = [process EXCEPT ![stop.process].state = "dead"]
        /\ tunnels' = [tunnels EXCEPT ![stop.endpoint] = None] /\ UNCHANGED <<start, told, contested>>
    BY <1>4 DEF StopForgets, NoStop, marks, KnownIInv, TableIInv, TunnelsTypeOK
  <2>2. /\ \A p \in Processes : Alive(p)' => Alive(p)
        /\ \A p \in Processes : process'[p].endpoint = process[p].endpoint
    BY <2>1 DEF Alive, KnownIInv, TableIInv, TunnelsTypeOK
  <2>3. \A e \in Endpoints : tunnels'[e] \in Processes => tunnels'[e] = tunnels[e]
    BY <2>1 DEF KnownIInv, TableIInv, TunnelsTypeOK
  <2>4. \A p \in Blameless : Alive(p) /\ tunnels[process[p].endpoint] = p => tunnels'[process[p].endpoint] = p
    <3> SUFFICES ASSUME NEW p \in Blameless, Alive(p), tunnels[process[p].endpoint] = p
                 PROVE  tunnels'[process[p].endpoint] = p
      OBVIOUS
    <3>1. process[p].endpoint \in Endpoints
      BY DEF KnownIInv, TableIInv, Alive, Blameless
    <3>2. stop.endpoint # process[p].endpoint
      BY <3>1 DEF KnownIInv
    <3>3. QED
      BY <2>1, <3>1, <3>2 DEF KnownIInv, TableIInv, TunnelsTypeOK
  <2>5. \A r \in Starters : KnownTo(r) => start[r].endpoint # None
    BY DEF KnownTo, KnownIInv, TableIInv
  <2>6. ASSUME NEW p \in Blameless', Alive(p)'
        PROVE  tunnels'[process'[p].endpoint] = p \/ \E r \in Starters : KnownTo(r)' /\ start'[r].process = p
    <3>1. p \in Blameless /\ Alive(p) /\ process'[p].endpoint = process[p].endpoint
      BY <2>1, <2>2, <2>6 DEF Blameless
    <3>2. QED
      BY <2>1, <2>4, <3>1 DEF KnownIInv, KnownTo
  <2>7. ASSUME NEW e \in Endpoints, tunnels'[e] \in Blameless', Alive(tunnels[e])'
        PROVE  stop'.endpoint # e /\ \A r \in Starters : start'[r].phase # "idle" => start'[r].endpoint # e
    <3>1. tunnels[e] \in Blameless /\ tunnels[e] \in Processes /\ tunnels'[e] = tunnels[e]
      BY <2>1, <2>3, <2>7 DEF Blameless
    <3>2. Alive(tunnels[e])
      BY <2>2, <2>3, <2>7, <3>1 DEF Alive
    <3>3. QED
      BY <2>1, <3>1, <3>2 DEF KnownIInv
  <2>8. QED
    BY <2>1, <2>5, <2>6, <2>7 DEF KnownIInv, KnownTo, Rivals
<1>5. QED
  BY <1>1, <1>2, <1>3, <1>4

LEMMA ProcessesKeepKnown ==
  ASSUME KnownIInv, TableIInv',
         \/ UNCHANGED tunnelVars \/ \E a \in held : OperationEnds(a)
         \/ \E p \in Processes : Listens(p) \/ Dies(p)
  PROVE  KnownIInv'
<1>1. UNCHANGED <<tunnels, start, stop, told, contested>>
  BY DEF OperationEnds, Listens, Dies, tunnelVars, marks
<1>2. \A p \in Processes : (Alive(p)' => Alive(p)) /\ process'[p].endpoint = process[p].endpoint
  BY DEF OperationEnds, Listens, Dies, tunnelVars, Alive, KnownIInv, TableIInv, TunnelsTypeOK
<1>3. \A e \in Endpoints : tunnels[e] \in Blameless /\ Alive(tunnels[e])' => Alive(tunnels[e])
  BY <1>1, <1>2 DEF Blameless, Alive
<1>4. QED
  BY <1>1, <1>2, <1>3 DEF KnownIInv, KnownTo, Blameless, Rivals

LEMMA KnownInductive == KnownIInv /\ [TunnelsNext]_tunnelVars => KnownIInv'
<1> SUFFICES ASSUME KnownIInv, [TunnelsNext]_tunnelVars PROVE KnownIInv'
  OBVIOUS
<1>1. TableIInv'
  BY TableInductive DEF KnownIInv
<1>2. QED
  BY <1>1, StartKeepsKnown, SpawnKeepsKnown, CallsKeepKnown, LoopKeepsKnown, ProcessesKeepKnown DEF TunnelsNext

\* However many threads call: a process that forwards and that ssm_tunnel.py no longer knows
\* was told to end, by a stop or because its port never opened, or was started
\* while somebody else started or stopped a tunnel to the same endpoint.
THEOREM NoTunnelIsOrphaned == TunnelsSpec => []NoOrphans
<1>1. KnownIInv => NoOrphans
  BY DEF KnownIInv, NoOrphans, Blameless, TableIInv, Alive
<1>2. QED
  BY <1>1, KnownInitially, KnownInductive, PTL DEF TunnelsSpec

-----------------------------------------------------------------------------
(* Ports *)

\* Of two that live with one port each counts as shared; a process that did not share
\* listens by the time its caller has seen the port open, and once it is filed.
PortsIInv ==
  /\ TableIInv
  /\ \A p, q \in Processes : p # q /\ Alive(p) /\ Alive(q) /\ process[p].port = process[q].port => p \in shared
  /\ \A s \in Starters : start[s].phase = "open" /\ Alive(start[s].process) /\ start[s].process \notin shared =>
       process[start[s].process].state = "listening"
  /\ \A e \in Endpoints : Active(e) /\ tunnels[e] \notin shared => process[tunnels[e]].state = "listening"

LEMMA PortsInitially == TunnelsInit => PortsIInv
BY TableInitially DEF TunnelsInit, PortsIInv, Alive, Active, Unused, NoCall

LEMMA StartKeepsPorts ==
  ASSUME PortsIInv, TableIInv', NEW s \in Starters, NEW e \in Endpoints, StartTunnel(s, e)
  PROVE  PortsIInv'
<1> USE NamesDiffer
<1>1. CASE Active(e)
  <2>1. UNCHANGED <<process, tunnels, start, shared>>
    BY <1>1 DEF StartTunnel
  <2>2. QED
    BY <2>1 DEF PortsIInv, Active, Alive
<1>2. CASE ~ Active(e)
  <2>1. PICK port \in Ports : Began(s, e, port, {})
    BY <1>2 DEF StartTunnel, FirstFree, FreePorts
  <2>2. /\ start'[s].phase = "free" /\ \A r \in Starters \ {s} : start'[r] = start[r]
        /\ tunnels' = [tunnels EXCEPT ![e] = None] /\ UNCHANGED <<process, shared>>
    BY <1>2, <2>1 DEF StartTunnel, Began, NoCall, PortsIInv, TableIInv, TunnelsTypeOK
  <2>3. \A f \in Endpoints : tunnels'[f] # None => tunnels'[f] = tunnels[f]
    BY <2>2 DEF PortsIInv, TableIInv, TunnelsTypeOK
  <2>4. QED
    BY <2>2, <2>3 DEF PortsIInv, Active, Alive
<1>3. QED
  BY <1>1, <1>2

LEMMA SpawnKeepsPorts ==
  ASSUME PortsIInv, TableIInv', NEW s \in Starters, NEW p \in Processes, Spawn(s, p)
  PROVE  PortsIInv'
<1>1. /\ process[p].state = "unused" /\ tunnels' = tunnels /\ start[s].met = {}
      /\ process' = [process EXCEPT ![p] = [state |-> "starting", endpoint |-> start[s].endpoint, port |-> start[s].port]]
      /\ shared' = IF Sharers(s) # {} THEN shared \cup Sharers(s) \cup {p} ELSE shared
  BY DEF Spawn, PortsIInv, TableIInv
<1>2. start'[s].phase = "waiting" /\ \A r \in Starters \ {s} : start'[r] = start[r]
  BY DEF Spawn, PortsIInv, TableIInv, TunnelsTypeOK
<1>3. /\ process'[p].port = start[s].port /\ \A q \in Processes \ {p} : process'[q] = process[q]
      /\ (\A e \in Endpoints : tunnels[e] # p) /\ \A r \in Starters \ {s} : start[r].phase = "open" => start[r].process # p
  <2>1. process'[p].port = start[s].port /\ \A q \in Processes \ {p} : process'[q] = process[q]
    BY <1>1 DEF PortsIInv, TableIInv, TunnelsTypeOK
  <2>2. \A e \in Endpoints : tunnels[e] # p
    BY <1>1, NamesDiffer DEF PortsIInv, TableIInv
  <2>3. \A r \in Starters \ {s} : start[r].phase = "open" => start[r].process # p
    BY <1>1 DEF PortsIInv, TableIInv
  <2>4. QED
    BY <2>1, <2>2, <2>3
<1>4. ASSUME NEW q \in Processes, NEW other \in Processes, q # other, Alive(q)', Alive(other)',
             process'[q].port = process'[other].port
      PROVE  q \in shared'
  <2>1. CASE q # p /\ other # p
    BY <1>1, <1>3, <1>4, <2>1 DEF PortsIInv, Alive
  <2>2. CASE q = p
    <3>1. other \in Sharers(s)
      BY <1>1, <1>3, <1>4, <2>2 DEF Sharers, Alive
    <3>2. QED
      BY <1>1, <2>2, <3>1
  <2>3. CASE other = p
    <3>1. q \in Sharers(s)
      BY <1>1, <1>3, <1>4, <2>3 DEF Sharers, Alive
    <3>2. QED
      BY <1>1, <3>1
  <2>4. QED
    BY <2>1, <2>2, <2>3
<1>5. \A r \in Starters : start'[r].phase = "open" => r # s /\ start'[r] = start[r] /\ process'[start[r].process] = process[start[r].process]
  BY <1>2, <1>3 DEF PortsIInv, TableIInv
<1>6. \A e \in Endpoints : tunnels[e] # None => process'[tunnels[e]] = process[tunnels[e]]
  BY <1>3 DEF PortsIInv, TableIInv, TunnelsTypeOK
<1>7. shared \subseteq shared'
  BY <1>1
<1>8. QED
  BY <1>1, <1>4, <1>5, <1>6, <1>7 DEF PortsIInv, Active, Alive

LEMMA CallsKeepPorts ==
  ASSUME PortsIInv, TableIInv', NEW s \in Starters, SpawnFails(s) \/ PortOpens(s) \/ PortTimesOut(s) \/ Register(s)
  PROVE  PortsIInv'
<1>1. UNCHANGED <<process, shared>> /\ \A r \in Starters \ {s} : start'[r] = start[r]
  BY DEF SpawnFails, PortOpens, PortTimesOut, Register, marks, PortsIInv, TableIInv, TunnelsTypeOK
<1>2. CASE PortOpens(s)
  <2>1. tunnels' = tunnels /\ start'[s].process = start[s].process
    BY <1>2 DEF PortOpens, PortsIInv, TableIInv, TunnelsTypeOK
  <2>2. PICK q \in Processes : process[q].state = "listening" /\ process[q].port = start[s].port
    BY <1>2 DEF PortOpens, Listeners
  <2>3. start[s].process \in Processes /\ process[start[s].process].port = start[s].port
    BY <1>2 DEF PortOpens, PortsIInv, TableIInv
  <2>4. Alive(start[s].process) /\ start[s].process \notin shared => process[start[s].process].state = "listening"
    BY <2>2, <2>3 DEF PortsIInv, Alive
  <2>5. QED
    BY <1>1, <2>1, <2>4 DEF PortsIInv, Active, Alive
<1>3. CASE SpawnFails(s) \/ PortTimesOut(s)
  <2>1. tunnels' = tunnels /\ start'[s].phase = "idle"
    BY <1>3 DEF SpawnFails, PortTimesOut, NoCall, PortsIInv, TableIInv, TunnelsTypeOK
  <2>2. QED
    BY <1>1, <2>1 DEF PortsIInv, Active, Alive
<1>4. CASE Register(s)
  <2>1. start[s].phase = "open" /\ start'[s].phase = "idle"
    BY <1>4 DEF Register, NoCall, PortsIInv, TableIInv, TunnelsTypeOK
  <2>2. \A e \in Endpoints : tunnels'[e] = tunnels[e] \/ (tunnels'[e] = start[s].process)
    BY <1>4 DEF Register, PortsIInv, TableIInv, TunnelsTypeOK
  <2>3. QED
    BY <1>1, <2>1, <2>2 DEF PortsIInv, Active, Alive
<1>5. QED
  BY <1>2, <1>3, <1>4

LEMMA OthersKeepPorts ==
  ASSUME PortsIInv, TableIInv',
         \/ StopForgets \/ StopFails \/ List \/ UNCHANGED tunnelVars
         \/ \E a \in held : OperationEnds(a)
         \/ \E e \in Endpoints : StopKills(e)
         \/ \E p \in Processes : Listens(p) \/ Dies(p)
  PROVE  PortsIInv'
<1>1. UNCHANGED <<start, shared>>
  BY DEF StopForgets, StopFails, List, OperationEnds, StopKills, Listens, Dies, tunnelVars, marks
<1>2. \A e \in Endpoints : tunnels'[e] = None \/ tunnels'[e] = tunnels[e]
  BY DEF StopForgets, StopFails, List, OperationEnds, StopKills, Listens, Dies, tunnelVars, PortsIInv, TableIInv, TunnelsTypeOK
<1>3. \A p \in Processes : /\ process'[p].port = process[p].port
                           /\ Alive(p)' => Alive(p) /\ (process'[p].state = process[p].state \/ process'[p].state = "listening")
  <2> USE DEF PortsIInv, TableIInv, TunnelsTypeOK, Alive
  <2>1. CASE \/ StopFails \/ List \/ UNCHANGED tunnelVars \/ \E a \in held : OperationEnds(a)
             \/ \E e \in Endpoints : StopKills(e)
    BY <2>1 DEF StopFails, List, OperationEnds, StopKills, tunnelVars
  <2>2. CASE StopForgets
    <3>1. stop.process \in Processes /\ process' = [process EXCEPT ![stop.process].state = "dead"]
      BY <2>2 DEF StopForgets
    <3>2. QED
      BY <3>1
  <2>3. CASE \E p \in Processes : Listens(p) \/ Dies(p)
    BY <2>3 DEF Listens, Dies
  <2>4. QED
    BY <2>1, <2>2, <2>3
<1>4. \A e \in Endpoints : Active(e)' => tunnels'[e] = tunnels[e] /\ tunnels[e] \in Processes /\ Active(e)
  BY <1>2, <1>3 DEF Active, Alive, PortsIInv, TableIInv, TunnelsTypeOK
<1>5. \A s \in Starters : start[s].phase = "open" => start[s].process \in Processes
  BY DEF PortsIInv, TableIInv
<1>6. \A p, q \in Processes : p # q /\ Alive(p)' /\ Alive(q)' /\ process'[p].port = process'[q].port => p \in shared'
  BY <1>1, <1>3 DEF PortsIInv
<1>7. \A s \in Starters : start'[s].phase = "open" /\ Alive(start[s].process)' /\ start'[s].process \notin shared' =>
        process'[start'[s].process].state = "listening"
  BY <1>1, <1>3, <1>5 DEF PortsIInv, Alive
<1>8. \A e \in Endpoints : Active(e)' /\ tunnels'[e] \notin shared' => process'[tunnels'[e]].state = "listening"
  BY <1>1, <1>3, <1>4 DEF PortsIInv, Active, Alive
<1>9. QED
  BY <1>6, <1>7, <1>8 DEF PortsIInv

LEMMA PortsInductive == PortsIInv /\ [TunnelsNext]_tunnelVars => PortsIInv'
<1> SUFFICES ASSUME PortsIInv, [TunnelsNext]_tunnelVars PROVE PortsIInv'
  OBVIOUS
<1>1. TableIInv'
  BY TableInductive DEF PortsIInv
<1>2. QED
  BY <1>1, StartKeepsPorts, SpawnKeepsPorts, CallsKeepPorts, OthersKeepPorts DEF TunnelsNext

\* Threads, requested ports and slow deaths included: a live tunnel of the table that
\* never had to share its port listens there itself.
THEOREM LiveTunnelsLeadHome == TunnelsSpec => []TunnelsLeadHome
<1>1. PortsIInv => TunnelsLeadHome
  BY DEF PortsIInv, TunnelsLeadHome, Leads, Listeners, Active, TableIInv, TunnelsTypeOK
<1>2. QED
  BY <1>1, PortsInitially, PortsInductive, PTL DEF TunnelsSpec

\* The address start_tunnel() answers leads to the endpoint it was asked for, or a process
\* that lives beside another one of its port was given it.
THEOREM GivenTunnelsWork == TunnelsSpec => GivenAddressesWork
<1>1. ASSUME PortsIInv, [TunnelsNext]_tunnelVars, NEW a \in held' \ held
      PROVE  \/ Leads(a.port, a.endpoint)
             \/ \E p \in shared : Alive(p) /\ process[p].port = a.port
  <2>1. \/ \E s \in Starters, e \in Endpoints : StartTunnel(s, e)
        \/ \E s \in Starters : Register(s)
    BY <1>1 DEF TunnelsNext, Spawn, SpawnFails, PortOpens, PortTimesOut, StopForgets, StopFails, List,
                OperationEnds, StopKills, Listens, Dies, tunnelVars
  <2>2. \E p \in Processes : /\ Alive(p) /\ process[p].endpoint = a.endpoint /\ process[p].port = a.port
                             /\ p \notin shared => process[p].state = "listening"
    <3>1. ASSUME NEW s \in Starters, NEW e \in Endpoints, StartTunnel(s, e)
          PROVE  \E p \in Processes : /\ Alive(p) /\ process[p].endpoint = a.endpoint /\ process[p].port = a.port
                                      /\ p \notin shared => process[p].state = "listening"
      <4>1. Active(e) /\ a = [endpoint |-> e, port |-> process[tunnels[e]].port]
        BY <1>1, <3>1 DEF StartTunnel
      <4>2. tunnels[e] \in Processes /\ process[tunnels[e]].endpoint = e
        BY <1>1, <4>1 DEF Active, PortsIInv, TableIInv, TunnelsTypeOK
      <4>3. QED
        BY <1>1, <4>1, <4>2 DEF Active, PortsIInv
    <3>2. ASSUME NEW s \in Starters, Register(s)
          PROVE  \E p \in Processes : /\ Alive(p) /\ process[p].endpoint = a.endpoint /\ process[p].port = a.port
                                      /\ p \notin shared => process[p].state = "listening"
      <4>1. Alive(start[s].process) /\ a = [endpoint |-> start[s].endpoint, port |-> start[s].port]
        BY <1>1, <3>2 DEF Register
      <4>2. QED
        BY <1>1, <3>2, <4>1 DEF Register, PortsIInv, TableIInv
    <3>3. QED
      BY <2>1, <3>1, <3>2
  <2>3. QED
    BY <2>2 DEF Leads, Listeners
<1>2. PortsIInv /\ [TunnelsNext]_tunnelVars =>
        [\A a \in held' \ held :
           \/ Leads(a.port, a.endpoint)
           \/ \E p \in shared : Alive(p) /\ process[p].port = a.port]_tunnelVars
  BY <1>1
<1>3. QED
  BY <1>2, PortsInitially, PortsInductive, PTL DEF TunnelsSpec, GivenAddressesWork

================================================================================
