---------------------------- MODULE AdmissionProofs ----------------------------
(***************************************************************************)
(* Proofs about Admission, for any number of users, endpoints,             *)
(* connections and client versions: scopes are kept, and once an endpoint  *)
(* is read-only only what was already on its way writes to it.             *)
(***************************************************************************)
EXTENDS Admission, TLAPS

\* What is running, and what is opened, is within the reach its user had.
WithinReach ==
  \A s \in Sockets :
    /\ socket[s].phase = "running" => \A c \in socket[s].connects : Reaches(socket[s].user, c.endpoint)
    /\ \A c \in opened[s] : Reaches(socket[s].user, c.endpoint)
    /\ socket[s].phase \in {"new", "accepted"} => opened[s] = {} /\ s \notin stale /\ socket[s].connects = {}

\* Where a connection may be opened.
Allowed(c) == c.writes => Exists(c.endpoint) /\ Writable(c.endpoint)

\* As long as its endpoints stay what they were, whatever an operation is to connect to is allowed.
CheckHolds == \A s \in Sockets \ stale : \A c \in socket[s].connects : Allowed(c)

AdmissionIInv == AdmissionTypeOK /\ WithinReach /\ CheckHolds

-----------------------------------------------------------------------------
(* Requests *)

\* A request names endpoints where its kind needs them, and they exist once it is accepted.
LEMMA AcceptedEndpoints ==
  ASSUME AdmissionTypeOK, NEW r \in Requests, NEW user, Accepted(user, r)
  PROVE  /\ r.kind \in {"backup", "transfer"} =>
              r.source \in Endpoints /\ endpoint[r.source] \in Definitions /\ Reaches(user, r.source)
         /\ r.kind # "backup" =>
              r.dest \in Endpoints /\ endpoint[r.dest] \in Definitions /\ Reaches(user, r.dest)
<1>1. /\ r \in AllRequests
      /\ r.source # None <=> r.kind \in {"backup", "transfer"}
      /\ r.dest # None <=> r.kind # "backup"
  BY AdmissionConstants DEF AdmissionConstants
<1>2. r.source \in Endpoints \cup {None} /\ r.dest \in Endpoints \cup {None}
  BY <1>1 DEF AllRequests
<1>3. endpoint \in [Endpoints -> Definitions \cup {None}]
  BY DEF AdmissionTypeOK
<1>4. ASSUME NEW e \in {r.source, r.dest}, e # None
      PROVE  e \in Endpoints /\ endpoint[e] \in Definitions /\ Reaches(user, e)
  <2>1. e \in Touched(r)
    BY <1>4 DEF Touched
  <2>2. endpoint[e] # None /\ Reaches(user, e)
    BY <2>1 DEF Accepted, Exists, InScope
  <2>3. QED
    BY <1>2, <1>3, <1>4, <2>2
<1>5. QED
  BY <1>1, <1>4

\* What an accepted request is to connect to is one of its endpoints, hence within reach,
\* and writes only where the endpoint may be written to.
LEMMA ConnectsWithinReach ==
  ASSUME AdmissionTypeOK, NEW r \in Requests, NEW user, Accepted(user, r),
         NEW connections,
         \/ r.kind = "backup" /\ connections = BackupConnects(r)
         \/ r.kind = "restore" /\ connections = RestoreConnects(r)
         \/ r.kind = "transfer" /\ connections = TransferConnects(r)
         \/ r.kind = "query" /\ connections = QueryConnects(r)
         \/ r.kind = "role" /\ connections = RoleConnects(r)
  PROVE  /\ connections \in SUBSET Connections
         /\ \A c \in connections : Reaches(user, c.endpoint) /\ Allowed(c)
<1>1. Default \in Versions
  BY AdmissionConstants DEF AdmissionConstants
<1>2. ASSUME NEW e, e \in Endpoints, NEW version \in Versions, NEW replica \in BOOLEAN, NEW writes \in BOOLEAN
      PROVE  /\ Connects(e, version, replica, writes) \in Connections
             /\ Connects(e, version, replica, writes).endpoint = e
             /\ Connects(e, version, replica, writes).writes = writes
  BY <1>2 DEF Connects, Connections
<1>3. r.kind \in {"backup", "transfer"} =>
        /\ r.source \in Endpoints /\ Reaches(user, r.source)
        /\ endpoint[r.source].version \in Versions /\ endpoint[r.source].replica \in BOOLEAN
  BY AcceptedEndpoints DEF Definitions
<1>4. r.kind # "backup" =>
        /\ r.dest \in Endpoints /\ Reaches(user, r.dest) /\ Exists(r.dest)
        /\ endpoint[r.dest].version \in Versions /\ Writable(r.dest) \in BOOLEAN
        /\ r.kind # "query" => Writable(r.dest)
  <2>1. r.kind \in Kinds
    BY AdmissionConstants DEF AdmissionConstants, AllRequests
  <2>2. r.kind \notin {"backup", "query"} => Writable(r.dest)
    BY <2>1 DEF Accepted, MayWrite, Kinds
  <2>3. r.kind # "backup" => Exists(r.dest)
    BY AcceptedEndpoints, AdmissionConstants DEF AdmissionConstants, Exists
  <2>4. QED
    BY <2>2, <2>3, AcceptedEndpoints DEF Definitions, Writable
<1>5. ASSUME NEW c \in connections PROVE c \in Connections /\ Reaches(user, c.endpoint) /\ Allowed(c)
  <2>1. CASE r.kind = "backup"
    <3>1. c = Connects(r.source, endpoint[r.source].version, endpoint[r.source].replica, FALSE)
      BY <1>5, <2>1 DEF BackupConnects
    <3>2. QED
      BY <1>2, <1>3, <2>1, <3>1 DEF Allowed
  <2>2. CASE r.kind = "restore"
    <3>1. c = Connects(r.dest, endpoint[r.dest].version, FALSE, TRUE)
      BY <1>5, <2>2 DEF RestoreConnects
    <3>2. QED
      BY <1>2, <1>4, <2>2, <3>1 DEF Allowed
  <2>3. CASE r.kind = "transfer"
    <3>1. c = Connects(r.source, Default, FALSE, FALSE) \/ c = Connects(r.dest, Default, FALSE, TRUE)
      BY <1>5, <2>3 DEF TransferConnects
    <3>2. CASE c = Connects(r.source, Default, FALSE, FALSE)
      BY <1>1, <1>2, <1>3, <2>3, <3>2 DEF Allowed
    <3>3. CASE c = Connects(r.dest, Default, FALSE, TRUE)
      BY <1>1, <1>2, <1>4, <2>3, <3>3 DEF Allowed
    <3>4. QED
      BY <3>1, <3>2, <3>3
  <2>4. CASE r.kind = "query"
    <3>1. c = Connects(r.dest, endpoint[r.dest].version, FALSE, Writable(r.dest))
      BY <1>5, <2>4 DEF QueryConnects
    <3>2. c \in Connections /\ c.endpoint = r.dest /\ c.writes = Writable(r.dest)
      BY <1>2, <1>4, <2>4, <3>1
    <3>3. Exists(r.dest) /\ Reaches(user, r.dest)
      BY <1>4, <2>4
    <3>4. QED
      BY <3>2, <3>3 DEF Allowed
  <2>5. CASE r.kind = "role"
    <3>1. PICK writes \in BOOLEAN : c = Connects(r.dest, endpoint[r.dest].version, FALSE, writes)
      BY <1>5, <2>5 DEF RoleConnects
    <3>2. r.dest \in Endpoints /\ Exists(r.dest) /\ Reaches(user, r.dest) /\ Writable(r.dest)
          /\ endpoint[r.dest].version \in Versions
      BY <1>4, <2>5
    <3>3. c \in Connections /\ c.endpoint = r.dest
      BY <1>2, <3>1, <3>2
    <3>4. QED
      BY <3>2, <3>3 DEF Allowed
  <2>6. QED
    BY <2>1, <2>2, <2>3, <2>4, <2>5
<1>6. QED
  BY <1>5

-----------------------------------------------------------------------------
(* Each step preserves the invariant *)

SocketRecords ==
  [phase : {"new", "accepted", "running", "over"}, name : Users \cup {None},
   user : Accounts \cup {None}, connects : SUBSET Connections]

\* A step that gives one connection another record, and changes nothing else.
LEMMA SocketMoves ==
  ASSUME AdmissionIInv, NEW s \in Sockets, NEW record \in SocketRecords,
         socket' = [socket EXCEPT ![s] = record], UNCHANGED <<account, endpoint, opened, stale>>,
         record.phase \notin {"new", "accepted"} => record.user = socket[s].user /\ record.user # None,
         record.phase = "running" => \A c \in record.connects : Reaches(record.user, c.endpoint),
         record.phase \in {"new", "accepted"} =>
           socket[s].phase = "new" /\ record.connects = {} /\ record.user # None,
         s \notin stale => \A c \in record.connects : Allowed(c)
  PROVE  AdmissionIInv'
<1>1. socket \in [Sockets -> SocketRecords]
  BY DEF AdmissionIInv, AdmissionTypeOK, SocketRecords
<1>2. socket'[s] = record /\ \A x \in Sockets \ {s} : socket'[x] = socket[x]
  BY <1>1
<1>3. AdmissionTypeOK'
  <2>1. socket' \in [Sockets -> SocketRecords]
    BY <1>1
  <2>2. \A x \in Sockets : socket'[x].phase # "new" => socket'[x].user # None
    BY <1>2 DEF AdmissionIInv, AdmissionTypeOK
  <2>3. QED
    BY <2>1, <2>2 DEF AdmissionIInv, AdmissionTypeOK, SocketRecords
<1>4. WithinReach'
  BY <1>2 DEF AdmissionIInv, WithinReach, Reaches
<1>5. CheckHolds'
  BY <1>2 DEF AdmissionIInv, CheckHolds, Allowed, Exists, Writable
<1>6. QED
  BY <1>3, <1>4, <1>5 DEF AdmissionIInv

LEMMA AcceptKeeps ==
  ASSUME AdmissionIInv, NEW s \in Sockets, NEW u \in Users, Accept(s, u) PROVE AdmissionIInv'
<1>1. /\ socket[s] \in SocketRecords /\ socket[s].phase = "new"
      /\ socket[s].connects = {} /\ account[u] \in Accounts
  BY DEF AdmissionIInv, AdmissionTypeOK, SocketRecords, WithinReach, Accept, LetIn
<1> DEFINE record == [socket[s] EXCEPT !.phase = "accepted", !.name = u, !.user = account[u]]
<1>2. record \in SocketRecords /\ record.phase = "accepted" /\ record.user = account[u] /\ record.connects = {}
  BY <1>1 DEF SocketRecords
<1>3. socket' = [socket EXCEPT ![s] = record] /\ UNCHANGED <<account, endpoint, opened, stale>> /\ account[u] # None
  BY DEF Accept, LetIn
<1> HIDE DEF record
<1>4. QED
  BY <1>1, <1>2, <1>3, SocketMoves

LEMMA BeginsKeeps ==
  ASSUME AdmissionIInv, NEW s \in Sockets, NEW r \in Requests,
         BackupBegins(s, r) \/ RestoreBegins(s, r) \/ TransferBegins(s, r) \/ QueryQueued(s, r) \/ RoleQueued(s, r)
  PROVE  AdmissionIInv'
<1>1. PICK connections :
        /\ Begins(s, r, connections)
        /\ \/ r.kind = "backup" /\ connections = BackupConnects(r)
           \/ r.kind = "restore" /\ connections = RestoreConnects(r)
           \/ r.kind = "transfer" /\ connections = TransferConnects(r)
           \/ r.kind = "query" /\ connections = QueryConnects(r)
           \/ r.kind = "role" /\ connections = RoleConnects(r)
  BY DEF BackupBegins, RestoreBegins, TransferBegins, QueryQueued, RoleQueued
<1>2. /\ connections \in SUBSET Connections
      /\ \A c \in connections : Reaches(socket[s].user, c.endpoint) /\ Allowed(c)
  BY <1>1, ConnectsWithinReach DEF AdmissionIInv, Begins
<1> DEFINE record == [socket[s] EXCEPT !.phase = "running", !.connects = connections]
<1>3. socket[s] \in SocketRecords /\ socket[s].user # None
  BY <1>1 DEF AdmissionIInv, AdmissionTypeOK, SocketRecords, Begins
<1>4. /\ record \in SocketRecords /\ record.phase = "running" /\ record.user = socket[s].user
      /\ record.connects = connections
  BY <1>2, <1>3 DEF SocketRecords
<1>5. socket' = [socket EXCEPT ![s] = record] /\ UNCHANGED <<account, endpoint, opened, stale>>
  BY <1>1 DEF Begins
<1> HIDE DEF record
<1>6. QED
  BY <1>2, <1>3, <1>4, <1>5, SocketMoves

LEMMA EndsKeep ==
  ASSUME AdmissionIInv, NEW s \in Sockets, Ends(s) PROVE AdmissionIInv'
<1> DEFINE record == [socket[s] EXCEPT !.phase = "over"]
<1>1. socket[s] \in SocketRecords /\ socket[s].user # None
  BY DEF AdmissionIInv, AdmissionTypeOK, SocketRecords, Ends
<1>2. /\ record \in SocketRecords /\ record.phase = "over" /\ record.user = socket[s].user
      /\ record.connects = socket[s].connects
  BY <1>1 DEF SocketRecords
<1>3. socket' = [socket EXCEPT ![s] = record] /\ UNCHANGED <<account, endpoint, opened, stale>>
  BY DEF Ends
<1>4. s \notin stale => \A c \in socket[s].connects : Allowed(c)
  BY DEF AdmissionIInv, CheckHolds
<1> HIDE DEF record
<1>5. QED
  BY <1>1, <1>2, <1>3, <1>4, SocketMoves

LEMMA OpensKeeps ==
  ASSUME AdmissionIInv, NEW s \in Sockets, NEW c \in Connections, Opens(s, c) PROVE AdmissionIInv'
<1>1. /\ opened \in [Sockets -> SUBSET Connections] /\ opened' = [opened EXCEPT ![s] = opened[s] \cup {c}]
      /\ socket[s].phase = "running" /\ c \in socket[s].connects
      /\ UNCHANGED <<account, endpoint, socket, stale>>
  BY DEF AdmissionIInv, AdmissionTypeOK, Opens
<1>2. opened'[s] = opened[s] \cup {c} /\ \A x \in Sockets \ {s} : opened'[x] = opened[x]
  BY <1>1
<1>3. AdmissionTypeOK'
  BY <1>1 DEF AdmissionIInv, AdmissionTypeOK
<1>4. WithinReach'
  BY <1>1, <1>2 DEF AdmissionIInv, WithinReach, Reaches
<1>5. CheckHolds'
  BY <1>1 DEF AdmissionIInv, CheckHolds, Allowed, Exists, Writable
<1>6. QED
  BY <1>3, <1>4, <1>5 DEF AdmissionIInv

\* A change of an endpoint leaves the operations on other endpoints as they were checked.
LEMMA EndpointChangeKeeps ==
  ASSUME AdmissionIInv, NEW e \in Endpoints, SaveEndpoint(e) PROVE AdmissionIInv'
<1>1. PICK new \in Definitions \cup {None} : endpoint' = [endpoint EXCEPT ![e] = new]
  BY DEF SaveEndpoint
<1>2. /\ stale' = stale \cup {s \in Sockets : \E c \in socket[s].connects : c.endpoint = e}
      /\ UNCHANGED <<account, socket, opened>>
  BY DEF SaveEndpoint
<1>3. AdmissionTypeOK'
  BY <1>1, <1>2 DEF AdmissionIInv, AdmissionTypeOK
<1>4. WithinReach'
  BY <1>2 DEF AdmissionIInv, WithinReach, Reaches
<1>5. CheckHolds'
  <2> SUFFICES ASSUME NEW s \in Sockets, s \notin stale', NEW c \in socket[s].connects PROVE Allowed(c)'
    BY <1>2 DEF CheckHolds
  <2>1. s \notin stale /\ c.endpoint # e
    BY <1>2
  <2>2. Allowed(c) /\ c.endpoint \in Endpoints
    BY <2>1 DEF AdmissionIInv, CheckHolds, AdmissionTypeOK, Connections
  <2>3. endpoint'[c.endpoint] = endpoint[c.endpoint]
    BY <1>1, <2>1, <2>2 DEF AdmissionIInv, AdmissionTypeOK
  <2>4. QED
    BY <2>2, <2>3 DEF Allowed, Exists, Writable
<1>6. QED
  BY <1>3, <1>4, <1>5 DEF AdmissionIInv

LEMMA AccountChangeKeeps ==
  ASSUME AdmissionIInv, NEW u \in Users, SaveAccount(u) PROVE AdmissionIInv'
BY DEF AdmissionIInv, AdmissionTypeOK, WithinReach, Reaches, CheckHolds, Allowed, Exists, Writable, SaveAccount

-----------------------------------------------------------------------------
(* Theorems *)

LEMMA AdmissionInitially == AdmissionInit => AdmissionIInv
<1> SUFFICES ASSUME AdmissionInit PROVE AdmissionIInv
  OBVIOUS
<1>1. \A s \in Sockets : socket[s] = NoSocket /\ opened[s] = {} /\ s \notin stale
  BY DEF AdmissionInit
<1>2. NoSocket \in SocketRecords /\ NoSocket.phase = "new" /\ NoSocket.connects = {}
  BY DEF NoSocket, SocketRecords
<1>3. account \in [Users -> Accounts \cup {None}]
  BY DEF AdmissionInit, Accounts
<1>4. AdmissionTypeOK
  BY <1>1, <1>2, <1>3 DEF AdmissionInit, AdmissionTypeOK, SocketRecords
<1>5. QED
  BY <1>1, <1>2, <1>4 DEF AdmissionIInv, WithinReach, CheckHolds

LEMMA AdmissionInductive == AdmissionIInv /\ [AdmissionNext]_admissionVars => AdmissionIInv'
<1> SUFFICES ASSUME AdmissionIInv, [AdmissionNext]_admissionVars PROVE AdmissionIInv'
  OBVIOUS
<1>1. ASSUME NEW s \in Sockets, (\E u \in Users : Accept(s, u)) \/ (\E c \in Connections : Opens(s, c)) \/ Ends(s)
      PROVE  AdmissionIInv'
  BY <1>1, AcceptKeeps, OpensKeeps, EndsKeep
<1>2. ASSUME NEW s \in Sockets, NEW r \in Requests,
             BackupBegins(s, r) \/ RestoreBegins(s, r) \/ TransferBegins(s, r)
             \/ QueryQueued(s, r) \/ RoleQueued(s, r)
      PROVE  AdmissionIInv'
  BY <1>2, BeginsKeeps
<1>3. CASE UNCHANGED admissionVars
  BY <1>3 DEF admissionVars, AdmissionIInv, AdmissionTypeOK, WithinReach, Reaches, CheckHolds, Allowed, Exists, Writable
<1>4. QED
  BY <1>1, <1>2, <1>3, EndpointChangeKeeps, AccountChangeKeeps DEF AdmissionNext

\* Accounts, endpoints and connections keep their types, whatever runs stays within the
\* scope its user had when the connection was accepted, and the check of the request
\* holds for what is still to be connected to until an administrator changes an endpoint of it.
THEOREM AdmissionInvariant == AdmissionSpec => []AdmissionIInv
BY AdmissionInitially, AdmissionInductive, PTL DEF AdmissionSpec

\* Accounts, endpoints and connections keep their types.
THEOREM AdmissionTypes == AdmissionSpec => []AdmissionTypeOK
<1>1. AdmissionIInv => AdmissionTypeOK
  BY DEF AdmissionIInv
<1>2. QED
  BY <1>1, AdmissionInvariant, PTL

\* Whatever administrators change, nothing connects to an endpoint outside
\* the scope its user had when the connection was accepted.
THEOREM ScopesAreKept == AdmissionSpec => []ScopesKept
<1>1. AdmissionIInv => ScopesKept
  BY DEF AdmissionIInv, WithinReach, ScopesKept
<1>2. QED
  BY <1>1, AdmissionInvariant, PTL

\* README.md, read-only endpoints: from the moment an endpoint is read-only, or gone, only
\* the operations already on their way still come to write to it.
THEOREM LateWritesAreEarlier == AdmissionSpec => ReadOnlyFromThenOn
<1>1. ASSUME AdmissionIInv, [AdmissionNext]_admissionVars, NEW s \in Sockets \ stale, NEW c \in NewlyOpened(s)
      PROVE  Allowed(c)
  <2>1. opened \in [Sockets -> SUBSET Connections] /\ opened'[s] # opened[s]
    BY <1>1 DEF AdmissionIInv, AdmissionTypeOK, NewlyOpened
  <2>2. PICK x \in Sockets, d \in Connections : Opens(x, d)
    BY <1>1, <2>1 DEF AdmissionNext, Accept, Ends, BackupBegins, RestoreBegins, TransferBegins, QueryQueued,
                      RoleQueued, Begins, SaveAccount, SaveEndpoint, admissionVars
  <2>3. d \in socket[x].connects /\ opened' = [opened EXCEPT ![x] = opened[x] \cup {d}]
    BY <2>2 DEF Opens
  <2>4. x = s /\ c = d
    BY <1>1, <2>1, <2>3 DEF NewlyOpened
  <2>5. QED
    BY <1>1, <2>3, <2>4 DEF AdmissionIInv, CheckHolds
<1>2. AdmissionIInv /\ [AdmissionNext]_admissionVars =>
        [\A s \in Sockets \ stale : \A c \in NewlyOpened(s) :
           c.writes => Exists(c.endpoint) /\ Writable(c.endpoint)]_admissionVars
  BY <1>1 DEF Allowed
<1>3. QED
  BY <1>2, AdmissionInvariant, PTL DEF AdmissionSpec, ReadOnlyFromThenOn
================================================================================
