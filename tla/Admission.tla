------------------------------- MODULE Admission -------------------------------
(***************************************************************************)
(* How an operation comes to start: main.py's WebSocket handlers of        *)
(* backup, restore and transfer, and the handlers that run statements in   *)
(* worker threads, while administrators change accounts and endpoints.  A  *)
(* handler knows its user from when the connection was accepted, and the   *)
(* endpoint from when the request came; it connects whenever its turn      *)
(* comes, a transfer to its destination once the source is dumped.         *)
(***************************************************************************)
EXTENDS Naturals

CONSTANTS
  Users, Endpoints,
  Sockets,  \* connections, each for one request
  Versions, \* PostgreSQL client versions
  Default,  \* the version of the settings' tool paths
  Requests, \* what clients ask for
  None

Kinds == {"backup", "restore", "transfer", "query", "role"}
AllRequests == [kind : Kinds, source : Endpoints \cup {None}, dest : Endpoints \cup {None},
                clean : BOOLEAN, confirmed : BOOLEAN, conflict : BOOLEAN]
Accounts == [role : {"admin", "operator", "viewer"}, usable : BOOLEAN, scope : SUBSET Endpoints]
Definitions == [readOnly : BOOLEAN, version : Versions, replica : BOOLEAN]
Connections == [endpoint : Endpoints, version : Versions, replica : BOOLEAN, writes : BOOLEAN]

\* Each kind of request names the endpoints it touches.
ASSUME AdmissionConstants ==
  /\ Requests \subseteq AllRequests /\ Default \in Versions
  /\ \A r \in Requests :
       /\ r.source # None <=> r.kind \in {"backup", "transfer"}
       /\ r.dest # None <=> r.kind # "backup"
  /\ None \notin Users \cup Endpoints \cup Accounts \cup Definitions \cup Requests

VARIABLES
  account,  \* users.json; usable: enabled and not locked
  endpoint, \* the endpoints of config.ini
  socket,   \* each connection: its user as accepted, and what its operation is to connect to
  opened,   \* what each operation has connected to
  stale     \* history: the operations whose endpoints were changed since they were checked

admissionVars == <<account, endpoint, socket, opened, stale>>

NoSocket == [phase |-> "new", name |-> None, user |-> None, connects |-> {}]

AdmissionTypeOK ==
  /\ account \in [Users -> Accounts \cup {None}] /\ endpoint \in [Endpoints -> Definitions \cup {None}]
  /\ socket \in [Sockets -> [phase : {"new", "accepted", "running", "over"}, name : Users \cup {None},
                             user : Accounts \cup {None}, connects : SUBSET Connections]]
  /\ opened \in [Sockets -> SUBSET Connections] /\ stale \subseteq Sockets
  /\ \A s \in Sockets : socket[s].phase # "new" => socket[s].user # None

AdmissionInit ==
  /\ account \in [Users -> [role : {"admin", "operator"}, usable : {TRUE}, scope : {Endpoints}]]
  /\ endpoint \in [Endpoints -> Definitions]
  /\ socket = [s \in Sockets |-> NoSocket]
  /\ opened = [s \in Sockets |-> {}] /\ stale = {}

-----------------------------------------------------------------------------
(* The guards *)

\* check_websocket_auth() or require_operator, and no viewers.
LetIn(u) == account[u] # None /\ account[u].usable /\ account[u].role # "viewer"

Reaches(user, e) == user.role = "admin" \/ e \in user.scope

Exists(e) == endpoint[e] # None
Writable(e) == ~ endpoint[e].readOnly

\* Mutant: a transfer is checked like a backup.
MayWriteDumps(r) == r.kind = "restore" => Writable(r.dest)

\* Restores, transfers and changes of roles are refused on a read-only endpoint.
MayWrite(r) == r.kind \in {"restore", "transfer", "role"} => Writable(r.dest)

Touched(r) == {r.source, r.dest} \ {None}

\* Mutant: the scope is asked of the first endpoint only.
InScopeOfSource(user, r) == Reaches(user, IF r.source # None THEN r.source ELSE r.dest)

InScope(user, r) == \A e \in Touched(r) : Reaches(user, e)

Accepted(user, r) == (\A e \in Touched(r) : Exists(e)) /\ InScope(user, r) /\ MayWrite(r)

-----------------------------------------------------------------------------
(* What an operation is to connect to *)

Connects(e, version, replica, writes) ==
  [endpoint |-> e, version |-> version, replica |-> replica, writes |-> writes]

BackupConnects(r) == {Connects(r.source, endpoint[r.source].version, endpoint[r.source].replica, FALSE)}

RestoreConnects(r) == {Connects(r.dest, endpoint[r.dest].version, FALSE, TRUE)}

\* run_transfer() is given neither endpoint's client.
TransferConnects(r) == {Connects(r.source, Default, FALSE, FALSE), Connects(r.dest, Default, FALSE, TRUE)}

\* In-app statements use psycopg2; a query session of a read-only endpoint is read-only,
\* and the roles of a superuser are asked for first.
QueryConnects(r) == {Connects(r.dest, endpoint[r.dest].version, FALSE, Writable(r.dest))}
RoleConnects(r) ==
  {Connects(r.dest, endpoint[r.dest].version, FALSE, writes) : writes \in IF r.confirmed THEN BOOLEAN ELSE {TRUE}}

-----------------------------------------------------------------------------
(* Connections *)

\* From here on the handler has the account as it was.
Accept(s, u) ==
  /\ socket[s].phase = "new" /\ LetIn(u)
  /\ socket' = [socket EXCEPT ![s] = [@ EXCEPT !.phase = "accepted", !.name = u, !.user = account[u]]]
  /\ UNCHANGED <<account, endpoint, opened, stale>>

\* From the arrival of the request to the start of its task, or its wait for a thread,
\* nothing waits; the task keeps the endpoint it was given.
Begins(s, r, connections) ==
  /\ socket[s].phase = "accepted" /\ Accepted(socket[s].user, r)
  /\ socket' = [socket EXCEPT ![s] = [@ EXCEPT !.phase = "running", !.connects = connections]]
  /\ UNCHANGED <<account, endpoint, opened, stale>>

BackupBegins(s, r) == r.kind = "backup" /\ ~ r.conflict /\ Begins(s, r, BackupConnects(r))
RestoreBegins(s, r) == r.kind = "restore" /\ (r.clean => r.confirmed) /\ Begins(s, r, RestoreConnects(r))
TransferBegins(s, r) == r.kind = "transfer" /\ ~ r.conflict /\ Begins(s, r, TransferConnects(r))
QueryQueued(s, r) == r.kind = "query" /\ Begins(s, r, QueryConnects(r))
RoleQueued(s, r) == r.kind = "role" /\ Begins(s, r, RoleConnects(r))

\* pg_dump, pg_restore or the thread's turn: what writes comes after what reads, once
\* the table of contents is read or the dump is complete.
Opens(s, c) ==
  /\ socket[s].phase = "running" /\ c \in socket[s].connects \ opened[s]
  /\ c.writes => \A d \in socket[s].connects : ~ d.writes => d \in opened[s]
  /\ opened' = [opened EXCEPT ![s] = @ \cup {c}]
  /\ UNCHANGED <<account, endpoint, socket, stale>>

\* A guard, a tunnel that does not open, a dump that fails; or it is done.
Ends(s) ==
  /\ socket[s].phase \in {"accepted", "running"}
  /\ socket' = [socket EXCEPT ![s].phase = "over"]
  /\ UNCHANGED <<account, endpoint, opened, stale>>

-----------------------------------------------------------------------------
(* Administrators *)

SaveAccount(u) ==
  /\ \E new \in Accounts \cup {None} : new # account[u] /\ account' = [account EXCEPT ![u] = new]
  /\ UNCHANGED <<endpoint, socket, opened, stale>>

SaveEndpoint(e) ==
  /\ \E new \in Definitions \cup {None} : new # endpoint[e] /\ endpoint' = [endpoint EXCEPT ![e] = new]
  /\ stale' = stale \cup {s \in Sockets : \E c \in socket[s].connects : c.endpoint = e}
  /\ UNCHANGED <<account, socket, opened>>

AdmissionNext ==
  \/ \E s \in Sockets :
       (\E u \in Users : Accept(s, u)) \/ (\E c \in Connections : Opens(s, c)) \/ Ends(s)
  \/ \E s \in Sockets, r \in Requests :
       BackupBegins(s, r) \/ RestoreBegins(s, r) \/ TransferBegins(s, r) \/ QueryQueued(s, r) \/ RoleQueued(s, r)
  \/ \E u \in Users : SaveAccount(u)
  \/ \E e \in Endpoints : SaveEndpoint(e)

AdmissionSpec == AdmissionInit /\ [][AdmissionNext]_admissionVars

-----------------------------------------------------------------------------
(* Properties *)

\* What an operation connects to in this step.
NewlyOpened(s) == opened'[s] \ opened[s]

\* README.md, read-only endpoints: once an endpoint is made read-only, or is deleted,
\* the only restores, transfers and statements that still come to write to it are those that were
\* already on their way, however long a dump or a queue holds them up.
ReadOnlyFromThenOn ==
  [][\A s \in Sockets \ stale : \A c \in NewlyOpened(s) :
       c.writes => Exists(c.endpoint) /\ Writable(c.endpoint)]_admissionVars

\* Nothing connects to an endpoint outside the scope its user had when
\* the connection was accepted, the destination of a transfer included.
ScopesKept ==
  \A s \in Sockets : \A c \in opened[s] : Reaches(socket[s].user, c.endpoint)

-----------------------------------------------------------------------------
(* What the code does not keep *)

\* README.md: restores and transfers to a read-only endpoint are refused -- whatever
\* was on its way included.
ReadOnlyRefused ==
  [][\A s \in Sockets : \A c \in NewlyOpened(s) :
       c.writes => Exists(c.endpoint) /\ Writable(c.endpoint)]_admissionVars

\* README.md: an operation runs with the client version of its endpoint, while that stays.
ClientsFit ==
  [][\A s \in Sockets \ stale : \A c \in NewlyOpened(s) :
       c.version = endpoint[c.endpoint].version]_admissionVars

\* A dump reads the replica exactly where the endpoint says so, while it says so.
ReplicasRead ==
  [][\A s \in Sockets \ stale : \A c \in NewlyOpened(s) :
       c.replica = (endpoint[c.endpoint].replica /\ ~ c.writes)]_admissionVars

\* main.py: the user still exists and is active, when an operation connects.
StillAllowed ==
  [][\A s \in Sockets : NewlyOpened(s) # {} => LetIn(socket[s].name)]_admissionVars

=============================================================================
