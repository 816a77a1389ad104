------------------------------ MODULE MCAdmission ------------------------------
(* Small instances of Admission: one user, two endpoints, one connection. *)
EXTENDS Admission
CONSTANTS ana, east, west, ws, v16, v17

Dumps == [kind : {"backup"}, source : Endpoints, dest : {None}, clean : {FALSE}, confirmed : {FALSE}, conflict : BOOLEAN]
Restores == [kind : {"restore"}, source : {None}, dest : Endpoints, clean : BOOLEAN, confirmed : BOOLEAN, conflict : {FALSE}]
Transfers == [kind : {"transfer"}, source : Endpoints, dest : Endpoints, clean : {TRUE}, confirmed : {FALSE}, conflict : BOOLEAN]
Statements == [kind : {"query", "role"}, source : {None}, dest : Endpoints, clean : {FALSE}, confirmed : BOOLEAN, conflict : {FALSE}]

Streams == Dumps \cup Restores \cup Transfers
DumpsAndRestores == Dumps \cup Restores
Everything == Streams \cup Statements
=============================================================================
