----------------------------- MODULE MCConfigStore -----------------------------
(* Small instances of ConfigStore: one endpoint, and what administrators do. *)
EXTENDS ConfigStore
CONSTANTS a, loop, thread, k1, k3, kf

Saves == [kind : {"endpoint"}, endpoint : Endpoints] \cup [kind : {"store", "smtp"}, blank : BOOLEAN]
Encrypt == [kind : {"encrypt", "other"}]
Deletes == [kind : {"forget"}, endpoint : Endpoints]

\* Exports of another installation, and files written by hand.
FromElsewhere == [Empty EXCEPT !.endpoints = [e \in Endpoints |-> Foreign], !.store = Foreign, !.smtp = Foreign]
ByHand == [Empty EXCEPT !.endpoints = [e \in Endpoints |-> Plain], !.schedule = [e \in Endpoints |-> "on"]]
Dangling == [Empty EXCEPT !.schedule = [e \in Endpoints |-> "on"]]
OldDangling == [Dangling EXCEPT !.legacy = TRUE]
OldSecret == [OldDangling EXCEPT !.store = Foreign] \* sanitising it reads the key
Malformed == [Dangling EXCEPT !.malformed = TRUE]

\* An export of this installation.
Exported == [Empty EXCEPT !.endpoints = [e \in Endpoints |-> k1], !.store = k1]

Imports(contents) == [kind : {"import"}, content : contents]
MixedEdits == {q \in Saves : q.kind # "smtp"} \cup Encrypt \cup Deletes \cup Imports({FromElsewhere, ByHand, OldSecret, Exported, Malformed})
ForeignEdits == Saves \cup Imports({FromElsewhere})
DanglingEdits == Imports({Dangling})
MalformedEdits == Imports({Malformed})
OldEdits == Imports({OldDangling, ByHand})

\* Nothing reads .ini.bak: states that differ in it only are the same for the run.
ButTheCopy == <<file, keyFile, env, migrated, call, spoilt, late>>
=============================================================================
