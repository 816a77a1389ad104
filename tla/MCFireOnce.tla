------------------------------ MODULE MCFireOnce ------------------------------
(* Instances of FireOnce for TLC. *)
EXTENDS FireOnce

\* Cron expressions that match fifteen minutes apart, as the API demands; an edit may
\* move the schedule to the other one a minute later.
OnTheQuarter == [s \in Settings |-> {0, 15} \cap Minutes]
TwoCrons == [s \in Settings |-> (IF s \in Remote THEN {1, 16} ELSE {0, 15}) \cap Minutes]
=============================================================================
