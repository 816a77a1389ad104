---------------------------- MODULE MCImportedConfig ----------------------------
(* Instances of ImportedConfig for TLC. *)
EXTENDS ImportedConfig

AtMidnight == [s \in Settings |-> {0}]
=============================================================================
