-------------------------- MODULE MCScheduledBackups --------------------------
(* Small instances of ScheduledBackups. *)
EXTENDS ScheduledBackups

\* Midnight, and a quarter past where the instance has it.
OneCron == [s \in Settings |-> {0, 15} \cap Minutes]
=============================================================================
