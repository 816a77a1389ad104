----------------------------- MODULE ImportedConfig -----------------------------
(***************************************************************************)
(* Scheduled backups when an administrator also imports config.ini files:  *)
(* the whole file is replaced in one step, the run-state is not touched.   *)
(***************************************************************************)
EXTENDS ScheduledBackups

\* import_config_content(): what is imported is already sanitised, which may
\* have disabled any of its schedules.
Import(imported) ==
  /\ up
  /\ config' = imported
  /\ UNCHANGED <<engine, state, history, cut, up, minute, seen, job, save>>

ImportNext ==
  \/ BackupNext
  \/ \E imported \in [Names -> Definition \cup {Undefined}] : Import(imported)

ImportSpec == BackupInit /\ [][ImportNext]_allVars

\* What README.md says of an import: the file replaces the configuration.  So
\* afterwards too, what a schedule does changes only by a committed save, a
\* deletion or another import, never by a run that still holds the replaced file.
ImportReplaces ==
  [][\A n \in Names : config'[n].settings # config[n].settings =>
       \/ config'[n] = Undefined
       \/ \E a \in Admins : save[a] = [name |-> n, def |-> config'[n]] /\ save'[a] = NoSave
       \/ Import(config')
    ]_allVars
=============================================================================
